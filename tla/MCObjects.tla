------------------------------ MODULE MCObjects ------------------------------
(***************************************************************************)
(* Objects for TLC: three requests on a key and a copy source.             *)
(***************************************************************************)
EXTENDS Objects, TLC

Undated == [Retained EXCEPT !.until = "bad"]
Op(kind) == [Blank EXCEPT !.kind = kind, !.key = "k"]
Part(n, etag) == [part |-> n, etag |-> etag]

Writes ==
    {[Op("put") EXCEPT !.cond = Absent, !.lock = Undated, !.sse = "aws:kms", !.id = "b9"],
     [Op("put") EXCEPT !.cond = <<Old, "k">>, !.lock = Retained, !.sse = "aws:kms", !.id = "c1"],
     [Op("put") EXCEPT !.key = "s", !.sse = "AES256", !.lock.until = "bad"],
     [Op("copy") EXCEPT !.from = "s", !.fromCond = <<Old, "s">>, !.cond = Absent],
     [Op("copy") EXCEPT !.from = "s", !.fromCond = Malformed]}

Multipart ==
    {[Op("create") EXCEPT !.lock = [Undated EXCEPT !.mode = "none", !.hold = "ON"]],
     [Op("create") EXCEPT !.id = "c1"],
     [Op("part") EXCEPT !.part = 1],
     [Op("partcopy") EXCEPT !.part = 1, !.from = "s", !.fromCond = <<Old, "s">>],
     [Op("complete") EXCEPT !.parts = <<Part(1, <<Old, "1">>), Part(2, <<Old, "2">>)>>, !.cond = Absent],
     Op("abort")}

Others ==
    {[Op("delete") EXCEPT !.cond = <<Old, "k">>],
     [Op("delete") EXCEPT !.version = <<Old, 1>>, !.bypass = "true"],
     [Op("delete") EXCEPT !.version = <<Old, 1>>, !.bypass = "false"],
     [Op("delete") EXCEPT !.cond = Malformed],
     [Op("retention") EXCEPT !.lock = Undated],
     [Op("head") EXCEPT !.cond = <<Old, "k">>],
     [Op("tag") EXCEPT !.version = <<Old, 1>>, !.tags = <<"t">>],
     [Op("retention") EXCEPT !.bypass = "true"],
     [Op("hold") EXCEPT !.version = <<Old, 1>>, !.lock.hold = "ON"]}

MCOps == Writes \cup Multipart \cup Others

MCKeyMap == [id \in {"", "c1", "b9"} |-> IF id = "c1" THEN "b1" ELSE "b0"]
MCKeyNames == [id \in {"b0", "b1", "b9"} |-> IF id = "b1" THEN "c1" ELSE ""]
Symmetry == Permutations(Requests)
=============================================================================

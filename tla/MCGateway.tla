------------------------------ MODULE MCGateway ------------------------------
(***************************************************************************)
(* Gateway for TLC: two keys' worth of records under one id (rotated to    *)
(* another secret, moved to another tenant, given a user policy), a        *)
(* bucket whose owner and policy change, and a copy source.                *)
(***************************************************************************)
EXTENDS Gateway

Always == [valid |-> TRUE, ip |-> {}, notIp |-> {}]

Allow(action, names) ==
    [effect |-> "Allow", principal |-> [kind |-> "users", names |-> names],
     action |-> action, resource |-> {"b", "s"}, condition |-> Always]

Deny(action) ==
    [effect |-> "Deny", principal |-> [kind |-> "all", names |-> {}],
     action |-> action, resource |-> {"b", "s"}, condition |-> Always]

MCKey ==
    {[id |-> "k", secret |-> "1", tenant |-> "A", user |-> "u", policy |-> <<>>],
     [id |-> "k", secret |-> "2", tenant |-> "A", user |-> "u", policy |-> <<>>],
     [id |-> "k", secret |-> "1", tenant |-> "B", user |-> "u",
      policy |-> <<[effect |-> "Allow", action |-> {"Put", "Get", "Tag"}]>>]}

Anyone(methods) == [origins |-> {"o", "none"}, any |-> TRUE, methods |-> methods, headers |-> {}]
Only(origin) == [origins |-> {origin}, any |-> FALSE, methods |-> {"PUT"}, headers |-> {"h"}]

MCBucket ==
    {[name |-> "b", tenant |-> "A", backend |-> "x", policy |-> <<Deny({"Tag"})>>,
      CORS |-> <<Anyone({"GET"}), Only("o")>>],
     [name |-> "b", tenant |-> "B", backend |-> "x",
      policy |-> <<Allow({"Put", "Tag"}, {<<"A", "*">>})>>, CORS |-> <<Anyone({"PUT"}), Only("o")>>],
     [name |-> "b", tenant |-> "B", backend |-> "y", policy |-> <<>>, CORS |-> <<Only("o")>>],
     [name |-> "s", tenant |-> "A", backend |-> "x", policy |-> <<>>, CORS |-> <<>>],
     [name |-> "s", tenant |-> "B", backend |-> "x",
      policy |-> <<Allow({"Get"}, {<<"A", "u">>})>>, CORS |-> <<>>]}

Plain == [kind |-> "op", id |-> "k", secret |-> "1", source |-> "inside", bucket |-> "b",
          actions |-> <<"Put">>, src |-> "none", srcAction |-> "none",
          body |-> "document", origin |-> "o", method |-> "PUT", headers |-> {"h"}]

MCRequest ==
    {[Plain EXCEPT !.actions = <<"Get">>, !.body = "object", !.method = "GET"],
     [Plain EXCEPT !.actions = <<"Put", "Tag">>, !.origin = "none"],
     [Plain EXCEPT !.src = "s", !.srcAction = "Get"],
     [Plain EXCEPT !.kind = "list", !.actions = <<>>],
     [Plain EXCEPT !.kind = "preflight", !.actions = <<>>]}
=============================================================================

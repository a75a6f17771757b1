----------------------------- MODULE RequestBody -----------------------------
(***************************************************************************)
(* The body of a request between the client's connection and what the      *)
(* gateway does with it: requestBody (s3gw/proxy.go) picks a reader by the *)
(* signed payload hash, an aws-chunked stream (ChunkedReader, extended     *)
(* here), a payloadVerifier for a concrete hash, or the body as it comes.  *)
(* The consumer is the SDK, which forwards the declared length to the      *)
(* backend, or readXMLBody, which collects at most MaxXML bytes.           *)
(*                                                                         *)
(* A hash is the sequence it was computed over; the client signed that of  *)
(* Payload, and what arrives on the connection is anything of the declared *)
(* length, or less when the connection or the bandwidth limiter fails.     *)
(***************************************************************************)
EXTENDS ChunkedReader

CONSTANTS MaxXML    \* maxXMLBodySize

ASSUME BodyAssumption == MaxXML \in Nat \ {0}

VARIABLES req,      \* the verified request's headers, and who consumes the body
          body,     \* the reader requestBody picked
          plain,    \* the reader of a body that is not a stream
          taken     \* "whole" or "cut": the consumer of such a body has it, or
                    \* readXMLBody reached its limit

bodyVars == <<req, body, plain, taken>>

Streaming == {"signed", "signed-trailer", "unsigned-trailer"}
Trailing == {"signed-trailer", "unsigned-trailer"}

\* A declared length: absent (negative, and for the decoded length also
\* unreadable), or given.
Lengths == -1 .. MaxLength

\* x-amz-trailer names checksums the policy has verified, ones the gateway can
\* compute but the policy does not offer, or something else.
Trailers == {<<>>, <<"verified">>, <<"computable">>, <<"other">>, <<"verified", "computable">>}

Request == [hash : Streaming \cup {"hex", "unsigned"}, trailer : Trailers,
            decoded : Lengths, length : Lengths, consumer : {"sdk", "xml"}]

\* sigv4.IsStreaming
IsStreaming(hash) == hash \in Streaming

\* checksum.TrailerAlgorithm
TrailerAlgorithm(trailers) ==
    IF trailers = <<>> THEN "none"
    ELSE IF Len(trailers) = 1 /\ trailers[1] # "other" THEN trailers[1]
    ELSE "error"

\* checkTrailer succeeds
checkTrailer(alg) == alg \in {"none", "verified"}

\* The reader requestBody returns, or "refused".
requestBody(q) ==
    LET alg == TrailerAlgorithm(q.trailer) IN
    IF \/ alg = "error" \/ ~checkTrailer(alg)
       \/ alg # "none" /\ q.hash \notin Trailing
       \/ (IF IsStreaming(q.hash) THEN q.decoded ELSE q.length) < 0
    THEN "refused"
    ELSE IF IsStreaming(q.hash) THEN "stream"
    ELSE IF q.hash = "hex" THEN "verifier" ELSE "raw"

\* The arguments NewChunkedReader is called with, if it is.
NewChunkedReader(q) ==
    /\ requestBody(q) = "stream" =>
         /\ kind = q.hash
         /\ ckAlg = (IF q.trailer = <<>> THEN "none" ELSE "declared")
         /\ decodedLength = q.decoded
    /\ requestBody(q) # "stream" =>
         kind = "signed" /\ ckAlg = "none" /\ decodedLength = 0

\* Fields no reader looks at are left at one value.
Relevant(q) ==
    /\ IF IsStreaming(q.hash) THEN q.length = -1 ELSE q.decoded = -1

BInit ==
    /\ Init
    /\ req \in Request /\ Relevant(req) /\ NewChunkedReader(req)
    /\ body = "none"
    /\ plain = [remaining |-> 0, sum |-> <<>>, done |-> "no", end |-> "none", got |-> <<>>]
    /\ taken = "no"

\* requestBody is called by the handler (putObject, uploadPart, readXMLBody).
PickReader ==
    /\ body = "none"
    /\ body' = requestBody(req)
    /\ plain' = IF body' = "verifier" THEN [plain EXCEPT !.remaining = req.length] ELSE plain
    /\ UNCHANGED <<vars, req, taken>>

-----------------------------------------------------------------------------
(* The readers *)

XML == req.consumer = "xml"

\* What io.LimitReader lets readXMLBody take.
Within(s) == XML => Len(s) <= MaxXML

\* The consumer reads the aws-chunked stream; io.ReadAll reads on to io.EOF.
ReadStream ==
    /\ body = "stream" /\ taken = "no"
    /\ XML => Len(got) < MaxXML
    /\ Next
    /\ Within(got')
    /\ XML /\ consumer' = "stored" => end' = "eof"
    /\ UNCHANGED bodyVars

\* countingBody.Read over the server's body of Content-Length bytes: data, and
\* io.EOF with or after the last of it; a connection that closes early or a
\* limiter that refuses is an error, whatever came with it.
CountingRead(data, err) ==
    /\ Len(plain.got) + Len(data) <= req.length
    /\ err = "eof" => Len(plain.got) + Len(data) = req.length
    /\ data = <<>> => err # "none"

\* Faulty payloadVerifier.Read: the hash is compared at io.EOF only.
payloadVerifierAtEOF(data, err) ==
    LET sum == plain.sum \o data
        left == plain.remaining - Len(data)
        check == plain.done = "no" /\ err = "eof"
        bad == check /\ sum # Payload
    IN  [remaining |-> left, sum |-> sum,
         done |-> IF check THEN "yes" ELSE plain.done,
         end |-> IF bad THEN "err" ELSE err,
         got |-> IF bad THEN plain.got ELSE plain.got \o data]

\* payloadVerifier.Read: what it holds, and the consumer with it, once the body
\* gave data and err.
payloadVerifier(data, err) ==
    LET sum == plain.sum \o data
        left == plain.remaining - Len(data)
        check == plain.done = "no" /\ (left <= 0 \/ err = "eof")
        bad == check /\ sum # Payload
    IN  [remaining |-> left, sum |-> sum,
         done |-> IF check THEN "yes" ELSE plain.done,
         end |-> IF bad THEN "err" ELSE err,
         got |-> IF bad THEN plain.got ELSE plain.got \o data]

\* The consumer reads a body that is not a stream.
ReadPlain(data, err) ==
    /\ body \in {"verifier", "raw"} /\ taken = "no" /\ plain.end = "none"
    /\ Within(plain.got \o data)
    /\ CountingRead(data, err)
    /\ plain' = IF body = "verifier" THEN payloadVerifier(data, err)
                ELSE [plain EXCEPT !.end = err, !.got = @ \o data]
    /\ UNCHANGED <<vars, req, body, taken>>

\* The SDK has the declared length and forwards it, or io.ReadAll met io.EOF.
TakeBody ==
    /\ body \in {"verifier", "raw"} /\ taken = "no" /\ plain.end # "err"
    /\ Len(plain.got) = req.length
    /\ XML => plain.end = "eof"
    /\ taken' = "whole"
    /\ UNCHANGED <<vars, req, body, plain>>

\* io.LimitReader ends readXMLBody's read.
CutXML ==
    /\ XML /\ taken = "no"
    /\ \/ body = "stream" /\ end # "err" /\ consumer = "reading" /\ Len(got) = MaxXML
       \/ body \in {"verifier", "raw"} /\ plain.end # "err" /\ Len(plain.got) = MaxXML
    /\ taken' = "cut"
    /\ UNCHANGED <<vars, req, body, plain>>

BNext ==
    \/ PickReader
    \/ ReadStream
    \/ \E data \in Pieces(MaxRead), err \in {"none", "eof", "err"} : ReadPlain(data, err)
    \/ TakeBody
    \/ CutXML

BSpec == BInit /\ [][BNext]_<<vars, bodyVars>>

-----------------------------------------------------------------------------
(* Properties *)

\* Types, ChunkedReader's included; while it has not failed, the verifier's
\* remaining count does not go below zero.
BTypeOK ==
    /\ TypeOK
    /\ req \in Request
    /\ body \in {"none", "refused", "stream", "verifier", "raw"}
    /\ plain \in [remaining : Int, sum : Seq(Byte), done : {"no", "yes"},
                  end : {"none", "eof", "err"}, got : Seq(Byte)]
    /\ body = "verifier" /\ plain.end # "err" => plain.remaining >= 0
    /\ taken \in {"no", "whole", "cut"}

\* The client vouched for the body: with its hash, with chunk signatures or
\* with a checksum trailer.
Vouched == req.hash \in {"hex", "signed", "signed-trailer"} \/ req.trailer # <<>>

Declared == IF IsStreaming(req.hash) THEN req.decoded ELSE req.length
Received == IF body = "stream" THEN got ELSE plain.got
Taken == taken # "no" \/ (body = "stream" /\ consumer = "stored")

\* A body handed on as complete, to the backend or to the XML decoder, is byte
\* for byte what the client vouched for, whichever reader requestBody picked and
\* although the consumer may stop at the declared length without ever seeing
\* io.EOF: "a tampered payload would be committed unverified" otherwise.  A
\* declared checksum trailer is never ignored.  Of an XML body longer than
\* maxXMLBodySize only the beginning is decoded, and nothing is said of it.
BodyIntegrity ==
    Taken /\ Vouched /\ Declared > 0 /\ (XML => Declared <= MaxXML) => Received = Payload
=============================================================================

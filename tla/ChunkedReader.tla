---------------------------- MODULE ChunkedReader ----------------------------
(***************************************************************************)
(* The aws-chunked decoder of sigv4/chunked.go and the consumer that reads *)
(* it (the SDK, which may stop at the declared length).                    *)
(*                                                                         *)
(* The client cut Payload into K data chunks and a terminal one, signed    *)
(* them as a chain and computed the trailer's checksum over Payload.  What *)
(* arrives is any stream at all: chunks missing, repeated, reordered,      *)
(* resized, altered or truncated.  A signature is its position in the      *)
(* client's chain (0 is the request signature, K + 1 the terminal chunk's) *)
(* and a hash is the sequence it was computed over.                        *)
(*                                                                         *)
(* One Read is NextChunk (its loop, run when the current chunk is used up) *)
(* followed by what comes after the loop; nothing can happen in between,   *)
(* for the consumer does not stop while remaining > 0.  Once err is set    *)
(* Read looks at nothing else, so a failing path sets only that, and what   *)
(* it hands out.                                                           *)
(***************************************************************************)
EXTENDS Integers, Sequences

CONSTANTS Byte,       \* what a body is made of
          Payload,    \* what the client signed
          K,          \* in how many data chunks
          Cut,        \* where they end: chunk k is Payload[Cut[k-1]+1 .. Cut[k]]
          MaxLength,  \* bounds x-amz-decoded-content-length
          MaxRead     \* bounds len(p)

ASSUME ChunkedAssumption ==
    /\ Payload \in Seq(Byte)
    /\ K \in Nat
    /\ Cut \in [0 .. K + 1 -> 0 .. Len(Payload)]
    /\ Cut[0] = 0 /\ Cut[K] = Len(Payload) /\ Cut[K + 1] = Len(Payload)
    /\ \A k \in 1 .. K : Cut[k - 1] < Cut[k]
    /\ MaxLength \in Nat
    /\ MaxRead \in Nat

VARIABLES kind,           \* the payload hash: which kind of stream
          ckAlg,          \* the declared checksum trailer, or "none"
          decodedLength,  \* the signed x-amz-decoded-content-length
          prevSig,        \* the chain position verified so far
          chunkSig,       \* declared signature of the current chunk
          chunkHash,      \* bytes of the current chunk hashed so far
          ckHash,         \* bytes in the checksum so far
          remaining, undecoded,
          end,            \* "eof" or "err" once that field is set, else "none"
          got,            \* what the consumer was handed
          consumer        \* "stored" once it takes got for the whole body

modeVars == <<kind, ckAlg, decodedLength>>
crVars == <<prevSig, chunkSig, chunkHash, ckHash, remaining, undecoded>>
vars == <<modeVars, crVars, end, got, consumer>>

signed == kind \in {"signed", "signed-trailer"}
trailer == kind \in {"signed-trailer", "unsigned-trailer"}

Absent == -1    \* no chunk-signature extension
Garbled == -2   \* one that is not of this chain
Unmade == -3    \* a signature the client never made
WireSig == (0 .. K + 1) \cup {Absent, Garbled}

Chunk(k) == SubSeq(Payload, Cut[k - 1] + 1, Cut[k])
Prefix(k) == SubSeq(Payload, 1, Cut[k])

Pieces(n) == UNION {[1 .. m -> Byte] : m \in 0 .. n}

\* Types: the counters of Read (remaining, undecoded) never go negative and stay
\* within the declared length.
TypeOK ==
    /\ kind \in {"signed", "signed-trailer", "unsigned-trailer"}
    /\ ckAlg \in {"none", "declared"}
    /\ decodedLength \in 0 .. MaxLength
    /\ prevSig \in 0 .. K + 1
    /\ chunkSig \in WireSig
    /\ chunkHash \in Seq(Byte)
    /\ ckHash \in Seq(Byte)
    /\ remaining \in 0 .. MaxLength
    /\ undecoded \in 0 .. MaxLength
    /\ end \in {"none", "eof", "err"}
    /\ consumer \in {"reading", "stored"}
    /\ got \in Seq(Byte)

\* NewChunkedReader, for each streaming payload hash.
Init ==
    /\ kind \in {"signed", "signed-trailer", "unsigned-trailer"}
    /\ ckAlg \in (IF trailer THEN {"none", "declared"} ELSE {"none"})
    /\ decodedLength \in 0 .. MaxLength
    /\ prevSig = 0
    /\ chunkSig = Absent
    /\ chunkHash = <<>>
    /\ ckHash = <<>>
    /\ remaining = 0
    /\ undecoded = decodedLength
    /\ end = "none"
    /\ got = <<>>
    /\ consumer = "reading"

\* The consumer calls Read, which neither failed nor ended before.
Reading == end = "none" /\ consumer = "reading"

-----------------------------------------------------------------------------
(* The steps of a Read *)

\* The signature the key gives to data after chain position prev.
Want(prev, data) ==
    IF prev <= K /\ data = Chunk(prev + 1) THEN prev + 1 ELSE Unmade

\* verifyChunk succeeds for a chunk of the given data and declared signature.
verifyChunk(prev, data, sig) == signed => sig = Want(prev, data)

\* discardTrailers succeeds when a declared checksum is among the trailer
\* lines and each occurrence matches; "digest" is the checksum of Payload,
\* "garbled" any other value of that trailer and "other" any other line.
discardTrailers(lines, sum) ==
    ckAlg # "none" => /\ "garbled" \notin lines
                      /\ "digest" \in lines /\ sum = Payload

TrailerLines == SUBSET {"digest", "garbled", "other"}

\* readChunkHeader accepts a well-formed line.
readChunkHeader(sig) == signed => sig # Absent

fail == end' = "err" /\ UNCHANGED <<modeVars, crVars, got, consumer>>

\* The stream breaks off or its framing is malformed where readCRLF,
\* readChunkHeader, discardTrailers or readLine expect something else.
FramingError == Reading /\ fail

\* The loop of Read meets a data chunk's header.
NextChunk(size, sig) ==
    /\ Reading /\ remaining = 0 /\ size > 0
    /\ IF readChunkHeader(sig) /\ size <= undecoded
       THEN /\ chunkSig' = sig
            /\ remaining' = size
            /\ undecoded' = undecoded - size
            /\ UNCHANGED <<modeVars, prevSig, chunkHash, ckHash, end, got, consumer>>
       ELSE fail

\* The loop of Read meets the terminal chunk: io.EOF, or a body cut short.
NextChunkTerminal(sig, lines) ==
    /\ Reading /\ remaining = 0
    /\ IF /\ readChunkHeader(sig)
          /\ verifyChunk(prevSig, chunkHash, sig)
          /\ undecoded = 0
          /\ discardTrailers(lines, ckHash)
       THEN /\ chunkSig' = sig
            /\ prevSig' = IF signed THEN sig ELSE prevSig
            /\ chunkHash' = <<>>
            /\ end' = "eof"
            /\ consumer' = "stored"
            /\ UNCHANGED <<modeVars, ckHash, remaining, undecoded, got>>
       ELSE fail

\* The n > 0 branch: data enters the hashes.
Hash(data) ==
    /\ chunkHash' = IF signed THEN chunkHash \o data ELSE chunkHash
    /\ ckHash' = IF ckAlg # "none" THEN ckHash \o data ELSE ckHash

\* The body's reader fails, or ends inside the chunk, after giving data; Read
\* returns both.
ReadError(data) ==
    /\ Reading /\ remaining > 0 /\ Len(data) <= remaining
    /\ Hash(data)
    /\ remaining' = remaining - Len(data)
    /\ end' = "err"
    /\ got' = got \o data
    /\ UNCHANGED <<modeVars, prevSig, chunkSig, undecoded, consumer>>

\* Data that does not complete the chunk.
ReadInside(data) ==
    /\ Reading /\ Len(data) < remaining
    /\ Hash(data)
    /\ remaining' = remaining - Len(data)
    /\ got' = got \o data
    /\ UNCHANGED <<modeVars, prevSig, chunkSig, undecoded, end, consumer>>

\* Data that completes a chunk, with more of the body to come.
ReadChunkEnd(data) ==
    /\ Reading /\ remaining > 0 /\ Len(data) = remaining /\ undecoded > 0
    /\ IF verifyChunk(prevSig, chunkHash \o data, chunkSig)
       THEN /\ prevSig' = IF signed THEN chunkSig ELSE prevSig
            /\ chunkHash' = <<>>
            /\ ckHash' = IF ckAlg # "none" THEN ckHash \o data ELSE ckHash
            /\ remaining' = 0
            /\ got' = got \o data
            /\ UNCHANGED <<modeVars, chunkSig, undecoded, end, consumer>>
       ELSE fail

\* Data that completes the last chunk: readTerminal reads the terminal chunk
\* and the trailers before the data is handed out.
ReadBodyEnd(data, sig, lines) ==
    /\ Reading /\ remaining > 0 /\ Len(data) = remaining /\ undecoded = 0
    /\ LET sum == IF ckAlg # "none" THEN ckHash \o data ELSE ckHash IN
       IF /\ verifyChunk(prevSig, chunkHash \o data, chunkSig)
          /\ readChunkHeader(sig)
          /\ verifyChunk(chunkSig, <<>>, sig)
          /\ discardTrailers(lines, sum)
       THEN /\ chunkSig' = sig
            /\ prevSig' = IF signed THEN sig ELSE prevSig
            /\ chunkHash' = <<>>
            /\ ckHash' = sum
            /\ remaining' = 0
            /\ end' = "eof"
            /\ got' = got \o data
            /\ UNCHANGED <<modeVars, undecoded, consumer>>
       ELSE fail

\* The consumer has the declared length and stops, or reads on to io.EOF.
Stop ==
    /\ end # "err" /\ consumer = "reading"
    /\ Len(got) = decodedLength
    /\ consumer' = "stored"
    /\ UNCHANGED <<modeVars, crVars, end, got>>

Next ==
    \/ FramingError
    \/ Stop
    \/ \E size \in 1 .. MaxLength + 1, sig \in WireSig : NextChunk(size, sig)
    \/ \E sig \in WireSig, lines \in TrailerLines : NextChunkTerminal(sig, lines)
    \/ \E data \in Pieces(MaxRead) :
         \/ ReadError(data)
         \/ ReadInside(data)
         \/ ReadChunkEnd(data)
         \/ \E sig \in WireSig, lines \in TrailerLines : ReadBodyEnd(data, sig, lines)

Spec == Init /\ [][Next]_vars

-----------------------------------------------------------------------------
(* Properties *)

\* A body taken for complete is byte for byte what the client signed or
\* summed, whether the consumer stopped at the declared length or read on:
\* the reader "keeps every delivered byte covered by a verified chunk
\* signature" (NewChunkedReader).
Integrity ==
    consumer = "stored" /\ decodedLength > 0 /\ (signed \/ ckAlg # "none") => got = Payload

\* At no time, even when a Read returned data together with an error, does
\* the consumer hold more than the signed decoded length.
Bounded == Len(got) <= decodedLength

\* At each chunk boundary the consumer holds exactly a prefix of the payload
\* that ends at a chunk of the client's: no chunk was skipped, repeated or
\* moved (verifyChunk's chain).
ChunkBoundary ==
    signed /\ end # "err" /\ remaining = 0 => got = Prefix(prevSig)
=============================================================================

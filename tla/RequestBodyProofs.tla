-------------------------- MODULE RequestBodyProofs --------------------------
(***************************************************************************)
(* Bodies for every payload, chunking, declared length and limit.  First   *)
(* ChunkedReader by itself: a stream taken for complete is the payload the *)
(* client signed or summed.  Then RequestBody: the composition keeps that, *)
(* and a body handed on is what the client vouched for, whichever reader   *)
(* was picked.                                                             *)
(***************************************************************************)
EXTENDS RequestBody, SequenceTheorems, TLAPS

-----------------------------------------------------------------------------
(* The stream reader *)

\* While the reader has not failed, every declared byte is accounted for.
Accounting ==
    end # "err" =>
        /\ Len(got) + remaining + undecoded = decodedLength
        /\ remaining = 0 => end = "eof" \/ undecoded > 0 \/ decodedLength = 0

\* While it has not failed, what it handed out is the verified chunks followed
\* by the current one's hashed bytes, and the checksum covers the same bytes.
Tracked ==
    end # "err" =>
        /\ signed => got = Prefix(prevSig) \o chunkHash
        /\ ckAlg # "none" => ckHash = got
        /\ remaining = 0 \/ ~signed => chunkHash = <<>>

\* A stream that reached its end was verified to its end.
Ended ==
    end = "eof" =>
        /\ remaining = 0
        /\ signed => prevSig = K + 1
        /\ ckAlg # "none" => ckHash = Payload

\* The consumer settles only for a stream that ended, or for no bytes at all.
Settled == consumer = "stored" => end = "eof" \/ (decodedLength = 0 /\ end # "err")

\* The inductive invariant.
IInv == TypeOK /\ Bounded /\ Accounting /\ Tracked /\ Ended /\ Settled

LEMMA ConstantTypes == K \in Nat /\ MaxLength \in Nat /\ MaxRead \in Nat
  BY Zenon, ChunkedAssumption

LEMMA PieceType ==
  ASSUME NEW n, NEW data \in Pieces(n) PROVE data \in Seq(Byte) /\ Len(data) \in Nat
  BY DEF Pieces

LEMMA ConcatType ==
  ASSUME NEW s \in Seq(Byte), NEW t \in Seq(Byte)
  PROVE  s \o t \in Seq(Byte) /\ Len(s \o t) = Len(s) + Len(t)
  OBVIOUS

LEMMA ConcatAssoc ==
  ASSUME NEW s \in Seq(Byte), NEW t \in Seq(Byte), NEW u \in Seq(Byte)
  PROVE  (s \o t) \o u = s \o (t \o u)
  BY ConcatAssociative

LEMMA PrefixType ==
  ASSUME NEW k \in 0 .. K + 1
  PROVE  Prefix(k) \in Seq(Byte) /\ Prefix(k) \o <<>> = Prefix(k)
  BY ChunkedAssumption DEF Prefix

LEMMA PrefixEnds == Prefix(0) = <<>> /\ Prefix(K + 1) = Payload
  BY ChunkedAssumption, SubSeqEmpty, SubSeqFull DEF Prefix

\* A signature that matches is the next one of the chain, of the next chunk.
LEMMA Matches ==
  ASSUME NEW p \in 0 .. K + 1, NEW data, NEW sig \in WireSig, sig = Want(p, data)
  PROVE  p <= K /\ sig = p + 1 /\ sig \in 0 .. K + 1 /\ data = Chunk(p + 1)
  BY ConstantTypes DEF Want, WireSig, Unmade, Absent, Garbled

LEMMA CutOrder ==
  ASSUME NEW p \in 0 .. K
  PROVE  /\ Cut[p] \in Nat /\ Cut[p + 1] \in Nat
         /\ Cut[p + 1] <= Len(Payload)
         /\ IF p < K THEN Cut[p] < Cut[p + 1] ELSE Cut[p] = Cut[p + 1]
         /\ Chunk(p + 1) = SubSeq(Payload, Cut[p] + 1, Cut[p + 1])
<1>1. Cut[p] \in 0 .. Len(Payload) /\ Cut[p + 1] \in 0 .. Len(Payload) /\ Len(Payload) \in Nat
  BY ChunkedAssumption
<1>2. (p + 1) - 1 = p
  BY ConstantTypes
<1>3. Chunk(p + 1) = SubSeq(Payload, Cut[p] + 1, Cut[p + 1])
  BY <1>2, Zenon DEF Chunk
<1>4. CASE p < K
  <2>1. p + 1 \in 1 .. K
    BY <1>4, ConstantTypes
  <2>2. Cut[(p + 1) - 1] < Cut[p + 1]
    BY Zenon, <2>1, ChunkedAssumption
  <2> QED BY <1>1, <1>2, <1>3, <1>4, <2>2
<1>5. CASE p = K
  <2>1. Cut[p] = Cut[p + 1] /\ ~(p < K)
    BY <1>5, ChunkedAssumption
  <2> QED BY <1>1, <1>3, <2>1
<1> QED BY <1>4, <1>5, ConstantTypes

\* A verified chunk extends the verified prefix of the payload by one chunk.
LEMMA ChainStep ==
  ASSUME NEW p \in 0 .. K + 1, NEW data, NEW sig \in WireSig, sig = Want(p, data)
  PROVE  sig \in 0 .. K + 1 /\ Prefix(p) \o data = Prefix(sig)
<1>1. p \in 0 .. K /\ sig = p + 1 /\ sig \in 0 .. K + 1 /\ data = Chunk(p + 1)
  BY Matches, ConstantTypes
<1>2. SubSeq(Payload, 1, Cut[p]) \o SubSeq(Payload, Cut[p] + 1, Cut[p + 1])
        = SubSeq(Payload, 1, Cut[p + 1])
  <2>1. /\ Cut[p] \in Nat /\ Cut[p + 1] \in Nat
        /\ Cut[p] <= Cut[p + 1] /\ Cut[p + 1] <= Len(Payload)
    BY <1>1, CutOrder
  <2>2. Payload \in Seq(Byte) /\ Len(Payload) \in Nat
    BY ChunkedAssumption
  <2>3. /\ 1 \in 1 .. Len(Payload) + 1
        /\ Cut[p] \in 1 - 1 .. Len(Payload)
        /\ Cut[p + 1] \in Cut[p] .. Len(Payload)
    BY <2>1, <2>2
  <2> QED BY ZenonT(40), <2>2, <2>3, ConcatAdjacentSubSeq
<1> QED BY ZenonT(40), <1>1, <1>2, CutOrder DEF Prefix

\* Only the terminal chunk of the client's chain is empty.
LEMMA TerminalStep ==
  ASSUME NEW p \in 0 .. K + 1, NEW sig \in WireSig, sig = Want(p, <<>>)
  PROVE  sig = K + 1
<1>1. p \in 0 .. K /\ sig = p + 1 /\ <<>> = Chunk(p + 1)
  BY Matches, ConstantTypes
<1>2. ASSUME p < K PROVE FALSE
  <2>1. Cut[p] < Cut[p + 1] /\ Cut[p] \in Nat /\ Cut[p + 1] \in Nat /\ Cut[p + 1] <= Len(Payload)
        /\ Chunk(p + 1) = SubSeq(Payload, Cut[p] + 1, Cut[p + 1])
    BY Zenon, <1>1, <1>2, CutOrder
  <2>2. Len(SubSeq(Payload, Cut[p] + 1, Cut[p + 1])) = Cut[p + 1] - Cut[p]
    BY <2>1, ChunkedAssumption
  <2>3. Len(<<>>) = 0
    OBVIOUS
  <2> QED BY <1>1, <2>1, <2>2, <2>3
<1> QED BY <1>1, <1>2, ConstantTypes

LEMMA InitIInv == Init => IInv
<1> SUFFICES ASSUME Init PROVE IInv
  OBVIOUS
<1>1. TypeOK
  BY ConstantTypes DEF Init, TypeOK, WireSig, Absent
<1>2. Prefix(0) \o <<>> = <<>>
  BY PrefixEnds
<1>3. Len(got) = 0 /\ decodedLength \in Nat
  BY ConstantTypes DEF Init
<1> QED BY <1>1, <1>2, <1>3 DEF Init, IInv, Bounded, Accounting, Tracked, Ended, Settled

\* A failing path keeps the invariant: it claims little of a failed reader.
LEMMA FailIInv == IInv /\ Reading /\ fail => IInv'
  BY Zenon DEF IInv, Reading, fail, TypeOK, Bounded, Accounting, Tracked, Ended, Settled, modeVars, crVars

\* What handing out data does to the counters.
LEMMA DataStep ==
  ASSUME IInv, NEW data \in Pieces(MaxRead), Len(data) <= remaining, Reading
  PROVE  /\ data \in Seq(Byte) /\ Len(data) \in Nat
         /\ got \o data \in Seq(Byte)
         /\ Len(got \o data) = Len(got) + Len(data)
         /\ Len(got \o data) <= decodedLength
         /\ Len(got \o data) + (remaining - Len(data)) + undecoded = decodedLength
         /\ remaining - Len(data) \in 0 .. MaxLength
         /\ chunkHash \o data \in Seq(Byte)
         /\ ckHash \o data \in Seq(Byte)
<1>1. data \in Seq(Byte) /\ Len(data) \in Nat
  BY Zenon, PieceType
<1>2. got \o data \in Seq(Byte) /\ Len(got \o data) = Len(got) + Len(data) /\ Len(got) \in Nat
  BY <1>1, ConcatType DEF IInv, TypeOK
<1>3. chunkHash \o data \in Seq(Byte) /\ ckHash \o data \in Seq(Byte)
  BY Zenon, <1>1, ConcatType DEF IInv, TypeOK
<1>4. /\ remaining \in 0 .. MaxLength /\ undecoded \in 0 .. MaxLength
      /\ Len(got) + remaining + undecoded = decodedLength
  BY Zenon DEF IInv, TypeOK, Reading, Accounting
<1> QED BY <1>1, <1>2, <1>3, <1>4, ConstantTypes

\* The loop of Read keeps the invariant.
LEMMA NextChunkIInv ==
  ASSUME IInv, NEW size \in 1 .. MaxLength + 1, NEW sig \in WireSig, NextChunk(size, sig)
  PROVE  IInv'
<1>1. Reading
  BY Zenon DEF NextChunk
<1>2. CASE fail
  BY Zenon, <1>1, <1>2, FailIInv
<1>3. CASE ~fail
  <2>1. /\ size <= undecoded /\ remaining = 0
        /\ chunkSig' = sig /\ remaining' = size /\ undecoded' = undecoded - size
        /\ UNCHANGED <<modeVars, prevSig, chunkHash, ckHash, end, got, consumer>>
    BY Zenon, <1>3 DEF NextChunk
  <2>2. TypeOK' /\ Bounded' /\ Accounting'
    BY <1>1, <2>1, ConstantTypes DEF Reading, modeVars, IInv, TypeOK, Bounded, Accounting
  <2>3. Tracked' /\ Ended' /\ Settled'
    BY Zenon, <1>1, <2>1 DEF Reading, modeVars, IInv, Tracked, Ended, Settled, signed
  <2> QED BY Zenon, <2>2, <2>3 DEF IInv
<1> QED BY Zenon, <1>2, <1>3

LEMMA NextChunkTerminalIInv ==
  ASSUME IInv, NEW sig \in WireSig, NEW lines, NextChunkTerminal(sig, lines)
  PROVE  IInv'
<1>1. Reading
  BY Zenon DEF NextChunkTerminal
<1>2. CASE fail
  BY Zenon, <1>1, <1>2, FailIInv
<1>3. CASE ~fail
  <2>1. /\ remaining = 0 /\ undecoded = 0
        /\ signed => sig = Want(prevSig, chunkHash)
        /\ ckAlg # "none" => ckHash = Payload
        /\ chunkSig' = sig /\ chunkHash' = <<>> /\ end' = "eof" /\ consumer' = "stored"
        /\ prevSig' = IF signed THEN sig ELSE prevSig
        /\ UNCHANGED <<modeVars, ckHash, remaining, undecoded, got>>
    BY Zenon, <1>3 DEF NextChunkTerminal, verifyChunk, discardTrailers
  <2>2. chunkHash = <<>> /\ prevSig \in 0 .. K + 1
    BY Zenon, <1>1, <2>1 DEF IInv, Tracked, Reading, TypeOK
  <2>3. ASSUME signed
        PROVE  prevSig' = K + 1 /\ prevSig' \in 0 .. K + 1 /\ got = Prefix(prevSig') \o <<>>
    <3>1. sig = K + 1 /\ sig \in 0 .. K + 1 /\ Prefix(prevSig) \o <<>> = Prefix(sig)
      BY ZenonT(40), <2>1, <2>2, <2>3, TerminalStep, ChainStep
    <3>2. got = Prefix(prevSig) \o <<>>
      BY Zenon, <1>1, <2>2, <2>3 DEF IInv, Tracked, Reading
    <3> QED BY Zenon, <2>1, <2>3, <3>1, <3>2, PrefixType
  <2>4. TypeOK'
    BY Zenon, <2>1, <2>2, <2>3 DEF IInv, TypeOK, modeVars
  <2>5. Bounded' /\ Accounting'
    BY Zenon, <1>1, <2>1 DEF Reading, modeVars, IInv, Bounded, Accounting
  <2>6. Tracked' /\ Ended' /\ Settled'
    BY Zenon, <1>1, <2>1, <2>3 DEF Reading, modeVars, IInv, Tracked, Ended, Settled, signed
  <2> QED BY Zenon, <2>4, <2>5, <2>6 DEF IInv
<1> QED BY Zenon, <1>2, <1>3

\* What comes after the loop keeps it too.
LEMMA ReadErrorIInv ==
  ASSUME IInv, NEW data \in Pieces(MaxRead), ReadError(data) PROVE IInv'
<1>1. Reading /\ Len(data) <= remaining
  BY Zenon DEF ReadError
<1> QED
  BY Zenon, <1>1, DataStep
  DEF ReadError, Hash, Reading, modeVars, IInv, TypeOK, Bounded, Accounting, Tracked, Ended, Settled

LEMMA ReadInsideIInv ==
  ASSUME IInv, NEW data \in Pieces(MaxRead), ReadInside(data) PROVE IInv'
<1>1. Reading /\ Len(data) <= remaining /\ remaining - Len(data) # 0
  <2>1. Len(data) \in Nat /\ remaining \in Nat
    BY PieceType, ConstantTypes DEF IInv, TypeOK
  <2> QED BY <2>1 DEF ReadInside
<1>2. TypeOK' /\ Bounded' /\ Accounting'
  BY Zenon, <1>1, DataStep DEF ReadInside, Hash, Reading, modeVars, IInv, TypeOK, Bounded, Accounting
<1>3. ASSUME signed PROVE got' = Prefix(prevSig') \o chunkHash'
  <2>1. (Prefix(prevSig) \o chunkHash) \o data = Prefix(prevSig) \o (chunkHash \o data)
    <3>1. prevSig \in 0 .. K + 1 /\ chunkHash \in Seq(Byte)
      BY Zenon DEF IInv, TypeOK
    <3>2. Prefix(prevSig) \in Seq(Byte) /\ data \in Seq(Byte)
      BY Zenon, <3>1, PrefixType, PieceType
    <3> QED BY Zenon, <3>1, <3>2, ConcatAssoc
  <2> QED BY ZenonT(40), <1>1, <1>3, <2>1 DEF ReadInside, Hash, Reading, IInv, Tracked
<1>4. Tracked' /\ Ended' /\ Settled'
  BY ZenonT(40), <1>1, <1>3 DEF ReadInside, Hash, Reading, modeVars, IInv, Tracked, Ended, Settled, signed
<1> QED BY Zenon, <1>2, <1>4 DEF IInv

\* A chunk that verifies, with its last data, extends the verified prefix.
LEMMA ChunkVerified ==
  ASSUME IInv, Reading, signed, NEW data \in Pieces(MaxRead),
         verifyChunk(prevSig, chunkHash \o data, chunkSig)
  PROVE  chunkSig \in 0 .. K + 1 /\ got \o data = Prefix(chunkSig)
<1>1. /\ prevSig \in 0 .. K + 1 /\ chunkSig \in WireSig /\ chunkHash \in Seq(Byte)
      /\ got = Prefix(prevSig) \o chunkHash
  BY Zenon DEF IInv, TypeOK, Tracked, Reading
<1>2. Prefix(prevSig) \in Seq(Byte) /\ data \in Seq(Byte)
  BY Zenon, <1>1, PrefixType, PieceType
<1>3. got \o data = Prefix(prevSig) \o (chunkHash \o data)
  BY Zenon, <1>1, <1>2, ConcatAssoc
<1>4. chunkSig = Want(prevSig, chunkHash \o data)
  BY Zenon DEF verifyChunk
<1> QED BY ZenonT(40), <1>1, <1>3, <1>4, ChainStep

LEMMA ReadChunkEndIInv ==
  ASSUME IInv, NEW data \in Pieces(MaxRead), ReadChunkEnd(data) PROVE IInv'
<1>1. Reading /\ Len(data) = remaining /\ undecoded > 0 /\ remaining \in Nat
  BY ConstantTypes DEF ReadChunkEnd, IInv, TypeOK
<1>2. CASE fail
  BY Zenon, <1>1, <1>2, FailIInv
<1>3. CASE ~fail
  <2>1. /\ verifyChunk(prevSig, chunkHash \o data, chunkSig)
        /\ prevSig' = IF signed THEN chunkSig ELSE prevSig
        /\ chunkHash' = <<>>
        /\ ckHash' = IF ckAlg # "none" THEN ckHash \o data ELSE ckHash
        /\ remaining' = 0
        /\ got' = got \o data
        /\ UNCHANGED <<modeVars, chunkSig, undecoded, end, consumer>>
    BY Zenon, <1>3 DEF ReadChunkEnd
  <2>2. ASSUME signed
        PROVE  prevSig' \in 0 .. K + 1 /\ got' = Prefix(prevSig') \o chunkHash'
    BY Zenon, <1>1, <2>1, <2>2, ChunkVerified, PrefixType
  <2>3. TypeOK' /\ Bounded' /\ Accounting'
    <3>1. /\ got \o data \in Seq(Byte)
          /\ Len(got \o data) <= decodedLength
          /\ Len(got \o data) + (remaining - Len(data)) + undecoded = decodedLength
          /\ ckHash \o data \in Seq(Byte)
      <4>1. Len(data) <= remaining
        BY <1>1
      <4> QED BY ZenonT(40), <1>1, <4>1, DataStep
    <3>2. TypeOK'
      BY <2>1, <2>2, <3>1, ConstantTypes DEF modeVars, IInv, TypeOK
    <3>3. Bounded' /\ Accounting'
      <4>1. remaining - Len(data) = 0
        BY <1>1
      <4>2. Len(got') <= decodedLength' /\ Len(got') + remaining' + undecoded' = decodedLength'
        BY Zenon, <2>1, <3>1, <4>1 DEF modeVars
      <4>3. undecoded' > 0
        BY Zenon, <1>1, <2>1
      <4> QED BY Zenon, <4>2, <4>3 DEF Bounded, Accounting
    <3> QED BY Zenon, <3>2, <3>3
  <2>4. Tracked' /\ Ended' /\ Settled'
    BY ZenonT(40), <1>1, <2>1, <2>2 DEF Reading, modeVars, IInv, Tracked, Ended, Settled, signed
  <2> QED BY Zenon, <2>3, <2>4 DEF IInv
<1> QED BY Zenon, <1>2, <1>3

LEMMA ReadBodyEndIInv ==
  ASSUME IInv, NEW data \in Pieces(MaxRead), NEW sig \in WireSig, NEW lines,
         ReadBodyEnd(data, sig, lines)
  PROVE  IInv'
<1>1. Reading /\ Len(data) = remaining /\ undecoded = 0 /\ remaining \in Nat
  BY ConstantTypes DEF ReadBodyEnd, IInv, TypeOK
<1>2. CASE fail
  BY Zenon, <1>1, <1>2, FailIInv
<1>3. CASE ~fail
  <2>1. /\ verifyChunk(prevSig, chunkHash \o data, chunkSig)
        /\ signed => sig = Want(chunkSig, <<>>)
        /\ chunkSig' = sig
        /\ prevSig' = IF signed THEN sig ELSE prevSig
        /\ chunkHash' = <<>>
        /\ ckHash' = IF ckAlg # "none" THEN ckHash \o data ELSE ckHash
        /\ ckAlg # "none" => ckHash' = Payload
        /\ remaining' = 0 /\ end' = "eof"
        /\ got' = got \o data
        /\ UNCHANGED <<modeVars, undecoded, consumer>>
    BY ZenonT(40), <1>3 DEF ReadBodyEnd, verifyChunk, discardTrailers
  <2>2. ASSUME signed
        PROVE  prevSig' = K + 1 /\ prevSig' \in 0 .. K + 1 /\ got' = Prefix(prevSig') \o chunkHash'
    <3>1. chunkSig \in 0 .. K + 1 /\ got' = Prefix(chunkSig)
      BY Zenon, <1>1, <2>1, <2>2, ChunkVerified
    <3>2. sig = K + 1 /\ sig \in 0 .. K + 1 /\ Prefix(chunkSig) \o <<>> = Prefix(sig)
      BY ZenonT(40), <2>1, <2>2, <3>1, TerminalStep, ChainStep
    <3> QED BY Zenon, <2>1, <2>2, <3>1, <3>2, PrefixType
  <2>3. TypeOK' /\ Bounded' /\ Accounting'
    <3>1. /\ got \o data \in Seq(Byte) /\ ckHash \o data \in Seq(Byte)
          /\ Len(got \o data) <= decodedLength
          /\ Len(got \o data) + (remaining - Len(data)) + undecoded = decodedLength
      <4>1. Len(data) <= remaining
        BY <1>1
      <4> QED BY ZenonT(40), <1>1, <4>1, DataStep
    <3>2. Len(got \o data) + 0 + 0 = decodedLength
      BY <1>1, <3>1
    <3>3. prevSig' \in 0 .. K + 1
      BY Zenon, <2>1, <2>2 DEF IInv, TypeOK
    <3>4. got' \in Seq(Byte) /\ ckHash' \in Seq(Byte) /\ chunkHash' \in Seq(Byte)
      BY <2>1, <3>1 DEF IInv, TypeOK
    <3>5. TypeOK'
      BY Zenon, <1>1, <2>1, <3>3, <3>4, ConstantTypes DEF modeVars, IInv, TypeOK
    <3>6. Bounded' /\ Accounting'
      BY Zenon, <1>1, <2>1, <3>1, <3>2 DEF modeVars, Bounded, Accounting
    <3> QED BY Zenon, <3>5, <3>6
  <2>4. Tracked' /\ Ended' /\ Settled'
    BY ZenonT(40), <1>1, <2>1, <2>2 DEF Reading, modeVars, IInv, Tracked, Ended, Settled, signed
  <2> QED BY Zenon, <2>3, <2>4 DEF IInv
<1> QED BY Zenon, <1>2, <1>3

LEMMA StopIInv == IInv /\ Stop => IInv'
<1> SUFFICES ASSUME IInv, Stop PROVE IInv'
  OBVIOUS
<1>1. end = "eof" \/ decodedLength = 0
  <2>1. /\ Len(got) = decodedLength /\ remaining \in Nat /\ undecoded \in Nat
        /\ decodedLength \in Nat /\ end # "err"
    BY ConstantTypes DEF Stop, IInv, TypeOK
  <2> QED BY <2>1 DEF IInv, Accounting
<1> QED
  BY Zenon, <1>1 DEF Stop, modeVars, crVars, IInv, TypeOK, Bounded, Accounting, Tracked, Ended, Settled, signed

LEMMA NextIInv == IInv /\ [Next]_vars => IInv'
<1> SUFFICES ASSUME IInv, [Next]_vars PROVE IInv'
  OBVIOUS
<1>1. CASE Next
  BY Zenon, <1>1, FailIInv, StopIInv, NextChunkIInv, NextChunkTerminalIInv, ReadErrorIInv,
     ReadInsideIInv, ReadChunkEndIInv, ReadBodyEndIInv
  DEF Next, FramingError
<1>2. CASE UNCHANGED vars
  BY Zenon, <1>2 DEF vars, modeVars, crVars, IInv, TypeOK, Bounded, Accounting, Tracked, Ended, Settled, signed
<1> QED BY Zenon, <1>1, <1>2

\* Every reachable state of the reader satisfies IInv.
THEOREM Inductive == Spec => []IInv
  BY InitIInv, NextIInv, PTL DEF Spec

\* Type correctness of the reader's state, its counters never negative.
THEOREM TypeCorrect == Spec => []TypeOK
<1>1. IInv => TypeOK
  BY Zenon DEF IInv
<1> QED BY <1>1, Inductive, PTL

\* The consumer never holds more than the signed decoded length.
THEOREM NeverOverlong == Spec => []Bounded
<1>1. IInv => Bounded
  BY Zenon DEF IInv
<1> QED BY <1>1, Inductive, PTL

\* At a chunk boundary the consumer holds a prefix of the payload that ends
\* where a chunk of the client's does.
THEOREM ChunksInOrder == Spec => []ChunkBoundary
<1>1. IInv => ChunkBoundary
  BY Zenon, PrefixType DEF IInv, TypeOK, Tracked, ChunkBoundary
<1> QED BY <1>1, Inductive, PTL

\* A signed or checksummed body taken for complete is the client's payload.
THEOREM StoredIsPayload == Spec => []Integrity
<1>1. ASSUME IInv PROVE Integrity
  <2> SUFFICES ASSUME consumer = "stored", decodedLength > 0, signed \/ ckAlg # "none"
               PROVE  got = Payload
    BY Zenon DEF Integrity
  <2>1. end = "eof" /\ remaining = 0
    BY <1>1, ConstantTypes DEF IInv, TypeOK, Settled, Ended
  <2>2. CASE signed
    <3>1. got = Prefix(K + 1) \o <<>>
      BY ZenonT(40), <1>1, <2>1, <2>2 DEF IInv, Tracked, Ended
    <3>2. Prefix(K + 1) \o <<>> = Prefix(K + 1)
      BY PrefixType, ConstantTypes
    <3> QED BY Zenon, <3>1, <3>2, PrefixEnds
  <2>3. CASE ckAlg # "none"
    BY Zenon, <1>1, <2>1, <2>3 DEF IInv, Tracked, Ended
  <2> QED BY Zenon, <2>2, <2>3
<1> QED BY <1>1, Inductive, PTL

-----------------------------------------------------------------------------
(* Every kind of body *)

PlainType == [remaining : Int, sum : Seq(Byte), done : {"no", "yes"},
              end : {"none", "eof", "err"}, got : Seq(Byte)]

Types ==
    /\ req \in Request
    /\ body \in {"none", requestBody(req)}
    /\ plain \in PlainType
    /\ taken \in {"no", "whole", "cut"}

\* While it has not failed, the verifier has hashed what it handed out, and has
\* compared the hash by the time the declared length is reached.
Hashed ==
    body = "verifier" /\ plain.end # "err" =>
        /\ plain.sum = plain.got
        /\ Len(plain.got) + plain.remaining = req.length
        /\ plain.remaining >= 0
        /\ plain.done = "yes" => plain.remaining = 0 /\ plain.got = Payload
        /\ plain.remaining = 0 /\ req.length > 0 => plain.done = "yes"

\* What is taken had not failed, and is as long as declared or as the limit.
Kept ==
    taken # "no" =>
        \/ body = "stream" /\ end # "err" /\ XML /\ Len(got) = MaxXML
        \/ /\ body \in {"verifier", "raw"} /\ plain.end # "err"
           /\ Len(plain.got) = req.length \/ (XML /\ Len(plain.got) = MaxXML)

\* Before requestBody is called nothing has been read.
Untouched ==
    body = "none" =>
        plain = [remaining |-> 0, sum |-> <<>>, done |-> "no", end |-> "none", got |-> <<>>]

\* The inductive invariant.
BInv == IInv /\ Types /\ NewChunkedReader(req) /\ Untouched /\ Hashed /\ Kept

\* The decoder's arguments are fixed once it is made.
LEMMA ModeFixed == [Next]_vars => UNCHANGED modeVars
  BY Zenon DEF Next, vars, modeVars, FramingError, Stop, NextChunk, NextChunkTerminal, ReadError,
     ReadInside, ReadChunkEnd, ReadBodyEnd, fail

\* A body as it comes has neither a hash nor a trailer to answer to, and a
\* declared trailer is only accepted for a stream that carries it.
LEMMA Picked ==
  ASSUME NEW q \in Request
  PROVE  /\ requestBody(q) = "raw" => q.hash = "unsigned" /\ q.trailer = <<>>
         /\ requestBody(q) = "stream" => IsStreaming(q.hash) /\ q.decoded >= 0
         /\ requestBody(q) = "verifier" => ~IsStreaming(q.hash) /\ q.length >= 0
         /\ requestBody(q) \in {"refused", "stream", "verifier", "raw"}
<1>1. /\ q.hash \in Streaming \cup {"hex", "unsigned"} /\ q.trailer \in Trailers
      /\ q.decoded \in Int /\ q.length \in Int
  BY ConstantTypes DEF Request, Lengths
<1>2. q.trailer # <<>> => TrailerAlgorithm(q.trailer) # "none"
  BY <1>1 DEF Trailers, TrailerAlgorithm
<1> QED BY <1>1, <1>2 DEF requestBody, IsStreaming, Streaming, Trailing, checkTrailer

\* A decoder that reached io.EOF handed out the payload.
LEMMA DecodedWhole ==
  ASSUME IInv, end = "eof", signed \/ ckAlg # "none"
  PROVE  got = Payload
<1>1. CASE signed
  <2>1. got = Prefix(K + 1) \o <<>>
    BY ZenonT(40), <1>1 DEF IInv, Tracked, Ended
  <2> QED BY <2>1, PrefixType, PrefixEnds, ConstantTypes
<1>2. CASE ckAlg # "none"
  BY Zenon, <1>2 DEF IInv, Tracked, Ended
<1> QED BY Zenon, <1>1, <1>2

LEMMA BInitInv == BInit => BInv
<1> SUFFICES ASSUME BInit PROVE BInv
  OBVIOUS
<1>1. IInv
  BY Zenon, InitIInv DEF BInit
<1>2. Types
  BY DEF BInit, Types, PlainType
<1> QED BY Zenon, <1>1, <1>2 DEF BInit, BInv, Untouched, Hashed, Kept

LEMMA PickStep == BInv /\ PickReader => BInv'
<1> SUFFICES ASSUME BInv, PickReader PROVE BInv'
  OBVIOUS
<1>1. UNCHANGED vars /\ req' = req /\ taken' = taken /\ body = "none" /\ body' = requestBody(req)
  BY Zenon DEF PickReader
<1>2. IInv'
  BY Zenon, <1>1, NextIInv DEF BInv
<1>3. taken = "no"
  BY Zenon, <1>1 DEF BInv, Kept, Types
<1>4. Types'
  <2>1. req.length \in Int
    BY ConstantTypes DEF BInv, Types, Request, Lengths
  <2> QED BY Zenon, <1>1, <2>1 DEF BInv, Types, PlainType, PickReader
<1>5. NewChunkedReader(req)'
  BY Zenon, <1>1 DEF BInv, NewChunkedReader, vars, modeVars
<1>6. Hashed'
  <2> SUFFICES ASSUME body' = "verifier" PROVE Hashed'
    BY Zenon DEF Hashed
  <2>1. plain' = [plain EXCEPT !.remaining = req.length]
    BY Zenon DEF PickReader
  <2>2. req.length \in Int /\ req.length >= 0
    BY <1>1, Picked, ConstantTypes DEF BInv, Types, Request, Lengths
  <2>3. plain = [remaining |-> 0, sum |-> <<>>, done |-> "no", end |-> "none", got |-> <<>>]
    BY Zenon, <1>1 DEF BInv, Untouched
  <2> QED BY <1>1, <2>1, <2>2, <2>3 DEF Hashed
<1>7. body' # "none"
  BY Zenon, <1>1, Picked DEF BInv, Types
<1> QED BY Zenon, <1>1, <1>2, <1>3, <1>4, <1>5, <1>6, <1>7 DEF BInv, Kept, Untouched
LEMMA StreamStep == BInv /\ ReadStream => BInv'
<1> SUFFICES ASSUME BInv, ReadStream PROVE BInv'
  OBVIOUS
<1>1. Next /\ UNCHANGED bodyVars /\ taken = "no" /\ body = "stream"
  BY Zenon DEF ReadStream
<1>2. IInv'
  BY Zenon, <1>1, NextIInv DEF BInv
<1>3. UNCHANGED modeVars
  BY Zenon, <1>1, ModeFixed
<1>4. NewChunkedReader(req)'
  BY Zenon, <1>1, <1>3 DEF BInv, NewChunkedReader, modeVars, bodyVars
<1> QED BY Zenon, <1>1, <1>2, <1>4 DEF BInv, Types, Untouched, Hashed, Kept, bodyVars

\* A step of the verifier: what it lets through it has hashed, and compared when
\* the declared length is reached.
LEMMA VerifierStep ==
  ASSUME BInv, NEW data \in Pieces(MaxRead), NEW err \in {"none", "eof", "err"},
         body = "verifier", plain.end = "none", CountingRead(data, err),
         plain' = payloadVerifier(data, err), req' = req, body' = body
  PROVE  plain' \in PlainType /\ Hashed'
<1> DEFINE sum == plain.sum \o data
           left == plain.remaining - Len(data)
           check == plain.done = "no" /\ (left <= 0 \/ err = "eof")
           bad == check /\ sum # Payload
<1>1. /\ plain \in PlainType /\ data \in Seq(Byte) /\ Len(data) \in Nat
      /\ req.length \in Int /\ req.length >= 0
  BY PieceType, Picked, ConstantTypes DEF BInv, Types, Request, Lengths
<1>2. /\ plain.sum \in Seq(Byte) /\ plain.got \in Seq(Byte) /\ plain.remaining \in Int
      /\ plain.done \in {"no", "yes"} /\ Len(plain.got) \in Nat
  BY <1>1 DEF PlainType
<1>3. /\ plain.sum = plain.got
      /\ Len(plain.got) + plain.remaining = req.length
      /\ plain.remaining >= 0
      /\ plain.done = "yes" => plain.remaining = 0 /\ plain.got = Payload
      /\ plain.remaining = 0 /\ req.length > 0 => plain.done = "yes"
  BY Zenon DEF BInv, Hashed
<1>4. sum \in Seq(Byte) /\ Len(sum) = Len(plain.got) + Len(data)
  BY Zenon, <1>1, <1>2, <1>3, ConcatType
<1>5. /\ Len(plain.got) + Len(data) <= req.length
      /\ err = "eof" => Len(plain.got) + Len(data) = req.length
  BY Zenon DEF CountingRead
<1>6. left \in Int /\ left >= 0 /\ Len(sum) + left = req.length /\ (err = "eof" => left = 0)
  BY <1>1, <1>2, <1>3, <1>4, <1>5
<1>7. plain' = [remaining |-> left, sum |-> sum,
                done |-> IF check THEN "yes" ELSE plain.done,
                end |-> IF bad THEN "err" ELSE err,
                got |-> IF bad THEN plain.got ELSE sum]
  BY Zenon, <1>3 DEF payloadVerifier
<1>8. plain.done = "yes" => sum = Payload /\ left = 0
  <2> SUFFICES ASSUME plain.done = "yes" PROVE sum = Payload /\ left = 0
    OBVIOUS
  <2>1. Len(data) = 0
    BY <1>1, <1>2, <1>3, <1>6
  <2>2. data = <<>>
    BY <1>1, <2>1
  <2> QED BY <1>1, <1>2, <1>3, <2>1, <2>2
<1> HIDE DEF sum, left
<1>9. plain' \in PlainType
  BY <1>2, <1>4, <1>6, <1>7 DEF PlainType
<1>10. Hashed'
  <2> SUFFICES ASSUME plain'.end # "err" PROVE
        /\ plain'.sum = plain'.got
        /\ Len(plain'.got) + plain'.remaining = req.length
        /\ plain'.remaining >= 0
        /\ plain'.done = "yes" => plain'.remaining = 0 /\ plain'.got = Payload
        /\ plain'.remaining = 0 /\ req.length > 0 => plain'.done = "yes"
    BY Zenon DEF Hashed
  <2>1. ~bad /\ plain'.got = sum /\ plain'.sum = sum /\ plain'.remaining = left
    BY <1>7
  <2>2. plain'.done = "yes" => left = 0 /\ sum = Payload
    BY <1>2, <1>6, <1>7, <1>8, <2>1
  <2>3. left = 0 => plain'.done = "yes"
    BY <1>2, <1>6, <1>7
  <2> QED BY Zenon, <1>6, <2>1, <2>2, <2>3
<1> QED BY Zenon, <1>9, <1>10

LEMMA PlainStep ==
  ASSUME BInv, NEW data \in Pieces(MaxRead), NEW err \in {"none", "eof", "err"}, ReadPlain(data, err)
  PROVE  BInv'
<1>1. /\ UNCHANGED vars /\ req' = req /\ body' = body /\ taken' = taken /\ taken = "no"
      /\ body \in {"verifier", "raw"} /\ plain.end = "none" /\ CountingRead(data, err)
  BY Zenon DEF ReadPlain
<1>2. IInv' /\ NewChunkedReader(req)'
  BY Zenon, <1>1, NextIInv DEF BInv, NewChunkedReader, vars, modeVars
<1>3. CASE body = "verifier"
  <2>1. plain' \in PlainType /\ Hashed'
    BY Zenon, <1>1, <1>3, VerifierStep DEF ReadPlain
  <2> QED BY Zenon, <1>1, <1>2, <1>3, <2>1 DEF BInv, Types, Untouched, Kept
<1>4. CASE body = "raw"
  <2>1. plain' = [plain EXCEPT !.end = err, !.got = plain.got \o data]
    BY Zenon, <1>4 DEF ReadPlain
  <2>2. plain' \in PlainType
    BY ZenonT(40), <2>1, PieceType, ConcatType DEF BInv, Types, PlainType
  <2> QED BY Zenon, <1>1, <1>2, <1>4, <2>2 DEF BInv, Types, Untouched, Hashed, Kept
<1> QED BY Zenon, <1>1, <1>3, <1>4

LEMMA TakeStep == BInv /\ (TakeBody \/ CutXML) => BInv'
<1> SUFFICES ASSUME BInv, TakeBody \/ CutXML PROVE BInv'
  OBVIOUS
<1>1. UNCHANGED <<vars, req, body, plain>> /\ taken' \in {"whole", "cut"}
  BY Zenon DEF TakeBody, CutXML
<1>2. IInv' /\ NewChunkedReader(req)'
  BY Zenon, <1>1, NextIInv DEF BInv, NewChunkedReader, vars, modeVars
<1>3. Kept'
  <2>1. end' = end /\ got' = got /\ XML' = XML /\ body' = body /\ plain' = plain /\ req' = req
    BY Zenon, <1>1 DEF vars, XML
  <2>2. CASE TakeBody
    BY Zenon, <2>1, <2>2 DEF TakeBody, Kept
  <2>3. CASE CutXML
    BY Zenon, <2>1, <2>3 DEF CutXML, Kept
  <2> QED BY Zenon, <2>2, <2>3
<1> QED BY Zenon, <1>1, <1>2, <1>3 DEF BInv, Types, Untouched, Hashed

LEMMA BNextInv == BInv /\ [BNext]_<<vars, bodyVars>> => BInv'
<1> SUFFICES ASSUME BInv, [BNext]_<<vars, bodyVars>> PROVE BInv'
  OBVIOUS
<1>1. CASE UNCHANGED <<vars, bodyVars>>
  <2>1. IInv'
    BY Zenon, <1>1, NextIInv DEF BInv
  <2> QED
    BY Zenon, <1>1, <2>1 DEF BInv, Types, NewChunkedReader, Untouched, Hashed, Kept, XML, vars, modeVars, bodyVars
<1>2. CASE BNext
  BY Zenon, <1>2, PickStep, StreamStep, PlainStep, TakeStep DEF BNext
<1> QED BY Zenon, <1>1, <1>2

\* The composition takes no step the stream reader could not take by itself.
THEOREM StreamRefined == BSpec => Spec
<1>1. BInit => Init
  BY ZenonT(40) DEF BInit
<1>2. [BNext]_<<vars, bodyVars>> => [Next]_vars
  BY ZenonT(40) DEF BNext, PickReader, ReadStream, ReadPlain, TakeBody, CutXML
<1> QED BY <1>1, <1>2, PTL DEF BSpec, Spec

\* Type correctness for every kind of body; payloadVerifier never counts below
\* zero while it has not failed.
THEOREM BodyTypeCorrect == BSpec => []BTypeOK
<1>1. ASSUME BInv PROVE BTypeOK
  <2>1. TypeOK /\ req \in Request /\ plain \in PlainType /\ taken \in {"no", "whole", "cut"}
    BY Zenon, <1>1 DEF BInv, IInv, Types
  <2>2. body \in {"none", "refused", "stream", "verifier", "raw"}
    BY Zenon, <1>1, <2>1, Picked DEF BInv, Types
  <2>3. body = "verifier" /\ plain.end # "err" => plain.remaining >= 0
    BY Zenon, <1>1 DEF BInv, Hashed
  <2> QED BY Zenon, <2>1, <2>2, <2>3 DEF BTypeOK, PlainType
<1> QED BY <1>1, BInitInv, BNextInv, PTL DEF BSpec

\* Whichever reader requestBody picks, a body handed on as complete is the one
\* the client vouched for.
THEOREM TakenIsVouchedFor == BSpec => []BodyIntegrity
<1>1. ASSUME BInv PROVE BodyIntegrity
  <2> SUFFICES ASSUME Taken, Vouched, Declared > 0, XML => Declared <= MaxXML
               PROVE  Received = Payload
    BY Zenon DEF BodyIntegrity
  <2>1. /\ req \in Request /\ body \in {"none", requestBody(req)} /\ plain \in PlainType
        /\ req.length \in Int /\ req.decoded \in Int /\ MaxXML \in Nat
    BY <1>1, ConstantTypes, BodyAssumption DEF BInv, Types, Request, Lengths
  <2>2. body # "raw"
    BY Zenon, <2>1, Picked DEF Vouched
  <2>3. CASE body = "stream"
    <3>1. requestBody(req) = "stream" /\ IsStreaming(req.hash)
      BY Zenon, <2>1, <2>3, Picked
    <3>2. /\ kind = req.hash /\ decodedLength = req.decoded /\ Declared = decodedLength
          /\ ckAlg = (IF req.trailer = <<>> THEN "none" ELSE "declared")
      BY Zenon, <1>1, <3>1 DEF BInv, NewChunkedReader, Declared
    <3>3. signed \/ ckAlg # "none"
      BY Zenon, <3>1, <3>2 DEF Vouched, signed, IsStreaming, Streaming
    <3>4. end = "eof"
      <4>1. /\ Len(got) \in Nat /\ remaining \in Nat /\ undecoded \in Nat /\ decodedLength \in Nat
            /\ decodedLength > 0
        BY <1>1, <3>2, ConstantTypes DEF BInv, IInv, TypeOK
      <4>2. CASE taken # "no"
        <5>1. end # "err" /\ XML /\ Len(got) = MaxXML
          BY Zenon, <1>1, <2>3, <4>2 DEF BInv, Kept
        <5>2. remaining = 0 /\ undecoded = 0
          BY <1>1, <2>1, <3>2, <4>1, <5>1 DEF BInv, IInv, Accounting
        <5> QED BY <1>1, <4>1, <5>1, <5>2 DEF BInv, IInv, Accounting
      <4>3. CASE consumer = "stored"
        BY <1>1, <4>1, <4>3 DEF BInv, IInv, Settled
      <4> QED BY Zenon, <4>2, <4>3 DEF Taken
    <3> QED BY Zenon, <1>1, <2>3, <3>2, <3>3, <3>4, DecodedWhole DEF BInv, Received
  <2>4. CASE body = "verifier"
    <3>1. ~IsStreaming(req.hash) /\ Declared = req.length
      BY Zenon, <2>1, <2>4, Picked DEF Declared
    <3>2. plain.end # "err" /\ (Len(plain.got) = req.length \/ (XML /\ Len(plain.got) = MaxXML))
      BY Zenon, <1>1, <2>4 DEF BInv, Kept, Taken
    <3>3. /\ Len(plain.got) + plain.remaining = req.length /\ plain.remaining >= 0
          /\ plain.done = "yes" => plain.got = Payload
          /\ plain.remaining = 0 /\ req.length > 0 => plain.done = "yes"
      BY Zenon, <1>1, <2>4, <3>2 DEF BInv, Hashed
    <3>4. plain.remaining \in Int /\ Len(plain.got) \in Nat
      BY <2>1 DEF PlainType
    <3> QED BY <2>1, <2>4, <3>1, <3>2, <3>3, <3>4 DEF Received
  <2>5. CASE body \notin {"stream", "verifier", "raw"}
    BY Zenon, <1>1, <2>5 DEF BInv, Kept, Taken
  <2> QED BY Zenon, <2>2, <2>3, <2>4, <2>5
<1> QED BY <1>1, BInitInv, BNextInv, PTL DEF BSpec
=============================================================================

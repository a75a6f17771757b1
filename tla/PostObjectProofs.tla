-------------------------- MODULE PostObjectProofs --------------------------
(***************************************************************************)
(* What POST uploads leave in the bucket, for any number of uploads of any *)
(* forms.  The invariant: an upload that has passed the submission has an  *)
(* accepted form, what has been read of it is within the policy's bound,   *)
(* each object carries the key and the fields that were checked, and no    *)
(* undo has left a delete marker.                                          *)
(***************************************************************************)
EXTENDS PostObject, WellFoundedInduction, TLAPS

-----------------------------------------------------------------------------
(* The bounds *)

\* A set of numbers that is not empty has a least one.
LEMMA Least ==
    ASSUME NEW S \in SUBSET Nat, S # {}
    PROVE  \E m \in S : \A k \in S : m <= k
<1> DEFINE R == OpToRel(<, Nat)
<1>1. IsWellFoundedOn(R, Nat)
  BY NatLessThanWellFounded, Zenon
<1>2. \A m, k \in Nat : <<k, m>> \in R <=> k < m
  BY DEF OpToRel
<1> HIDE DEF R
<1>3. PICK m \in S : \A k \in S : ~(<<k, m>> \in R)
  BY <1>1, WFMin, Zenon
<1>4. \A k \in S : k \in Nat /\ m \in Nat /\ ~(k < m)
  BY <1>2, <1>3, Zenon
<1>5. \A k \in S : m <= k
  BY <1>4
<1> QED
  BY <1>5

LEMMA MinFacts ==
    ASSUME NEW S \in SUBSET Nat, S # {}
    PROVE  Min(S) \in S /\ \A k \in S : Min(S) <= k
<1>1. \E m \in S : \A k \in S : m <= k
  BY Least, Zenon
<1> QED
  BY <1>1, Zenon DEF Min

\* A bounded set has a greatest one: the least distance from the bound.
LEMMA MaxFacts ==
    ASSUME NEW b \in Nat, NEW S \in SUBSET (0 .. b), S # {}
    PROVE  Max(S) \in S /\ \A k \in S : k <= Max(S)
<1> DEFINE D == {b - k : k \in S}
<1>1. \A k \in S : k \in Nat /\ b - k \in Nat
  OBVIOUS
<1>2. D \in SUBSET Nat /\ D # {}
  BY <1>1, Zenon
<1>3. PICK d \in D : \A e \in D : d <= e
  <2> HIDE DEF D
  <2> QED
    BY <1>2, Least, Zenon
<1>4. PICK m \in S : d = b - m
  BY <1>3, Zenon
<1>5. \A k \in S : b - m <= b - k
  BY <1>3, <1>4, Zenon
<1>6. \A k \in S : m >= k
  BY <1>1, <1>5
<1>7. Max(S) \in S /\ \A k \in S : Max(S) >= k
  BY <1>6, Zenon DEF Max
<1>8. \A k \in S : Max(S) \in Nat /\ k \in Nat
  BY <1>1, <1>7, Zenon
<1> QED
  BY <1>7, <1>8

\* parsePostPolicy's bounds are within each range of the document.
LEMMA RangeFacts ==
    ASSUME NEW f \in Form, parsePostPolicy(f.doc)
    PROVE  /\ MinLength(f.doc) \in Nat /\ MaxLength(f.doc) \in Nat
           /\ \A c \in Ranges(f.doc) : /\ c.min \in Nat /\ c.max \in Nat
                                       /\ c.min <= MinLength(f.doc)
                                       /\ MaxLength(f.doc) <= c.max
<1> DEFINE R == Ranges(f.doc)
           Lo == {0} \cup {c.min : c \in R}
           Hi == {Unlimited} \cup {c.max : c \in R}
<1>1. Unlimited \in Nat
  BY PostObjectAssumption, Zenon
<1>2. \A c \in R : /\ c.min \in Int /\ c.max \in Int /\ c.max <= Unlimited
                   /\ 0 <= c.min /\ c.min <= c.max
  BY FormAssumption, Zenon DEF parsePostPolicy
<1> HIDE DEF R
<1>3. \A c \in R : c.min \in Nat /\ c.max \in Nat /\ c.min \in 0 .. Unlimited
  BY <1>1, <1>2
<1>4. Hi \in SUBSET Nat /\ Lo \in SUBSET (0 .. Unlimited) /\ Hi # {} /\ Lo # {}
  BY <1>1, <1>3
<1>5. Min(Hi) \in Hi /\ \A k \in Hi : Min(Hi) <= k
  <2> HIDE DEF Hi
  <2> QED
    BY <1>4, MinFacts, Zenon
<1>6. Max(Lo) \in Lo /\ \A k \in Lo : k <= Max(Lo)
  <2> HIDE DEF Lo
  <2> QED
    BY <1>1, <1>4, MaxFacts, Zenon
<1>7. Min(Hi) \in Nat
  BY <1>4, <1>5, Zenon
<1>8. Max(Lo) \in Nat
  <2>1. \A k \in 0 .. Unlimited : k \in Nat
    BY <1>1
  <2> QED
    BY <1>4, <1>6, <2>1, Zenon
<1>9. \A c \in R : c.min <= Max(Lo) /\ Min(Hi) <= c.max
  BY <1>5, <1>6, Zenon
<1> QED
  BY <1>3, <1>7, <1>8, <1>9, Zenon DEF MinLength, MaxLength, R

-----------------------------------------------------------------------------
(* The invariant *)

Labels == {"submit", "stream", "undo", "done"}
Answers == {"none", "refused", "failed", "small", "ok"}

Typed ==
    /\ versioning \in {"enabled", "off"}
    /\ pc \in [Uploads -> Labels]
    /\ form \in [Uploads -> Form]
    /\ n \in [Uploads -> Int]
    /\ hidden = {}
    /\ answer \in [Uploads -> Answers]

\* What is known of upload u, and what was stored of it.
Sound(u) ==
    /\ pc[u] = "done" <=> answer[u] # "none"
    /\ pc[u] = "submit" => n[u] = 0
    /\ pc[u] \in {"stream", "undo"} \/ answer[u] = "ok" => Accepted(form[u])
    /\ pc[u] = "stream" => 0 <= n[u] /\ n[u] <= MaxLength(form[u].doc)
    /\ answer[u] = "ok" => /\ MinLength(form[u].doc) <= form[u].size
                           /\ form[u].size <= MaxLength(form[u].doc)
    /\ versioning = "enabled" /\ answer[u] = "ok" => \E o \in bucket : o.by = u

AsChecked(o) ==
    /\ o.by \in Uploads /\ Accepted(form[o.by])
    /\ o.key = Substituted(form[o.by]) /\ o.fields = fields(form[o.by])
    /\ o.size \in Int /\ o.size <= MaxLength(form[o.by].doc)

IInv ==
    /\ Typed
    /\ \A u \in Uploads : Sound(u)
    /\ \A o \in bucket : AsChecked(o)

LEMMA AcceptedFacts ==
    ASSUME NEW f \in Form, Accepted(f)
    PROVE  /\ f.sig = [secret |-> Secret, doc |-> f.doc]
           /\ parsePostPolicy(f.doc) /\ evaluatePostPolicy(f.doc, fields(f))
           /\ "key" \in DOMAIN fields(f) /\ fields(f)["key"] = Substituted(f)
           /\ fields(f)["bucket"] = Target
           /\ MinLength(f.doc) \in Nat /\ MaxLength(f.doc) \in Nat
<1>1. VerifyPost(f) /\ HasKey(f)
  BY Zenon DEF Accepted
<1>2. parsePostPolicy(f.doc)
  BY <1>1, Zenon DEF VerifyPost
<1>3. "key" \in DOMAIN f.fields /\ "key" \notin Ignored /\ "key" # "bucket"
  BY <1>1 DEF HasKey, Ignored
<1>4. /\ DOMAIN fields(f) = (DOMAIN f.fields \ Ignored) \cup {"bucket"}
      /\ fields(f)["key"] = Substituted(f)
      /\ fields(f)["bucket"] = Target
  BY <1>3 DEF fields
<1> QED
  BY <1>1, <1>2, <1>3, <1>4, RangeFacts, Zenon DEF VerifyPost

\* What a step of upload u leaves alone.
Frame(u) ==
    /\ Typed'
    /\ versioning' = versioning /\ form' = form
    /\ \A w \in Uploads \ {u} : pc'[w] = pc[w] /\ answer'[w] = answer[w] /\ n'[w] = n[w]
    /\ versioning = "enabled" => \A o \in bucket : o.by # u => o \in bucket'
    /\ \A o \in bucket' : o \in bucket \/ AsChecked(o)

LEMMA FrameStep ==
    ASSUME IInv, NEW u \in Uploads, Frame(u), Sound(u)'
    PROVE  IInv'
<1>1. ASSUME NEW w \in Uploads, w # u PROVE Sound(w)'
  <2>1. /\ Sound(w) /\ versioning' = versioning /\ form' = form
        /\ pc'[w] = pc[w] /\ answer'[w] = answer[w] /\ n'[w] = n[w]
    BY <1>1, Zenon DEF IInv, Frame
  <2>2. versioning = "enabled" => \A o \in bucket : o.by = w => o \in bucket'
    BY <1>1, Zenon DEF Frame
  <2> QED
    BY <2>1, <2>2, Zenon DEF Sound
<1>2. \A o \in bucket' : AsChecked(o)'
  BY Zenon DEF IInv, Frame, AsChecked
<1>3. \A w \in Uploads : Sound(w)'
  BY <1>1, Zenon
<1> QED
  BY <1>2, <1>3, Zenon DEF IInv, Frame

LEMMA InitIInv == Init => IInv
<1> SUFFICES ASSUME Init PROVE IInv
  OBVIOUS
<1>1. Typed
  BY DEF Init, Typed, Labels, Answers
<1>2. \A u \in Uploads : Sound(u)
  BY DEF Init, Sound
<1>3. \A o \in bucket : AsChecked(o)
  BY Zenon DEF Init
<1> QED
  BY <1>1, <1>2, <1>3, Zenon DEF IInv

-----------------------------------------------------------------------------
(* The steps *)

\* An answer that is no success: whatever becomes of u's own objects.
LEMMA FailedStep ==
    ASSUME IInv, NEW u \in Uploads, NEW a \in Answers \ {"none", "ok"}, Answer(u, a),
           UNCHANGED <<versioning, form>>, hidden' = {},
           n' \in [Uploads -> Int], \A w \in Uploads \ {u} : n'[w] = n[w],
           versioning = "enabled" => \A o \in bucket : o.by # u => o \in bucket',
           \A o \in bucket' : o \in bucket \/ AsChecked(o)
    PROVE  IInv'
<1>1. /\ answer' = [answer EXCEPT ![u] = a] /\ pc' = [pc EXCEPT ![u] = "done"]
      /\ pc \in [Uploads -> Labels] /\ answer \in [Uploads -> Answers]
  BY Zenon DEF Answer, Goto, IInv, Typed
<1>2. /\ pc' \in [Uploads -> Labels] /\ answer' \in [Uploads -> Answers]
      /\ pc'[u] = "done" /\ answer'[u] = a
      /\ \A w \in Uploads \ {u} : pc'[w] = pc[w] /\ answer'[w] = answer[w]
  BY <1>1 DEF Labels, Answers
<1>3. Frame(u)
  BY <1>2, Zenon DEF Frame, IInv, Typed
<1>4. a # "none" /\ a # "ok"
  OBVIOUS
<1>5. Sound(u)'
  BY <1>2, <1>4, Zenon DEF Sound
<1> QED
  BY <1>3, <1>5, FrameStep

LEMMA handlePostObjectStep ==
    ASSUME IInv, NEW u \in Uploads, handlePostObject(u)
    PROVE  IInv'
<1>1. /\ pc' = [pc EXCEPT ![u] = "stream"] /\ pc \in [Uploads -> Labels]
      /\ pc[u] = "submit" /\ Accepted(form[u]) /\ form[u] \in Form
      /\ versioning' = versioning /\ form' = form /\ n' = n /\ bucket' = bucket /\ hidden' = hidden /\ answer' = answer
  BY Zenon DEF handlePostObject, Goto, IInv, Typed
<1>2. /\ pc' \in [Uploads -> Labels] /\ pc'[u] = "stream"
      /\ \A w \in Uploads \ {u} : pc'[w] = pc[w]
  BY <1>1 DEF Labels
<1>3. Frame(u)
  BY <1>1, <1>2, Zenon DEF Frame, IInv, Typed
<1>4. answer[u] = "none" /\ n[u] = 0
  BY <1>1, Zenon DEF IInv, Sound
<1>5. 0 <= n[u] /\ n[u] <= MaxLength(form[u].doc)
  <2>1. MaxLength(form[u].doc) \in Nat
    BY <1>1, AcceptedFacts, Zenon
  <2> QED
    BY <1>4, <2>1
<1>6. Sound(u)'
  BY <1>1, <1>2, <1>4, <1>5, Zenon DEF Sound
<1> QED
  BY <1>3, <1>6, FrameStep

LEMMA ReadStep ==
    ASSUME IInv, NEW u \in Uploads, NEW k \in 1 .. form[u].size, Read(u, k)
    PROVE  IInv'
<1>1. /\ n' = [n EXCEPT ![u] = n[u] + k] /\ n \in [Uploads -> Int] /\ pc[u] = "stream"
      /\ form[u] \in Form /\ Sound(u)
      /\ versioning' = versioning /\ form' = form /\ bucket' = bucket /\ hidden' = {}
  BY Zenon DEF Read, IInv, Typed
<1>2. k \in Nat /\ k > 0
  <2>1. form[u].size \in Int
    BY <1>1, FormAssumption, Zenon
  <2> QED
    BY <2>1
<1>3. /\ n' \in [Uploads -> Int] /\ n'[u] = n[u] + k /\ n[u] \in Int
      /\ \A w \in Uploads \ {u} : n'[w] = n[w]
  BY <1>1, <1>2
<1>4. CASE Answer(u, "failed")
  <2>1. "failed" \in Answers \ {"none", "ok"}
    BY DEF Answers
  <2> QED
    BY <1>1, <1>3, <1>4, <2>1, FailedStep, Zenon
<1>5. CASE ~Answer(u, "failed")
  <2>1. ~(n'[u] > MaxLength(form[u].doc)) /\ pc' = pc /\ answer' = answer
    BY <1>5, Zenon DEF Read
  <2>2. Frame(u)
    BY <1>1, <1>3, <2>1, Zenon DEF Frame, IInv, Typed
  <2>3. 0 <= n'[u] /\ n'[u] <= MaxLength(form[u].doc)
    <3>1. Accepted(form[u]) /\ 0 <= n[u]
      BY <1>1, Zenon DEF Sound
    <3>2. MaxLength(form[u].doc) \in Nat
      BY <1>1, <3>1, AcceptedFacts, Zenon
    <3> QED
      BY <1>2, <1>3, <2>1, <3>1, <3>2
  <2>4. pc[u] # "submit"
    BY <1>1
  <2>5. Sound(u)'
    BY <1>1, <2>1, <2>3, <2>4, Zenon DEF Sound
  <2> QED
    BY <2>2, <2>5, FrameStep
<1> QED
  BY <1>4, <1>5

\* What PutObject stores is what was checked.
LEMMA StoredFacts ==
    ASSUME IInv, NEW u \in Uploads, Stored(u)
    PROVE  /\ \A o \in bucket' : o \in bucket \/ AsChecked(o)
           /\ versioning = "enabled" => \A o \in bucket : o \in bucket'
           /\ hidden' = {}
           /\ \E o \in bucket' : o.by = u
           /\ pc[u] = "stream" /\ n[u] = form[u].size /\ n[u] <= MaxLength(form[u].doc)
           /\ Accepted(form[u]) /\ form[u] \in Form /\ n[u] \in Int
<1> DEFINE key == Substituted(form[u])
           fs == fields(form[u])
           o == [by |-> u, key |-> key, size |-> n[u], fields |-> [fs EXCEPT !["key"] = key]]
           kept == IF versioning = "enabled" THEN bucket ELSE {x \in bucket : x.key # key}
<1>1. pc[u] = "stream" /\ n[u] = form[u].size /\ bucket' = kept \cup {o} /\ hidden' = {}
  BY Zenon DEF Stored, IInv, Typed
<1>2. Accepted(form[u]) /\ form[u] \in Form /\ n[u] \in Int /\ n[u] <= MaxLength(form[u].doc)
  BY <1>1, Zenon DEF IInv, Typed, Sound
<1>3. [fs EXCEPT !["key"] = key] = fs
  <2>1. "key" \in DOMAIN fs /\ fs["key"] = key
    BY <1>2, AcceptedFacts, Zenon
  <2>2. fs = [x \in DOMAIN fs |-> fs[x]]
    BY DEF fields
  <2> HIDE DEF fs, key
  <2> QED
    BY <2>1, <2>2
<1> HIDE DEF fs, key
<1>4. o.by = u /\ o.key = key /\ o.size = n[u] /\ o.fields = fs
  BY <1>3, Zenon
<1>5. AsChecked(o)
  <2> HIDE DEF o
  <2> QED
    BY <1>2, <1>4, Zenon DEF AsChecked, fs, key
<1>6. (versioning = "enabled" => kept = bucket) /\ kept \subseteq bucket
  BY Zenon
<1> HIDE DEF o, kept
<1> QED
  BY <1>1, <1>2, <1>4, <1>5, <1>6, Zenon

LEMMA PutObjectStep ==
    ASSUME IInv, NEW u \in Uploads, PutObject(u)
    PROVE  IInv'
<1>1. /\ versioning' = versioning /\ form' = form /\ n' = n /\ Stored(u)
      /\ pc \in [Uploads -> Labels] /\ answer \in [Uploads -> Answers]
  BY Zenon DEF PutObject, IInv, Typed
<1>2. /\ \A o \in bucket' : o \in bucket \/ AsChecked(o)
      /\ versioning = "enabled" => \A o \in bucket : o \in bucket'
      /\ hidden' = {}
      /\ \E o \in bucket' : o.by = u
      /\ pc[u] = "stream" /\ n[u] = form[u].size /\ n[u] <= MaxLength(form[u].doc)
      /\ Accepted(form[u]) /\ form[u] \in Form /\ n[u] \in Int
  BY <1>1, StoredFacts, Zenon
<1>3. answer[u] = "none"
  <2>1. pc[u] # "done"
    BY <1>2
  <2> QED
    BY <2>1, Zenon DEF IInv, Sound
<1>4. CASE n[u] < MinLength(form[u].doc)
  <2>1. pc' = [pc EXCEPT ![u] = "undo"] /\ answer' = answer
    BY <1>4, Zenon DEF PutObject, Goto
  <2>2. /\ pc' \in [Uploads -> Labels] /\ pc'[u] = "undo"
        /\ \A w \in Uploads \ {u} : pc'[w] = pc[w]
    BY <1>1, <2>1 DEF Labels
  <2>3. Frame(u)
    BY <1>1, <1>2, <2>1, <2>2, Zenon DEF Frame, IInv, Typed
  <2>4. Sound(u)'
    BY <1>1, <1>2, <1>3, <2>1, <2>2, Zenon DEF Sound
  <2> QED
    BY <2>3, <2>4, FrameStep
<1>5. CASE ~(n[u] < MinLength(form[u].doc))
  <2>1. pc' = [pc EXCEPT ![u] = "done"] /\ answer' = [answer EXCEPT ![u] = "ok"]
    BY <1>5, Zenon DEF PutObject, Answer, Goto
  <2>2. /\ pc' \in [Uploads -> Labels] /\ pc'[u] = "done"
        /\ answer' \in [Uploads -> Answers] /\ answer'[u] = "ok"
        /\ \A w \in Uploads \ {u} : pc'[w] = pc[w] /\ answer'[w] = answer[w]
    BY <1>1, <2>1 DEF Labels, Answers
  <2>3. Frame(u)
    BY <1>1, <1>2, <2>2, Zenon DEF Frame, IInv, Typed
  <2>4. MinLength(form[u].doc) <= form[u].size
    <3>1. MinLength(form[u].doc) \in Nat
      BY <1>2, AcceptedFacts, Zenon
    <3> QED
      BY <1>2, <1>5, <3>1
  <2>5. Sound(u)'
    BY <1>1, <1>2, <2>2, <2>4, Zenon DEF Sound
  <2> QED
    BY <2>3, <2>5, FrameStep
<1> QED
  BY <1>4, <1>5

LEMMA NextIInv == IInv /\ [Next]_vars => IInv'
<1> SUFFICES ASSUME IInv, [Next]_vars PROVE IInv'
  OBVIOUS
<1>1. n \in [Uploads -> Int] /\ hidden = {} /\ {"refused", "failed", "small"} \subseteq Answers \ {"none", "ok"}
  BY DEF IInv, Typed, Answers
<1>2. ASSUME NEW u \in Uploads, Refuse(u) PROVE IInv'
  BY <1>1, <1>2, FailedStep, Zenon DEF Refuse
<1>3. ASSUME NEW u \in Uploads, handlePostObject(u) PROVE IInv'
  BY <1>3, handlePostObjectStep
<1>4. ASSUME NEW u \in Uploads, NEW k \in 1 .. form[u].size, Read(u, k) PROVE IInv'
  BY <1>4, ReadStep
<1>5. ASSUME NEW u \in Uploads, PutObject(u) PROVE IInv'
  BY <1>5, PutObjectStep
<1>6. ASSUME NEW u \in Uploads, PutObjectLost(u) PROVE IInv'
  <2>1. /\ \A o \in bucket' : o \in bucket \/ AsChecked(o)
        /\ versioning = "enabled" => \A o \in bucket : o \in bucket'
        /\ hidden' = {}
    BY <1>6, StoredFacts, Zenon DEF PutObjectLost
  <2> QED
    BY <1>1, <1>6, <2>1, FailedStep, Zenon DEF PutObjectLost
<1>7. ASSUME NEW u \in Uploads, PutObjectFails(u) PROVE IInv'
  BY <1>1, <1>7, FailedStep, Zenon DEF PutObjectFails
<1>8. ASSUME NEW u \in Uploads, Undo(u) PROVE IInv'
  <2>1. /\ \A o \in bucket' : o \in bucket
        /\ versioning = "enabled" => \A o \in bucket : o.by # u => o \in bucket'
        /\ hidden' = {}
    BY <1>1, <1>8, Zenon DEF Undo, DeleteObject, VersionId
  <2> QED
    BY <1>1, <1>8, <2>1, FailedStep, Zenon DEF Undo
<1>9. ASSUME NEW u \in Uploads, UndoFails(u) PROVE IInv'
  BY <1>1, <1>9, FailedStep, Zenon DEF UndoFails
<1>10. CASE UNCHANGED vars
  BY <1>10, Zenon DEF vars, IInv, Typed, Sound, AsChecked
<1> QED
  BY <1>2, <1>3, <1>4, <1>5, <1>6, <1>7, <1>8, <1>9, <1>10, Zenon DEF Next, Step

\* IInv is an invariant, whatever the uploads, their forms and the backend do.
THEOREM Inductive == Spec => []IInv
<1>1. Init => IInv
  BY InitIInv
<1>2. IInv /\ [Next]_vars => IInv'
  BY NextIInv
<1> QED
  BY <1>1, <1>2, PTL DEF Spec

-----------------------------------------------------------------------------
(* What follows from it *)

\* Types: no more of a file is handed to the backend than the policy permits
\* (lengthBoundedBody), for any files and any bounds.
THEOREM TypeCorrect == Spec => []TypeOK
<1>1. IInv => TypeOK
  <2> SUFFICES ASSUME IInv PROVE TypeOK
    OBVIOUS
  <2>1. ASSUME NEW u \in Uploads, pc[u] = "stream" PROVE n[u] \in 0 .. MaxLength(form[u].doc)
    <3>1. /\ form[u] \in Form /\ Accepted(form[u]) /\ n[u] \in Int
          /\ 0 <= n[u] /\ n[u] <= MaxLength(form[u].doc)
      BY <2>1, Zenon DEF IInv, Typed, Sound
    <3>2. MaxLength(form[u].doc) \in Nat
      BY <3>1, AcceptedFacts, Zenon
    <3> QED
      BY <3>1, <3>2
  <2> QED
    BY <2>1, Zenon DEF TypeOK, IInv, Typed, Labels, Answers
<1> QED
  BY <1>1, Inductive, PTL

\* Whatever is in the bucket was stored as a policy signed with the account's
\* secret permits, key, fields and size (VerifyPost, postPutObject).
THEOREM OnlyAsSigned == Spec => []StoredAsSigned
<1>1. IInv => StoredAsSigned
  <2> SUFFICES ASSUME IInv, NEW o \in bucket
               PROVE  LET doc == form[o.by].doc
                      IN  /\ form[o.by].sig = [secret |-> Secret, doc |-> doc]
                          /\ o.fields["key"] = o.key /\ o.fields["bucket"] = Target
                          /\ evaluatePostPolicy(doc, o.fields)
                          /\ \A c \in Ranges(doc) : o.size <= c.max
    BY Zenon DEF StoredAsSigned
  <2> DEFINE f == form[o.by]
  <2>1. /\ f \in Form /\ Accepted(f) /\ o.key = Substituted(f) /\ o.fields = fields(f)
        /\ o.size \in Int /\ o.size <= MaxLength(f.doc)
    BY Zenon DEF IInv, Typed, AsChecked
  <2> HIDE DEF f
  <2>2. /\ f.sig = [secret |-> Secret, doc |-> f.doc]
        /\ parsePostPolicy(f.doc) /\ evaluatePostPolicy(f.doc, fields(f))
        /\ fields(f)["key"] = Substituted(f) /\ fields(f)["bucket"] = Target
    BY <2>1, AcceptedFacts, Zenon
  <2>3. \A c \in Ranges(f.doc) : o.size <= c.max
    <3> TAKE c \in Ranges(f.doc)
    <3>1. MaxLength(f.doc) \in Nat /\ c.max \in Nat /\ MaxLength(f.doc) <= c.max
      BY <2>1, <2>2, RangeFacts, Zenon
    <3> QED
      BY <2>1, <3>1
  <2> QED
    BY <2>1, <2>2, <2>3, Zenon DEF f
<1> QED
  BY <1>1, Inductive, PTL

\* An upload answered with success has a size within every range of its policy
\* (postPutObject's check after the upload, lengthBoundedBody's during it).
THEOREM SizesInRange == Spec => []AcceptedInRange
<1>1. IInv => AcceptedInRange
  <2> SUFFICES ASSUME IInv, NEW u \in Uploads, answer[u] = "ok", NEW c \in Ranges(form[u].doc)
               PROVE  form[u].size \in c.min .. c.max
    BY Zenon DEF AcceptedInRange
  <2>1. /\ form[u] \in Form /\ Accepted(form[u])
        /\ MinLength(form[u].doc) <= form[u].size /\ form[u].size <= MaxLength(form[u].doc)
    BY Zenon DEF IInv, Typed, Sound
  <2>2. form[u].size \in Int /\ parsePostPolicy(form[u].doc)
    BY <2>1, FormAssumption, AcceptedFacts, Zenon
  <2>3. /\ MinLength(form[u].doc) \in Nat /\ MaxLength(form[u].doc) \in Nat
        /\ c.min \in Nat /\ c.max \in Nat
        /\ c.min <= MinLength(form[u].doc) /\ MaxLength(form[u].doc) <= c.max
    BY <2>1, <2>2, RangeFacts, Zenon
  <2> QED
    BY <2>1, <2>2, <2>3
<1> QED
  BY <1>1, Inductive, PTL

\* With versioning no undo of a short upload takes away or hides an accepted one, however
\* many uploads share a key (postPutObject's DeleteObject by version).
THEOREM UndoKeepsOthers == Spec => []AcceptedKept
<1>1. IInv => AcceptedKept
  BY Zenon DEF IInv, Typed, Sound, AcceptedKept
<1> QED
  BY <1>1, Inductive, PTL

=============================================================================

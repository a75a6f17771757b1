-------------------------------- MODULE Glob --------------------------------
(***************************************************************************)
(* The wildcard matcher of package policy: matchRunes in policy/policy.go, *)
(* which decides every action and resource pattern.  It is a backtracking  *)
(* loop over two cursors; here one iteration is one step, and positions    *)
(* count from 0 as in the code, so pat[p] is pat[p + 1].  Other characters *)
(* than the two wildcards are told apart by equality alone.                *)
(***************************************************************************)
EXTENDS Integers, Sequences

CONSTANTS Patterns, Values

ASSUME GlobAssumption == \A s \in Patterns \cup Values : s \in Seq(STRING)

VARIABLES pat, val, p, v, star, starV, result

globVars == <<pat, val, p, v, star, starV, result>>

-----------------------------------------------------------------------------
(* What a pattern means: the doc comment of Match *)

\* The n-th character of the pattern may stand for those of the value after the
\* a-th, up to the b-th.
Takes(pattern, value, n, a, b) ==
    IF pattern[n] = "*" THEN a <= b ELSE b = a + 1 /\ pattern[n] \in {"?", value[b]}

\* The characters of the pattern after the i-th, up to the j-th, may stand for
\* those of the value after the a-th, up to the b-th: at[n] is how far the n-th
\* one gets.
Spans(pattern, value, i, a, j, b) ==
    \E at \in [i .. j -> a .. b] :
        /\ at[i] = a /\ at[j] = b
        /\ \A n \in i + 1 .. j : Takes(pattern, value, n, at[n - 1], at[n])

Match(pattern, value) == Spans(pattern, value, 0, 0, Len(pattern), Len(value))

\* The pattern after its i-th character matches the value after its a-th.
MatchFrom(i, a) == Spans(pat, val, i, a, Len(pat), Len(val))

-----------------------------------------------------------------------------
(* matchRunes *)

GlobInit ==
    /\ pat \in Patterns /\ val \in Values
    /\ p = 0 /\ v = 0
    /\ star = -1 /\ starV = 0
    /\ result = "none"

InLoop == result = "none" /\ v < Len(val)
Literal == p < Len(pat) /\ pat[p + 1] \in {"?", val[v + 1]}
AtStar == p < Len(pat) /\ pat[p + 1] = "*"

MatchOne ==
    /\ InLoop /\ Literal
    /\ p' = p + 1 /\ v' = v + 1
    /\ UNCHANGED <<pat, val, star, starV, result>>

\* Faulty: a later star does not replace the one to return to.
OpenFirstStar ==
    /\ InLoop /\ ~Literal /\ AtStar
    /\ star' = (IF star = -1 THEN p ELSE star)
    /\ starV' = (IF star = -1 THEN v ELSE starV)
    /\ p' = p + 1
    /\ UNCHANGED <<pat, val, v, result>>

OpenStar ==
    /\ InLoop /\ ~Literal /\ AtStar
    /\ star' = p /\ starV' = v
    /\ p' = p + 1
    /\ UNCHANGED <<pat, val, v, result>>

\* Faulty: returns to where the star was met, not one character further.
BackToStart ==
    /\ InLoop /\ ~Literal /\ ~AtStar /\ star >= 0
    /\ p' = star + 1
    /\ v' = starV
    /\ UNCHANGED <<pat, val, star, starV, result>>

\* Faulty: the pattern is not taken up again after the star.
BackInValue ==
    /\ InLoop /\ ~Literal /\ ~AtStar /\ star >= 0
    /\ starV' = starV + 1
    /\ v' = starV + 1
    /\ UNCHANGED <<pat, val, p, star, result>>

Backtrack ==
    /\ InLoop /\ ~Literal /\ ~AtStar /\ star >= 0
    /\ p' = star + 1
    /\ starV' = starV + 1
    /\ v' = starV + 1
    /\ UNCHANGED <<pat, val, star, result>>

Mismatch ==
    /\ InLoop /\ ~Literal /\ ~AtStar /\ star < 0
    /\ result' = "false"
    /\ UNCHANGED <<pat, val, p, v, star, starV>>

\* Faulty: trailing stars of the pattern are not skipped.
FinishNoSkip ==
    /\ result = "none" /\ v >= Len(val)
    /\ result' = IF p = Len(pat) THEN "true" ELSE "false"
    /\ UNCHANGED <<pat, val, p, v, star, starV>>

\* The value is used up: what is left of the pattern must be stars only.
Finish ==
    /\ result = "none" /\ v >= Len(val)
    /\ result' = IF \A i \in p + 1 .. Len(pat) : pat[i] = "*" THEN "true" ELSE "false"
    /\ UNCHANGED <<pat, val, p, v, star, starV>>

GlobNext == MatchOne \/ OpenStar \/ Backtrack \/ Mismatch \/ Finish

\* The loop is straight-line code: it runs on until it returns.
GlobSpec == GlobInit /\ [][GlobNext]_globVars /\ WF_globVars(GlobNext)

-----------------------------------------------------------------------------
(* Properties *)

\* The cursors stay inside the pattern and the value, so pat[p] and val[v] are
\* never read out of range.
GlobTypeOK ==
    /\ pat \in Patterns /\ val \in Values
    /\ p \in 0 .. Len(pat) /\ v \in 0 .. Len(val)
    /\ star \in -1 .. p - 1 /\ starV \in 0 .. v
    /\ result \in {"none", "true", "false"}

\* What the comment of Match promises: "*" matches any sequence of characters
\* and "?" exactly one.  The loop returns what that meaning says.
MatchesAsDocumented == result # "none" => (result = "true") = Match(pat, val)

\* The value holds no "*".
Plain == \A n \in 1 .. Len(val) : val[n] # "*"

\* For values without a "*" the loop of matchRunes does return what the comment
\* promises.
PlainMatched == Plain => MatchesAsDocumented

\* Whatever the value, a pattern is never taken to match what it does not: the
\* literal case that comes first in the loop can only lose matches.
NeverOvermatches == result = "true" => Match(pat, val)

\* Remembering only the last star loses no match: at every iteration the answer
\* is still to be found from the two cursors, or by letting the last star take
\* more of the value.
LastStarSuffices ==
    Plain /\ result = "none" =>
        Match(pat, val) =
            \/ MatchFrom(p, v)
            \/ star >= 0 /\ \E k \in starV + 1 .. Len(val) : MatchFrom(star + 1, k)

\* Every iteration gets further: to a later star, to a later start of what the star
\* at hand leaves, or on through the value; so there are only finitely many.
Progresses ==
    [][\/ result' # "none"
       \/ star' > star
       \/ star' = star /\ starV' > starV
       \/ star' = star /\ starV' = starV /\ v' > v]_globVars

\* Every call returns, however often it has to go back to a star.
Returns == <>(result # "none")
=============================================================================

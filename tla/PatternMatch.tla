-------------------------- MODULE PatternMatch --------------------------
(***************************************************************************)
(* matches_pattern (src/src/pattern.rs), the glob matcher behind routing   *)
(* and ACL rules, as the loop it is: two cursors, and the last star with   *)
(* the text position it was tried at.  One step is one turn of a loop.     *)
(* Every pair of a pattern and a text over the given bytes is an initial   *)
(* state.                                                                  *)
(***************************************************************************)
EXTENDS Naturals, Sequences, SequencesExt

CONSTANTS
  PatternChars, TextChars,    \* bytes; "*" and "?" are themselves
  MaxPattern, MaxText         \* bounds on the lengths

ASSUME PatternAssumption == MaxPattern \in Nat /\ MaxText \in Nat

VARIABLES
  pat, text,        \* the arguments
  pi, ti,           \* next byte of each, counted from 1
  star, match_idx,  \* last star seen (0 for none), text position it stands for
  verdict           \* "matching", "trailing" (stars), TRUE or FALSE

matchVars == <<pat, text, pi, ti, star, match_idx, verdict>>

Strings(chars, max) == BoundedSeq(chars, max)

\* matches_pattern answers "*" at once, anything else is left to simple_match
MatchInit ==
  /\ pat \in Strings(PatternChars, MaxPattern)
  /\ text \in Strings(TextChars, MaxText)
  /\ pi = 1 /\ ti = 1 /\ star = 0 /\ match_idx = 0
  /\ verdict = IF pat = <<"*">> THEN "yes" ELSE "matching"

InText == verdict = "matching" /\ ti <= Len(text)

\* the test of the first branch
TakesByte == pi <= Len(pat) /\ pat[pi] \in {"?", text[ti]}

AtStar == pi <= Len(pat) /\ pat[pi] = "*"

Advance ==
  /\ InText /\ TakesByte
  /\ pi' = pi + 1 /\ ti' = ti + 1
  /\ UNCHANGED <<pat, text, star, match_idx, verdict>>

\* Mutant: the text position is not remembered.
EnterStarForgetful ==
  /\ InText /\ ~TakesByte /\ AtStar
  /\ star' = pi /\ pi' = pi + 1
  /\ UNCHANGED <<pat, text, ti, match_idx, verdict>>

\* a star: try the empty substring first
EnterStar ==
  /\ InText /\ ~TakesByte /\ AtStar
  /\ star' = pi /\ match_idx' = ti /\ pi' = pi + 1
  /\ UNCHANGED <<pat, text, ti, verdict>>

\* Mutant: the star is tried again where it was.
BacktrackInPlace ==
  /\ InText /\ ~TakesByte /\ ~AtStar /\ star # 0
  /\ pi' = star + 1 /\ ti' = match_idx
  /\ UNCHANGED <<pat, text, star, match_idx, verdict>>

\* Mutant: the cursor of the text steps on without going back.
BacktrackAhead ==
  /\ InText /\ ~TakesByte /\ ~AtStar /\ star # 0
  /\ pi' = star + 1 /\ match_idx' = match_idx + 1 /\ ti' = ti + 1
  /\ UNCHANGED <<pat, text, star, verdict>>

\* no branch fits, but an earlier star may stand for one byte more
Backtrack ==
  /\ InText /\ ~TakesByte /\ ~AtStar /\ star # 0
  /\ pi' = star + 1 /\ match_idx' = match_idx + 1 /\ ti' = match_idx + 1
  /\ UNCHANGED <<pat, text, star, verdict>>

Fail ==
  /\ InText /\ ~TakesByte /\ ~AtStar /\ star = 0
  /\ verdict' = "no"
  /\ UNCHANGED <<pat, text, pi, ti, star, match_idx>>

\* the second loop: stars at the end of the pattern match nothing
EndOfText ==
  /\ verdict = "matching" /\ ti > Len(text)
  /\ verdict' = "trailing"
  /\ UNCHANGED <<pat, text, pi, ti, star, match_idx>>

SkipStar ==
  /\ verdict = "trailing" /\ AtStar
  /\ pi' = pi + 1
  /\ UNCHANGED <<pat, text, ti, star, match_idx, verdict>>

Answer ==
  /\ verdict = "trailing" /\ ~AtStar
  /\ verdict' = IF pi = Len(pat) + 1 THEN "yes" ELSE "no"
  /\ UNCHANGED <<pat, text, pi, ti, star, match_idx>>

MatchNext ==
  \/ Advance \/ EnterStar \/ Backtrack \/ Fail
  \/ EndOfText \/ SkipStar \/ Answer

MatchSpec == MatchInit /\ [][MatchNext]_matchVars /\ WF_matchVars(MatchNext)

---------------------------------------------------------------------------
(* Properties *)

\* What p[i] stands for in the text, from one cut to the next: any substring
\* for "*", one character for "?", any other character for itself.
Piece(p, t, cuts, i) ==
  IF p[i] = "*" THEN cuts[i - 1] <= cuts[i]
  ELSE cuts[i] = cuts[i - 1] + 1 /\ p[i] \in {"?", t[cuts[i]]}

\* What the comment on matches_pattern says: a pattern matches a text when
\* the text can be cut that way.  (Here a character is a byte, as in ASCII
\* texts.)
Glob(p, t) ==
  \E cuts \in [0 .. Len(p) -> 0 .. Len(t)] :
    /\ cuts[0] = 0 /\ cuts[Len(p)] = Len(t)
    /\ \A i \in 1 .. Len(p) : Piece(p, t, cuts, i)

\* The matcher answers as its comment says, although it only ever goes back
\* to the last star.
AnswersGlob ==
  verdict \in {"yes", "no"} => (verdict = "yes" <=> Glob(pat, text))

\* What has been consumed always matches: the pattern before the cursor
\* matches the text before the cursor.
PrefixMatches ==
  verdict \in {"matching", "trailing"} =>
    Glob(SubSeq(pat, 1, pi - 1), SubSeq(text, 1, ti - 1))

\* The loop ends for every pattern and text.
Terminates == <>(verdict \in {"yes", "no"})

=========================================================================

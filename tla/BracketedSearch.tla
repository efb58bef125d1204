--------------------------- MODULE BracketedSearch ---------------------------
(***************************************************************************)
(* The bracketed rate search of the type 19 encoder, bracketed_rate_next   *)
(* in tools/replay_encode.c: the adjacent level first, then steps that     *)
(* double until the edge of the target window is crossed, then a binary    *)
(* search for the first level on the far side of that edge.                *)
(*                                                                         *)
(* The search treats higher levels as producing no more bytes.  The sizes  *)
(* here are unconstrained: what it settles on when they are not monotone   *)
(* is part of what is checked.                                             *)
(***************************************************************************)
EXTENDS RateLoop

VARIABLES
  low, high,    \* search->low, search->high: the levels still to be probed
  step,         \* the next expansion step
  candidate,    \* the best level known to have crossed, or NoCandidate
  finalProbe    \* the candidate is being encoded again to be kept

searchVars == <<low, high, step, candidate, finalProbe>>
vars == <<loopVars, searchVars>>

NoCandidate == -1

Init ==
  /\ LoopInit
  /\ low = 0 /\ high = 0 /\ step = 0
  /\ candidate = NoCandidate
  /\ finalProbe = FALSE

\* BracketedRateSearch bracketed = { 0, ... } for every frame.
Start ==
  /\ StartControl
  /\ low' = 0 /\ high' = 0 /\ step' = 0
  /\ candidate' = NoCandidate
  /\ finalProbe' = FALSE

EncodeFrame == Encode /\ UNCHANGED searchVars

Stop == Keep /\ UNCHANGED searchVars

-----------------------------------------------------------------------------
(* The first decision, on the carried level.                               *)

Undecided == phase = "observe" /\ ~ finalProbe /\ direction = 0

KeepFirst ==
  /\ Undecided
  /\ \/ size >= TargetMin /\ size <= TargetMax
     \/ size > TargetMax /\ level + 1 >= LevelCount
     \/ size < TargetMin /\ level = 0
  /\ Stop

StartLooser ==
  /\ Undecided
  /\ size > TargetMax
  /\ level + 1 < LevelCount
  /\ direction' = 1
  /\ low' = level + 1 /\ high' = LastLevel /\ step' = 2
  /\ RetryAt(level + 1)
  /\ UNCHANGED <<candidate, finalProbe>>

StartTighter ==
  /\ Undecided
  /\ size < TargetMin
  /\ level > 0
  /\ direction' = -1
  /\ low' = 0 /\ high' = level - 1 /\ step' = 2
  /\ RetryAt(level - 1)
  /\ UNCHANGED <<candidate, finalProbe>>

-----------------------------------------------------------------------------
(* Later decisions: first the encode just made narrows the bracket ...     *)

Decided == phase = "observe" /\ ~ finalProbe /\ direction # 0

\* Seeded fault: the lower edge of the window counts as outside it.
CrossedStrictly ==
  \/ direction = 1 /\ size <= TargetMax
  \/ direction = -1 /\ size > TargetMin

Crossed ==
  \/ direction = 1 /\ size <= TargetMax
  \/ direction = -1 /\ size >= TargetMin

\* Levels above this one are out: loosening and crossed, or tightening and not.
CutsHigh == (direction = 1) <=> Crossed

Candidate == IF Crossed THEN level ELSE candidate
High == IF ~ CutsHigh THEN high ELSE IF level = 0 THEN 0 ELSE level - 1
\* Seeded fault: the level just probed stays in the bracket.
LowAtLevel == IF CutsHigh THEN low ELSE level

Low  == IF CutsHigh THEN low ELSE level + 1

Narrow == low' = Low /\ high' = High /\ candidate' = Candidate

\* The early return of the tightening branch: level 0 is still too small.
AtBottom == direction = -1 /\ ~ Crossed /\ level = 0

(* ... then the next level is chosen.                                      *)

Middle ==
  IF direction = 1 THEN Low + (High - Low) \div 2
                   ELSE Low + (High - Low + 1) \div 2

Bisect ==
  /\ Decided /\ ~ AtBottom
  /\ Candidate # NoCandidate
  /\ Low <= High
  /\ Narrow
  /\ RetryAt(Middle)
  /\ UNCHANGED <<direction, step, finalProbe>>

\* Seeded fault: the latest encode is taken for the candidate.
KeepLatest ==
  /\ Decided /\ ~ AtBottom
  /\ Candidate # NoCandidate
  /\ Low > High
  /\ Keep
  /\ Narrow
  /\ UNCHANGED <<step, finalProbe>>

\* The bracket is empty.  The candidate is kept at once if it is what the
\* payload buffer holds; otherwise it has to be encoded again.
KeepCandidate ==
  /\ Decided /\ ~ AtBottom
  /\ Candidate = level
  /\ Low > High
  /\ Keep
  /\ Narrow
  /\ UNCHANGED <<step, finalProbe>>

ProbeCandidate ==
  /\ Decided /\ ~ AtBottom
  /\ Candidate \notin {NoCandidate, level}
  /\ Low > High
  /\ Narrow
  /\ finalProbe' = TRUE
  /\ RetryAt(Candidate)
  /\ UNCHANGED <<direction, step>>

\* Nothing has crossed yet: expand, clamped to the end of the table.
Expanded ==
  IF direction = 1
  THEN level + (IF step < LastLevel - level THEN step ELSE LastLevel - level)
  ELSE IF level > step THEN level - step ELSE 0

\* Seeded fault: the expansion step never doubles.
ExpandEvenly ==
  /\ Decided /\ ~ AtBottom
  /\ Candidate = NoCandidate
  /\ direction = 1 => level < LastLevel
  /\ Narrow
  /\ RetryAt(Expanded)
  /\ UNCHANGED <<direction, step, finalProbe>>

Expand ==
  /\ Decided /\ ~ AtBottom
  /\ Candidate = NoCandidate
  /\ direction = 1 => level < LastLevel
  /\ Narrow
  /\ step' = IF step <= LastLevel \div 2 THEN step * 2 ELSE step
  /\ RetryAt(Expanded)
  /\ UNCHANGED <<direction, finalProbe>>

KeepEnd ==
  /\ Decided
  /\ \/ AtBottom /\ UNCHANGED <<low, high, candidate>>
     \/ ~ AtBottom /\ Candidate = NoCandidate /\ direction = 1
        /\ level = LastLevel /\ Narrow
  /\ Keep
  /\ UNCHANGED <<step, finalProbe>>

KeepFinal ==
  /\ phase = "observe"
  /\ finalProbe
  /\ Stop

Decide ==
  \/ KeepFirst \/ StartLooser \/ StartTighter
  \/ Bisect \/ KeepCandidate \/ ProbeCandidate \/ Expand \/ KeepEnd
  \/ KeepFinal

Next == Start \/ EncodeFrame \/ Decide

Spec == Init /\ [][Next]_vars

-----------------------------------------------------------------------------

TypeOK ==
  /\ LoopTypeOK
  /\ low \in 0 .. LevelCount
  /\ high \in Levels
  /\ step \in Nat
  /\ candidate \in Levels \cup {NoCandidate}
  /\ finalProbe \in BOOLEAN

(***************************************************************************)
(* The bracket: everything on the near side of low..high was measured on   *)
(* the wrong side of the window next to it, everything on the far side is  *)
(* cut off by a candidate that crossed, and the level being probed lies in *)
(* the bracket and has not been encoded before.                            *)
(***************************************************************************)
LooserBracket ==
  /\ current < low
  /\ Search!Over(measured, current)
  /\ Search!Over(measured, low - 1)
  /\ candidate = NoCandidate => high = LastLevel
  /\ candidate # NoCandidate =>
       /\ high = candidate - 1
       /\ current < candidate
       /\ measured[candidate] # Unmeasured
       /\ ~ Search!Over(measured, candidate)

TighterBracket ==
  /\ high < current
  /\ Search!Under(measured, current)
  /\ Search!Under(measured, high + 1)
  /\ candidate = NoCandidate => low = 0
  /\ candidate # NoCandidate =>
       /\ low = candidate + 1
       /\ candidate < current
       /\ measured[candidate] # Unmeasured
       /\ ~ Search!Under(measured, candidate)

BracketInv ==
  phase # "idle" =>
    /\ direction = 0 => level = current /\ candidate = NoCandidate /\ ~ finalProbe
    /\ direction = 1 => LooserBracket
    /\ direction = -1 => TighterBracket
    /\ direction # 0 /\ ~ finalProbe =>
         step >= 2 /\ low <= level /\ level <= high
    /\ finalProbe => level = candidate /\ direction # 0 /\ low = high + 1
    /\ phase = "observe" => measured[level] = size

\* No level is encoded twice for a frame, except the candidate that has to be
\* encoded again because its payload was overwritten by a later probe.
NoWastedProbe ==
  phase = "encode" /\ measured[level] # Unmeasured =>
    finalProbe /\ level = candidate

\* "Bounded": the retries of a frame are logarithmic in the size of the
\* table, whatever the sizes do - at most 10 for the 29 rows of the code.
LogarithmicRetries ==
  \A k \in 1 .. 6 : 2 ^ k >= LevelCount => retries <= 2 * k

\* The search settles only where the abstract search may settle.
ImplementsSearch == Search!Spec
=============================================================================

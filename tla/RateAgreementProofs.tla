-------------------------- MODULE RateAgreementProofs --------------------------
(***************************************************************************)
(* The two searches for a quality row, each by itself and side by side on  *)
(* the same frames, for every table, window and set of payload sizes.      *)
(*                                                                         *)
(* Each keeps an invariant of its own (LinearPath, BracketCorrect) and     *)
(* settles only at the edge of the window on the side its first encode     *)
(* missed (AcceptSettles, KeepSettles), which is what RateSearch allows.   *)
(* On sizes that never grow with the row there is only one such edge, so   *)
(* both carry the same row from frame to frame (Agreement).                *)
(***************************************************************************)
EXTENDS RateAgreement, TLAPS

-----------------------------------------------------------------------------

(* The linear search: its invariants, and that it settles only where the   *)
(* abstract RateSearch may, for every table size, every set of payload     *)
(* sizes and every target window.                                          *)

LEMMA LinearAssumption == Linear!RateAssumption
BY RateAssumption DEF Linear!RateAssumption

\* One step keeps every variable in its range.
LEMMA LinearTypeStep ==
  ASSUME Linear!TypeOK, [Linear!Next]_(Linear!loopVars)
  PROVE  Linear!TypeOK'
<1> USE LinearAssumption DEF Linear!TypeOK, Linear!LoopTypeOK, Linear!Levels,
       Linear!Unmeasured
<1>1. CASE Linear!StartControl
  BY <1>1 DEF Linear!StartControl
<1>2. CASE Linear!Encode
  BY <1>2 DEF Linear!Encode
<1>3. CASE Linear!Tighten
  BY <1>3 DEF Linear!Tighten, Linear!CanTighten, Linear!RetryAt
<1>4. CASE Linear!Loosen
  BY <1>4 DEF Linear!Loosen, Linear!CanLoosen, Linear!RetryAt
<1>5. CASE Linear!Accept
  BY <1>5 DEF Linear!Accept, Linear!Keep
<1>6. CASE UNCHANGED Linear!loopVars
  BY <1>6 DEF Linear!loopVars
<1>7. QED
  BY <1>1, <1>2, <1>3, <1>4, <1>5, <1>6 DEF Linear!Next

\* Every variable stays in its range; in particular the level never leaves
\* the quality table, whatever sizes the encoder returns.
THEOREM LinearTypeCorrect == Linear!Spec => []Linear!TypeOK
<1>1. Linear!Init => Linear!TypeOK
  BY LinearAssumption DEF Linear!Init, Linear!LoopInit, Linear!TypeOK,
     Linear!LoopTypeOK, Linear!Levels, Linear!Unmeasured
<1>2. QED
  BY <1>1, LinearTypeStep, PTL DEF Linear!Spec

\* One step keeps the path invariant.
LEMMA LinearPathStep ==
  ASSUME Linear!TypeOK, Linear!PathInv, [Linear!Next]_(Linear!loopVars)
  PROVE  Linear!PathInv'
<1> USE LinearAssumption DEF Linear!TypeOK, Linear!LoopTypeOK, Linear!Levels,
       Linear!Unmeasured, Linear!PathInv, Linear!Search!Over, Linear!Search!Under,
       Linear!Search!Unmeasured
<1>1. CASE Linear!StartControl
  BY <1>1 DEF Linear!StartControl
<1>2. CASE Linear!Encode
  BY <1>2 DEF Linear!Encode
<1>3. CASE Linear!Tighten
  BY <1>3 DEF Linear!Tighten, Linear!CanTighten, Linear!RetryAt
<1>4. CASE Linear!Loosen
  BY <1>4 DEF Linear!Loosen, Linear!CanLoosen, Linear!CanTighten, Linear!RetryAt
<1>5. CASE Linear!Accept
  BY <1>5 DEF Linear!Accept, Linear!Keep
<1>6. CASE UNCHANGED Linear!loopVars
  BY <1>6 DEF Linear!loopVars
<1>7. QED
  BY <1>1, <1>2, <1>3, <1>4, <1>5, <1>6 DEF Linear!Next

\* The levels left behind were all measured on the wrong side of the window.
THEOREM LinearPath == Linear!Spec => []Linear!PathInv
<1>1. Linear!Init => Linear!PathInv
  BY DEF Linear!Init, Linear!LoopInit, Linear!PathInv
<1>2. QED
  BY <1>1, LinearPathStep, LinearTypeCorrect, PTL DEF Linear!Spec

\* A frame costs exactly as many retries as the level moved, so never more
\* than the table has rows.
THEOREM LinearRetries == Linear!Spec => []Linear!RetriesAreDistance
<1> USE LinearAssumption DEF Linear!TypeOK, Linear!LoopTypeOK, Linear!Levels,
       Linear!RetriesAreDistance
<1>1. Linear!Init => Linear!RetriesAreDistance
  BY DEF Linear!Init, Linear!LoopInit
<1>2. Linear!TypeOK /\ Linear!PathInv /\ Linear!RetriesAreDistance
        /\ [Linear!Next]_(Linear!loopVars)
        => Linear!RetriesAreDistance'
  <2> SUFFICES ASSUME Linear!TypeOK, Linear!PathInv, Linear!RetriesAreDistance,
                      [Linear!Next]_(Linear!loopVars)
               PROVE  Linear!RetriesAreDistance'
    OBVIOUS
  <2>1. CASE Linear!StartControl
    BY <2>1 DEF Linear!StartControl
  <2>2. CASE Linear!Encode
    BY <2>2 DEF Linear!Encode
  <2>3. CASE Linear!Tighten
    BY <2>3 DEF Linear!Tighten, Linear!CanTighten, Linear!RetryAt, Linear!PathInv
  <2>4. CASE Linear!Loosen
    BY <2>4 DEF Linear!Loosen, Linear!CanLoosen, Linear!RetryAt, Linear!PathInv
  <2>5. CASE Linear!Accept
    BY <2>5 DEF Linear!Accept, Linear!Keep
  <2>6. CASE UNCHANGED Linear!loopVars
    BY <2>6 DEF Linear!loopVars
  <2>7. QED
    BY <2>1, <2>2, <2>3, <2>4, <2>5, <2>6 DEF Linear!Next
<1>3. QED
  BY <1>1, <1>2, LinearTypeCorrect, LinearPath, PTL DEF Linear!Spec

\* Within one frame the direction, once chosen, is kept.
THEOREM LinearDirection == Linear!Spec => Linear!NeverReverses
<1>1. Linear!TypeOK /\ [Linear!Next]_(Linear!loopVars)
        => [lphase # "idle" /\ ldirection # 0
              => ldirection' = ldirection]_(Linear!loopVars)
  BY DEF Linear!TypeOK, Linear!LoopTypeOK, Linear!Next, Linear!loopVars,
     Linear!StartControl, Linear!Encode, Linear!Tighten, Linear!CanTighten,
     Linear!Loosen, Linear!CanLoosen, Linear!Accept, Linear!Keep, Linear!RetryAt
<1>2. QED
  BY <1>1, LinearTypeCorrect, PTL DEF Linear!Spec, Linear!NeverReverses

\* Where the search stops is where the abstract search may stop.
LEMMA AcceptSettles ==
  ASSUME Linear!TypeOK, Linear!PathInv, Linear!Accept
  PROVE  Linear!Search!Settles(lmeasured, lcurrent, llevel)
<1> USE LinearAssumption DEF Linear!TypeOK, Linear!LoopTypeOK, Linear!Levels,
       Linear!Unmeasured, Linear!Search!Over, Linear!Search!Under,
       Linear!Search!Fits, Linear!Search!Unmeasured
<1>1. lmeasured[llevel] = lsize /\ lsize \in Nat
  BY DEF Linear!PathInv, Linear!Accept
<1>2. CASE ldirection = 0
  BY <1>1, <1>2 DEF Linear!PathInv, Linear!Accept, Linear!CanTighten,
     Linear!CanLoosen, Linear!Search!Settles, Linear!Search!SettlesLooser,
     Linear!Search!SettlesTighter, Linear!Search!LastLevel
<1>3. CASE ldirection = 1
  <2>1. /\ Linear!Search!Over(lmeasured, lcurrent)
        /\ Linear!Search!Over(lmeasured, llevel - 1)
    BY <1>3 DEF Linear!PathInv, Linear!Accept
  <2>2. llevel > lcurrent /\ (lsize <= TargetMax \/ llevel = LevelCount - 1)
    BY <1>3 DEF Linear!PathInv, Linear!Accept, Linear!CanLoosen
  <2>3. QED
    BY <1>1, <2>1, <2>2 DEF Linear!Search!Settles, Linear!Search!SettlesLooser,
       Linear!Search!LastLevel
<1>4. CASE ldirection = -1
  <2>1. /\ Linear!Search!Under(lmeasured, lcurrent)
        /\ Linear!Search!Under(lmeasured, llevel + 1)
    BY <1>4 DEF Linear!PathInv, Linear!Accept
  <2>2. llevel < lcurrent /\ (lsize >= TargetMin \/ llevel = 0)
    BY <1>4 DEF Linear!PathInv, Linear!Accept, Linear!CanTighten
  <2>3. QED
    BY <1>1, <2>1, <2>2 DEF Linear!Search!Settles, Linear!Search!SettlesTighter
<1>5. QED
  BY <1>2, <1>3, <1>4

\* Every step of the linear search is a step of the abstract search or
\* leaves its state alone.
THEOREM LinearImplementsSearch == Linear!Spec => Linear!ImplementsSearch
<1> USE LinearAssumption DEF Linear!TypeOK, Linear!LoopTypeOK, Linear!Levels,
       Linear!Unmeasured, Linear!Search!Levels, Linear!Search!Unmeasured
<1>1. Linear!Init => Linear!Search!Init
  BY DEF Linear!Init, Linear!LoopInit, Linear!Search!Init
<1>2. Linear!TypeOK /\ Linear!PathInv /\ [Linear!Next]_(Linear!loopVars)
        => [Linear!Search!Next]_(Linear!Search!absVars)
  <2> SUFFICES ASSUME Linear!TypeOK, Linear!PathInv, [Linear!Next]_(Linear!loopVars)
               PROVE  Linear!Search!Next \/ UNCHANGED Linear!Search!absVars
    OBVIOUS
  <2>1. CASE Linear!StartControl
    BY <2>1 DEF Linear!StartControl, Linear!Search!Next, Linear!Search!Begin
  <2>2. CASE Linear!Encode
    <3>1. CASE lmeasured[llevel] = Linear!Unmeasured
      BY <2>2, <3>1 DEF Linear!Encode, Linear!Search!Next, Linear!Search!Measure
    <3>2. CASE lmeasured[llevel] # Linear!Unmeasured
      BY <2>2, <3>2 DEF Linear!Encode, Linear!Search!absVars
    <3>3. QED
      BY <3>1, <3>2
  <2>3. CASE Linear!Tighten
    BY <2>3 DEF Linear!Tighten, Linear!RetryAt, Linear!Search!absVars
  <2>4. CASE Linear!Loosen
    BY <2>4 DEF Linear!Loosen, Linear!RetryAt, Linear!Search!absVars
  <2>5. CASE Linear!Accept
    <3>1. Linear!Search!Finish(llevel)
      BY <2>5, AcceptSettles DEF Linear!Accept, Linear!Keep, Linear!Search!Finish
    <3>2. QED
      BY <3>1 DEF Linear!Search!Next
  <2>6. CASE UNCHANGED Linear!loopVars
    BY <2>6 DEF Linear!loopVars, Linear!Search!absVars
  <2>7. QED
    BY <2>1, <2>2, <2>3, <2>4, <2>5, <2>6 DEF Linear!Next
<1>3. QED
  BY <1>1, <1>2, LinearTypeCorrect, LinearPath, PTL DEF Linear!Spec,
     Linear!ImplementsSearch, Linear!Search!Spec

-----------------------------------------------------------------------------

(* The bracketed search: what its bracket holds, that it settles only      *)
(* where the abstract RateSearch may, that no row is encoded twice but the *)
(* one it keeps, and how many encodes a frame costs.                       *)

\* One step keeps the ranges and the bracket together: neither is inductive
\* alone, since a probe is in the table because it is in the bracket.
BracketedInv == TypeOK /\ BracketInv

\* What the decision step knows about the encode it has just made.
LEMMA Observed ==
  ASSUME BracketedInv, phase = "observe"
  PROVE  measured[level] = size /\ size \in Nat /\ level \in Levels
BY DEF BracketedInv, TypeOK, LoopTypeOK, BracketInv

\* Narrowing an upward bracket leaves a bracket on the rest of it.
LEMMA NarrowLooser ==
  ASSUME BracketedInv, Decided, direction = 1
  PROVE  /\ current < Low
         /\ Search!Over(measured, Low - 1)
         /\ Low \in 1 .. LevelCount /\ High \in Levels
         /\ Low <= High + 1
         /\ Candidate \in Levels \cup {NoCandidate}
         /\ Candidate = NoCandidate =>
              /\ High = LastLevel
              /\ Low = level + 1
         /\ Candidate # NoCandidate =>
              /\ High = Candidate - 1
              /\ current < Candidate
              /\ measured[Candidate] # Unmeasured
              /\ ~ Search!Over(measured, Candidate)
<1> USE RateAssumption DEF Levels, LastLevel,
       Unmeasured, NoCandidate, Search!Over,
       BracketedInv, TypeOK, LoopTypeOK, BracketInv,
       LooserBracket
<1>1. measured[level] = size /\ size \in Nat /\ level \in Levels
  BY Observed DEF Decided
<1>2. current < low /\ low <= level /\ level <= high /\ step >= 2
  BY DEF Decided
<1>3. CASE Crossed
  BY <1>1, <1>2, <1>3 DEF Decided, Crossed, CutsHigh,
     Candidate, High, Low
<1>4. CASE ~ Crossed
  BY <1>1, <1>2, <1>4 DEF Decided, Crossed, CutsHigh,
     Candidate, High, Low
<1>5. QED
  BY <1>3, <1>4

\* The same for a downward bracket, away from the early return at level 0.
LEMMA NarrowTighter ==
  ASSUME BracketedInv, Decided, direction = -1, ~ AtBottom
  PROVE  /\ High < current
         /\ Search!Under(measured, High + 1)
         /\ Low \in 0 .. LevelCount /\ High \in Levels
         /\ Low <= High + 1
         /\ Candidate \in Levels \cup {NoCandidate}
         /\ Candidate = NoCandidate =>
              /\ Low = 0
              /\ High = level - 1
         /\ Candidate # NoCandidate =>
              /\ Low = Candidate + 1
              /\ Candidate < current
              /\ measured[Candidate] # Unmeasured
              /\ ~ Search!Under(measured, Candidate)
<1> USE RateAssumption DEF Levels, LastLevel,
       Unmeasured, NoCandidate, Search!Under,
       Search!Unmeasured, BracketedInv, TypeOK,
       LoopTypeOK, BracketInv, TighterBracket
<1>1. measured[level] = size /\ size \in Nat /\ level \in Levels
  BY Observed DEF Decided
<1>2. high < current /\ low <= level /\ level <= high /\ step >= 2
  BY DEF Decided
<1>3. CASE Crossed
  BY <1>1, <1>2, <1>3 DEF Decided, Crossed, CutsHigh,
     Candidate, High, Low
<1>4. CASE ~ Crossed
  BY <1>1, <1>2, <1>4 DEF Decided, Crossed, CutsHigh,
     Candidate, High, Low, AtBottom
<1>5. QED
  BY <1>3, <1>4

\* The middle of a non-empty bracket is in it.
LEMMA MiddleInside ==
  ASSUME Low \in Nat, High \in Nat,
         Low <= High
  PROVE  /\ Middle \in Nat /\ Low <= Middle
         /\ Middle <= High
BY DEF Middle

\* A decision that searches on keeps the bracket, in either direction.
LEMMA DecisionStep ==
  ASSUME BracketedInv, Decided,
         Bisect \/ ProbeCandidate \/ Expand
  PROVE  BracketedInv'
<1> USE RateAssumption DEF Levels, LastLevel,
       Unmeasured, NoCandidate, Search!Under,
       Search!Over, Search!Unmeasured, BracketedInv,
       TypeOK, LoopTypeOK, BracketInv,
       LooserBracket, TighterBracket
<1>1. /\ phase' = "encode" /\ direction' = direction
      /\ UNCHANGED <<current, size, measured>>
      /\ low' = Low /\ high' = High
      /\ candidate' = Candidate
      /\ retries' = retries + 1 /\ ~ AtBottom
      /\ direction \in {-1, 1} /\ step >= 2 /\ level \in low .. high
  BY DEF Bisect, ProbeCandidate, Expand,
     RetryAt, Narrow, Decided
<1>2. CASE direction = 1
  <2>1. /\ current < Low /\ measured[Low - 1] > TargetMax
        /\ Low \in 1 .. LevelCount /\ High \in Levels
        /\ Low <= High + 1
        /\ Candidate \in Levels \cup {NoCandidate}
        /\ Candidate = NoCandidate =>
             /\ High = LastLevel
             /\ Low = level + 1
        /\ Candidate # NoCandidate =>
              /\ High = Candidate - 1
              /\ current < Candidate
              /\ measured[Candidate] # Unmeasured
              /\ ~ measured[Candidate] > TargetMax
    BY <1>2, NarrowLooser
  <2>2. CASE Bisect
    <3>1. /\ level' = Middle /\ Low <= High
          /\ finalProbe' = finalProbe /\ step' = step
      BY <2>2 DEF Bisect, RetryAt
    <3>2. /\ Middle \in Nat /\ Low <= Middle
          /\ Middle <= High
      BY <2>1, <3>1, MiddleInside
    <3>3. QED
      BY <1>1, <1>2, <2>1, <3>1, <3>2 DEF Decided
  <2>3. CASE ProbeCandidate
    <3>1. /\ level' = Candidate /\ Low > High
          /\ finalProbe' = TRUE
          /\ Candidate # NoCandidate /\ step' = step
      BY <2>3 DEF ProbeCandidate, RetryAt
    <3>2. QED
      BY <1>1, <1>2, <2>1, <3>1 DEF Decided
  <2>4. CASE Expand
    <3>1. /\ level' = Expanded /\ finalProbe' = finalProbe
          /\ Candidate = NoCandidate
          /\ level < LastLevel
          /\ step' \in Nat /\ step' >= 2
      BY <1>1, <1>2, <2>4 DEF Expand, RetryAt
    <3>2. /\ Expanded \in Nat /\ Low <= Expanded
          /\ Expanded <= High
      BY <1>1, <1>2, <2>1, <3>1 DEF Expanded
    <3>3. QED
      BY <1>1, <1>2, <2>1, <3>1, <3>2 DEF Decided
  <2>5. QED
    BY <2>2, <2>3, <2>4
<1>3. CASE direction = -1
  <2>1. /\ High < current
        /\ measured[High + 1] # Unmeasured
        /\ measured[High + 1] < TargetMin
        /\ Low \in 0 .. LevelCount /\ High \in Levels
        /\ Low <= High + 1
        /\ Candidate \in Levels \cup {NoCandidate}
        /\ Candidate = NoCandidate =>
             /\ Low = 0
             /\ High = level - 1
        /\ Candidate # NoCandidate =>
              /\ Low = Candidate + 1
              /\ Candidate < current
              /\ measured[Candidate] # Unmeasured
              /\ ~ measured[Candidate] < TargetMin
    BY <1>1, <1>3, NarrowTighter
  <2>2. CASE Bisect
    <3>1. /\ level' = Middle /\ Low <= High
          /\ finalProbe' = finalProbe /\ step' = step
      BY <2>2 DEF Bisect, RetryAt
    <3>2. /\ Middle \in Nat /\ Low <= Middle
          /\ Middle <= High
      BY <2>1, <3>1, MiddleInside
    <3>3. QED
      BY <1>1, <1>3, <2>1, <3>1, <3>2 DEF Decided
  <2>3. CASE ProbeCandidate
    <3>1. /\ level' = Candidate /\ Low > High
          /\ finalProbe' = TRUE
          /\ Candidate # NoCandidate /\ step' = step
      BY <2>3 DEF ProbeCandidate, RetryAt
    <3>2. QED
      BY <1>1, <1>3, <2>1, <3>1 DEF Decided
  <2>4. CASE Expand
    <3>1. /\ level' = Expanded /\ finalProbe' = finalProbe
          /\ Candidate = NoCandidate
          /\ step' \in Nat /\ step' >= 2
      BY <1>1, <1>3, <2>4 DEF Expand, RetryAt
    <3>2. /\ Expanded \in Nat /\ Low <= Expanded
          /\ Expanded <= High
      BY <1>1, <1>3, <2>1, <3>1 DEF Expanded
    <3>3. QED
      BY <1>1, <1>3, <2>1, <3>1, <3>2 DEF Decided
  <2>5. QED
    BY <2>2, <2>3, <2>4
<1>4. QED
  BY <1>1, <1>2, <1>3

\* A decision that keeps the frame leaves the loop idle, where the bracket
\* says nothing; only the ranges have to hold.
LEMMA KeepStep ==
  ASSUME BracketedInv,
         KeepFirst \/ KeepCandidate \/ KeepEnd
           \/ KeepFinal
  PROVE  BracketedInv'
<1> USE RateAssumption DEF Levels, LastLevel,
       NoCandidate, BracketedInv, TypeOK, LoopTypeOK,
       BracketInv
<1>1. CASE KeepFirst
  BY <1>1 DEF KeepFirst, Stop, Keep,
     searchVars
<1>2. CASE KeepFinal
  BY <1>2 DEF KeepFinal, Stop, Keep,
     searchVars
<1>3. CASE KeepCandidate
  <2>1. Low \in 0 .. LevelCount /\ High \in Levels
        /\ Candidate \in Levels \cup {NoCandidate}
    BY <1>3, NarrowLooser, NarrowTighter DEF KeepCandidate,
       Decided
  <2>2. QED
    BY <1>3, <2>1 DEF KeepCandidate, Keep, Narrow
<1>4. CASE KeepEnd
  <2>1. AtBottom \/ /\ Low \in 0 .. LevelCount /\ High \in Levels
                              /\ Candidate \in Levels \cup {NoCandidate}
    BY <1>4, NarrowLooser, NarrowTighter DEF KeepEnd, Decided
  <2>2. QED
    BY <1>4, <2>1 DEF KeepEnd, Keep, Narrow
<1>5. QED
  BY <1>1, <1>2, <1>3, <1>4

\* One step keeps the inductive invariant.
LEMMA BracketStep ==
  ASSUME BracketedInv, [Next]_vars
  PROVE  BracketedInv'
<1> USE RateAssumption DEF Levels, LastLevel,
       Unmeasured, NoCandidate, Search!Under,
       Search!Over, Search!Unmeasured, BracketedInv,
       TypeOK, LoopTypeOK, BracketInv,
       LooserBracket, TighterBracket
<1>1. CASE Start
  <2>1. /\ 0 \in Levels /\ 0 \in Nat /\ 0 \in 0 .. LevelCount
        /\ NoCandidate' \in Levels \cup {NoCandidate}
    OBVIOUS
  <2>2. measured' \in [Levels -> Sizes \cup {Unmeasured}]
    BY <1>1 DEF Start, StartControl
  <2>3. LoopTypeOK'
    BY <1>1, <2>2 DEF Start, StartControl
  <2>4. TypeOK'
    BY <1>1, <2>1, <2>3 DEF Start
  <2>5. BracketInv'
    BY <1>1 DEF Start, StartControl
  <2>6. QED
    BY <2>4, <2>5
<1>2. CASE EncodeFrame
  BY <1>2 DEF EncodeFrame, Encode, searchVars
<1>3. CASE StartLooser
  BY <1>3 DEF StartLooser, Undecided, RetryAt
<1>4. CASE StartTighter
  BY <1>4 DEF StartTighter, Undecided, RetryAt
<1>5. CASE Bisect \/ ProbeCandidate \/ Expand
  BY <1>5, DecisionStep DEF Bisect, ProbeCandidate,
     Expand
<1>6. CASE KeepFirst \/ KeepCandidate \/ KeepEnd
             \/ KeepFinal
  BY <1>6, KeepStep
<1>7. CASE UNCHANGED vars
  BY <1>7 DEF vars, loopVars, searchVars
<1>8. QED
  BY <1>1, <1>2, <1>3, <1>4, <1>5, <1>6, <1>7 DEF Next, Decide

\* The bracket is kept: every probe lies in it, its near edge has been
\* measured on the wrong side of the window, its far edge has crossed.
THEOREM BracketCorrect ==
  Spec => [](TypeOK /\ BracketInv)
<1>1. Init => BracketedInv
  <2> SUFFICES ASSUME Init PROVE BracketedInv
    OBVIOUS
  <2> USE RateAssumption DEF Init, LoopInit,
         Levels, Unmeasured
  <2>1. 0 \in Levels /\ 0 \in Nat /\ 0 \in 0 .. LevelCount
    OBVIOUS
  <2>2. LoopTypeOK
    BY DEF LoopTypeOK
  <2>3. TypeOK
    BY <2>1, <2>2 DEF TypeOK
  <2>4. QED
    BY <2>3 DEF BracketedInv, BracketInv
<1>2. QED
  BY <1>1, BracketStep, PTL DEF Spec, BracketedInv

-----------------------------------------------------------------------------

\* Where the bracketed search stops is where the abstract search may stop.
LEMMA KeepSettles ==
  ASSUME BracketedInv,
         KeepFirst \/ KeepCandidate \/ KeepEnd
           \/ KeepFinal
  PROVE  /\ phase = "observe" /\ phase' = "idle"
         /\ current' = level /\ UNCHANGED measured
         /\ Search!Settles(measured, current, level)
<1> USE RateAssumption DEF Levels, LastLevel,
       Unmeasured, NoCandidate, Search!Under,
       Search!Over, Search!Fits, Search!Unmeasured,
       Search!LastLevel
<1>1. /\ phase = "observe" /\ phase' = "idle"
      /\ current' = level /\ UNCHANGED measured
  BY DEF KeepFirst, KeepCandidate, KeepEnd,
     KeepFinal, Stop, Keep, Undecided,
     Decided
<1>2. /\ measured[level] = size /\ size \in Nat /\ level \in Nat
      /\ current \in Nat /\ direction \in {-1, 0, 1}
      /\ level <= LastLevel
  BY <1>1, Observed DEF BracketedInv, TypeOK, LoopTypeOK
<1>3. CASE KeepFirst
  <2>1. level = current
    BY <1>1, <1>3 DEF KeepFirst, Undecided, BracketedInv,
       BracketInv
  <2>2. QED
    BY <1>1, <1>2, <1>3, <2>1 DEF KeepFirst, Search!Settles,
       Search!SettlesLooser, Search!SettlesTighter
<1>4. CASE KeepCandidate
  <2>1. CASE direction = 1
    <3>1. /\ current < Low /\ measured[Low - 1] > TargetMax
          /\ Low = level /\ current < level
          /\ ~ measured[level] > TargetMax
      BY <1>2, <1>4, <2>1, NarrowLooser DEF KeepCandidate
    <3>2. measured[current] > TargetMax
      BY <1>1, <2>1 DEF BracketedInv, BracketInv, LooserBracket
    <3>3. QED
      BY <1>1, <1>2, <3>1, <3>2 DEF Search!Settles,
         Search!SettlesLooser
  <2>2. CASE direction = -1
    <3>1. /\ measured[High + 1] # Unmeasured
          /\ measured[High + 1] < TargetMin
          /\ High = level /\ level < current
          /\ ~ measured[level] < TargetMin
      BY <1>2, <1>4, <2>2, NarrowTighter DEF KeepCandidate
    <3>2. /\ measured[current] # Unmeasured
          /\ measured[current] < TargetMin
      BY <1>1, <2>2 DEF BracketedInv, BracketInv, TighterBracket
    <3>3. QED
      BY <1>1, <1>2, <3>1, <3>2 DEF Search!Settles,
         Search!SettlesTighter
  <2>3. QED
    BY <1>1, <1>2, <1>4, <2>1, <2>2 DEF KeepCandidate, Decided
<1>5. CASE KeepEnd
  <2>1. CASE AtBottom
    <3>1. direction = -1 /\ size < TargetMin /\ level = 0
      BY <1>2, <2>1, RateAssumption DEF AtBottom, Crossed
    <3>2. /\ measured[current] # Unmeasured
          /\ measured[current] < TargetMin
      BY <1>1, <3>1 DEF BracketedInv, BracketInv, TighterBracket
    <3>3. QED
      BY <1>1, <1>2, <3>1, <3>2 DEF Search!Settles,
         Search!SettlesTighter
  <2>2. CASE ~ AtBottom
    <3>1. /\ direction = 1 /\ level = LastLevel
          /\ Candidate = NoCandidate
      BY <1>5, <2>2 DEF KeepEnd
    <3>2. size > TargetMax
      BY <1>2, <3>1, RateAssumption DEF Candidate, Crossed
    <3>3. measured[current] > TargetMax
      BY <1>1, <3>1 DEF BracketedInv, BracketInv, LooserBracket
    <3>4. QED
      BY <1>1, <1>2, <3>1, <3>2, <3>3 DEF Search!Settles,
         Search!SettlesLooser
  <2>3. QED
    BY <2>1, <2>2
<1>6. CASE KeepFinal
  <2>1. finalProbe /\ level = candidate /\ direction # 0 /\ low = high + 1
    BY <1>1, <1>6 DEF KeepFinal, BracketedInv, BracketInv
  <2>2. CASE direction = 1
    BY <1>1, <1>2, <2>1, <2>2 DEF BracketedInv, TypeOK,
       BracketInv, LooserBracket, Search!Settles,
       Search!SettlesLooser
  <2>3. CASE direction = -1
    BY <1>1, <1>2, <2>1, <2>3 DEF BracketedInv, TypeOK,
       BracketInv, TighterBracket, Search!Settles,
       Search!SettlesTighter
  <2>4. QED
    BY <1>2, <2>1, <2>2, <2>3
<1>7. QED
  BY <1>3, <1>4, <1>5, <1>6

\* One step of the bracketed search is a step of the abstract one or leaves
\* its state alone.
LEMMA SearchStep ==
  ASSUME BracketedInv, [Next]_vars
  PROVE  [Search!Next]_(Search!absVars)
<1> USE RateAssumption DEF BracketedInv, TypeOK,
       LoopTypeOK, Levels, Unmeasured,
       Search!Levels, Search!Unmeasured
<1>1. CASE Start
  BY <1>1 DEF Start, StartControl, Search!Next,
     Search!Begin
<1>2. CASE EncodeFrame
  <2>1. CASE measured[level] = Unmeasured
    BY <1>2, <2>1 DEF EncodeFrame, Encode,
       Search!Next, Search!Measure
  <2>2. CASE measured[level] # Unmeasured
    BY <1>2, <2>2 DEF EncodeFrame, Encode,
       Search!absVars
  <2>3. QED
    BY <2>1, <2>2
<1>3. CASE StartLooser \/ StartTighter \/ Bisect
             \/ ProbeCandidate \/ Expand
  BY <1>3 DEF StartLooser, StartTighter, Bisect,
     ProbeCandidate, Expand, Undecided,
     Decided, RetryAt, Search!absVars
<1>4. CASE KeepFirst \/ KeepCandidate \/ KeepEnd
             \/ KeepFinal
  <2>1. Search!Finish(level)
    BY <1>4, KeepSettles DEF Search!Finish
  <2>2. QED
    BY <2>1 DEF Search!Next
<1>5. CASE UNCHANGED vars
  BY <1>5 DEF vars, loopVars, Search!absVars
<1>6. QED
  BY <1>1, <1>2, <1>3, <1>4, <1>5 DEF Next, Decide

\* The bracketed search implements the abstract one.
THEOREM BracketedImplements == Spec => ImplementsSearch
<1>1. Init => Search!Init
  BY DEF Init, LoopInit, Search!Init,
     Levels, Unmeasured, Search!Levels,
     Search!Unmeasured
<1>2. Spec => []BracketedInv
  BY BracketCorrect, PTL DEF BracketedInv
<1>3. QED
  BY <1>1, <1>2, SearchStep, PTL DEF Spec, ImplementsSearch,
     Search!Spec

-----------------------------------------------------------------------------
(* Which levels a frame may still try, and how many tries are left.         *)

\* Until the candidate is encoded again, whatever the frame has measured is
\* outside the bracket, but for the encode that is being looked at.
Fresh ==
  phase # "idle" /\ ~ finalProbe =>
    \A l \in Levels :
      measured[l] # Unmeasured =>
        \/ phase = "observe" /\ l = level
        \/ direction # 0 /\ l \notin low .. high

\* Nothing has crossed: the probe lies 2 ^ retries - 1 levels from the level
\* carried in, or at the end of the table, and the last step is half of that.
Expanding(k) ==
  /\ retries \in 1 .. k
  /\ direction = 1 =>
       /\ level - low < 2 ^ (retries - 1)
       /\ \/ level = LastLevel
          \/ step = 2 ^ retries /\ level = current + step - 1
  /\ direction = -1 =>
       /\ high - level < 2 ^ (retries - 1)
       /\ \/ level = 0
          \/ step = 2 ^ retries /\ level = current - step + 1

\* Something has: the probe halves the bracket, and b halvings empty it.
Bisecting(k) ==
  /\ 2 * (level - low) <= high - low + 1
  /\ 2 * (high - level) <= high - low + 1
  /\ \E b \in 1 .. k : high - low + 1 < 2 ^ b /\ retries + b <= 2 * k

RetryInv(k) ==
  /\ retries <= 2 * k
  /\ phase # "idle" =>
       /\ direction = 0 => retries = 0
       /\ direction # 0 /\ ~ finalProbe =>
            IF candidate = NoCandidate THEN Expanding(k) ELSE Bisecting(k)

\* A table of at most 2 ^ k rows; the property is about k from 1 to 6.
Probes == \A k \in 1 .. 6 : 2 ^ k >= LevelCount => RetryInv(k)

\* Where a decision that searches on goes, away from the decision itself.
LEMMA DecisionNarrows ==
  ASSUME BracketedInv, Decided,
         Bisect \/ ProbeCandidate \/ Expand
  PROVE  /\ low' = Low /\ high' = High
         /\ candidate' = Candidate
         /\ low <= level /\ level <= high /\ level \in Levels
         /\ low \in Int /\ high \in Int /\ Low \in Int
         /\ High \in Int
         /\ \/ Low = low /\ High = level - 1
            \/ Low = level + 1 /\ High = high
<1> USE RateAssumption DEF Levels, BracketedInv, TypeOK,
       LoopTypeOK, BracketInv
<1>1. /\ low' = Low /\ high' = High
      /\ candidate' = Candidate /\ ~ AtBottom
  BY DEF Bisect, ProbeCandidate, Expand,
     Narrow
<1>2. CutsHigh => level # 0
  BY <1>1 DEF CutsHigh, AtBottom, Decided,
     Crossed, LooserBracket
<1>3. QED
  BY <1>1, <1>2 DEF Decided, Low, High

\* The levels already measured stay outside the bracket.
LEMMA FreshStep ==
  ASSUME BracketedInv, Fresh, [Next]_vars
  PROVE  Fresh'
<1> USE RateAssumption DEF Levels, LastLevel,
       Unmeasured, BracketedInv, TypeOK, LoopTypeOK,
       Fresh
<1>1. CASE Start
  BY <1>1 DEF Start, StartControl
<1>2. CASE EncodeFrame
  BY <1>2 DEF EncodeFrame, Encode, searchVars
<1>3. CASE StartLooser \/ StartTighter
  BY <1>3 DEF StartLooser, StartTighter, Undecided,
     RetryAt
<1>4. CASE Bisect \/ ProbeCandidate \/ Expand
  <2>1. Decided
    BY <1>4 DEF Bisect, ProbeCandidate, Expand
  <2>2. /\ phase = "observe" /\ phase' = "encode" /\ ~ finalProbe
        /\ direction' = direction /\ direction # 0 /\ measured' = measured
    BY <1>4 DEF Bisect, ProbeCandidate, Expand,
       RetryAt, Decided
  <2>3. CASE ProbeCandidate
    BY <2>3 DEF ProbeCandidate
  <2>4. CASE Bisect \/ Expand
    BY <1>4, <2>1, <2>2, <2>4, DecisionNarrows
  <2>5. QED
    BY <1>4, <2>3, <2>4
<1>5. CASE KeepFirst \/ KeepCandidate \/ KeepEnd
             \/ KeepFinal
  BY <1>5 DEF KeepFirst, KeepCandidate, KeepEnd,
     KeepFinal, Stop, Keep
<1>6. CASE UNCHANGED vars
  BY <1>6 DEF vars, loopVars, searchVars
<1>7. QED
  BY <1>1, <1>2, <1>3, <1>4, <1>5, <1>6 DEF Next, Decide

\* No level is encoded twice for a frame, but for the final probe.
THEOREM ProbesAreFresh == Spec => []NoWastedProbe
<1>1. Init => Fresh
  BY DEF Init, LoopInit, Fresh
<1>2. Spec => []BracketedInv
  BY BracketCorrect, PTL DEF BracketedInv
<1>3. BracketedInv /\ Fresh => NoWastedProbe
  BY DEF BracketedInv, TypeOK, LoopTypeOK, BracketInv,
     Fresh, NoWastedProbe, Levels
<1>4. QED
  BY <1>1, <1>2, <1>3, FreshStep, PTL DEF Spec

\* The powers of two the property speaks of.
LEMMA Powers ==
  \A b \in 0 .. 6 :
    \/ b = 0 /\ 2 ^ b = 1
    \/ b = 1 /\ 2 ^ b = 2
    \/ b = 2 /\ 2 ^ b = 4
    \/ b = 3 /\ 2 ^ b = 8
    \/ b = 4 /\ 2 ^ b = 16
    \/ b = 5 /\ 2 ^ b = 32
    \/ b = 6 /\ 2 ^ b = 64
<1> TAKE b \in 0 .. 6
<1>1. 2 ^ 0 = 1 /\ 2 ^ 1 = 2 /\ 2 ^ 2 = 4 /\ 2 ^ 3 = 8
  OBVIOUS
<1>2. 2 ^ 4 = 16 /\ 2 ^ 5 = 32 /\ 2 ^ 6 = 64
  OBVIOUS
<1>3. (b = 0 => 2 ^ b = 1) /\ (b = 1 => 2 ^ b = 2)
  BY <1>1, Zenon
<1>4. (b = 2 => 2 ^ b = 4) /\ (b = 3 => 2 ^ b = 8)
  BY <1>1, Zenon
<1>5. (b = 4 => 2 ^ b = 16) /\ (b = 5 => 2 ^ b = 32) /\ (b = 6 => 2 ^ b = 64)
  BY <1>2, Zenon
<1>6. QED
  BY <1>3, <1>4, <1>5

LEMMA Doubles ==
  ASSUME NEW b \in 1 .. 6
  PROVE  2 ^ b \in Nat /\ 2 ^ (b - 1) \in Nat /\ 2 ^ b = 2 * 2 ^ (b - 1)
<1>1. PICK p : p = [c \in 0 .. 6 |-> 2 ^ c]
  OBVIOUS
<1>2. b - 1 \in 0 .. 6 /\ b \in 0 .. 6
  OBVIOUS
<1>3. p[b] = 2 ^ b /\ p[b - 1] = 2 ^ (b - 1)
  BY <1>1, <1>2, Zenon
<1>4. /\ p[0] = 1 /\ p[1] = 2 /\ p[2] = 4 /\ p[3] = 8
      /\ p[4] = 16 /\ p[5] = 32 /\ p[6] = 64
  BY <1>1, Powers
<1>5. p[b] \in Nat /\ p[b - 1] \in Nat /\ p[b] = 2 * p[b - 1]
  BY <1>4
<1>6. QED
  BY <1>3, <1>5, Zenon

LEMMA PowersGrow ==
  ASSUME NEW a \in 0 .. 6, NEW b \in 0 .. 6, 2 ^ a < 2 ^ b
  PROVE  a < b
<1>1. PICK p : p = [c \in 0 .. 6 |-> 2 ^ c]
  OBVIOUS
<1>2. p[b] = 2 ^ b /\ p[a] = 2 ^ a
  BY <1>1, Zenon
<1>3. p[a] < p[b]
  BY <1>2, Zenon
<1>4. /\ p[0] = 1 /\ p[1] = 2 /\ p[2] = 4 /\ p[3] = 8
      /\ p[4] = 16 /\ p[5] = 32 /\ p[6] = 64
  BY <1>1, Powers
<1>5. QED
  BY <1>3, <1>4

LEMMA PowerOne ==
  ASSUME NEW b, b = 1
  PROVE  2 ^ (b - 1) = 1
<1>1. 2 ^ 0 = 1 /\ b - 1 = 0
  OBVIOUS
<1>2. QED
  BY <1>1, Zenon

\* The decision after an encode keeps the count.
LEMMA RetryDecision ==
  ASSUME NEW k \in 1 .. 6, 2 ^ k >= LevelCount, BracketedInv, RetryInv(k),
         Decided,
         Bisect \/ ProbeCandidate \/ Expand
  PROVE  RetryInv(k)'
<1> USE RateAssumption DEF Levels, LastLevel,
       NoCandidate, BracketedInv, TypeOK, LoopTypeOK,
       BracketInv
<1>1. /\ low' = Low /\ high' = High
      /\ candidate' = Candidate
      /\ direction' = direction /\ direction \in {-1, 1} /\ current' = current
      /\ phase' = "encode" /\ retries' = retries + 1 /\ retries \in Nat
  BY DecisionNarrows DEF Decided, Bisect,
     ProbeCandidate, Expand, RetryAt
<1>2. /\ low \in Int /\ high \in Int /\ Low \in Int
      /\ High \in Int
      /\ low <= level /\ level <= high /\ level \in Int /\ step >= 2
  BY DecisionNarrows DEF Decided
<1>3. IF candidate = NoCandidate THEN Expanding(k) ELSE Bisecting(k)
  BY DEF RetryInv, Decided
<1>4. CASE Expand
  <2>1. /\ Candidate = NoCandidate /\ ~ Crossed
        /\ candidate = NoCandidate
        /\ level' = Expanded /\ finalProbe' = finalProbe
        /\ direction = 1 => level < LastLevel
        /\ direction = -1 => level # 0
        /\ step' = IF step <= LastLevel \div 2 THEN step * 2 ELSE step
    BY <1>1, <1>4 DEF Expand, RetryAt, Candidate,
       AtBottom
  <2>2. Expanding(k)
    BY <1>3, <2>1
  <2>3. /\ retries \in 1 .. k /\ step = 2 ^ retries
        /\ direction = 1 => level = current + step - 1
        /\ direction = -1 => level = current - step + 1
    BY <1>1, <2>1, <2>2 DEF Expanding
  <2>4. retries < k
    <3>1. step < 2 ^ k
      BY <1>1, <1>2, <2>1, <2>3
    <3>2. QED
      BY <2>3, <3>1, PowersGrow
  <2>5. retries + 1 \in 1 .. 6 /\ 2 ^ (retries + 1) = 2 * 2 ^ retries
    <3>1. retries + 1 \in 1 .. 6 /\ (retries + 1) - 1 = retries
      BY <2>3, <2>4
    <3>2. QED
      BY <3>1, Doubles
  <2>6. (retries + 1) - 1 = retries
    BY <1>1
  <2>7. CASE direction = 1
    <3>1. Low = level + 1
      BY <2>1, <2>7 DEF Low, CutsHigh
    <3>2. /\ Expanded \in Int /\ Expanded <= level + step
          /\ Expanded = LastLevel \/ Expanded = level + step
      BY <1>2, <2>7 DEF Expanded
    <3>3. Expanded = LastLevel \/ step' = step * 2
      <4>1. CASE step <= LastLevel \div 2
        BY <2>1, <4>1
      <4>2. CASE ~ step <= LastLevel \div 2
        <5>1. LastLevel < 2 * step
          BY <1>2, <4>2
        <5>2. QED
          BY <1>2, <2>3, <2>7, <3>2, <5>1 DEF Expanded
      <4>3. QED
        BY <4>1, <4>2
    <3>4. Expanding(k)'
      BY <1>1, <1>2, <2>1, <2>3, <2>4, <2>5, <2>6, <2>7, <3>1, <3>2, <3>3
         DEF Expanding
    <3>5. QED
      BY <1>1, <2>1, <2>3, <2>4, <2>7, <3>4 DEF RetryInv
  <2>8. CASE direction = -1
    <3>1. High = level - 1
      BY <2>1, <2>8 DEF High, CutsHigh
    <3>2. /\ Expanded \in Int /\ Expanded >= level - step
          /\ Expanded = 0 \/ Expanded = level - step
      BY <1>2, <2>8 DEF Expanded
    <3>3. Expanded = 0 \/ step' = step * 2
      <4>1. CASE step <= LastLevel \div 2
        BY <2>1, <4>1
      <4>2. CASE ~ step <= LastLevel \div 2
        <5>1. LastLevel < 2 * step
          BY <1>2, <4>2
        <5>2. QED
          BY <1>2, <2>3, <2>8, <3>2, <5>1 DEF Expanded
      <4>3. QED
        BY <4>1, <4>2
    <3>4. Expanding(k)'
      BY <1>1, <1>2, <2>1, <2>3, <2>4, <2>5, <2>6, <2>8, <3>1, <3>2, <3>3
         DEF Expanding
    <3>5. QED
      BY <1>1, <2>1, <2>3, <2>4, <2>8, <3>4 DEF RetryInv
  <2>9. QED
    BY <1>1, <2>7, <2>8
<1>5. ASSUME candidate = NoCandidate, Candidate # NoCandidate
      PROVE  /\ Candidate = level /\ retries \in 1 .. k
             /\ High - Low + 1 < 2 ^ (retries - 1)
  <2>1. Crossed /\ Candidate = level
    BY <1>5 DEF Candidate
  <2>2. Expanding(k)
    BY <1>3, <1>5
  <2>3. retries \in 1 .. 6
    BY <2>2 DEF Expanding
  <2>4. 2 ^ (retries - 1) \in Nat
    BY <2>3, Doubles
  <2>5. CASE direction = 1
    <3>1. Low = low /\ High = level - 1
      BY <2>1, <2>5, DecisionNarrows DEF Low, High,
         CutsHigh
    <3>2. QED
      BY <1>2, <2>1, <2>2, <2>4, <2>5, <3>1 DEF Expanding
  <2>6. CASE direction = -1
    <3>1. Low = level + 1 /\ High = high
      BY <2>1, <2>6 DEF Low, High, CutsHigh
    <3>2. QED
      BY <1>2, <2>1, <2>2, <2>4, <2>6, <3>1 DEF Expanding
  <2>7. QED
    BY <1>1, <2>5, <2>6
<1>6. ASSUME candidate # NoCandidate
      PROVE  \E b \in 1 .. k :
               /\ High - Low + 1 < 2 ^ (b - 1)
               /\ retries + b <= 2 * k
  <2>1. Bisecting(k)
    BY <1>3, <1>6
  <2>2. PICK b \in 1 .. k : high - low + 1 < 2 ^ b /\ retries + b <= 2 * k
    BY <2>1 DEF Bisecting
  <2>3. b \in 1 .. 6 /\ 2 ^ b = 2 * 2 ^ (b - 1) /\ 2 ^ (b - 1) \in Nat
    <3>1. b \in 1 .. 6
      OBVIOUS
    <3>2. QED
      BY <3>1, Doubles
  <2>4. High - Low + 1 < 2 ^ (b - 1)
    <3>1. \/ Low = low /\ High = level - 1
          \/ Low = level + 1 /\ High = high
      BY DecisionNarrows
    <3>2. QED
      BY <1>2, <2>1, <2>2, <2>3, <3>1 DEF Bisecting
  <2>5. QED
    BY <2>2, <2>4
<1>7. CASE Bisect
  <2>1. /\ Candidate # NoCandidate
        /\ Low <= High /\ level' = Middle
        /\ finalProbe' = finalProbe
    BY <1>7 DEF Bisect, RetryAt
  <2>2. /\ 2 * (Middle - Low) <= High - Low + 1
        /\ 2 * (High - Middle) <= High - Low + 1
        /\ Middle \in Int
    BY <1>1, <1>2, <2>1 DEF Middle
  <2>3. \E b \in 1 .. k :
          High - Low + 1 < 2 ^ b /\ (retries + 1) + b <= 2 * k
    <3>1. CASE candidate = NoCandidate
      <4>1. /\ retries \in 1 .. k
            /\ High - Low + 1 < 2 ^ (retries - 1)
        BY <1>5, <2>1, <3>1
      <4>2. retries # 1
        <5>1. ASSUME retries = 1
              PROVE  FALSE
          <6>1. 2 ^ (retries - 1) = 1
            BY <5>1, PowerOne
          <6>2. High - Low + 1 < 1
            BY <4>1, <6>1, Zenon
          <6>3. QED
            BY <1>2, <2>1, <6>2
        <5>2. QED
          BY <5>1
      <4>3. retries - 1 \in 1 .. k /\ (retries + 1) + (retries - 1) <= 2 * k
        BY <4>1, <4>2
      <4>4. QED
        BY <4>1, <4>3
    <3>2. CASE candidate # NoCandidate
      <4>1. PICK b \in 1 .. k :
              /\ High - Low + 1 < 2 ^ (b - 1)
              /\ retries + b <= 2 * k
        BY <1>6, <3>2
      <4>2. b # 1
        <5>1. ASSUME b = 1
              PROVE  FALSE
          <6>1. 2 ^ (b - 1) = 1
            BY <5>1, PowerOne
          <6>2. High - Low + 1 < 1
            BY <4>1, <6>1, Zenon
          <6>3. QED
            BY <1>2, <2>1, <6>2
        <5>2. QED
          BY <5>1
      <4>3. b - 1 \in 1 .. k /\ (retries + 1) + (b - 1) <= 2 * k
        BY <1>1, <4>1, <4>2
      <4>4. QED
        BY <4>1, <4>3
    <3>3. QED
      BY <3>1, <3>2
  <2>4. Bisecting(k)'
    BY <1>1, <2>1, <2>2, <2>3 DEF Bisecting
  <2>5. retries + 1 <= 2 * k
    BY <1>1, <2>3
  <2>6. QED
    BY <1>1, <2>1, <2>4, <2>5 DEF RetryInv
<1>8. CASE ProbeCandidate
  <2>1. Candidate # NoCandidate /\ finalProbe' = TRUE
    BY <1>8 DEF ProbeCandidate
  <2>2. retries + 1 <= 2 * k
    <3>1. CASE candidate = NoCandidate
      BY <1>1, <1>5, <2>1, <3>1
    <3>2. CASE candidate # NoCandidate
      BY <1>1, <1>6, <3>2
    <3>3. QED
      BY <3>1, <3>2
  <2>3. QED
    BY <1>1, <2>1, <2>2 DEF RetryInv
<1>9. QED
  BY <1>4, <1>7, <1>8

\* Every step keeps the count.
LEMMA RetryStep ==
  ASSUME NEW k \in 1 .. 6, 2 ^ k >= LevelCount, BracketedInv, RetryInv(k),
         [Next]_vars
  PROVE  RetryInv(k)'
<1> USE RateAssumption DEF Levels, LastLevel,
       NoCandidate, BracketedInv, TypeOK, LoopTypeOK,
       BracketInv
<1>1. CASE Start
  BY <1>1 DEF Start, StartControl, RetryInv
<1>2. CASE EncodeFrame
  BY <1>2 DEF EncodeFrame, Encode, searchVars,
     RetryInv, Expanding, Bisecting
<1>3. CASE StartLooser \/ StartTighter
  <2>1. /\ phase' = "encode" /\ retries' = 1 /\ retries = 0 /\ step' = 2
        /\ current = level /\ current' = current
        /\ candidate' = NoCandidate /\ finalProbe' = FALSE
    BY <1>3 DEF StartLooser, StartTighter, Undecided,
       RetryAt, RetryInv
  <2>2. 2 ^ (1 - 1) = 1 /\ 2 ^ 1 = 2
    <3>1. 2 ^ (1 - 1) = 1
      BY PowerOne
    <3>2. QED
      BY <3>1
  <2>3. /\ direction' = 1 => low' = level + 1 /\ level' = level + 1
        /\ direction' = -1 => high' = level - 1 /\ level' = level - 1
    BY <1>3 DEF StartLooser, StartTighter, RetryAt
  <2>4. Expanding(k)'
    BY <2>1, <2>2, <2>3 DEF Expanding
  <2>5. QED
    BY <1>3, <2>1, <2>4 DEF RetryInv, StartLooser, StartTighter
<1>4. CASE Bisect \/ ProbeCandidate \/ Expand
  BY <1>4, RetryDecision DEF Bisect, ProbeCandidate,
     Expand
<1>5. CASE KeepFirst \/ KeepCandidate \/ KeepEnd
             \/ KeepFinal
  BY <1>5 DEF KeepFirst, KeepCandidate, KeepEnd,
     KeepFinal, Stop, Keep, RetryInv
<1>6. CASE UNCHANGED vars
  BY <1>6 DEF vars, loopVars, searchVars, RetryInv,
     Expanding, Bisecting
<1>7. QED
  BY <1>1, <1>2, <1>3, <1>4, <1>5, <1>6 DEF Next, Decide

\* A frame of a table of at most 2 ^ k rows is encoded at most 2 k times more.
THEOREM RetriesAreLogarithmic == Spec => []LogarithmicRetries
<1>1. Init => Probes
  BY DEF Init, LoopInit, Probes, RetryInv
<1>2. ASSUME BracketedInv, Probes, [Next]_vars
      PROVE  Probes'
  BY <1>2, RetryStep DEF Probes
<1>3. Spec => []BracketedInv
  BY BracketCorrect, PTL DEF BracketedInv
<1>4. Probes => LogarithmicRetries
  BY DEF Probes, RetryInv, LogarithmicRetries
<1>5. QED
  BY <1>1, <1>2, <1>3, <1>4, PTL DEF Spec

-----------------------------------------------------------------------------

(* The agreement of the two.                                                *)

\* The rows a search that began at `from` may settle on, in the full table.
Edge(from, l) ==
  \/ l = from /\ full[from] >= TargetMin /\ full[from] <= TargetMax
  \/ /\ full[from] > TargetMax
     /\ \/ l = LevelCount - 1 /\ full[l] > TargetMax
        \/ l > from /\ full[l] <= TargetMax /\ full[l - 1] > TargetMax
  \/ /\ full[from] < TargetMin
     /\ \/ l = 0 /\ full[l] < TargetMin
        \/ l < from /\ full[l] >= TargetMin /\ full[l + 1] < TargetMin

\* A non-increasing table has one edge row for each starting row.
LEMMA EdgeUnique ==
  ASSUME full \in SizeTables, NEW from \in Levels, NEW l \in Levels,
         NEW m \in Levels, Edge(from, l), Edge(from, m)
  PROVE  l = m
<1> USE RateAssumption DEF Levels, SizeTables
<1>1. \A i, j \in Levels : i <= j => full[j] <= full[i]
  OBVIOUS
<1>2. \A i \in Levels : full[i] \in Nat
  OBVIOUS
<1>3. CASE full[from] > TargetMax
  <2>1. \A i \in Levels : full[i] <= TargetMax => i > from
    BY <1>1, <1>2, <1>3
  <2>2. ASSUME NEW e \in Levels, Edge(from, e)
        PROVE  \/ e = LevelCount - 1 /\ full[e] > TargetMax
               \/ e > from /\ full[e] <= TargetMax /\ full[e - 1] > TargetMax
    BY <1>2, <1>3, <2>2 DEF Edge
  <2>3. ASSUME NEW e \in Levels, NEW f \in Levels, Edge(from, e), Edge(from, f)
        PROVE  ~ (e < f)
    <3>1. SUFFICES ASSUME e < f PROVE FALSE
      OBVIOUS
    <3>2. full[e] <= TargetMax
      BY <2>2, <2>3, <3>1
    <3>3. f - 1 \in Levels /\ e <= f - 1
      BY <3>1
    <3>4. full[f - 1] <= full[e] /\ full[f] <= full[e]
      BY <1>1, <3>1, <3>3
    <3>5. /\ full[f - 1] \in Nat /\ full[f] \in Nat /\ full[e] \in Nat
          /\ TargetMax \in Int
      BY <1>2, <3>3
    <3>6. ~ full[f] > TargetMax /\ ~ full[f - 1] > TargetMax
      BY <3>2, <3>4, <3>5
    <3>7. QED
      BY <2>2, <2>3, <3>6, Zenon
  <2>4. QED
    BY <2>3
<1>4. CASE full[from] < TargetMin
  <2>1. ~ (l < m)
    BY <1>1, <1>2, <1>4 DEF Edge
  <2>2. ~ (m < l)
    BY <1>1, <1>2, <1>4 DEF Edge
  <2>3. QED
    BY <2>1, <2>2
<1>5. QED
  BY <1>2, <1>3, <1>4 DEF Edge

-----------------------------------------------------------------------------

(* The facts proved about each search, in the names of this module.        *)

LinearInv == Linear!TypeOK /\ Linear!PathInv

\* A linear step keeps the linear search's invariants.
LEMMA LinearKeeps ==
  ASSUME LinearInv, Linear!Next \/ UNCHANGED linearVars
  PROVE  LinearInv'
<1>1. [Linear!Next]_(Linear!loopVars)
  BY DEF linearVars, Linear!loopVars
<1>2. QED
  BY <1>1, LinearTypeStep, LinearPathStep DEF LinearInv

\* A bracketed step keeps the bracketed search's invariants.
LEMMA BracketedKeeps ==
  ASSUME BracketedInv, Next \/ UNCHANGED vars
  PROVE  BracketedInv'
<1>1. [Next]_vars
  OBVIOUS
<1>2. QED
  BY <1>1, BracketStep

-----------------------------------------------------------------------------

\* Both searches have only seen sizes of the present frame.
SameFrame ==
  \A l \in Levels : /\ lmeasured[l] \in {full[l], Unmeasured}
                    /\ measured[l] \in {full[l], Unmeasured}

\* The carried rows: equal at the start of a frame, and once the linear run
\* is through, its row is the edge the bracketed run has still to find.
Carried ==
  /\ lphase # "idle" => phase # "idle"
  /\ (lphase = "idle") = (phase = "idle") => lcurrent = current
  /\ lphase = "idle" /\ phase # "idle" => Edge(current, lcurrent)

AgreeInv ==
  full \in SizeTables /\ LinearInv /\ BracketedInv /\ SameFrame /\ Carried

\* A linear run settles on an edge of the whole table.
LEMMA LinearEdge ==
  ASSUME full \in SizeTables, LinearInv, SameFrame, Linear!Accept
  PROVE  /\ lphase = "observe" /\ lphase' = "idle"
         /\ lcurrent' = llevel /\ Edge(lcurrent, llevel)
<1>1. /\ lphase = "observe" /\ lphase' = "idle" /\ lcurrent' = llevel
  BY DEF Linear!Accept, Linear!Keep
<1>2. Linear!Search!Settles(lmeasured, lcurrent, llevel)
  BY AcceptSettles DEF LinearInv
<1>3. lcurrent \in Levels /\ llevel \in Levels
  BY DEF LinearInv, Linear!TypeOK, Linear!LoopTypeOK, Linear!Levels, Levels
<1>4. \A l \in Levels : full[l] \in Nat
  BY RateAssumption DEF SizeTables
<1>5. \A l \in Levels : lmeasured[l] \in {full[l], Unmeasured}
  BY DEF SameFrame
<1>6. Edge(lcurrent, llevel)
  BY <1>2, <1>3, <1>4, <1>5, RateAssumption DEF Levels, Unmeasured, Edge,
     Linear!Search!Settles, Linear!Search!SettlesLooser,
     Linear!Search!SettlesTighter, Linear!Search!Over, Linear!Search!Under,
     Linear!Search!Fits, Linear!Search!LastLevel, Linear!Search!Unmeasured
<1>7. QED
  BY <1>1, <1>6

BracketedKeep ==
  KeepFirst \/ KeepCandidate \/ KeepEnd
    \/ KeepFinal

\* So does a bracketed run.
LEMMA BracketedEdge ==
  ASSUME full \in SizeTables, BracketedInv, SameFrame, BracketedKeep
  PROVE  /\ phase' = "idle" /\ current' = level
         /\ current \in Levels /\ level \in Levels
         /\ Edge(current, level)
<1>1. /\ phase' = "idle" /\ current' = level
      /\ Search!Settles(measured, current, level)
  BY KeepSettles DEF BracketedKeep
<1>2. current \in Levels /\ level \in Levels
  BY DEF BracketedInv, TypeOK, LoopTypeOK, Levels,
     Levels
<1>3. \A l \in Levels : full[l] \in Nat
  BY RateAssumption DEF SizeTables
<1>4. \A l \in Levels : measured[l] \in {full[l], Unmeasured}
  BY DEF SameFrame
<1>5. Edge(current, level)
  BY <1>1, <1>2, <1>3, <1>4, RateAssumption DEF Levels, Unmeasured, Edge,
     Search!Settles, Search!SettlesLooser,
     Search!SettlesTighter, Search!Over,
     Search!Under, Search!Fits, Search!LastLevel,
     Search!Unmeasured
<1>6. QED
  BY <1>1, <1>2, <1>5

\* A bracketed step that is not a keep leaves the frame open.
LEMMA BracketedGoesOn ==
  ASSUME EncodeFrame \/ Decide, ~ BracketedKeep
  PROVE  phase # "idle" /\ phase' # "idle" /\ current' = current
<1> USE DEF RetryAt
<1>1. CASE EncodeFrame
  BY <1>1 DEF EncodeFrame, Encode
<1>2. CASE StartLooser \/ StartTighter
  BY <1>2 DEF StartLooser, StartTighter, Undecided
<1>3. CASE Bisect \/ ProbeCandidate \/ Expand
  BY <1>3 DEF Bisect, ProbeCandidate, Expand,
     Decided
<1>4. QED
  BY <1>1, <1>2, <1>3 DEF Decide, BracketedKeep

-----------------------------------------------------------------------------

\* One step keeps the agreement of the two searches.
LEMMA AgreeStep ==
  ASSUME AgreeInv, [BothNext]_bothVars
  PROVE  AgreeInv'
<1> USE DEF AgreeInv
<1>1. CASE NextFrame
  <2>1. LinearInv'
    BY <1>1, LinearKeeps DEF NextFrame, Linear!Next
  <2>2. BracketedInv'
    BY <1>1, BracketedKeeps DEF NextFrame, Next
  <2>3. /\ lphase = "idle" /\ phase = "idle"
        /\ lphase' = "encode" /\ phase' = "encode"
        /\ lcurrent' = lcurrent /\ current' = current
        /\ lmeasured' = [l \in Levels |-> Unmeasured]
        /\ measured' = [l \in Levels |-> Unmeasured]
    BY <1>1 DEF NextFrame, Linear!StartControl, Start,
       StartControl, Levels, Linear!Levels, Unmeasured,
       Linear!Unmeasured
  <2>4. SameFrame'
    BY <2>3 DEF SameFrame, Levels
  <2>5. Carried'
    BY <2>3 DEF Carried
  <2>6. QED
    BY <1>1, <2>1, <2>2, <2>4, <2>5 DEF NextFrame, SizeTables, Levels
<1>2. CASE LinearStep
  <2>1. LinearInv'
    BY <1>2, LinearKeeps DEF LinearStep, Linear!Next
  <2>2. BracketedInv'
    BY <1>2, BracketedKeeps DEF LinearStep
  <2>3. SameFrame' /\ full' \in SizeTables'
    BY <1>2 DEF LinearStep, SameFrame, vars, loopVars, searchVars, SizeTables,
       Levels, Unmeasured
  <2>4. /\ lphase # "idle"
        /\ phase' = phase /\ current' = current /\ full' = full
    BY <1>2 DEF LinearStep, vars, loopVars, searchVars, Linear!Encode,
       Linear!Tighten,
       Linear!Loosen, Linear!Accept
  <2>5. CASE Linear!Accept
    <3>1. lphase' = "idle" /\ Edge(lcurrent, lcurrent')
      BY <2>5, LinearEdge
    <3>2. phase # "idle" /\ lcurrent = current
      BY <2>4 DEF Carried
    <3>3. Edge(current, lcurrent)'
      BY <2>4, <3>1, <3>2 DEF Edge
    <3>4. QED
      BY <2>1, <2>2, <2>3, <2>4, <3>1, <3>2, <3>3 DEF Carried
  <2>6. CASE ~ Linear!Accept
    <3>1. lphase' # "idle" /\ lcurrent' = lcurrent
      BY <1>2, <2>6 DEF LinearStep, Linear!Encode, Linear!Tighten, Linear!Loosen,
         Linear!RetryAt
    <3>2. QED
      BY <2>1, <2>2, <2>3, <2>4, <3>1 DEF Carried
  <2>7. QED
    BY <2>5, <2>6
<1>3. CASE BracketedStep
  <2>1. LinearInv'
    BY <1>3, LinearKeeps DEF BracketedStep
  <2>2. BracketedInv'
    BY <1>3, BracketedKeeps DEF BracketedStep, Next
  <2>3. SameFrame' /\ full' \in SizeTables'
    BY <1>3 DEF BracketedStep, SameFrame, linearVars, SizeTables, Levels, Unmeasured
  <2>4. /\ lphase = "idle" /\ lphase' = lphase /\ lcurrent' = lcurrent
        /\ full' = full
    BY <1>3 DEF BracketedStep, linearVars
  <2>5. CASE BracketedKeep
    <3>1. /\ phase' = "idle" /\ current' = level
          /\ current \in Levels /\ level \in Levels
          /\ Edge(current, level)
      BY <2>5, BracketedEdge
    <3>2. phase # "idle"
      BY <2>5 DEF BracketedKeep, KeepFirst, KeepCandidate,
         KeepEnd, KeepFinal, Undecided,
         Decided
    <3>3. Edge(current, lcurrent)
      BY <2>4, <3>2 DEF Carried
    <3>4. lcurrent \in Levels
      BY DEF LinearInv, Linear!TypeOK, Linear!LoopTypeOK, Linear!Levels, Levels
    <3>5. lcurrent = level
      BY <3>1, <3>3, <3>4, EdgeUnique
    <3>6. QED
      BY <2>1, <2>2, <2>3, <2>4, <3>1, <3>5 DEF Carried
  <2>6. CASE ~ BracketedKeep
    <3>1. phase # "idle" /\ phase' # "idle" /\ current' = current
      BY <1>3, <2>6, BracketedGoesOn DEF BracketedStep
    <3>2. Edge(current, lcurrent)'
      BY <2>4, <3>1 DEF Carried, Edge
    <3>3. QED
      BY <2>1, <2>2, <2>3, <2>4, <3>1, <3>2 DEF Carried
  <2>7. QED
    BY <2>5, <2>6
<1>4. CASE UNCHANGED bothVars
  <2>1. LinearInv' /\ BracketedInv'
    BY <1>4, LinearKeeps, BracketedKeeps DEF bothVars
  <2>2. QED
    BY <1>4, <2>1 DEF bothVars, linearVars, vars, loopVars, searchVars,
       SizeTables, SameFrame, Carried,
       Edge, Levels, Unmeasured
<1>5. QED
  BY <1>1, <1>2, <1>3, <1>4 DEF BothNext

\* Both searches carry the same row whenever neither has a frame open.
THEOREM Agreement == BothSpec => []SameRow
<1>1. BothInit => AgreeInv
  <2> SUFFICES ASSUME BothInit PROVE AgreeInv
    OBVIOUS
  <2>1. LinearInv
    BY RateAssumption DEF BothInit, Linear!Init, Linear!LoopInit, LinearInv,
       Linear!TypeOK, Linear!LoopTypeOK, Linear!PathInv, Linear!Levels,
       Linear!Unmeasured
  <2>2. LoopTypeOK
    BY RateAssumption DEF BothInit, Init, LoopInit,
       LoopTypeOK, Levels, Unmeasured
  <2>3. BracketedInv
    <3>1. /\ 0 \in Nat /\ 0 \in 0 .. LevelCount /\ 0 \in Levels
      BY RateAssumption DEF Levels
    <3>2. TypeOK
      BY <2>2, <3>1 DEF BothInit, Init, TypeOK
    <3>3. BracketInv
      BY DEF BothInit, Init, LoopInit, BracketInv
    <3>4. QED
      BY <3>2, <3>3 DEF BracketedInv
  <2>4. SameFrame
    BY DEF BothInit, Linear!Init, Init, Linear!LoopInit, LoopInit,
       Linear!Levels, Levels, Linear!Unmeasured,
       Unmeasured, SameFrame
  <2>5. Carried
    BY DEF BothInit, Linear!Init, Init, Linear!LoopInit, LoopInit,
       Carried
  <2>6. QED
    BY <2>1, <2>3, <2>4, <2>5 DEF AgreeInv, BothInit
<1>2. AgreeInv => SameRow
  BY DEF AgreeInv, Carried, SameRow
<1>3. QED
  BY <1>1, <1>2, AgreeStep, PTL DEF BothSpec

\* Beside the bracketed search, the linear one (mb_rate_control.c:50) still
\* settles only where the abstract search may.
THEOREM LinearRefines == BothSpec => LinearImplements
<1>1. BothInit => Linear!Init
  BY DEF BothInit
<1>2. [BothNext]_bothVars => [Linear!Next]_(Linear!loopVars)
  BY DEF BothNext, NextFrame, LinearStep, BracketedStep, bothVars, linearVars,
     Linear!Next,
     Linear!loopVars
<1>3. QED
  BY <1>1, <1>2, LinearImplementsSearch, PTL DEF BothSpec, Linear!Spec,
     LinearImplements
=============================================================================

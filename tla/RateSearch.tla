------------------------------ MODULE RateSearch ------------------------------
(***************************************************************************)
(* What a per-frame rate search promises, whichever algorithm runs it.     *)
(*                                                                         *)
(* A frame is encoded at one or more rows ("levels") of the quality table  *)
(* and one of the encodes is kept.  Level 0 is exact, a higher level loses *)
(* more and is meant to produce fewer bytes.  The encoder is deterministic *)
(* and single-pass, so within one frame a level always yields the same     *)
(* size; measured records the sizes the search has seen.                   *)
(*                                                                         *)
(* RateControl (linear) and BracketedSearch both implement this.           *)
(***************************************************************************)
EXTENDS Integers

CONSTANTS
  LevelCount,   \* MB_QUALITY_LEVEL_COUNT, 29 in the code
  Sizes,        \* the payload sizes the encoder can produce
  TargetMin,    \* control.target_min_bytes
  TargetMax     \* control.target_max_bytes

VARIABLES
  searching,    \* a frame is between its first encode and its acceptance
  chosen,       \* the level kept for the last frame, and carried to the next
  measured      \* level -> size seen for the frame, or Unmeasured

absVars == <<searching, chosen, measured>>

Levels == 0 .. LevelCount - 1
LastLevel == LevelCount - 1
Unmeasured == -1

Over(sizes, l)  == sizes[l] > TargetMax
Under(sizes, l) == sizes[l] # Unmeasured /\ sizes[l] < TargetMin
Fits(sizes, l)  == sizes[l] >= TargetMin /\ sizes[l] <= TargetMax

(***************************************************************************)
(* The levels a search that began at `from` may settle on.  It moves in    *)
(* one direction only, away from the side of the window the first encode   *)
(* missed on, and stops at a level where the size crosses that edge of the *)
(* window, or at the end of the table.                                     *)
(***************************************************************************)
SettlesLooser(sizes, from, l) ==
  /\ Over(sizes, from)
  /\ \/ l = LastLevel /\ Over(sizes, l)
     \/ /\ l > from
        /\ sizes[l] # Unmeasured /\ ~ Over(sizes, l)
        /\ Over(sizes, l - 1)

SettlesTighter(sizes, from, l) ==
  /\ Under(sizes, from)
  /\ \/ l = 0 /\ Under(sizes, l)
     \/ /\ l < from
        /\ sizes[l] # Unmeasured /\ ~ Under(sizes, l)
        /\ Under(sizes, l + 1)

Settles(sizes, from, l) ==
  \/ Fits(sizes, from) /\ l = from
  \/ SettlesLooser(sizes, from, l)
  \/ SettlesTighter(sizes, from, l)

-----------------------------------------------------------------------------

Init ==
  /\ searching = FALSE
  /\ chosen \in Levels
  /\ measured = [l \in Levels |-> Unmeasured]

Begin ==
  /\ ~ searching
  /\ searching' = TRUE
  /\ measured' = [l \in Levels |-> Unmeasured]
  /\ UNCHANGED chosen

Measure(l) ==
  /\ searching
  /\ measured[l] = Unmeasured
  /\ \E s \in Sizes : measured' = [measured EXCEPT ![l] = s]
  /\ UNCHANGED <<searching, chosen>>

Finish(l) ==
  /\ searching
  /\ Settles(measured, chosen, l)
  /\ searching' = FALSE
  /\ chosen' = l
  /\ UNCHANGED measured

Next ==
  \/ Begin
  \/ \E l \in Levels : Measure(l) \/ Finish(l)

Spec == Init /\ [][Next]_absVars
=============================================================================

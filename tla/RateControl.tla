----------------------------- MODULE RateControl -----------------------------
(***************************************************************************)
(* The linear rate search: mb_rate_control_observe (mb_rate_control.c)     *)
(* driven by the retry loop of RateLoop.  Once a direction is chosen it is *)
(* kept, so that adjacent quality rows cannot make the loop oscillate.     *)
(***************************************************************************)
EXTENDS RateLoop

CanTighten == direction <= 0 /\ size < TargetMin /\ level > 0

\* Seeded fault: a search that was tightening turns round.
CanLoosenEitherWay == size > TargetMax /\ level + 1 < LevelCount

CanLoosen  == direction >= 0 /\ size > TargetMax /\ level + 1 < LevelCount

Tighten ==
  /\ phase = "observe"
  /\ CanTighten
  /\ direction' = -1
  /\ RetryAt(level - 1)

Loosen ==
  /\ phase = "observe"
  /\ ~ CanTighten
  /\ CanLoosen
  /\ direction' = 1
  /\ RetryAt(level + 1)

\* Seeded fault: encode until the payload fits.
AcceptOnlyIfFits ==
  /\ phase = "observe"
  /\ ~ CanTighten /\ ~ CanLoosen
  /\ IF size >= TargetMin /\ size <= TargetMax
     THEN Keep
     ELSE /\ phase' = "encode"
          /\ UNCHANGED <<current, level, direction, retries, size, measured>>

Accept ==
  /\ phase = "observe"
  /\ ~ CanTighten
  /\ ~ CanLoosen
  /\ Keep

Init == LoopInit

Next == StartControl \/ Encode \/ Tighten \/ Loosen \/ Accept

Spec == Init /\ [][Next]_loopVars

-----------------------------------------------------------------------------

TypeOK == LoopTypeOK

(***************************************************************************)
(* While the search runs in one direction, every level it has left behind  *)
(* was measured on the wrong side of the window, nothing beyond the        *)
(* present level has been measured, and the retry count is the distance    *)
(* travelled.  This is the inductive invariant behind the refinement.      *)
(***************************************************************************)
PathInv ==
  phase # "idle" =>
    /\ direction = 0 => level = current
    /\ direction = 1 =>
         /\ current < level
         /\ \A l \in current .. level - 1 : Search!Over(measured, l)
    /\ direction = -1 =>
         /\ level < current
         /\ \A l \in level + 1 .. current : Search!Under(measured, l)
    /\ \A l \in Levels :
         measured[l] # Unmeasured =>
           \/ phase = "observe" /\ l = level
           \/ direction = 1 /\ current <= l /\ l < level
           \/ direction = -1 /\ level < l /\ l <= current
    /\ phase = "observe" => measured[level] = size

\* A frame is encoded at most LevelCount times: the number of retries is
\* exactly the distance from the carried level.
RetriesAreDistance ==
  phase # "idle" =>
    retries = IF level >= current THEN level - current ELSE current - level

\* "Once a direction is chosen, do not reverse it after crossing the target
\* window" (mb_rate_control.c:50): within one frame the level is monotone.
NeverReverses ==
  [][phase # "idle" /\ direction # 0 => direction' = direction]_loopVars

\* The search settles only where the abstract search may settle.
ImplementsSearch == Search!Spec
=============================================================================

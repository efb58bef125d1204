------------------------------- MODULE RateLoop -------------------------------
(***************************************************************************)
(* The retry loop both encoder drivers wrap around a frame (run_mb_encode  *)
(* and the type 19 loop of main, tools/replay_encode.c): initialise the    *)
(* rate control from the carried level, encode the frame at                *)
(* options.loss_level, let a search decide whether to encode it again.     *)
(* The decision itself is in the modules that extend this one.             *)
(***************************************************************************)
EXTENDS Integers

CONSTANTS LevelCount, Sizes, TargetMin, TargetMax

\* mb_rate_control_init_window refuses an empty target and truncates two
\* products with minimum_factor <= maximum_factor.
ASSUME RateAssumption ==
  /\ LevelCount \in Nat \ {0}
  /\ Sizes \subseteq Nat
  /\ TargetMin \in Nat
  /\ TargetMax \in Nat
  /\ TargetMin <= TargetMax

VARIABLES
  phase,       \* "idle": no frame; "encode": about to encode; "observe": encoded
  current,     \* current_loss: the level carried from frame to frame
  level,       \* control.loss_level, the level of the next or latest encode
  direction,   \* -1 making the payload larger, +1 smaller, 0 undecided
  retries,     \* control.retry_count, or the type 19 loop's retry
  size,        \* payload.size of the latest encode
  measured     \* history: what the encoder has produced for this frame

loopVars == <<phase, current, level, direction, retries, size, measured>>

Search == INSTANCE RateSearch WITH
            searching <- phase # "idle", chosen <- current, measured <- measured

Levels == 0 .. LevelCount - 1
LastLevel == LevelCount - 1
Unmeasured == -1

LoopTypeOK ==
  /\ phase \in {"idle", "encode", "observe"}
  /\ current \in Levels
  /\ level \in Levels
  /\ direction \in {-1, 0, 1}
  /\ retries \in Nat
  /\ size \in Nat
  /\ measured \in [Levels -> Sizes \cup {Unmeasured}]

\* The command line's --loss-level is any row of the table.
LoopInit ==
  /\ phase = "idle"
  /\ current \in Levels
  /\ level = current
  /\ direction = 0
  /\ retries = 0
  /\ size = 0
  /\ measured = [l \in Levels |-> Unmeasured]

\* mb_rate_control_init: window fixed, level carried, direction undecided.
StartControl ==
  /\ phase = "idle"
  /\ phase' = "encode"
  /\ level' = current
  /\ direction' = 0
  /\ retries' = 0
  /\ measured' = [l \in Levels |-> Unmeasured]
  /\ UNCHANGED <<current, size>>

\* codec->encode: a deterministic single pass, so a level encoded again for
\* the same frame gives the size it gave before.
Encode ==
  /\ phase = "encode"
  /\ \E s \in Sizes :
       /\ measured[level] \in {Unmeasured, s}
       /\ size' = s
       /\ measured' = [measured EXCEPT ![level] = s]
  /\ phase' = "observe"
  /\ UNCHANGED <<current, level, direction, retries>>

\* The search said no retry: current_loss = options.loss_level.
Keep ==
  /\ phase' = "idle"
  /\ current' = level
  /\ UNCHANGED <<level, direction, retries, size, measured>>

\* The search said retry at level l.
RetryAt(l) ==
  /\ phase' = "encode"
  /\ level' = l
  /\ retries' = retries + 1
  /\ UNCHANGED <<current, size, measured>>
=============================================================================

---------------------------- MODULE RateAgreement ----------------------------
(***************************************************************************)
(* --rate-search linear and --rate-search bracketed run on the same video: *)
(* both drivers see the same frames, so for every frame an encode at a     *)
(* given level yields the same size in both.  full is that size table for  *)
(* the present frame; it never grows with the level, which is what the     *)
(* bracketed search takes for granted (replay_encode.c:101).               *)
(***************************************************************************)
EXTENDS BracketedSearch

VARIABLES
  full,
  lphase, lcurrent, llevel, ldirection, lretries, lsize, lmeasured

linearVars == <<lphase, lcurrent, llevel, ldirection, lretries, lsize, lmeasured>>
bothVars == <<full, linearVars, vars>>

\* The linear search beside the bracketed one.
Linear == INSTANCE RateControl WITH
  phase <- lphase, current <- lcurrent, level <- llevel,
  direction <- ldirection, retries <- lretries, size <- lsize,
  measured <- lmeasured

\* A looser row of the quality table never gives a larger payload.
SizeTables ==
  { sizes \in [Levels -> Sizes] :
      \A l, m \in Levels : l <= m => sizes[m] <= sizes[l] }

BothInit ==
  /\ Linear!Init
  /\ Init
  /\ lcurrent = current
  /\ full \in SizeTables

\* The next frame reaches both encoders.
NextFrame ==
  /\ Linear!StartControl
  /\ Start
  /\ full' \in SizeTables

LinearStep ==
  /\ Linear!Encode \/ Linear!Tighten \/ Linear!Loosen \/ Linear!Accept
  /\ \A l \in Levels : lmeasured'[l] \in {full[l], Unmeasured}
  /\ UNCHANGED <<full, vars>>

\* The two runs share nothing, so it is enough to let the linear one finish
\* a frame before the bracketed one works on it.
BracketedStep ==
  /\ lphase = "idle"
  /\ EncodeFrame \/ Decide
  /\ \A l \in Levels : measured'[l] \in {full[l], Unmeasured}
  /\ UNCHANGED <<full, linearVars>>

BothNext == NextFrame \/ LinearStep \/ BracketedStep

BothSpec == BothInit /\ [][BothNext]_bothVars

\* Both retry loops are straight-line code: while a frame is being encoded
\* the next step happens.  Nothing makes another frame arrive.
Fairness == WF_bothVars(LinearStep \/ BracketedStep)

FairSpec == BothSpec /\ Fairness

-----------------------------------------------------------------------------

\* Bracketed and linear searches select the same quality row, hence the same
\* payload, for every frame (docs/encoder-policy-comparison.md:194).
SameRow == lphase = "idle" /\ phase = "idle" => lcurrent = current

\* The linear search settles only where the abstract search may settle: it
\* never turns round between two rows on both sides of the window
\* (mb_rate_control.c:50) and stops at the edge it reaches.
LinearImplements == Linear!ImplementsSearch

\* Each driver's retry loop ends on every frame, so that both reach the same
\* frame again: no window makes either search go on for ever.
BothSettle ==
  (lphase # "idle" \/ phase # "idle") ~> (lphase = "idle" /\ phase = "idle")
=============================================================================

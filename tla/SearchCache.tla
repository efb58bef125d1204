----------------------------- MODULE SearchCache -----------------------------
(***************************************************************************)
(* The temporal motion search of one block (mb_encode.c): with a workspace *)
(* it scores every candidate once, at every quality level, and answers the *)
(* retries of the frame from that table; without one it searches at the    *)
(* requested level only, giving up on a candidate as soon as it cannot     *)
(* beat the best so far.  Both promise the same vector.                    *)
(***************************************************************************)
EXTENDS Integers

CONSTANTS
  LevelCount,   \* enc->level_count
  Candidates,   \* enc->temporal_count
  MaxError      \* bound: largest copy error

ASSUME SearchAssumption ==
  /\ LevelCount \in Nat \ {0}
  /\ Candidates \in Nat
  /\ MaxError \in Nat

VARIABLES
  copies,     \* what each candidate vector copies, for this frame pair
  entry,      \* entry->levels: level -> best candidate, or None if not valid
  ready,      \* entry->ready
  workspace,  \* a workspace was passed with the request
  level,      \* the requested loss_level
  index,      \* the candidate to score next, or Idle between requests
  best,       \* the pruned search's best candidate, or None
  answer      \* what the frame's last request returned, or Unasked

searchVars == <<index, best, answer>>
vars == <<copies, entry, ready, workspace, level, searchVars>>

Levels == 0 .. LevelCount - 1
Indices == 1 .. Candidates
None == 0
Idle == 0
Unasked == -1

(***************************************************************************)
(* A candidate's copy: its total error and the first quality level that    *)
(* accepts it, LevelCount if none does.  Row 0 of the table accepts exact  *)
(* copies and nothing else.  A vector that leaves the picture copies       *)
(* nothing.                                                                *)
(***************************************************************************)
Outside == [error |-> MaxError + 1, first |-> LevelCount]

Copies ==
  { c \in [error : 0 .. MaxError, first : 0 .. LevelCount] :
      c.error = 0 <=> c.first = 0 } \cup {Outside}

\* mb_quality_profile_accept at a level.
Accepts(l, i) == copies[i].first <= l

NoEntry == [l \in Levels |-> None]

-----------------------------------------------------------------------------

Init ==
  /\ copies \in [Indices -> Copies]
  /\ entry = NoEntry
  /\ ready = FALSE
  /\ workspace \in BOOLEAN
  /\ level = 0
  /\ index = Idle /\ best = None /\ answer = Unasked

\* Seeded fault: the workspace is not reset for a new frame.
NewFrameKeepsReady ==
  /\ index = Idle
  /\ copies' \in [Indices -> Copies]
  /\ answer' = Unasked
  /\ UNCHANGED <<entry, ready, workspace, level, index, best>>

\* mb_encode_workspace_reset, and a new picture pair.
NewFrame ==
  /\ index = Idle
  /\ copies' \in [Indices -> Copies]
  /\ entry' = NoEntry
  /\ ready' = FALSE
  /\ answer' = Unasked
  /\ UNCHANGED <<workspace, level, index, best>>

\* An attempt at level l reaches the block and its entry is filled already.
Reuse(l) ==
  /\ index = Idle
  /\ workspace
  /\ ready
  /\ level' = l
  /\ answer' = entry[l]
  /\ UNCHANGED <<copies, entry, ready, workspace, index, best>>

\* An attempt at level l has to search.
Search(l) ==
  /\ index = Idle
  /\ ~ (workspace /\ ready)
  /\ level' = l
  /\ index' = 1
  /\ best' = None
  /\ UNCHANGED <<copies, entry, ready, workspace, answer>>

\* The best match at each level that accepts the candidate.
Improve(i) ==
  [l \in Levels |->
    IF Accepts(l, i)
       /\ (entry[l] = None \/ copies[i].error < copies[entry[l]].error)
    THEN i ELSE entry[l]]

\* "Zero error is optimal at every quality row and table-order tie."
Exact(i) == copies[i].error = 0

Stop == Candidates + 1

ScoreAllLevels ==
  /\ workspace
  /\ index \in Indices
  /\ entry' = Improve(index)
  /\ index' = IF Exact(index) THEN Stop ELSE index + 1
  /\ UNCHANGED <<copies, ready, workspace, level, best, answer>>

FillEntry ==
  /\ workspace
  /\ index = Stop
  /\ ready' = TRUE
  /\ answer' = entry[level]
  /\ index' = Idle
  /\ UNCHANGED <<copies, entry, workspace, level, best>>

\* Seeded fault: the later of two equal candidates wins.
BeatsOnTie(i) ==
  /\ Accepts(level, i)
  /\ best = None \/ copies[i].error <= copies[best].error

\* mb_quality_match_pruned gives up once the error reaches best_error, so a
\* copy that is not strictly better is never accepted.
Beats(i) ==
  /\ Accepts(level, i)
  /\ best = None \/ copies[i].error < copies[best].error

ScoreOneLevel ==
  /\ ~ workspace
  /\ index \in Indices
  /\ best' = IF Beats(index) THEN index ELSE best
  /\ index' = IF Beats(index) /\ Exact(index) THEN Stop ELSE index + 1
  /\ UNCHANGED <<copies, entry, ready, workspace, level, answer>>

ReturnBest ==
  /\ ~ workspace
  /\ index = Stop
  /\ answer' = best
  /\ index' = Idle
  /\ UNCHANGED <<copies, entry, ready, workspace, level, best>>

Step == ScoreAllLevels \/ FillEntry \/ ScoreOneLevel \/ ReturnBest

Next == NewFrame \/ (\E l \in Levels : Reuse(l) \/ Search(l)) \/ Step

Spec == Init /\ [][Next]_vars

-----------------------------------------------------------------------------

TypeOK ==
  /\ copies \in [Indices -> Copies]
  /\ entry \in [Levels -> Indices \cup {None}]
  /\ ready \in BOOLEAN /\ workspace \in BOOLEAN
  /\ level \in Levels
  /\ index \in 0 .. Candidates + 1
  /\ best \in Indices \cup {None}
  /\ answer \in Indices \cup {None, Unasked}

(***************************************************************************)
(* "Lowest error wins; enumeration order yields the shortest code for      *)
(* equal-error candidates" (mb_encode.c:289): b is what a search at level  *)
(* l has to choose among the candidates in `seen`.                         *)
(***************************************************************************)
IsBest(l, seen, b) ==
  IF b = None
  THEN \A i \in seen : ~ Accepts(l, i)
  ELSE /\ b \in seen /\ Accepts(l, b)
       /\ \A i \in seen : Accepts(l, i) =>
            \/ copies[b].error < copies[i].error
            \/ copies[b].error = copies[i].error /\ b <= i

\* The cached table answers every retry, at any level and in any order, as a
\* search of this frame at that level would: the entry is never stale and
\* never depends on the level it was filled at.
CacheAnswersAll ==
  workspace /\ ready => \A l \in Levels : IsBest(l, Indices, entry[l])

\* "Same result as the cached path at loss_level" (mb_encode.c:230): with or
\* without the workspace, cut short or not, first attempt or retry, a request
\* returns the best match of this frame at the requested level.
AnswerIsBest ==
  index = Idle /\ answer # Unasked => IsBest(level, Indices, answer)

(***************************************************************************)
(* The inductive invariant: a scan knows the best of the candidates it has *)
(* passed - of all of them, once it stops - and an entry that is not ready *)
(* is empty when a scan begins to fill it.                                 *)
(***************************************************************************)
Passed == 1 .. index - 1

ScanInv ==
  /\ workspace /\ ~ ready /\ index = Idle => entry = NoEntry
  /\ workspace /\ index # Idle =>
       ~ ready /\ \A l \in Levels : IsBest(l, Passed, entry[l])
  /\ ~ workspace /\ index # Idle => IsBest(level, Passed, best)
=============================================================================

-------------------------- MODULE SearchCacheProofs --------------------------
(***************************************************************************)
(* The cached and the pruned motion search both return the best match, for *)
(* every number of levels and candidates and every copy error.             *)
(***************************************************************************)
EXTENDS SearchCache, TLAPS

IInv == TypeOK /\ ScanInv /\ CacheAnswersAll /\ AnswerIsBest

\* Every candidate's copy has an error and a first accepting level, and a
\* copy without error is accepted from level 0.
LEMMA CopyFacts ==
  ASSUME TypeOK, NEW i \in Indices
  PROVE  /\ copies[i].error \in Nat /\ copies[i].first \in Nat
         /\ copies[i].error = 0 => copies[i].first = 0
BY SearchAssumption DEF TypeOK, Copies, Outside, Indices

\* Taking the next candidate when it beats the best so far, and keeping the
\* best otherwise, gives the best of one more.
LEMMA BestOfOneMore ==
  ASSUME TypeOK, NEW l \in Levels, NEW i \in Indices,
         NEW b \in Indices \cup {None}, IsBest(l, 1 .. i - 1, b)
  PROVE  IsBest(l, 1 .. i,
                IF Accepts(l, i) /\ (b = None \/ copies[i].error < copies[b].error)
                THEN i ELSE b)
<1> USE SearchAssumption DEF Indices, None, IsBest
<1>1. \A j \in Indices : copies[j].error \in Nat
  BY CopyFacts
<1>2. 1 .. i = (1 .. i - 1) \cup {i}
  OBVIOUS
<1>3. CASE Accepts(l, i) /\ (b = None \/ copies[i].error < copies[b].error)
  BY <1>1, <1>2, <1>3
<1>4. CASE ~ Accepts(l, i)
  BY <1>1, <1>2, <1>4
<1>5. CASE Accepts(l, i) /\ b # None /\ ~ (copies[i].error < copies[b].error)
  BY <1>1, <1>2, <1>5
<1>6. QED
  BY <1>3, <1>4, <1>5

\* A scan may stop at an exact copy: the best of the candidates up to it is
\* the best of all.
LEMMA ExactIsBest ==
  ASSUME TypeOK, NEW l \in Levels, NEW i \in Indices, Exact(i),
         NEW b \in Indices \cup {None}, IsBest(l, 1 .. i, b)
  PROVE  IsBest(l, Indices, b)
<1> USE SearchAssumption DEF Indices, None, IsBest, Exact
<1>1. \A j \in Indices : copies[j].error \in Nat
  BY CopyFacts
<1>2. Accepts(l, i)
  BY CopyFacts DEF Accepts, Levels
<1>3. b \in 1 .. i /\ copies[b].error = 0
  BY <1>1, <1>2
<1>4. QED
  BY <1>1, <1>3

-----------------------------------------------------------------------------

\* One step keeps every variable in its range.
LEMMA TypeStep ==
  ASSUME TypeOK, [Next]_vars
  PROVE  TypeOK'
<1> USE SearchAssumption DEF TypeOK, Levels, Indices, None, Idle, Unasked
<1>1. CASE NewFrame
  BY <1>1 DEF NewFrame, NoEntry
<1>2. ASSUME NEW l \in Levels, Reuse(l) \/ Search(l)
      PROVE  TypeOK'
  BY <1>2 DEF Reuse, Search
<1>3. CASE ScoreAllLevels
  <2>1. Improve(index) \in [Levels -> Indices \cup {None}]
    BY <1>3 DEF ScoreAllLevels, Improve
  <2>2. index' \in 0 .. Candidates + 1
    BY <1>3 DEF ScoreAllLevels, Stop
  <2>3. QED
    BY <1>3, <2>1, <2>2 DEF ScoreAllLevels
<1>4. CASE FillEntry
  BY <1>4 DEF FillEntry
<1>5. CASE ScoreOneLevel
  BY <1>5 DEF ScoreOneLevel, Stop
<1>6. CASE ReturnBest
  BY <1>6 DEF ReturnBest
<1>7. CASE UNCHANGED vars
  BY <1>7 DEF vars, searchVars
<1>8. QED
  BY <1>1, <1>2, <1>3, <1>4, <1>5, <1>6, <1>7 DEF Next, Step

\* A scored candidate is taken into account at every level.
LEMMA ScoreAllStep ==
  ASSUME IInv, ScoreAllLevels
  PROVE  IInv'
<1> USE DEF IInv
<1>1. TypeOK'
  BY TypeStep DEF Next, Step
<1>2. /\ workspace /\ ~ ready /\ index \in Indices /\ index # Idle
      /\ \A l \in Levels : IsBest(l, 1 .. index - 1, entry[l])
  BY SearchAssumption DEF ScoreAllLevels, ScanInv, Passed, Indices, Idle
<1>3. UNCHANGED <<copies, ready, workspace, level, best, answer>>
  BY DEF ScoreAllLevels
<1>4. index' # Idle /\ index' \in Nat
  BY <1>2, SearchAssumption DEF ScoreAllLevels, Indices, Idle, Stop
<1>5. ASSUME NEW l \in Levels
      PROVE  IsBest(l, 1 .. index' - 1, entry'[l])
  <2>1. entry[l] \in Indices \cup {None}
    BY DEF TypeOK
  <2>2. /\ entry'[l] \in Indices \cup {None}
        /\ IsBest(l, 1 .. index, entry'[l])
    BY <1>2, <2>1, BestOfOneMore DEF ScoreAllLevels, Improve
  <2>3. CASE Exact(index)
    <3>1. 1 .. index' - 1 = Indices
      BY <2>3, SearchAssumption DEF ScoreAllLevels, Stop, Indices
    <3>2. QED
      BY <1>2, <2>2, <2>3, <3>1, ExactIsBest
  <2>4. CASE ~ Exact(index)
    <3>1. index' - 1 = index
      BY <1>2, <2>4 DEF ScoreAllLevels, Indices
    <3>2. QED
      BY <2>2, <3>1
  <2>5. QED
    BY <2>3, <2>4
<1>6. QED
  BY <1>1, <1>2, <1>3, <1>4, <1>5
  DEF ScanInv, CacheAnswersAll, AnswerIsBest, Passed, IsBest, Accepts

\* The pruned search takes a candidate only if it beats the best so far.
LEMMA ScoreOneStep ==
  ASSUME IInv, ScoreOneLevel
  PROVE  IInv'
<1> USE DEF IInv
<1>1. TypeOK'
  BY TypeStep DEF Next, Step
<1>2. /\ ~ workspace /\ index \in Indices /\ index # Idle /\ level \in Levels
      /\ IsBest(level, 1 .. index - 1, best) /\ best \in Indices \cup {None}
  BY SearchAssumption DEF ScoreOneLevel, ScanInv, Passed, Indices, Idle, TypeOK
<1>3. UNCHANGED <<copies, entry, ready, workspace, level, answer>>
  BY DEF ScoreOneLevel
<1>4. index' # Idle /\ index' \in Nat
  BY <1>2, SearchAssumption DEF ScoreOneLevel, Indices, Idle, Stop
<1>5. IsBest(level, 1 .. index, best') /\ best' \in Indices \cup {None}
  BY <1>2, BestOfOneMore DEF ScoreOneLevel, Beats
<1>6. IsBest(level, 1 .. index' - 1, best')
  <2>1. CASE Beats(index) /\ Exact(index)
    <3>1. 1 .. index' - 1 = Indices
      BY <2>1, SearchAssumption DEF ScoreOneLevel, Stop, Indices
    <3>2. QED
      BY <1>2, <1>5, <2>1, <3>1, ExactIsBest
  <2>2. CASE ~ (Beats(index) /\ Exact(index))
    <3>1. index' - 1 = index
      BY <1>2, <2>2 DEF ScoreOneLevel, Indices
    <3>2. QED
      BY <1>5, <3>1
  <2>3. QED
    BY <2>1, <2>2
<1>7. QED
  BY <1>1, <1>2, <1>3, <1>4, <1>6
  DEF ScanInv, CacheAnswersAll, AnswerIsBest, Passed, IsBest, Accepts

\* One step keeps the inductive invariant.
LEMMA CacheStep ==
  ASSUME IInv, [Next]_vars
  PROVE  IInv'
<1> USE DEF IInv
<1>1. TypeOK'
  BY TypeStep
<1>2. CASE NewFrame
  BY <1>1, <1>2 DEF NewFrame, ScanInv, CacheAnswersAll, AnswerIsBest
<1>3. ASSUME NEW l \in Levels, Reuse(l)
      PROVE  IInv'
  BY <1>1, <1>3 DEF Reuse, ScanInv, CacheAnswersAll, AnswerIsBest, IsBest,
     Accepts, Idle
<1>4. ASSUME NEW l \in Levels, Search(l)
      PROVE  IInv'
  <2>1. 1 .. index' - 1 = {}
    BY <1>4 DEF Search
  <2>2. \A m \in Levels : NoEntry[m] = None
    BY DEF NoEntry
  <2>3. QED
    BY <1>1, <1>4, <2>1, <2>2 DEF Search, ScanInv, CacheAnswersAll,
       AnswerIsBest, IsBest, Accepts, Idle, Passed, None
<1>5. CASE FillEntry
  <2>1. /\ workspace /\ index # Idle /\ index' = Idle /\ ready'
        /\ Passed = Indices /\ level \in Levels
    BY <1>5, SearchAssumption DEF FillEntry, Stop, Idle, Passed, Indices, TypeOK
  <2>2. \A l \in Levels : IsBest(l, Indices, entry[l])
    BY <2>1 DEF ScanInv
  <2>3. QED
    BY <1>1, <1>5, <2>1, <2>2 DEF FillEntry, ScanInv, CacheAnswersAll,
       AnswerIsBest, IsBest, Accepts
<1>6. CASE ReturnBest
  <2>1. ~ workspace /\ index # Idle /\ index' = Idle /\ Passed = Indices
    BY <1>6, SearchAssumption DEF ReturnBest, Stop, Idle, Passed, Indices
  <2>2. IsBest(level, Indices, best)
    BY <2>1 DEF ScanInv
  <2>3. QED
    BY <1>1, <1>6, <2>1, <2>2 DEF ReturnBest, ScanInv, CacheAnswersAll,
       AnswerIsBest, IsBest, Accepts
<1>7. CASE UNCHANGED vars
  BY <1>1, <1>7 DEF vars, searchVars, ScanInv, CacheAnswersAll, AnswerIsBest,
     IsBest, Accepts, Passed
<1>8. QED
  BY <1>2, <1>3, <1>4, <1>5, <1>6, <1>7, ScoreAllStep, ScoreOneStep
  DEF Next, Step

\* The search starts with an empty table.
LEMMA CacheInit == Init => IInv
<1> SUFFICES ASSUME Init PROVE IInv
  OBVIOUS
<1>1. entry \in [Levels -> Indices \cup {None}]
  BY DEF Init, NoEntry
<1>2. level \in Levels /\ index \in 0 .. Candidates + 1
  BY SearchAssumption DEF Init, Levels, Idle
<1>3. TypeOK
  BY <1>1, <1>2 DEF Init, TypeOK
<1>4. QED
  BY <1>3 DEF Init, IInv, ScanInv, CacheAnswersAll, AnswerIsBest

\* The motion search, cached or pruned, first attempt or retry, answers with
\* the lowest-error candidate the requested level accepts, the earliest among
\* equals.
THEOREM SearchCorrect == Spec => []AnswerIsBest
<1>1. IInv => AnswerIsBest
  BY DEF IInv
<1>2. QED
  BY <1>1, CacheInit, CacheStep, PTL DEF Spec

\* The workspace's table is right for every level, not only the one it was
\* filled at.
THEOREM CacheCorrect == Spec => []CacheAnswersAll
<1>1. IInv => CacheAnswersAll
  BY DEF IInv
<1>2. QED
  BY <1>1, CacheInit, CacheStep, PTL DEF Spec
=============================================================================

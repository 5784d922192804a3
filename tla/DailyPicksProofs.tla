--------------------------- MODULE DailyPicksProofs ---------------------------
(***************************************************************************)
(* For every slate, every number of runs, picks, crashes and refreshes of   *)
(* the inputs: what the cost guard of DailyTopPicksService.run achieves,     *)
(* that no bet is committed without its explanation, that a report is true   *)
(* of the database, and that the best fixtures are reviewed first.  The      *)
(* argument is about one run at a time: another run's step leaves what a    *)
(* run knows alone and adds rows at most.                                   *)
(***************************************************************************)
EXTENDS DailyPicks, FiniteSetTheorems, TLAPS

Reviewing == {"model", "bets", "decision"}
Picking == {"check", "done"} \cup Reviewing

\* The run's picks: none of them leaves the set once the run has ranked.
Picks(r) == Upto(MaxPicks, r)

\* What a run has done so far.
RunInv(r) ==
  /\ pc[r] \in {"idle", "done", "lost"} => pending[r] = {} /\ ~aborted[r]
  /\ aborted[r] =>
       pending[r] = {} /\ reviewed[r] = {} /\ pc[r] \in {"analyze", "log", "check"}
  /\ pc[r] \in {"idle", "analyze", "log"} => reviewed[r] = {} /\ top[r] = {}
  /\ pc[r] = "idle" => DOMAIN detailed[r] = {}
  /\ pc[r] = "log" => todo[r] # <<>> /\ Head(todo[r]) \in DOMAIN detailed[r]
  /\ pc[r] # "idle" => Fixtures \subseteq DOMAIN detailed[r] \cup {todo[r][i] : i \in DOMAIN todo[r]}
  /\ pc[r] \in Picking => todo[r] = <<>>
  /\ pc[r] = "done" => top[r] = {}

\* A pick that has left the list has a decision log the run can see.
PickInv(r) ==
  pc[r] \in Picking =>
    /\ top[r] \subseteq Picks(r) /\ reviewed[r] \subseteq Picks(r)
    /\ \A f \in Picks(r) \ top[r] : LogsOf(f, Sees(r)) # {}

\* What a run reports it can see.
ReportInv(r) == pc[r] # "lost" => \A f \in reviewed[r] : DecisionLog(f, r) \in Sees(r)

\* A value bet has its decision log, or waits for it in the same transaction.
BetInv(r) ==
  \A row \in pending[r] : row.table = "value_bets" =>
    \/ LogsOf(row.id[1], Sees(r)) # {}
    \/ pc[r] = "decision" /\ Current(r, row.id[1])

\* A call of the model has left its log, is going on, or was in vain.
CallInv(r) ==
  \A c \in calls : c[1] = r =>
    \/ pc[r] = "lost"
    \/ pc[r] \in Reviewing /\ Current(r, c[2])
    \/ pc[r] \in Picking /\ DecisionLog(c[2], r) \in Sees(r)

OpenRunsMet == \A r, q \in Open : r # q => Overlap(r, q)

PicksInv ==
  /\ TypeOK
  /\ \A r \in Runs : RunInv(r) /\ PickInv(r) /\ ReportInv(r) /\ BetInv(r) /\ CallInv(r)
  /\ OpenRunsMet /\ SecondReviewNeedsOverlapOrLoss
  /\ BetsAreExplained

-----------------------------------------------------------------------------
(* The ranking *)

LEMMA SlateFacts ==
  /\ Slate \in Seq(Fixtures) /\ IsFiniteSet(Fixtures)
  /\ \A f \in Fixtures : Position(f) \in Nat /\ Slate[Position(f)] = f
<1>1. Slate \in Seq(Fixtures) /\ DOMAIN Slate = 1..Len(Slate) /\ Len(Slate) \in Nat
  BY SlateAssumption DEF SlateAssumption
<1>2. IsFiniteSet(Fixtures)
  <2>1. IsFiniteSet(1..Len(Slate))
    BY <1>1, FS_Interval
  <2>2. Slate \in Surjection(1..Len(Slate), Fixtures)
    BY <1>1 DEF Surjection, Fixtures
  <2> QED BY <2>1, <2>2, FS_Surjection
<1>3. ASSUME NEW f \in Fixtures
      PROVE  Position(f) \in Nat /\ Slate[Position(f)] = f
  <2>1. \E i \in DOMAIN Slate : Slate[i] = f
    BY DEF Fixtures
  <2> QED BY <1>1, <2>1 DEF Position
<1> QED BY <1>1, <1>2, <1>3

\* The ranking is a strict total order on what qualifies.
LEMMA AheadOrders ==
  ASSUME TypeOK, NEW r \in Runs, NEW f \in Scored(r), NEW g \in Scored(r)
  PROVE  /\ ~Ahead(r, f, f)
         /\ f # g => Ahead(r, f, g) \/ Ahead(r, g, f)
         /\ ~(Ahead(r, f, g) /\ Ahead(r, g, f))
         /\ \A h \in Scored(r) : Ahead(r, f, g) /\ Ahead(r, g, h) => Ahead(r, f, h)
<1>1. ASSUME NEW h \in Scored(r) PROVE h \in Fixtures /\ Best(r, h) \in Nat
  <2>1. h \in Fixtures /\ detailed[r][h] \in Versions
    BY DEF TypeOK, Scored
  <2>2. <<h, detailed[r][h]>> \in Fixtures \X Versions
    BY <2>1
  <2> QED BY <2>1, <2>2, EVAssumption DEF EVAssumption, Best
<1>2. \A h \in Scored(r) : Position(h) \in Nat /\ Slate[Position(h)] = h
  BY <1>1, SlateFacts
<1>3. f # g => Position(f) # Position(g)
  BY <1>2
<1> QED BY <1>1, <1>2, <1>3 DEF Ahead

LEMMA ScoredFinite ==
  ASSUME TypeOK, NEW r \in Runs
  PROVE  /\ Scored(r) \subseteq Fixtures /\ IsFiniteSet(Scored(r))
         /\ \A T \in SUBSET Scored(r) : IsFiniteSet(T) /\ Cardinality(T) \in Nat
<1>1. Scored(r) \in SUBSET Fixtures
  BY DEF TypeOK, Scored
<1>2. IsFiniteSet(Scored(r))
  BY <1>1, SlateFacts, FS_Subset
<1> QED BY <1>1, <1>2, FS_Subset, FS_CardinalityType

\* How many are ahead of a fixture grows along the ranking.
LEMMA RanksGrow ==
  ASSUME TypeOK, NEW r \in Runs, NEW f \in Scored(r), NEW g \in Scored(r), Ahead(r, f, g)
  PROVE  Cardinality({h \in Scored(r) : Ahead(r, h, f)})
           < Cardinality({h \in Scored(r) : Ahead(r, h, g)})
<1> DEFINE F == {h \in Scored(r) : Ahead(r, h, f)}
           G == {h \in Scored(r) : Ahead(r, h, g)}
<1>1. F \in SUBSET G
  BY AheadOrders
<1>2. f \in G /\ f \notin F
  BY AheadOrders
<1>3. IsFiniteSet(G) /\ Cardinality(F) \in Nat /\ Cardinality(G) \in Nat
  BY ScoredFinite
<1>4. Cardinality(F) <= Cardinality(G) /\ Cardinality(F) # Cardinality(G)
  BY <1>1, <1>2, <1>3, FS_Subset
<1> QED BY <1>3, <1>4

\* Ranking and cutting leaves MaxPicks fixtures at most ...
LEMMA PicksBounded ==
  ASSUME TypeOK, NEW r \in Runs
  PROVE  /\ Picks(r) \subseteq Scored(r) /\ IsFiniteSet(Picks(r))
         /\ Cardinality(Picks(r)) <= MaxPicks
<1> DEFINE Place(f) == Cardinality({h \in Scored(r) : Ahead(r, h, f)})
           place == [f \in Picks(r) |-> Place(f)]
<1>1. Picks(r) \in SUBSET Scored(r)
  BY DEF Picks, Upto
<1>2. MaxPicks \in Nat
  BY BoundsAssumption DEF BoundsAssumption
<1>3. \A f \in Picks(r) : Place(f) \in 0..(MaxPicks - 1)
  <2>1. \A f \in Picks(r) : Place(f) \in Nat /\ Place(f) < MaxPicks
    BY ScoredFinite DEF Picks, Upto
  <2> QED BY <1>2, <2>1
<1>4. \A f, g \in Picks(r) : f # g => Place(f) # Place(g)
  <2> SUFFICES ASSUME NEW f \in Picks(r), NEW g \in Picks(r), f # g
               PROVE  Place(f) # Place(g)
    OBVIOUS
  <2>1. Place(f) \in Nat /\ Place(g) \in Nat
    BY <1>3
  <2>2. Place(f) < Place(g) \/ Place(g) < Place(f)
    BY <1>1, AheadOrders, RanksGrow
  <2> QED BY <2>1, <2>2
<1> HIDE DEF Place
<1>5. place \in Injection(Picks(r), 0..(MaxPicks - 1))
  BY <1>3, <1>4 DEF Injection, IsInjective
<1>6. IsFiniteSet(0..(MaxPicks - 1)) /\ Cardinality(0..(MaxPicks - 1)) = MaxPicks
  BY <1>2, FS_Interval
<1>7. IsFiniteSet(Picks(r)) /\ Cardinality(Picks(r)) <= Cardinality(0..(MaxPicks - 1))
  <2> HIDE DEF place
  <2> QED BY <1>5, <1>6, FS_Injection
<1> QED BY <1>1, <1>6, <1>7

\* ... and whatever is ahead of a pick is a pick.
LEMMA PicksClosed ==
  ASSUME TypeOK, NEW r \in Runs, NEW f \in Picks(r), NEW g \in Scored(r), Ahead(r, g, f)
  PROVE  g \in Picks(r)
<1> DEFINE F == {h \in Scored(r) : Ahead(r, h, f)}
           G == {h \in Scored(r) : Ahead(r, h, g)}
<1>1. f \in Scored(r) /\ Cardinality(F) < MaxPicks
  BY DEF Picks, Upto
<1>2. Cardinality(G) < Cardinality(F)
  BY <1>1, RanksGrow
<1>3. Cardinality(F) \in Nat /\ Cardinality(G) \in Nat /\ MaxPicks \in Nat
  BY ScoredFinite, BoundsAssumption DEF BoundsAssumption
<1>4. Cardinality(G) < MaxPicks
  BY <1>1, <1>2, <1>3
<1> QED BY <1>4 DEF Picks, Upto
-----------------------------------------------------------------------------
(* Steps *)

OwnStep(r) == Start(r) \/ Work(r) \/ LogFails(r) \/ Crash(r)

\* A run's analyses are versions, of fixtures.
LEMMA DetailedTyped ==
  ASSUME TypeOK, NEW r \in Runs
  PROVE  /\ DOMAIN detailed[r] \subseteq Fixtures
         /\ detailed[r] \in [DOMAIN detailed[r] -> Versions]
<1>1. PICK D \in SUBSET Fixtures : detailed[r] \in [D -> Versions]
  BY DEF TypeOK
<1> QED BY <1>1

\* The rows a run writes.
LEMMA RowFacts ==
  /\ \A f \in Fixtures, v \in Versions :
       /\ Prediction(f, v) \in Rows /\ Prediction(f, v).table = "predictions"
       /\ ValueBet(f, v) \in Rows /\ ValueBet(f, v).table = "value_bets"
       /\ ValueBet(f, v).id[1] = f
  /\ \A f \in Fixtures, r \in Runs :
       /\ DecisionLog(f, r) \in Rows /\ DecisionLog(f, r).table = "decision_logs"
       /\ \A visible : DecisionLog(f, r) \in visible => LogsOf(f, visible) # {}
  /\ \A f, visible, more : visible \subseteq more => LogsOf(f, visible) \subseteq LogsOf(f, more)
<1>1. \A f \in Fixtures, v \in Versions :
       /\ Prediction(f, v) \in Rows /\ Prediction(f, v).table = "predictions"
       /\ ValueBet(f, v) \in Rows /\ ValueBet(f, v).table = "value_bets"
       /\ ValueBet(f, v).id[1] = f
  BY DEF Prediction, ValueBet, Rows
<1>2. \A f \in Fixtures, r \in Runs :
       /\ DecisionLog(f, r) \in Rows /\ DecisionLog(f, r).table = "decision_logs"
       /\ DecisionLog(f, r).id[1] = f
  BY DEF DecisionLog, Rows
<1>3. \A f \in Fixtures, r \in Runs : \A visible :
        DecisionLog(f, r) \in visible => LogsOf(f, visible) # {}
  BY <1>2 DEF LogsOf
<1>4. \A f, visible, more : visible \subseteq more => LogsOf(f, visible) \subseteq LogsOf(f, more)
  BY DEF LogsOf
<1> QED BY <1>1, <1>2, <1>3, <1>4

\* What a run picks, and where it is among its picks, are its own affair.
LEMMA RankingIsOwn ==
  ASSUME NEW r \in Runs, detailed'[r] = detailed[r]
  PROVE  /\ Picks(r)' = Picks(r)
         /\ top'[r] = top[r] => \A f : Current(r, f)' <=> Current(r, f)
<1>1. \A f, g : Ahead(r, f, g)' <=> Ahead(r, f, g)
  BY DEF Ahead, Best
<1>2. Scored(r)' = Scored(r)
  BY DEF Scored, Best
<1>3. Picks(r)' = Picks(r)
  BY <1>1, <1>2 DEF Picks, Upto
<1>4. top'[r] = top[r] => \A f : Current(r, f)' <=> Current(r, f)
  BY <1>1 DEF Current
<1> QED BY <1>3, <1>4

\* One pick at a time.
LEMMA CurrentUnique ==
  ASSUME TypeOK, NEW r \in Runs, top[r] \subseteq Picks(r), NEW f, NEW g, Current(r, f), Current(r, g)
  PROVE  f = g
<1>1. f \in Scored(r) /\ g \in Scored(r)
  BY DEF Current, Picks, Upto
<1> QED BY <1>1, AheadOrders DEF Current

\* Another run's step adds rows at most.
LEMMA StepOfAnother ==
  ASSUME TypeOK, NEW q \in Runs, NEW r \in Runs, q # r, OwnStep(q)
  PROVE  /\ pc'[r] = pc[r] /\ todo'[r] = todo[r] /\ detailed'[r] = detailed[r]
         /\ top'[r] = top[r] /\ reviewed'[r] = reviewed[r]
         /\ pending'[r] = pending[r] /\ aborted'[r] = aborted[r]
         /\ rows \subseteq rows'
<1> DEFINE Goal == /\ pc'[r] = pc[r] /\ todo'[r] = todo[r] /\ detailed'[r] = detailed[r]
                   /\ top'[r] = top[r] /\ reviewed'[r] = reviewed[r]
                   /\ pending'[r] = pending[r] /\ aborted'[r] = aborted[r]
                   /\ rows \subseteq rows'
<1>a. /\ pc \in [Runs -> {"idle", "analyze", "log", "check", "model", "bets", "decision",
                          "done", "lost"}]
      /\ DOMAIN todo = Runs /\ DOMAIN detailed = Runs /\ DOMAIN top = Runs
      /\ DOMAIN reviewed = Runs /\ DOMAIN pending = Runs /\ DOMAIN aborted = Runs
      /\ DOMAIN pc = Runs
  BY DEF TypeOK
<1>1. CASE Start(q) \/ Analyze(q) \/ Rank(q) \/ ModelAnswers(q)
  BY <1>1, <1>a DEF Start, Analyze, Rank, ModelAnswers, storeVars
<1>2. CASE LogPrediction(q) \/ LogFails(q)
  BY <1>2, <1>a DEF Logged, LogPrediction, LogFails, InsertIfAbsent, StatementFails, storeVars
<1>3. ASSUME NEW f \in Fixtures,
             Skip(q, f) \/ CallModel(q, f) \/ SaveValueBets(q, f) \/ SaveDecisionLog(q, f)
      PROVE  Goal
  BY <1>3, <1>a DEF Skip, CallModel, SaveValueBets, SaveDecisionLog, Insert, InsertIfAbsent, storeVars
<1>4. CASE Finish(q) \/ Lose(q) \/ Crash(q)
  BY <1>4, <1>a DEF Finish, Lose, Crash, Commit, Rollback
<1> QED BY <1>1, <1>2, <1>3, <1>4 DEF OwnStep, Work

\* The steps of the specification: a run's own, new inputs, or none.
LEMMA Steps ==
  ASSUME [Next]_vars
  PROVE  \/ \E r \in Runs : OwnStep(r)
         \/ \E f \in Fixtures : RefreshInputs(f)
         \/ UNCHANGED vars
  BY DEF Next, OwnStep, Over

LEMMA TypesKept ==
  ASSUME PicksInv, [Next]_vars
  PROVE  TypeOK'
<1>a. /\ TypeOK /\ {MaxVersion, MaxRefreshes, MaxPicks, MaxCrashes} \subseteq Nat
  BY BoundsAssumption DEF PicksInv, BoundsAssumption
<1>1. ASSUME NEW r \in Runs, Start(r) PROVE TypeOK'
  BY <1>1, <1>a, SlateFacts DEF Start, TypeOK, storeVars, inputVars
<1>2. ASSUME NEW r \in Runs, Analyze(r) PROVE TypeOK'
  <2>1. todo[r] \in Seq(Fixtures) /\ Head(todo[r]) \in Fixtures
    BY <1>2, <1>a DEF Analyze, TypeOK
  <2>2. PICK v \in {asOf[r][Head(todo[r])], inputs[Head(todo[r])]} :
          detailed' = [detailed EXCEPT ![r] =
            [g \in DOMAIN @ \cup {Head(todo[r])} |-> IF g = Head(todo[r]) THEN v ELSE @[g]]]
    BY <1>2 DEF Analyze
  <2>3. v \in Versions
    BY <1>a, <2>1, <2>2 DEF TypeOK
  <2>4. /\ DOMAIN detailed[r] \cup {Head(todo[r])} \in SUBSET Fixtures
        /\ detailed'[r] \in [DOMAIN detailed[r] \cup {Head(todo[r])} -> Versions]
    BY <1>a, <2>1, <2>2, <2>3, DetailedTyped DEF TypeOK
  <2>5. detailed' \in [Runs -> UNION {[D -> Versions] : D \in SUBSET Fixtures}]
    <3>1. detailed'[r] \in UNION {[D -> Versions] : D \in SUBSET Fixtures}
      BY <2>4
    <3>2. /\ \A q \in Runs \ {r} : detailed'[q] = detailed[q]
          /\ detailed' = [q \in Runs |-> detailed'[q]]
      BY <1>a, <2>2 DEF TypeOK
    <3> QED BY <1>a, <3>1, <3>2 DEF TypeOK
  <2> QED BY <1>2, <1>a, <2>5 DEF Analyze, TypeOK, storeVars, inputVars
<1>3. ASSUME NEW r \in Runs, LogPrediction(r) \/ LogFails(r) PROVE TypeOK'
  <2>1. todo[r] \in Seq(Fixtures) /\ todo[r] # <<>> /\ Head(todo[r]) \in DOMAIN detailed[r]
    BY <1>3 DEF PicksInv, RunInv, TypeOK, LogPrediction, LogFails, Logged
  <2>2. Tail(todo[r]) \in Seq(Fixtures)
    BY <2>1
  <2>3. Prediction(Head(todo[r]), detailed[r][Head(todo[r])]) \in Rows
    BY <1>a, <2>1, DetailedTyped, RowFacts
  <2>4. pending' \in [Runs -> SUBSET Rows] /\ aborted' \in [Runs -> BOOLEAN] /\ rows' = rows
    <3>1. CASE InsertIfAbsent(r, {Prediction(Head(todo[r]), detailed[r][Head(todo[r])])})
      BY <3>1, <1>a, <2>3 DEF InsertIfAbsent, TypeOK
    <3>2. CASE UNCHANGED storeVars \/ StatementFails(r)
      BY <3>2, <1>a DEF StatementFails, TypeOK, storeVars
    <3> QED BY <1>3, <3>1, <3>2 DEF LogPrediction, LogFails
  <2>5. /\ todo' = [todo EXCEPT ![r] = Tail(todo[r])] /\ pc' = [pc EXCEPT ![r] = "analyze"]
        /\ UNCHANGED <<inputVars, asOf, detailed, top, reviewed, calls, met, crashes>>
    BY <1>3 DEF LogPrediction, LogFails, Logged
  <2> QED BY <1>a, <2>2, <2>4, <2>5 DEF TypeOK, inputVars
<1>4. ASSUME NEW r \in Runs, Rank(r) PROVE TypeOK'
  <2>1. Upto(MaxPicks, r) \in SUBSET Fixtures /\ Cardinality(Upto(MaxPicks, r)) <= MaxPicks
    BY <1>a, PicksBounded, ScoredFinite DEF Picks
  <2> QED BY <1>4, <1>a, <2>1 DEF Rank, TypeOK, storeVars, inputVars
<1>b. ASSUME NEW r \in Runs, NEW f
      PROVE  Cardinality(top[r] \ {f}) <= MaxPicks
  <2>1. top[r] \in SUBSET Fixtures /\ IsFiniteSet(top[r]) /\ MaxPicks \in Nat
        /\ Cardinality(top[r]) <= MaxPicks
    BY <1>a, SlateFacts, FS_Subset DEF TypeOK
  <2>2. Cardinality(top[r] \ {f}) <= Cardinality(top[r])
        /\ Cardinality(top[r] \ {f}) \in Nat /\ Cardinality(top[r]) \in Nat
    <3>1. top[r] \ {f} \in SUBSET top[r]
      OBVIOUS
    <3>2. IsFiniteSet(top[r] \ {f}) /\ Cardinality(top[r] \ {f}) <= Cardinality(top[r])
      BY <2>1, <3>1, FS_Subset
    <3> QED BY <2>1, <3>2, FS_CardinalityType
  <2> QED BY <2>1, <2>2
<1>5. ASSUME NEW r \in Runs, NEW f \in Fixtures, Skip(r, f) PROVE TypeOK'
  BY <1>5, <1>a, <1>b DEF Skip, TypeOK, storeVars, inputVars
<1>6. ASSUME NEW r \in Runs, NEW f \in Fixtures, CallModel(r, f) PROVE TypeOK'
  BY <1>6, <1>a DEF CallModel, TypeOK, storeVars, inputVars
<1>7. ASSUME NEW r \in Runs, ModelAnswers(r) PROVE TypeOK'
  BY <1>7, <1>a DEF ModelAnswers, TypeOK, storeVars, inputVars
<1>8. ASSUME NEW r \in Runs, NEW f \in Fixtures, SaveValueBets(r, f) PROVE TypeOK'
  <2>1. f \in DOMAIN detailed[r]
    BY <1>8, PicksBounded DEF SaveValueBets, Current, PicksInv, PickInv, Picking, Reviewing, Scored
  <2>2. ValueBet(f, detailed[r][f]) \in Rows
    BY <1>a, <2>1, DetailedTyped, RowFacts
  <2> QED BY <1>8, <1>a, <2>2 DEF SaveValueBets, InsertIfAbsent, TypeOK, inputVars
<1>9. ASSUME NEW r \in Runs, NEW f \in Fixtures, SaveDecisionLog(r, f) PROVE TypeOK'
  <2>1. DecisionLog(f, r) \in Rows
    BY RowFacts
  <2> QED BY <1>9, <1>a, <1>b, <2>1 DEF SaveDecisionLog, Insert, TypeOK, inputVars
<1>10. ASSUME NEW r \in Runs, Finish(r) \/ Lose(r) PROVE TypeOK'
  BY <1>10, <1>a DEF Finish, Lose, Commit, Rollback, TypeOK, inputVars
<1>11. ASSUME NEW r \in Runs, Crash(r) PROVE TypeOK'
  <2>1. rows' \subseteq Rows /\ pending' \in [Runs -> SUBSET Rows] /\ aborted' \in [Runs -> BOOLEAN]
    BY <1>11, <1>a DEF Crash, Commit, Rollback, TypeOK
  <2>2. crashes' \in 0..MaxCrashes
    BY <1>11, <1>a DEF Crash, TypeOK
  <2> QED BY <1>11, <1>a, <2>1, <2>2 DEF Crash, TypeOK, inputVars
<1>12. ASSUME NEW f \in Fixtures, RefreshInputs(f) PROVE TypeOK'
  <2>1. inputs' \in [Fixtures -> Versions]
    BY <1>12, <1>a DEF RefreshInputs, TypeOK, Versions
  <2>2. refreshes' \in 0..MaxRefreshes
    BY <1>12, <1>a DEF RefreshInputs, TypeOK
  <2> QED BY <1>12, <1>a, <2>1, <2>2 DEF RefreshInputs, TypeOK, storeVars, runVars
<1>13. CASE UNCHANGED vars
  BY <1>13, <1>a DEF vars, storeVars, runVars, inputVars, TypeOK
<1> QED
  BY <1>1, <1>2, <1>3, <1>4, <1>5, <1>6, <1>7, <1>8, <1>9, <1>10, <1>11, <1>12, <1>13, Steps
     DEF OwnStep, Work

\* What holds of a run is not disturbed by what others do.
LEMMA Undisturbed ==
  ASSUME PicksInv, NEW r \in Runs,
         pc'[r] = pc[r], todo'[r] = todo[r], detailed'[r] = detailed[r], top'[r] = top[r],
         reviewed'[r] = reviewed[r], pending'[r] = pending[r], aborted'[r] = aborted[r],
         rows \subseteq rows', \A c \in calls' : c[1] = r => c \in calls
  PROVE  RunInv(r)' /\ PickInv(r)' /\ ReportInv(r)' /\ BetInv(r)' /\ CallInv(r)'
<1>1. RunInv(r) /\ PickInv(r) /\ ReportInv(r) /\ BetInv(r) /\ CallInv(r)
  BY DEF PicksInv
<1>2. Sees(r) \subseteq Sees(r)'
  BY DEF Sees
<1>3. \A f : LogsOf(f, Sees(r)) \subseteq LogsOf(f, Sees(r)')
  BY <1>2, RowFacts
<1>4. Picks(r)' = Picks(r) /\ \A f : Current(r, f)' <=> Current(r, f)
  BY RankingIsOwn
<1>5. RunInv(r)'
  BY <1>1 DEF RunInv
<1>6. PickInv(r)'
  BY <1>1, <1>3, <1>4 DEF PickInv, LogsOf
<1>7. ReportInv(r)'
  BY <1>1, <1>2 DEF ReportInv, DecisionLog
<1>8. BetInv(r)'
  BY <1>1, <1>3, <1>4 DEF BetInv, LogsOf
<1>9. CallInv(r)'
  BY <1>1, <1>2, <1>4 DEF CallInv, DecisionLog
<1> QED BY <1>5, <1>6, <1>7, <1>8, <1>9

\* The steps up to the ranking write predictions, and no more.
LEMMA AnalysisKept ==
  ASSUME PicksInv, NEW r \in Runs, Start(r) \/ Analyze(r) \/ LogPrediction(r) \/ LogFails(r) \/ Rank(r)
  PROVE  RunInv(r)' /\ PickInv(r)' /\ ReportInv(r)' /\ BetInv(r)' /\ CallInv(r)'
<1> DEFINE Goal == RunInv(r)' /\ PickInv(r)' /\ ReportInv(r)' /\ BetInv(r)' /\ CallInv(r)'
<1>a. /\ TypeOK /\ RunInv(r) /\ PickInv(r) /\ ReportInv(r) /\ BetInv(r) /\ CallInv(r)
      /\ todo[r] \in Seq(Fixtures) /\ reviewed[r] = {} /\ top[r] = {}
      /\ pc[r] \in {"idle", "analyze", "log"}
      /\ \A c \in calls : c[1] # r
  BY DEF PicksInv, TypeOK, RunInv, CallInv, Picking, Reviewing, Start, Analyze, LogPrediction, LogFails,
         Logged, Rank
<1>1. CASE Start(r)
  <2>1. /\ pc'[r] = "analyze" /\ todo'[r] = Slate /\ pending'[r] = {} /\ ~aborted'[r]
        /\ reviewed'[r] = {} /\ top'[r] = {} /\ UNCHANGED calls
    BY <1>1, <1>a DEF Start, TypeOK, RunInv, storeVars
  <2>2. RunInv(r)'
    BY <2>1 DEF RunInv, Picking, Reviewing, Fixtures
  <2> QED BY <2>1, <2>2, <1>1, <1>a
          DEF Start, PickInv, ReportInv, BetInv, CallInv, Picking, Reviewing
<1>2. CASE Analyze(r)
  <2>1. /\ pc[r] = "analyze" /\ pc'[r] = "log" /\ UNCHANGED <<rows, pending, aborted, calls>>
        /\ todo[r] # <<>> /\ ~aborted[r] /\ todo' = todo /\ reviewed' = reviewed /\ top' = top
    BY <1>2, <1>a DEF Analyze, TypeOK, storeVars
  <2>2. DOMAIN detailed'[r] = DOMAIN detailed[r] \cup {Head(todo[r])}
    BY <1>2, <1>a DEF Analyze, TypeOK
  <2>3. RunInv(r)'
    BY <2>1, <2>2, <1>a DEF RunInv, Picking, Reviewing
  <2>4. PickInv(r)' /\ ReportInv(r)'
    BY <2>1, <1>a DEF PickInv, ReportInv, Picking, Reviewing
  <2>5. BetInv(r)'
    BY <2>1, <1>a DEF BetInv, Sees, LogsOf
  <2>6. CallInv(r)'
    BY <2>1, <1>a DEF CallInv
  <2> QED BY <2>3, <2>4, <2>5, <2>6
<1>3. CASE LogPrediction(r) \/ LogFails(r)
  <2>1. /\ pc[r] = "log" /\ pc'[r] = "analyze" /\ todo'[r] = Tail(todo[r])
        /\ UNCHANGED <<calls, detailed, reviewed, top>>
    BY <1>3, <1>a DEF LogPrediction, LogFails, Logged, TypeOK
  <2>2. todo[r] # <<>> /\ Head(todo[r]) \in DOMAIN detailed[r]
    BY <2>1, <1>a DEF RunInv
  <2>3. Fixtures \subseteq DOMAIN detailed'[r] \cup {todo'[r][i] : i \in DOMAIN todo'[r]}
    <3>1. Fixtures \subseteq DOMAIN detailed[r] \cup {todo[r][i] : i \in DOMAIN todo[r]}
      BY <2>1, <1>a DEF RunInv
    <3>2. ASSUME NEW i \in DOMAIN todo[r], i # 1
          PROVE  i - 1 \in DOMAIN Tail(todo[r]) /\ Tail(todo[r])[i - 1] = todo[r][i]
      BY <1>a, <2>2, <3>2
    <3>3. todo[r][1] \in DOMAIN detailed[r]
      BY <1>a, <2>2
    <3>4. ASSUME NEW f \in Fixtures, f \notin DOMAIN detailed'[r]
          PROVE  f \in {todo'[r][i] : i \in DOMAIN todo'[r]}
      <4>1. PICK i \in DOMAIN todo[r] : todo[r][i] = f /\ i # 1
        BY <2>1, <3>1, <3>3, <3>4
      <4>2. i - 1 \in DOMAIN todo'[r] /\ todo'[r][i - 1] = f
        BY <2>1, <3>2, <4>1
      <4> QED BY <4>2
    <3> QED BY <3>4
  <2>4. PickInv(r)' /\ ReportInv(r)' /\ CallInv(r)'
    BY <2>1, <1>a DEF PickInv, ReportInv, CallInv, Picking, Reviewing
  <2>5. ASSUME LogPrediction(r) PROVE RunInv(r)' /\ BetInv(r)'
    <3> DEFINE row == Prediction(Head(todo[r]), detailed[r][Head(todo[r])])
    <3>1. /\ ~aborted[r] /\ UNCHANGED <<rows, aborted>>
          /\ pending'[r] = pending[r] \cup ({row} \ rows)
      BY <2>5, <1>a DEF LogPrediction, InsertIfAbsent, TypeOK
    <3>2. row.table = "predictions"
      BY <1>a, <2>2, DetailedTyped, RowFacts
    <3>3. RunInv(r)'
      BY <2>1, <2>3, <3>1, <1>a DEF RunInv, Picking, Reviewing
    <3>4. Sees(r) \subseteq Sees(r)' /\ \A x \in pending'[r] : x.table = "value_bets" => x \in pending[r]
      BY <3>1, <3>2 DEF Sees
    <3>5. \A f : LogsOf(f, Sees(r)) \subseteq LogsOf(f, Sees(r)')
      BY <3>4, RowFacts
    <3>6. BetInv(r)'
      <4> SUFFICES ASSUME NEW x \in pending'[r], x.table = "value_bets"
                   PROVE  LogsOf(x.id[1], Sees(r)') # {}
        BY DEF BetInv
      <4>1. LogsOf(x.id[1], Sees(r)) # {}
        BY <2>1, <3>4, <1>a DEF BetInv
      <4> QED BY <3>5, <4>1
    <3> QED BY <3>3, <3>6
  <2>6. ASSUME LogFails(r) PROVE RunInv(r)' /\ BetInv(r)'
    <3>1. CASE StatementFails(r)
      <4>1. pending'[r] = {} /\ aborted'[r]
        BY <3>1, <1>a DEF StatementFails, TypeOK
      <4> QED BY <2>1, <2>3, <4>1, <1>a DEF RunInv, BetInv, Picking, Reviewing
    <3>2. CASE UNCHANGED storeVars
      <4>1. RunInv(r)'
        BY <2>1, <2>3, <3>2, <1>a DEF RunInv, Picking, Reviewing, storeVars
      <4>2. BetInv(r)'
        BY <2>1, <3>2, <1>a DEF BetInv, Sees, LogsOf, storeVars
      <4> QED BY <4>1, <4>2
    <3> QED BY <2>6, <3>1, <3>2 DEF LogFails
  <2> QED BY <1>3, <2>4, <2>5, <2>6
<1>4. CASE Rank(r)
  <2>1. /\ pc[r] = "analyze" /\ pc'[r] = "check" /\ todo[r] = <<>> /\ top'[r] = Picks(r)
        /\ UNCHANGED <<rows, pending, aborted, todo, detailed, reviewed, calls>>
    BY <1>4, <1>a DEF Rank, TypeOK, Picks, storeVars
  <2>2. RunInv(r)'
    BY <2>1, <1>a DEF RunInv, Picking, Reviewing
  <2>3. PickInv(r)'
    <3>1. Picks(r)' = Picks(r)
      BY <2>1, RankingIsOwn
    <3> QED BY <2>1, <3>1, <1>a DEF PickInv
  <2>4. ReportInv(r)' /\ CallInv(r)'
    BY <2>1, <1>a DEF ReportInv, CallInv
  <2>5. BetInv(r)'
    BY <2>1, <1>a DEF BetInv, Sees, LogsOf
  <2> QED BY <2>2, <2>3, <2>4, <2>5
<1> QED BY <1>1, <1>2, <1>3, <1>4

\* The loop over the picks.
LEMMA ReviewKept ==
  ASSUME PicksInv, NEW r \in Runs, NEW f \in Fixtures,
         Skip(r, f) \/ CallModel(r, f) \/ SaveValueBets(r, f) \/ SaveDecisionLog(r, f)
  PROVE  RunInv(r)' /\ PickInv(r)' /\ ReportInv(r)' /\ BetInv(r)' /\ CallInv(r)'
<1>a. /\ TypeOK /\ RunInv(r) /\ PickInv(r) /\ ReportInv(r) /\ BetInv(r) /\ CallInv(r)
      /\ pc[r] \in {"check", "bets", "decision"} /\ pc'[r] \in {"check", "model", "decision"}
      /\ Current(r, f) /\ f \in top[r] /\ top[r] \subseteq Picks(r)
      /\ ~aborted[r] /\ aborted' = aborted /\ rows' = rows /\ pending[r] \subseteq pending'[r]
      /\ todo[r] = <<>> /\ todo' = todo /\ detailed' = detailed
      /\ top'[r] \in {top[r], top[r] \ {f}} /\ reviewed'[r] \in {reviewed[r], reviewed[r] \cup {f}}
  BY DEF PicksInv, TypeOK, RunInv, PickInv, Picking, Reviewing, Current, Skip, CallModel,
         SaveValueBets, SaveDecisionLog, InsertIfAbsent, Insert, storeVars
<1>b. /\ Sees(r) \subseteq Sees(r)' /\ Picks(r)' = Picks(r)
      /\ \A g : LogsOf(g, Sees(r)) \subseteq LogsOf(g, Sees(r)')
      /\ top'[r] = top[r] => \A g : Current(r, g)' <=> Current(r, g)
      /\ \A g : Current(r, g) => g = f
  <2>1. Sees(r) \subseteq Sees(r)'
    BY <1>a DEF Sees
  <2> QED BY <1>a, <2>1, RowFacts, RankingIsOwn, CurrentUnique
<1>1. RunInv(r)'
  BY <1>a DEF RunInv, Picking, Reviewing
\* A pick leaves the list when its log can be seen.
<1>c. ASSUME top'[r] = top[r] \/ LogsOf(f, Sees(r)') # {}
      PROVE  PickInv(r)'
  <2>1. \A g \in Picks(r) \ top'[r] : LogsOf(g, Sees(r)') # {}
    BY <1>a, <1>b, <1>c DEF PickInv, Picking, Reviewing
  <2>2. top'[r] \subseteq Picks(r) /\ reviewed'[r] \subseteq Picks(r)
    BY <1>a DEF PickInv, Picking, Reviewing
  <2> QED BY <1>b, <2>1, <2>2 DEF PickInv
<1>2. CASE Skip(r, f)
  <2>1. /\ pc[r] = "check" /\ pc'[r] = "check" /\ LogsOf(f, Sees(r)) # {}
        /\ UNCHANGED <<rows, pending, calls, reviewed>>
    BY <1>2 DEF Skip, storeVars
  <2>2. ReportInv(r)'
    BY <1>a, <1>b, <2>1 DEF ReportInv, DecisionLog
  <2>3. BetInv(r)'
    BY <1>a, <1>b, <2>1 DEF BetInv
  <2>4. CallInv(r)'
    BY <1>a, <1>b, <2>1 DEF CallInv, Reviewing, DecisionLog
  <2> QED BY <1>b, <1>c, <1>1, <2>1, <2>2, <2>3, <2>4
<1>3. CASE CallModel(r, f)
  <2>1. /\ pc[r] = "check" /\ pc'[r] = "model" /\ calls' = calls \cup {<<r, f>>}
        /\ UNCHANGED <<rows, pending, reviewed, top>>
    BY <1>3, <1>a DEF CallModel, TypeOK, storeVars
  <2>2. ReportInv(r)'
    BY <1>a, <1>b, <2>1 DEF ReportInv, DecisionLog
  <2>3. BetInv(r)'
    BY <1>a, <1>b, <2>1 DEF BetInv
  <2>4. CallInv(r)'
    BY <1>a, <1>b, <2>1 DEF CallInv, Reviewing, Picking, DecisionLog
  <2> QED BY <1>c, <1>1, <2>1, <2>2, <2>3, <2>4
<1>4. CASE SaveValueBets(r, f)
  <2>1. /\ pc[r] = "bets" /\ pc'[r] = "decision" /\ UNCHANGED <<rows, reviewed, top, calls>>
        /\ pending'[r] = pending[r] \cup ({ValueBet(f, detailed[r][f])} \ rows)
    BY <1>4, <1>a DEF SaveValueBets, InsertIfAbsent, TypeOK
  <2>2. ReportInv(r)'
    BY <1>a, <1>b, <2>1 DEF ReportInv, DecisionLog
  <2>3. BetInv(r)'
    <3>1. ValueBet(f, detailed[r][f]).id[1] = f
      BY DEF ValueBet
    <3> SUFFICES ASSUME NEW row \in pending'[r], row.table = "value_bets"
                 PROVE  LogsOf(row.id[1], Sees(r)') # {} \/ row.id[1] = f
      BY <1>a, <1>b, <2>1 DEF BetInv
    <3>2. CASE row \in pending[r]
      BY <1>a, <1>b, <2>1, <3>2 DEF BetInv
    <3> QED BY <2>1, <3>1, <3>2
  <2>4. CallInv(r)'
    BY <1>a, <1>b, <2>1 DEF CallInv, Reviewing, Picking, DecisionLog
  <2> QED BY <1>c, <1>1, <2>1, <2>2, <2>3, <2>4
<1>5. CASE SaveDecisionLog(r, f)
  <2>1. /\ pc[r] = "decision" /\ pc'[r] = "check" /\ UNCHANGED <<rows, calls>>
        /\ pending'[r] = pending[r] \cup {DecisionLog(f, r)}
        /\ reviewed'[r] = reviewed[r] \cup {f} /\ top'[r] = top[r] \ {f}
    BY <1>5, <1>a DEF SaveDecisionLog, Insert, TypeOK
  <2>2. DecisionLog(f, r) \in Sees(r)' /\ LogsOf(f, Sees(r)') # {}
    <3>1. DecisionLog(f, r) \in Sees(r)'
      BY <2>1 DEF Sees
    <3> QED BY <3>1, RowFacts
  <2>3. ReportInv(r)'
    BY <1>a, <1>b, <2>1, <2>2 DEF ReportInv, DecisionLog
  <2>4. BetInv(r)'
    <3> SUFFICES ASSUME NEW row \in pending'[r], row.table = "value_bets"
                 PROVE  LogsOf(row.id[1], Sees(r)') # {}
      BY DEF BetInv
    <3>1. row \in pending[r]
      BY <2>1, RowFacts
    <3> QED BY <1>a, <1>b, <2>2, <3>1 DEF BetInv
  <2>5. CallInv(r)'
    BY <1>a, <1>b, <2>1, <2>2 DEF CallInv, Reviewing, Picking, DecisionLog
  <2> QED BY <1>c, <1>1, <2>2, <2>3, <2>4, <2>5
<1> QED BY <1>2, <1>3, <1>4, <1>5

\* The end of a run, with a commit or without.
LEMMA EndKept ==
  ASSUME PicksInv, NEW r \in Runs, ModelAnswers(r) \/ Finish(r) \/ Lose(r) \/ Crash(r)
  PROVE  /\ RunInv(r)' /\ PickInv(r)' /\ ReportInv(r)' /\ BetInv(r)' /\ CallInv(r)'
         /\ rows' # rows => rows' = Sees(r) /\ pc[r] = "check"
<1>a. /\ TypeOK /\ RunInv(r) /\ PickInv(r) /\ ReportInv(r) /\ BetInv(r) /\ CallInv(r)
      /\ pc[r] # "idle"
      /\ UNCHANGED <<todo, detailed, top, reviewed, calls>>
  <2>1. /\ TypeOK /\ RunInv(r) /\ PickInv(r) /\ ReportInv(r) /\ BetInv(r) /\ CallInv(r)
    BY DEF PicksInv
  <2>2. UNCHANGED <<todo, detailed, top, reviewed, calls>>
    BY DEF ModelAnswers, Finish, Lose, Crash
  <2>3. pc[r] # "idle"
    BY DEF PicksInv, RunInv, ModelAnswers, Finish, Lose, Crash, Open
  <2> QED BY <2>1, <2>2, <2>3
<1>b. Picks(r)' = Picks(r) /\ \A g : Current(r, g)' <=> Current(r, g)
  BY <1>a, RankingIsOwn
<1>1. CASE ModelAnswers(r)
  <2>1. pc[r] = "model" /\ pc'[r] = "bets" /\ UNCHANGED <<rows, pending, aborted>>
    BY <1>1, <1>a DEF ModelAnswers, TypeOK, storeVars
  <2>2. RunInv(r)' /\ PickInv(r)' /\ ReportInv(r)'
    BY <2>1, <1>a, <1>b DEF RunInv, PickInv, ReportInv, Picking, Reviewing, Sees, LogsOf, DecisionLog
  <2>3. BetInv(r)' /\ CallInv(r)'
    BY <2>1, <1>a, <1>b DEF BetInv, CallInv, Picking, Reviewing, Sees, LogsOf, DecisionLog
  <2> QED BY <2>1, <2>2, <2>3
<1>2. CASE Finish(r)
  <2>1. /\ pc[r] = "check" /\ pc'[r] = "done" /\ top[r] = {}
        /\ rows' = Sees(r) /\ pending'[r] = {} /\ ~aborted'[r]
    BY <1>2, <1>a DEF Finish, Commit, TypeOK, Sees
  <2>2. Sees(r)' = Sees(r)
    BY <2>1 DEF Sees
  <2>3. RunInv(r)' /\ BetInv(r)'
    BY <2>1, <1>a DEF RunInv, BetInv, Picking, Reviewing
  <2>4. PickInv(r)' /\ ReportInv(r)'
    BY <2>1, <2>2, <1>a, <1>b DEF PickInv, ReportInv, Picking, Reviewing, LogsOf, DecisionLog
  <2>5. CallInv(r)'
    BY <2>1, <2>2, <1>a, <1>b DEF CallInv, Picking, Reviewing, DecisionLog
  <2> QED BY <2>1, <2>3, <2>4, <2>5
<1>3. CASE Lose(r) \/ Crash(r)
  <2>1. /\ pc'[r] = "lost" /\ pending'[r] = {} /\ ~aborted'[r]
        /\ rows' = rows \/ (rows' = Sees(r) /\ pc[r] = "check")
    BY <1>3, <1>a DEF Lose, Crash, Commit, Rollback, TypeOK, Sees
  <2>2. RunInv(r)' /\ BetInv(r)'
    BY <2>1, <1>a DEF RunInv, BetInv, Picking, Reviewing
  <2>3. PickInv(r)' /\ ReportInv(r)' /\ CallInv(r)'
    BY <2>1 DEF PickInv, ReportInv, CallInv, Picking, Reviewing
  <2> QED BY <2>1, <2>2, <2>3
<1> QED BY <1>1, <1>2, <1>3

\* Rows are committed at the end of a run, and only there.
LEMMA RowsKept ==
  ASSUME PicksInv, [Next]_vars
  PROVE  \/ rows' = rows
         \/ \E r \in Runs : rows' = Sees(r) /\ pc[r] = "check"
<1>1. ASSUME NEW r \in Runs, Start(r) \/ Analyze(r) \/ LogPrediction(r) \/ LogFails(r) \/ Rank(r)
      PROVE  rows' = rows
  BY <1>1 DEF Start, Analyze, LogPrediction, LogFails, Rank, InsertIfAbsent, StatementFails, storeVars
<1>2. ASSUME NEW r \in Runs, NEW f \in Fixtures,
             Skip(r, f) \/ CallModel(r, f) \/ SaveValueBets(r, f) \/ SaveDecisionLog(r, f)
      PROVE  rows' = rows
  BY <1>2 DEF Skip, CallModel, SaveValueBets, SaveDecisionLog, InsertIfAbsent, Insert, storeVars
<1>3. ASSUME NEW f \in Fixtures, RefreshInputs(f) PROVE rows' = rows
  BY <1>3 DEF RefreshInputs, storeVars
<1>4. CASE UNCHANGED vars
  BY <1>4 DEF vars, storeVars
<1> QED BY <1>1, <1>2, <1>3, <1>4, EndKept, Steps DEF OwnStep, Work

\* Every run keeps its own invariants, whoever takes the step.
LEMMA EachRunKept ==
  ASSUME PicksInv, [Next]_vars, NEW r \in Runs
  PROVE  RunInv(r)' /\ PickInv(r)' /\ ReportInv(r)' /\ BetInv(r)' /\ CallInv(r)'
<1>1. CASE OwnStep(r)
  BY <1>1, AnalysisKept, ReviewKept, EndKept DEF OwnStep, Work
<1>2. ASSUME NEW q \in Runs, q # r, OwnStep(q)
      PROVE  RunInv(r)' /\ PickInv(r)' /\ ReportInv(r)' /\ BetInv(r)' /\ CallInv(r)'
  <2>1. \A c \in calls' : c \in calls \/ c[1] = q
    <3>1. calls' = calls \/ \E f \in Fixtures : CallModel(q, f)
      BY <1>2 DEF OwnStep, Work, Start, Analyze, LogPrediction, LogFails, Logged, Rank, Skip, ModelAnswers,
         SaveValueBets, SaveDecisionLog, Finish, Lose, Crash
    <3> QED BY <3>1 DEF CallModel
  <2> QED BY <1>2, <2>1, StepOfAnother, Undisturbed DEF PicksInv
<1>3. CASE (\E f \in Fixtures : RefreshInputs(f)) \/ UNCHANGED vars
  <2>1. UNCHANGED <<storeVars, runVars, calls>>
    BY <1>3 DEF RefreshInputs, vars
  <2> QED BY <2>1, Undisturbed DEF storeVars, runVars
<1> QED BY <1>1, <1>2, <1>3, Steps

\* Bets leave the transaction with their logs.
LEMMA BetsKept ==
  ASSUME PicksInv, [Next]_vars
  PROVE  BetsAreExplained'
<1>1. CASE rows' = rows
  BY <1>1 DEF PicksInv, BetsAreExplained, LogsOf
<1>2. ASSUME NEW r \in Runs, rows' = Sees(r), pc[r] = "check" PROVE BetsAreExplained'
  <2> SUFFICES ASSUME NEW row \in Sees(r), row.table = "value_bets"
               PROVE  LogsOf(row.id[1], Sees(r)) # {}
    BY <1>2 DEF BetsAreExplained, LogsOf
  <2>1. CASE row \in rows
    <3>1. LogsOf(row.id[1], rows) # {} /\ rows \subseteq Sees(r)
      BY <2>1 DEF PicksInv, BetsAreExplained, Sees
    <3> QED BY <3>1, RowFacts
  <2>2. CASE row \in pending[r]
    BY <1>2, <2>2 DEF PicksInv, BetInv
  <2> QED BY <2>1, <2>2 DEF Sees
<1> QED BY <1>1, <1>2, RowsKept

\* Runs that are open together have met, and a pair that has met stays met.
LEMMA OpenRunsKept ==
  ASSUME PicksInv, [Next]_vars
  PROVE  OpenRunsMet' /\ met \subseteq met'
<1>a. TypeOK /\ OpenRunsMet
  BY DEF PicksInv
<1>1. ASSUME NEW r \in Runs, Start(r) PROVE OpenRunsMet' /\ met \subseteq met'
  <2>1. /\ met' = met \cup {{r, q} : q \in Open} /\ Open' = Open \cup {r}
    BY <1>1, <1>a DEF Start, Open, TypeOK
  <2>2. ASSUME NEW p \in Open', NEW q \in Open', p # q PROVE {p, q} \in met'
    <3>1. CASE p = r
      BY <2>1, <2>2, <3>1
    <3>2. CASE q = r
      <4>1. {p, q} = {r, p} /\ p \in Open
        BY <2>1, <2>2, <3>2
      <4> QED BY <2>1, <4>1
    <3>3. CASE p # r /\ q # r
      BY <2>1, <2>2, <3>3, <1>a DEF OpenRunsMet, Overlap
    <3> QED BY <3>1, <3>2, <3>3
  <2> QED BY <2>1, <2>2 DEF OpenRunsMet, Overlap
<1>2. ASSUME Open' \subseteq Open, met' = met PROVE OpenRunsMet' /\ met \subseteq met'
  BY <1>2, <1>a DEF OpenRunsMet, Overlap
<1>3. ASSUME NEW r \in Runs, Analyze(r) \/ LogPrediction(r) \/ LogFails(r) \/ Rank(r)
      PROVE  Open' \subseteq Open /\ met' = met
  BY <1>3, <1>a DEF Analyze, LogPrediction, LogFails, Logged, Rank, Open, TypeOK
<1>4. ASSUME NEW r \in Runs, NEW f \in Fixtures,
             Skip(r, f) \/ CallModel(r, f) \/ SaveValueBets(r, f) \/ SaveDecisionLog(r, f)
      PROVE  Open' \subseteq Open /\ met' = met
  BY <1>4, <1>a DEF Skip, CallModel, SaveValueBets, SaveDecisionLog, Open, TypeOK
<1>5. ASSUME NEW r \in Runs, ModelAnswers(r) \/ Finish(r) \/ Lose(r) \/ Crash(r)
      PROVE  Open' \subseteq Open /\ met' = met
  BY <1>5, <1>a DEF ModelAnswers, Finish, Lose, Crash, Open, TypeOK
<1>6. CASE (\E f \in Fixtures : RefreshInputs(f)) \/ UNCHANGED vars
  BY <1>6, <1>2 DEF RefreshInputs, vars, runVars, Open
<1> QED BY <1>1, <1>2, <1>3, <1>4, <1>5, <1>6, Steps DEF OwnStep, Work

LEMMA CallsKept ==
  ASSUME PicksInv, [Next]_vars
  PROVE  SecondReviewNeedsOverlapOrLoss'
<1>a. TypeOK /\ OpenRunsMet /\ SecondReviewNeedsOverlapOrLoss /\ met \subseteq met'
  BY OpenRunsKept DEF PicksInv
\* Whoever is lost stays lost.
<1>b. \A r \in Runs : pc[r] = "lost" => pc'[r] = "lost"
  <2> SUFFICES ASSUME NEW r \in Runs, pc[r] = "lost" PROVE pc'[r] = "lost"
    OBVIOUS
  <2>1. ~OwnStep(r)
    BY <1>a DEF OwnStep, Work, Start, Analyze, LogPrediction, LogFails, Logged, Rank, Skip, CallModel,
       ModelAnswers, SaveValueBets, SaveDecisionLog, Finish, Lose, Crash, Open, PicksInv, RunInv
  <2>2. ASSUME NEW q \in Runs, q # r, OwnStep(q) PROVE pc'[r] = pc[r]
    BY <2>2, <1>a, StepOfAnother
  <2>3. CASE (\E f \in Fixtures : RefreshInputs(f)) \/ UNCHANGED vars
    BY <2>3 DEF RefreshInputs, runVars, vars
  <2> QED BY <2>1, <2>2, <2>3, Steps
<1>1. CASE calls' = calls
  BY <1>1, <1>a, <1>b DEF SecondReviewNeedsOverlapOrLoss, Overlap, TypeOK
\* A new call looks at the logs first: an earlier one left its log, unless it
\* was in vain or its run is still open.
<1>2. ASSUME NEW r \in Runs, NEW f \in Fixtures, CallModel(r, f)
      PROVE  SecondReviewNeedsOverlapOrLoss'
  <2>1. /\ pc[r] = "check" /\ LogsOf(f, Sees(r)) = {} /\ calls' = calls \cup {<<r, f>>}
    BY <1>2 DEF CallModel
  <2>2. ASSUME NEW c \in calls, c[2] = f, c # <<r, f>>
        PROVE  {c[1], r} \in met' \/ pc'[c[1]] = "lost"
    <3>1. c[1] \in Runs /\ c[1] # r /\ c[2] \in Fixtures
      BY <1>a, <2>2 DEF TypeOK
    <3>2. CASE c[1] \in Open
      BY <1>a, <2>1, <3>1, <3>2 DEF OpenRunsMet, Overlap, Open
    <3>3. CASE pc[c[1]] = "lost"
      BY <1>b, <3>1, <3>3
    <3>4. CASE pc[c[1]] \in {"idle", "done"}
      <4>1. /\ DecisionLog(f, c[1]) \in Sees(c[1]) /\ pending[c[1]] = {}
        BY <2>2, <3>1, <3>4 DEF PicksInv, CallInv, RunInv, Picking, Reviewing
      <4>2. DecisionLog(f, c[1]) \in Sees(r)
        BY <4>1 DEF Sees
      <4> QED BY <2>1, <3>1, <4>2, RowFacts
    <3> QED BY <3>1, <3>2, <3>3, <3>4 DEF Open
  <2>3. ASSUME NEW c \in calls', NEW d \in calls', c[2] = d[2], c # d
        PROVE  {c[1], d[1]} \in met' \/ "lost" \in {pc'[c[1]], pc'[d[1]]}
    <3>1. CASE c \in calls /\ d \in calls
      BY <1>a, <1>b, <2>3, <3>1 DEF SecondReviewNeedsOverlapOrLoss, Overlap, TypeOK
    <3>2. CASE c \in calls /\ d = <<r, f>>
      BY <2>2, <2>3, <3>2
    <3>3. CASE c = <<r, f>> /\ d \in calls
      <4>1. {d[1], c[1]} = {c[1], d[1]}
        OBVIOUS
      <4> QED BY <2>2, <2>3, <3>3, <4>1
    <3> QED BY <2>1, <2>3, <3>1, <3>2, <3>3
  <2> QED BY <2>3 DEF SecondReviewNeedsOverlapOrLoss, Overlap
<1>3. calls' = calls \/ \E r \in Runs, f \in Fixtures : CallModel(r, f)
  BY Steps, ZenonT(40) DEF OwnStep, Work, Start, Analyze, LogPrediction, LogFails, Logged, Rank, Skip, ModelAnswers,
     SaveValueBets, SaveDecisionLog, Finish, Lose, Crash, RefreshInputs, vars
<1> QED BY <1>1, <1>2, <1>3
-----------------------------------------------------------------------------
(* Theorems *)

LEMMA PicksStart == Init => PicksInv
<1> SUFFICES ASSUME Init PROVE PicksInv
  OBVIOUS
<1>1. TypeOK
  <2>1. [f \in {} |-> 0] \in UNION {[D -> Versions] : D \in SUBSET Fixtures}
    <3>1. [f \in {} |-> 0] \in [{} -> Versions] /\ {} \in SUBSET Fixtures
      OBVIOUS
    <3> QED BY <3>1
  <2>2. Cardinality({}) = 0 /\ {MaxVersion, MaxRefreshes, MaxPicks, MaxCrashes} \subseteq Nat
    BY FS_EmptySet, BoundsAssumption DEF BoundsAssumption
  <2>3. /\ rows \subseteq Rows /\ pending \in [Runs -> SUBSET Rows]
        /\ aborted \in [Runs -> BOOLEAN]
    BY DEF Init, StoreInit, Runs
  <2>4. 0 \in Versions /\ <<>> \in Seq(Fixtures)
    BY <2>2 DEF Versions
  <2>5. /\ inputs \in [Fixtures -> Versions] /\ asOf \in [Runs -> [Fixtures -> Versions]]
        /\ todo \in [Runs -> Seq(Fixtures)] /\ top \in [Runs -> SUBSET Fixtures]
    BY <2>4 DEF Init
  <2>6. detailed \in [Runs -> UNION {[D -> Versions] : D \in SUBSET Fixtures}]
    BY <2>1 DEF Init
  <2>7. \A r \in Runs : Cardinality(top[r]) <= MaxPicks
    BY <2>2 DEF Init
  <2>8. crashes \in 0..MaxCrashes /\ refreshes \in 0..MaxRefreshes
    BY <2>2 DEF Init
  <2> QED BY <2>3, <2>5, <2>6, <2>7, <2>8 DEF Init, TypeOK
<1>2. ASSUME NEW r \in Runs
      PROVE  RunInv(r) /\ PickInv(r) /\ ReportInv(r) /\ BetInv(r) /\ CallInv(r)
  <2>1. /\ pc[r] = "idle" /\ pending[r] = {} /\ ~aborted[r] /\ reviewed[r] = {} /\ top[r] = {}
        /\ DOMAIN detailed[r] = {} /\ calls = {}
    BY DEF Init, StoreInit, Runs
  <2> QED BY <2>1 DEF RunInv, PickInv, ReportInv, BetInv, CallInv, Picking, Reviewing
<1>3. OpenRunsMet /\ SecondReviewNeedsOverlapOrLoss /\ BetsAreExplained
  BY DEF Init, StoreInit, OpenRunsMet, SecondReviewNeedsOverlapOrLoss, BetsAreExplained, Open
<1> QED BY <1>1, <1>2, <1>3 DEF PicksInv

\* A run's picks, calls, bets and report are accounted for by what it can see.
THEOREM PicksInductive == Spec => []PicksInv
<1>1. PicksInv /\ [Next]_vars => PicksInv'
  <2> SUFFICES ASSUME PicksInv, [Next]_vars PROVE PicksInv'
    OBVIOUS
  <2>1. \A r \in Runs : RunInv(r)' /\ PickInv(r)' /\ ReportInv(r)' /\ BetInv(r)' /\ CallInv(r)'
    BY EachRunKept
  <2> QED BY <2>1, TypesKept, OpenRunsKept, CallsKept, BetsKept DEF PicksInv
<1> QED BY PicksStart, <1>1, PTL DEF Spec

\* The daily runs keep their types, and never have more picks than allowed.
THEOREM DailyTypeCorrect == Spec => []TypeOK
<1>1. PicksInv => TypeOK
  BY DEF PicksInv
<1> QED BY PicksInductive, <1>1, PTL

\* The cost guard of DailyTopPicksService.run: a fixture goes to the language
\* model again only if two runs overlapped or a paid review was lost.
THEOREM SecondReviewExcused == Spec => []SecondReviewNeedsOverlapOrLoss
<1>1. PicksInv => SecondReviewNeedsOverlapOrLoss
  BY DEF PicksInv
<1> QED BY PicksInductive, <1>1, PTL

\* review_detailed writes the bets and the log that explains them together.
THEOREM BetsExplained == Spec => []BetsAreExplained
<1>1. PicksInv => BetsAreExplained
  BY DEF PicksInv
<1> QED BY PicksInductive, <1>1, PTL

\* What a DailyRunReport counts as reviewed is in the database.
THEOREM ReportsStored == Spec => []ReportedReviewsAreStored
<1>1. PicksInv => ReportedReviewsAreStored
  BY DEF PicksInv, RunInv, ReportInv, ReportedReviewsAreStored, Sees
<1> QED BY PicksInductive, <1>1, PTL

\* Of two fixtures, the one with the better bet is reviewed first.
THEOREM BestReviewedFirst == Spec => []BestAreReviewedFirst
<1>1. PicksInv => BestAreReviewedFirst
  <2> SUFFICES ASSUME PicksInv, NEW r \in Runs, pc[r] = "done",
                      NEW f \in reviewed[r], NEW g \in Fixtures, Best(r, g) > Best(r, f)
               PROVE  LogsOf(g, rows) # {}
    BY DEF BestAreReviewedFirst
  <2>1. f \in Picks(r) /\ f \in Scored(r) /\ TypeOK
    BY PicksBounded DEF PicksInv, PickInv, Picking
  <2>2. g \in DOMAIN detailed[r] /\ Best(r, f) \in Nat /\ Best(r, g) \in Nat
    <3>1. Fixtures \subseteq DOMAIN detailed[r]
      <4>1. /\ Fixtures \subseteq DOMAIN detailed[r] \cup {todo[r][i] : i \in DOMAIN todo[r]}
            /\ todo[r] = <<>>
        BY DEF PicksInv, RunInv, Picking
      <4>2. DOMAIN todo[r] = {}
        BY <4>1
      <4> QED BY <4>1, <4>2
    <3>2. ASSUME NEW h \in Fixtures PROVE Best(r, h) \in Nat
      <4>1. <<h, detailed[r][h]>> \in Fixtures \X Versions
        BY <2>1, <3>1, DetailedTyped
      <4> QED BY <4>1, EVAssumption DEF EVAssumption, Best
    <3> QED BY <2>1, <3>1, <3>2, ScoredFinite
  <2>3. g \in Scored(r) /\ Ahead(r, g, f)
    BY <2>1, <2>2 DEF Scored, Ahead
  <2>4. g \in Picks(r)
    BY <2>1, <2>3, PicksClosed
  <2>5. top[r] = {} /\ Sees(r) = rows
    BY DEF PicksInv, RunInv, Sees
  <2> QED BY <2>4, <2>5 DEF PicksInv, PickInv, Picking
<1> QED BY PicksInductive, <1>1, PTL
=============================================================================

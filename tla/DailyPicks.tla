----------------------------- MODULE DailyPicks -----------------------------
(***************************************************************************)
(* DailyTopPicksService.run together with the review it calls               *)
(* (CommitteeReviewService.review_detailed) and the prediction log it writes *)
(* (log_fixture_predictions): several runs for the same date, each in one   *)
(* transaction of DecisionStore.  The daily job, the rerun inside the       *)
(* production_recovery command and POST /recommendations/today/run start    *)
(* runs, and no lock is common to the three.                                *)
(*                                                                         *)
(* A run analyses the slate in kickoff order and logs each analysis, ranks  *)
(* the fixtures with a qualifying selection by EV, and sends the best       *)
(* MaxPicks of them, unless a decision log of theirs is visible, to the     *)
(* language model.  An analysis is abstracted to the version of the inputs  *)
(* (odds, form) it read: EV gives the best qualifying expected value, 0 if  *)
(* no selection qualifies.  Row identities (uuid5 over fixture, workflow    *)
(* context and material input) are <<fixture, version>>; the context is the *)
(* same for all runs of the date.  A decision log has a fresh uuid4.        *)
(* Fixtures outside the whitelist leave no trace and are not in Slate.      *)
(***************************************************************************)
EXTENDS DecisionStore, Sequences

CONSTANTS
  Slate,       \* the day's fixtures in kickoff order
  EV,          \* best qualifying EV of a fixture's analysis, per version
  MaxVersion,  \* bound: versions of a fixture's inputs after the first
  MaxRefreshes, \* bound: how often the inputs of any fixture change
  MaxPicks,    \* settings.recommendations_max_picks
  MaxCrashes   \* bound: runs killed

Runs == Sessions
Fixtures == {Slate[i] : i \in DOMAIN Slate}
Versions == 0..MaxVersion
Position(f) == CHOOSE i \in DOMAIN Slate : Slate[i] = f

ASSUME SlateAssumption ==
  Slate \in Seq(Fixtures) /\ Cardinality(Fixtures) = Len(Slate)
ASSUME EVAssumption == EV \in [Fixtures \X Versions -> Nat]
ASSUME BoundsAssumption ==
  {MaxVersion, MaxRefreshes, MaxPicks, MaxCrashes} \subseteq Nat

VARIABLES
  inputs,    \* version of the committed inputs of each fixture
  refreshes, \* changes of inputs so far
  pc,        \* where each run is
  asOf,      \* versions captured before the run's analysis_as_of
  todo,      \* fixtures the run has not analysed yet
  detailed,  \* the run's analyses: versions, by fixture
  top,       \* those of the run's top picks that it has not dealt with yet
  reviewed,  \* DailyRunReport.reviewed_fixture_ids
  calls,     \* history: <<run, fixture>> sent to the language model
  met,       \* history: pairs of runs that were open at the same time
  crashes    \* runs killed so far

runVars == <<pc, asOf, todo, detailed, top, reviewed>>
inputVars == <<inputs, refreshes>>
vars == <<storeVars, runVars, inputVars, calls, met, crashes>>

Open == {r \in Runs : pc[r] \notin {"idle", "done", "lost"}}

Prediction(f, v) == [table |-> "predictions", id |-> <<f, v>>]
ValueBet(f, v) == [table |-> "value_bets", id |-> <<f, v>>]
DecisionLog(f, r) == [table |-> "decision_logs", id |-> <<f, r>>]

\* list_by_fixture: the decision logs of f that run r can see.
LogsOf(f, visible) ==
  {row \in visible : row.table = "decision_logs" /\ row.id[1] = f}

Init ==
  /\ StoreInit
  /\ inputs = [f \in Fixtures |-> 0]
  /\ refreshes = 0
  /\ pc = [r \in Runs |-> "idle"]
  /\ asOf = [r \in Runs |-> [f \in Fixtures |-> 0]]
  /\ todo = [r \in Runs |-> <<>>]
  /\ detailed = [r \in Runs |-> [f \in {} |-> 0]]
  /\ top = [r \in Runs |-> {}]
  /\ reviewed = [r \in Runs |-> {}]
  /\ calls = {}
  /\ met = {}
  /\ crashes = 0

\* Odds ingestion commits newer inputs of f.
RefreshInputs(f) ==
  /\ inputs[f] < MaxVersion /\ refreshes < MaxRefreshes
  /\ refreshes' = refreshes + 1
  /\ inputs' = [inputs EXCEPT ![f] = @ + 1]
  /\ UNCHANGED <<storeVars, runVars, calls, met, crashes>>

Start(r) ==
  /\ pc[r] = "idle"
  /\ pc' = [pc EXCEPT ![r] = "analyze"]
  /\ asOf' = [asOf EXCEPT ![r] = inputs]
  /\ todo' = [todo EXCEPT ![r] = Slate]
  /\ met' = met \cup {{r, q} : q \in Open}
  /\ UNCHANGED <<storeVars, inputVars, detailed, top, reviewed, calls, crashes>>

\* analyze_detailed(as_of): inputs captured after analysis_as_of are ignored;
\* those captured before it but committed during the run may be seen.
Analyze(r) ==
  /\ pc[r] = "analyze" /\ todo[r] # <<>> /\ ~aborted[r]
  /\ LET f == Head(todo[r]) IN
       \E v \in {asOf[r][f], inputs[f]} :
         detailed' = [detailed EXCEPT ![r] =
           [g \in DOMAIN @ \cup {f} |-> IF g = f THEN v ELSE @[g]]]
  /\ pc' = [pc EXCEPT ![r] = "log"]
  /\ UNCHANGED <<storeVars, inputVars, asOf, todo, top, reviewed, calls, met,
                 crashes>>

Logged(r) ==
  /\ pc[r] = "log"
  /\ todo' = [todo EXCEPT ![r] = Tail(@)]
  /\ pc' = [pc EXCEPT ![r] = "analyze"]
  /\ UNCHANGED <<inputVars, asOf, detailed, top, reviewed, calls, met, crashes>>

\* log_fixture_predictions inserts the decision row if it is absent.
LogPrediction(r) ==
  /\ Logged(r)
  /\ LET f == Head(todo[r]) IN
       InsertIfAbsent(r, {Prediction(f, detailed[r][f])})

\* Every exception in it is swallowed: one raised in Python leaves the row
\* out, one raised by the server aborts the transaction as well.
LogFails(r) ==
  /\ Logged(r)
  /\ UNCHANGED storeVars \/ StatementFails(r)

Best(r, f) == EV[f, detailed[r][f]]

\* scored: the fixtures with a qualifying selection.
Scored(r) == {f \in DOMAIN detailed[r] : Best(r, f) > 0}

\* Fault: the picks are taken in kickoff order.
AheadByKickoff(r, f, g) == Position(f) < Position(g)

\* A stable sort by EV, best first, of what is in kickoff order.
Ahead(r, f, g) ==
  \/ Best(r, f) > Best(r, g)
  \/ Best(r, f) = Best(r, g) /\ Position(f) < Position(g)

\* Fault: one pick too many.
UptoAndOne(n, r) ==
  {f \in Scored(r) : Cardinality({g \in Scored(r) : Ahead(r, g, f)}) <= n}

\* The first n of the ranking.
Upto(n, r) ==
  {f \in Scored(r) : Cardinality({g \in Scored(r) : Ahead(r, g, f)}) < n}

Rank(r) ==
  /\ pc[r] = "analyze" /\ todo[r] = <<>>
  /\ top' = [top EXCEPT ![r] = Upto(MaxPicks, r)]
  /\ pc' = [pc EXCEPT ![r] = "check"]
  /\ UNCHANGED <<storeVars, inputVars, asOf, todo, detailed, reviewed, calls, met,
                 crashes>>

\* The pick that the loop over `top` is at.
Current(r, f) == f \in top[r] /\ \A g \in top[r] \ {f} : Ahead(r, f, g)

\* The cost guard: a fixture with a decision log is skipped ...
Skip(r, f) ==
  /\ pc[r] = "check" /\ Current(r, f) /\ ~aborted[r]
  /\ LogsOf(f, Sees(r)) # {}
  /\ top' = [top EXCEPT ![r] = @ \ {f}]
  /\ UNCHANGED <<storeVars, inputVars, pc, asOf, todo, detailed, reviewed, calls,
                 met, crashes>>

\* Fault: the decision logs are not looked at.
CallModelUnchecked(r, f) ==
  /\ pc[r] = "check" /\ Current(r, f) /\ ~aborted[r]
  /\ calls' = calls \cup {<<r, f>>}
  /\ pc' = [pc EXCEPT ![r] = "model"]
  /\ UNCHANGED <<storeVars, inputVars, asOf, todo, detailed, top, reviewed, met,
                 crashes>>

\* ... and any other one is sent to the language model.
CallModel(r, f) ==
  /\ pc[r] = "check" /\ Current(r, f) /\ ~aborted[r]
  /\ LogsOf(f, Sees(r)) = {}
  /\ calls' = calls \cup {<<r, f>>}
  /\ pc' = [pc EXCEPT ![r] = "model"]
  /\ UNCHANGED <<storeVars, inputVars, asOf, todo, detailed, top, reviewed, met,
                 crashes>>

\* Fault: the value bets are committed on their own.
CommitValueBets(r, f) ==
  /\ pc[r] = "bets" /\ Current(r, f) /\ ~aborted[r]
  /\ rows' = rows \cup pending[r] \cup {ValueBet(f, detailed[r][f])}
  /\ pending' = [pending EXCEPT ![r] = {}]
  /\ pc' = [pc EXCEPT ![r] = "decision"]
  /\ UNCHANGED <<aborted, inputVars, asOf, todo, detailed, top, reviewed, calls,
                 met, crashes>>

\* The model answers.
ModelAnswers(r) ==
  /\ pc[r] = "model"
  /\ pc' = [pc EXCEPT ![r] = "bets"]
  /\ UNCHANGED <<storeVars, inputVars, asOf, todo, detailed, top, reviewed, calls,
                 met, crashes>>

\* _persist_value_bets: the bets the gate approved, each if it is absent.
SaveValueBets(r, f) ==
  /\ pc[r] = "bets" /\ Current(r, f)
  /\ InsertIfAbsent(r, {ValueBet(f, detailed[r][f])})
  /\ pc' = [pc EXCEPT ![r] = "decision"]
  /\ UNCHANGED <<inputVars, asOf, todo, detailed, top, reviewed, calls, met,
                 crashes>>

\* Fault: a failure to save the decision log is swallowed.
SaveDecisionLogOrSwallow(r, f) ==
  /\ pc[r] = "decision" /\ Current(r, f)
  /\ Insert(r, DecisionLog(f, r)) \/ StatementFails(r)
  /\ reviewed' = [reviewed EXCEPT ![r] = @ \cup {f}]
  /\ top' = [top EXCEPT ![r] = @ \ {f}]
  /\ pc' = [pc EXCEPT ![r] = "check"]
  /\ UNCHANGED <<inputVars, asOf, todo, detailed, calls, met, crashes>>

\* _persist_decision_log.
SaveDecisionLog(r, f) ==
  /\ pc[r] = "decision" /\ Current(r, f)
  /\ Insert(r, DecisionLog(f, r))
  /\ reviewed' = [reviewed EXCEPT ![r] = @ \cup {f}]
  /\ top' = [top EXCEPT ![r] = @ \ {f}]
  /\ pc' = [pc EXCEPT ![r] = "check"]
  /\ UNCHANGED <<inputVars, asOf, todo, detailed, calls, met, crashes>>

\* The report is returned and the session commits.
Finish(r) ==
  /\ pc[r] = "check" /\ top[r] = {}
  /\ Commit(r)
  /\ pc' = [pc EXCEPT ![r] = "done"]
  /\ UNCHANGED <<inputVars, asOf, todo, detailed, top, reviewed, calls, met,
                 crashes>>

\* Fault: the exception leaves the transaction open.
LoseInTransaction(r) ==
  /\ \/ pc[r] = "model"
     \/ aborted[r] /\ (todo[r] # <<>> \/ top[r] # {})
  /\ pc' = [pc EXCEPT ![r] = "lost"]
  /\ UNCHANGED <<storeVars, inputVars, asOf, todo, detailed, top, reviewed, calls,
                 met, crashes>>

\* An exception leaves run(): the model's call fails, or a statement does,
\* which is certain once the transaction is aborted.  The session rolls back.
Lose(r) ==
  /\ \/ pc[r] = "model"
     \/ aborted[r] /\ (todo[r] # <<>> \/ top[r] # {})
  /\ Rollback(r)
  /\ pc' = [pc EXCEPT ![r] = "lost"]
  /\ UNCHANGED <<inputVars, asOf, todo, detailed, top, reviewed, calls, met,
                 crashes>>

\* The process is killed or the connection breaks; a commit on its way may
\* still have reached the server.
Crash(r) ==
  /\ r \in Open /\ crashes < MaxCrashes
  /\ crashes' = crashes + 1
  /\ \/ Rollback(r)
     \/ pc[r] = "check" /\ top[r] = {} /\ Commit(r)
  /\ pc' = [pc EXCEPT ![r] = "lost"]
  /\ UNCHANGED <<inputVars, asOf, todo, detailed, top, reviewed, calls, met>>

Work(r) ==
  \/ Analyze(r) \/ LogPrediction(r) \/ Rank(r) \/ ModelAnswers(r) \/ Finish(r) \/ Lose(r)
  \/ \E f \in Fixtures :
       Skip(r, f) \/ CallModel(r, f) \/ SaveValueBets(r, f) \/ SaveDecisionLog(r, f)

\* All runs of the day are over.
Over == (\A r \in Runs : pc[r] \in {"done", "lost"}) /\ UNCHANGED vars

Next ==
  \/ \E r \in Runs : Start(r) \/ Work(r) \/ LogFails(r) \/ Crash(r)
  \/ \E f \in Fixtures : RefreshInputs(f)
  \/ Over

Spec == Init /\ [][Next]_vars

\* A started run goes on: every statement and every model call ends, with a
\* result or with an exception (the model client times out).  A statement that
\* waits for another transaction need not fail.
LiveSpec == Spec /\ \A r \in Runs : WF_vars(Work(r))
-----------------------------------------------------------------------------
(* Properties *)

Rows ==
  [table : {"predictions", "value_bets"}, id : Fixtures \X Versions]
    \cup [table : {"decision_logs"}, id : Fixtures \X Runs]

\* Types of the variables.
TypeOK ==
  /\ rows \subseteq Rows
  /\ pending \in [Runs -> SUBSET Rows]
  /\ aborted \in [Runs -> BOOLEAN]
  /\ inputs \in [Fixtures -> Versions]
  /\ pc \in [Runs -> {"idle", "analyze", "log", "check", "model", "bets", "decision",
                      "done", "lost"}]
  /\ asOf \in [Runs -> [Fixtures -> Versions]]
  /\ todo \in [Runs -> Seq(Fixtures)]
  /\ detailed \in [Runs -> UNION {[D -> Versions] : D \in SUBSET Fixtures}]
  /\ top \in [Runs -> SUBSET Fixtures]
  /\ \A r \in Runs : Cardinality(top[r]) <= MaxPicks
  /\ reviewed \in [Runs -> SUBSET Fixtures]
  /\ calls \subseteq Runs \X Fixtures
  /\ crashes \in 0..MaxCrashes /\ refreshes \in 0..MaxRefreshes

Overlap(r, q) == {r, q} \in met

\* The module comments of daily_job.py and daily_top_picks.py promise that a
\* fixture already reviewed is skipped; two overlapping runs do send it twice.
\* What the cost guard does achieve: a second call for a fixture is possible
\* only if the two runs were open at the same time or one of them was lost
\* with the review it had paid for.
SecondReviewNeedsOverlapOrLoss ==
  \A c, d \in calls :
    c[2] = d[2] /\ c # d =>
      Overlap(c[1], d[1]) \/ "lost" \in {pc[c[1]], pc[d[1]]}

\* A fixture is bet on only with the review that explains the bet: whatever
\* interleaving, failure or crash, no committed value bet is without a
\* committed decision log of its fixture.
BetsAreExplained ==
  \A row \in rows :
    row.table = "value_bets" => LogsOf(row.id[1], rows) # {}

\* A run that reports success has what it reports: each review it counted is
\* in the database.  (The same is not true of the predictions it counted: a
\* statement that fails in the last log call is swallowed, nothing follows it
\* when there is no pick, and the commit is silently a rollback.)
ReportedReviewsAreStored ==
  \A r \in Runs : pc[r] = "done" =>
    \A f \in reviewed[r] : DecisionLog(f, r) \in rows

\* The money goes to the best fixtures first: when a run is done, a fixture
\* it scored better than one it reviewed has a review too, its own or an
\* earlier one.
BestAreReviewedFirst ==
  \A r \in Runs : pc[r] = "done" =>
    \A f \in reviewed[r], g \in Fixtures :
      Best(r, g) > Best(r, f) => LogsOf(g, rows) # {}

\* A started run ends, although runs wait for each other's uncommitted rows
\* and a run that is killed must not block the others.
RunsEnd ==
  \A r \in Runs : (pc[r] = "analyze") ~> (pc[r] \in {"done", "lost"})
=============================================================================

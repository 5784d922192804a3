------------------------------ MODULE PreKickoff ------------------------------
(***************************************************************************)
(* _run_pre_kickoff of app/workers/scheduler_runner.py with the checkpoint   *)
(* resolver, the review it may ask for and the prediction log: one run at a *)
(* time (the pre_kickoff lock; see RunnerLock for when it fails), again and *)
(* again, in one transaction of DecisionStore each, while time passes and   *)
(* the daily job reviews fixtures of its own.                               *)
(*                                                                         *)
(* Completed checkpoints are kept in a file, pre_kickoff_triggers.json,     *)
(* rewritten in place before the transaction commits.  Times are minutes;   *)
(* an analysis is abstracted to the version of the inputs it read, the      *)
(* qualifying selections to whether there is one, and the four refresh      *)
(* calls of a fixture to what they can do to the run: move the kickoff, or  *)
(* fail on the server inside the try that swallows it.                      *)
(***************************************************************************)
EXTENDS DecisionStore, Integers

CONSTANTS
  Fixtures,
  Supported,   \* the fixtures whose competition the whitelist allows
  Kickoff,     \* the kickoff known before the first run
  Moves,       \* by how much the provider may move a kickoff
  Step,        \* granularity of time
  Horizon,     \* bound: the last moment considered
  Inputs,      \* versions of a fixture's analysis inputs
  MaxMoves,    \* bound: kickoffs moved
  MaxFailures  \* bound: kills, lost commits and failing statements

ASSUME SupportedAssumption == Supported \subseteq Fixtures
ASSUME KickoffAssumption == Kickoff \in [Fixtures -> Nat]
ASSUME MovesAssumption == Moves \subseteq Int
ASSUME BoundsAssumption == {Step, Horizon, MaxMoves, MaxFailures} \subseteq Nat

Checkpoints == {"T90", "T60", "T30"}
Keys == Fixtures \X Checkpoints

\* The run's session, and the daily job's.
Runner == "pre_kickoff"
Daily == "daily_job"
ASSUME SessionsAssumption == Sessions = {Runner, Daily}

\* The content of a file whose writer died between truncating and writing.
Torn == {<<"torn", "torn">>}

VARIABLES
  now,
  kickoff,    \* committed kickoffs
  seen,       \* the kickoffs the run's session sees
  file,       \* pre_kickoff_triggers.json
  triggers,   \* the run's copy of it
  pc,         \* where the run is
  startedAt,  \* when the last run started
  due,        \* due_checkpoints: checkpoints, by fixture
  analysis,   \* the analysis at hand: its fixture and the version of its inputs
  left,       \* the fixtures the loop the run is in has still to visit
  failures,   \* kills, lost commits and failing statements so far
  moved,      \* history: fixtures whose kickoff was ever moved
  ever,       \* history: keys completed since the file was last lost
  blemished   \* history: keys whose run failed or did not record them

clockVars == <<now, kickoff, seen, moved>>
runVars == <<pc, startedAt, due, left, triggers, analysis>>
history == <<ever, blemished>>
vars == <<storeVars, clockVars, file, runVars, failures, history>>

\* PreKickoffCheckpointResolver.resolve; "none" for None.
CheckpointAt(minutes) ==
  CASE minutes <= 0 \/ minutes > 90 -> "none"
    [] minutes > 0 /\ minutes <= 30 -> "T30"
    [] minutes > 30 /\ minutes <= 60 -> "T60"
    [] minutes > 60 /\ minutes <= 90 -> "T90"

\* Fault: when the latest checkpoint is completed, a missed one is made up for.
ResolveMissed(minutes, completed) ==
  IF CheckpointAt(minutes) \notin completed THEN CheckpointAt(minutes)
  ELSE IF CheckpointAt(minutes) = "T30" /\ "T60" \notin completed THEN "T60"
  ELSE IF CheckpointAt(minutes) # "T90" /\ "T90" \notin completed THEN "T90"
  ELSE "none"

Resolve(minutes, completed) ==
  IF CheckpointAt(minutes) \in completed THEN "none" ELSE CheckpointAt(minutes)

Completed(f, keys) == {c \in Checkpoints : <<f, c>> \in keys}

Prediction(f, c, v) == [table |-> "predictions", id |-> <<f, c, v>>]
ValueBet(f, c, v) == [table |-> "value_bets", id |-> <<f, c, v>>]
DecisionLog(f, s, t) == [table |-> "decision_logs", id |-> <<f, s, t>>]

Reviewed(f, visible) ==
  \E row \in visible : row.table = "decision_logs" /\ row.id[1] = f

\* The fixtures are visited in the order in which they were listed.
First(f) == f \in left /\ \A g \in left : kickoff[f] <= kickoff[g]

\* The fixture that the run has analysed and not completed yet.
AtHand(f) == analysis # <<>> /\ f = analysis[1]

NoneDue == [f \in {} |-> "none"]

Init ==
  /\ StoreInit
  /\ now = 0 /\ startedAt = -1
  /\ kickoff = Kickoff /\ seen = Kickoff
  /\ file = {} /\ triggers = {}
  /\ pc = "idle" /\ due = NoneDue /\ left = {} /\ analysis = <<>>
  /\ failures = 0
  /\ moved = {} /\ ever = {} /\ blemished = {}

Tick ==
  /\ now + Step <= Horizon
  /\ now' = now + Step
  /\ UNCHANGED <<storeVars, kickoff, seen, moved, file, runVars, failures,
                 history>>

\* The daily job commits a review of f.
DailyReview(f) ==
  /\ ~Reviewed(f, rows)
  /\ rows' = rows \cup {DecisionLog(f, Daily, 0)}
  /\ UNCHANGED <<pending, aborted, clockVars, file, runVars, failures, history>>

\* Fault: a file that does not parse is not caught.
LoadedRaw == file

\* load_triggers: a file that does not parse counts as empty.
Loaded == IF file = Torn THEN {} ELSE file

\* A run starts: list the fixtures of the next 100 minutes, load the file.
Begin ==
  /\ pc = "idle" /\ startedAt < now
  /\ startedAt' = now
  /\ seen' = kickoff
  /\ left' = {f \in Fixtures : now <= kickoff[f] /\ kickoff[f] < now + 100}
  /\ triggers' = Loaded
  /\ due' = NoneDue
  /\ pc' = "resolve"
  /\ UNCHANGED <<storeVars, now, kickoff, moved, analysis, file, failures, history>>

\* complete_checkpoint: the file is rewritten.
Save(keys) ==
  /\ triggers' = triggers \cup keys
  /\ file' = triggers \cup keys
  /\ ever' = ever \cup keys

\* The first loop: what is due for f; nothing for an unsupported competition,
\* whose checkpoint is completed on the spot.
Find(f) ==
  /\ pc = "resolve" /\ First(f)
  /\ LET c == Resolve(kickoff[f] - startedAt, Completed(f, triggers)) IN
       \/ /\ c = "none"
          /\ UNCHANGED <<due, triggers, file, ever>>
       \/ /\ c # "none" /\ f \notin Supported
          /\ Save({<<f, c>>})
          /\ UNCHANGED due
       \/ /\ c # "none" /\ f \in Supported
          /\ due' = [g \in DOMAIN due \cup {f} |-> IF g = f THEN c ELSE due[g]]
          /\ UNCHANGED <<triggers, file, ever>>
  /\ left' = left \ {f}
  /\ UNCHANGED <<storeVars, clockVars, pc, startedAt, analysis, failures, blemished>>

\* A loop over the fixtures that are due is over and the next one starts.
EndLoop(from, to) ==
  /\ pc = from /\ left = {}
  /\ pc' = to
  /\ left' = DOMAIN due
  /\ UNCHANGED <<storeVars, clockVars, file, triggers, startedAt, due, analysis, failures,
                 history>>

\* The refresh calls of f: each swallows what it raises.
Refresh(f) ==
  /\ pc = "refresh" /\ First(f)
  /\ left' = left \ {f}
  /\ \/ UNCHANGED <<storeVars, seen, moved, failures>>
     \/ /\ ~aborted[Runner] /\ Cardinality(moved) < MaxMoves
        /\ \E d \in Moves : seen' = [seen EXCEPT ![f] = @ + d]
        /\ moved' = moved \cup {f}
        /\ UNCHANGED <<storeVars, failures>>
     \/ /\ failures < MaxFailures
        /\ failures' = failures + 1
        /\ StatementFails(Runner)
        /\ UNCHANGED <<seen, moved>>
  /\ UNCHANGED <<now, kickoff, file, pc, startedAt, due, analysis, triggers, history>>

\* The checkpoint of f at the time of the odds request.
StillDue(f) == Resolve(seen[f] - now, Completed(f, triggers))

\* Fault: the completed checkpoints are not looked at again.
RevalidateForgetful ==
  /\ pc = "revalidate" /\ (DOMAIN due = {} \/ ~aborted[Runner])
  /\ LET at(f) == Resolve(seen[f] - now, {})
         eligible == {f \in DOMAIN due : at(f) # "none"}
     IN due' = [f \in eligible |-> at(f)]
  /\ pc' = "odds"
  /\ UNCHANGED <<storeVars, clockVars, file, triggers, startedAt, left, analysis,
                 failures, history>>

\* "Re-read fixture clocks and eligibility immediately before the first odds
\* request": request_time is now.
Revalidate ==
  /\ pc = "revalidate" /\ (DOMAIN due = {} \/ ~aborted[Runner])
  /\ due' = [f \in {g \in DOMAIN due : StillDue(g) # "none"} |-> StillDue(f)]
  /\ pc' = "odds"
  /\ UNCHANGED <<storeVars, clockVars, file, triggers, startedAt, left, analysis, failures,
                 history>>

\* sync_odds_today for the due fixtures, not called if there is none.
FetchOdds ==
  /\ pc = "odds"
  /\ pc' = "log"
  /\ left' = DOMAIN due
  /\ UNCHANGED <<storeVars, clockVars, file, triggers, startedAt, due, analysis, failures,
                 history>>

\* analyze_detailed and log_fixture_predictions for f.  What the log raises
\* for a selection is swallowed: the row is missing, or the transaction is
\* aborted with it.
Log(f) ==
  /\ pc = "log" /\ First(f) /\ ~aborted[Runner]
  /\ \E v \in Inputs :
       /\ analysis' = <<f, v>>
       /\ \/ /\ InsertIfAbsent(Runner, {Prediction(f, due[f], v)})
             /\ UNCHANGED <<failures, blemished>>
          \/ /\ failures < MaxFailures
             /\ failures' = failures + 1
             /\ (UNCHANGED storeVars \/ StatementFails(Runner))
             /\ blemished' = blemished \cup {<<f, due[f]>>}
  /\ pc' = "review"
  /\ UNCHANGED <<clockVars, file, triggers, startedAt, due, left, ever>>

\* No selection qualifies, or the fixture has a decision log.
NoReview(f) ==
  /\ pc = "review" /\ AtHand(f)
  /\ pc' = "complete"
  /\ UNCHANGED <<storeVars, clockVars, file, triggers, startedAt, due, left, analysis,
                 failures, history>>

\* review_detailed: the model answers, the bets and the log are inserted.
Review(f) ==
  /\ pc = "review" /\ AtHand(f) /\ ~aborted[Runner]
  /\ ~Reviewed(f, Sees(Runner))
  /\ pending' = [pending EXCEPT ![Runner] = @ \cup
       ({ValueBet(f, due[f], analysis[2]), DecisionLog(f, Runner, startedAt)} \ rows)]
  /\ pc' = "complete"
  /\ UNCHANGED <<rows, aborted, clockVars, file, triggers, startedAt, due, left, analysis,
                 failures, history>>

\* complete_checkpoint(triggers, fixture_key, now_ts), the transaction open.
Complete(f) ==
  /\ pc = "complete" /\ AtHand(f)
  /\ Save({<<f, due[f]>>})
  /\ left' = left \ {f} /\ analysis' = <<>>
  /\ pc' = "log"
  /\ UNCHANGED <<storeVars, clockVars, startedAt, due, failures, blemished>>

\* Fault: the checkpoint is completed in a finally.
CompleteAnyway(f) ==
  /\ \/ pc = "log" /\ First(f)
     \/ pc = "review" /\ AtHand(f)
  /\ Save({<<f, due[f]>>})
  /\ left' = left \ {f} /\ analysis' = <<>>
  /\ pc' = "log"
  /\ UNCHANGED <<storeVars, clockVars, startedAt, due, failures, blemished>>

\* An exception while f is worked on (the analysis, the model, any statement
\* of an aborted transaction): logged, f stays open, the next one follows.  A
\* statement that fails at the server aborts the transaction as well: see Log.
GiveUp(f) ==
  /\ \/ pc = "log" /\ First(f)
     \/ pc = "review" /\ AtHand(f)
  /\ left' = left \ {f} /\ analysis' = <<>>
  /\ pc' = "log"
  /\ UNCHANGED <<storeVars, clockVars, file, triggers, startedAt, due, failures,
                 history>>

\* Nothing of the run stays in memory.
Close ==
  /\ pc' = "idle"
  /\ due' = NoneDue /\ left' = {} /\ triggers' = {} /\ analysis' = <<>>
  /\ seen' = Kickoff

\* The session's block ends and commits; of an aborted transaction nothing is
\* left, and nobody is told.
Finish ==
  /\ pc = "log" /\ left = {}
  /\ Commit(Runner)
  /\ kickoff' = IF aborted[Runner] THEN kickoff ELSE seen
  /\ blemished' = blemished \cup
       (IF aborted[Runner] THEN {<<f, due[f]>> : f \in DOMAIN due} ELSE {})
  /\ Close
  /\ UNCHANGED <<now, moved, file, startedAt, failures, ever>>

\* Every key the run has set out to complete is in doubt from here on.
Spoil ==
  /\ Rollback(Runner)
  /\ blemished' = blemished \cup {<<f, due[f]>> : f \in DOMAIN due}
  /\ Close

\* An exception leaves the run: the odds request, or the first statement of an
\* aborted transaction outside a try.
Lose ==
  /\ DOMAIN due # {}
  /\ pc = "odds" \/ (pc = "revalidate" /\ aborted[Runner])
  /\ Spoil
  /\ UNCHANGED <<now, kickoff, moved, startedAt, file, failures, ever>>

\* The run is killed, or its connection breaks at the commit.
Crash ==
  /\ pc # "idle" /\ failures < MaxFailures
  /\ failures' = failures + 1
  /\ Spoil
  /\ UNCHANGED <<now, kickoff, moved, startedAt, file, ever>>

\* The run is killed between truncating the file and writing it.
CrashSaving(f) ==
  /\ failures < MaxFailures
  /\ \/ pc = "complete" /\ AtHand(f)
     \/ /\ pc = "resolve" /\ First(f) /\ f \notin Supported
        /\ Resolve(kickoff[f] - startedAt, Completed(f, triggers)) # "none"
  /\ failures' = failures + 1
  /\ file' = Torn /\ ever' = {}
  /\ Spoil
  /\ UNCHANGED <<now, kickoff, moved, startedAt>>

Run ==
  \/ \E f \in Fixtures :
       Find(f) \/ Refresh(f) \/ Log(f) \/ NoReview(f) \/ Review(f)
         \/ Complete(f) \/ GiveUp(f)
  \/ EndLoop("resolve", "refresh") \/ EndLoop("refresh", "revalidate")
  \/ Revalidate \/ FetchOdds \/ Finish \/ Lose

\* The horizon is reached and no run is left.
Over == now + Step > Horizon /\ startedAt = now /\ pc = "idle" /\ UNCHANGED vars

Next ==
  \/ Over \/ Tick \/ Begin \/ Run \/ Crash
  \/ \E f \in Fixtures : DailyReview(f) \/ CrashSaving(f)

Spec == Init /\ [][Next]_vars
-----------------------------------------------------------------------------
(* Properties *)

Rows ==
  [table : {"predictions", "value_bets"}, id : Fixtures \X Checkpoints \X Inputs]
    \cup [table : {"decision_logs"}, id : Fixtures \X Sessions \X (0..Horizon)]

\* Types of the variables.
TypeOK ==
  /\ rows \subseteq Rows
  /\ pending \in [Sessions -> SUBSET Rows] /\ aborted \in [Sessions -> BOOLEAN]
  /\ now \in 0..Horizon /\ startedAt \in -1..Horizon
  /\ kickoff \in [Fixtures -> Int] /\ seen \in [Fixtures -> Int]
  /\ file \subseteq Keys \/ file = Torn
  /\ triggers \subseteq Keys
  /\ pc \in {"idle", "resolve", "refresh", "revalidate", "odds", "log", "review",
             "complete"}
  /\ DOMAIN due \subseteq Supported /\ \A f \in DOMAIN due : due[f] \in Checkpoints
  /\ left \subseteq Fixtures /\ analysis \in (Fixtures \X Inputs) \cup {<<>>}
  /\ failures \in 0..MaxFailures /\ moved \subseteq Fixtures
  /\ ever \subseteq Keys /\ blemished \subseteq Keys

Later(c) == CASE c = "T90" -> {"T60", "T30"} [] c = "T60" -> {"T30"} [] OTHER -> {}

\* The decisions the step adds to the run's transaction.
Decided ==
  {row \in pending'[Runner] \ pending[Runner] : row.table = "predictions"}

\* "missed windows are never backdated" (_run_pre_kickoff): a decision is
\* recorded for a checkpoint only while the checkpoint's window is open.
NeverBackdated ==
  [][\A row \in Decided : CheckpointAt(seen[row.id[1]] - now) = row.id[2]]_vars

\* What revalidating does achieve, for a run of any duration: the decisions of
\* a fixture whose kickoff stands are made in the order of its checkpoints,
\* whatever failed, was retried or was lost in between.
CheckpointsInOrder ==
  [][\A row \in Decided : row.id[1] \notin moved =>
       \A old \in Sees(Runner) :
         old.table = "predictions" /\ old.id[1] = row.id[1]
           => old.id[2] \notin Later(row.id[2])]_vars

\* A completed checkpoint is not worked on again, although kickoffs move back
\* and forth between windows, until the file is lost to a kill in the middle
\* of writing it.
CompletedIsNotRepeated ==
  pc \in {"log", "review", "complete"} =>
    \A f \in left : <<f, due[f]>> \notin ever

\* A checkpoint the file calls completed has its decision in the database,
\* unless a run that set out to complete it was killed, lost its transaction
\* or swallowed the failure of its log: the file is written first, and those
\* checkpoints are never decided.
CompletedIsRecorded ==
  pc = "idle" /\ file # Torn =>
    \A k \in file \ blemished :
      k[1] \in Supported => \E v \in Inputs : Prediction(k[1], k[2], v) \in rows
=============================================================================

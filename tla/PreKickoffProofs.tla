--------------------------- MODULE PreKickoffProofs ---------------------------
(***************************************************************************)
(* For any fixtures, kickoffs, moves of kickoffs, runs and failures: what    *)
(* the file of completed checkpoints is worth.  A checkpoint it calls        *)
(* completed is not worked on again (until the file is lost) and has its      *)
(* decision in the database (unless the run that completed it is blemished), *)
(* and the decisions of a fixture whose kickoff stands follow the order of    *)
(* its checkpoints.                                                         *)
(***************************************************************************)
EXTENDS PreKickoff, TLAPS

\* The run is among the fixtures that were due at the odds request.
Working == {"log", "review", "complete"}

\* Where the run is and what it holds.
RunInv ==
  /\ startedAt <= now /\ (pc # "idle" => startedAt >= 0)
  /\ pc \notin Working => pending[Runner] = {}
  /\ pc = "idle" => ~aborted[Runner]
  /\ analysis # <<>> <=> pc \in {"review", "complete"}
  /\ analysis # <<>> => analysis[1] \in left
  /\ pc \in Working => left \subseteq DOMAIN due

\* The file, the run's copy of it and the keys completed since it was last lost.
FileInv ==
  /\ ever \subseteq Loaded
  /\ pc # "idle" => triggers = Loaded

\* Nothing that is due at the odds request has been completed before.
DueInv == pc = "odds" => \A f \in DOMAIN due : <<f, due[f]>> \notin ever

Predicted(k, visible) == \E v \in Inputs : Prediction(k[1], k[2], v) \in visible

\* The run has completed k and has yet to commit its decision.
Uncommitted(k) ==
  /\ pc \in Working
  /\ k[1] \in DOMAIN due /\ k[2] = due[k[1]]
  /\ aborted[Runner] \/ Predicted(k, pending[Runner])

\* A completed checkpoint has its decision, or will have it with the commit.
RecordInv ==
  \A k \in Loaded \ blemished :
    k[1] \in Supported => Predicted(k, rows) \/ Uncommitted(k)

\* So will the checkpoint the run is about to complete.
AnalysisInv ==
  pc \in {"review", "complete"} =>
    \A f \in Fixtures : AtHand(f) =>
      \/ <<f, due[f]>> \in blemished
      \/ aborted[Runner] \/ Predicted(<<f, due[f]>>, Sees(Runner))

\* Kickoffs that were never moved are the ones known at first.
KickoffInv == \A f \in Fixtures \ moved : kickoff[f] = Kickoff[f] /\ seen[f] = Kickoff[f]

\* c was the checkpoint of f at some time up to n.
Was(f, c, n) == \E t \in 0..n : c = CheckpointAt(Kickoff[f] - t)

PredictionsOf(f) == {row \in Sees(Runner) : row.table = "predictions" /\ row.id[1] = f}

\* What is decided was due, and what is due now is not past.
OrderInv ==
  \A f \in Fixtures \ moved :
    /\ \A row \in PredictionsOf(f) : Was(f, row.id[2], now)
    /\ pc \in {"odds"} \cup Working /\ f \in DOMAIN due =>
         /\ Was(f, due[f], now)
         /\ \A row \in PredictionsOf(f) : row.id[2] \notin Later(due[f])

PreKickoffInv ==
  /\ TypeOK /\ RunInv
  /\ FileInv /\ DueInv /\ CompletedIsNotRepeated
  /\ RecordInv /\ AnalysisInv
  /\ KickoffInv /\ OrderInv

-----------------------------------------------------------------------------
(* The operators *)

LEMMA Parameters ==
  /\ Sessions = {Runner, Daily} /\ Runner # Daily
  /\ Supported \subseteq Fixtures
  /\ Kickoff \in [Fixtures -> Int]
  /\ Moves \subseteq Int /\ Step \in Nat /\ Horizon \in Nat
  /\ MaxMoves \in Nat /\ MaxFailures \in Nat
<1>1. Kickoff \in [Fixtures -> Nat] /\ Nat \subseteq Int
  BY KickoffAssumption DEF KickoffAssumption
<1>2. Kickoff \in [Fixtures -> Int]
  BY <1>1
<1> QED
  BY <1>2, SessionsAssumption, SupportedAssumption, MovesAssumption, BoundsAssumption
  DEF Runner, Daily, SessionsAssumption, SupportedAssumption, MovesAssumption, BoundsAssumption

\* As time passes a fixture goes from T90 over T60 to T30, and never back.
LEMMA WindowsFollow ==
  /\ \A m \in Int : CheckpointAt(m) \in Checkpoints \cup {"none"}
  /\ \A m, n \in Int : m >= n => CheckpointAt(m) \notin Later(CheckpointAt(n))
  /\ \A c : c \notin Later(c)
<1>1. \A m \in Int : CheckpointAt(m) \in Checkpoints \cup {"none"}
  BY DEF CheckpointAt, Checkpoints
<1>2. \A m, n \in Int : m >= n => CheckpointAt(m) \notin Later(CheckpointAt(n))
  BY DEF CheckpointAt, Later
<1>3. \A c : c \notin Later(c)
  BY DEF Later
<1> QED BY <1>1, <1>2, <1>3

\* A checkpoint is due when its window is open and it is not completed.
LEMMA Resolution ==
  ASSUME NEW f, NEW m \in Int, NEW keys, Resolve(m, Completed(f, keys)) # "none"
  PROVE  LET c == Resolve(m, Completed(f, keys)) IN
         c = CheckpointAt(m) /\ c \in Checkpoints /\ <<f, c>> \notin keys
<1>1. CheckpointAt(m) \notin Completed(f, keys) /\ CheckpointAt(m) # "none"
  BY DEF Resolve
<1>2. CheckpointAt(m) \in Checkpoints
  BY <1>1, WindowsFollow
<1> QED BY <1>1, <1>2 DEF Resolve, Completed

LEMMA RowFacts ==
  /\ \A f \in Fixtures, c \in Checkpoints, v \in Inputs :
       /\ Prediction(f, c, v) \in Rows /\ Prediction(f, c, v).table = "predictions"
       /\ Prediction(f, c, v).id[1] = f /\ Prediction(f, c, v).id[2] = c
       /\ ValueBet(f, c, v) \in Rows /\ ValueBet(f, c, v).table # "predictions"
  /\ \A f \in Fixtures, s \in Sessions, t \in 0..Horizon :
       DecisionLog(f, s, t) \in Rows /\ DecisionLog(f, s, t).table # "predictions"
<1>1. \A f \in Fixtures, c \in Checkpoints, v \in Inputs :
       /\ Prediction(f, c, v) \in Rows /\ Prediction(f, c, v).table = "predictions"
       /\ Prediction(f, c, v).id[1] = f /\ Prediction(f, c, v).id[2] = c
       /\ ValueBet(f, c, v) \in Rows /\ ValueBet(f, c, v).table # "predictions"
  BY DEF Prediction, ValueBet, Rows
<1>2. \A f \in Fixtures, s \in Sessions, t \in 0..Horizon :
       DecisionLog(f, s, t) \in Rows /\ DecisionLog(f, s, t).table # "predictions"
  BY DEF DecisionLog, Rows
<1> QED BY <1>1, <1>2

\* A set of keys is never what a torn file holds.
LEMMA KeysNotTorn == \A keys \in SUBSET Keys : keys # Torn
<1>1. "torn" \notin Checkpoints
  BY DEF Checkpoints
<1>2. <<"torn", "torn">> \notin Keys
  BY <1>1 DEF Keys
<1> QED BY <1>2 DEF Torn

LEMMA LoadedTyped ==
  ASSUME TypeOK
  PROVE  Loaded \subseteq Keys
BY DEF TypeOK, Loaded

\* Which steps there are.
LEMMA Steps ==
  ASSUME Next
  PROVE  \/ UNCHANGED vars \/ Tick \/ Begin
         \/ EndLoop("resolve", "refresh") \/ EndLoop("refresh", "revalidate")
         \/ Revalidate \/ FetchOdds \/ Finish \/ Lose \/ Crash
         \/ \E f \in Fixtures :
              \/ Find(f) \/ Refresh(f) \/ Log(f) \/ NoReview(f) \/ Review(f) \/ Complete(f)
              \/ GiveUp(f) \/ DailyReview(f) \/ CrashSaving(f)
BY DEF Next, Run, Over
-----------------------------------------------------------------------------
(* Types *)

LEMMA StoreTyped ==
  ASSUME TypeOK, NEW new \in SUBSET Rows
  PROVE  /\ InsertIfAbsent(Runner, new) \/ StatementFails(Runner) \/ Commit(Runner)
              \/ Rollback(Runner) \/ UNCHANGED storeVars
            => /\ rows' \subseteq Rows /\ pending' \in [Sessions -> SUBSET Rows]
               /\ aborted' \in [Sessions -> BOOLEAN]
         /\ [pending EXCEPT ![Runner] = @ \cup (new \ rows)] \in [Sessions -> SUBSET Rows]
<1>1. rows \subseteq Rows /\ pending \in [Sessions -> SUBSET Rows]
      /\ aborted \in [Sessions -> BOOLEAN] /\ Runner \in Sessions
  BY Parameters DEF TypeOK
<1>2. [pending EXCEPT ![Runner] = @ \cup (new \ rows)] \in [Sessions -> SUBSET Rows]
  BY <1>1
<1>3. [pending EXCEPT ![Runner] = {}] \in [Sessions -> SUBSET Rows]
  BY <1>1
<1>4. [aborted EXCEPT ![Runner] = TRUE] \in [Sessions -> BOOLEAN]
      /\ [aborted EXCEPT ![Runner] = FALSE] \in [Sessions -> BOOLEAN]
  BY <1>1
<1>5. rows \cup pending[Runner] \subseteq Rows
  BY <1>1
<1> HIDE DEF Rows
<1> QED
  BY <1>1, <1>2, <1>3, <1>4, <1>5
  DEF InsertIfAbsent, StatementFails, Commit, Rollback, storeVars

LEMMA ClosedTyped ==
  ASSUME TypeOK, Close
  PROVE  /\ seen' \in [Fixtures -> Int] /\ triggers' \subseteq Keys /\ left' \subseteq Fixtures
         /\ DOMAIN due' \subseteq Supported /\ \A f \in DOMAIN due' : due'[f] \in Checkpoints
         /\ pc' = "idle" /\ analysis' = <<>>
BY Parameters DEF Close, NoneDue

LEMMA TypesKept == TypeOK /\ RunInv /\ [Next]_vars => TypeOK'
<1> SUFFICES ASSUME TypeOK, RunInv, [Next]_vars PROVE TypeOK'
  OBVIOUS
<1> USE Parameters
<1>a. /\ DOMAIN due \subseteq Fixtures /\ \A f \in DOMAIN due : <<f, due[f]>> \in Keys
      /\ NoneDue \in [{} -> Checkpoints] /\ DOMAIN NoneDue = {}
  BY DEF TypeOK, Keys, NoneDue
<1>b. pc \in Working => \A f \in left : f \in DOMAIN due
  BY DEF RunInv
<1>1. CASE UNCHANGED vars
  BY <1>1 DEF TypeOK, vars, storeVars, clockVars, runVars, history
<1>2. CASE Tick
  BY <1>2 DEF Tick, TypeOK, storeVars, runVars, history
<1>3. CASE Begin
  BY <1>3, <1>a, LoadedTyped DEF Begin, TypeOK, storeVars, history
<1>4. CASE EndLoop("resolve", "refresh") \/ EndLoop("refresh", "revalidate") \/ FetchOdds
  BY <1>4, <1>a DEF EndLoop, FetchOdds, TypeOK, storeVars, clockVars, history
<1>5. CASE Revalidate
  <2>1. \A f \in DOMAIN due : StillDue(f) # "none" => StillDue(f) \in Checkpoints
    <3> SUFFICES ASSUME NEW f \in DOMAIN due, StillDue(f) # "none"
                 PROVE  StillDue(f) \in Checkpoints
      OBVIOUS
    <3>1. seen[f] - now \in Int
      BY <1>a DEF TypeOK
    <3> QED BY <3>1, Resolution DEF StillDue
  <2> QED BY <1>5, <2>1 DEF Revalidate, TypeOK, storeVars, clockVars, history
<1>6. ASSUME NEW f \in Fixtures, Find(f)
      PROVE  TypeOK'
  <2> DEFINE c == Resolve(kickoff[f] - startedAt, Completed(f, triggers))
  <2>1. c # "none" => c \in Checkpoints /\ <<f, c>> \in Keys
    <3>1. kickoff[f] - startedAt \in Int
      BY DEF TypeOK
    <3> QED BY <3>1, Resolution DEF Keys
  <2> HIDE DEF c
  <2>2. \/ UNCHANGED <<due, triggers, file, ever>>
        \/ c # "none" /\ Save({<<f, c>>}) /\ UNCHANGED due
        \/ /\ c # "none" /\ f \in Supported
           /\ due' = [g \in DOMAIN due \cup {f} |-> IF g = f THEN c ELSE due[g]]
           /\ UNCHANGED <<triggers, file, ever>>
    BY <1>6 DEF Find, c
  <2>3. DOMAIN due' \subseteq Supported /\ \A g \in DOMAIN due' : due'[g] \in Checkpoints
    BY <2>1, <2>2 DEF TypeOK, Save
  <2>4. triggers' \subseteq Keys /\ ever' \subseteq Keys /\ (file' \subseteq Keys \/ file' = Torn)
    BY <2>1, <2>2 DEF TypeOK, Save
  <2> QED
    BY <1>6, <2>3, <2>4 DEF Find, TypeOK, storeVars, clockVars
<1>7. ASSUME NEW f \in Fixtures, Refresh(f)
      PROVE  TypeOK'
  <2>1. rows' \subseteq Rows /\ pending' \in [Sessions -> SUBSET Rows]
        /\ aborted' \in [Sessions -> BOOLEAN]
    BY <1>7, StoreTyped DEF Refresh
  <2>2. \A d \in Moves : [seen EXCEPT ![f] = @ + d] \in [Fixtures -> Int]
    BY DEF TypeOK
  <2>3. seen' \in [Fixtures -> Int] /\ moved' \subseteq Fixtures /\ failures' \in 0..MaxFailures
    BY <1>7, <2>2, Parameters DEF Refresh, TypeOK
  <2>4. UNCHANGED <<now, kickoff, file, pc, startedAt, due, analysis, triggers, history>>
        /\ left' \subseteq left
    BY <1>7 DEF Refresh
  <2> QED BY <2>1, <2>3, <2>4 DEF TypeOK, history
<1>8. ASSUME NEW f \in Fixtures, Log(f)
      PROVE  TypeOK'
  <2>1. PICK v \in Inputs :
          /\ analysis' = <<f, v>>
          /\ \/ /\ InsertIfAbsent(Runner, {Prediction(f, due[f], v)})
                /\ UNCHANGED <<failures, blemished>>
             \/ /\ failures < MaxFailures /\ failures' = failures + 1
                /\ (UNCHANGED storeVars \/ StatementFails(Runner))
                /\ blemished' = blemished \cup {<<f, due[f]>>}
    BY <1>8 DEF Log
  <2>2. f \in DOMAIN due /\ due[f] \in Checkpoints
    BY <1>8, <1>b DEF Log, First, TypeOK, Working
  <2>3. {Prediction(f, due[f], v)} \in SUBSET Rows
    BY <2>2, RowFacts
  <2>4. rows' \subseteq Rows /\ pending' \in [Sessions -> SUBSET Rows]
        /\ aborted' \in [Sessions -> BOOLEAN]
    BY <2>1, <2>3, StoreTyped
  <2>5. blemished' \subseteq Keys /\ failures' \in 0..MaxFailures
    BY <2>1, <2>2, <1>a DEF TypeOK
  <2> QED BY <1>8, <2>1, <2>4, <2>5 DEF Log, TypeOK, clockVars
<1>9. ASSUME NEW f \in Fixtures, NoReview(f) \/ GiveUp(f)
      PROVE  TypeOK'
  BY <1>9 DEF NoReview, GiveUp, TypeOK, storeVars, clockVars, history
<1>10. ASSUME NEW f \in Fixtures, Review(f)
       PROVE  TypeOK'
  <2>1. f \in DOMAIN due /\ due[f] \in Checkpoints /\ analysis[2] \in Inputs
    BY <1>10, <1>b DEF Review, AtHand, RunInv, TypeOK, Working
  <2>2. startedAt \in 0..Horizon
    BY <1>10 DEF Review, RunInv, TypeOK
  <2>3. {ValueBet(f, due[f], analysis[2]), DecisionLog(f, Runner, startedAt)} \in SUBSET Rows
    BY <2>1, <2>2, RowFacts
  <2>4. pending' \in [Sessions -> SUBSET Rows]
    BY <1>10, <2>3, StoreTyped DEF Review
  <2> QED BY <1>10, <2>4 DEF Review, TypeOK, clockVars, history
<1>11. ASSUME NEW f \in Fixtures, Complete(f)
       PROVE  TypeOK'
  <2>1. <<f, due[f]>> \in Keys
    BY <1>11, <1>a, <1>b DEF Complete, AtHand, RunInv, Working
  <2> QED BY <1>11, <2>1 DEF Complete, Save, TypeOK, storeVars, clockVars
<1>12. CASE Finish
  <2>1. rows' \subseteq Rows /\ pending' \in [Sessions -> SUBSET Rows]
        /\ aborted' \in [Sessions -> BOOLEAN]
    BY <1>12, StoreTyped DEF Finish
  <2>2. {<<f, due[f]>> : f \in DOMAIN due} \subseteq Keys
    BY <1>a
  <2>3. blemished' \subseteq Keys
    BY <1>12, <2>2 DEF Finish, TypeOK
  <2>4. kickoff' \in [Fixtures -> Int]
    BY <1>12 DEF Finish, TypeOK
  <2> QED BY <1>12, ClosedTyped, <2>1, <2>3, <2>4 DEF Finish, TypeOK
<1>13. CASE Lose \/ Crash
  <2>1. rows' \subseteq Rows /\ pending' \in [Sessions -> SUBSET Rows]
        /\ aborted' \in [Sessions -> BOOLEAN]
    BY <1>13, StoreTyped DEF Lose, Crash, Spoil
  <2>2. {<<f, due[f]>> : f \in DOMAIN due} \subseteq Keys
    BY <1>a
  <2>3. blemished' \subseteq Keys
    BY <1>13, <2>2 DEF Lose, Crash, Spoil, TypeOK
  <2>4. failures' \in 0..MaxFailures
    BY <1>13 DEF Lose, Crash, TypeOK
  <2> QED BY <1>13, ClosedTyped, <2>1, <2>3, <2>4 DEF Lose, Crash, Spoil, TypeOK
<1>14. ASSUME NEW f \in Fixtures, CrashSaving(f)
       PROVE  TypeOK'
  <2>1. rows' \subseteq Rows /\ pending' \in [Sessions -> SUBSET Rows]
        /\ aborted' \in [Sessions -> BOOLEAN]
    BY <1>14, StoreTyped DEF CrashSaving, Spoil
  <2> QED BY <1>14, <1>a, ClosedTyped, <2>1 DEF CrashSaving, Spoil, TypeOK
<1>15. ASSUME NEW f \in Fixtures, DailyReview(f)
       PROVE  TypeOK'
  <2>1. DecisionLog(f, Daily, 0) \in Rows
    BY RowFacts
  <2> QED BY <1>15, <2>1 DEF DailyReview, TypeOK, clockVars, runVars, history
<1> QED
  BY <1>1, <1>2, <1>3, <1>4, <1>5, <1>6, <1>7, <1>8, <1>9, <1>10, <1>11, <1>12, <1>13, <1>14,
     <1>15, Steps
-----------------------------------------------------------------------------
(* The steps in what they have in common *)

\* What a session's step does to the rows of the run.
LEMMA StoreSteps ==
  ASSUME TypeOK
  PROVE  /\ \A new : InsertIfAbsent(Runner, new) =>
              /\ rows' = rows /\ aborted' = aborted /\ ~aborted[Runner]
              /\ pending'[Runner] = pending[Runner] \cup (new \ rows)
         /\ StatementFails(Runner) =>
              rows' = rows /\ pending'[Runner] = {} /\ aborted'[Runner] /\ ~aborted[Runner]
         /\ Commit(Runner) =>
              /\ rows' = rows \cup pending[Runner]
              /\ pending'[Runner] = {} /\ ~aborted'[Runner]
         /\ Rollback(Runner) =>
              rows' = rows /\ pending'[Runner] = {} /\ ~aborted'[Runner]
<1>1. DOMAIN pending = Sessions /\ DOMAIN aborted = Sessions /\ Runner \in Sessions
  BY Parameters DEF TypeOK
<1> QED BY <1>1 DEF InsertIfAbsent, StatementFails, Commit, Rollback

\* What Review adds is no prediction and stays the run's.
LEMMA ReviewWrites ==
  ASSUME TypeOK, RunInv, NEW f \in Fixtures, Review(f)
  PROVE  /\ rows' = rows /\ aborted' = aborted
         /\ pending[Runner] \subseteq pending'[Runner]
         /\ \A row \in pending'[Runner] \ pending[Runner] : row.table # "predictions"
<1> DEFINE new == {ValueBet(f, due[f], analysis[2]), DecisionLog(f, Runner, startedAt)}
<1>1. DOMAIN pending = Sessions /\ Runner \in Sessions
  BY Parameters DEF TypeOK
<1>2. f \in DOMAIN due /\ due[f] \in Checkpoints /\ analysis[2] \in Inputs
  BY DEF Review, AtHand, RunInv, TypeOK, Working
<1>3. startedAt \in 0..Horizon
  BY Parameters DEF Review, RunInv, TypeOK
<1>4. \A row \in new : row.table # "predictions"
  BY <1>1, <1>2, <1>3, RowFacts
<1> HIDE DEF new
<1>5. pending' = [pending EXCEPT ![Runner] = @ \cup (new \ rows)]
  BY DEF Review, new
<1>6. rows' = rows /\ aborted' = aborted
  BY DEF Review
<1> QED BY <1>1, <1>4, <1>5, <1>6

LEMMA RunKept == TypeOK /\ RunInv /\ [Next]_vars => RunInv'
<1> SUFFICES ASSUME TypeOK, RunInv, [Next]_vars PROVE RunInv'
  OBVIOUS
<1>a. startedAt \in Int /\ now \in Nat /\ Step \in Nat
  BY Parameters DEF TypeOK
<1>1. CASE UNCHANGED vars
  BY <1>1 DEF RunInv, vars, storeVars, clockVars, runVars
<1>2. CASE Tick
  BY <1>2, <1>a DEF Tick, RunInv, storeVars, runVars
<1>3. CASE Begin
  BY <1>3, <1>a DEF Begin, RunInv, storeVars, Working
<1>4. CASE EndLoop("resolve", "refresh") \/ EndLoop("refresh", "revalidate") \/ FetchOdds
  BY <1>4, <1>a DEF EndLoop, FetchOdds, RunInv, storeVars, clockVars, Working
<1>5. CASE Revalidate
  BY <1>5 DEF Revalidate, RunInv, storeVars, clockVars, Working
<1>6. ASSUME NEW f \in Fixtures, Find(f)
      PROVE  RunInv'
  BY <1>6 DEF Find, RunInv, storeVars, clockVars, Working, First
<1>7. ASSUME NEW f \in Fixtures, Refresh(f)
      PROVE  RunInv'
  <2>1. pc = "refresh" /\ pc' = pc /\ startedAt' = startedAt /\ now' = now
        /\ analysis' = analysis /\ left' = left \ {f} /\ due' = due
    BY <1>7 DEF Refresh
  <2>2. pending'[Runner] = {}
    BY <1>7, <2>1, StoreSteps DEF Refresh, storeVars, RunInv, Working
  <2> QED BY <2>1, <2>2 DEF RunInv, Working
<1>8. ASSUME NEW f \in Fixtures, Log(f)
      PROVE  RunInv'
  <2>1. /\ pc = "log" /\ pc' = "review" /\ startedAt' = startedAt /\ now' = now
        /\ left' = left /\ due' = due /\ f \in left
    BY <1>8 DEF Log, First, clockVars
  <2>2. analysis' # <<>> /\ analysis'[1] = f
    BY <1>8 DEF Log
  <2> QED BY <2>1, <2>2 DEF RunInv, Working
<1>9. ASSUME NEW f \in Fixtures, NoReview(f) \/ GiveUp(f) \/ Complete(f)
      PROVE  RunInv'
  BY <1>9 DEF NoReview, GiveUp, Complete, RunInv, storeVars, clockVars, Working
<1>10. ASSUME NEW f \in Fixtures, Review(f)
       PROVE  RunInv'
  BY <1>10 DEF Review, RunInv, clockVars, Working
<1>11. CASE Finish
  <2>1. pending'[Runner] = {} /\ ~aborted'[Runner] /\ startedAt' = startedAt /\ now' = now
    BY <1>11, StoreSteps DEF Finish
  <2> QED BY <1>11, <2>1 DEF Finish, Close, RunInv, Working
<1>12. ASSUME Lose \/ Crash \/ \E f \in Fixtures : CrashSaving(f)
       PROVE  RunInv'
  <2>1. pending'[Runner] = {} /\ ~aborted'[Runner] /\ startedAt' = startedAt /\ now' = now
    BY <1>12, StoreSteps DEF Lose, Crash, CrashSaving, Spoil
  <2>2. Close
    BY <1>12 DEF Lose, Crash, CrashSaving, Spoil
  <2> QED BY <2>1, <2>2 DEF Close, RunInv, Working
<1>13. ASSUME NEW f \in Fixtures, DailyReview(f)
       PROVE  RunInv'
  BY <1>13 DEF DailyReview, RunInv, clockVars, runVars
<1> QED
  BY <1>1, <1>2, <1>3, <1>4, <1>5, <1>6, <1>7, <1>8, <1>9, <1>10, <1>11, <1>12, <1>13, Steps
-----------------------------------------------------------------------------
(* The file of completed checkpoints *)

\* What a step adds to the file is a checkpoint that was found and is not
\* supported, or the one of the fixture at hand; a file that is lost takes its
\* history with it.
LEMMA FileSteps ==
  ASSUME TypeOK, RunInv, FileInv, [Next]_vars
  PROVE  \/ /\ UNCHANGED <<file, ever>> /\ Loaded' = Loaded
            /\ pc' # "idle" => triggers' = Loaded
         \/ file' = Torn /\ ever' = {} /\ Loaded' = {} /\ pc' = "idle"
         \/ \E f \in Fixtures, c \in Checkpoints :
              /\ triggers = Loaded /\ triggers' = Loaded \cup {<<f, c>>}
              /\ Loaded' = Loaded \cup {<<f, c>>} /\ file' # Torn
              /\ ever' = ever \cup {<<f, c>>}
              /\ \/ pc = "resolve" /\ f \notin Supported
                 \/ Complete(f) /\ f \in DOMAIN due /\ c = due[f]
<1>1. ASSUME UNCHANGED <<file, ever>>
      PROVE  Loaded' = Loaded
  BY <1>1 DEF Loaded
<1>2. ASSUME NEW f \in Fixtures, NEW c \in Checkpoints, Save({<<f, c>>}), pc # "idle"
      PROVE  /\ triggers = Loaded /\ triggers' = Loaded \cup {<<f, c>>}
             /\ Loaded' = Loaded \cup {<<f, c>>} /\ file' # Torn
             /\ ever' = ever \cup {<<f, c>>}
  <2>1. triggers = Loaded /\ Loaded \subseteq Keys /\ <<f, c>> \in Keys
    BY <1>2, LoadedTyped DEF FileInv, Keys
  <2>2. file' = Loaded \cup {<<f, c>>} /\ file' \in SUBSET Keys
    BY <1>2, <2>1 DEF Save
  <2>3. file' # Torn
    BY <2>2, KeysNotTorn
  <2> QED BY <1>2, <2>1, <2>2, <2>3 DEF Save, Loaded
<1>3. ASSUME NEW f \in Fixtures, Find(f)
      PROVE  \/ UNCHANGED <<file, ever>> /\ triggers' = triggers /\ pc # "idle"
             \/ \E c \in Checkpoints : pc = "resolve" /\ f \notin Supported /\ Save({<<f, c>>})
  <2> DEFINE c == Resolve(kickoff[f] - startedAt, Completed(f, triggers))
  <2>1. c # "none" => c \in Checkpoints
    <3>1. kickoff[f] - startedAt \in Int
      BY DEF TypeOK
    <3> QED BY <3>1, Resolution
  <2> HIDE DEF c
  <2>2. UNCHANGED <<file, ever, triggers>> \/ (c # "none" /\ f \notin Supported /\ Save({<<f, c>>}))
    BY <1>3 DEF Find, c
  <2> QED BY <1>3, <2>1, <2>2 DEF Find
<1>4. ASSUME NEW f \in Fixtures, Complete(f)
      PROVE  f \in DOMAIN due /\ due[f] \in Checkpoints /\ Save({<<f, due[f]>>}) /\ pc # "idle"
  BY <1>4 DEF Complete, AtHand, RunInv, Working, TypeOK
<1>5. ASSUME NEW f \in Fixtures, CrashSaving(f)
      PROVE  file' = Torn /\ ever' = {} /\ Loaded' = {} /\ pc' = "idle"
  BY <1>5 DEF CrashSaving, Spoil, Close, Loaded
<1>6. \/ UNCHANGED <<file, ever>> /\ (pc' = "idle" \/ Begin \/ (triggers' = triggers /\ pc # "idle"))
      \/ \E f \in Fixtures : Find(f) \/ Complete(f) \/ CrashSaving(f)
  BY Steps
  DEF vars, Tick, Begin, EndLoop, Revalidate, FetchOdds, Finish, Lose, Crash, Refresh, Log,
      NoReview, Review, GiveUp, DailyReview, Spoil, Close, runVars, history
<1>7. ASSUME UNCHANGED <<file, ever>>, Begin \/ (triggers' = triggers /\ pc # "idle")
      PROVE  triggers' = Loaded
  BY <1>7 DEF Begin, FileInv
<1> QED BY <1>1, <1>2, <1>3, <1>4, <1>5, <1>6, <1>7

LEMMA FileKept ==
  TypeOK /\ RunInv /\ FileInv /\ [Next]_vars => FileInv'
BY FileSteps DEF FileInv

LEMMA DueKept ==
  TypeOK /\ RunInv /\ FileInv /\ DueInv /\ [Next]_vars => DueInv'
<1> SUFFICES ASSUME TypeOK, RunInv, FileInv, DueInv, [Next]_vars, pc' = "odds"
             PROVE  \A f \in DOMAIN due' : <<f, due'[f]>> \notin ever'
  BY DEF DueInv
<1>1. CASE Revalidate
  <2>1. ever \subseteq triggers /\ ever' = ever
    BY <1>1 DEF Revalidate, FileInv, history
  <2>2. due' = [f \in {g \in DOMAIN due : StillDue(g) # "none"} |-> StillDue(f)]
    BY <1>1 DEF Revalidate
  <2>3. ASSUME NEW f \in DOMAIN due, StillDue(f) # "none"
        PROVE  <<f, StillDue(f)>> \notin ever
    <3>1. seen[f] - now \in Int
      BY Parameters DEF TypeOK
    <3> QED BY <2>1, <2>3, <3>1, Resolution DEF StillDue
  <2> QED BY <2>1, <2>2, <2>3
<1>2. CASE pc = "odds" /\ UNCHANGED <<due, ever>>
  BY <1>2 DEF DueInv
<1> QED
  BY <1>1, <1>2, Steps
  DEF vars, Tick, Begin, EndLoop, FetchOdds, Finish, Lose, Crash, Find, Refresh, Log, NoReview,
      Review, Complete, GiveUp, DailyReview, CrashSaving, Spoil, Close, runVars, history

\* The steps among the fixtures that are due.
LEMMA WorkSteps ==
  ASSUME [Next]_vars, pc' \in Working
  PROVE  /\ due' = due
         /\ \/ FetchOdds
            \/ pc \in Working /\ left' \subseteq left /\ UNCHANGED ever
            \/ \E f \in Fixtures : Complete(f)
BY Steps
DEF vars, Tick, Begin, EndLoop, Revalidate, FetchOdds, Finish, Lose, Crash, Find, Refresh, Log,
    NoReview, Review, Complete, GiveUp, DailyReview, CrashSaving, Spoil, Close, runVars, history,
    Working

LEMMA NotRepeatedKept ==
  /\ TypeOK /\ RunInv /\ DueInv /\ CompletedIsNotRepeated /\ [Next]_vars
  => CompletedIsNotRepeated'
<1> SUFFICES ASSUME RunInv, DueInv, CompletedIsNotRepeated, [Next]_vars, pc' \in Working
             PROVE  \A f \in left' : <<f, due'[f]>> \notin ever'
  BY DEF CompletedIsNotRepeated, Working
<1>1. CASE FetchOdds
  BY <1>1 DEF FetchOdds, DueInv, history
<1>2. CASE pc \in Working /\ left' \subseteq left /\ UNCHANGED ever
  BY <1>2, WorkSteps DEF CompletedIsNotRepeated, Working
<1>3. ASSUME NEW f \in Fixtures, Complete(f)
      PROVE  \A g \in left' : <<g, due'[g]>> \notin ever'
  <2>1. left' = left \ {f} /\ ever' = ever \cup {<<f, due[f]>>} /\ due' = due
    BY <1>3 DEF Complete, Save
  <2>2. \A g \in left : <<g, due[g]>> \notin ever
    BY <1>3 DEF Complete, CompletedIsNotRepeated
  <2> QED BY <2>1, <2>2
<1> QED BY <1>1, <1>2, <1>3, WorkSteps
-----------------------------------------------------------------------------
(* The decisions of completed checkpoints *)

LEMMA NothingIsTakenBack ==
  ASSUME TypeOK, [Next]_vars
  PROVE  rows \subseteq rows' /\ blemished \subseteq blemished'
<1>1. rows \subseteq rows'
  BY Steps, StoreSteps
  DEF vars, Tick, Begin, EndLoop, Revalidate, FetchOdds, Finish, Lose, Crash, Find, Refresh, Log,
      NoReview, Review, Complete, GiveUp, DailyReview, CrashSaving, Spoil, Close, storeVars
<1>2. blemished \subseteq blemished'
  BY Steps
  DEF vars, Tick, Begin, EndLoop, Revalidate, FetchOdds, Finish, Lose, Crash, Find, Refresh, Log,
      NoReview, Review, Complete, GiveUp, DailyReview, CrashSaving, Spoil, Close, history
<1> QED BY <1>1, <1>2

\* The run keeps what it has decided, or is told that it has lost it, until it
\* commits it or blemishes everything that was due.
LEMMA WorkKeepsOrEnds ==
  ASSUME TypeOK, RunInv, [Next]_vars, pc \in Working
  PROVE  \/ /\ pc' \in Working /\ due' = due
            /\ \/ aborted'[Runner]
               \/ aborted'[Runner] = aborted[Runner] /\ pending[Runner] \subseteq pending'[Runner]
         \/ \A f \in DOMAIN due : <<f, due[f]>> \in blemished'
         \/ ~aborted[Runner] /\ rows' = rows \cup pending[Runner]
<1> DEFINE Keeps == \/ aborted'[Runner]
                    \/ /\ aborted'[Runner] = aborted[Runner]
                       /\ pending[Runner] \subseteq pending'[Runner]
<1>1. ASSUME NEW f \in Fixtures, Log(f)
      PROVE  pc' \in Working /\ due' = due /\ Keeps
  BY <1>1, StoreSteps DEF Log, storeVars, Working
<1>2. ASSUME NEW f \in Fixtures, Review(f)
      PROVE  pc' \in Working /\ due' = due /\ Keeps
  <2>1. aborted' = aborted /\ pending[Runner] \subseteq pending'[Runner]
    BY <1>2, ReviewWrites
  <2> QED BY <1>2, <2>1 DEF Review, Working
<1>3. CASE Finish
  BY <1>3, StoreSteps DEF Finish
<1>4. ASSUME Lose \/ Crash \/ \E f \in Fixtures : CrashSaving(f)
      PROVE  \A f \in DOMAIN due : <<f, due[f]>> \in blemished'
  BY <1>4 DEF Lose, Crash, CrashSaving, Spoil
<1>5. ASSUME \E f \in Fixtures : NoReview(f) \/ Complete(f) \/ GiveUp(f) \/ DailyReview(f)
      PROVE  pc' \in Working /\ due' = due /\ Keeps
  BY <1>5 DEF NoReview, Complete, GiveUp, DailyReview, storeVars, runVars, Working
<1>6. CASE UNCHANGED vars \/ Tick
  BY <1>6 DEF vars, Tick, storeVars, runVars
<1>7. ~Begin /\ ~EndLoop("resolve", "refresh") /\ ~EndLoop("refresh", "revalidate")
      /\ ~Revalidate /\ ~FetchOdds /\ \A f \in Fixtures : ~Find(f) /\ ~Refresh(f)
  BY DEF Begin, EndLoop, Revalidate, FetchOdds, Find, Refresh, Working
<1> QED BY <1>1, <1>2, <1>3, <1>4, <1>5, <1>6, <1>7, Steps

LEMMA RecordKept ==
  /\ TypeOK /\ RunInv /\ FileInv /\ AnalysisInv /\ RecordInv /\ [Next]_vars
  => RecordInv'
<1> SUFFICES ASSUME TypeOK, RunInv, FileInv, AnalysisInv, RecordInv, [Next]_vars,
                    NEW k \in Loaded' \ blemished', k[1] \in Supported
             PROVE  Predicted(k, rows') \/ Uncommitted(k)'
  BY DEF RecordInv
<1>1. rows \subseteq rows' /\ k \notin blemished
  BY NothingIsTakenBack
<1>2. \A more, some : some \subseteq more /\ Predicted(k, some) => Predicted(k, more)
  BY DEF Predicted
<1>3. CASE k \in Loaded /\ Predicted(k, rows)
  BY <1>1, <1>2, <1>3
<1>4. CASE k \in Loaded /\ Uncommitted(k)
  <2>1. k = <<k[1], due[k[1]]>>
    BY <1>4, LoadedTyped DEF Uncommitted, Keys
  <2>2. ~(\A f \in DOMAIN due : <<f, due[f]>> \in blemished')
    BY <1>4, <2>1 DEF Uncommitted
  <2>3. CASE ~aborted[Runner] /\ rows' = rows \cup pending[Runner]
    BY <1>2, <1>4, <2>3 DEF Uncommitted
  <2>4. CASE /\ pc' \in Working /\ due' = due
             /\ \/ aborted'[Runner]
                \/ aborted'[Runner] = aborted[Runner] /\ pending[Runner] \subseteq pending'[Runner]
    BY <1>2, <1>4, <2>4 DEF Uncommitted
  <2> QED BY <1>4, <2>2, <2>3, <2>4, WorkKeepsOrEnds DEF Uncommitted
<1>5. CASE k \notin Loaded
  <2>1. PICK f \in Fixtures, c \in Checkpoints :
          /\ Loaded' = Loaded \cup {<<f, c>>}
          /\ (pc = "resolve" /\ f \notin Supported) \/ (Complete(f) /\ f \in DOMAIN due /\ c = due[f])
    BY <1>5, FileSteps
  <2>2. k = <<f, c>> /\ Complete(f) /\ f \in DOMAIN due /\ c = due[f]
    BY <1>5, <2>1
  <2>3. aborted[Runner] \/ Predicted(k, rows \cup pending[Runner])
    BY <1>1, <2>2 DEF AnalysisInv, Complete, Sees
  <2>4. pc' \in Working /\ due' = due /\ UNCHANGED storeVars
    BY <2>2 DEF Complete, Working
  <2> QED BY <2>2, <2>3, <2>4 DEF Uncommitted, Predicted, storeVars
<1> QED BY <1>1, <1>3, <1>4, <1>5 DEF RecordInv

LEMMA AnalysisKept == TypeOK /\ RunInv /\ AnalysisInv /\ [Next]_vars => AnalysisInv'
<1> DEFINE Recorded(f) == \/ <<f, due[f]>> \in blemished
                          \/ aborted[Runner] \/ Predicted(<<f, due[f]>>, Sees(Runner))
<1> SUFFICES ASSUME TypeOK, RunInv, AnalysisInv, [Next]_vars, pc' \in {"review", "complete"},
                    NEW f \in Fixtures, AtHand(f)'
             PROVE  Recorded(f)'
  BY DEF AnalysisInv
<1>1. ASSUME NEW g \in Fixtures, Log(g)
      PROVE  Recorded(f)'
  <2>1. PICK v \in Inputs :
          /\ analysis' = <<g, v>>
          /\ \/ InsertIfAbsent(Runner, {Prediction(g, due[g], v)})
             \/ blemished' = blemished \cup {<<g, due[g]>>}
    BY <1>1 DEF Log
  <2>2. f = g /\ due' = due
    BY <1>1, <2>1 DEF AtHand, Log
  <2>3. CASE blemished' = blemished \cup {<<g, due[g]>>}
    BY <2>2, <2>3
  <2>4. CASE InsertIfAbsent(Runner, {Prediction(g, due[g], v)})
    <3>1. Prediction(g, due[g], v) \in Sees(Runner)'
      BY <2>4, StoreSteps DEF Sees
    <3> QED BY <2>2, <3>1 DEF Predicted
  <2> QED BY <2>1, <2>3, <2>4
<1>2. CASE /\ pc \in {"review", "complete"} /\ analysis' = analysis /\ due' = due
           /\ aborted'[Runner] = aborted[Runner] /\ pending[Runner] \subseteq pending'[Runner]
  <2>1. Recorded(f)
    BY <1>2 DEF AnalysisInv, AtHand
  <2> QED BY <1>2, <2>1, NothingIsTakenBack DEF Predicted, Sees
<1>3. ASSUME NEW g \in Fixtures, Review(g)
      PROVE  /\ pc \in {"review", "complete"} /\ analysis' = analysis /\ due' = due
             /\ aborted'[Runner] = aborted[Runner] /\ pending[Runner] \subseteq pending'[Runner]
  BY <1>3, ReviewWrites DEF Review
<1>4. ASSUME UNCHANGED vars \/ Tick \/ \E g \in Fixtures : NoReview(g) \/ DailyReview(g)
      PROVE  /\ pc \in {"review", "complete"} /\ analysis' = analysis /\ due' = due
             /\ aborted'[Runner] = aborted[Runner] /\ pending[Runner] \subseteq pending'[Runner]
  BY <1>4 DEF vars, Tick, NoReview, DailyReview, storeVars, runVars
<1> QED
  BY <1>1, <1>2, <1>3, <1>4, Steps
  DEF Begin, EndLoop, Revalidate, FetchOdds, Finish, Lose, Crash, Find, Refresh, Complete, GiveUp,
      CrashSaving, Spoil, Close
-----------------------------------------------------------------------------
(* The order of the checkpoints *)

LEMMA KickoffKept ==
  /\ TypeOK /\ KickoffInv /\ [Next]_vars
  => KickoffInv' /\ moved \subseteq moved' /\ now \in Nat /\ now' \in Nat /\ now <= now'
<1> SUFFICES ASSUME TypeOK, KickoffInv, [Next]_vars
             PROVE  KickoffInv' /\ moved \subseteq moved' /\ now \in Nat /\ now' \in Nat /\ now <= now'
  OBVIOUS
<1>1. UNCHANGED now \/ now' = now + Step
  BY Steps
  DEF vars, Tick, Begin, EndLoop, Revalidate, FetchOdds, Finish, Lose, Crash, Find, Refresh, Log,
      NoReview, Review, Complete, GiveUp, DailyReview, CrashSaving, Spoil, Close, clockVars
<1>2. ASSUME NEW f \in Fixtures, Refresh(f)
      PROVE  KickoffInv' /\ moved \subseteq moved'
  <2>1. kickoff' = kickoff /\ (UNCHANGED <<seen, moved>> \/ moved' = moved \cup {f})
    BY <1>2 DEF Refresh
  <2>2. \A g \in Fixtures \ {f} : seen'[g] = seen[g]
    BY <1>2 DEF Refresh, TypeOK
  <2> QED BY <2>1, <2>2 DEF KickoffInv
<1>3. ASSUME Finish \/ Lose \/ Crash \/ \E f \in Fixtures : CrashSaving(f)
      PROVE  KickoffInv' /\ moved \subseteq moved'
  <2>1. seen' = Kickoff /\ moved' = moved /\ (kickoff' = kickoff \/ kickoff' = seen)
    BY <1>3 DEF Finish, Lose, Crash, CrashSaving, Spoil, Close
  <2> QED BY <2>1 DEF KickoffInv
<1>4. ASSUME kickoff' = kickoff, moved' = moved, seen' = seen \/ seen' = kickoff
      PROVE  KickoffInv' /\ moved \subseteq moved'
  BY <1>4 DEF KickoffInv
<1>5. \/ kickoff' = kickoff /\ moved' = moved /\ (seen' = seen \/ seen' = kickoff)
      \/ Finish \/ Lose \/ Crash \/ \E f \in Fixtures : Refresh(f) \/ CrashSaving(f)
  BY Steps
  DEF vars, Tick, Begin, EndLoop, Revalidate, FetchOdds, Find, Log, NoReview, Review, Complete,
      GiveUp, DailyReview, clockVars
<1>6. now \in Nat /\ Step \in Nat
  BY Parameters DEF TypeOK
<1> QED BY <1>1, <1>2, <1>3, <1>4, <1>5, <1>6

\* Decisions are recorded one at a time, for what is due.
LEMMA OnlyLogDecides ==
  ASSUME TypeOK, RunInv, [Next]_vars, NEW row,
         row \in (Sees(Runner)' \ Sees(Runner)) \cup (pending'[Runner] \ pending[Runner]),
         row.table = "predictions"
  PROVE  \E f \in Fixtures :
           /\ pc = "log" /\ pc' = "review" /\ due' = due /\ f \in DOMAIN due
           /\ row.id[1] = f /\ row.id[2] = due[f]
<1>1. ASSUME NEW f \in Fixtures, Log(f)
      PROVE  /\ pc = "log" /\ pc' = "review" /\ due' = due /\ f \in DOMAIN due
             /\ row.id[1] = f /\ row.id[2] = due[f]
  <2>1. f \in DOMAIN due /\ due[f] \in Checkpoints
    BY <1>1 DEF Log, First, RunInv, TypeOK, Working
  <2>2. PICK v \in Inputs :
          \/ InsertIfAbsent(Runner, {Prediction(f, due[f], v)})
          \/ UNCHANGED storeVars \/ StatementFails(Runner)
    BY <1>1 DEF Log
  <2>3. row = Prediction(f, due[f], v)
    BY <2>2, StoreSteps DEF Sees, storeVars
  <2> QED BY <1>1, <2>1, <2>3, RowFacts DEF Log
<1>2. ASSUME NEW f \in Fixtures, Review(f)
      PROVE  FALSE
  BY <1>2, ReviewWrites DEF Sees
<1>3. ASSUME NEW f \in Fixtures, DailyReview(f)
      PROVE  FALSE
  <2>1. rows' = rows \cup {DecisionLog(f, Daily, 0)} /\ pending' = pending
    BY <1>3 DEF DailyReview
  <2>2. DecisionLog(f, Daily, 0).table # "predictions"
    BY Parameters, RowFacts
  <2> QED BY <2>1, <2>2 DEF Sees
<1>4. CASE Finish \/ Lose \/ Crash \/ \E f \in Fixtures : CrashSaving(f) \/ Refresh(f)
  BY <1>4, StoreSteps DEF Finish, Lose, Crash, CrashSaving, Refresh, Spoil, Sees, storeVars
<1>5. ~UNCHANGED storeVars
  BY DEF storeVars, Sees
<1> QED
  BY <1>1, <1>2, <1>3, <1>4, <1>5, Steps
  DEF vars, Tick, Begin, EndLoop, Revalidate, FetchOdds, Find, NoReview, Complete, GiveUp

LEMMA OrderKept ==
  TypeOK /\ RunInv /\ KickoffInv /\ OrderInv /\ [Next]_vars => OrderInv'
<1> SUFFICES ASSUME TypeOK, RunInv, KickoffInv, OrderInv, [Next]_vars,
                    NEW f \in Fixtures \ moved'
             PROVE  /\ \A row \in PredictionsOf(f)' : Was(f, row.id[2], now')
                    /\ pc' \in {"odds"} \cup Working /\ f \in DOMAIN due' =>
                         /\ Was(f, due'[f], now')
                         /\ \A row \in PredictionsOf(f)' : row.id[2] \notin Later(due'[f])
  BY DEF OrderInv
<1>1. f \notin moved /\ now \in Nat /\ now' \in Nat /\ now <= now'
  BY KickoffKept
<1>2. \A c : Was(f, c, now) => Was(f, c, now')
  BY <1>1 DEF Was
<1>3. ASSUME NEW row \in PredictionsOf(f)'
      PROVE  \/ row \in PredictionsOf(f)
             \/ pc = "log" /\ pc' = "review" /\ due' = due /\ f \in DOMAIN due /\ row.id[2] = due[f]
  BY OnlyLogDecides DEF PredictionsOf
<1>4. ASSUME NEW row \in PredictionsOf(f)'
      PROVE  Was(f, row.id[2], now')
  BY <1>1, <1>2, <1>3, <1>4 DEF OrderInv, Working
<1>5. CASE pc \in {"odds"} \cup Working /\ due' = due
  <2>1. f \in DOMAIN due => Was(f, due'[f], now')
    BY <1>1, <1>2, <1>5 DEF OrderInv
  <2>2. f \in DOMAIN due => \A row \in PredictionsOf(f)' : row.id[2] \notin Later(due'[f])
    BY <1>1, <1>3, <1>5, WindowsFollow DEF OrderInv
  <2> QED BY <1>4, <1>5, <2>1, <2>2
<1>6. CASE Revalidate
  <2>1. /\ due' = [g \in {g \in DOMAIN due : StillDue(g) # "none"} |-> StillDue(g)]
        /\ now' = now /\ pc = "revalidate"
    BY <1>6 DEF Revalidate, clockVars
  <2>2. ASSUME f \in DOMAIN due'
        PROVE  due'[f] = CheckpointAt(Kickoff[f] - now)
    <3>1. StillDue(f) # "none" /\ due'[f] = StillDue(f) /\ seen[f] - now \in Int
      BY <2>1, <2>2 DEF TypeOK
    <3>2. StillDue(f) = CheckpointAt(seen[f] - now)
      BY <3>1, Resolution DEF StillDue
    <3> QED BY <1>1, <3>1, <3>2 DEF KickoffInv
  <2>3. f \in DOMAIN due' => Was(f, due'[f], now')
    BY <1>1, <2>1, <2>2 DEF Was
  <2>4. ASSUME f \in DOMAIN due', NEW row \in PredictionsOf(f)'
        PROVE  row.id[2] \notin Later(due'[f])
    <3>1. PICK t \in 0..now : row.id[2] = CheckpointAt(Kickoff[f] - t)
      BY <1>4, <2>1, <2>4 DEF Was
    <3>2. Kickoff[f] - t \in Int /\ Kickoff[f] - now \in Int /\ Kickoff[f] - t >= Kickoff[f] - now
      BY <1>1, Parameters
    <3> QED BY <2>2, <2>4, <3>1, <3>2, WindowsFollow
  <2> QED BY <1>4, <2>3, <2>4
<1>7. pc' \in {"odds"} \cup Working =>
        Revalidate \/ (pc \in {"odds"} \cup Working /\ due' = due)
  BY Steps, ZenonT(40)
  DEF vars, Tick, Begin, EndLoop, FetchOdds, Finish, Lose, Crash, Find, Refresh, Log, NoReview,
      Review, Complete, GiveUp, DailyReview, CrashSaving, Spoil, Close, runVars, Working
<1> QED BY <1>4, <1>5, <1>6, <1>7
-----------------------------------------------------------------------------
(* Theorems *)

LEMMA PreKickoffStarts == Init => PreKickoffInv
<1> SUFFICES ASSUME Init PROVE PreKickoffInv
  OBVIOUS
<1>1. /\ rows = {} /\ pending = [s \in Sessions |-> {}] /\ aborted = [s \in Sessions |-> FALSE]
      /\ pending[Runner] = {} /\ ~aborted[Runner]
  BY Parameters DEF Init, StoreInit
<1>2. pending \in [Sessions -> SUBSET Rows] /\ aborted \in [Sessions -> BOOLEAN]
  BY <1>1
<1>3. TypeOK
  BY <1>1, <1>2, Parameters DEF Init, TypeOK, NoneDue
<1>4. Loaded = {}
  BY DEF Init, Loaded
<1>5. RunInv
  <2>1. pc = "idle" /\ analysis = <<>> /\ startedAt <= now
    BY DEF Init
  <2> QED BY <1>1, <2>1 DEF RunInv, Working
<1>6. FileInv /\ DueInv /\ CompletedIsNotRepeated /\ RecordInv /\ AnalysisInv
  BY <1>4 DEF Init, FileInv, DueInv, CompletedIsNotRepeated, RecordInv, AnalysisInv
<1>7. KickoffInv /\ OrderInv
  BY <1>1 DEF Init, KickoffInv, OrderInv, PredictionsOf, Sees, Working
<1> QED BY <1>3, <1>5, <1>6, <1>7 DEF PreKickoffInv

\* The invariant the theorems below rest on: what the run, its file and its
\* transaction know of each other.
THEOREM PreKickoffInductive == Spec => []PreKickoffInv
<1>1. PreKickoffInv /\ [Next]_vars => PreKickoffInv'
  BY TypesKept, RunKept, FileKept, DueKept, NotRepeatedKept, RecordKept, AnalysisKept,
     KickoffKept, OrderKept DEF PreKickoffInv
<1> QED BY <1>1, PreKickoffStarts, PTL DEF Spec

\* Every variable of _run_pre_kickoff has its type.
THEOREM PreKickoffTyped == Spec => []TypeOK
<1>1. PreKickoffInv => TypeOK
  BY DEF PreKickoffInv
<1> QED BY <1>1, PreKickoffInductive, PTL

\* A checkpoint the file calls completed is not worked on again, however
\* kickoffs move between windows.
THEOREM NotRepeated == Spec => []CompletedIsNotRepeated
<1>1. PreKickoffInv => CompletedIsNotRepeated
  BY DEF PreKickoffInv
<1> QED BY <1>1, PreKickoffInductive, PTL

\* A checkpoint the file calls completed has its decision in the database,
\* unless the run that completed it failed or did not log it.
THEOREM CompletedRecorded == Spec => []CompletedIsRecorded
<1>1. PreKickoffInv => CompletedIsRecorded
  <2> SUFFICES ASSUME PreKickoffInv, pc = "idle", file # Torn, NEW k \in file \ blemished,
                      k[1] \in Supported
               PROVE  \E v \in Inputs : Prediction(k[1], k[2], v) \in rows
    BY DEF CompletedIsRecorded
  <2>1. k \in Loaded \ blemished /\ ~Uncommitted(k)
    BY DEF Loaded, Uncommitted, Working
  <2> QED BY <2>1 DEF PreKickoffInv, RecordInv, Predicted
<1> QED BY <1>1, PreKickoffInductive, PTL

\* The decisions of a fixture whose kickoff stands follow its checkpoints,
\* although the checkpoint is resolved before the odds request and decided
\* after it, in a run of any duration.
THEOREM InOrder == Spec => CheckpointsInOrder
<1> DEFINE Ordered == \A row \in Decided : row.id[1] \notin moved =>
                        \A old \in Sees(Runner) :
                          old.table = "predictions" /\ old.id[1] = row.id[1]
                            => old.id[2] \notin Later(row.id[2])
<1>1. PreKickoffInv /\ [Next]_vars => [Ordered]_vars
  <2> SUFFICES ASSUME PreKickoffInv, [Next]_vars,
                      NEW row \in Decided, row.id[1] \notin moved, NEW old \in Sees(Runner),
                      old.table = "predictions", old.id[1] = row.id[1]
               PROVE  old.id[2] \notin Later(row.id[2])
    OBVIOUS
  <2>1. PICK f \in Fixtures : /\ pc = "log" /\ f \in DOMAIN due
                             /\ row.id[1] = f /\ row.id[2] = due[f]
    BY OnlyLogDecides DEF Decided, PreKickoffInv
  <2>2. old \in PredictionsOf(f)
    BY <2>1 DEF PredictionsOf
  <2> QED BY <2>1, <2>2 DEF PreKickoffInv, OrderInv, Working
<1> QED BY <1>1, PreKickoffInductive, PTL DEF Spec, CheckpointsInOrder
=============================================================================

------------------------------ MODULE Backfill ------------------------------
(***************************************************************************)
(* ApiFootballBackfill and LeagueSeasonBackfill: a plan of units (the days   *)
(* of a closed interval, or the league/season pairs of a grid) is synced    *)
(* unit by unit, each in a session of its own, and after each commit a      *)
(* checkpoint file says what the next run of the same plan may leave out.   *)
(* The dated program writes the last day only: everything before it in the  *)
(* plan counts as done.  The grid program writes the set of finished pairs. *)
(* The file is truncated and filled in place; one that does not parse reads *)
(* as no checkpoint.  Nothing locks it, so two runs share it.               *)
(***************************************************************************)
EXTENDS Naturals, Sequences

CONSTANTS
  Runners,       \* processes that run a backfill, one after another
  DatedPlans,    \* plans of ApiFootballBackfill: consecutive days (numbers)
  GridPlans,     \* plans of LeagueSeasonBackfill: sequences of pairs
  MaxStarts,     \* bound: runs started
  MaxInterrupts, \* bound: runs that fail or are killed
  Missing, Torn  \* the file does not exist; it does not parse

Plans == DatedPlans \cup GridPlans
UnitsOf(plan) == {plan[i] : i \in DOMAIN plan}
Units == UNION {UnitsOf(plan) : plan \in Plans}

ASSUME PlansAssumption ==
  /\ Plans \subseteq Seq(Units) \ {<<>>}
  /\ \A plan \in Plans : \A i, j \in DOMAIN plan : plan[i] = plan[j] => i = j
  /\ \A plan \in DatedPlans : \A i \in DOMAIN plan :
       plan[i] \in Nat /\ plan[i] = plan[1] + i - 1
ASSUME BackfillBounds == {MaxStarts, MaxInterrupts} \subseteq Nat

VARIABLES
  file,       \* the checkpoint: Missing, Torn, [plan, last] or [plan, completed]
  synced,     \* units whose sync has been committed
  runner,     \* of each process: [at, plan, done]
  starts,     \* runs started so far
  interrupts  \* runs failed or killed so far

backfillVars == <<file, synced, runner, starts, interrupts>>

Idle == [at |-> "idle", plan |-> <<>>, done |-> {}]

\* The unit the run is at: the first of its plan that it has not left out and
\* not put behind it.
Current(r, unit) ==
  \E i \in DOMAIN runner[r].plan :
    /\ unit = runner[r].plan[i] /\ unit \notin runner[r].done
    /\ \A j \in 1..(i - 1) : runner[r].plan[j] \in runner[r].done

AllDone(r) == UnitsOf(runner[r].plan) \subseteq runner[r].done

BackfillInit ==
  /\ file = Missing
  /\ synced = {}
  /\ runner = [r \in Runners |-> Idle]
  /\ starts = 0
  /\ interrupts = 0

\* What a checkpoint lets a run of the plan leave out, whichever plan wrote it:
\* the days up to the last one, or the completed pairs.
Covered(plan, checkpoint) ==
  IF plan \in DatedPlans
  THEN {day \in UnitsOf(plan) : day <= checkpoint.last}
  ELSE checkpoint.completed

\* Fault: the checkpoint of another interval is used.
ClaimedByAny(plan, checkpoint) ==
  IF checkpoint \in {Missing, Torn} \/ checkpoint.plan \notin DatedPlans
       \/ plan \notin DatedPlans
  THEN {} ELSE Covered(plan, checkpoint)

\* resume_start and completed_pairs: only a checkpoint of the same interval or
\* grid counts, and one that does not parse is none.
Claimed(plan, checkpoint) ==
  IF checkpoint \in {Missing, Torn} THEN {}
  ELSE IF checkpoint.plan = plan THEN Covered(plan, checkpoint) ELSE {}

\* write_checkpoint and write_league_checkpoint.
Checkpoint(plan, done, unit) ==
  IF plan \in DatedPlans THEN [plan |-> plan, last |-> unit]
  ELSE [plan |-> plan, completed |-> done \cup {unit}]

StartBackfill(r, plan, restart) ==
  /\ runner[r].at = "idle" /\ starts < MaxStarts
  /\ starts' = starts + 1
  /\ runner' = [runner EXCEPT ![r] =
       [at |-> "sync", plan |-> plan, done |-> IF restart THEN {} ELSE Claimed(plan, file)]]
  /\ UNCHANGED <<file, synced, interrupts>>

\* sync_today or sync_league_season in its own session, committed.
SyncUnit(r) ==
  /\ runner[r].at = "sync"
  /\ \E unit \in Units : Current(r, unit) /\ synced' = synced \cup {unit}
  /\ runner' = [runner EXCEPT ![r].at = "truncate"]
  /\ UNCHANGED <<file, starts, interrupts>>

\* write_text opens the file for writing, which empties it ...
TruncateCheckpoint(r) ==
  /\ runner[r].at = "truncate"
  /\ file' = Torn
  /\ runner' = [runner EXCEPT ![r].at = "fill"]
  /\ UNCHANGED <<synced, starts, interrupts>>

\* ... and fills it.
FillCheckpoint(r) ==
  /\ runner[r].at = "fill"
  /\ \E unit \in Units :
       /\ Current(r, unit)
       /\ file' = Checkpoint(runner[r].plan, runner[r].done, unit)
       /\ runner' = [runner EXCEPT ![r] =
            [runner[r] EXCEPT !.at = "sync", !.done = @ \cup {unit}]]
  /\ UNCHANGED <<synced, starts, interrupts>>

EndBackfill(r) ==
  /\ runner[r].at = "sync" /\ AllDone(r)
  /\ runner' = [runner EXCEPT ![r] = Idle]
  /\ UNCHANGED <<file, synced, starts, interrupts>>

\* The provider or the database fails in a sync, which is rolled back, or the
\* process is killed anywhere, between a commit and its checkpoint included.
InterruptBackfill(r) ==
  /\ runner[r].at # "idle" /\ interrupts < MaxInterrupts
  /\ interrupts' = interrupts + 1
  /\ runner' = [runner EXCEPT ![r] = Idle]
  /\ UNCHANGED <<file, synced, starts>>

BackfillNext ==
  \E r \in Runners :
    \/ \E plan \in Plans, restart \in BOOLEAN : StartBackfill(r, plan, restart)
    \/ SyncUnit(r) \/ TruncateCheckpoint(r) \/ FillCheckpoint(r)
    \/ EndBackfill(r) \/ InterruptBackfill(r)

BackfillSpec == BackfillInit /\ [][BackfillNext]_backfillVars
-----------------------------------------------------------------------------
(* Properties *)

\* Types of the variables.
BackfillTypeOK ==
  /\ file \in {Missing, Torn} \cup [plan : DatedPlans, last : Units]
                \cup [plan : GridPlans, completed : SUBSET Units]
  /\ synced \subseteq Units
  /\ runner \in [Runners -> [at : {"idle", "sync", "truncate", "fill"},
                             plan : Plans \cup {<<>>}, done : SUBSET Units]]
  /\ starts \in 0..MaxStarts /\ interrupts \in 0..MaxInterrupts

\* A resumed backfill leaves no hole: whatever failed, was killed, restarted
\* or ran at the same time, each unit a checkpoint claims, or a run has left
\* out or put behind it, has been committed.
CheckpointNeverSkips ==
  /\ \A plan \in Plans : Claimed(plan, file) \subseteq synced
  /\ \A r \in Runners : runner[r].at # "idle" =>
       UnitsOf(runner[r].plan) \cap runner[r].done \subseteq synced

=============================================================================

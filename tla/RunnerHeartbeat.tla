-------------------------- MODULE RunnerHeartbeat ---------------------------
(***************************************************************************)
(* What main() of app/workers/scheduler_runner.py leaves in heartbeat.json  *)
(* and what the production_recovery command concludes from it.              *)
(*                                                                         *)
(* One file holds the last record of every command.  A run that ends, also  *)
(* one that found its command's lock taken, loads the file and writes all   *)
(* of it back with its own record replaced; nothing serialises runs of      *)
(* different commands.  write_text truncates the file before it fills it,   *)
(* and a reader of a truncated file sees no record at all.                  *)
(*                                                                         *)
(* A slot is one trigger of one command (a schedule, or somebody by hand)   *)
(* and runs once a day, if it is used at all.  The command lock is atomic   *)
(* here (its races are RunnerLock's); a killed run leaves it behind for a   *)
(* while.                                                                   *)
(* Left out: health_check's 24-hour clean-up and the run counters.          *)
(***************************************************************************)
EXTENDS Integers, FiniteSets

CONSTANTS
  Slots,
  CommandOf,      \* the command a slot runs
  FailureReason,  \* failure_reason in data/run_status.json; "unknown" without
                  \* that file, which nothing in this runner creates
  Interruptible,  \* bound: slots whose run may be interrupted
  MaxDay,         \* bound: days
  MaxKills,       \* bound: runs killed or interrupted
  Unrecorded

Commands == {"daily_job", "production_recovery", "other"}

ASSUME CommandOfAssumption == CommandOf \in [Slots -> Commands]
ASSUME BoundsAssumption == MaxDay \in Nat \ {0} /\ MaxKills \in Nat

Record == [day : 1..MaxDay, status : {"success", "failed"}]
ASSUME UnrecordedAssumption == Unrecorded \notin Record

VARIABLES
  day,        \* today
  heartbeat,  \* the file: the last record of each command, or Unrecorded
  torn,       \* the file is truncated at the moment
  locked,     \* commands whose lock file exists
  stage,         \* where each slot's run is
  ran,        \* the last day each slot was started (after MaxDay: it is not used)
  owns,       \* the run has its command's lock
  status,     \* the status the run will report
  loaded,     \* the records the run loaded to write back
  done,       \* days whose production pipeline ran to its end
  attempts,   \* recovery reruns of the pipeline per day
  badSkips,   \* history: days recovery was skipped without a reason
  blurred,    \* history: days whose records are not to be trusted: a run was
              \* killed, interrupted or refused its lock, two runs met in the
              \* file, or recovery decided before the day's daily run was over
  unearned,   \* history: days on which a daily run was refused its lock or was
              \* interrupted
  kills       \* runs killed or interrupted

heartbeatVars ==
  <<day, heartbeat, torn, locked, stage, ran, owns, status, loaded, done,
    attempts, badSkips, blurred, unearned, kills>>

NoRecords == [c \in Commands |-> Unrecorded]

\* _load_heartbeat: an unreadable file counts as an empty one.
Load == IF torn THEN NoRecords ELSE heartbeat

HeartbeatInit ==
  /\ day = 1
  /\ heartbeat = NoRecords
  /\ torn = FALSE
  /\ locked = {}
  /\ stage = [s \in Slots |-> "idle"]
  /\ \E unused \in SUBSET Slots :
       ran = [s \in Slots |-> IF s \in unused THEN MaxDay + 1 ELSE 0]
  /\ owns = [s \in Slots |-> FALSE]
  /\ status = [s \in Slots |-> "success"]
  /\ loaded = [s \in Slots |-> NoRecords]
  /\ done = {}
  /\ attempts = [d \in 1..MaxDay |-> 0]
  /\ badSkips = {}
  /\ blurred = {} /\ unearned = {}
  /\ kills = 0

Goto(s, from, to) ==
  /\ stage[s] = from
  /\ stage' = [stage EXCEPT ![s] = to]

\* The trigger fires; the start time of the record is taken here.
Trigger(s) ==
  /\ Goto(s, "idle", "starting")
  /\ ran[s] < day
  /\ ran' = [ran EXCEPT ![s] = day]
  /\ status' = [status EXCEPT ![s] = "success"]
  /\ UNCHANGED <<day, heartbeat, torn, locked, owns, loaded, done, attempts,
                 badSkips, blurred, unearned, kills>>

AcquireLock(s) ==
  /\ Goto(s, "starting", IF CommandOf[s] = "production_recovery"
                         THEN "gates" ELSE "working")
  /\ CommandOf[s] \notin locked
  /\ locked' = locked \cup {CommandOf[s]}
  /\ owns' = [owns EXCEPT ![s] = TRUE]
  /\ UNCHANGED <<day, heartbeat, torn, ran, status, loaded, done, attempts,
                 badSkips, blurred, unearned, kills>>

\* Fault: a status of its own that no reader knows.
SkipLockedAsSkipped(s) ==
  /\ Goto(s, "starting", "loading")
  /\ CommandOf[s] \in locked
  /\ status' = [status EXCEPT ![s] = "skipped"]
  /\ UNCHANGED <<day, heartbeat, torn, locked, ran, owns, loaded, done,
                 attempts, badSkips, blurred, unearned, kills>>

\* "[SKIP] lock already held": sys.exit(0) still runs the finally block, and
\* the status is the initial "success".
SkipLocked(s) ==
  /\ Goto(s, "starting", "loading")
  /\ CommandOf[s] \in locked
  /\ blurred' = blurred \cup {day}
  /\ unearned' = IF CommandOf[s] = "daily_job" THEN unearned \cup {day} ELSE unearned
  /\ UNCHANGED <<day, heartbeat, torn, locked, ran, owns, status, loaded, done,
                 attempts, badSkips, kills>>

\* Fault: an attempt on any earlier day counts as today's.
RetriesOncePerFile(records) ==
  LET daily == records["daily_job"]
      own   == records["production_recovery"]
  IN  /\ ~(daily # Unrecorded /\ daily = [day |-> day, status |-> "success"])
      /\ own = Unrecorded
      /\ FailureReason \notin {"api_error", "no_fixtures", "None"}
      /\ ~(daily # Unrecorded /\ daily.status = "success")

\* Fault: the second gate is missing.
RetriesAgain(records) ==
  LET daily == records["daily_job"]
  IN  /\ ~(daily # Unrecorded /\ daily = [day |-> day, status |-> "success"])
      /\ FailureReason \notin {"api_error", "no_fixtures", "None"}
      /\ ~(daily # Unrecorded /\ daily.status = "success")

\* The gates and the decision matrix of _run_production_recovery.  The matrix
\* looks at the status of the last daily record, of whatever day it is.
Retries(records) ==
  LET daily == records["daily_job"]
      own   == records["production_recovery"]
  IN  /\ ~(daily # Unrecorded /\ daily = [day |-> day, status |-> "success"])
      /\ ~(own # Unrecorded /\ own.day = day)
      /\ FailureReason \notin {"api_error", "no_fixtures", "None"}
      /\ ~(daily # Unrecorded /\ daily.status = "success")

\* A run of today's daily job is still to come, or still going on.
DailyPending ==
  \E s \in Slots : CommandOf[s] = "daily_job" /\ (ran[s] < day \/ stage[s] # "idle")

RecoveryDecides(s) ==
  LET retry == Retries(Load) IN
  /\ Goto(s, "gates", IF retry THEN "working" ELSE "loading")
  /\ attempts' = IF retry THEN [attempts EXCEPT ![day] = @ + 1] ELSE attempts
  /\ badSkips' = IF /\ ~retry
                    /\ day \notin done
                    /\ attempts[day] = 0
                    /\ ~DailyPending
                    /\ FailureReason = "unknown"
                 THEN badSkips \cup {day} ELSE badSkips
  /\ blurred' = IF torn \/ DailyPending THEN blurred \cup {day} ELSE blurred
  /\ UNCHANGED <<day, heartbeat, torn, locked, ran, owns, status, loaded, done,
                 unearned, kills>>

\* The command's own work; for the daily job and a recovery that retries it is
\* run_daily_job.
WorkSucceeds(s) ==
  /\ Goto(s, "working", "loading")
  /\ done' = IF CommandOf[s] = "other" THEN done ELSE done \cup {day}
  /\ UNCHANGED <<day, heartbeat, torn, locked, ran, owns, status, loaded,
                 attempts, badSkips, blurred, unearned, kills>>

\* Fault: the exception is logged and forgotten.
WorkFailsSilently(s) ==
  /\ Goto(s, "working", "loading")
  /\ UNCHANGED <<day, heartbeat, torn, locked, ran, owns, status, loaded, done,
                 attempts, badSkips, blurred, unearned, kills>>

WorkFails(s) ==
  /\ Goto(s, "working", "loading")
  /\ status' = [status EXCEPT ![s] = "failed"]
  /\ UNCHANGED <<day, heartbeat, torn, locked, ran, owns, loaded, done,
                 attempts, badSkips, blurred, unearned, kills>>

\* Ctrl-C, or another BaseException that is no Exception, anywhere in the try
\* block: the finally block runs, and the status is the initial "success" still.
Interrupted(s) ==
  /\ s \in Interruptible /\ stage[s] \in {"starting", "gates", "working"}
  /\ kills < MaxKills
  /\ kills' = kills + 1
  /\ stage' = [stage EXCEPT ![s] = "loading"]
  /\ blurred' = blurred \cup {day}
  /\ unearned' = IF CommandOf[s] = "daily_job" THEN unearned \cup {day} ELSE unearned
  /\ UNCHANGED <<day, heartbeat, torn, locked, ran, owns, status, loaded, done,
                 attempts, badSkips>>

\* write_heartbeat, in the finally block: load, then truncate, then fill.
LoadHeartbeat(s) ==
  /\ Goto(s, "loading", "truncating")
  /\ loaded' = [loaded EXCEPT ![s] = Load]
  /\ UNCHANGED <<day, heartbeat, torn, locked, ran, owns, status, done,
                 attempts, badSkips, blurred, unearned, kills>>

TruncateHeartbeat(s) ==
  /\ Goto(s, "truncating", "filling")
  /\ torn' = TRUE
  /\ UNCHANGED <<day, heartbeat, locked, ran, owns, status, loaded, done,
                 attempts, badSkips, blurred, unearned, kills>>

FillHeartbeat(s) ==
  /\ Goto(s, "filling", "releasing")
  /\ torn' = FALSE
  /\ heartbeat' = [loaded[s] EXCEPT ![CommandOf[s]] =
                     [day |-> ran[s], status |-> status[s]]]
  /\ loaded' = [loaded EXCEPT ![s] = NoRecords]
  /\ blurred' = IF \E c \in Commands \ {CommandOf[s]} : loaded[s][c] # heartbeat[c]
                THEN blurred \cup {day} ELSE blurred
  /\ UNCHANGED <<day, locked, ran, owns, status, done, attempts, badSkips, unearned, kills>>

\* Only after the heartbeat is written does the run give its lock back.
ReleaseLock(s) ==
  /\ Goto(s, "releasing", "idle")
  /\ locked' = IF owns[s] THEN locked \ {CommandOf[s]} ELSE locked
  /\ owns' = [owns EXCEPT ![s] = FALSE]
  /\ UNCHANGED <<day, heartbeat, torn, ran, status, loaded, done, attempts,
                 badSkips, blurred, unearned, kills>>

\* The process is killed, or interrupted in its finally block: no heartbeat, and
\* the lock file stays ...
Killed(s) ==
  /\ stage[s] # "idle"
  /\ kills < MaxKills
  /\ kills' = kills + 1
  /\ stage' = [stage EXCEPT ![s] = "idle"]
  /\ owns' = [owns EXCEPT ![s] = FALSE]
  /\ loaded' = [loaded EXCEPT ![s] = NoRecords]
  /\ blurred' = blurred \cup {day}
  /\ UNCHANGED <<day, heartbeat, torn, locked, ran, status, done, attempts, badSkips, unearned>>

\* ... until somebody finds it stale.
BreakStaleLock(c) ==
  /\ c \in locked
  /\ \A s \in Slots : CommandOf[s] = c => ~owns[s]
  /\ locked' = locked \ {c}
  /\ UNCHANGED <<day, heartbeat, torn, stage, ran, owns, status, loaded, done,
                 attempts, badSkips, blurred, unearned, kills>>

\* Midnight, between runs.  A lock left behind is stale by the next run of its
\* command: no _stale_ttl is longer than an hour.
NextDay ==
  /\ day < MaxDay
  /\ \A s \in Slots : stage[s] = "idle" /\ ran[s] >= day
  /\ day' = day + 1
  /\ locked' = {}
  /\ UNCHANGED <<heartbeat, torn, stage, ran, owns, status, loaded, done,
                 attempts, badSkips, blurred, unearned, kills>>

HeartbeatNext ==
  \/ \E s \in Slots :
       \/ Trigger(s) \/ AcquireLock(s) \/ SkipLocked(s) \/ RecoveryDecides(s)
       \/ WorkSucceeds(s) \/ WorkFails(s) \/ Interrupted(s)
       \/ LoadHeartbeat(s) \/ TruncateHeartbeat(s) \/ FillHeartbeat(s)
       \/ ReleaseLock(s) \/ Killed(s)
  \/ \E c \in Commands : BreakStaleLock(c)
  \/ NextDay

HeartbeatSpec == HeartbeatInit /\ [][HeartbeatNext]_heartbeatVars
-----------------------------------------------------------------------------
Records == [Commands -> Record \cup {Unrecorded}]

\* The type invariant of the heartbeat file and of the runs.
HeartbeatTypeOK ==
  /\ day \in 1..MaxDay
  /\ heartbeat \in Records
  /\ torn \in BOOLEAN
  /\ locked \subseteq Commands
  /\ stage \in [Slots -> {"idle", "starting", "gates", "working", "loading",
                       "truncating", "filling", "releasing"}]
  /\ ran \in [Slots -> 0..(MaxDay + 1)]
  /\ owns \in [Slots -> BOOLEAN]
  /\ status \in [Slots -> {"success", "failed"}]
  /\ loaded \in [Slots -> Records]
  /\ done \subseteq 1..MaxDay
  /\ attempts \in [1..MaxDay -> Nat]
  /\ badSkips \subseteq 1..MaxDay
  /\ blurred \subseteq 1..MaxDay /\ unearned \subseteq 1..MaxDay
  /\ kills \in 0..MaxKills

\* What recovery's first gate reads a daily_job record for: one that says
\* success was written by a day whose pipeline did run to its end, or on which
\* a daily run was refused its lock or interrupted: those report success, too,
\* and nothing else does, whatever becomes of the file and its copies.
DailySuccessIsReal ==
  LET daily == heartbeat["daily_job"]
  IN  daily # Unrecorded /\ daily.status = "success" => daily.day \in done \cup unearned

\* Recovery retries a daily job that did not succeed: it is skipped on a day
\* whose daily run is over only if the pipeline ran, or was retried already ...
FailedDayIsRetried == badSkips = {}

\* ... at least on the days on which no run was killed, interrupted or refused its
\* lock, no two runs met in the heartbeat file and recovery waited for the daily
\* run's end.
ClearFailedDayIsRetried == badSkips \subseteq blurred

\* Recovery reruns the pipeline once a day at most, by whoever it is started,
\* unless the record of the first attempt was lost.
RetriedOnce == \A d \in (1..MaxDay) \ blurred : attempts[d] <= 1
=============================================================================

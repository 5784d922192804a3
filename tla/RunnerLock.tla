----------------------------- MODULE RunnerLock -----------------------------
(***************************************************************************)
(* The lock files of app/workers/scheduler_runner.py: acquire_lock,         *)
(* release_lock, and the commands that take them.  main() takes the lock    *)
(* named after its command; the settlement command takes the pre_kickoff    *)
(* lock on top, so that it cannot overlap a live checkpoint refresh.        *)
(*                                                                         *)
(* acquire_lock is not atomic.  The file is created (O_CREAT | O_EXCL) in   *)
(* one step and gets its pid and timestamp in a later one; a loser reads    *)
(* the file, decides, removes the path and starts over, each in a step of   *)
(* its own.  release_lock removes the path, whoever owns the file by then.  *)
(*                                                                         *)
(* A lock is Null (no file) or a record: `owner`, the process that created  *)
(* it, or Null once that process has died (its pid is not alive);           *)
(* `written`, whether pid and time are in it; `aged`, whether its timestamp *)
(* is older than _stale_ttl.  A pid is not reused.                          *)
(***************************************************************************)
EXTENDS Integers, Sequences, FiniteSets

CONSTANTS
  Processes,      \* scheduler slots that run a command again and again
  Locks,          \* lock names
  LocksOf,        \* the locks a process's command takes, in order
  RemovesOpen,    \* os.remove works on a file another process has open:
                  \* TRUE on POSIX, FALSE on Windows
  MaxCrashes,     \* bound: processes killed
  Null

\* A lock file that is there: the live process that created it, or Null.
File == [owner : Processes \cup {Null}, written : BOOLEAN, aged : BOOLEAN]

\* A command takes one lock or more, none of them twice.
ASSUME LocksOfAssumption ==
  /\ LocksOf \in [Processes -> Seq(Locks) \ {<<>>}]
  /\ \A p \in Processes : \A i, j \in 1..Len(LocksOf[p]) :
       LocksOf[p][i] = LocksOf[p][j] => i = j
ASSUME RemovesOpenAssumption == RemovesOpen \in BOOLEAN
ASSUME MaxCrashesAssumption == MaxCrashes \in Nat
ASSUME NullAssumption == Null \notin Processes \cup File

VARIABLES
  lock,     \* the lock files
  pc,       \* where each process is
  taken,    \* how many of its locks a process has taken
  stolen,   \* history: locks whose file was removed while its creator lived
  crashes   \* processes killed so far

vars == <<lock, pc, taken, stolen, crashes>>

\* The lock that p tries to take now.
Wanted(p) == LocksOf[p][taken[p] + 1]

\* p runs its command (or its cleanup) relying on lock l.
Holds(p, l) ==
  \E k \in 1..taken[p] : LocksOf[p][k] = l

Init ==
  /\ lock = [l \in Locks |-> Null]
  /\ pc = [p \in Processes |-> "idle"]
  /\ taken = [p \in Processes |-> 0]
  /\ stolen = {}
  /\ crashes = 0

\* The scheduler starts the command.
Start(p) ==
  /\ pc[p] = "idle"
  /\ pc' = [pc EXCEPT ![p] = "opening"]
  /\ UNCHANGED <<lock, taken, stolen, crashes>>

\* Fault: the file is opened without O_EXCL.
CreateOrTruncate(p) ==
  /\ pc[p] = "opening"
  /\ lock' = [lock EXCEPT ![Wanted(p)] =
                [owner |-> p, written |-> FALSE, aged |-> FALSE]]
  /\ pc' = [pc EXCEPT ![p] = "writing"]
  /\ UNCHANGED <<taken, stolen, crashes>>

\* os.open(O_CREAT | O_EXCL) creates an empty file ...
Create(p) ==
  /\ pc[p] = "opening"
  /\ lock[Wanted(p)] = Null
  /\ lock' = [lock EXCEPT ![Wanted(p)] =
                [owner |-> p, written |-> FALSE, aged |-> FALSE]]
  /\ pc' = [pc EXCEPT ![p] = "writing"]
  /\ UNCHANGED <<taken, stolen, crashes>>

\* ... or finds one.
FindExisting(p) ==
  /\ pc[p] = "opening"
  /\ lock[Wanted(p)] # Null
  /\ pc' = [pc EXCEPT ![p] = "inspecting"]
  /\ UNCHANGED <<lock, taken, stolen, crashes>>

\* Fault: only the pid is written.
WritePidOnly(p) ==
  LET l == Wanted(p) IN
  /\ pc[p] = "writing"
  /\ lock' = [lock EXCEPT ![l] = [owner |-> p, written |-> TRUE]]
  /\ taken' = [taken EXCEPT ![p] = @ + 1]
  /\ pc' = [pc EXCEPT ![p] = IF taken[p] + 1 < Len(LocksOf[p])
                             THEN "opening" ELSE "running"]
  /\ UNCHANGED <<stolen, crashes>>

\* Pid and time are written to the open file, which may have been removed from
\* its path, or replaced there by another process's file, in the meantime.
WriteOwner(p) ==
  LET l == Wanted(p) IN
  /\ pc[p] = "writing"
  /\ lock' = IF lock[l] # Null /\ lock[l].owner = p
             THEN [lock EXCEPT ![l].written = TRUE] ELSE lock
  /\ taken' = [taken EXCEPT ![p] = @ + 1]
  /\ pc' = [pc EXCEPT ![p] = IF taken[p] + 1 < Len(LocksOf[p])
                             THEN "opening" ELSE "running"]
  /\ UNCHANGED <<stolen, crashes>>

\* Fault: a file without a timestamp counts as held.
LooksStaleByAge(file) ==
  file # Null /\ file.written /\ file.owner = Null /\ file.aged

\* A missing or empty file has no timestamp, which counts as stale.  Whether
\* the owner lives is known here; os.kill(pid, 0) may not tell on every system.
LooksStale(file) ==
  \/ file = Null
  \/ file # Null /\ ~file.written
  \/ file # Null /\ file.written /\ file.owner = Null /\ file.aged

\* The file is read and judged: broken if stale, or the command gives up.
\* main() skips the run; the settlement command raises and unwinds.
Inspect(p) ==
  /\ pc[p] = "inspecting"
  /\ pc' = [pc EXCEPT ![p] = IF LooksStale(lock[Wanted(p)])
                             THEN "breaking" ELSE "releasing"]
  /\ UNCHANGED <<lock, taken, stolen, crashes>>

\* Whatever is at the path now is removed, and acquire_lock starts over.
Remove(l) ==
  LET open == /\ lock[l] # Null
              /\ lock[l].owner # Null
              /\ pc[lock[l].owner] = "writing"
  IN  IF open /\ ~RemovesOpen THEN UNCHANGED <<lock, stolen>>
      ELSE /\ lock' = [lock EXCEPT ![l] = Null]
           /\ stolen' = IF lock[l] # Null /\ lock[l].owner # Null
                        THEN stolen \cup {l} ELSE stolen

Break(p) ==
  /\ pc[p] = "breaking"
  /\ Remove(Wanted(p))
  /\ pc' = [pc EXCEPT ![p] = "opening"]
  /\ UNCHANGED <<taken, crashes>>

\* The command ends, well or with an exception.
Finish(p) ==
  /\ pc[p] = "running"
  /\ pc' = [pc EXCEPT ![p] = "releasing"]
  /\ UNCHANGED <<lock, taken, stolen, crashes>>

\* release_lock, innermost lock first, by path.  Removing one's own file is
\* no theft.
Release(p) ==
  /\ pc[p] = "releasing"
  /\ taken[p] > 0
  /\ LET l == LocksOf[p][taken[p]] IN
       IF lock[l] # Null /\ lock[l].owner = p
       THEN lock' = [lock EXCEPT ![l] = Null] /\ UNCHANGED stolen
       ELSE Remove(l)
  /\ taken' = [taken EXCEPT ![p] = @ - 1]
  /\ UNCHANGED <<pc, crashes>>

Exit(p) ==
  /\ pc[p] = "releasing"
  /\ taken[p] = 0
  /\ pc' = [pc EXCEPT ![p] = "idle"]
  /\ UNCHANGED <<lock, taken, stolen, crashes>>

\* The process is killed (execution time limit, reboot): its files stay behind
\* with a pid that is no longer alive.
Crash(p) ==
  /\ pc[p] # "idle"
  /\ crashes < MaxCrashes
  /\ crashes' = crashes + 1
  /\ lock' = [l \in Locks |->
                IF lock[l] # Null /\ lock[l].owner = p
                THEN [lock[l] EXCEPT !.owner = Null] ELSE lock[l]]
  /\ pc' = [pc EXCEPT ![p] = "idle"]
  /\ taken' = [taken EXCEPT ![p] = 0]
  /\ UNCHANGED stolen

\* The timestamp in the file gets older than twice the expected run.
Age(l) ==
  /\ lock[l] # Null
  /\ lock[l].written
  /\ ~lock[l].aged
  /\ lock' = [lock EXCEPT ![l].aged = TRUE]
  /\ UNCHANGED <<pc, taken, stolen, crashes>>

Acquire(p) ==
  Start(p) \/ Create(p) \/ FindExisting(p) \/ WriteOwner(p) \/ Inspect(p) \/ Break(p)

Next ==
  \/ \E p \in Processes : Acquire(p) \/ Finish(p) \/ Release(p) \/ Exit(p) \/ Crash(p)
  \/ \E l \in Locks : Age(l)

Spec == Init /\ [][Next]_vars

\* The scheduler keeps starting commands, a process that takes or gives back a
\* lock goes on, and time passes.  Nothing bounds how long a command runs:
\* Finish has no fairness.
Fairness ==
  /\ \A p \in Processes : WF_vars(Acquire(p) \/ Release(p) \/ Exit(p))
  /\ \A l \in Locks : WF_vars(Age(l))

LiveSpec == Spec /\ Fairness
-----------------------------------------------------------------------------
\* The type invariant of the lock files and of the processes.
TypeOK ==
  /\ lock \in [Locks -> File \cup {Null}]
  /\ pc \in [Processes -> {"idle", "opening", "writing", "inspecting", "breaking",
                           "running", "releasing"}]
  /\ taken \in [Processes -> Nat]
  /\ \A p \in Processes : taken[p] <= Len(LocksOf[p])
  /\ stolen \subseteq Locks
  /\ crashes \in 0..MaxCrashes

\* p has created the file of lock l and has not written its pid yet.
Creating(p, l) == pc[p] = "writing" /\ Wanted(p) = l

\* As long as no file was taken from under a live process, a lock has one
\* holder at most: every overlap begins with a breaker, or a late release, that
\* removes a file it never looked at.  And a process that is not running a
\* command owns no file, even when it was refused its second lock or its files
\* were replaced meanwhile.
OneHolderUntilStolen ==
  /\ \A l \in Locks \ stolen : \A p, q \in Processes :
       (Holds(p, l) \/ Creating(p, l)) /\ (Holds(q, l) \/ Creating(q, l)) => p = q
  /\ \A p \in Processes : \A l \in Locks :
       pc[p] = "idle" /\ lock[l] # Null => lock[l].owner # p

\* What the settlement command takes the pre_kickoff lock for: two commands
\* that take the same lock never run at the same time.
LockExcludes ==
  \A p, q \in Processes : \A l \in Locks :
    /\ p # q
    /\ pc[p] = "running" /\ pc[q] = "running"
    /\ Holds(p, l)
    => ~Holds(q, l)

\* The lock of a killed command does not stay behind for ever.
DeadLockIsBroken ==
  \A l \in Locks :
    (lock[l] # Null /\ lock[l].owner = Null) ~>
    ~(lock[l] # Null /\ lock[l].owner = Null)
=============================================================================

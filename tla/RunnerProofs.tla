----------------------------- MODULE RunnerProofs -----------------------------
(***************************************************************************)
(* For every set of commands and locks, with POSIX or Windows files and any *)
(* number of kills, a lock of RunnerLock has one holder until a live        *)
(* process's file is removed, and what has ended owns no file.  The         *)
(* argument: until it is stolen, a lock that a process relies on is the     *)
(* file it created, and a file belongs to nobody who does not rely on it.   *)
(* For any commands, triggers, days, kills and interruptions, a success     *)
(* that the heartbeat records of the daily job is true, but for a run       *)
(* refused its lock or interrupted, and a failed day is retried, once,      *)
(* unless something interfered on it.                                       *)
(***************************************************************************)
EXTENDS MCRunner, TLAPS

ReliesOn(p, l) == Holds(p, l) \/ Creating(p, l)
Owns(p, l) == lock[l] # Null /\ lock[l].owner = p

LockInv ==
  /\ TypeOK
  /\ \A p \in Processes :
       /\ pc[p] \in {"opening", "writing", "inspecting", "breaking"}
            => taken[p] < Len(LocksOf[p])
       /\ pc[p] = "idle" => taken[p] = 0
  /\ \A p \in Processes : \A l \in Locks :
       /\ l \notin stolen /\ ReliesOn(p, l) => Owns(p, l)
       /\ Owns(p, l) => ReliesOn(p, l)

\* The lock a process wants next, and the ones it has, are locks.
LEMMA LocksAreLocks ==
  ASSUME NEW p \in Processes, NEW k \in 1..Len(LocksOf[p])
  PROVE  LocksOf[p][k] \in Locks
  BY LocksOfAssumption DEF LocksOfAssumption

LEMMA LockTyped ==
  ASSUME LockInv, [Next]_vars
  PROVE  /\ TypeOK'
         /\ \A p \in Processes :
              /\ pc'[p] \in {"opening", "writing", "inspecting", "breaking"}
                   => taken'[p] < Len(LocksOf[p])
              /\ pc'[p] = "idle" => taken'[p] = 0
<1> DEFINE Goal == /\ TypeOK'
                   /\ \A p \in Processes :
                        /\ pc'[p] \in {"opening", "writing", "inspecting", "breaking"}
                             => taken'[p] < Len(LocksOf[p])
                        /\ pc'[p] = "idle" => taken'[p] = 0
<1>a. \A p \in Processes : Len(LocksOf[p]) \in Nat \ {0}
  BY LocksOfAssumption DEF LocksOfAssumption
<1>b. /\ lock \in [Locks -> File \cup {Null}]
      /\ pc \in [Processes -> {"idle", "opening", "writing", "inspecting", "breaking",
                               "running", "releasing"}]
      /\ taken \in [Processes -> Nat]
      /\ \A p \in Processes : taken[p] <= Len(LocksOf[p])
      /\ stolen \subseteq Locks /\ crashes \in 0..MaxCrashes /\ MaxCrashes \in Nat
      /\ \A p \in Processes :
           /\ pc[p] \in {"opening", "writing", "inspecting", "breaking"}
                => taken[p] < Len(LocksOf[p])
           /\ pc[p] = "idle" => taken[p] = 0
  BY MaxCrashesAssumption DEF LockInv, TypeOK, MaxCrashesAssumption
<1>c. ASSUME NEW p \in Processes, pc[p] \in {"opening", "writing", "breaking"}
      PROVE  Wanted(p) \in Locks
  BY <1>a, <1>b, <1>c, LocksAreLocks DEF Wanted
<1>d. ASSUME NEW l \in Locks, Remove(l)
      PROVE  lock' \in [Locks -> File \cup {Null}] /\ stolen' \subseteq Locks
  BY <1>b, <1>d DEF Remove
<1>1. ASSUME NEW p \in Processes, Start(p) PROVE Goal
  BY <1>1, <1>a, <1>b DEF Start, TypeOK
<1>2. ASSUME NEW p \in Processes, Create(p) PROVE Goal
  <2>1. lock' \in [Locks -> File \cup {Null}]
    BY <1>2, <1>b, <1>c DEF Create, File
  <2> QED BY <1>2, <1>a, <1>b, <2>1 DEF Create, TypeOK
<1>3. ASSUME NEW p \in Processes, FindExisting(p) \/ Inspect(p) PROVE Goal
  BY <1>3, <1>a, <1>b DEF FindExisting, Inspect, TypeOK
<1>4. ASSUME NEW p \in Processes, WriteOwner(p) PROVE Goal
  <2>1. lock' \in [Locks -> File \cup {Null}]
    BY <1>4, <1>b, <1>c DEF WriteOwner, File
  <2> QED BY <1>4, <1>a, <1>b, <2>1 DEF WriteOwner, TypeOK
<1>5. ASSUME NEW p \in Processes, Break(p) PROVE Goal
  BY <1>5, <1>a, <1>b, <1>c, <1>d DEF Break, TypeOK
<1>6. ASSUME NEW p \in Processes, Finish(p) \/ Exit(p) PROVE Goal
  BY <1>6, <1>a, <1>b DEF Finish, Exit, TypeOK
<1>7. ASSUME NEW p \in Processes, Release(p) PROVE Goal
  <2>1. LocksOf[p][taken[p]] \in Locks
    BY <1>7, <1>a, <1>b, LocksAreLocks DEF Release
  <2>2. lock' \in [Locks -> File \cup {Null}] /\ stolen' \subseteq Locks
    BY <1>7, <1>b, <1>d, <2>1 DEF Release
  <2> QED BY <1>7, <1>a, <1>b, <2>2 DEF Release, TypeOK
<1>8. ASSUME NEW p \in Processes, Crash(p) PROVE Goal
  <2>1. lock' \in [Locks -> File \cup {Null}]
    BY <1>8, <1>b DEF Crash, File
  <2> QED BY <1>8, <1>a, <1>b, <2>1 DEF Crash, TypeOK
<1>9. ASSUME NEW l \in Locks, Age(l) PROVE Goal
  <2>1. lock' \in [Locks -> File \cup {Null}]
    BY <1>9, <1>b DEF Age, File
  <2> QED BY <1>9, <1>b, <2>1 DEF Age, TypeOK
<1>10. CASE UNCHANGED vars
  BY <1>10, <1>b DEF vars, TypeOK
<1> QED
  BY <1>1, <1>2, <1>3, <1>4, <1>5, <1>6, <1>7, <1>8, <1>9, <1>10 DEF Next, Acquire

\* Relying on a lock and owning its file go together, whatever a step does.
LEMMA OwnersKept ==
  ASSUME LockInv, [Next]_vars, NEW q \in Processes, NEW l \in Locks
  PROVE  /\ l \notin stolen' /\ ReliesOn(q, l)' => Owns(q, l)'
         /\ Owns(q, l)' => ReliesOn(q, l)'
<1> DEFINE Goal == /\ l \notin stolen' /\ ReliesOn(q, l)' => Owns(q, l)'
                   /\ Owns(q, l)' => ReliesOn(q, l)'
<1>a. /\ lock \in [Locks -> File \cup {Null}]
      /\ pc \in [Processes -> {"idle", "opening", "writing", "inspecting", "breaking",
                               "running", "releasing"}]
      /\ taken \in [Processes -> Nat]
      /\ \A p \in Processes : taken[p] <= Len(LocksOf[p])
      /\ \A p \in Processes :
           /\ pc[p] \in {"opening", "writing", "inspecting", "breaking"}
                => taken[p] < Len(LocksOf[p])
           /\ pc[p] = "idle" => taken[p] = 0
  BY DEF LockInv, TypeOK
<1>b. \A p \in Processes :
        /\ l \notin stolen /\ ReliesOn(p, l) => Owns(p, l)
        /\ Owns(p, l) => ReliesOn(p, l)
  BY DEF LockInv
<1>c. \A p \in Processes : Len(LocksOf[p]) \in Nat \ {0}
  BY LocksOfAssumption DEF LocksOfAssumption
\* A step that touches neither the file nor what q relies on.
<1>d. ASSUME UNCHANGED stolen, Owns(q, l)' <=> Owns(q, l), ReliesOn(q, l)' <=> ReliesOn(q, l)
      PROVE  Goal
  BY <1>b, <1>d
<1>e. ASSUME taken'[q] = taken[q], pc'[q] = pc[q]
      PROVE  ReliesOn(q, l)' <=> ReliesOn(q, l)
  BY <1>e DEF ReliesOn, Holds, Creating, Wanted
<1>f. ASSUME taken'[q] = taken[q], pc[q] # "writing", pc'[q] # "writing"
      PROVE  ReliesOn(q, l)' <=> ReliesOn(q, l)
  BY <1>f DEF ReliesOn, Holds, Creating, Wanted
<1>1. ASSUME NEW p \in Processes, Start(p) \/ FindExisting(p) \/ Inspect(p) \/ Finish(p) \/ Exit(p)
      PROVE  Goal
  <2>1. UNCHANGED <<lock, stolen, taken>>
    BY <1>1 DEF Start, FindExisting, Inspect, Finish, Exit
  <2>2. pc'[q] = pc[q] \/ (pc[q] # "writing" /\ pc'[q] # "writing")
    BY <1>1, <1>a DEF Start, FindExisting, Inspect, Finish, Exit
  <2> QED BY <1>d, <1>e, <1>f, <2>1, <2>2 DEF Owns
<1>2. ASSUME NEW p \in Processes, Create(p) PROVE Goal
  <2>1. /\ lock[Wanted(p)] = Null /\ UNCHANGED <<taken, stolen>>
        /\ pc[p] = "opening" /\ pc' = [pc EXCEPT ![p] = "writing"]
        /\ lock' = [lock EXCEPT ![Wanted(p)] = [owner |-> p, written |-> FALSE, aged |-> FALSE]]
    BY <1>2 DEF Create
  <2>2. [owner |-> p, written |-> FALSE, aged |-> FALSE] # Null
    <3>1. [owner |-> p, written |-> FALSE, aged |-> FALSE] \in File
      BY DEF File
    <3> QED BY <3>1, NullAssumption DEF NullAssumption
  <2>3. CASE l = Wanted(p)
    <3>1. \A r \in Processes : Owns(r, l)' <=> r = p
      BY <1>a, <2>1, <2>2, <2>3 DEF Owns
    <3>2. ReliesOn(p, l)'
      BY <1>a, <2>1, <2>3 DEF ReliesOn, Creating, Wanted
    <3>3. q # p => (ReliesOn(q, l)' <=> ReliesOn(q, l))
      BY <1>a, <1>e, <2>1
    <3> QED BY <1>b, <2>1, <2>3, <3>1, <3>2, <3>3 DEF Owns
  <2>4. CASE l # Wanted(p)
    <3>1. Owns(q, l)' <=> Owns(q, l)
      BY <1>a, <2>1, <2>4 DEF Owns
    <3>2. ReliesOn(q, l)' <=> ReliesOn(q, l)
      <4>1. CASE q = p
        BY <1>a, <2>1, <2>4, <4>1 DEF ReliesOn, Creating, Holds, Wanted
      <4>2. CASE q # p
        BY <1>a, <1>e, <2>1, <4>2
      <4> QED BY <4>1, <4>2
    <3> QED BY <1>d, <2>1, <3>1, <3>2
  <2> QED BY <2>3, <2>4
<1>3. ASSUME NEW p \in Processes, WriteOwner(p) PROVE Goal
  <2>1. Owns(q, l)' <=> Owns(q, l)
    <3>1. CASE lock' = lock
      BY <3>1 DEF Owns
    <3>2. CASE /\ lock[Wanted(p)] # Null
               /\ lock' = [lock EXCEPT ![Wanted(p)].written = TRUE]
      <4>1. CASE l = Wanted(p)
        <5>1. lock[l] \in File /\ lock'[l] = [lock[l] EXCEPT !.written = TRUE]
          BY <1>a, <3>2, <4>1
        <5>2. lock'[l] \in File /\ lock'[l].owner = lock[l].owner
          BY <5>1 DEF File
        <5> QED BY <3>2, <4>1, <5>2, NullAssumption DEF Owns, NullAssumption
      <4>2. CASE l # Wanted(p)
        BY <1>a, <3>2, <4>2 DEF Owns
      <4> QED BY <4>1, <4>2
    <3> QED BY <1>3, <3>1, <3>2 DEF WriteOwner
  <2>2. /\ pc[p] = "writing" /\ pc'[p] # "writing" /\ taken'[p] = taken[p] + 1
        /\ \A r \in Processes \ {p} : pc'[r] = pc[r] /\ taken'[r] = taken[r]
        /\ UNCHANGED stolen
    BY <1>3, <1>a DEF WriteOwner
  <2>3. ReliesOn(q, l)' <=> ReliesOn(q, l)
    <3>1. CASE q = p
      <4>1. ReliesOn(p, l)' <=> \E k \in 1..(taken[p] + 1) : LocksOf[p][k] = l
        BY <2>2 DEF ReliesOn, Holds, Creating
      <4>2. ReliesOn(p, l) <=> (\E k \in 1..taken[p] : LocksOf[p][k] = l)
                                 \/ LocksOf[p][taken[p] + 1] = l
        BY <2>2 DEF ReliesOn, Holds, Creating, Wanted
      <4>3. 1..(taken[p] + 1) = 1..taken[p] \cup {taken[p] + 1}
        BY <1>a
      <4> QED BY <3>1, <4>1, <4>2, <4>3
    <3>2. CASE q # p
      BY <1>e, <2>2, <3>2
    <3> QED BY <3>1, <3>2
  <2> QED BY <1>d, <2>1, <2>2, <2>3
\* A path is removed that q, if it relies on it, does not own.
<1>g. ASSUME NEW k \in Locks, Remove(k), ReliesOn(q, l)' => ReliesOn(q, l),
             Owns(q, l) /\ l # k => ReliesOn(q, l)', lock' = lock => (Owns(q, l) => ReliesOn(q, l)')
      PROVE  Goal
  <2>1. CASE UNCHANGED <<lock, stolen>>
    BY <1>b, <1>g, <2>1 DEF Owns
  <2>2. CASE /\ lock' = [lock EXCEPT ![k] = Null]
             /\ stolen' = IF lock[k] # Null /\ lock[k].owner # Null
                          THEN stolen \cup {k} ELSE stolen
    <3>1. CASE l = k
      <4>1. ~Owns(q, l)'
        BY <1>a, <2>2, <3>1 DEF Owns
      <4>2. l \notin stolen' => ~Owns(q, l) /\ l \notin stolen
        BY <2>2, <3>1, NullAssumption DEF Owns, NullAssumption
      <4> QED BY <1>b, <1>g, <4>1, <4>2
    <3>2. CASE l # k
      <4>1. (Owns(q, l)' <=> Owns(q, l)) /\ (l \in stolen' <=> l \in stolen)
        BY <1>a, <2>2, <3>2 DEF Owns
      <4> QED BY <1>b, <1>g, <3>2, <4>1
    <3> QED BY <3>1, <3>2
  <2> QED BY <1>g, <2>1, <2>2 DEF Remove
<1>4. ASSUME NEW p \in Processes, Break(p) PROVE Goal
  <2>1. ReliesOn(q, l)' <=> ReliesOn(q, l)
    BY <1>4, <1>a, <1>e, <1>f DEF Break
  <2>2. Wanted(p) \in Locks /\ Remove(Wanted(p))
    BY <1>4, <1>a, <1>c, LocksAreLocks DEF Break, Wanted
  <2> QED BY <1>b, <1>g, <2>1, <2>2
<1>5. ASSUME NEW p \in Processes, Release(p) PROVE Goal
  <2> DEFINE k == LocksOf[p][taken[p]]
  <2>1. /\ taken[p] \in 1..Len(LocksOf[p]) /\ k \in Locks /\ pc[p] = "releasing"
        /\ pc' = pc /\ taken' = [taken EXCEPT ![p] = @ - 1]
    BY <1>5, <1>a, <1>c, LocksAreLocks DEF Release
  <2>2. q # p => (ReliesOn(q, l)' <=> ReliesOn(q, l))
    BY <1>a, <1>e, <2>1
  <2>3. ReliesOn(p, l)' <=> ReliesOn(p, l) /\ l # k
    <3>1. /\ ReliesOn(p, l) <=> \E i \in 1..taken[p] : LocksOf[p][i] = l
          /\ ReliesOn(p, l)' <=> \E i \in 1..(taken[p] - 1) : LocksOf[p][i] = l
      BY <1>a, <2>1 DEF ReliesOn, Holds, Creating
    <3>2. \A i \in 1..(taken[p] - 1) : LocksOf[p][i] # k
      BY <1>a, <1>c, <2>1, LocksOfAssumption DEF LocksOfAssumption
    <3>3. 1..taken[p] = 1..(taken[p] - 1) \cup {taken[p]}
      BY <1>a, <2>1
    <3> QED BY <3>1, <3>2, <3>3
  <2>4. CASE /\ lock[k] # Null /\ lock[k].owner = p
             /\ lock' = [lock EXCEPT ![k] = Null] /\ UNCHANGED stolen
    <3>1. CASE l = k
      <4>1. ~Owns(q, l)' /\ (Owns(q, l) <=> q = p)
        BY <1>a, <2>1, <2>4, <3>1 DEF Owns
      <4> QED BY <1>b, <2>2, <2>3, <2>4, <3>1, <4>1
    <3>2. CASE l # k
      <4>1. Owns(q, l)' <=> Owns(q, l)
        BY <1>a, <2>1, <2>4, <3>2 DEF Owns
      <4> QED BY <1>d, <2>2, <2>3, <2>4, <3>2, <4>1
    <3> QED BY <3>1, <3>2
  <2>5. CASE Remove(k) /\ ~(lock[k] # Null /\ lock[k].owner = p)
    <3>1. ReliesOn(q, l)' => ReliesOn(q, l)
      BY <2>2, <2>3
    <3>2. Owns(q, l) => ReliesOn(q, l)'
      BY <1>b, <2>2, <2>3, <2>5 DEF Owns
    <3> QED BY <1>g, <2>1, <2>5, <3>1, <3>2
  <2> QED BY <1>5, <2>4, <2>5 DEF Release
<1>6. ASSUME NEW p \in Processes, Crash(p) PROVE Goal
  <2>1. /\ pc' = [pc EXCEPT ![p] = "idle"] /\ taken' = [taken EXCEPT ![p] = 0]
        /\ UNCHANGED stolen
        /\ lock'[l] = IF lock[l] # Null /\ lock[l].owner = p
                      THEN [lock[l] EXCEPT !.owner = Null] ELSE lock[l]
    BY <1>6 DEF Crash
  <2>2. Owns(q, l)' <=> Owns(q, l) /\ q # p
    <3>1. CASE Owns(p, l)
      <4>1. lock[l] \in File /\ lock'[l] = [lock[l] EXCEPT !.owner = Null]
        BY <1>a, <2>1, <3>1 DEF Owns
      <4>2. lock'[l].owner = Null
        BY <4>1 DEF File
      <4> QED BY <3>1, <4>2, NullAssumption DEF Owns, NullAssumption
    <3>2. CASE ~Owns(p, l)
      BY <2>1, <3>2 DEF Owns
    <3> QED BY <3>1, <3>2
  <2>3. CASE q = p
    <3>1. ~ReliesOn(q, l)'
      BY <1>a, <2>1, <2>3 DEF ReliesOn, Holds, Creating
    <3> QED BY <2>2, <2>3, <3>1
  <2>4. CASE q # p
    BY <1>a, <1>d, <1>e, <2>1, <2>2, <2>4
  <2> QED BY <2>3, <2>4
<1>7. ASSUME NEW k \in Locks, Age(k) PROVE Goal
  <2>1. Owns(q, l)' <=> Owns(q, l)
    <3>1. CASE l = k
      <4>1. lock[l] \in File /\ lock'[l] = [lock[l] EXCEPT !.aged = TRUE]
        BY <1>7, <1>a, <3>1 DEF Age
      <4>2. lock'[l] \in File /\ lock'[l].owner = lock[l].owner
        BY <4>1 DEF File
      <4> QED BY <4>1, <4>2, NullAssumption DEF Owns, NullAssumption
    <3>2. CASE l # k
      BY <1>7, <1>a, <3>2 DEF Age, Owns
    <3> QED BY <3>1, <3>2
  <2> QED BY <1>7, <1>d, <1>e, <2>1 DEF Age
<1>8. CASE UNCHANGED vars
  BY <1>8, <1>d, <1>e DEF vars, Owns
<1> QED
  BY <1>1, <1>2, <1>3, <1>4, <1>5, <1>6, <1>7, <1>8 DEF Next, Acquire

LEMMA LocksStart == Init => LockInv
<1> SUFFICES ASSUME Init PROVE LockInv
  OBVIOUS
<1>1. TypeOK
  BY LocksOfAssumption, MaxCrashesAssumption
     DEF LocksOfAssumption, MaxCrashesAssumption, Init, TypeOK
<1>2. \A p \in Processes : pc[p] = "idle" /\ taken[p] = 0
  BY DEF Init
<1>3. \A p \in Processes : \A l \in Locks : ~ReliesOn(p, l) /\ ~Owns(p, l)
  BY <1>2 DEF Init, ReliesOn, Holds, Creating, Owns
<1> QED BY <1>1, <1>2, <1>3 DEF LockInv

\* Relying on a lock and owning its file go together until the file is stolen.
THEOREM LocksInductive == Spec => []LockInv
<1>1. LockInv /\ [Next]_vars => LockInv'
  BY LockTyped, OwnersKept DEF LockInv
<1> QED BY LocksStart, <1>1, PTL DEF Spec

\* The lock files and the processes keep their types.
THEOREM LockTypeCorrect == Spec => []TypeOK
<1>1. LockInv => TypeOK
  BY DEF LockInv
<1> QED BY LocksInductive, <1>1, PTL

\* acquire_lock gives a lock to one command at a time for as long as no file was
\* removed from under a live process, and main leaves no file behind.
THEOREM OneHolder == Spec => []OneHolderUntilStolen
<1>1. LockInv => OneHolderUntilStolen
  <2> SUFFICES ASSUME LockInv PROVE OneHolderUntilStolen
    OBVIOUS
  <2>1. \A l \in Locks \ stolen : \A p, q \in Processes :
          ReliesOn(p, l) /\ ReliesOn(q, l) => p = q
    BY DEF LockInv, Owns
  <2>2. ASSUME NEW p \in Processes, NEW l \in Locks, pc[p] = "idle" PROVE ~Owns(p, l)
    <3>1. taken[p] = 0
      BY <2>2 DEF LockInv
    <3>2. ~ReliesOn(p, l)
      BY <2>2, <3>1 DEF ReliesOn, Holds, Creating
    <3> QED BY <3>2 DEF LockInv
  <2> QED BY <2>1, <2>2 DEF OneHolderUntilStolen, ReliesOn, Owns
<1> QED BY LocksInductive, <1>1, PTL
-----------------------------------------------------------------------------
(***************************************************************************)
(* The heartbeat.  A run that works has its command's lock and belongs to   *)
(* today; what the file, and every run that is about to write it back, say   *)
(* of a command is accounted for by the day it names.                       *)
(***************************************************************************)
Daily == {s \in Slots : CommandOf[s] = "daily_job"}
Recoveries == {s \in Slots : CommandOf[s] = "production_recovery"}

\* A run belongs to its day, and one that got as far as its work has its lock.
SlotsInv ==
  \A s \in Slots :
    /\ ran[s] <= day \/ ran[s] = MaxDay + 1
    /\ stage[s] # "idle" => ran[s] = day
    /\ stage[s] \in {"gates", "working"} => owns[s]
    /\ stage[s] = "gates" => CommandOf[s] = "production_recovery"
    /\ owns[s] => CommandOf[s] \in locked /\ stage[s] \notin {"idle", "starting"}
    /\ \A t \in Slots : owns[s] /\ owns[t] /\ CommandOf[s] = CommandOf[t] => s = t
    /\ stage[s] \notin {"idle", "starting"} /\ ~owns[s] => day \in blurred

DaysInv ==
  /\ done \subseteq 1..day /\ blurred \subseteq 1..day
  /\ unearned \subseteq blurred
  /\ \A d \in 1..MaxDay : d > day => attempts[d] = 0

\* What the daily job's records say.
Real(daily) ==
  daily # Unrecorded /\ daily.status = "success" => daily.day \in done \cup unearned
Used(daily) == daily # Unrecorded => \E s \in Daily : ran[s] # MaxDay + 1

DailyInv ==
  /\ Real(heartbeat["daily_job"]) /\ Used(heartbeat["daily_job"])
  /\ \A s \in Slots : Real(loaded[s]["daily_job"]) /\ Used(loaded[s]["daily_job"])
  /\ \A s \in Daily :
       /\ stage[s] \in {"loading", "truncating", "filling"} /\ status[s] = "success"
            => day \in done \cup unearned
       /\ \/ stage[s] = "releasing"
          \/ stage[s] = "idle" /\ ran[s] = day
          => \/ heartbeat["daily_job"] # Unrecorded /\ heartbeat["daily_job"].day = day
             \/ day \in blurred

\* A day on which recovery may well do nothing more.
Excused(d) == attempts[d] >= 1 \/ d \in done \/ d \in blurred
Answered(own) == own # Unrecorded => Excused(own.day)

RecoveryInv ==
  /\ FailureReason = "unknown" =>
       /\ Answered(heartbeat["production_recovery"])
       /\ \A s \in Slots : Answered(loaded[s]["production_recovery"])
       /\ \A s \in Recoveries :
            stage[s] \in {"working", "loading", "truncating", "filling"} => Excused(day)
  /\ badSkips \subseteq blurred

\* A rerun is going on, or is today's record.
AttemptsInv ==
  /\ RetriedOnce
  /\ attempts[day] >= 1 /\ day \notin blurred =>
       \/ /\ heartbeat["production_recovery"] # Unrecorded
          /\ heartbeat["production_recovery"].day = day
       \/ \E s \in Recoveries :
            owns[s] /\ stage[s] \in {"working", "loading", "truncating", "filling"}

HeartbeatInv ==
  /\ HeartbeatTypeOK
  /\ SlotsInv /\ DaysInv /\ DailyInv /\ RecoveryInv /\ AttemptsInv

LEMMA HeartbeatStarts == HeartbeatInit => HeartbeatInv
<1> SUFFICES ASSUME HeartbeatInit PROVE HeartbeatInv
  OBVIOUS
<1>1. PICK unused \in SUBSET Slots :
        ran = [s \in Slots |-> IF s \in unused THEN MaxDay + 1 ELSE 0]
  BY DEF HeartbeatInit
<1>2. HeartbeatTypeOK
  <2>1. NoRecords \in Records /\ ran \in [Slots -> 0..(MaxDay + 1)]
    BY <1>1, BoundsAssumption DEF BoundsAssumption, NoRecords, Records
  <2>2. MaxDay \in Nat \ {0} /\ MaxKills \in Nat
    BY BoundsAssumption DEF BoundsAssumption
  <2>3. day \in 1..MaxDay /\ kills \in 0..MaxKills /\ attempts \in [1..MaxDay -> Nat]
    BY <2>2 DEF HeartbeatInit
  <2> QED BY <2>1, <2>3 DEF HeartbeatInit, HeartbeatTypeOK
<1>3. SlotsInv
  BY <1>1, BoundsAssumption DEF BoundsAssumption, HeartbeatInit, SlotsInv
<1>4. DaysInv
  BY BoundsAssumption DEF BoundsAssumption, HeartbeatInit, DaysInv
<1>5. DailyInv
  <2>1. \A s \in Slots : ran[s] # 1
    BY <1>1, BoundsAssumption DEF BoundsAssumption
  <2> QED BY <2>1 DEF HeartbeatInit, DailyInv, Daily, Real, Used, NoRecords, Commands
<1>6. RecoveryInv
  BY DEF HeartbeatInit, RecoveryInv, Recoveries, Answered, NoRecords, Commands
<1>7. AttemptsInv
  BY BoundsAssumption DEF BoundsAssumption, HeartbeatInit, AttemptsInv, RetriedOnce
<1> QED BY <1>2, <1>3, <1>4, <1>5, <1>6, <1>7 DEF HeartbeatInv

LEMMA HeartbeatTyped ==
  ASSUME HeartbeatTypeOK, SlotsInv, [HeartbeatNext]_heartbeatVars
  PROVE  HeartbeatTypeOK'
<1>a. /\ CommandOf \in [Slots -> Commands] /\ MaxDay \in Nat \ {0} /\ MaxKills \in Nat
      /\ heartbeat \in Records /\ NoRecords \in Records /\ Load \in Records
  BY CommandOfAssumption, BoundsAssumption
     DEF CommandOfAssumption, BoundsAssumption, HeartbeatTypeOK, NoRecords, Records, Load
<1>1. ASSUME NEW s \in Slots, Trigger(s) \/ AcquireLock(s) \/ SkipLocked(s)
      PROVE  HeartbeatTypeOK'
  <2>1. CASE Trigger(s)
    BY <2>1, <1>a DEF Trigger, Goto, HeartbeatTypeOK
  <2>2. CASE AcquireLock(s)
    <3>1. CommandOf[s] \in Commands /\ stage' \in [Slots -> {"idle", "starting", "gates", "working",
            "loading", "truncating", "filling", "releasing"}]
      BY <2>2, <1>a DEF AcquireLock, Goto, HeartbeatTypeOK
    <3> QED BY <2>2, <1>a, <3>1 DEF AcquireLock, HeartbeatTypeOK
  <2>3. CASE SkipLocked(s)
    BY <2>3, <1>a DEF SkipLocked, Goto, HeartbeatTypeOK
  <2> QED BY <1>1, <2>1, <2>2, <2>3
<1>2. ASSUME NEW s \in Slots, RecoveryDecides(s) PROVE HeartbeatTypeOK'
  <2>1. /\ day \in 1..MaxDay /\ attempts' \in [1..MaxDay -> Nat]
        /\ badSkips' \subseteq 1..MaxDay /\ blurred' \subseteq 1..MaxDay
    BY <1>2 DEF RecoveryDecides, HeartbeatTypeOK
  <2> QED BY <1>2, <1>a, <2>1 DEF RecoveryDecides, Goto, HeartbeatTypeOK
<1>3. ASSUME NEW s \in Slots, WorkSucceeds(s) \/ WorkFails(s) PROVE HeartbeatTypeOK'
  BY <1>3, <1>a DEF WorkSucceeds, WorkFails, Goto, HeartbeatTypeOK
<1>4. ASSUME NEW s \in Slots, LoadHeartbeat(s) \/ TruncateHeartbeat(s) PROVE HeartbeatTypeOK'
  BY <1>4, <1>a DEF LoadHeartbeat, TruncateHeartbeat, Goto, HeartbeatTypeOK
<1>5. ASSUME NEW s \in Slots, FillHeartbeat(s) PROVE HeartbeatTypeOK'
  <2>1. stage[s] = "filling" /\ ran[s] = day /\ loaded[s] \in Records
    BY <1>5 DEF FillHeartbeat, Goto, SlotsInv, HeartbeatTypeOK
  <2>2. [day |-> ran[s], status |-> status[s]] \in Record
    BY <2>1, <1>a DEF HeartbeatTypeOK, Record
  <2>3. heartbeat' \in Records
    BY <1>5, <2>1, <2>2, <1>a DEF FillHeartbeat, Records
  <2> QED BY <1>5, <1>a, <2>3 DEF FillHeartbeat, Goto, HeartbeatTypeOK
<1>6. ASSUME NEW s \in Slots, ReleaseLock(s) \/ Killed(s) \/ Interrupted(s) PROVE HeartbeatTypeOK'
  <2>1. CASE ReleaseLock(s)
    BY <2>1, <1>a DEF ReleaseLock, Goto, HeartbeatTypeOK
  <2>2. CASE Killed(s)
    BY <2>2, <1>a DEF Killed, HeartbeatTypeOK
  <2>3. CASE Interrupted(s)
    BY <2>3, <1>a DEF Interrupted, HeartbeatTypeOK
  <2> QED BY <1>6, <2>1, <2>2, <2>3
<1>7. ASSUME NEW c \in Commands, BreakStaleLock(c) PROVE HeartbeatTypeOK'
  BY <1>7, <1>a DEF BreakStaleLock, HeartbeatTypeOK
<1>8. CASE NextDay
  BY <1>8, <1>a DEF NextDay, HeartbeatTypeOK
<1>9. CASE UNCHANGED heartbeatVars
  BY <1>9 DEF heartbeatVars, HeartbeatTypeOK
<1> QED BY <1>1, <1>2, <1>3, <1>4, <1>5, <1>6, <1>7, <1>8, <1>9 DEF HeartbeatNext

LEMMA SlotsKept ==
  ASSUME HeartbeatTypeOK, SlotsInv, [HeartbeatNext]_heartbeatVars
  PROVE  SlotsInv'
<1>a. CommandOf \in [Slots -> Commands] /\ MaxDay \in Nat \ {0} /\ day \in 1..MaxDay
  BY CommandOfAssumption, BoundsAssumption
     DEF CommandOfAssumption, BoundsAssumption, HeartbeatTypeOK
<1>1. ASSUME NEW s \in Slots, Trigger(s) PROVE SlotsInv'
  BY <1>1, <1>a DEF Trigger, Goto, HeartbeatTypeOK, SlotsInv
<1>2. ASSUME NEW s \in Slots, AcquireLock(s) PROVE SlotsInv'
  BY <1>2, <1>a DEF AcquireLock, Goto, HeartbeatTypeOK, SlotsInv
<1>3. ASSUME NEW s \in Slots, SkipLocked(s) PROVE SlotsInv'
  BY <1>3, <1>a DEF SkipLocked, Goto, HeartbeatTypeOK, SlotsInv
<1>4. ASSUME NEW s \in Slots, RecoveryDecides(s) PROVE SlotsInv'
  BY <1>4, <1>a DEF RecoveryDecides, Goto, HeartbeatTypeOK, SlotsInv
<1>5. ASSUME NEW s \in Slots, WorkSucceeds(s) \/ WorkFails(s) PROVE SlotsInv'
  BY <1>5, <1>a DEF WorkSucceeds, WorkFails, Goto, HeartbeatTypeOK, SlotsInv
<1>6. ASSUME NEW s \in Slots, LoadHeartbeat(s) \/ TruncateHeartbeat(s) PROVE SlotsInv'
  BY <1>6, <1>a DEF LoadHeartbeat, TruncateHeartbeat, Goto, HeartbeatTypeOK, SlotsInv
<1>7. ASSUME NEW s \in Slots, FillHeartbeat(s) PROVE SlotsInv'
  BY <1>7, <1>a DEF FillHeartbeat, Goto, HeartbeatTypeOK, SlotsInv
<1>8. ASSUME NEW s \in Slots, ReleaseLock(s) PROVE SlotsInv'
  BY <1>8, <1>a DEF ReleaseLock, Goto, HeartbeatTypeOK, SlotsInv
<1>9. ASSUME NEW s \in Slots, Killed(s) PROVE SlotsInv'
  BY <1>9, <1>a DEF Killed, HeartbeatTypeOK, SlotsInv
<1>13. ASSUME NEW s \in Slots, Interrupted(s) PROVE SlotsInv'
  BY <1>13, <1>a DEF Interrupted, HeartbeatTypeOK, SlotsInv
<1>10. ASSUME NEW c \in Commands, BreakStaleLock(c) PROVE SlotsInv'
  BY <1>10, <1>a DEF BreakStaleLock, HeartbeatTypeOK, SlotsInv
<1>11. CASE NextDay
  BY <1>11, <1>a DEF NextDay, HeartbeatTypeOK, SlotsInv
<1>12. CASE UNCHANGED heartbeatVars
  BY <1>12 DEF heartbeatVars, SlotsInv
<1> QED
  BY <1>1, <1>2, <1>3, <1>4, <1>5, <1>6, <1>7, <1>8, <1>9, <1>10, <1>11, <1>12, <1>13
     DEF HeartbeatNext

LEMMA DaysKept ==
  ASSUME HeartbeatTypeOK, DaysInv, [HeartbeatNext]_heartbeatVars
  PROVE  DaysInv'
<1>a. MaxDay \in Nat \ {0} /\ day \in 1..MaxDay /\ attempts \in [1..MaxDay -> Nat]
  BY BoundsAssumption DEF BoundsAssumption, HeartbeatTypeOK
\* A step of a run leaves the day, and the other days, alone.
<1>b. ASSUME day' = day, done' \subseteq done \cup {day}, blurred' \subseteq blurred \cup {day},
             unearned' \subseteq unearned \cup {day}, unearned' \subseteq blurred',
             \A d \in 1..MaxDay : d # day => attempts'[d] = attempts[d]
      PROVE  DaysInv'
  BY <1>a, <1>b DEF DaysInv
<1>1. ASSUME NEW s \in Slots, RecoveryDecides(s) PROVE DaysInv'
  <2>1. \A d \in 1..MaxDay : d # day => attempts'[d] = attempts[d]
    BY <1>1, <1>a DEF RecoveryDecides
  <2> QED BY <1>1, <1>b, <2>1 DEF RecoveryDecides, DaysInv
<1>2. ASSUME NEW s \in Slots, WorkSucceeds(s) \/ SkipLocked(s) \/ FillHeartbeat(s) \/ Killed(s)
                               \/ Interrupted(s)
      PROVE  DaysInv'
  <2>1. CASE WorkSucceeds(s)
    BY <2>1, <1>b DEF WorkSucceeds, DaysInv
  <2>2. CASE SkipLocked(s)
    BY <2>2, <1>b DEF SkipLocked, DaysInv
  <2>3. CASE FillHeartbeat(s)
    BY <2>3, <1>b DEF FillHeartbeat, DaysInv
  <2>4. CASE Killed(s)
    BY <2>4, <1>b DEF Killed, DaysInv
  <2>5. CASE Interrupted(s)
    BY <2>5, <1>b DEF Interrupted, DaysInv
  <2> QED BY <1>2, <2>1, <2>2, <2>3, <2>4, <2>5
<1>3. CASE NextDay
  <2>1. /\ day' = day + 1 /\ UNCHANGED <<done, blurred, unearned, attempts>>
        /\ done \subseteq 1..day /\ blurred \subseteq 1..day /\ unearned \subseteq blurred
    BY <1>3 DEF NextDay, DaysInv
  <2>2. \A d \in 1..day : d \in 1..day'
    BY <1>a, <2>1
  <2>3. \A d \in 1..MaxDay : d > day' => attempts'[d] = 0
    BY <1>a, <2>1 DEF DaysInv
  <2> QED BY <2>1, <2>2, <2>3 DEF DaysInv
<1>4. ASSUME UNCHANGED <<day, done, blurred, unearned, attempts>> PROVE DaysInv'
  BY <1>4 DEF DaysInv
<1>5. ASSUME NEW s \in Slots,
             \/ Trigger(s) \/ AcquireLock(s) \/ WorkFails(s)
             \/ LoadHeartbeat(s) \/ TruncateHeartbeat(s) \/ ReleaseLock(s)
      PROVE  DaysInv'
  BY <1>4, <1>5 DEF Trigger, AcquireLock, WorkFails, LoadHeartbeat, TruncateHeartbeat, ReleaseLock
<1>6. CASE (\E c \in Commands : BreakStaleLock(c)) \/ UNCHANGED heartbeatVars
  BY <1>4, <1>6 DEF BreakStaleLock, heartbeatVars
<1> QED BY <1>1, <1>2, <1>3, <1>5, <1>6 DEF HeartbeatNext

\* The lists only grow, and a run's own records are of its day.
LEMMA DailyKept ==
  ASSUME HeartbeatInv, [HeartbeatNext]_heartbeatVars
  PROVE  DailyInv'
<1>a. /\ CommandOf \in [Slots -> Commands] /\ MaxDay \in Nat \ {0} /\ day \in 1..MaxDay
      /\ \A s \in Slots : loaded[s] \in Records
      /\ heartbeat \in Records /\ Load \in Records
      /\ status \in [Slots -> {"success", "failed"}] /\ loaded \in [Slots -> Records]
      /\ ran \in [Slots -> 0..(MaxDay + 1)]
      /\ stage \in [Slots -> {"idle", "starting", "gates", "working", "loading",
                              "truncating", "filling", "releasing"}]
      /\ "daily_job" \in Commands
  BY CommandOfAssumption, BoundsAssumption
     DEF CommandOfAssumption, BoundsAssumption, HeartbeatInv, HeartbeatTypeOK, NoRecords,
         Records, Load, Commands
<1> DEFINE Sound(r) == Real(r) /\ Used(r)
<1>b. /\ Sound(heartbeat["daily_job"]) /\ \A s \in Slots : Sound(loaded[s]["daily_job"])
      /\ Sound(Load["daily_job"]) /\ Sound(Unrecorded)
  BY <1>a DEF HeartbeatInv, DailyInv, Load, NoRecords, Real, Used
\* What was true of a record stays true ...
<1>c. /\ done \subseteq done' /\ unearned \subseteq unearned'
      /\ \A s \in Daily : ran[s] # MaxDay + 1 => ran'[s] # MaxDay + 1
  <2>1. ASSUME NEW s \in Slots, Trigger(s)
        PROVE  \A t \in Daily : ran[t] # MaxDay + 1 => ran'[t] # MaxDay + 1
    BY <2>1, <1>a DEF Trigger, Daily
  <2>2. \/ UNCHANGED ran
        \/ \E s \in Slots : Trigger(s)
    BY DEF HeartbeatNext, heartbeatVars, AcquireLock, SkipLocked, RecoveryDecides, WorkSucceeds,
           WorkFails, LoadHeartbeat, TruncateHeartbeat, FillHeartbeat, ReleaseLock, Killed,
           Interrupted, BreakStaleLock, NextDay
  <2>3. done \subseteq done' /\ unearned \subseteq unearned'
    BY DEF HeartbeatNext, heartbeatVars, Trigger, AcquireLock, SkipLocked, RecoveryDecides,
           WorkSucceeds, WorkFails, LoadHeartbeat, TruncateHeartbeat, FillHeartbeat, ReleaseLock,
           Killed, Interrupted, BreakStaleLock, NextDay
  <2> QED BY <2>1, <2>2, <2>3
<1>d. \A r : Sound(r) => Sound(r)'
  BY <1>c DEF Real, Used
\* ... and the records of a run are those it loaded, with its own.
<1>1. \A s \in Slots : Sound(loaded[s]["daily_job"])'
  <2>1. \A t \in Slots : loaded'[t] \in {loaded[t], Load, NoRecords}
    BY <1>a DEF HeartbeatNext, heartbeatVars, Trigger, AcquireLock, SkipLocked, RecoveryDecides,
           WorkSucceeds, WorkFails, LoadHeartbeat, TruncateHeartbeat, FillHeartbeat, ReleaseLock,
           Killed, Interrupted, BreakStaleLock, NextDay
  <2>2. NoRecords["daily_job"] = Unrecorded
    BY <1>a DEF NoRecords
  <2>3. \A t \in Slots : Sound(loaded'[t]["daily_job"])
    BY <1>b, <2>1, <2>2
  <2> QED BY <1>d, <2>3
<1>2. Sound(heartbeat["daily_job"])'
  <2>1. CASE heartbeat' = heartbeat
    BY <1>b, <1>d, <2>1
  <2>2. ASSUME NEW s \in Slots, FillHeartbeat(s) PROVE Sound(heartbeat["daily_job"])'
    <3>1. /\ stage[s] = "filling" /\ ran[s] = day /\ UNCHANGED <<done, unearned>>
          /\ heartbeat' = [loaded[s] EXCEPT ![CommandOf[s]] = [day |-> ran[s], status |-> status[s]]]
      BY <2>2 DEF FillHeartbeat, Goto, HeartbeatInv, SlotsInv
    <3>2. CASE CommandOf[s] # "daily_job"
      <4>1. heartbeat'["daily_job"] = loaded[s]["daily_job"]
        BY <1>a, <3>1, <3>2 DEF Records
      <4> QED BY <1>b, <1>d, <4>1
    <3>3. CASE CommandOf[s] = "daily_job"
      <4>1. heartbeat'["daily_job"] = [day |-> day, status |-> status[s]]
        BY <1>a, <3>1, <3>3 DEF Records
      <4>2. status[s] = "success" => day \in done \cup unearned
        BY <3>1, <3>3 DEF HeartbeatInv, DailyInv, Daily
      <4>3. Real(heartbeat'["daily_job"])
        BY <4>1, <4>2 DEF Real
      <4>4. Used(heartbeat'["daily_job"])
        BY <1>a, <3>1, <3>3 DEF Used, Daily
      <4> QED BY <1>d, <4>3, <4>4
    <3> QED BY <3>2, <3>3
  <2>3. heartbeat' = heartbeat \/ \E s \in Slots : FillHeartbeat(s)
    BY DEF HeartbeatNext, heartbeatVars, Trigger, AcquireLock, SkipLocked, RecoveryDecides,
           WorkSucceeds, WorkFails, LoadHeartbeat, TruncateHeartbeat, ReleaseLock,
           Killed, Interrupted, BreakStaleLock, NextDay
  <2> QED BY <2>1, <2>2, <2>3
\* A daily run reports success only with a reason.
<1>3. ASSUME NEW s \in Daily,
             stage'[s] \in {"loading", "truncating", "filling"}, status'[s] = "success"
      PROVE  day' \in done' \cup unearned'
  <2>a. s \in Slots /\ CommandOf[s] = "daily_job"
    BY DEF Daily
  <2>b. stage[s] \in {"loading", "truncating", "filling"} /\ status[s] = "success"
          => day \in done \cup unearned
    BY DEF HeartbeatInv, DailyInv
  <2>c. ASSUME UNCHANGED day, stage'[s] = stage[s], status'[s] = status[s]
        PROVE  day' \in done' \cup unearned'
    BY <1>3, <1>c, <2>b, <2>c
  <2>1. ASSUME NEW t \in Slots, t # s,
               \/ Trigger(t) \/ AcquireLock(t) \/ SkipLocked(t) \/ RecoveryDecides(t)
               \/ WorkSucceeds(t) \/ WorkFails(t) \/ LoadHeartbeat(t) \/ TruncateHeartbeat(t)
               \/ FillHeartbeat(t) \/ ReleaseLock(t) \/ Killed(t) \/ Interrupted(t)
        PROVE  UNCHANGED day /\ stage'[s] = stage[s] /\ status'[s] = status[s]
    BY <2>1, <2>a, <1>a DEF Goto, Trigger, AcquireLock, SkipLocked, RecoveryDecides,
           WorkSucceeds, WorkFails, LoadHeartbeat, TruncateHeartbeat, FillHeartbeat, ReleaseLock,
           Killed, Interrupted
  <2>2. CASE Trigger(s) \/ AcquireLock(s) \/ RecoveryDecides(s) \/ ReleaseLock(s) \/ Killed(s)
    <3>1. ~RecoveryDecides(s)
      BY <2>a DEF RecoveryDecides, Goto, HeartbeatInv, SlotsInv
    <3> QED BY <1>3, <1>a, <2>2, <2>a, <3>1 DEF Goto, Trigger, AcquireLock, ReleaseLock, Killed
  <2>3. CASE SkipLocked(s) \/ Interrupted(s)
    BY <2>3, <2>a DEF SkipLocked, Interrupted
  <2>4. CASE WorkSucceeds(s)
    BY <2>4, <2>a DEF WorkSucceeds
  <2>5. CASE WorkFails(s)
    BY <1>3, <1>a, <2>5, <2>a DEF WorkFails
  <2>6. CASE LoadHeartbeat(s) \/ TruncateHeartbeat(s) \/ FillHeartbeat(s)
    <3>1. /\ day' = day /\ status'[s] = "success" /\ status' = status
          /\ stage[s] \in {"loading", "truncating", "filling"} /\ UNCHANGED <<done, unearned>>
      BY <1>3, <2>6, <2>a, <1>a DEF Goto, LoadHeartbeat, TruncateHeartbeat, FillHeartbeat
    <3> QED BY <2>b, <3>1
  <2>7. CASE NextDay
    BY <1>3, <2>7, <2>a, <1>a DEF NextDay
  <2>8. CASE (\E c \in Commands : BreakStaleLock(c)) \/ UNCHANGED heartbeatVars
    BY <2>8, <2>c DEF BreakStaleLock, heartbeatVars
  <2> QED BY <2>1, <2>2, <2>3, <2>4, <2>5, <2>6, <2>7, <2>8, <2>c DEF HeartbeatNext
\* A daily run that is over has left its record, or something happened that day.
<1>4. ASSUME NEW s \in Daily,
             stage'[s] = "releasing" \/ (stage'[s] = "idle" /\ ran'[s] = day')
      PROVE  \/ heartbeat'["daily_job"] # Unrecorded /\ heartbeat'["daily_job"].day = day'
             \/ day' \in blurred'
  <2>a. /\ s \in Slots /\ CommandOf[s] = "daily_job"
        /\ stage[s] = "releasing" \/ (stage[s] = "idle" /\ ran[s] = day)
             => \/ heartbeat["daily_job"] # Unrecorded /\ heartbeat["daily_job"].day = day
                \/ day \in blurred
    BY DEF HeartbeatInv, DailyInv, Daily
  <2> DEFINE Goal == \/ heartbeat'["daily_job"] # Unrecorded /\ heartbeat'["daily_job"].day = day'
                     \/ day' \in blurred'
  <2>b. ASSUME UNCHANGED <<day, heartbeat, ran>>, blurred \subseteq blurred', stage'[s] = stage[s]
        PROVE  Goal
    BY <1>4, <2>a, <2>b
  <2>1. ASSUME NEW t \in Slots, FillHeartbeat(t) PROVE Goal
    <3>1. /\ stage[t] = "filling" /\ ran[t] = day /\ UNCHANGED <<day, ran>>
          /\ stage' = [stage EXCEPT ![t] = "releasing"]
          /\ heartbeat' = [loaded[t] EXCEPT ![CommandOf[t]] = [day |-> ran[t], status |-> status[t]]]
          /\ blurred' = IF \E c \in Commands \ {CommandOf[t]} : loaded[t][c] # heartbeat[c]
                        THEN blurred \cup {day} ELSE blurred
      BY <2>1 DEF FillHeartbeat, Goto, HeartbeatInv, SlotsInv
    <3>2. CASE CommandOf[t] = "daily_job"
      <4>1. heartbeat'["daily_job"] = [day |-> day, status |-> status[t]]
        BY <1>a, <3>1, <3>2 DEF Records
      <4>2. heartbeat'["daily_job"] \in Record
        BY <1>a, <4>1 DEF Record
      <4> QED BY <3>1, <4>1, <4>2, UnrecordedAssumption DEF UnrecordedAssumption
    <3>3. CASE CommandOf[t] # "daily_job"
      <4>1. heartbeat'["daily_job"] = loaded[t]["daily_job"] /\ stage'[s] = stage[s]
        BY <1>a, <2>a, <3>1, <3>3 DEF Records
      <4>2. heartbeat'["daily_job"] = heartbeat["daily_job"] \/ day \in blurred'
        BY <1>a, <3>1, <3>3, <4>1
      <4> QED BY <1>4, <2>a, <3>1, <4>1, <4>2
    <3> QED BY <3>2, <3>3
  <2>2. ASSUME NEW t \in Slots, t # s,
               \/ AcquireLock(t) \/ SkipLocked(t) \/ RecoveryDecides(t)
               \/ WorkSucceeds(t) \/ WorkFails(t) \/ LoadHeartbeat(t) \/ TruncateHeartbeat(t)
               \/ ReleaseLock(t) \/ Killed(t) \/ Interrupted(t)
        PROVE  Goal
    <3>1. UNCHANGED <<day, heartbeat, ran>> /\ blurred \subseteq blurred' /\ stage'[s] = stage[s]
      BY <2>2, <2>a, <1>a DEF Goto, AcquireLock, SkipLocked, RecoveryDecides,
           WorkSucceeds, WorkFails, LoadHeartbeat, TruncateHeartbeat, ReleaseLock, Killed,
           Interrupted
    <3> QED BY <2>b, <3>1
  <2>3. CASE \/ AcquireLock(s) \/ SkipLocked(s) \/ RecoveryDecides(s) \/ WorkSucceeds(s)
             \/ WorkFails(s) \/ Interrupted(s) \/ LoadHeartbeat(s) \/ TruncateHeartbeat(s)
    BY <1>4, <1>a, <2>3, <2>a DEF Goto, AcquireLock, SkipLocked, RecoveryDecides,
           WorkSucceeds, WorkFails, Interrupted, LoadHeartbeat, TruncateHeartbeat
  <2>4. ASSUME NEW t \in Slots, Trigger(t) PROVE Goal
    <3>1. CASE t = s
      BY <1>4, <1>a, <2>4, <2>a, <3>1 DEF Goto, Trigger
    <3>2. CASE t # s
      BY <1>4, <1>a, <2>4, <2>a, <3>2 DEF Goto, Trigger
    <3> QED BY <3>1, <3>2
  <2>5. CASE ReleaseLock(s)
    BY <2>5, <2>a DEF ReleaseLock, Goto
  <2>6. CASE Killed(s)
    BY <2>6 DEF Killed
  <2>7. CASE NextDay
    BY <1>4, <2>7, <2>a, <1>a DEF NextDay, HeartbeatInv, SlotsInv
  <2>8. CASE (\E c \in Commands : BreakStaleLock(c)) \/ UNCHANGED heartbeatVars
    BY <2>8, <2>b DEF BreakStaleLock, heartbeatVars
  <2> QED BY <2>1, <2>2, <2>3, <2>4, <2>5, <2>6, <2>7, <2>8 DEF HeartbeatNext
<1> QED BY <1>1, <1>2, <1>3, <1>4 DEF DailyInv

\* The file as recovery reads it, whole or torn.
LEMMA LoadedRecords ==
  ASSUME HeartbeatInv
  PROVE  /\ Load \in Records /\ Real(Load["daily_job"]) /\ Used(Load["daily_job"])
         /\ FailureReason = "unknown" => Answered(Load["production_recovery"])
         /\ ~torn => Load = heartbeat
<1>1. NoRecords \in Records /\ heartbeat \in Records
  BY DEF HeartbeatInv, HeartbeatTypeOK, NoRecords, Records
<1>2. "daily_job" \in Commands /\ "production_recovery" \in Commands
  BY DEF Commands
<1> QED
  BY <1>1, <1>2 DEF HeartbeatInv, DailyInv, RecoveryInv, Load, NoRecords, Real, Used, Answered

\* Recovery declines only a day that needs it no more, or one that is blurred.
LEMMA DecidesWithReason ==
  ASSUME HeartbeatInv, NEW s \in Slots, RecoveryDecides(s), FailureReason = "unknown"
  PROVE  Excused(day)'
<1>a. /\ MaxDay \in Nat \ {0} /\ day \in 1..MaxDay /\ attempts \in [1..MaxDay -> Nat]
      /\ UNCHANGED <<day, done, heartbeat, ran>>
      /\ unearned \subseteq blurred /\ blurred \subseteq blurred'
      /\ ran \in [Slots -> 0..(MaxDay + 1)]
  BY BoundsAssumption DEF BoundsAssumption, HeartbeatInv, HeartbeatTypeOK, DaysInv, RecoveryDecides
<1>1. CASE Retries(Load)
  <2>1. attempts'[day] = attempts[day] + 1
    BY <1>1, <1>a DEF RecoveryDecides
  <2> QED BY <1>1, <1>a, <2>1 DEF Excused
<1>2. CASE ~Retries(Load)
  <2>a. UNCHANGED attempts
    BY <1>2 DEF RecoveryDecides
  <2> DEFINE daily == Load["daily_job"]
             own == Load["production_recovery"]
  <2>1. CASE torn \/ DailyPending
    BY <2>1, <1>a DEF RecoveryDecides, Excused
  <2>2. CASE own # Unrecorded /\ own.day = day
    BY <2>2, <2>a, <1>a, LoadedRecords DEF Answered, Excused
  <2>3. CASE ~torn /\ ~DailyPending /\ daily # Unrecorded /\ daily.status = "success"
    <3>1. daily = heartbeat["daily_job"] /\ daily.day \in done \cup unearned
      BY <2>3, LoadedRecords DEF Real
    <3>2. PICK t \in Daily : ran[t] # MaxDay + 1
      BY <2>3, LoadedRecords DEF Used
    <3>3. t \in Slots /\ stage[t] = "idle" /\ ran[t] = day
      BY <2>3, <3>2, <1>a DEF DailyPending, Daily, HeartbeatInv, SlotsInv
    <3>4. daily.day = day \/ day \in blurred
      BY <3>1, <3>2, <3>3 DEF HeartbeatInv, DailyInv
    <3> QED BY <3>1, <3>4, <1>a DEF Excused
  <2> QED BY <1>2, <2>1, <2>2, <2>3 DEF Retries
<1> QED BY <1>1, <1>2

\* The days recovery left alone, and what its records stand for.
LEMMA RecoveryKept ==
  ASSUME HeartbeatInv, [HeartbeatNext]_heartbeatVars
  PROVE  RecoveryInv'
<1>a. /\ CommandOf \in [Slots -> Commands] /\ MaxDay \in Nat \ {0} /\ day \in 1..MaxDay
      /\ \A s \in Slots : loaded[s] \in Records
      /\ heartbeat \in Records /\ Load \in Records /\ NoRecords \in Records
      /\ loaded \in [Slots -> Records]
      /\ attempts \in [1..MaxDay -> Nat]
      /\ stage \in [Slots -> {"idle", "starting", "gates", "working", "loading",
                              "truncating", "filling", "releasing"}]
      /\ "production_recovery" \in Commands
  BY CommandOfAssumption, BoundsAssumption
     DEF CommandOfAssumption, BoundsAssumption, HeartbeatInv, HeartbeatTypeOK, NoRecords,
         Records, Load, Commands
\* A day that is excused stays so.
<1>b. done \subseteq done' /\ blurred \subseteq blurred'
  BY DEF HeartbeatNext, heartbeatVars, Trigger, AcquireLock, SkipLocked, RecoveryDecides,
         WorkSucceeds, WorkFails, LoadHeartbeat, TruncateHeartbeat, FillHeartbeat, ReleaseLock,
         Killed, Interrupted, BreakStaleLock, NextDay
<1>c. \A d \in 1..MaxDay : attempts[d] >= 1 => attempts'[d] >= 1
  <2>1. ASSUME NEW s \in Slots, RecoveryDecides(s)
        PROVE  \A d \in 1..MaxDay : attempts[d] >= 1 => attempts'[d] >= 1
    BY <2>1, <1>a DEF RecoveryDecides
  <2>2. UNCHANGED attempts \/ \E s \in Slots : RecoveryDecides(s)
    BY DEF HeartbeatNext, heartbeatVars, Trigger, AcquireLock, SkipLocked,
         WorkSucceeds, WorkFails, LoadHeartbeat, TruncateHeartbeat, FillHeartbeat, ReleaseLock,
         Killed, Interrupted, BreakStaleLock, NextDay
  <2> QED BY <2>1, <2>2
<1>d. \A d \in 1..MaxDay : Excused(d) => Excused(d)'
  BY <1>b, <1>c DEF Excused
<1>e. ASSUME NEW r \in Record \cup {Unrecorded}, Answered(r) PROVE Answered(r)'
  BY <1>d, <1>e DEF Answered, Record
<1>1. ASSUME FailureReason = "unknown", NEW s \in Slots
      PROVE  Answered(loaded[s]["production_recovery"])'
  <2>1. loaded'[s] \in {loaded[s], Load, NoRecords}
    BY <1>a DEF HeartbeatNext, heartbeatVars, Trigger, AcquireLock, SkipLocked, RecoveryDecides,
           WorkSucceeds, WorkFails, LoadHeartbeat, TruncateHeartbeat, FillHeartbeat, ReleaseLock,
           Killed, Interrupted, BreakStaleLock, NextDay
  <2>2. NoRecords["production_recovery"] = Unrecorded
    BY <1>a DEF NoRecords
  <2>3. /\ loaded'[s]["production_recovery"] \in Record \cup {Unrecorded}
        /\ Answered(loaded'[s]["production_recovery"])
    BY <1>1, <1>a, <2>1, <2>2, LoadedRecords DEF Records, HeartbeatInv, RecoveryInv, Answered
  <2> QED BY <1>e, <2>3
\* A recovery run that is past its gates has a reason to be.
<1>2. ASSUME FailureReason = "unknown", NEW s \in Recoveries,
             stage'[s] \in {"working", "loading", "truncating", "filling"}
      PROVE  Excused(day)'
  <2>a. /\ s \in Slots /\ CommandOf[s] = "production_recovery"
        /\ stage[s] \in {"working", "loading", "truncating", "filling"} => Excused(day)
    BY <1>2 DEF HeartbeatInv, RecoveryInv, Recoveries
  <2>b. ASSUME UNCHANGED day, stage[s] \in {"working", "loading", "truncating", "filling"}
        PROVE  Excused(day)'
    BY <1>a, <1>d, <2>a, <2>b
  <2>1. ASSUME NEW t \in Slots, t # s,
               \/ Trigger(t) \/ AcquireLock(t) \/ SkipLocked(t) \/ RecoveryDecides(t)
               \/ WorkSucceeds(t) \/ WorkFails(t) \/ LoadHeartbeat(t) \/ TruncateHeartbeat(t)
               \/ FillHeartbeat(t) \/ ReleaseLock(t) \/ Killed(t) \/ Interrupted(t)
        PROVE  UNCHANGED day /\ stage'[s] = stage[s]
    BY <2>1, <2>a, <1>a DEF Goto, Trigger, AcquireLock, SkipLocked, RecoveryDecides,
           WorkSucceeds, WorkFails, LoadHeartbeat, TruncateHeartbeat, FillHeartbeat, ReleaseLock,
           Killed, Interrupted
  <2>2. CASE RecoveryDecides(s)
    BY <1>2, <2>2, <2>a, DecidesWithReason
  <2>3. CASE SkipLocked(s) \/ Interrupted(s)
    BY <2>3 DEF SkipLocked, Interrupted, Excused
  <2>4. CASE WorkSucceeds(s) \/ WorkFails(s) \/ LoadHeartbeat(s) \/ TruncateHeartbeat(s)
    BY <2>4, <2>b DEF Goto, WorkSucceeds, WorkFails, LoadHeartbeat, TruncateHeartbeat
  <2>5. CASE Trigger(s) \/ AcquireLock(s) \/ FillHeartbeat(s) \/ ReleaseLock(s) \/ Killed(s)
    BY <1>2, <1>a, <2>5, <2>a DEF Goto, Trigger, AcquireLock, FillHeartbeat, ReleaseLock, Killed
  <2>6. CASE NextDay
    BY <1>2, <2>6, <2>a DEF NextDay
  <2>7. CASE (\E c \in Commands : BreakStaleLock(c)) \/ UNCHANGED heartbeatVars
    BY <1>2, <2>7, <2>b DEF BreakStaleLock, heartbeatVars
  <2> QED BY <1>2, <2>1, <2>2, <2>3, <2>4, <2>5, <2>6, <2>7, <2>b DEF HeartbeatNext
<1>3. ASSUME FailureReason = "unknown" PROVE Answered(heartbeat["production_recovery"])'
  <2>a. Answered(heartbeat["production_recovery"])
    BY <1>3 DEF HeartbeatInv, RecoveryInv
  <2>1. CASE heartbeat' = heartbeat
    BY <1>a, <1>e, <2>1, <2>a DEF Records
  <2>2. ASSUME NEW s \in Slots, FillHeartbeat(s)
        PROVE  Answered(heartbeat["production_recovery"])'
    <3>1. /\ stage[s] = "filling" /\ ran[s] = day
          /\ heartbeat' = [loaded[s] EXCEPT ![CommandOf[s]] = [day |-> ran[s], status |-> status[s]]]
      BY <2>2 DEF FillHeartbeat, Goto, HeartbeatInv, SlotsInv
    <3>2. CASE CommandOf[s] # "production_recovery"
      <4>1. /\ heartbeat'["production_recovery"] = loaded[s]["production_recovery"]
            /\ loaded[s]["production_recovery"] \in Record \cup {Unrecorded}
        BY <1>a, <3>1, <3>2 DEF Records
      <4>2. Answered(loaded[s]["production_recovery"])
        BY <1>3 DEF HeartbeatInv, RecoveryInv
      <4> QED BY <1>e, <4>1, <4>2
    <3>3. CASE CommandOf[s] = "production_recovery"
      <4>1. heartbeat'["production_recovery"].day = day
        BY <1>a, <3>1, <3>3 DEF Records
      <4>2. Excused(day)
        BY <1>3, <3>1, <3>3 DEF HeartbeatInv, RecoveryInv, Recoveries
      <4> QED BY <1>a, <1>d, <4>1, <4>2 DEF Answered
    <3> QED BY <3>2, <3>3
  <2>3. heartbeat' = heartbeat \/ \E s \in Slots : FillHeartbeat(s)
    BY DEF HeartbeatNext, heartbeatVars, Trigger, AcquireLock, SkipLocked, RecoveryDecides,
           WorkSucceeds, WorkFails, LoadHeartbeat, TruncateHeartbeat, ReleaseLock,
           Killed, Interrupted, BreakStaleLock, NextDay
  <2> QED BY <2>1, <2>2, <2>3
<1>4. badSkips' \subseteq blurred'
  <2>a. badSkips \subseteq blurred
    BY DEF HeartbeatInv, RecoveryInv
  <2>1. ASSUME NEW s \in Slots, RecoveryDecides(s), badSkips' # badSkips
        PROVE  badSkips' \subseteq blurred'
    <3>1. /\ FailureReason = "unknown" /\ ~Retries(Load) /\ attempts[day] = 0 /\ day \notin done
          /\ badSkips' = badSkips \cup {day} /\ UNCHANGED <<day, done>> /\ attempts' = attempts
      BY <2>1 DEF RecoveryDecides
    <3>2. Excused(day)'
      BY <2>1, <3>1, DecidesWithReason
    <3>3. day \in blurred'
      BY <3>1, <3>2 DEF Excused
    <3> QED BY <1>b, <2>a, <3>1, <3>3
  <2>2. badSkips' = badSkips \/ \E s \in Slots : RecoveryDecides(s)
    BY DEF HeartbeatNext, heartbeatVars, Trigger, AcquireLock, SkipLocked,
           WorkSucceeds, WorkFails, LoadHeartbeat, TruncateHeartbeat, FillHeartbeat, ReleaseLock,
           Killed, Interrupted, BreakStaleLock, NextDay
  <2> QED BY <1>b, <2>1, <2>2, <2>a
<1> QED BY <1>1, <1>2, <1>3, <1>4 DEF RecoveryInv

\* No second rerun on a day whose records are to be trusted.
LEMMA AttemptsKept ==
  ASSUME HeartbeatInv, [HeartbeatNext]_heartbeatVars
  PROVE  AttemptsInv'
<1>a. /\ CommandOf \in [Slots -> Commands] /\ MaxDay \in Nat \ {0} /\ day \in 1..MaxDay
      /\ \A s \in Slots : loaded[s] \in Records
      /\ heartbeat \in Records /\ owns \in [Slots -> BOOLEAN]
      /\ attempts \in [1..MaxDay -> Nat]
      /\ stage \in [Slots -> {"idle", "starting", "gates", "working", "loading",
                              "truncating", "filling", "releasing"}]
      /\ "production_recovery" \in Commands
  BY CommandOfAssumption, BoundsAssumption
     DEF CommandOfAssumption, BoundsAssumption, HeartbeatInv, HeartbeatTypeOK, Commands
<1> DEFINE Written == /\ heartbeat["production_recovery"] # Unrecorded
                      /\ heartbeat["production_recovery"].day = day
           AtWork(s) == owns[s] /\ stage[s] \in {"working", "loading", "truncating", "filling"}
<1>b. /\ \A d \in (1..MaxDay) \ blurred : attempts[d] <= 1
      /\ attempts[day] >= 1 /\ day \notin blurred => Written \/ \E s \in Recoveries : AtWork(s)
  BY DEF HeartbeatInv, AttemptsInv, RetriedOnce
<1> HIDE DEF Written, AtWork
\* A step that starts no rerun, and after which the last one can still be seen.
<1>c. ASSUME UNCHANGED <<day, attempts>>, blurred \subseteq blurred',
             day \in blurred' \/ (Written => Written'),
             \A s \in Recoveries : AtWork(s) => AtWork(s)' \/ Written' \/ day \in blurred'
      PROVE  AttemptsInv'
  <2>1. RetriedOnce'
    BY <1>b, <1>c DEF RetriedOnce
  <2>2. attempts'[day'] >= 1 /\ day' \notin blurred' => Written' \/ \E s \in Recoveries : AtWork(s)'
    BY <1>b, <1>c
  <2> QED BY <2>1, <2>2 DEF AttemptsInv, Written, AtWork
<1>1. ASSUME NEW t \in Slots, RecoveryDecides(t) PROVE AttemptsInv'
  <2>1. /\ owns[t] /\ CommandOf[t] = "production_recovery" /\ stage[t] = "gates"
        /\ UNCHANGED <<day, owns, heartbeat>> /\ blurred \subseteq blurred'
        /\ \A s \in Slots : s # t => stage'[s] = stage[s]
    BY <1>1, <1>a DEF RecoveryDecides, Goto, HeartbeatInv, SlotsInv
  <2>2. \A s \in Recoveries : ~AtWork(s)
    BY <2>1, <1>a DEF AtWork, Recoveries, HeartbeatInv, SlotsInv
  <2>3. CASE ~Retries(Load)
    <3>1. UNCHANGED attempts /\ (Written => Written')
      BY <1>1, <2>1, <2>3 DEF RecoveryDecides, Written
    <3> QED BY <1>c, <2>1, <2>2, <3>1
  <2>4. CASE Retries(Load)
    <3>1. /\ attempts' = [attempts EXCEPT ![day] = @ + 1] /\ stage'[t] = "working"
          /\ torn => day \in blurred'
      BY <1>1, <1>a, <2>4 DEF RecoveryDecides, Goto
    <3>2. ~torn => ~Written
      BY <2>4, LoadedRecords DEF Retries, Written
    <3>3. day \notin blurred' => attempts[day] = 0
      BY <1>a, <1>b, <2>1, <2>2, <3>1, <3>2
    <3>4. RetriedOnce'
      BY <1>a, <1>b, <2>1, <3>1, <3>3 DEF RetriedOnce
    <3>5. t \in Recoveries /\ owns'[t] /\ stage'[t] = "working"
      BY <2>1, <3>1 DEF Recoveries
    <3> QED BY <3>4, <3>5 DEF AttemptsInv
  <2> QED BY <2>3, <2>4
<1>2. ASSUME NEW t \in Slots, FillHeartbeat(t) PROVE AttemptsInv'
  <2>1. /\ stage[t] = "filling" /\ ran[t] = day /\ UNCHANGED <<day, ran, owns, attempts>>
        /\ stage' = [stage EXCEPT ![t] = "releasing"]
        /\ heartbeat' = [loaded[t] EXCEPT ![CommandOf[t]] = [day |-> ran[t], status |-> status[t]]]
        /\ blurred' = IF \E c \in Commands \ {CommandOf[t]} : loaded[t][c] # heartbeat[c]
                      THEN blurred \cup {day} ELSE blurred
    BY <1>2 DEF FillHeartbeat, Goto, HeartbeatInv, SlotsInv
  <2>2. \A s \in Recoveries : s # t => (AtWork(s) => AtWork(s)')
    BY <1>a, <2>1 DEF AtWork, Recoveries
  <2>3. CASE CommandOf[t] = "production_recovery"
    <3>1. heartbeat'["production_recovery"] = [day |-> day, status |-> status[t]]
      BY <1>a, <2>1, <2>3 DEF Records
    <3>2. heartbeat'["production_recovery"] \in Record
      BY <1>a, <3>1 DEF Record, HeartbeatInv, HeartbeatTypeOK
    <3>3. Written'
      BY <2>1, <3>1, <3>2, UnrecordedAssumption DEF Written, UnrecordedAssumption
    <3> QED BY <1>c, <2>1, <2>2, <3>3
  <2>4. CASE CommandOf[t] # "production_recovery"
    <3>1. heartbeat'["production_recovery"] = loaded[t]["production_recovery"]
      BY <1>a, <2>1, <2>4 DEF Records
    <3>2. heartbeat'["production_recovery"] = heartbeat["production_recovery"] \/ day \in blurred'
      BY <1>a, <2>1, <2>4, <3>1
    <3>3. day \in blurred' \/ (Written => Written')
      BY <2>1, <3>2 DEF Written
    <3>4. t \notin Recoveries
      BY <2>4 DEF Recoveries
    <3> QED BY <1>c, <2>1, <2>2, <3>3, <3>4
  <2> QED BY <2>3, <2>4
<1>3. ASSUME NEW t \in Slots,
             \/ Trigger(t) \/ AcquireLock(t) \/ SkipLocked(t)
             \/ WorkSucceeds(t) \/ WorkFails(t) \/ LoadHeartbeat(t) \/ TruncateHeartbeat(t)
             \/ ReleaseLock(t)
      PROVE  AttemptsInv'
  <2>1. UNCHANGED <<day, attempts, heartbeat>> /\ blurred \subseteq blurred'
    BY <1>3 DEF Trigger, AcquireLock, SkipLocked, WorkSucceeds, WorkFails, LoadHeartbeat,
                TruncateHeartbeat, ReleaseLock
  <2>2. ASSUME NEW s \in Recoveries, AtWork(s) PROVE AtWork(s)'
    BY <1>3, <1>a, <2>2 DEF Goto, Trigger, AcquireLock, SkipLocked, WorkSucceeds, WorkFails,
       LoadHeartbeat, TruncateHeartbeat, ReleaseLock, Recoveries, AtWork
  <2>3. Written => Written'
    BY <2>1 DEF Written
  <2> QED BY <1>c, <2>1, <2>2, <2>3
<1>4. ASSUME NEW t \in Slots, Killed(t) \/ Interrupted(t) PROVE AttemptsInv'
  BY <1>4, <1>c DEF Killed, Interrupted
<1>5. CASE NextDay
  <2>1. day + 1 \in 1..MaxDay /\ day' = day + 1 /\ UNCHANGED <<attempts, blurred>>
    BY <1>5, <1>a DEF NextDay
  <2>2. attempts'[day'] = 0
    BY <1>a, <2>1 DEF HeartbeatInv, DaysInv
  <2>3. RetriedOnce'
    BY <1>b, <2>1 DEF RetriedOnce
  <2> QED BY <2>2, <2>3 DEF AttemptsInv
<1>6. CASE (\E c \in Commands : BreakStaleLock(c)) \/ UNCHANGED heartbeatVars
  BY <1>6, <1>c DEF BreakStaleLock, heartbeatVars, Written, AtWork
<1> QED BY <1>1, <1>2, <1>3, <1>4, <1>5, <1>6 DEF HeartbeatNext

\* What the heartbeat, and the runs about to write it, say is accounted for.
THEOREM HeartbeatInductive == HeartbeatSpec => []HeartbeatInv
<1>1. HeartbeatInv /\ [HeartbeatNext]_heartbeatVars => HeartbeatInv'
  BY HeartbeatTyped, SlotsKept, DaysKept, DailyKept, RecoveryKept, AttemptsKept DEF HeartbeatInv
<1> QED BY HeartbeatStarts, <1>1, PTL DEF HeartbeatSpec

\* The heartbeat file and the runs keep their types.
THEOREM HeartbeatTypeCorrect == HeartbeatSpec => []HeartbeatTypeOK
<1>1. HeartbeatInv => HeartbeatTypeOK
  BY DEF HeartbeatInv
<1> QED BY HeartbeatInductive, <1>1, PTL

\* A daily_job record that says success, as recovery's first gate reads it, is of
\* a day whose pipeline ran to its end, or on which a daily run was refused its
\* lock or interrupted; no stale or torn copy of the file makes another.
THEOREM DailySuccessTrue == HeartbeatSpec => []DailySuccessIsReal
<1>1. HeartbeatInv => DailySuccessIsReal
  BY DEF HeartbeatInv, DailyInv, Real, DailySuccessIsReal
<1> QED BY HeartbeatInductive, <1>1, PTL

\* production_recovery leaves no day alone that it could tell had failed.
THEOREM FailedDayRetried == HeartbeatSpec => []ClearFailedDayIsRetried
<1>1. HeartbeatInv => ClearFailedDayIsRetried
  BY DEF HeartbeatInv, RecoveryInv, ClearFailedDayIsRetried
<1> QED BY HeartbeatInductive, <1>1, PTL

\* production_recovery reruns the pipeline once a day, however often it runs.
THEOREM RetriedOnceADay == HeartbeatSpec => []RetriedOnce
<1>1. HeartbeatInv => RetriedOnce
  BY DEF HeartbeatInv, AttemptsInv
<1> QED BY HeartbeatInductive, <1>1, PTL
-----------------------------------------------------------------------------
(* Side by side *)

\* A behaviour of the two modules side by side is a behaviour of each: whatever
\* was proved above of either holds of it.
LEMMA RunnerIsBoth == RunnerSpec => Spec /\ HeartbeatSpec
<1>1. RunnerInit => Init /\ HeartbeatInit
  BY DEF RunnerInit
<1>2. [RunnerNext]_runnerVars => [Next]_vars /\ [HeartbeatNext]_heartbeatVars
  BY DEF RunnerNext, runnerVars
<1> QED BY <1>1, <1>2, PTL DEF RunnerSpec, Spec, HeartbeatSpec

\* The files of scheduler_runner.py, the locks and the heartbeat, and the
\* processes that use them keep their types.
THEOREM RunnerTyped == RunnerSpec => []RunnerTypeOK
<1>1. TypeOK /\ HeartbeatTypeOK => RunnerTypeOK
  BY DEF RunnerTypeOK
<1> QED BY <1>1, RunnerIsBoth, LockTypeCorrect, HeartbeatTypeCorrect, PTL
=============================================================================

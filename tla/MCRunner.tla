------------------------------ MODULE MCRunner ------------------------------
(***************************************************************************)
(* Small instances of RunnerLock (the scheduled pre-kickoff command, the    *)
(* settlement command that shares its lock, and a pre-kickoff started by    *)
(* hand) and of RunnerHeartbeat (the daily job with two recovery checks, or *)
(* with a second daily job by hand).  The two share no variable: `program`  *)
(* says which one a behaviour is about, and the other stays as it was.      *)
(***************************************************************************)
EXTENDS RunnerLock, RunnerHeartbeat

CONSTANTS scheduled, settling, manual,
          dailyTask, dailyByHand, recoveryTask, recoveryByHand

VARIABLE program

runnerVars == <<vars, heartbeatVars, program>>

CommandLocks ==
  [p \in Processes |-> IF p = settling THEN <<"settlement", "pre_kickoff">>
                       ELSE <<"pre_kickoff">>]

CommandOfSlot ==
  [s \in Slots |->
     CASE s \in {dailyTask, dailyByHand}       -> "daily_job"
       [] s \in {recoveryTask, recoveryByHand} -> "production_recovery"]

RunnerInit ==
  /\ Init
  /\ HeartbeatInit
  /\ \E unused \in {{dailyByHand}, {recoveryTask, recoveryByHand}} :
       ran = [s \in Slots |-> IF s \in unused THEN MaxDay + 1 ELSE 0]
  /\ program \in {"lock", "heartbeat"}
  /\ program = "lock" => \A s \in Slots : s = dailyByHand <=> ran[s] # 0

\* When every slot has run on the last day the heartbeat rests; the lock may
\* never come to rest.
RunnerNext ==
  \/ program = "lock" /\ Next /\ UNCHANGED <<heartbeatVars, program>>
  \/ program = "heartbeat" /\ HeartbeatNext /\ UNCHANGED <<vars, program>>
  \/ program = "heartbeat" /\ UNCHANGED runnerVars

RunnerSpec == RunnerInit /\ [][RunnerNext]_runnerVars

\* RunnerLock's Fairness, asked of the behaviours that are about it.
LockFairness ==
  /\ \A p \in Processes :
       WF_vars(program = "lock" /\ (Acquire(p) \/ Release(p) \/ Exit(p)))
  /\ \A l \in Locks : WF_vars(program = "lock" /\ Age(l))

RunnerLiveSpec == RunnerSpec /\ LockFairness

\* The type invariants of the two modules.
RunnerTypeOK == TypeOK /\ HeartbeatTypeOK
=============================================================================

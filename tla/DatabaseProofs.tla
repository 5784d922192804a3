---------------------------- MODULE DatabaseProofs ----------------------------
(***************************************************************************)
(* For any plans, runs and interruptions, a backfill's checkpoint claims     *)
(* nothing that was not committed.  For any number of syncs over the same    *)
(* rows, in any orders, with any deadlocks and deaths, no order of syncs     *)
(* that do not overlap brings an older answer back.                         *)
(***************************************************************************)
EXTENDS MCDatabase, SettlementProofs, FiniteSetTheorems, TLAPS

\* What a run has left out or put behind it is committed, and so is the unit
\* whose checkpoint it writes.
RunnersInv ==
  \A r \in Runners : runner[r].at # "idle" =>
    /\ runner[r].plan \in Plans /\ runner[r].done \subseteq synced
    /\ runner[r].at \in {"truncate", "fill"} =>
         \A unit \in Units : Current(r, unit) => unit \in synced

BackfillInv ==
  /\ BackfillTypeOK /\ RunnersInv
  /\ \A plan \in Plans : Claimed(plan, file) \subseteq synced

-----------------------------------------------------------------------------
(* Backfill *)

LEMMA PlanFacts ==
  ASSUME NEW plan \in Plans
  PROVE  /\ UnitsOf(plan) \subseteq Units /\ plan \in Seq(Units)
         /\ plan \in DatedPlans => \A i, j \in DOMAIN plan : plan[i] <= plan[j] => i <= j
<1>1. UnitsOf(plan) \subseteq Units /\ plan \in Seq(Units)
  BY PlansAssumption DEF PlansAssumption, Units
<1>2. ASSUME plan \in DatedPlans, NEW i \in DOMAIN plan, NEW j \in DOMAIN plan, plan[i] <= plan[j]
      PROVE  i <= j
  <2>1. i \in Nat /\ j \in Nat /\ 1 \in DOMAIN plan
    BY <1>1
  <2>2. plan[1] \in Nat /\ plan[i] = plan[1] + i - 1 /\ plan[j] = plan[1] + j - 1
    BY <1>2, <2>1, PlansAssumption DEF PlansAssumption
  <2> QED BY <1>2, <2>1, <2>2
<1> QED BY <1>1, <1>2

LEMMA OneCurrent ==
  ASSUME NEW r \in Runners, runner[r].plan \in Plans, NEW u, NEW v, Current(r, u), Current(r, v)
  PROVE  u = v
<1> DEFINE plan == runner[r].plan
<1>1. PICK i \in DOMAIN plan : /\ u = plan[i] /\ u \notin runner[r].done
                              /\ \A k \in 1..(i - 1) : plan[k] \in runner[r].done
  BY DEF Current
<1>2. PICK j \in DOMAIN plan : /\ v = plan[j] /\ v \notin runner[r].done
                              /\ \A k \in 1..(j - 1) : plan[k] \in runner[r].done
  BY DEF Current
<1>3. i \in Nat \ {0} /\ j \in Nat \ {0}
  BY PlanFacts
<1>4. ~(i \in 1..(j - 1)) /\ ~(j \in 1..(i - 1))
  BY <1>1, <1>2
<1>5. i = j
  BY <1>3, <1>4
<1> QED BY <1>1, <1>2, <1>5

\* What the checkpoint of a run lets others leave out: what the run has left
\* out or put behind it, and its current unit.
LEMMA CheckpointCovers ==
  ASSUME NEW r \in Runners, runner[r].plan \in Plans, NEW unit \in Units, Current(r, unit),
         NEW plan \in Plans
  PROVE  Claimed(plan, Checkpoint(runner[r].plan, runner[r].done, unit))
           \subseteq runner[r].done \cup {unit}
<1> DEFINE mine == runner[r].plan
           cp == Checkpoint(mine, runner[r].done, unit)
<1> SUFFICES ASSUME NEW u \in Claimed(plan, cp), u # unit PROVE u \in runner[r].done
  OBVIOUS
<1>1. plan = mine /\ u \in Covered(plan, cp)
  BY DEF Claimed, Checkpoint
<1>2. CASE mine \notin DatedPlans
  BY <1>1, <1>2 DEF Covered, Checkpoint
<1>3. CASE mine \in DatedPlans
  <2>1. u \in UnitsOf(mine) /\ u <= unit
    BY <1>1, <1>3 DEF Covered, Checkpoint
  <2>2. PICK i \in DOMAIN mine : u = mine[i]
    BY <2>1 DEF UnitsOf
  <2>3. PICK j \in DOMAIN mine : unit = mine[j] /\ \A k \in 1..(j - 1) : mine[k] \in runner[r].done
    BY DEF Current
  <2>4. i <= j /\ i # j /\ i \in Nat \ {0} /\ j \in Nat
    BY <1>3, <2>1, <2>2, <2>3, PlanFacts
  <2>5. i \in 1..(j - 1)
    BY <2>4
  <2> QED BY <2>2, <2>3, <2>5
<1> QED BY <1>2, <1>3

LEMMA BackfillKept == BackfillInv /\ [BackfillNext]_backfillVars => BackfillInv'
<1> SUFFICES ASSUME BackfillInv, [BackfillNext]_backfillVars PROVE BackfillInv'
  OBVIOUS
<1> DEFINE Record == [at : {"idle", "sync", "truncate", "fill"},
                      plan : Plans \cup {<<>>}, done : SUBSET Units]
           Files == {Missing, Torn} \cup [plan : DatedPlans, last : Units]
                      \cup [plan : GridPlans, completed : SUBSET Units]
<1>a. /\ runner \in [Runners -> Record] /\ file \in Files /\ synced \subseteq Units
      /\ starts \in 0..MaxStarts /\ interrupts \in 0..MaxInterrupts
      /\ MaxStarts \in Nat /\ MaxInterrupts \in Nat
      /\ \A plan \in Plans : Claimed(plan, file) \subseteq synced
  BY BackfillBounds DEF BackfillBounds, BackfillInv, BackfillTypeOK
<1>b. Idle \in Record /\ Idle.at = "idle"
  BY DEF Idle
<1>c. ASSUME NEW r \in Runners, runner[r].at # "idle"
      PROVE  /\ runner[r].plan \in Plans /\ runner[r].done \subseteq synced
             /\ runner[r].at \in {"truncate", "fill"} =>
                  \A unit \in Units : Current(r, unit) => unit \in synced
  BY <1>c DEF BackfillInv, RunnersInv
\* What a run knows of itself stays true while the database grows and the run
\* does nothing, or starts anew.
<1>d. ASSUME NEW q \in Runners, runner'[q] = runner[q] \/ runner'[q] = Idle, synced \subseteq synced',
             runner'[q].at # "idle"
      PROVE  /\ runner'[q].plan \in Plans /\ runner'[q].done \subseteq synced'
             /\ runner'[q].at \in {"truncate", "fill"} =>
                  \A unit \in Units : Current(q, unit)' => unit \in synced'
  <2>1. runner'[q] = runner[q] /\ runner[q].at # "idle"
    BY <1>b, <1>d
  <2>2. \A unit : Current(q, unit)' <=> Current(q, unit)
    BY <2>1 DEF Current
  <2> QED BY <1>c, <1>d, <2>1, <2>2
<1>e. BackfillTypeOK' <=>
        /\ runner' \in [Runners -> Record] /\ file' \in Files /\ synced' \subseteq Units
        /\ starts' \in 0..MaxStarts /\ interrupts' \in 0..MaxInterrupts
  BY DEF BackfillTypeOK
<1> HIDE DEF Record, Files
<1>1. ASSUME NEW r \in Runners, NEW plan \in Plans, NEW restart \in BOOLEAN,
             StartBackfill(r, plan, restart)
      PROVE  BackfillInv'
  <2> DEFINE done == IF restart THEN {} ELSE Claimed(plan, file)
  <2>1. done \subseteq synced
    BY <1>a
  <2>2. [at |-> "sync", plan |-> plan, done |-> done] \in Record
    BY <1>a, <2>1 DEF Record
  <2>3. runner' = [runner EXCEPT ![r] = [at |-> "sync", plan |-> plan, done |-> done]]
    BY <1>1 DEF StartBackfill
  <2> HIDE DEF done
  <2>4. runner' \in [Runners -> Record]
    BY <1>a, <2>2, <2>3
  <2>5. /\ runner'[r].at = "sync" /\ runner'[r].plan = plan /\ runner'[r].done = done
        /\ \A q \in Runners \ {r} : runner'[q] = runner[q]
        /\ file' = file /\ synced' = synced
    BY <1>1, <1>a, <2>3 DEF StartBackfill
  <2>6. RunnersInv'
    BY <1>d, <2>1, <2>5 DEF RunnersInv
  <2>7. starts' \in 0..MaxStarts /\ interrupts' = interrupts
    BY <1>1, <1>a DEF StartBackfill
  <2> QED BY <1>a, <1>e, <2>4, <2>5, <2>6, <2>7 DEF BackfillInv
<1>2. ASSUME NEW r \in Runners, SyncUnit(r)
      PROVE  BackfillInv'
  <2>1. PICK unit \in Units : Current(r, unit) /\ synced' = synced \cup {unit}
    BY <1>2 DEF SyncUnit
  <2>2. runner' \in [Runners -> Record]
    BY <1>2, <1>a DEF SyncUnit, Record
  <2>3. /\ runner'[r].at = "truncate" /\ runner'[r].plan = runner[r].plan
        /\ runner'[r].done = runner[r].done /\ runner[r].at # "idle"
        /\ \A q \in Runners \ {r} : runner'[q] = runner[q]
    BY <1>2, <1>a DEF SyncUnit, Record
  <2>4. \A u \in Units : Current(r, u)' => u = unit
    <3>1. \A u \in Units : Current(r, u)' => Current(r, u)
      BY <2>3 DEF Current
    <3> QED BY <1>c, <2>1, <2>3, <3>1, OneCurrent
  <2>5. RunnersInv'
    BY <1>c, <1>d, <2>1, <2>3, <2>4 DEF RunnersInv
  <2> QED BY <1>2, <1>a, <1>e, <2>1, <2>2, <2>5 DEF BackfillInv, SyncUnit
<1>3. ASSUME NEW r \in Runners, TruncateCheckpoint(r)
      PROVE  BackfillInv'
  <2>1. runner' \in [Runners -> Record]
    BY <1>3, <1>a DEF TruncateCheckpoint, Record
  <2>2. /\ runner[r].at = "truncate" /\ runner'[r].plan = runner[r].plan
        /\ runner'[r].done = runner[r].done /\ synced' = synced
        /\ \A q \in Runners \ {r} : runner'[q] = runner[q]
    BY <1>3, <1>a DEF TruncateCheckpoint, Record
  <2>3. \A u : Current(r, u)' => Current(r, u)
    BY <2>2 DEF Current
  <2>4. RunnersInv'
    BY <1>c, <1>d, <2>2, <2>3 DEF RunnersInv
  <2>5. file' = Torn /\ file' \in Files /\ \A plan \in Plans : Claimed(plan, file') = {}
    BY <1>3 DEF TruncateCheckpoint, Claimed, Files
  <2> QED BY <1>3, <1>a, <1>e, <2>1, <2>2, <2>4, <2>5 DEF BackfillInv, TruncateCheckpoint
<1>4. ASSUME NEW r \in Runners, FillCheckpoint(r)
      PROVE  BackfillInv'
  <2>1. PICK unit \in Units :
          /\ Current(r, unit)
          /\ file' = Checkpoint(runner[r].plan, runner[r].done, unit)
          /\ runner' = [runner EXCEPT ![r] = [runner[r] EXCEPT !.at = "sync", !.done = @ \cup {unit}]]
    BY <1>4 DEF FillCheckpoint
  <2>2. /\ runner[r].plan \in Plans /\ runner[r].done \cup {unit} \subseteq synced
        /\ synced' = synced
    BY <1>4, <1>c, <2>1 DEF FillCheckpoint
  <2> DEFINE here == [runner[r] EXCEPT !.at = "sync", !.done = @ \cup {unit}]
  <2>a. runner[r] \in Record
    BY <1>a
  <2>b. /\ here \in Record /\ here.at = "sync" /\ here.plan = runner[r].plan
        /\ here.done = runner[r].done \cup {unit}
    BY <2>a DEF Record
  <2>c. runner' = [runner EXCEPT ![r] = here]
    BY <2>1
  <2> HIDE DEF here
  <2>3. runner' \in [Runners -> Record]
    BY <1>a, <2>b, <2>c
  <2>4. /\ runner'[r].at = "sync" /\ runner'[r].plan = runner[r].plan
        /\ runner'[r].done = runner[r].done \cup {unit}
        /\ \A q \in Runners \ {r} : runner'[q] = runner[q]
    BY <1>a, <2>b, <2>c
  <2>5. RunnersInv'
    BY <1>d, <2>2, <2>4 DEF RunnersInv
  <2>6. \A plan \in Plans : Claimed(plan, file') \subseteq synced'
    BY <2>1, <2>2, CheckpointCovers
  <2>7. file' \in Files
    BY <1>a, <2>1, <2>2 DEF Checkpoint, Files, Plans
  <2> QED BY <1>4, <1>a, <1>e, <2>2, <2>3, <2>5, <2>6, <2>7 DEF BackfillInv, FillCheckpoint
<1>5. ASSUME NEW r \in Runners, EndBackfill(r) \/ InterruptBackfill(r)
      PROVE  BackfillInv'
  <2>1. /\ runner' = [runner EXCEPT ![r] = Idle] /\ synced' = synced /\ file' = file
        /\ starts' = starts
    BY <1>5 DEF EndBackfill, InterruptBackfill
  <2>2. runner' \in [Runners -> Record] /\ interrupts' \in 0..MaxInterrupts
    BY <1>5, <1>a, <1>b, <2>1 DEF EndBackfill, InterruptBackfill
  <2>3. \A q \in Runners : runner'[q] = runner[q] \/ runner'[q] = Idle
    BY <1>a, <2>1
  <2>4. RunnersInv'
    BY <1>d, <2>1, <2>3 DEF RunnersInv
  <2> QED BY <1>a, <1>e, <2>1, <2>2, <2>4 DEF BackfillInv
<1>6. CASE UNCHANGED backfillVars
  <2>1. /\ runner' = runner /\ synced' = synced /\ file' = file /\ starts' = starts
        /\ interrupts' = interrupts
    BY <1>6 DEF backfillVars
  <2>2. RunnersInv'
    BY <1>d, <2>1 DEF RunnersInv
  <2> QED BY <1>a, <1>e, <2>1, <2>2 DEF BackfillInv
<1> QED BY <1>1, <1>2, <1>3, <1>4, <1>5, <1>6 DEF BackfillNext

LEMMA BackfillStarts == BackfillInit => BackfillInv
<1> SUFFICES ASSUME BackfillInit PROVE BackfillInv
  OBVIOUS
<1>1. runner = [r \in Runners |-> Idle] /\ Idle.at = "idle"
      /\ Idle \in [at : {"idle", "sync", "truncate", "fill"}, plan : Plans \cup {<<>>},
                   done : SUBSET Units]
  BY DEF BackfillInit, Idle
<1>2. BackfillTypeOK
  BY <1>1, BackfillBounds DEF BackfillBounds, BackfillInit, BackfillTypeOK
<1>3. \A plan \in Plans : Claimed(plan, file) = {}
  BY DEF BackfillInit, Claimed
<1> QED BY <1>1, <1>2, <1>3 DEF BackfillInv, RunnersInv, BackfillInit

\* The invariant the next theorem rests on: a run syncs a unit before it writes
\* the unit's checkpoint, and the file never says more than some run knew.
THEOREM BackfillInductive == BackfillSpec => []BackfillInv
BY BackfillStarts, BackfillKept, PTL DEF BackfillSpec

\* A resumed ApiFootballBackfill or LeagueSeasonBackfill leaves no hole.
THEOREM CheckpointsHonest == BackfillSpec => []CheckpointNeverSkips
<1>1. BackfillInv => CheckpointNeverSkips
  BY DEF BackfillInv, RunnersInv, CheckpointNeverSkips
<1> QED BY <1>1, BackfillInductive, PTL
-----------------------------------------------------------------------------
(* ReferenceSync: the inductive invariant *)

\* Two sessions that are open are known to overlap.
MetInv == \A s, t \in Open : s # t => {s, t} \in met

\* What is committed was answered, in sessions that are over.
AppliedInv ==
  \A e \in Entities : \A a \in applied[e] :
    a[1] \in Syncs /\ sync[a[1]].at = "over" /\ a[2] \in 0..version[e]

\* A session writes rows it has an answer for, while it is open.
ToldInv(s) ==
  \A e \in Entities :
    /\ sync[s].told[e] <= version[e]
    /\ own[s][e] # NoRow => s \in Open /\ sync[s].told[e] # Untold

TodoInv(s) ==
  /\ \A i \in DOMAIN sync[s].todo : sync[s].told[sync[s].todo[i]] # Untold
  /\ sync[s].at = "write" => sync[s].todo # <<>>

\* Somebody who overlapped with session s has committed an answer for the row.
Rivalled(s, e) == \E a \in applied[e] : {a[1], s} \in met

\* What a session was told is newer than what others committed before it.
NewerInv(s) ==
  s \in Open => \A e \in Entities : \A a \in applied[e] :
    sync[s].told[e] = Untold \/ a[2] <= sync[s].told[e] \/ {a[1], s} \in met

Outstanding(s, e) == \E i \in DOMAIN sync[s].todo : sync[s].todo[i] = e

\* A row the session has dealt with is, for it, what it was told.
DoneInv(s) ==
  s \in Open => \A e \in Games \cup Players :
    sync[s].told[e] = Untold \/ Outstanding(s, e) \/ Rivalled(s, e)
      \/ Visible(s, e) = Answer(e, sync[s].told[e])

\* The row the session has read and is about to change is still that row.
ReadInv(s) ==
  sync[s].at = "write" /\ sync[s].read # NoRow =>
    LET e == Head(sync[s].todo) IN
      Visible(s, e) # NoRow /\ (Visible(s, e) = sync[s].read \/ Rivalled(s, e))

SessionInv(s) == ToldInv(s) /\ TodoInv(s) /\ NewerInv(s) /\ DoneInv(s) /\ ReadInv(s)

\* A row is the newest answer, unless two sessions that overlapped wrote it.
FreshInv ==
  \A e \in Games \cup Players : applied[e] # {} =>
    \/ \E a \in applied[e] :
         table[e] = Answer(e, a[2]) /\ \A b \in applied[e] : b[2] <= a[2]
    \/ \E a, b \in applied[e] : a[1] # b[1] /\ {a[1], b[1]} \in met

ReferenceInv ==
  /\ ReferenceTypeOK /\ MetInv /\ AppliedInv /\ FreshInv
  /\ \A s \in Syncs : SessionInv(s)

-----------------------------------------------------------------------------
(* ReferenceSync: types *)

Cells == RowValues \cup {NoRow}
Sessions == [at : {"new", "row", "write", "over"}, todo : Seq(Entities),
             told : [Entities -> (0..MaxVersion) \cup {Untold}],
             absent : SUBSET Players, read : Cells, teams : Seq(Places)]

LEMMA Constants ==
  /\ MaxVersion \in Nat /\ MaxDeaths \in Nat /\ Untold \notin Nat /\ Untold \in Int
  /\ \A n \in Nat : Untold <= n
  /\ NoRow \in Cells /\ NoRow \notin RowValues /\ Nobody \notin Syncs
  /\ Sides \in Seq(Places) /\ \A batch \in Batches : batch \in Seq(Entities)
  /\ Places \subseteq Entities /\ Players \subseteq Entities /\ Games \subseteq Entities
  /\ Places \cap (Games \cup Players) = {} /\ IsFiniteSet(Players)
<1>1. \A batch \in Batches : batch \in Seq(Entities)
  BY ReferenceAssumption DEF ReferenceAssumption, Entities
<1> QED BY <1>1, ReferenceAssumption DEF ReferenceAssumption, Untold, Cells, Entities

LEMMA AnswersAreRows ==
  ASSUME NEW e \in Entities, NEW v \in 0..MaxVersion
  PROVE  Answer(e, v) \in RowValues
BY ReferenceAssumption DEF ReferenceAssumption, Answer

LEMMA EndsOfSessions ==
  /\ NoSync \in Sessions /\ Ended \in Sessions /\ Ended.at = "over" /\ NoSync.at = "new"
  /\ NoSync.todo = <<>> /\ Ended.todo = <<>>
  /\ \A e \in Entities : NoSync.told[e] = Untold /\ Ended.told[e] = Untold
  /\ Empty \in [Entities -> Cells] /\ \A e \in Entities : Empty[e] = NoRow
<1> DEFINE none == [e \in Entities |-> Untold]
<1>1. none \in [Entities -> (0..MaxVersion) \cup {Untold}] /\ \A e \in Entities : none[e] = Untold
  OBVIOUS
<1>2. /\ NoSync = [at |-> "new", todo |-> <<>>, told |-> none, absent |-> {}, read |-> NoRow,
                   teams |-> <<>>]
      /\ Ended = [NoSync EXCEPT !.at = "over"]
  BY DEF NoSync, Ended
<1> HIDE DEF none
<1>3. <<>> \in Seq(Entities) /\ <<>> \in Seq(Places) /\ NoRow \in Cells
  BY Constants
<1>4. NoSync \in Sessions /\ Ended \in Sessions
  BY <1>1, <1>2, <1>3 DEF Sessions
<1>5. Empty \in [Entities -> Cells] /\ \A e \in Entities : Empty[e] = NoRow
  BY <1>3 DEF Empty
<1> QED BY <1>1, <1>2, <1>4, <1>5

LEMMA TypesUnfold ==
  ReferenceTypeOK <=>
    /\ version \in [Entities -> 0..MaxVersion] /\ table \in [Entities -> Cells]
    /\ own \in [Syncs -> [Entities -> Cells]] /\ locked \in [Entities -> Syncs \cup {Nobody}]
    /\ sync \in [Syncs -> Sessions] /\ deaths \in 0..MaxDeaths
    /\ \A s \in Syncs, e \in Entities : own[s][e] # NoRow <=> locked[e] = s
BY DEF ReferenceTypeOK, Cells, Sessions

LEMMA SessionTypes ==
  ASSUME ReferenceTypeOK, NEW s \in Syncs
  PROVE  /\ sync[s] \in Sessions /\ own[s] \in [Entities -> Cells]
         /\ sync[s].at \in {"new", "row", "write", "over"} /\ sync[s].todo \in Seq(Entities)
         /\ sync[s].told \in [Entities -> (0..MaxVersion) \cup {Untold}]
         /\ sync[s].absent \subseteq Players /\ sync[s].read \in Cells
         /\ sync[s].teams \in Seq(Places)
         /\ \A e \in Entities : Visible(s, e) \in Cells
         /\ s \in Open <=> sync[s].at \in {"row", "write"}
<1>1. sync[s] \in Sessions /\ own[s] \in [Entities -> Cells] /\ table \in [Entities -> Cells]
  BY TypesUnfold
<1> QED BY <1>1 DEF Sessions, Visible, Open

\* What a session knows of itself stays true when it does nothing, the table is
\* not written and the provider moves on.
LEMMA SessionKept ==
  ASSUME ReferenceTypeOK, NEW s \in Syncs, SessionInv(s),
         sync'[s] = sync[s], own'[s] = own[s], table' = table, applied' = applied,
         \A e \in Entities : version[e] <= version'[e], met \subseteq met',
         version' \in [Entities -> 0..MaxVersion]
  PROVE  SessionInv(s)'
<1>1. /\ s \in Open' <=> s \in Open
      /\ \A e : Visible(s, e)' = Visible(s, e) /\ (Outstanding(s, e)' <=> Outstanding(s, e))
      /\ \A e : Rivalled(s, e) => Rivalled(s, e)'
  BY DEF Open, Visible, Outstanding, Rivalled
<1>2. ToldInv(s)'
  <2>1. \A e \in Entities : version[e] \in Int /\ version'[e] \in Int /\ sync[s].told[e] \in Int
    BY SessionTypes, TypesUnfold, Constants
  <2> QED BY <1>1, <2>1 DEF SessionInv, ToldInv
<1>3. TodoInv(s)'
  BY DEF SessionInv, TodoInv
<1>4. NewerInv(s)'
  BY <1>1 DEF SessionInv, NewerInv
<1>5. DoneInv(s)'
  BY <1>1 DEF SessionInv, DoneInv
<1>6. ReadInv(s)'
  BY <1>1 DEF SessionInv, ReadInv
<1> QED BY <1>2, <1>3, <1>4, <1>5, <1>6 DEF SessionInv

\* A session that has not begun, or is over, knows nothing.
LEMMA SessionOut ==
  ASSUME NEW s \in Syncs, sync[s].at \in {"new", "over"}, sync[s].todo = <<>>,
         own[s] = Empty, \A e \in Entities : sync[s].told[e] = Untold,
         version \in [Entities -> 0..MaxVersion]
  PROVE  SessionInv(s)
<1>1. s \notin Open
  BY DEF Open
<1>2. ToldInv(s)
  BY Constants, EndsOfSessions DEF ToldInv
<1> QED BY <1>1, <1>2 DEF SessionInv, TodoInv, NewerInv, DoneInv, ReadInv

LEMMA ReferenceStarts == ReferenceInit => ReferenceInv
<1> SUFFICES ASSUME ReferenceInit PROVE ReferenceInv
  OBVIOUS
<1>1. /\ version = [e \in Entities |-> 0] /\ table = [e \in Entities |-> NoRow]
      /\ own = [s \in Syncs |-> Empty] /\ locked = [e \in Entities |-> Nobody]
      /\ sync = [s \in Syncs |-> NoSync] /\ applied = [e \in Entities |-> {}]
      /\ met = {} /\ deaths = 0
  BY DEF ReferenceInit
<1>2. /\ version \in [Entities -> 0..MaxVersion] /\ table \in [Entities -> Cells]
      /\ own \in [Syncs -> [Entities -> Cells]] /\ locked \in [Entities -> Syncs \cup {Nobody}]
      /\ sync \in [Syncs -> Sessions] /\ deaths \in 0..MaxDeaths
  BY <1>1, EndsOfSessions, Constants
<1>3. \A s \in Syncs, e \in Entities : own[s][e] = NoRow /\ locked[e] # s
  BY <1>1, EndsOfSessions, Constants
<1>4. ReferenceTypeOK
  BY <1>2, <1>3, TypesUnfold
<1>5. \A s \in Syncs : sync[s].at = "new" /\ s \notin Open
  BY <1>1, EndsOfSessions DEF Open
<1>6. ASSUME NEW s \in Syncs PROVE SessionInv(s)
  BY <1>1, <1>2, EndsOfSessions, SessionOut
<1>7. MetInv /\ AppliedInv /\ FreshInv
  BY <1>1, <1>5 DEF MetInv, AppliedInv, FreshInv, Open, Entities
<1> QED BY <1>4, <1>6, <1>7 DEF ReferenceInv

LEMMA ProviderMovesKeeps == ReferenceInv /\ ProviderMoves => ReferenceInv'
<1> SUFFICES ASSUME ReferenceInv, ProviderMoves PROVE ReferenceInv'
  OBVIOUS
<1>1. PICK e \in Games \cup Players : version[e] < MaxVersion
                                       /\ version' = [version EXCEPT ![e] = @ + 1]
  BY DEF ProviderMoves
<1>2. UNCHANGED <<table, own, locked, sync, applied, met, deaths>> /\ ReferenceTypeOK
  BY DEF ProviderMoves, ReferenceInv
<1>3. /\ version \in [Entities -> 0..MaxVersion] /\ version' \in [Entities -> 0..MaxVersion]
      /\ \A k \in Entities : version[k] <= version'[k]
  <2>1. version \in [Entities -> 0..MaxVersion] /\ e \in Entities
    BY <1>2, TypesUnfold, Constants
  <2> QED BY <1>1, <2>1, Constants
<1>4. ReferenceTypeOK'
  BY <1>2, <1>3 DEF ReferenceTypeOK
<1>5. ASSUME NEW s \in Syncs PROVE SessionInv(s)'
  BY <1>2, <1>3, SessionKept DEF ReferenceInv
<1>6. Open' = Open
  BY <1>2 DEF Open
<1>7. MetInv' /\ FreshInv'
  BY <1>2, <1>6 DEF ReferenceInv, MetInv, FreshInv
<1>8. AppliedInv'
  <2> SUFFICES ASSUME NEW k \in Entities, NEW a \in applied[k] PROVE a[2] \in 0..version'[k]
    BY <1>2 DEF ReferenceInv, AppliedInv
  <2>1. a[2] \in 0..version[k]
    BY DEF ReferenceInv, AppliedInv
  <2> QED BY <1>3, <2>1
<1> QED BY <1>4, <1>5, <1>7, <1>8 DEF ReferenceInv

\* A step of one session that does not commit.
LEMMA OwnStep ==
  ASSUME ReferenceInv, NEW s \in Syncs, sync[s].at # "over",
         \A t \in Syncs \ {s} : sync'[t] = sync[t] /\ own'[t] = own[t],
         version' = version, table' = table, applied' = applied, met \subseteq met',
         ReferenceTypeOK', MetInv', SessionInv(s)'
  PROVE  ReferenceInv'
<1>1. version' \in [Entities -> 0..MaxVersion] /\ \A e \in Entities : version[e] <= version'[e]
  <2>1. version \in [Entities -> 0..MaxVersion]
    BY TypesUnfold DEF ReferenceInv
  <2> QED BY <2>1, Constants
<1>2. ASSUME NEW t \in Syncs PROVE SessionInv(t)'
  BY <1>1, SessionKept DEF ReferenceInv
<1>3. AppliedInv'
  BY DEF ReferenceInv, AppliedInv
<1>4. FreshInv'
  BY DEF ReferenceInv, FreshInv
<1> QED BY <1>2, <1>3, <1>4 DEF ReferenceInv

\* Two sessions known to overlap stay so while none opens.
LEMMA MetKept ==
  ASSUME MetInv, NEW s \in Syncs, s \in Open' => s \in Open,
         \A t \in Syncs \ {s} : sync'[t] = sync[t], met' = met
  PROVE  MetInv'
<1>1. Open' \subseteq Open
  BY DEF Open
<1> QED BY <1>1 DEF MetInv

LEMMA OpensKeeps ==
  ASSUME ReferenceInv, NEW s \in Syncs, NEW record \in Sessions, Opens(s, record),
         record.at = "row",
         \A e \in Entities : record.told[e] \in {Untold, version[e]},
         \A e \in Entities : record.told[e] # Untold
           <=> \E i \in DOMAIN record.todo : record.todo[i] = e
  PROVE  ReferenceInv'
<1>1. /\ sync[s].at = "new" /\ sync' = [sync EXCEPT ![s] = record]
      /\ met' = met \cup {{s, t} : t \in Open}
      /\ UNCHANGED <<version, table, own, locked, applied, deaths>>
  BY DEF Opens
<1>2. /\ sync \in [Syncs -> Sessions] /\ version \in [Entities -> 0..MaxVersion]
      /\ own \in [Syncs -> [Entities -> Cells]]
  BY TypesUnfold DEF ReferenceInv
<1>3. sync' \in [Syncs -> Sessions] /\ sync'[s] = record
      /\ \A t \in Syncs \ {s} : sync'[t] = sync[t] /\ own'[t] = own[t]
  BY <1>1, <1>2
<1>4. ReferenceTypeOK'
  BY <1>1, <1>3 DEF ReferenceInv, ReferenceTypeOK, Sessions, Cells
<1>5. Open' = Open \cup {s} /\ s \notin Open
  BY <1>1, <1>3 DEF Open
<1>6. MetInv'
  BY <1>1, <1>5 DEF ReferenceInv, MetInv
<1>7. SessionInv(s)'
  <2>1. \A e \in Entities : own[s][e] = NoRow
    BY <1>1, SessionTypes DEF ReferenceInv, SessionInv, ToldInv
  <2>2. ToldInv(s)'
    <3>1. \A e \in Entities : version[e] \in Nat
      BY <1>2, Constants
    <3> QED BY <1>1, <1>3, <2>1, <3>1, Constants DEF ToldInv
  <2>3. TodoInv(s)'
    <3>1. \A i \in DOMAIN record.todo : record.todo[i] \in Entities
      BY DEF Sessions
    <3> QED BY <1>3, <3>1 DEF TodoInv
  <2>4. NewerInv(s)'
    <3> SUFFICES ASSUME NEW e \in Entities, NEW a \in applied[e], record.told[e] # Untold
                 PROVE  a[2] <= record.told[e]
      BY <1>1, <1>3 DEF NewerInv
    <3>1. a[2] \in 0..version[e]
      BY DEF ReferenceInv, AppliedInv
    <3> QED BY <3>1
  <2>5. DoneInv(s)'
    BY <1>3, Constants DEF DoneInv, Outstanding
  <2>6. ReadInv(s)'
    BY <1>3 DEF ReadInv
  <2> QED BY <2>2, <2>3, <2>4, <2>5, <2>6 DEF SessionInv
<1> QED BY <1>1, <1>3, <1>4, <1>6, <1>7, OwnStep

LEMMA StartsKeep ==
  ASSUME ReferenceInv, NEW s \in Syncs, StartFixtureSync(s) \/ StartSquadSync(s)
  PROVE  ReferenceInv'
<1>1. version \in [Entities -> 0..MaxVersion]
  BY TypesUnfold DEF ReferenceInv
<1>2. CASE StartFixtureSync(s)
  <2>1. PICK batch \in Batches :
          Opens(s, [NoSync EXCEPT !.at = "row", !.todo = batch,
                      !.told = [e \in Entities |->
                        IF \E n \in DOMAIN batch : batch[n] = e THEN version[e] ELSE Untold]])
    BY <1>2 DEF StartFixtureSync
  <2> DEFINE told == [e \in Entities |->
                IF \E n \in DOMAIN batch : batch[n] = e THEN version[e] ELSE Untold]
             record == [NoSync EXCEPT !.at = "row", !.todo = batch, !.told = told]
  <2>2. told \in [Entities -> (0..MaxVersion) \cup {Untold}]
    BY <1>1
  <2>3. \A e \in Entities : /\ told[e] \in {Untold, version[e]}
                            /\ told[e] # Untold <=> \E n \in DOMAIN batch : batch[n] = e
    BY <1>1, Constants
  <2>4. Opens(s, record)
    BY <2>1
  <2> HIDE DEF told
  <2>5. /\ record \in Sessions /\ record.at = "row" /\ record.todo = batch /\ record.told = told
    BY <2>2, Constants, EndsOfSessions DEF Sessions
  <2> HIDE DEF record
  <2> QED BY <2>3, <2>4, <2>5, OpensKeeps
<1>3. CASE StartSquadSync(s)
  <2> DEFINE record == [NoSync EXCEPT !.at = "row", !.teams = Sides]
  <2>1. /\ record \in Sessions /\ record.at = "row" /\ record.todo = <<>>
        /\ \A e \in Entities : record.told[e] = Untold
    BY Constants, EndsOfSessions DEF Sessions
  <2>2. Opens(s, record)
    BY <1>3 DEF StartSquadSync
  <2> HIDE DEF record
  <2>3. \A e \in Entities : ~ \E i \in DOMAIN record.todo : record.todo[i] = e
    BY <2>1
  <2> QED BY <2>1, <2>2, <2>3, OpensKeeps
<1> QED BY <1>2, <1>3

LEMMA TailFacts ==
  ASSUME NEW S, NEW q \in Seq(S), q # <<>>
  PROVE  /\ Head(q) \in S /\ Tail(q) \in Seq(S) /\ Head(q) = q[1] /\ 1 \in DOMAIN q
         /\ \A i \in DOMAIN Tail(q) : i + 1 \in DOMAIN q /\ Tail(q)[i] = q[i + 1]
         /\ \A i \in DOMAIN q : q[i] # Head(q) => \E j \in DOMAIN Tail(q) : Tail(q)[j] = q[i]
<1>1. Head(q) \in S /\ Tail(q) \in Seq(S) /\ Head(q) = q[1] /\ 1 \in DOMAIN q
  OBVIOUS
<1>2. \A i \in DOMAIN Tail(q) : i + 1 \in DOMAIN q /\ Tail(q)[i] = q[i + 1]
  OBVIOUS
<1>3. ASSUME NEW i \in DOMAIN q, q[i] # Head(q) PROVE \E j \in DOMAIN Tail(q) : Tail(q)[j] = q[i]
  <2>1. i - 1 \in DOMAIN Tail(q) /\ Tail(q)[i - 1] = q[i]
    BY <1>1, <1>3
  <2> QED BY <2>1
<1> QED BY <1>1, <1>2, <1>3

\* What is left to a session that has dealt with the row at the head.
LEMMA NextInLine ==
  ASSUME ReferenceTypeOK, NEW s \in Syncs, sync[s].todo # <<>>, TodoInv(s),
         sync'[s].todo = Tail(sync[s].todo), sync'[s].told = sync[s].told, sync'[s].at = "row"
  PROVE  /\ TodoInv(s)'
         /\ \A k : k # Head(sync[s].todo) /\ Outstanding(s, k) => Outstanding(s, k)'
<1> DEFINE q == sync[s].todo
<1>1. q \in Seq(Entities) /\ q # <<>> /\ sync'[s].todo = Tail(q)
  BY SessionTypes
<1>2. \A i \in DOMAIN q : sync[s].told[q[i]] # Untold
  BY DEF TodoInv
<1> HIDE DEF q
<1>3. \A i \in DOMAIN Tail(q) : i + 1 \in DOMAIN q /\ Tail(q)[i] = q[i + 1]
  BY <1>1, TailFacts
<1>4. \A i \in DOMAIN q : q[i] # Head(q) => \E j \in DOMAIN Tail(q) : Tail(q)[j] = q[i]
  BY <1>1, TailFacts
<1>5. TodoInv(s)'
  BY <1>1, <1>2, <1>3 DEF TodoInv
<1>6. ASSUME NEW k, k # Head(q), \E i \in DOMAIN q : q[i] = k PROVE Outstanding(s, k)'
  BY <1>1, <1>4, <1>6 DEF Outstanding
<1> QED BY <1>5, <1>6 DEF Outstanding, q

\* A step that changes what an open session has before it, and no row.
LEMMA RecordStep ==
  ASSUME ReferenceInv, NEW s \in Syncs, sync[s].at \in {"row", "write"},
         NEW record \in Sessions, sync' = [sync EXCEPT ![s] = record],
         record.at \in {"row", "write"},
         UNCHANGED <<version, table, own, locked, applied, met, deaths>>
  PROVE  /\ ReferenceTypeOK' /\ MetInv'
         /\ sync'[s] = record /\ \A e : Visible(s, e)' = Visible(s, e)
         /\ SessionInv(s)' => ReferenceInv'
<1>1. sync \in [Syncs -> Sessions]
  BY TypesUnfold DEF ReferenceInv
<1>2. sync' \in [Syncs -> Sessions] /\ sync'[s] = record
      /\ \A t \in Syncs \ {s} : sync'[t] = sync[t] /\ own'[t] = own[t]
  BY <1>1
<1>3. ReferenceTypeOK'
  BY <1>2 DEF ReferenceInv, ReferenceTypeOK, Sessions, Cells
<1>4. MetInv'
  BY <1>2, MetKept DEF Open, ReferenceInv
<1>5. \A e : Visible(s, e)' = Visible(s, e)
  BY DEF Visible
<1> QED BY <1>2, <1>3, <1>4, <1>5, OwnStep

LEMMA AskSquadKeeps == ASSUME ReferenceInv, NEW s \in Syncs, AskSquad(s) PROVE ReferenceInv'
<1> DEFINE named == {p \in Players : Answer(p, version[p])[1] = Head(sync[s].teams)}
           changed == {p \in named : Visible(s, p) # Answer(p, version[p])}
           told == [e \in Entities |-> IF e \in named THEN version[e] ELSE sync[s].told[e]]
           absent == {p \in named : Visible(s, p) = NoRow}
<1>1. PICK order \in [1..Cardinality(changed) -> changed] :
        /\ changed = {order[i] : i \in 1..Cardinality(changed)}
        /\ sync' = [sync EXCEPT ![s] = [sync[s] EXCEPT
             !.teams = Tail(sync[s].teams), !.told = told, !.absent = absent, !.todo = order]]
  BY DEF AskSquad
<1> DEFINE record == [sync[s] EXCEPT
             !.teams = Tail(sync[s].teams), !.told = told, !.absent = absent, !.todo = order]
<1>2. /\ sync[s].at = "row" /\ sync[s].todo = <<>> /\ sync[s].teams # <<>>
      /\ UNCHANGED <<version, table, own, locked, applied, met, deaths>>
      /\ sync' = [sync EXCEPT ![s] = record]
  BY <1>1 DEF AskSquad
<1>3. /\ version \in [Entities -> 0..MaxVersion] /\ sync[s] \in Sessions
      /\ sync[s].told \in [Entities -> (0..MaxVersion) \cup {Untold}]
  BY SessionTypes, TypesUnfold DEF ReferenceInv
<1>4. Cardinality(changed) \in Nat /\ changed \subseteq Players
  <2>1. changed \in SUBSET Players
    OBVIOUS
  <2> HIDE DEF changed
  <2> QED BY <2>1, Constants, FS_Subset, FS_CardinalityType
<1>5. order \in Seq(Entities) /\ DOMAIN order = 1..Cardinality(changed)
  <2> HIDE DEF changed
  <2> QED BY <1>4, Constants
<1>6. /\ told \in [Entities -> (0..MaxVersion) \cup {Untold}]
      /\ \A e \in Entities : told[e] = IF e \in named THEN version[e] ELSE sync[s].told[e]
  BY <1>3
<1>7. Tail(sync[s].teams) \in Seq(Places) /\ absent \subseteq Players
  BY <1>2, <1>3, TailFacts DEF Sessions
<1>8. /\ changed \subseteq named /\ named \subseteq Players
      /\ \A p \in named : p \in changed \/ Visible(s, p) = Answer(p, version[p])
  OBVIOUS
<1> HIDE DEF told, absent, changed, named
<1>9. /\ record \in Sessions /\ record.at = "row" /\ record.todo = order /\ record.told = told
  BY <1>2, <1>3, <1>5, <1>6, <1>7 DEF Sessions
<1> HIDE DEF record
<1>10. /\ sync'[s] = record /\ \A e : Visible(s, e)' = Visible(s, e)
       /\ SessionInv(s)' => ReferenceInv'
  BY <1>2, <1>9, RecordStep
<1>11. s \in Open /\ s \in Open' /\ SessionInv(s)
  BY <1>2, <1>9, <1>10 DEF Open, ReferenceInv
<1>12. ToldInv(s)'
  <2> SUFFICES ASSUME NEW e \in Entities
               PROVE  told[e] <= version[e] /\ (own[s][e] # NoRow => told[e] # Untold)
    BY <1>2, <1>9, <1>10, <1>11 DEF ToldInv
  <2>1. version[e] \in Nat /\ version[e] # Untold
    BY <1>3, Constants
  <2> QED BY <1>6, <1>11, <2>1 DEF SessionInv, ToldInv
<1>13. TodoInv(s)'
  <2> SUFFICES ASSUME NEW i \in DOMAIN order PROVE told[order[i]] # Untold
    BY <1>9, <1>10 DEF TodoInv
  <2>1. order[i] \in named /\ order[i] \in Entities
    BY <1>5, <1>8, Constants
  <2>2. version[order[i]] \in Nat
    BY <1>3, <2>1
  <2> QED BY <1>6, <2>1, <2>2, Constants
<1>14. NewerInv(s)'
  <2> SUFFICES ASSUME NEW e \in Entities, NEW a \in applied[e], told[e] # Untold
               PROVE  a[2] <= told[e] \/ {a[1], s} \in met
    BY <1>2, <1>9, <1>10 DEF NewerInv
  <2>1. a[2] \in 0..version[e]
    BY DEF ReferenceInv, AppliedInv
  <2>2. e \notin named => told[e] = sync[s].told[e]
    BY <1>6
  <2>3. e \in named => a[2] <= told[e]
    BY <1>6, <2>1
  <2> QED BY <1>11, <2>2, <2>3 DEF SessionInv, NewerInv
<1>15. DoneInv(s)'
  <2> SUFFICES ASSUME NEW e \in Games \cup Players, told[e] # Untold,
                      ~ \E i \in DOMAIN order : order[i] = e
               PROVE  Rivalled(s, e) \/ Visible(s, e) = Answer(e, told[e])
    BY <1>2, <1>9, <1>10 DEF DoneInv, Outstanding, Rivalled
  <2>1. e \in Entities
    BY Constants
  <2>2. CASE e \in named
    <3>1. e \notin changed
      BY <1>1, <1>5
    <3> QED BY <1>6, <1>8, <2>1, <2>2, <3>1
  <2>3. CASE e \notin named
    <3>1. told[e] = sync[s].told[e]
      BY <1>6, <2>1, <2>3
    <3>2. ~Outstanding(s, e)
      BY <1>2 DEF Outstanding
    <3> QED BY <1>11, <3>1, <3>2 DEF SessionInv, DoneInv
  <2> QED BY <2>2, <2>3
<1>16. ReadInv(s)'
  BY <1>9, <1>10 DEF ReadInv
<1> QED BY <1>10, <1>12, <1>13, <1>14, <1>15, <1>16 DEF SessionInv

LEMMA ReadRowKeeps == ASSUME ReferenceInv, NEW s \in Syncs, ReadRow(s) PROVE ReferenceInv'
<1> DEFINE e == Head(sync[s].todo)
<1>1. /\ sync[s].at = "row" /\ sync[s].todo # <<>>
      /\ UNCHANGED <<version, table, own, locked, applied, met, deaths>>
  BY DEF ReadRow
<1>2. /\ sync[s] \in Sessions /\ sync[s].todo \in Seq(Entities) /\ Visible(s, e) \in Cells
      /\ e \in Entities
  BY <1>1, SessionTypes, TailFacts DEF ReferenceInv
<1>3. s \in Open /\ SessionInv(s)
  BY <1>1 DEF Open, ReferenceInv
<1>4. CASE e \in Places /\ Visible(s, e) # NoRow
  <2> DEFINE record == [sync[s] EXCEPT !.todo = Tail(sync[s].todo)]
  <2>1. sync' = [sync EXCEPT ![s] = record]
    BY <1>4 DEF ReadRow
  <2>2. /\ record \in Sessions /\ record.at = "row" /\ record.todo = Tail(sync[s].todo)
        /\ record.told = sync[s].told
    BY <1>1, <1>2, TailFacts DEF Sessions
  <2> HIDE DEF record
  <2>3. /\ sync'[s] = record /\ \A k : Visible(s, k)' = Visible(s, k)
        /\ SessionInv(s)' => ReferenceInv'
    BY <1>1, <2>1, <2>2, RecordStep
  <2>4. s \in Open'
    BY <2>2, <2>3 DEF Open
  <2>5. ToldInv(s)' /\ NewerInv(s)' /\ ReadInv(s)'
    BY <1>1, <1>3, <2>2, <2>3, <2>4 DEF SessionInv, ToldInv, NewerInv, ReadInv
  <2>6. TodoInv(s)'
    BY <1>1, <1>3, <2>2, <2>3, NextInLine DEF SessionInv, ReferenceInv
  <2>7. DoneInv(s)'
    <3>1. \A k \in Games \cup Players : Outstanding(s, k) => Outstanding(s, k)'
      <4>1. e \notin Games \cup Players
        BY <1>4, Constants
      <4> QED BY <1>1, <1>3, <2>2, <2>3, <4>1, NextInLine DEF SessionInv, ReferenceInv
    <3> QED BY <1>1, <1>3, <2>2, <2>3, <3>1 DEF SessionInv, DoneInv, Rivalled
  <2> QED BY <2>3, <2>5, <2>6, <2>7 DEF SessionInv
<1>5. CASE ~(e \in Places /\ Visible(s, e) # NoRow)
  <2> DEFINE read == IF e \in sync[s].absent THEN NoRow ELSE Visible(s, e)
             record == [sync[s] EXCEPT !.at = "write", !.read = read]
  <2>1. sync' = [sync EXCEPT ![s] = record]
    BY <1>5 DEF ReadRow
  <2>2. read \in Cells /\ (read # NoRow => read = Visible(s, e))
    BY <1>2, Constants
  <2> HIDE DEF read
  <2>3. /\ record \in Sessions /\ record.at = "write" /\ record.todo = sync[s].todo
        /\ record.told = sync[s].told /\ record.read = read
    BY <1>2, <2>2 DEF Sessions
  <2> HIDE DEF record
  <2>4. /\ sync'[s] = record /\ \A k : Visible(s, k)' = Visible(s, k)
        /\ SessionInv(s)' => ReferenceInv'
    BY <1>1, <2>1, <2>3, RecordStep
  <2>5. s \in Open'
    BY <2>3, <2>4 DEF Open
  <2>6. ToldInv(s)' /\ NewerInv(s)' /\ TodoInv(s)'
    BY <1>1, <1>3, <2>3, <2>4, <2>5 DEF SessionInv, ToldInv, NewerInv, TodoInv
  <2>7. DoneInv(s)'
    BY <1>1, <1>3, <2>3, <2>4 DEF SessionInv, DoneInv, Rivalled, Outstanding
  <2>8. ReadInv(s)'
    BY <2>2, <2>3, <2>4 DEF ReadInv
  <2> QED BY <2>4, <2>6, <2>7, <2>8 DEF SessionInv
<1> QED BY <1>4, <1>5

\* The session has written the row at the head, or had nothing to change in it.
LEMMA RowDone ==
  ASSUME ReferenceInv, NEW s \in Syncs, sync[s].at = "write", NextRow(s),
         ReferenceTypeOK', UNCHANGED <<version, table, applied, met>>,
         \A t \in Syncs \ {s} : own'[t] = own[t],
         NEW e, e = Head(sync[s].todo), \A k \in Entities \ {e} : own'[s][k] = own[s][k],
         Rivalled(s, e) \/ Visible(s, e)' = Answer(e, sync[s].told[e])
  PROVE  ReferenceInv'
<1> DEFINE record == [sync[s] EXCEPT !.at = "row", !.todo = Tail(sync[s].todo)]
<1>1. sync' = [sync EXCEPT ![s] = record]
  BY DEF NextRow
<1>2. SessionInv(s) /\ s \in Open /\ sync \in [Syncs -> Sessions] /\ sync[s] \in Sessions
      /\ sync[s].todo \in Seq(Entities) /\ sync[s].todo # <<>>
  BY SessionTypes, TypesUnfold DEF ReferenceInv, SessionInv, TodoInv
<1>3. e \in Entities /\ sync[s].told[e] # Untold
  <2>1. e \in Entities /\ 1 \in DOMAIN sync[s].todo /\ e = sync[s].todo[1]
    BY <1>2, TailFacts
  <2> QED BY <1>2, <2>1 DEF SessionInv, TodoInv
<1>4. /\ record.at = "row" /\ record.todo = Tail(sync[s].todo) /\ record.told = sync[s].told
  BY <1>2 DEF Sessions
<1> HIDE DEF record
<1>5. sync'[s] = record /\ \A t \in Syncs \ {s} : sync'[t] = sync[t]
  BY <1>1, <1>2
<1>6. s \in Open'
  BY <1>4, <1>5 DEF Open
<1>7. MetInv'
  BY <1>2, <1>5, MetKept DEF ReferenceInv
<1>8. ToldInv(s)'
  BY <1>2, <1>3, <1>4, <1>5, <1>6 DEF SessionInv, ToldInv
<1>9. /\ TodoInv(s)'
      /\ \A k : k # e /\ Outstanding(s, k) => Outstanding(s, k)'
  BY <1>2, <1>4, <1>5, NextInLine DEF SessionInv, ReferenceInv
<1>10. NewerInv(s)'
  BY <1>2, <1>4, <1>5 DEF SessionInv, NewerInv
<1>11. DoneInv(s)'
  <2> SUFFICES ASSUME NEW k \in Games \cup Players, sync[s].told[k] # Untold,
                      ~Outstanding(s, k)', ~Rivalled(s, k)
               PROVE  Visible(s, k)' = Answer(k, sync[s].told[k])
    BY <1>4, <1>5 DEF DoneInv, Rivalled
  <2>1. CASE k = e
    BY <2>1
  <2>2. CASE k # e
    <3>1. Visible(s, k) = Answer(k, sync[s].told[k])
      BY <1>2, <1>9, <2>2 DEF SessionInv, DoneInv
    <3>2. own'[s][k] = own[s][k]
      BY <2>2, Constants
    <3> QED BY <3>1, <3>2 DEF Visible
  <2> QED BY <2>1, <2>2
<1>12. ReadInv(s)'
  BY <1>4, <1>5 DEF ReadInv
<1>13. SessionInv(s)'
  BY <1>8, <1>9, <1>10, <1>11, <1>12 DEF SessionInv
<1> QED BY <1>5, <1>7, <1>13, OwnStep

\* A row written is a row, and its lock is the session's.
LEMMA WriteTypes ==
  ASSUME ReferenceInv, NEW s \in Syncs, sync[s].at = "write", NextRow(s),
         NEW e, e = Head(sync[s].todo), NEW row \in RowValues, Write(s, e, row),
         locked[e] \in {Nobody, s}, UNCHANGED <<version, table, applied, met, deaths>>
  PROVE  /\ ReferenceTypeOK' /\ Visible(s, e)' = row
         /\ \A t \in Syncs \ {s} : own'[t] = own[t]
         /\ \A k \in Entities \ {e} : own'[s][k] = own[s][k]
<1> DEFINE record == [sync[s] EXCEPT !.at = "row", !.todo = Tail(sync[s].todo)]
           mine == [own[s] EXCEPT ![e] = row]
<1>1. /\ version \in [Entities -> 0..MaxVersion] /\ table \in [Entities -> Cells]
      /\ own \in [Syncs -> [Entities -> Cells]] /\ locked \in [Entities -> Syncs \cup {Nobody}]
      /\ sync \in [Syncs -> Sessions] /\ deaths \in 0..MaxDeaths
      /\ \A t \in Syncs, k \in Entities : own[t][k] # NoRow <=> locked[k] = t
  BY TypesUnfold DEF ReferenceInv
<1>2. sync[s].todo \in Seq(Entities) /\ sync[s].todo # <<>>
  BY SessionTypes DEF ReferenceInv, SessionInv, TodoInv
<1>3. e \in Entities /\ Tail(sync[s].todo) \in Seq(Entities)
  BY <1>2, TailFacts
<1>4. own' = [own EXCEPT ![s] = mine] /\ locked' = [locked EXCEPT ![e] = s]
  BY DEF Write
<1>5. row \in Cells /\ row # NoRow
  BY Constants DEF Cells
<1>6. /\ mine \in [Entities -> Cells] /\ mine[e] = row
      /\ \A k \in Entities \ {e} : mine[k] = own[s][k]
  BY <1>1, <1>3, <1>5
<1> HIDE DEF mine
<1>7. /\ own' \in [Syncs -> [Entities -> Cells]] /\ own'[s] = mine
      /\ \A t \in Syncs \ {s} : own'[t] = own[t]
  BY <1>1, <1>4, <1>6
<1>8. /\ locked' \in [Entities -> Syncs \cup {Nobody}] /\ locked'[e] = s
      /\ \A k \in Entities \ {e} : locked'[k] = locked[k]
  BY <1>1, <1>3, <1>4
<1>9. \A t \in Syncs, k \in Entities : own'[t][k] # NoRow <=> locked'[k] = t
  <2> SUFFICES ASSUME NEW t \in Syncs, NEW k \in Entities
               PROVE  own'[t][k] # NoRow <=> locked'[k] = t
    OBVIOUS
  <2>1. CASE k # e
    BY <1>1, <1>6, <1>7, <1>8, <2>1
  <2>2. CASE k = e /\ t = s
    BY <1>5, <1>6, <1>7, <1>8, <2>2
  <2>3. CASE k = e /\ t # s
    BY <1>1, <1>7, <1>8, <2>3, Constants
  <2> QED BY <2>1, <2>2, <2>3
<1>10. sync' \in [Syncs -> Sessions]
  <2>1. sync' = [sync EXCEPT ![s] = record]
    BY DEF NextRow
  <2>2. sync[s] \in Sessions
    BY <1>1
  <2>3. record \in Sessions
    BY <1>3, <2>2 DEF Sessions
  <2> HIDE DEF record
  <2> QED BY <1>1, <2>1, <2>3
<1>11. ReferenceTypeOK'
  BY <1>1, <1>7, <1>8, <1>9, <1>10 DEF ReferenceTypeOK, Cells, Sessions
<1>12. Visible(s, e)' = row
  BY <1>5, <1>6, <1>7 DEF Visible
<1> QED BY <1>6, <1>7, <1>11, <1>12

LEMMA AddRowKeeps == ASSUME ReferenceInv, NEW s \in Syncs, AddRow(s) PROVE ReferenceInv'
<1> PICK e : e = Head(sync[s].todo)
  OBVIOUS
<1> PICK answer : answer = Answer(e, sync[s].told[e])
  OBVIOUS
<1>1. /\ sync[s].at = "write" /\ sync[s].read = NoRow /\ NextRow(s) /\ ~Blocked(s, e)
      /\ Write(s, e, answer) /\ UNCHANGED <<version, table, applied, met, deaths>>
  BY DEF AddRow
<1>2. /\ sync[s].todo \in Seq(Entities) /\ sync[s].todo # <<>> /\ TodoInv(s)
      /\ sync[s].told \in [Entities -> (0..MaxVersion) \cup {Untold}]
  BY <1>1, SessionTypes DEF ReferenceInv, SessionInv, TodoInv
<1>3. e \in Entities /\ sync[s].told[e] \in 0..MaxVersion
  BY <1>2, TailFacts DEF TodoInv
<1>4. answer \in RowValues
  BY <1>3, AnswersAreRows
<1>5. locked[e] \in {Nobody, s}
  BY <1>1 DEF Blocked, Changed, Columns
<1>6. /\ ReferenceTypeOK' /\ Visible(s, e)' = answer
      /\ \A t \in Syncs \ {s} : own'[t] = own[t]
      /\ \A k \in Entities \ {e} : own'[s][k] = own[s][k]
  BY <1>1, <1>4, <1>5, WriteTypes
<1> QED BY <1>1, <1>6, RowDone

LEMMA UpdateRowKeeps == ASSUME ReferenceInv, NEW s \in Syncs, UpdateRow(s) PROVE ReferenceInv'
<1> PICK e : e = Head(sync[s].todo)
  OBVIOUS
<1> PICK answer : answer = Answer(e, sync[s].told[e])
  OBVIOUS
<1>b. PICK changed : changed = Changed(sync[s].read, answer)
  OBVIOUS
<1>c. PICK now : now = Visible(s, e)
  OBVIOUS
<1>d. PICK row : row = [c \in Columns |-> IF c \in changed THEN answer[c] ELSE now[c]]
  OBVIOUS
<1>1. /\ sync[s].at = "write" /\ sync[s].read # NoRow /\ NextRow(s) /\ ~Blocked(s, e)
      /\ IF changed = {} THEN UNCHANGED <<own, locked>> ELSE Write(s, e, row)
      /\ UNCHANGED <<version, table, applied, met, deaths>>
  BY <1>b, <1>c, <1>d DEF UpdateRow
<1>2. /\ sync[s].todo \in Seq(Entities) /\ sync[s].todo # <<>> /\ TodoInv(s) /\ ReadInv(s)
      /\ sync[s].told \in [Entities -> (0..MaxVersion) \cup {Untold}]
      /\ sync[s].read \in RowValues
  BY <1>1, SessionTypes DEF ReferenceInv, SessionInv, TodoInv, Cells
<1>3. e \in Entities /\ sync[s].told[e] \in 0..MaxVersion
  BY <1>2, TailFacts DEF TodoInv
<1>4. now \in RowValues /\ (now = sync[s].read \/ Rivalled(s, e))
  BY <1>1, <1>2, <1>3, <1>c, SessionTypes DEF ReadInv, ReferenceInv, Cells
<1>5. answer \in RowValues
  BY <1>3, AnswersAreRows
<1>6. changed = {c \in Columns : sync[s].read[c] # answer[c]}
  BY <1>1, <1>b DEF Changed
<1>7. row \in RowValues
  BY <1>4, <1>5, <1>d DEF RowValues
<1>8. now = sync[s].read => row = answer
  BY <1>5, <1>6, <1>d DEF RowValues
<1>9. changed = {} /\ now = sync[s].read => now = answer
  <2>1. now = [c \in Columns |-> now[c]] /\ answer = [c \in Columns |-> answer[c]]
    BY <1>4, <1>5 DEF RowValues
  <2>2. changed = {} /\ now = sync[s].read => \A c \in Columns : now[c] = answer[c]
    BY <1>6
  <2> QED BY <2>1, <2>2
<1>10. changed # {} => locked[e] \in {Nobody, s}
  BY <1>1, <1>b DEF Blocked
<1>11. CASE changed = {}
  <2>1. UNCHANGED <<own, locked>>
    BY <1>1, <1>11
  <2>2. ReferenceTypeOK'
    <3> DEFINE record == [sync[s] EXCEPT !.at = "row", !.todo = Tail(sync[s].todo)]
    <3>1. sync \in [Syncs -> Sessions] /\ Tail(sync[s].todo) \in Seq(Entities)
      BY <1>2, TypesUnfold, TailFacts DEF ReferenceInv
    <3>2. sync' = [sync EXCEPT ![s] = record]
      BY <1>1 DEF NextRow
    <3>3. record \in Sessions
      BY <3>1 DEF Sessions
    <3> HIDE DEF record
    <3>4. sync' \in [Syncs -> Sessions]
      BY <3>1, <3>2, <3>3
    <3> QED BY <1>1, <2>1, <3>4 DEF ReferenceInv, ReferenceTypeOK, Sessions, Cells
  <2>3. Visible(s, e)' = Visible(s, e)
    BY <1>1, <2>1 DEF Visible
  <2>4. Rivalled(s, e) \/ Visible(s, e)' = Answer(e, sync[s].told[e])
    BY <1>4, <1>9, <1>11, <1>c, <2>3
  <2> QED BY <1>1, <2>1, <2>2, <2>4, RowDone
<1>12. CASE changed # {}
  <2>1. /\ ReferenceTypeOK' /\ Visible(s, e)' = row
        /\ \A t \in Syncs \ {s} : own'[t] = own[t]
        /\ \A k \in Entities \ {e} : own'[s][k] = own[s][k]
    BY <1>1, <1>7, <1>10, <1>12, WriteTypes
  <2>2. Rivalled(s, e) \/ Visible(s, e)' = Answer(e, sync[s].told[e])
    BY <1>4, <1>8, <2>1
  <2>3. /\ sync[s].at = "write" /\ NextRow(s) /\ e = Head(sync[s].todo)
        /\ UNCHANGED <<version, table, applied, met>>
    BY <1>1
  <2> QED BY <2>1, <2>2, <2>3, RowDone
<1> QED BY <1>11, <1>12

\* The record, the rows and the locks of a session that ends.
LEMMA EndingTypes ==
  ASSUME ReferenceInv, NEW s \in Syncs, sync[s].at \in {"row", "write"},
         own' = [own EXCEPT ![s] = Empty], locked' = Released(s),
         sync' = [sync EXCEPT ![s] = Ended], UNCHANGED <<version, met>>,
         table' \in [Entities -> Cells], deaths' \in 0..MaxDeaths
  PROVE  /\ ReferenceTypeOK' /\ MetInv' /\ SessionInv(s)'
         /\ sync'[s] = Ended /\ \A t \in Syncs \ {s} : sync'[t] = sync[t] /\ own'[t] = own[t]
<1>1. /\ version \in [Entities -> 0..MaxVersion]
      /\ own \in [Syncs -> [Entities -> Cells]] /\ locked \in [Entities -> Syncs \cup {Nobody}]
      /\ sync \in [Syncs -> Sessions]
      /\ \A t \in Syncs, e \in Entities : own[t][e] # NoRow <=> locked[e] = t
  BY TypesUnfold DEF ReferenceInv
<1>2. /\ own' \in [Syncs -> [Entities -> Cells]] /\ own'[s] = Empty
      /\ sync' \in [Syncs -> Sessions] /\ sync'[s] = Ended
      /\ \A t \in Syncs \ {s} : sync'[t] = sync[t] /\ own'[t] = own[t]
  BY <1>1, EndsOfSessions
<1>3. /\ locked' \in [Entities -> Syncs \cup {Nobody}]
      /\ \A e \in Entities : locked'[e] = IF locked[e] = s THEN Nobody ELSE locked[e]
  BY <1>1 DEF Released
<1>4. \A t \in Syncs, e \in Entities : own'[t][e] # NoRow <=> locked'[e] = t
  <2> SUFFICES ASSUME NEW t \in Syncs, NEW e \in Entities
               PROVE  own'[t][e] # NoRow <=> locked'[e] = t
    OBVIOUS
  <2>1. CASE t = s
    BY <1>2, <1>3, <2>1, EndsOfSessions, Constants
  <2>2. CASE t # s
    BY <1>1, <1>2, <1>3, <2>2, Constants
  <2> QED BY <2>1, <2>2
<1>5. ReferenceTypeOK'
  BY <1>1, <1>2, <1>3, <1>4 DEF ReferenceTypeOK, Cells, Sessions
<1>6. s \notin Open'
  BY <1>2, EndsOfSessions DEF Open
<1>7. MetInv'
  BY <1>2, <1>6, MetKept DEF ReferenceInv
<1>8. SessionInv(s)'
  <2>1. ToldInv(s)'
    BY <1>1, <1>2, EndsOfSessions, Constants DEF ToldInv
  <2>2. TodoInv(s)' /\ ReadInv(s)'
    BY <1>2, EndsOfSessions DEF TodoInv, ReadInv
  <2>3. NewerInv(s)' /\ DoneInv(s)'
    BY <1>6 DEF NewerInv, DoneInv
  <2> QED BY <2>1, <2>2, <2>3 DEF SessionInv
<1> QED BY <1>2, <1>5, <1>7, <1>8

LEMMA RollBackKeeps ==
  ASSUME ReferenceInv, NEW s \in Syncs,
         AddFails(s) \/ Refuse(s) \/ BreakDeadlock(s) \/ Die(s)
  PROVE  ReferenceInv'
<1>1. table \in [Entities -> Cells] /\ deaths \in 0..MaxDeaths
  BY TypesUnfold DEF ReferenceInv
<1>2. /\ sync[s].at \in {"row", "write"} /\ RollBack(s)
      /\ deaths' \in 0..MaxDeaths
  <2>1. CASE AddFails(s)
    BY <1>1, <2>1 DEF AddFails
  <2>2. CASE Refuse(s)
    BY <1>1, <2>2 DEF Refuse
  <2>3. CASE BreakDeadlock(s)
    BY <1>1, <2>3 DEF BreakDeadlock, WaitsFor
  <2>4. CASE Die(s)
    BY <1>1, <2>4, SessionTypes, Constants DEF Die, ReferenceInv
  <2> QED BY <2>1, <2>2, <2>3, <2>4
<1>3. /\ own' = [own EXCEPT ![s] = Empty] /\ locked' = Released(s)
      /\ sync' = [sync EXCEPT ![s] = Ended] /\ UNCHANGED <<version, table, applied, met>>
      /\ table' \in [Entities -> Cells]
  BY <1>1, <1>2 DEF RollBack
<1>4. /\ ReferenceTypeOK' /\ MetInv' /\ SessionInv(s)'
      /\ \A t \in Syncs \ {s} : sync'[t] = sync[t] /\ own'[t] = own[t]
  BY <1>2, <1>3, EndingTypes
<1> QED BY <1>2, <1>3, <1>4, OwnStep

LEMMA CommitSyncKeeps == ASSUME ReferenceInv, NEW s \in Syncs, CommitSync(s) PROVE ReferenceInv'
<1> DEFINE told == sync[s].told
<1>1. /\ sync[s].at = "row" /\ sync[s].todo = <<>>
      /\ table' = [e \in Entities |-> Visible(s, e)]
      /\ applied' = [e \in Entities |->
           IF told[e] # Untold THEN applied[e] \cup {<<s, told[e]>>} ELSE applied[e]]
      /\ own' = [own EXCEPT ![s] = Empty] /\ locked' = Released(s)
      /\ sync' = [sync EXCEPT ![s] = Ended] /\ UNCHANGED <<version, met, deaths>>
  BY DEF CommitSync
<1>2. /\ s \in Open /\ SessionInv(s) /\ deaths \in 0..MaxDeaths
      /\ version \in [Entities -> 0..MaxVersion]
      /\ told \in [Entities -> (0..MaxVersion) \cup {Untold}]
      /\ \A e \in Entities : Visible(s, e) \in Cells
  BY <1>1, SessionTypes, TypesUnfold DEF ReferenceInv
<1>3. table' \in [Entities -> Cells] /\ \A e \in Entities : table'[e] = Visible(s, e)
  <2> DEFINE seen(e) == Visible(s, e)
  <2>1. table' = [e \in Entities |-> seen(e)] /\ \A e \in Entities : seen(e) \in Cells
    BY <1>1, <1>2
  <2> HIDE DEF seen
  <2>2. table' \in [Entities -> Cells] /\ \A e \in Entities : table'[e] = seen(e)
    BY <2>1
  <2> QED BY <2>2 DEF seen
<1>4. /\ ReferenceTypeOK' /\ MetInv' /\ SessionInv(s)' /\ sync'[s] = Ended
      /\ \A t \in Syncs \ {s} : sync'[t] = sync[t] /\ own'[t] = own[t]
  BY <1>1, <1>2, <1>3, EndingTypes
<1>5. \A e \in Entities : /\ told[e] = Untold => applied'[e] = applied[e]
                          /\ told[e] # Untold => applied'[e] = applied[e] \cup {<<s, told[e]>>}
  BY <1>1
\* A row the session did not answer for is as it was.
<1>6. \A e \in Entities : told[e] = Untold => own[s][e] = NoRow /\ table'[e] = table[e]
  BY <1>2, <1>3 DEF SessionInv, ToldInv, Visible
<1>7. \A e \in Entities : told[e] # Untold => told[e] \in 0..version[e] /\ told[e] \in 0..MaxVersion
  BY <1>2, Constants DEF SessionInv, ToldInv
<1>8. \A e \in Entities : \A a \in applied[e] :
        a[1] \in Syncs \ {s} /\ sync[a[1]].at = "over" /\ a[2] \in 0..version[e]
  BY <1>1 DEF ReferenceInv, AppliedInv
<1>9. AppliedInv'
  <2> SUFFICES ASSUME NEW e \in Entities, NEW a \in applied'[e]
               PROVE  a[1] \in Syncs /\ sync'[a[1]].at = "over" /\ a[2] \in 0..version[e]
    BY <1>1 DEF AppliedInv
  <2>1. CASE a \in applied[e]
    BY <1>4, <1>8, <2>1
  <2>2. CASE a \notin applied[e]
    <3>1. a = <<s, told[e]>> /\ told[e] # Untold
      BY <1>5, <2>2
    <3> QED BY <1>4, <1>7, <3>1, EndsOfSessions
  <2> QED BY <2>1, <2>2
<1>10. FreshInv'
  <2> SUFFICES ASSUME NEW e \in Games \cup Players, applied'[e] # {}
               PROVE  \/ \E a \in applied'[e] :
                           table'[e] = Answer(e, a[2]) /\ \A b \in applied'[e] : b[2] <= a[2]
                      \/ \E a, b \in applied'[e] : a[1] # b[1] /\ {a[1], b[1]} \in met
    BY <1>1 DEF FreshInv
  <2>1. e \in Entities
    BY Constants
  <2>2. CASE told[e] = Untold
    <3>1. applied'[e] = applied[e] /\ table'[e] = table[e]
      BY <1>5, <1>6, <2>1, <2>2
    <3> QED BY <3>1 DEF ReferenceInv, FreshInv
  <2>3. CASE told[e] # Untold
    <3> DEFINE mine == <<s, told[e]>>
    <3>1. applied'[e] = applied[e] \cup {mine} /\ mine[1] = s /\ mine[2] = told[e]
      BY <1>5, <2>1, <2>3
    <3> HIDE DEF mine
    <3>2. CASE \E a \in applied[e] : {a[1], s} \in met
      BY <1>8, <2>1, <3>1, <3>2
    <3>3. CASE ~ \E a \in applied[e] : {a[1], s} \in met
      <4>1. table'[e] = Answer(e, told[e])
        <5>1. ~Outstanding(s, e) /\ ~Rivalled(s, e)
          <6>1. DOMAIN sync[s].todo = {}
            BY <1>1
          <6> QED BY <3>3, <6>1 DEF Outstanding, Rivalled
        <5> QED BY <1>2, <1>3, <2>1, <2>3, <5>1 DEF SessionInv, DoneInv
      <4>2. \A b \in applied[e] : b[2] <= told[e]
        BY <1>2, <2>1, <2>3, <3>3 DEF SessionInv, NewerInv
      <4>3. told[e] <= told[e]
        BY <1>7, <2>1, <2>3
      <4> QED BY <3>1, <4>1, <4>2, <4>3
    <3> QED BY <3>2, <3>3
  <2> QED BY <2>2, <2>3
\* For the sessions that are still open the commit is a rival's.
<1>11. ASSUME NEW t \in Syncs, t # s PROVE SessionInv(t)'
  <2>1. /\ SessionInv(t) /\ sync'[t] = sync[t] /\ own'[t] = own[t] /\ met' = met
        /\ version' = version /\ (t \in Open' <=> t \in Open)
        /\ t \in Open => {s, t} \in met
    BY <1>1, <1>2, <1>4, <1>11 DEF ReferenceInv, MetInv, Open
  <2>2. \A e \in Entities : Rivalled(t, e) => Rivalled(t, e)'
    BY <1>5, <2>1 DEF Rivalled
  <2>3. ASSUME NEW e \in Entities, t \in Open
        PROVE  /\ Rivalled(t, e)' \/ Visible(t, e)' = Visible(t, e)
               /\ Visible(t, e) # NoRow => Visible(t, e)' # NoRow
    <3>1. told[e] # Untold => Rivalled(t, e)'
      <4>1. told[e] # Untold => <<s, told[e]>> \in applied'[e]
        BY <1>5
      <4> QED BY <2>1, <2>3, <4>1 DEF Rivalled
    <3>2. told[e] = Untold => Visible(t, e)' = Visible(t, e)
      BY <1>6, <2>1 DEF Visible
    <3>3. table[e] # NoRow => table'[e] # NoRow
      BY <1>3 DEF Visible
    <3> QED BY <2>1, <3>1, <3>2, <3>3 DEF Visible
  <2>4. ToldInv(t)' /\ TodoInv(t)'
    BY <2>1 DEF SessionInv, ToldInv, TodoInv
  <2>5. NewerInv(t)'
    <3> SUFFICES ASSUME t \in Open, NEW e \in Entities, NEW a \in applied'[e]
                 PROVE  sync[t].told[e] = Untold \/ a[2] <= sync[t].told[e] \/ {a[1], t} \in met
      BY <2>1 DEF NewerInv
    <3>1. CASE a \in applied[e]
      BY <2>1, <3>1 DEF SessionInv, NewerInv
    <3>2. CASE a \notin applied[e]
      <4>1. a = <<s, told[e]>>
        BY <1>5, <3>2
      <4> QED BY <2>1, <4>1
    <3> QED BY <3>1, <3>2
  <2>6. DoneInv(t)'
    <3> SUFFICES ASSUME t \in Open, NEW e \in Games \cup Players,
                        sync[t].told[e] # Untold, ~Outstanding(t, e), ~Rivalled(t, e)'
                 PROVE  Visible(t, e)' = Answer(e, sync[t].told[e])
      BY <2>1 DEF DoneInv, Outstanding
    <3>1. e \in Entities
      BY Constants
    <3>2. ~Rivalled(t, e) /\ Visible(t, e)' = Visible(t, e)
      BY <2>2, <2>3, <3>1
    <3> QED BY <2>1, <3>2 DEF SessionInv, DoneInv
  <2>7. ReadInv(t)'
    <3> SUFFICES ASSUME sync[t].at = "write", sync[t].read # NoRow, NEW e, e = Head(sync[t].todo)
                 PROVE  /\ Visible(t, e)' # NoRow
                        /\ Visible(t, e)' = sync[t].read \/ Rivalled(t, e)'
      BY <2>1 DEF ReadInv
    <3>1. t \in Open /\ e \in Entities
      BY <2>1, SessionTypes, TailFacts DEF ReferenceInv, SessionInv, TodoInv
    <3>2. Visible(t, e) # NoRow /\ (Visible(t, e) = sync[t].read \/ Rivalled(t, e))
      BY <2>1 DEF SessionInv, ReadInv
    <3> QED BY <2>2, <2>3, <3>1, <3>2
  <2> QED BY <2>4, <2>5, <2>6, <2>7 DEF SessionInv
<1> QED BY <1>4, <1>9, <1>10, <1>11 DEF ReferenceInv

LEMMA ReferenceKept == ReferenceInv /\ [ReferenceNext]_referenceVars => ReferenceInv'
<1> SUFFICES ASSUME ReferenceInv, [ReferenceNext]_referenceVars PROVE ReferenceInv'
  OBVIOUS
<1>1. CASE ProviderMoves
  BY <1>1, ProviderMovesKeeps
<1>2. ASSUME NEW s \in Syncs, StartFixtureSync(s) \/ StartSquadSync(s) PROVE ReferenceInv'
  BY <1>2, StartsKeep
<1>3. ASSUME NEW s \in Syncs, SyncStep(s) PROVE ReferenceInv'
  BY <1>3, AskSquadKeeps, ReadRowKeeps, AddRowKeeps, UpdateRowKeeps, CommitSyncKeeps,
     RollBackKeeps DEF SyncStep
<1>4. ASSUME NEW s \in Syncs, Die(s) PROVE ReferenceInv'
  BY <1>4, RollBackKeeps
<1>5. CASE UNCHANGED referenceVars
  <2>1. UNCHANGED <<version, table, own, locked, sync, applied, met, deaths>>
    BY <1>5 DEF referenceVars
  <2>2. ReferenceTypeOK' /\ MetInv' /\ AppliedInv' /\ FreshInv'
    BY <2>1 DEF ReferenceInv, ReferenceTypeOK, MetInv, AppliedInv, FreshInv, Open
  <2>3. \A e \in Entities : version[e] <= version'[e]
    BY <2>1, TypesUnfold, Constants DEF ReferenceInv
  <2>4. ASSUME NEW s \in Syncs PROVE SessionInv(s)'
    BY <2>1, <2>3, SessionKept, TypesUnfold DEF ReferenceInv
  <2> QED BY <2>2, <2>4 DEF ReferenceInv
<1> QED BY <1>1, <1>2, <1>3, <1>4, <1>5 DEF ReferenceNext

\* The inductive invariant of the syncs.
THEOREM ReferenceInductive == ReferenceSpec => []ReferenceInv
BY ReferenceStarts, ReferenceKept, PTL DEF ReferenceSpec

\* Rows, locks and sessions keep their types, and a row is locked by the session
\* that has written it, by nobody else.
THEOREM ReferenceTyped == ReferenceSpec => []ReferenceTypeOK
<1>1. ReferenceInv => ReferenceTypeOK
  BY DEF ReferenceInv
<1> QED BY <1>1, ReferenceInductive, PTL

\* No order of syncs that do not overlap brings an older row back.
THEOREM FreshestStays == ReferenceSpec => []FreshestAnswerStays
<1>1. ReferenceInv => FreshestAnswerStays
  <2> SUFFICES ASSUME ReferenceInv, NEW e \in Games \cup Players, applied[e] # {},
                      ~ \E a, b \in applied[e] : a[1] # b[1] /\ {a[1], b[1]} \in met,
                      NEW newest, newest = CHOOSE v \in 0..MaxVersion :
                                     /\ \E a \in applied[e] : a[2] = v
                                     /\ \A a \in applied[e] : a[2] <= v
               PROVE  table[e] = Answer(e, newest)
    BY DEF FreshestAnswerStays
  <2>1. PICK a \in applied[e] :
          table[e] = Answer(e, a[2]) /\ \A b \in applied[e] : b[2] <= a[2]
    BY DEF ReferenceInv, FreshInv
  <2>2. e \in Entities /\ version[e] \in 0..MaxVersion
    BY Constants, TypesUnfold DEF ReferenceInv
  <2>3. \A b \in applied[e] : b[2] \in 0..version[e]
    BY <2>2 DEF ReferenceInv, AppliedInv
  <2>4. a[2] \in 0..MaxVersion
    BY <2>2, <2>3, Constants
  <2>5. /\ newest \in 0..MaxVersion /\ \E b \in applied[e] : b[2] = newest
        /\ \A b \in applied[e] : b[2] <= newest
    BY <2>1, <2>4
  <2>6. newest = a[2]
    BY <2>1, <2>3, <2>4, <2>5
  <2> QED BY <2>1, <2>6
<1> QED BY <1>1, ReferenceInductive, PTL
-----------------------------------------------------------------------------
(* Side by side *)

\* A behaviour of the three writers side by side is a behaviour of each.
LEMMA DatabaseIsAll == DatabaseSpec => Spec /\ ReferenceSpec /\ BackfillSpec
<1>1. DatabaseInit => Init /\ ReferenceInit /\ BackfillInit
  BY DEF DatabaseInit
<1>2. [DatabaseNext]_databaseVars
        => [Next]_vars /\ [ReferenceNext]_referenceVars /\ [BackfillNext]_backfillVars
  BY DEF DatabaseNext, databaseVars
<1> QED BY <1>1, <1>2, PTL DEF DatabaseSpec, Spec, ReferenceSpec, BackfillSpec

\* The rows, locks and files of settlement, syncs and backfills, and the
\* processes that use them keep their types.
THEOREM DatabaseTyped == DatabaseSpec => []DatabaseTypeOK
<1>1. TypeOK /\ ReferenceTypeOK /\ BackfillInv => DatabaseTypeOK
  BY DEF DatabaseTypeOK, BackfillInv
<1> QED BY <1>1, DatabaseIsAll, TypeCorrect, ReferenceTyped, BackfillInductive, PTL
=============================================================================

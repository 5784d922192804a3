---------------------------- MODULE ReferenceSync ----------------------------
(***************************************************************************)
(* IngestionService (fixtures, with the competitions and teams they need)   *)
(* and PlayerSquadIngestionService behind FixtureSquadIngestionService:      *)
(* syncs of the daily job, the backfills and the endpoints, each in one     *)
(* transaction, any of them at the same time.  (The pre-kickoff command     *)
(* syncs inside its own longer transaction and swallows the exceptions: its *)
(* transaction is in PreKickoff.)                                           *)
(*                                                                         *)
(* A row is looked up by its external id and added, or read and changed:    *)
(*   - a team or competition that is there is left alone;                   *)
(*   - of a fixture the mutable columns are assigned (kickoff; status with  *)
(*     score), of a player the team and the name, if they looked different  *)
(*     when the batch was prepared;                                         *)
(*   - the ORM's UPDATE names the columns that differ from the row as it    *)
(*     was read just before, and waits for a row lock; an INSERT waits for  *)
(*     an open one of the same external id.  PostgreSQL (external) keeps    *)
(*     both to the commit, fails a duplicate INSERT and breaks deadlocks.   *)
(* Any exception leaves the service and rolls the whole batch back.         *)
(***************************************************************************)
EXTENDS Integers, FiniteSets, Sequences

CONSTANTS
  Syncs,       \* sessions that sync
  Places,      \* rows of the kind that is only added: teams, competitions
  Games,       \* fixtures
  Players,
  Sides,       \* the teams of the fixture whose squads are synced, home first
  Facts,       \* what the provider says of a row: <<first, second>>, by version
  Misnamed,    \* <<fixture, version>> where it names other teams or another league
  Batches,     \* orders in which it lists places and fixtures (one without a
               \* league id is skipped and not in them)
  MaxVersion,  \* bound: versions of a row after the first
  MaxDeaths,   \* bound: sessions killed or cut off
  NoRow, Nobody

Entities == Places \cup Games \cup Players
Columns == {1, 2}
Fields == {Facts[e][v][c] : e \in Entities, v \in 0..MaxVersion, c \in Columns}
RowValues == [Columns -> Fields]

\* No version: a row the session has no answer for.
Untold == -1

ASSUME ReferenceAssumption ==
  /\ MaxVersion \in Nat /\ MaxDeaths \in Nat
  /\ \A e \in Entities : \A v \in 0..MaxVersion : Facts[e][v] \in RowValues
  /\ NoRow \notin RowValues /\ Nobody \notin Syncs
  /\ Batches \subseteq Seq(Places \cup Games)
  /\ Sides \in Seq(Places)
  /\ Places \cap (Games \cup Players) = {} /\ IsFiniteSet(Players)

VARIABLES
  version,  \* the provider's current version of each row
  table,    \* the committed rows: NoRow or <<first, second>>
  own,      \* rows as the open transaction of each session has written them, or NoRow
  locked,   \* the session that has written a row and not yet ended
  sync,     \* each session: [at, todo, told, absent, read, teams]
  applied,  \* history: <<session, version>> committed for each row
  met,      \* history: pairs of sessions that were open at the same time
  deaths

referenceVars == <<version, table, own, locked, sync, applied, met, deaths>>

NoSync == [at |-> "new", todo |-> <<>>, told |-> [e \in Entities |-> Untold],
           absent |-> {}, read |-> NoRow, teams |-> <<>>]
Ended == [NoSync EXCEPT !.at = "over"]
Empty == [e \in Entities |-> NoRow]

ReferenceInit ==
  /\ version = [e \in Entities |-> 0]
  /\ table = [e \in Entities |-> NoRow]
  /\ own = [s \in Syncs |-> Empty]
  /\ locked = [e \in Entities |-> Nobody]
  /\ sync = [s \in Syncs |-> NoSync]
  /\ applied = [e \in Entities |-> {}]
  /\ met = {}
  /\ deaths = 0

Open == {s \in Syncs : sync[s].at \notin {"new", "over"}}

\* A kickoff moves, a match goes on, a player changes his club.
ProviderMoves ==
  /\ \E e \in Games \cup Players :
       /\ version[e] < MaxVersion
       /\ version' = [version EXCEPT ![e] = @ + 1]
  /\ UNCHANGED <<table, own, locked, sync, applied, met, deaths>>

Opens(s, record) ==
  /\ sync[s].at = "new"
  /\ sync' = [sync EXCEPT ![s] = record]
  /\ met' = met \cup {{s, t} : t \in Open}
  /\ UNCHANGED <<version, table, own, locked, applied, deaths>>

\* sync_today, sync_league_season, sync_fixture: one call of the provider for
\* all fixtures of the batch.
StartFixtureSync(s) ==
  \E batch \in Batches :
    Opens(s, [NoSync EXCEPT !.at = "row", !.todo = batch,
                !.told = [e \in Entities |->
                  IF \E n \in DOMAIN batch : batch[n] = e THEN version[e] ELSE Untold]])

\* sync_fixture of the squads: the home team's squad, then the away team's.
StartSquadSync(s) ==
  Opens(s, [NoSync EXCEPT !.at = "row", !.teams = Sides])

\* What session s sees of a row.
Visible(s, e) == IF own[s][e] # NoRow THEN own[s][e] ELSE table[e]

\* The answer of version v for the row.
Answer(e, v) == Facts[e][v]

\* sync_team: the squad is asked for and the whole batch prepared; players
\* who look unchanged are left out.  (Who is not listed is not looked at: a
\* player stays in a team until another one lists him.)  The provider's answer
\* and the lookups of team and players are one step, and the fixture is there.
AskSquad(s) ==
  LET listed  == {p \in Players : Answer(p, version[p])[1] = Head(sync[s].teams)}
      changed == {p \in listed : Visible(s, p) # Answer(p, version[p])}
  IN  /\ sync[s].at = "row" /\ sync[s].todo = <<>> /\ sync[s].teams # <<>>
      /\ Visible(s, Head(sync[s].teams)) # NoRow
      /\ \E order \in [1..Cardinality(changed) -> changed] :
           /\ changed = {order[i] : i \in 1..Cardinality(changed)}
           /\ sync' = [sync EXCEPT ![s] = [sync[s] EXCEPT
                !.teams = Tail(sync[s].teams),
                !.told = [e \in Entities |->
                           IF e \in listed THEN version[e] ELSE sync[s].told[e]],
                !.absent = {p \in listed : Visible(s, p) = NoRow},
                !.todo = order]]
      /\ UNCHANGED <<version, table, own, locked, applied, met, deaths>>

\* get_by_external_id, and session.get in update: the row is read again right
\* before it is written, but a player who was not there is not looked for.
ReadRow(s) ==
  /\ sync[s].at = "row" /\ sync[s].todo # <<>>
  /\ LET e == Head(sync[s].todo) IN
       IF e \in Places /\ Visible(s, e) # NoRow
       THEN sync' = [sync EXCEPT ![s] = [sync[s] EXCEPT !.todo = Tail(sync[s].todo)]]
       ELSE sync' = [sync EXCEPT ![s] = [sync[s] EXCEPT !.at = "write",
              !.read = IF e \in sync[s].absent THEN NoRow ELSE Visible(s, e)]]
  /\ UNCHANGED <<version, table, own, locked, applied, met, deaths>>

\* Fault: the kickoff of a known fixture is not refreshed.
SecondColumnOnly(read, answer) == IF read = NoRow THEN Columns ELSE {2}

\* The columns the statement names: all of an INSERT, of an UPDATE those that
\* differ from the row read.
Changed(read, answer) ==
  IF read = NoRow THEN Columns ELSE {c \in Columns : read[c] # answer[c]}

NextRow(s) ==
  sync' = [sync EXCEPT ![s] = [sync[s] EXCEPT !.at = "row", !.todo = Tail(sync[s].todo)]]

\* The row as the open transaction has written it.
Write(s, e, row) ==
  /\ own' = [own EXCEPT ![s] = [own[s] EXCEPT ![e] = row]]
  /\ locked' = [locked EXCEPT ![e] = s]

\* The session's statement must wait for another transaction.
Blocked(s, e) ==
  /\ locked[e] \notin {Nobody, s}
  /\ Changed(sync[s].read, Answer(e, sync[s].told[e])) # {}

WaitsFor(s, t) ==
  sync[s].at = "write" /\ Blocked(s, Head(sync[s].todo)) /\ locked[Head(sync[s].todo)] = t

\* add: an INSERT.
AddRow(s) ==
  /\ sync[s].at = "write" /\ sync[s].read = NoRow
  /\ LET e == Head(sync[s].todo) IN
       /\ ~Blocked(s, e) /\ Visible(s, e) = NoRow
       /\ Write(s, e, Answer(e, sync[s].told[e]))
  /\ NextRow(s)
  /\ UNCHANGED <<version, table, applied, met, deaths>>

\* update: the named columns of the row as it is by now.
UpdateRow(s) ==
  /\ sync[s].at = "write" /\ sync[s].read # NoRow
  /\ LET e       == Head(sync[s].todo)
         answer  == Answer(e, sync[s].told[e])
         changed == Changed(sync[s].read, answer)
         now     == Visible(s, e)
     IN  /\ ~Blocked(s, e) /\ <<e, sync[s].told[e]>> \notin Misnamed
         /\ IF changed = {} THEN UNCHANGED <<own, locked>>
            ELSE Write(s, e, [c \in Columns |-> IF c \in changed THEN answer[c] ELSE now[c]])
  /\ NextRow(s)
  /\ UNCHANGED <<version, table, applied, met, deaths>>

Released(s) == [e \in Entities |-> IF locked[e] = s THEN Nobody ELSE locked[e]]

CommitSync(s) ==
  /\ sync[s].at = "row" /\ sync[s].todo = <<>> /\ sync[s].teams = <<>>
  /\ table' = [e \in Entities |-> Visible(s, e)]
  /\ applied' = [e \in Entities |->
       IF sync[s].told[e] # Untold THEN applied[e] \cup {<<s, sync[s].told[e]>>}
       ELSE applied[e]]
  /\ own' = [own EXCEPT ![s] = Empty]
  /\ locked' = Released(s)
  /\ sync' = [sync EXCEPT ![s] = Ended]
  /\ UNCHANGED <<version, met, deaths>>

\* Fault: the exception leaves the transaction open.
LeaveOpen(s) ==
  /\ sync' = [sync EXCEPT ![s] = Ended]
  /\ UNCHANGED <<version, table, own, locked, applied, met>>

RollBack(s) ==
  /\ own' = [own EXCEPT ![s] = Empty]
  /\ locked' = Released(s)
  /\ sync' = [sync EXCEPT ![s] = Ended]
  /\ UNCHANGED <<version, table, applied, met>>

\* The INSERT finds the row another transaction has committed since.
AddFails(s) ==
  /\ sync[s].at = "write" /\ sync[s].read = NoRow
  /\ table[Head(sync[s].todo)] # NoRow
  /\ RollBack(s) /\ UNCHANGED deaths

\* The squads of teams that are not in the table are refused, and so is a
\* fixture whose teams or competition are others than those of its row: with
\* it, its whole batch.  Misnamed stands for the comparison with the row.
Refuse(s) ==
  /\ \/ /\ sync[s].at = "row" /\ sync[s].todo = <<>> /\ sync[s].teams # <<>>
        /\ \E i \in DOMAIN Sides : Visible(s, Sides[i]) = NoRow
     \/ /\ sync[s].at = "write" /\ sync[s].read # NoRow
        /\ <<Head(sync[s].todo), sync[s].told[Head(sync[s].todo)]>> \in Misnamed
  /\ RollBack(s) /\ UNCHANGED deaths

\* PostgreSQL ends a statement that is part of a circle of waiting ones.
BreakDeadlock(s) ==
  /\ \E t \in Syncs : WaitsFor(s, t) /\
       (WaitsFor(t, s) \/ \E u \in Syncs : WaitsFor(t, u) /\ WaitsFor(u, s))
  /\ RollBack(s) /\ UNCHANGED deaths

\* The provider or the connection fails, or the process is killed.
Die(s) ==
  /\ s \in Open /\ deaths < MaxDeaths
  /\ deaths' = deaths + 1
  /\ RollBack(s)

SyncStep(s) ==
  \/ AskSquad(s) \/ ReadRow(s) \/ AddRow(s) \/ UpdateRow(s) \/ CommitSync(s)
  \/ AddFails(s) \/ Refuse(s) \/ BreakDeadlock(s)

ReferenceNext ==
  \/ ProviderMoves
  \/ \E s \in Syncs : StartFixtureSync(s) \/ StartSquadSync(s) \/ SyncStep(s) \/ Die(s)

ReferenceSpec == ReferenceInit /\ [][ReferenceNext]_referenceVars

\* Statements, provider calls and the server's deadlock detection end.
ReferenceFairness == \A s \in Syncs : WF_referenceVars(SyncStep(s))
-----------------------------------------------------------------------------
(* Properties *)

\* Types of the variables.
ReferenceTypeOK ==
  /\ version \in [Entities -> 0..MaxVersion]
  /\ table \in [Entities -> RowValues \cup {NoRow}]
  /\ own \in [Syncs -> [Entities -> RowValues \cup {NoRow}]]
  /\ locked \in [Entities -> Syncs \cup {Nobody}]
  /\ sync \in [Syncs -> [at : {"new", "row", "write", "over"}, todo : Seq(Entities),
                         told : [Entities -> (0..MaxVersion) \cup {Untold}],
                         absent : SUBSET Players, read : RowValues \cup {NoRow},
                         teams : Seq(Places)]]
  /\ \A s \in Syncs, e \in Entities : own[s][e] # NoRow <=> locked[e] = s
  /\ deaths \in 0..MaxDeaths

\* The table says what the provider said last.  A row can differ from the
\* newest answer a committed sync had for it (an older answer, or some columns
\* of one and some of another) only if two syncs that wrote it overlapped:
\* reading before and updating after somebody else's commit, or asking first
\* and committing last.  No order of separate syncs, refused batches,
\* deadlocks or deaths brings an older kickoff, result or team back.
FreshestAnswerStays ==
  \A e \in Games \cup Players : applied[e] # {} =>
    LET newest == CHOOSE v \in 0..MaxVersion :
                    /\ \E a \in applied[e] : a[2] = v
                    /\ \A a \in applied[e] : a[2] <= v
    IN  \/ table[e] = Answer(e, newest)
        \/ \E a, b \in applied[e] : a[1] # b[1] /\ {a[1], b[1]} \in met

\* Every sync ends, although syncs list the same rows in different orders and
\* wait for each other's locks, and some die holding them.
SyncsEnd ==
  \A s \in Syncs : s \in Open ~> sync[s].at = "over"
=============================================================================

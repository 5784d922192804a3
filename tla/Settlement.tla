----------------------------- MODULE Settlement -----------------------------
(***************************************************************************)
(* SettlementService.settle_all run by several workers at once (the daily   *)
(* job's settlement step, the settlement command, the production recovery)  *)
(* against one PostgreSQL database.  Each run is one READ COMMITTED         *)
(* transaction (Database.session): what it adds is private until it commits *)
(* and is dropped when anything in it raises or the process dies.           *)
(*                                                                         *)
(* A run lists the unsettled bets, asks the provider about each of their    *)
(* fixtures, only then takes the advisory transaction lock and reads the    *)
(* latest balance, lists the unsettled bets AGAIN, and adds one settlement  *)
(* and one bankroll row per bet it can settle.  Bets are placed, and        *)
(* the provider changes its answers, at any moment in between.              *)
(*                                                                         *)
(* Rows are listed in commit order.  Identity() numbers a bankroll row when *)
(* it is flushed; rows are only flushed under the lock, which is held until *)
(* the commit, so the two orders agree.                                     *)
(*                                                                         *)
(* Left out: candidates whose bet or fixture row is missing (value bets and *)
(* fixtures are never deleted and a foreign key ties them), the report.     *)
(***************************************************************************)
EXTENDS SettlementResolution, FiniteSets, Sequences

CONSTANTS
  Workers,        \* concurrent settlement runs
  Bets,           \* value bets that may be placed
  Fixtures,
  FixtureOf,      \* the fixture of a bet
  SelectionOf,    \* the selection of a bet
  StakeOf,        \* the stake of a bet in cents, Null when it has none
  OddsOf,         \* the decimal odds of a bet in thousandths
  Known,          \* fixtures that carry an API-Football identity
  Answers,        \* what the provider can answer about a fixture (see Feed)
  ServiceError,   \* the provider call raises instead of answering
  VoidEvidence,   \* what the injected VOID provider can answer: a subset of
                  \* {"none", "bound", "mismatched"}; {"none"} is production
  Opening,        \* analysis_default_bankroll, in cents
  MaxFailures     \* bound: runs that are lost to an exception or a crash

ASSUME ConstantsAssumption ==
  /\ FixtureOf \in [Bets -> Fixtures]
  /\ StakeOf \in [Bets -> Nat \cup {Null}]
  /\ OddsOf \in [Bets -> Int]
  /\ Known \subseteq Fixtures
  /\ "none" \in VoidEvidence
  /\ VoidEvidence \subseteq {"none", "bound", "mismatched"}
  /\ Opening \in Nat
  /\ MaxFailures \in Nat

\* No worker: the advisory lock is free.
ASSUME FreeLockAssumption == Null \notin Workers

VARIABLES
  feed,           \* what the provider would answer about each fixture now
  placed,         \* committed rows of value_bets
  settlements,    \* committed rows of settlements
  bankroll,       \* committed rows of bankroll_entries, by sequence
  holder,         \* the worker that holds the advisory lock, or Null
  pc,             \* where each worker's run is
  listed,         \* the run's first list of unsettled bets: its candidates
  states,         \* the run's authoritative states of the candidates' fixtures
  evidence,       \* candidates for which the run holds valid VOID evidence
  todo,           \* candidates of the run still to be handled
  running,        \* the run's running balance, exact, in mils
  newSettlements, \* settlement rows the run has flushed and not committed
  newEntries,     \* bankroll rows the run has flushed and not committed
  failures        \* runs lost so far

database == <<placed, settlements, bankroll>>
run == <<listed, states, evidence, todo, running, newSettlements, newEntries>>
vars == <<feed, database, holder, pc, run, failures>>

-----------------------------------------------------------------------------
Results == {"W", "L", "P", "V"}

Settled(rows) == {s.bet : s \in rows}

\* value_bets with no row in settlements.
Unsettled == placed \ Settled(settlements)

CandidateFixtures(w) == {FixtureOf[b] : b \in listed[w]}

\* The balance_after of the last of these rows, or the default bankroll.
Closing(rows) == IF rows = <<>> THEN Opening ELSE rows[Len(rows)].balance

\* How a run resolves candidate b: a result, or Null when it skips the bet.
Resolution(w, b) ==
  LET state == states[w][FixtureOf[b]]
  IN  IF b \in evidence[w] THEN "V"
      ELSE IF ~CanSettle(state) \/ StakeOf[b] = Null THEN Null
      ELSE Outcome(SelectionOf[b], state.score)

Result(w, b) ==
  LET outcome == Resolution(w, b)
  IN  [outcome |-> outcome,
       pl      |-> ProfitLoss(outcome, StakeOf[b], OddsOf[b])]

NoStates == [f \in {} |-> Null]

Init ==
  /\ feed \in [Fixtures -> Answers]
  /\ placed = {}
  /\ settlements = {}
  /\ bankroll = <<>>
  /\ holder = Null
  /\ pc = [w \in Workers |-> "idle"]
  /\ listed = [w \in Workers |-> {}]
  /\ states = [w \in Workers |-> NoStates]
  /\ evidence = [w \in Workers |-> {}]
  /\ todo = [w \in Workers |-> {}]
  /\ running = [w \in Workers |-> 0]
  /\ newSettlements = [w \in Workers |-> {}]
  /\ newEntries = [w \in Workers |-> <<>>]
  /\ failures = 0

\* Fault: a session-level advisory lock, which a transaction does not give back.
EndRunKeepsLock(w) ==
  /\ pc' = [pc EXCEPT ![w] = "idle"]
  /\ holder' = holder
  /\ listed' = [listed EXCEPT ![w] = {}]
  /\ states' = [states EXCEPT ![w] = NoStates]
  /\ evidence' = [evidence EXCEPT ![w] = {}]
  /\ todo' = [todo EXCEPT ![w] = {}]
  /\ running' = [running EXCEPT ![w] = 0]
  /\ newSettlements' = [newSettlements EXCEPT ![w] = {}]
  /\ newEntries' = [newEntries EXCEPT ![w] = <<>>]

\* The transaction of w is over: its session, its lock and its locals are gone.
EndRun(w) ==
  /\ pc' = [pc EXCEPT ![w] = "idle"]
  /\ holder' = IF holder = w THEN Null ELSE holder
  /\ listed' = [listed EXCEPT ![w] = {}]
  /\ states' = [states EXCEPT ![w] = NoStates]
  /\ evidence' = [evidence EXCEPT ![w] = {}]
  /\ todo' = [todo EXCEPT ![w] = {}]
  /\ running' = [running EXCEPT ![w] = 0]
  /\ newSettlements' = [newSettlements EXCEPT ![w] = {}]
  /\ newEntries' = [newEntries EXCEPT ![w] = <<>>]

\* Fault: every flush is committed at once.
RollbackAutocommitted(w) ==
  /\ EndRun(w)
  /\ settlements' = settlements \cup newSettlements[w]
  /\ bankroll' = bankroll \o newEntries[w]
  /\ UNCHANGED placed

Rollback(w) == EndRun(w) /\ UNCHANGED database
-----------------------------------------------------------------------------
\* Another transaction commits value bets (the daily picks, the pre-kickoff run).
PlaceBet(b) ==
  /\ b \notin placed
  /\ placed' = placed \cup {b}
  /\ UNCHANGED <<feed, settlements, bankroll, holder, pc, run, failures>>

\* The outside world: the provider's answer about f changes.
FeedMoves(f) ==
  /\ \E answer \in Answers \ {feed[f]} : feed' = [feed EXCEPT ![f] = answer]
  /\ UNCHANGED <<database, holder, pc, run, failures>>

\* First statement of the transaction; nothing unsettled is an early return.
ListUnsettled(w) ==
  /\ pc[w] = "idle"
  /\ Unsettled # {}
  /\ listed' = [listed EXCEPT ![w] = Unsettled]
  /\ pc' = [pc EXCEPT ![w] = "refreshing"]
  /\ UNCHANGED <<feed, database, holder, states, evidence, todo, running,
                 newSettlements, newEntries, failures>>

\* Fault: the states are kept by value bet instead of by fixture.
RefreshByBet(w) ==
  /\ pc[w] = "refreshing"
  /\ \E b \in listed[w] \ DOMAIN states[w] :
       /\ feed[FixtureOf[b]] # ServiceError
       /\ states' = [states EXCEPT ![w] =
            [g \in DOMAIN @ \cup {b} |->
               IF g = b THEN AuthoritativeState(TRUE, feed[FixtureOf[b]]) ELSE @[g]]]
  /\ UNCHANGED <<feed, database, holder, pc, listed, evidence, todo, running,
                 newSettlements, newEntries, failures>>

\* One targeted provider read; it never writes.
Refresh(w) ==
  /\ pc[w] = "refreshing"
  /\ \E f \in CandidateFixtures(w) \ DOMAIN states[w] :
       /\ feed[f] # ServiceError \/ f \notin Known
       /\ states' = [states EXCEPT ![w] =
            [g \in DOMAIN @ \cup {f} |->
               IF g = f THEN AuthoritativeState(f \in Known, feed[f]) ELSE @[g]]]
  /\ UNCHANGED <<feed, database, holder, pc, listed, evidence, todo, running,
                 newSettlements, newEntries, failures>>

\* The provider call raises: nothing catches it, so the whole run is lost.
RefreshFails(w) ==
  /\ pc[w] = "refreshing"
  /\ \E f \in (CandidateFixtures(w) \ DOMAIN states[w]) \cap Known :
       feed[f] = ServiceError
  /\ Rollback(w)
  /\ UNCHANGED <<feed, failures>>

\* The VOID provider is asked about the candidates whose fixture cannot settle.
\* It answers independently of everything modelled, so one step asks for all.
GatherEvidence(w) ==
  LET asked == {b \in listed[w] :
                  LET state == states[w][FixtureOf[b]]
                  IN  ~CanSettle(state) /\ state.lifecycle \in VoidEvidenceLifecycles}
  IN  /\ pc[w] = "refreshing"
      /\ DOMAIN states[w] = CandidateFixtures(w)
      /\ \E answer \in [asked -> VoidEvidence] :
           IF \E b \in asked : answer[b] = "mismatched"
           THEN Rollback(w)            \* _validate_void_evidence raises
           ELSE /\ evidence' = [evidence EXCEPT ![w] =
                                  {b \in asked : answer[b] = "bound"}]
                /\ pc' = [pc EXCEPT ![w] = "waiting"]
                /\ UNCHANGED <<database, holder, listed, states, todo, running,
                               newSettlements, newEntries>>
      /\ UNCHANGED <<feed, failures>>

\* Fault: the balance is read without waiting for the lock.
ReadBalanceWithoutLock(w) ==
  /\ pc[w] = "waiting"
  /\ holder' = w
  /\ running' = [running EXCEPT ![w] = Mils(Closing(bankroll))]
  /\ pc' = [pc EXCEPT ![w] = "locked"]
  /\ UNCHANGED <<feed, database, listed, states, evidence, todo,
                 newSettlements, newEntries, failures>>

\* pg_advisory_xact_lock, and the latest balance once it is granted.
LockAndGetLatestBalance(w) ==
  /\ pc[w] = "waiting"
  /\ holder = Null
  /\ holder' = w
  /\ running' = [running EXCEPT ![w] = Mils(Closing(bankroll))]
  /\ pc' = [pc EXCEPT ![w] = "locked"]
  /\ UNCHANGED <<feed, database, listed, states, evidence, todo,
                 newSettlements, newEntries, failures>>

\* Fault: the candidates are not compared with a second list.
TrustFirstList(w) ==
  /\ pc[w] = "locked"
  /\ todo' = [todo EXCEPT ![w] = listed[w]]
  /\ pc' = [pc EXCEPT ![w] = "settling"]
  /\ UNCHANGED <<feed, database, holder, listed, states, evidence, running,
                 newSettlements, newEntries, failures>>

\* Fault: the comparison is inverted.
RelistSettled(w) ==
  /\ pc[w] = "locked"
  /\ todo' = [todo EXCEPT ![w] = listed[w] \ Unsettled]
  /\ pc' = [pc EXCEPT ![w] = "settling"]
  /\ UNCHANGED <<feed, database, holder, listed, states, evidence, running,
                 newSettlements, newEntries, failures>>

\* The second list: what other runs committed meanwhile is no longer there.
RelistUnsettled(w) ==
  /\ pc[w] = "locked"
  /\ todo' = [todo EXCEPT ![w] = listed[w] \cap Unsettled]
  /\ pc' = [pc EXCEPT ![w] = "settling"]
  /\ UNCHANGED <<feed, database, holder, listed, states, evidence, running,
                 newSettlements, newEntries, failures>>

\* A candidate that is deferred, unsupported or without stake stays unsettled.
SkipBet(w) ==
  /\ pc[w] = "settling"
  /\ \E b \in todo[w] :
       /\ Resolution(w, b) = Null
       /\ todo' = [todo EXCEPT ![w] = @ \ {b}]
  /\ UNCHANGED <<feed, database, holder, pc, listed, states, evidence, running,
                 newSettlements, newEntries, failures>>

\* settlements.add flushes the row.  uq_settlements_value_bet would refuse a
\* second row for the bet, and make the INSERT wait for another run that has
\* flushed one: NoUniqueConflict says that neither ever happens.
AddSettlement(w) ==
  /\ pc[w] = "settling"
  /\ \E b \in todo[w] :
       /\ Resolution(w, b) # Null
       /\ b \notin Settled(settlements)
       /\ \A v \in Workers : b \notin Settled(newSettlements[v])
       /\ LET r == Result(w, b) IN
            newSettlements' = [newSettlements EXCEPT ![w] = @ \cup
              {[bet |-> b, result |-> r.outcome, pl |-> Cents(r.pl),
                before |-> Cents(running[w]), after |-> Cents(running[w] + r.pl)]}]
  /\ pc' = [pc EXCEPT ![w] = "crediting"]
  /\ UNCHANGED <<feed, database, holder, listed, states, evidence, todo, running,
                 newEntries, failures>>

\* Fault: the running balance is not moved on.
AddEntryKeepBalance(w) ==
  /\ pc[w] = "crediting"
  /\ \E b \in todo[w] \cap Settled(newSettlements[w]) :
       LET pl == Result(w, b).pl IN
         /\ newEntries' = [newEntries EXCEPT ![w] = Append(@,
              [bet |-> b, amount |-> Cents(pl), balance |-> Cents(running[w] + pl)])]
         /\ todo' = [todo EXCEPT ![w] = @ \ {b}]
  /\ pc' = [pc EXCEPT ![w] = "settling"]
  /\ UNCHANGED <<feed, database, holder, listed, states, evidence, running,
                 newSettlements, failures>>

\* bankroll.add flushes the matching row, the balance moves on, the loop too.
AddBankrollEntry(w) ==
  /\ pc[w] = "crediting"
  /\ \E b \in todo[w] \cap Settled(newSettlements[w]) :
       LET pl == Result(w, b).pl IN
         /\ newEntries' = [newEntries EXCEPT ![w] = Append(@,
              [bet |-> b, amount |-> Cents(pl), balance |-> Cents(running[w] + pl)])]
         /\ running' = [running EXCEPT ![w] = @ + pl]
         /\ todo' = [todo EXCEPT ![w] = @ \ {b}]
  /\ pc' = [pc EXCEPT ![w] = "settling"]
  /\ UNCHANGED <<feed, database, holder, listed, states, evidence,
                 newSettlements, failures>>

\* The session commits; the lock goes with the transaction.
Commit(w) ==
  /\ pc[w] = "settling"
  /\ todo[w] = {}
  /\ settlements' = settlements \cup newSettlements[w]
  /\ bankroll' = bankroll \o newEntries[w]
  /\ EndRun(w)
  /\ UNCHANGED <<feed, placed, failures>>

\* Any await may raise (a flush, a lost connection, a cancellation) and the
\* process may be killed: PostgreSQL drops the transaction.
RunIsLost(w) ==
  /\ pc[w] # "idle"
  /\ failures < MaxFailures
  /\ failures' = failures + 1
  /\ Rollback(w)
  /\ UNCHANGED feed
-----------------------------------------------------------------------------
Progress(w) ==
  \/ ListUnsettled(w)
  \/ Refresh(w)
  \/ RefreshFails(w)
  \/ GatherEvidence(w)
  \/ LockAndGetLatestBalance(w)
  \/ RelistUnsettled(w)
  \/ SkipBet(w)
  \/ AddSettlement(w)
  \/ AddBankrollEntry(w)
  \/ Commit(w)

Next ==
  \/ \E b \in Bets : PlaceBet(b)
  \/ \E f \in Fixtures : FeedMoves(f)
  \/ \E w \in Workers : Progress(w) \/ RunIsLost(w)

Spec == Init /\ [][Next]_vars

\* A run that has started goes on, and the scheduler starts the next one; an
\* advisory lock is granted in the order it was asked for, so a waiting run
\* that finds it free again and again gets it.
Fairness ==
  \A w \in Workers : WF_vars(Progress(w)) /\ SF_vars(LockAndGetLatestBalance(w))

LiveSpec == Spec /\ Fairness
-----------------------------------------------------------------------------
SettlementRow ==
  [bet : Bets, result : Results, pl : Int, before : Int, after : Int]

EntryRow == [bet : Bets, amount : Int, balance : Int]

\* The type invariant of the settlement runs and of the three tables.
TypeOK ==
  /\ feed \in [Fixtures -> Answers]
  /\ placed \subseteq Bets
  /\ settlements \subseteq SettlementRow
  /\ bankroll \in Seq(EntryRow)
  /\ holder \in Workers \cup {Null}
  /\ pc \in [Workers -> {"idle", "refreshing", "waiting", "locked", "settling",
                         "crediting"}]
  /\ listed \in [Workers -> SUBSET Bets]
  /\ DOMAIN states = Workers
  /\ \A w \in Workers : DOMAIN states[w] \subseteq Fixtures
  /\ evidence \in [Workers -> SUBSET Bets]
  /\ todo \in [Workers -> SUBSET Bets]
  /\ running \in [Workers -> Int]
  /\ newSettlements \in [Workers -> SUBSET SettlementRow]
  /\ newEntries \in [Workers -> Seq(EntryRow)]
  /\ failures \in 0..MaxFailures

\* The second list, taken under the lock, is what keeps concurrent runs apart:
\* no run ever inserts a settlement that uq_settlements_value_bet would refuse
\* or make wait, so no run loses its whole batch to an IntegrityError.
NoUniqueConflict ==
  \A w \in Workers : pc[w] = "settling" =>
    \A b \in todo[w] :
      /\ b \notin Settled(settlements)
      /\ \A v \in Workers : b \notin Settled(newSettlements[v])

\* The balance in cents that the ledger row at position i starts from.
BalanceBefore(rows, i) == IF i = 1 THEN Opening ELSE rows[i - 1].balance

\* Row i of a ledger has its settlement, with the same amount and closing
\* balance, which opens with the balance row i - 1 closed with; the closing
\* balance is off the sum of the two stored numbers by at most one cent (each
\* is rounded from an exact value).
Audited(rows, i, settled) ==
  \E s \in settled :
    /\ s.bet = rows[i].bet
    /\ s.pl = rows[i].amount
    /\ s.after = rows[i].balance
    /\ s.before = BalanceBefore(rows, i)
    /\ s.after - s.before - s.pl \in -1..1

\* Rows and settlements belong together: one of each per bet.
Matched(rows, settled) ==
  /\ \A s \in settled : \E i \in 1..Len(rows) : rows[i].bet = s.bet
  /\ \A i, j \in 1..Len(rows) : rows[i].bet = rows[j].bet => i = j
  /\ \A s, t \in settled : s.bet = t.bet => s = t

\* The committed ledger is audited: no gap in the chain of balances and no row
\* computed from a balance another run had already moved.
LedgerAudited == \A i \in 1..Len(bankroll) : Audited(bankroll, i, settlements)

\* A settlement and its bankroll row are committed together or not at all, once
\* per bet, whatever raises or crashes between the two flushes.
SettlementsMatchEntries == Matched(bankroll, settlements)

-----------------------------------------------------------------------------
(* The inductive invariant: what a run's own transaction sees is an audited *)
(* ledger at every step, so committing it leaves an audited ledger.         *)

InLock(w) == pc[w] \in {"locked", "settling", "crediting"}

\* The tables as the transaction of w sees them.
Rows(w) == bankroll \o newEntries[w]
Written(w) == settlements \cup newSettlements[w]

Consistent(rows, settled) ==
  /\ \A i \in 1..Len(rows) : Audited(rows, i, settled)
  /\ Matched(rows, settled)

\* Only the holder of the advisory lock has rows, or bets left to handle.
LockOK(w) ==
  /\ InLock(w) <=> holder = w
  /\ pc[w] \notin {"settling", "crediting"} =>
       /\ todo[w] = {}
       /\ newSettlements[w] = {}
       /\ newEntries[w] = <<>>

\* s is the settlement row whose bankroll row is still missing.
HalfWritten(w, s) ==
  LET others == Written(w) \ {s}
      pl     == Result(w, s.bet).pl
  IN  /\ s.bet \in todo[w]
      /\ s.bet \notin Settled(others)
      /\ Resolution(w, s.bet) # Null
      /\ s.pl = Cents(pl)
      /\ s.before = Closing(Rows(w))
      /\ s.after = Cents(running[w] + pl)
      /\ Consistent(Rows(w), others)

BatchOK(w) ==
  /\ InLock(w) => Cents(running[w]) = Closing(Rows(w))
  /\ pc[w] = "settling" =>
       /\ Consistent(Rows(w), Written(w))
       /\ todo[w] \cap Settled(Written(w)) = {}
  /\ pc[w] = "crediting" =>
       /\ \E s \in newSettlements[w] : HalfWritten(w, s)
       /\ \A b, c \in todo[w] \cap Settled(Written(w)) : b = c

LockInv == \A w \in Workers : LockOK(w)
BatchInv == \A w \in Workers : BatchOK(w)

IInv == TypeOK /\ LockInv /\ Consistent(bankroll, settlements) /\ BatchInv
-----------------------------------------------------------------------------
\* The provider's answer settles b, and b can be resolved.
Settleable(b) ==
  /\ b \in placed
  /\ StakeOf[b] # Null
  /\ FixtureOf[b] \in Known
  /\ feed[FixtureOf[b]] # ServiceError
  /\ LET state == AuthoritativeState(TRUE, feed[FixtureOf[b]])
     IN  CanSettle(state) /\ Outcome(SelectionOf[b], state.score) # Null

\* No fixture at which the whole run can be lost: the provider answers for it,
\* and the VOID provider need not be asked.
Harmless(f) ==
  /\ feed[f] # ServiceError
  /\ LET state == AuthoritativeState(f \in Known, feed[f])
     IN  CanSettle(state) \/ state.lifecycle \notin VoidEvidenceLifecycles

\* A bet whose fixture stays final at the provider is settled in the end, as
\* long as the other fixtures do not cost it every run.
FinalBetsSettle ==
  \A b \in Bets :
    <>[](Settleable(b) /\ \A f \in Fixtures : Harmless(f))
      => <>(b \in Settled(settlements))

\* settle_all says it fails closed per fixture: a fixture the provider
\* cannot answer for would not keep the bets of another fixture unsettled.
FailsClosedPerFixture ==
  \A b \in Bets : <>[]Settleable(b) => <>(b \in Settled(settlements))

\* A run that waits for the advisory lock is not left waiting.
WaitingRunGetsLock ==
  \A w \in Workers : pc[w] = "waiting" ~> pc[w] # "waiting"

\* The committed tables as one append-only ledger of settled bets.
Book ==
  [i \in 1..Len(bankroll) |->
     LET s == CHOOSE t \in settlements : t.bet = bankroll[i].bet
     IN  [bet |-> s.bet, result |-> s.result, before |-> s.before,
          after |-> bankroll[i].balance]]

\* What the tables promise whoever reads them: see Ledger.
Abstract == INSTANCE Ledger WITH book <- Book

\* The concurrent runs implement the abstract ledger: they only ever append
\* whole batches of chained rows.
ImplementsLedger == Abstract!Spec
=============================================================================

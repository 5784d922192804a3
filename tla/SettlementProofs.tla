-------------------------- MODULE SettlementProofs --------------------------
(***************************************************************************)
(* The settlement runs are type correct, never meet the unique constraint,  *)
(* and leave an audited ledger, for every set of workers, bets, fixtures    *)
(* and provider answers.  The argument: a run works on its transaction's    *)
(* view of the tables, alone (LockInv), and keeps that view consistent      *)
(* (BatchInv); a commit makes the view the tables.                          *)
(***************************************************************************)
EXTENDS Settlement, TLAPS

\* A whole number of cents is stored as it is.
LEMMA CentsOfMils == ASSUME NEW c \in Int PROVE Cents(Mils(c)) = c
  BY SMT DEF Cents, Mils

LEMMA CentsType == ASSUME NEW m \in Int PROVE Cents(m) \in Int
  BY SMT DEF Cents

\* Rounding a sum is off the sum of the rounded numbers by at most a cent.
LEMMA RoundingDrift ==
  ASSUME NEW r \in Int, NEW p \in Int
  PROVE  Cents(r + p) - Cents(r) - Cents(p) \in -1..1
  BY SMT DEF Cents

LEMMA OutcomeType ==
  ASSUME NEW sel, NEW score
  PROVE  Outcome(sel, score) \in {"W", "L", "P", Null}
  BY DEF Outcome, WinIf, Against

\* A candidate that is not skipped has a result and an exact profit or loss.
LEMMA ResolutionType ==
  ASSUME NEW w, NEW b \in Bets, Resolution(w, b) # Null
  PROVE  /\ Resolution(w, b) \in Results
         /\ Result(w, b).outcome = Resolution(w, b)
         /\ Result(w, b).pl \in Int
<1> DEFINE state == states[w][FixtureOf[b]]
<1>1. Result(w, b).outcome = Resolution(w, b)
  BY DEF Result
<1>2. Result(w, b).pl = ProfitLoss(Resolution(w, b), StakeOf[b], OddsOf[b])
  BY DEF Result
<1>3. CASE b \in evidence[w]
  <2>1. Resolution(w, b) = "V"
    BY <1>3 DEF Resolution
  <2>2. ProfitLoss("V", StakeOf[b], OddsOf[b]) = 0
    BY DEF ProfitLoss
  <2> QED BY <1>1, <1>2, <2>1, <2>2 DEF Results
<1>4. CASE b \notin evidence[w]
  <2>1. /\ Resolution(w, b) = Outcome(SelectionOf[b], state.score)
        /\ StakeOf[b] # Null
    BY <1>4 DEF Resolution
  <2>2. Resolution(w, b) \in {"W", "L", "P"}
    BY <2>1, OutcomeType
  <2>3. StakeOf[b] \in Int /\ OddsOf[b] \in Int
    BY <2>1, ConstantsAssumption DEF ConstantsAssumption
  <2>4. \A o \in {"W", "L", "P"} : ProfitLoss(o, StakeOf[b], OddsOf[b]) \in Int
    BY <2>3 DEF ProfitLoss
  <2> QED BY <1>1, <1>2, <2>2, <2>4 DEF Results
<1> QED BY <1>3, <1>4

\* Appending a row and its settlement, opened with the closing balance, to an
\* audited ledger leaves an audited ledger.
LEMMA AppendConsistent ==
  ASSUME NEW rows \in Seq(EntryRow), NEW settled,
         NEW e \in EntryRow, NEW s,
         Consistent(rows, settled),
         s.bet = e.bet, s.pl = e.amount, s.after = e.balance,
         s.before = Closing(rows),
         s.after - s.before - s.pl \in -1..1,
         s.bet \notin Settled(settled)
  PROVE  Consistent(Append(rows, e), settled \cup {s})
<1> DEFINE more == Append(rows, e)
           n    == Len(rows)
<1>1. /\ n \in Nat
      /\ Len(more) = n + 1
      /\ \A i \in 1..n : more[i] = rows[i]
      /\ more[n + 1] = e
  OBVIOUS
<1>2. ASSUME NEW i \in 1..n
      PROVE  Audited(more, i, settled \cup {s})
  <2>1. Audited(rows, i, settled)
    BY DEF Consistent
  <2>2. BalanceBefore(more, i) = BalanceBefore(rows, i)
    BY <1>1 DEF BalanceBefore
  <2> QED BY <1>1, <2>1, <2>2 DEF Audited
<1>3. Audited(more, n + 1, settled \cup {s})
  <2>1. s.before = BalanceBefore(more, n + 1)
    BY <1>1 DEF BalanceBefore, Closing
  <2> QED BY <1>1, <2>1 DEF Audited
<1>4. \A i \in 1..Len(more) : Audited(more, i, settled \cup {s})
  <2> SUFFICES ASSUME NEW i \in 1..(n + 1)
               PROVE  Audited(more, i, settled \cup {s})
    BY <1>1
  <2>1. CASE i \in 1..n
    BY <2>1, <1>2
  <2>2. CASE i = n + 1
    BY <2>2, <1>3
  <2> QED BY <1>1, <2>1, <2>2
<1>5. \A i \in 1..n : more[i].bet # s.bet
  <2> SUFFICES ASSUME NEW i \in 1..n PROVE more[i].bet # s.bet
    OBVIOUS
  <2>1. PICK t \in settled : t.bet = rows[i].bet
    BY DEF Consistent, Audited
  <2> QED BY <1>1, <2>1 DEF Settled
<1>6. Matched(more, settled \cup {s})
  <2>1. \A t \in settled \cup {s} : \E i \in 1..Len(more) : more[i].bet = t.bet
    BY <1>1 DEF Consistent, Matched
  <2>2. \A i, j \in 1..Len(more) : more[i].bet = more[j].bet => i = j
    BY <1>1, <1>5 DEF Consistent, Matched
  <2>3. \A t, u \in settled \cup {s} : t.bet = u.bet => t = u
    BY DEF Consistent, Matched, Settled
  <2> QED BY <2>1, <2>2, <2>3 DEF Matched
<1> QED BY <1>4, <1>6 DEF Consistent

\* What the transaction of w sees is well typed.
LEMMA RowsType ==
  ASSUME TypeOK, NEW w \in Workers
  PROVE  /\ Rows(w) \in Seq(EntryRow)
         /\ Written(w) \subseteq SettlementRow
  BY DEF TypeOK, Rows, Written

\* A transaction that has flushed nothing sees the committed tables.
LEMMA NothingFlushed ==
  ASSUME TypeOK, NEW w \in Workers,
         newSettlements[w] = {}, newEntries[w] = <<>>
  PROVE  Rows(w) = bankroll /\ Written(w) = settlements
  BY DEF TypeOK, Rows, Written
-----------------------------------------------------------------------------
\* A run none of whose locals change, over unchanged tables, stays in order.
LEMMA FrameBatch ==
  ASSUME NEW w \in Workers, BatchOK(w),
         UNCHANGED <<bankroll, settlements>>,
         pc'[w] = pc[w], states'[w] = states[w], evidence'[w] = evidence[w],
         todo'[w] = todo[w], running'[w] = running[w],
         newSettlements'[w] = newSettlements[w], newEntries'[w] = newEntries[w]
  PROVE  BatchOK(w)'
<1>1. Rows(w)' = Rows(w) /\ Written(w)' = Written(w) /\ InLock(w)' = InLock(w)
  BY DEF Rows, Written, InLock
<1>2. \A b : Resolution(w, b)' = Resolution(w, b)
  BY DEF Resolution
<1>3. \A b : Result(w, b)' = Result(w, b)
  BY <1>2 DEF Result
<1>4. \A s : HalfWritten(w, s) => HalfWritten(w, s)'
  BY <1>1, <1>2, <1>3 DEF HalfWritten
<1> QED BY <1>1, <1>4 DEF BatchOK

\* A run outside the lock is in order whatever the tables are.
LEMMA OutsideLock ==
  ASSUME NEW w \in Workers, ~InLock(w)
  PROVE  BatchOK(w)
  BY DEF InLock, BatchOK

\* The end of a run's transaction.
LEMMA EndRunLocals ==
  ASSUME TypeOK, LockInv, NEW w \in Workers, EndRun(w)
  PROVE  LockInv' /\ ~InLock(w)'
<1>1. \A v \in Workers \ {w} : LockOK(v)'
  BY FreeLockAssumption DEF EndRun, TypeOK, LockInv, LockOK, InLock
<1>2. LockOK(w)' /\ ~InLock(w)'
  BY FreeLockAssumption DEF EndRun, TypeOK, LockInv, LockOK, InLock
<1> QED BY <1>1, <1>2 DEF LockInv

LEMMA EndRunType ==
  ASSUME TypeOK, NEW w \in Workers, EndRun(w)
  PROVE  /\ holder' \in Workers \cup {Null}
         /\ pc' \in [Workers -> {"idle", "refreshing", "waiting", "locked",
                                 "settling", "crediting"}]
         /\ listed' \in [Workers -> SUBSET Bets]
         /\ DOMAIN states' = Workers
         /\ \A v \in Workers : DOMAIN states'[v] \subseteq Fixtures
         /\ evidence' \in [Workers -> SUBSET Bets]
         /\ todo' \in [Workers -> SUBSET Bets]
         /\ running' \in [Workers -> Int]
         /\ newSettlements' \in [Workers -> SUBSET SettlementRow]
         /\ newEntries' \in [Workers -> Seq(EntryRow)]
  BY DEF EndRun, TypeOK, NoStates

\* A transaction that is rolled back leaves no trace.
LEMMA RollbackKeeps ==
  ASSUME IInv, NEW w \in Workers, Rollback(w), UNCHANGED feed,
         failures' \in 0..MaxFailures
  PROVE  IInv'
<1>1. TypeOK'
  BY EndRunType DEF IInv, Rollback, TypeOK, database
<1>2. LockInv' /\ ~InLock(w)'
  BY EndRunLocals DEF IInv, Rollback
<1>3. Consistent(bankroll, settlements)'
  BY DEF IInv, Rollback, database
<1>4. ASSUME NEW v \in Workers \ {w} PROVE BatchOK(v)'
  BY FrameBatch DEF IInv, BatchInv, Rollback, EndRun, TypeOK, database
<1>5. BatchOK(w)'
  BY <1>2, OutsideLock DEF BatchOK, InLock
<1> QED BY <1>1, <1>2, <1>3, <1>4, <1>5 DEF IInv, BatchInv
-----------------------------------------------------------------------------
LEMMA InitInv == Init => IInv
<1> SUFFICES ASSUME Init PROVE IInv
  OBVIOUS
<1>1. TypeOK
  BY ConstantsAssumption DEF Init, TypeOK, NoStates, ConstantsAssumption
<1>2. LockInv
  BY FreeLockAssumption DEF Init, LockInv, LockOK, InLock
<1>3. Consistent(bankroll, settlements)
  BY DEF Init, Consistent, Matched
<1>4. BatchInv
  BY DEF Init, BatchInv, BatchOK, InLock
<1> QED BY <1>1, <1>2, <1>3, <1>4 DEF IInv

\* A step that leaves every run, the ledger and the lock alone.
LEMMA WorldKeeps ==
  ASSUME IInv, UNCHANGED <<settlements, bankroll, holder, pc, run, failures>>,
         feed' \in [Fixtures -> Answers], placed' \subseteq Bets
  PROVE  IInv'
<1>1. TypeOK'
  BY DEF IInv, TypeOK, run
<1>2. LockInv'
  BY DEF IInv, LockInv, LockOK, InLock, run
<1>3. Consistent(bankroll, settlements)'
  BY DEF IInv
<1>4. BatchInv'
  BY FrameBatch DEF IInv, BatchInv, run
<1> QED BY <1>1, <1>2, <1>3, <1>4 DEF IInv

\* A step of a run that stays outside the lock and writes nothing.
LEMMA ReadingKeeps ==
  ASSUME IInv, NEW w \in Workers, ~InLock(w), NEW at \in {"refreshing", "waiting"},
         pc' = [pc EXCEPT ![w] = at],
         TypeOK',
         UNCHANGED <<database, holder, todo, running, newSettlements, newEntries>>,
         \A v \in Workers \ {w} : states'[v] = states[v] /\ evidence'[v] = evidence[v]
  PROVE  IInv'
<1>1. /\ \A v \in Workers \ {w} : pc'[v] = pc[v]
      /\ pc'[w] = at
  BY DEF IInv, TypeOK
<1>2. LockInv'
  BY <1>1 DEF IInv, LockInv, LockOK, InLock
<1>3. Consistent(bankroll, settlements)'
  BY DEF IInv, database
<1>4. ASSUME NEW v \in Workers \ {w} PROVE BatchOK(v)'
  BY <1>1, FrameBatch DEF IInv, BatchInv, database
<1>5. BatchOK(w)'
  BY <1>1 DEF BatchOK, InLock
<1> QED BY <1>2, <1>3, <1>4, <1>5 DEF IInv, BatchInv

LEMMA ListUnsettledKeeps ==
  ASSUME IInv, NEW w \in Workers, ListUnsettled(w) PROVE IInv'
<1>1. TypeOK'
  BY DEF IInv, ListUnsettled, TypeOK, Unsettled, database
<1> QED BY <1>1, ReadingKeeps DEF ListUnsettled, InLock, IInv, TypeOK

LEMMA RefreshKeeps ==
  ASSUME IInv, NEW w \in Workers, Refresh(w) PROVE IInv'
<1>1. PICK f \in CandidateFixtures(w) \ DOMAIN states[w] :
        states' = [states EXCEPT ![w] =
          [g \in DOMAIN @ \cup {f} |->
             IF g = f THEN AuthoritativeState(f \in Known, feed[f]) ELSE @[g]]]
  BY DEF Refresh
<1>2. f \in Fixtures
  BY ConstantsAssumption DEF CandidateFixtures, IInv, TypeOK, ConstantsAssumption
<1>3. /\ DOMAIN states' = Workers
      /\ \A v \in Workers \ {w} : states'[v] = states[v]
      /\ DOMAIN states'[w] \subseteq Fixtures
  BY <1>1, <1>2 DEF IInv, TypeOK
<1>4. TypeOK'
  BY <1>3 DEF IInv, Refresh, TypeOK, database
<1>5. pc' = [pc EXCEPT ![w] = "refreshing"]
  BY DEF Refresh, IInv, TypeOK
<1> QED BY <1>3, <1>4, <1>5, ReadingKeeps DEF Refresh, InLock, IInv, TypeOK

LEMMA GatherEvidenceKeeps ==
  ASSUME IInv, NEW w \in Workers, GatherEvidence(w) PROVE IInv'
<1>1. CASE Rollback(w) /\ UNCHANGED <<feed, failures>>
  BY <1>1, RollbackKeeps DEF IInv, TypeOK
<1>2. CASE ~(Rollback(w) /\ UNCHANGED <<feed, failures>>)
  <2>1. PICK found \in SUBSET listed[w] : evidence' = [evidence EXCEPT ![w] = found]
    BY <1>2 DEF GatherEvidence
  <2>2. /\ pc[w] = "refreshing"
        /\ pc' = [pc EXCEPT ![w] = "waiting"]
        /\ UNCHANGED <<feed, database, holder, listed, states, todo, running,
                       newSettlements, newEntries, failures>>
    BY <1>2 DEF GatherEvidence
  <2>3. TypeOK'
    BY <2>1, <2>2 DEF IInv, TypeOK, database
  <2> QED BY <2>1, <2>2, <2>3, ReadingKeeps DEF InLock, IInv, TypeOK
<1> QED BY <1>1, <1>2
-----------------------------------------------------------------------------
\* While one run is in the lock, every other run is outside it.
LEMMA OthersOutside ==
  ASSUME LockInv, NEW w \in Workers, holder = w, NEW v \in Workers \ {w}
  PROVE  ~InLock(v)
  BY DEF LockInv, LockOK

\* A step of the run that is, or comes to be, in the lock: the other runs are
\* outside it before and after, so only w's own view is left to prove.
LEMMA LockedKeeps ==
  ASSUME IInv, NEW w \in Workers, NEW at \in {"locked", "settling", "crediting"},
         \A v \in Workers \ {w} : ~InLock(v),
         pc' = [pc EXCEPT ![w] = at], holder' = w,
         at = "locked" => /\ todo' = todo
                          /\ newSettlements' = newSettlements
                          /\ newEntries' = newEntries
                          /\ ~InLock(w),
         \A v \in Workers \ {w} : /\ todo'[v] = todo[v]
                                  /\ newSettlements'[v] = newSettlements[v]
                                  /\ newEntries'[v] = newEntries[v],
         UNCHANGED <<settlements, bankroll>>,
         TypeOK', BatchOK(w)'
  PROVE  IInv'
<1>1. /\ \A v \in Workers \ {w} : pc'[v] = pc[v]
      /\ pc'[w] = at
  BY DEF IInv, TypeOK
<1>2. \A v \in Workers \ {w} : ~InLock(v)' /\ LockOK(v)'
  BY <1>1 DEF IInv, LockInv, LockOK, InLock
<1>3. LockOK(w)'
  BY <1>1 DEF IInv, LockInv, LockOK, InLock
<1>4. LockInv'
  BY <1>2, <1>3 DEF LockInv
<1>5. Consistent(bankroll, settlements)'
  BY DEF IInv
<1>6. BatchInv'
  BY <1>2 DEF BatchInv, BatchOK, InLock
<1> QED BY <1>4, <1>5, <1>6 DEF IInv

LEMMA ClosingType ==
  ASSUME NEW rows \in Seq(EntryRow) PROVE Closing(rows) \in Int
<1>1. CASE rows = <<>>
  BY <1>1, ConstantsAssumption DEF Closing, ConstantsAssumption
<1>2. CASE rows # <<>>
  <2>1. Len(rows) \in 1..Len(rows)
    BY <1>2
  <2>2. rows[Len(rows)] \in EntryRow
    BY <2>1
  <2> QED BY <1>2, <2>2 DEF Closing, EntryRow
<1> QED BY <1>1, <1>2

LEMMA LockAndGetLatestBalanceKeeps ==
  ASSUME IInv, NEW w \in Workers, LockAndGetLatestBalance(w) PROVE IInv'
<1>1. Closing(bankroll) \in Int
  BY ClosingType DEF IInv, TypeOK
<1>2. TypeOK'
  BY <1>1 DEF IInv, LockAndGetLatestBalance, TypeOK, database, Mils
<1>3. \A v \in Workers : ~InLock(v)
  BY FreeLockAssumption DEF IInv, LockInv, LockOK, LockAndGetLatestBalance
<1>4. newEntries[w] = <<>> /\ newSettlements[w] = {}
  BY DEF IInv, LockInv, LockOK, LockAndGetLatestBalance
<1>5. Rows(w)' = bankroll
  BY <1>4 DEF Rows, LockAndGetLatestBalance, database, IInv, TypeOK
<1>6. Cents(running'[w]) = Closing(bankroll)
  BY <1>1, CentsOfMils DEF LockAndGetLatestBalance, IInv, TypeOK
<1>7. BatchOK(w)'
  BY <1>5, <1>6 DEF BatchOK, LockAndGetLatestBalance, IInv, TypeOK
<1> QED
  BY <1>2, <1>3, <1>7, LockedKeeps DEF LockAndGetLatestBalance, database

LEMMA RelistUnsettledKeeps ==
  ASSUME IInv, NEW w \in Workers, RelistUnsettled(w) PROVE IInv'
<1>1. TypeOK'
  BY DEF IInv, RelistUnsettled, TypeOK, database
<1>2. holder = w
  BY DEF IInv, LockInv, LockOK, InLock, RelistUnsettled
<1>3. Rows(w)' = Rows(w) /\ Written(w)' = Written(w)
  BY DEF Rows, Written, RelistUnsettled, database
<1>4. newSettlements[w] = {} /\ newEntries[w] = <<>>
  BY DEF IInv, LockInv, LockOK, RelistUnsettled
<1>5. Rows(w) = bankroll /\ Written(w) = settlements
  BY <1>4, NothingFlushed DEF IInv
<1>6. /\ pc'[w] = "settling"
      /\ todo'[w] = listed[w] \cap (placed \ Settled(settlements))
      /\ running'[w] = running[w]
  BY DEF RelistUnsettled, IInv, TypeOK, Unsettled
<1>7. BatchOK(w)'
  <2>1. Cents(running[w]) = Closing(Rows(w))
    BY <1>2 DEF IInv, LockInv, LockOK, BatchInv, BatchOK
  <2>2. Consistent(Rows(w)', Written(w)')
    BY <1>3, <1>5 DEF IInv
  <2>3. todo'[w] \cap Settled(Written(w)') = {}
    BY <1>3, <1>5, <1>6
  <2> QED BY <1>3, <1>6, <2>1, <2>2, <2>3 DEF BatchOK
<1> QED
  BY <1>1, <1>2, <1>7, OthersOutside, LockedKeeps
     DEF RelistUnsettled, IInv, TypeOK, database

LEMMA SkipBetKeeps ==
  ASSUME IInv, NEW w \in Workers, SkipBet(w) PROVE IInv'
<1>1. PICK b \in todo[w] : todo' = [todo EXCEPT ![w] = @ \ {b}]
  BY DEF SkipBet
<1>2. TypeOK'
  BY <1>1 DEF IInv, SkipBet, TypeOK, database
<1>3. holder = w
  BY DEF IInv, LockInv, LockOK, InLock, SkipBet
<1>4. Rows(w)' = Rows(w) /\ Written(w)' = Written(w)
  BY DEF Rows, Written, SkipBet, database
<1>5. /\ pc[w] = "settling"
      /\ pc' = [pc EXCEPT ![w] = "settling"]
      /\ running' = running
      /\ \A v \in Workers : todo'[v] \subseteq todo[v]
      /\ \A v \in Workers \ {w} : todo'[v] = todo[v]
  BY <1>1 DEF SkipBet, IInv, TypeOK
<1>6. BatchOK(w)'
  BY <1>4, <1>5 DEF BatchOK, BatchInv, IInv, InLock
<1> QED
  BY <1>2, <1>3, <1>5, <1>6, OthersOutside, LockedKeeps DEF SkipBet, IInv, database

LEMMA AddSettlementKeeps ==
  ASSUME IInv, NEW w \in Workers, AddSettlement(w) PROVE IInv'
<1> DEFINE row(b) == [bet |-> b, result |-> Result(w, b).outcome,
                      pl |-> Cents(Result(w, b).pl),
                      before |-> Cents(running[w]),
                      after |-> Cents(running[w] + Result(w, b).pl)]
<1>1. PICK b \in todo[w] :
        /\ Resolution(w, b) # Null
        /\ b \notin Settled(settlements)
        /\ newSettlements' = [newSettlements EXCEPT ![w] = @ \cup {row(b)}]
  BY DEF AddSettlement
<1>0. PICK s : s = row(b)
  OBVIOUS
<1>2. b \in Bets /\ running[w] \in Int
  BY DEF IInv, TypeOK
<1>3. /\ Resolution(w, b) \in Results
      /\ Result(w, b).outcome = Resolution(w, b)
      /\ Result(w, b).pl \in Int
  BY <1>1, <1>2, ResolutionType
<1>4. s \in SettlementRow
  BY <1>0, <1>2, <1>3, CentsType DEF SettlementRow
<1>5. TypeOK'
  BY <1>0, <1>1, <1>4 DEF IInv, AddSettlement, TypeOK, database
<1>6. holder = w
  BY DEF IInv, LockInv, LockOK, InLock, AddSettlement
<1>7. /\ pc[w] = "settling"
      /\ pc' = [pc EXCEPT ![w] = "crediting"]
      /\ pc'[w] = "crediting"
      /\ UNCHANGED <<database, holder, states, evidence, todo, running, newEntries>>
  BY DEF AddSettlement, IInv, TypeOK
<1>8. newSettlements'[w] = newSettlements[w] \cup {s}
  BY <1>0, <1>1 DEF IInv, TypeOK
<1>9. /\ Consistent(Rows(w), Written(w))
      /\ todo[w] \cap Settled(Written(w)) = {}
      /\ Cents(running[w]) = Closing(Rows(w))
  BY <1>7 DEF IInv, BatchInv, BatchOK, InLock
<1>10. /\ Rows(w)' = Rows(w)
       /\ Written(w)' = Written(w) \cup {s}
  BY <1>7, <1>8 DEF Rows, Written, database
<1>11. s \notin Written(w)
  BY <1>0, <1>9 DEF Settled
<1>12. Written(w)' \ {s} = Written(w)
  BY <1>10, <1>11
<1>13. \A c : Resolution(w, c)' = Resolution(w, c)
  BY <1>7 DEF Resolution
<1>14. Result(w, b)' = Result(w, b)
  BY <1>13 DEF Result
<1>15. HalfWritten(w, s)'
  <2>1. s.bet = b /\ s.bet \in todo'[w] /\ s.bet \notin Settled(Written(w))
    BY <1>0, <1>7, <1>9
  <2>2. Resolution(w, s.bet)' # Null
    BY <1>1, <1>13, <2>1
  <2>3. /\ s.pl = Cents(Result(w, s.bet)'.pl)
        /\ s.before = Closing(Rows(w)')
        /\ s.after = Cents(running'[w] + Result(w, s.bet)'.pl)
    BY <1>0, <1>7, <1>9, <1>10, <1>14
  <2> QED BY <1>9, <1>10, <1>12, <2>1, <2>2, <2>3 DEF HalfWritten
<1>16. \A c \in todo'[w] \cap Settled(Written(w)') : c = b
  <2>1. \A c \in Settled(Written(w)') : c \in Settled(Written(w)) \/ c = b
    BY <1>0, <1>10 DEF Settled
  <2> QED BY <1>7, <1>9, <2>1
<1>17. BatchOK(w)'
  BY <1>7, <1>8, <1>9, <1>10, <1>15, <1>16 DEF BatchOK
<1>18. \A v \in Workers \ {w} : newSettlements'[v] = newSettlements[v]
  BY <1>1 DEF IInv, TypeOK
<1> QED
  BY <1>5, <1>6, <1>7, <1>17, <1>18, OthersOutside, LockedKeeps DEF IInv, database

LEMMA AddBankrollEntryKeeps ==
  ASSUME IInv, NEW w \in Workers, AddBankrollEntry(w) PROVE IInv'
<1> DEFINE pl(b)    == Result(w, b).pl
           entry(b) == [bet |-> b, amount |-> Cents(pl(b)),
                        balance |-> Cents(running[w] + pl(b))]
<1>1. PICK b \in todo[w] \cap Settled(newSettlements[w]) :
        /\ newEntries' = [newEntries EXCEPT ![w] = Append(@, entry(b))]
        /\ running' = [running EXCEPT ![w] = @ + pl(b)]
        /\ todo' = [todo EXCEPT ![w] = @ \ {b}]
  BY DEF AddBankrollEntry
<1>2. /\ pc[w] = "crediting"
      /\ pc' = [pc EXCEPT ![w] = "settling"]
      /\ pc'[w] = "settling"
      /\ UNCHANGED <<database, holder, states, evidence, newSettlements>>
  BY DEF AddBankrollEntry, IInv, TypeOK
<1>3. PICK s \in newSettlements[w] : HalfWritten(w, s)
  BY <1>2 DEF IInv, BatchInv, BatchOK
<1>4. s.bet = b
  <2>1. s.bet \in Settled(Written(w)) /\ b \in Settled(Written(w))
    BY <1>1, <1>3 DEF Settled, Written
  <2>2. s.bet \in todo[w]
    BY <1>3 DEF HalfWritten
  <2> QED BY <1>1, <1>2, <2>1, <2>2 DEF IInv, BatchInv, BatchOK
<1>5. b \in Bets /\ running[w] \in Int
  BY DEF IInv, TypeOK
<1>6. pl(b) \in Int
  <2>1. Resolution(w, b) # Null
    BY <1>3, <1>4 DEF HalfWritten
  <2> QED BY <1>5, <2>1, ResolutionType
<1>7. entry(b) \in EntryRow
  BY <1>5, <1>6, CentsType DEF EntryRow
<1>8. /\ newEntries'[w] = Append(newEntries[w], entry(b))
      /\ running'[w] = running[w] + pl(b)
      /\ todo'[w] = todo[w] \ {b}
      /\ \A v \in Workers \ {w} : todo'[v] = todo[v] /\ newEntries'[v] = newEntries[v]
  BY <1>1 DEF IInv, TypeOK
<1>9. TypeOK'
  <2>1. newEntries' \in [Workers -> Seq(EntryRow)]
    BY <1>1, <1>7 DEF IInv, TypeOK
  <2>2. running' \in [Workers -> Int]
    BY <1>1, <1>5, <1>6 DEF IInv, TypeOK
  <2>3. todo' \in [Workers -> SUBSET Bets]
    BY <1>1 DEF IInv, TypeOK
  <2> QED BY <2>1, <2>2, <2>3 DEF IInv, AddBankrollEntry, TypeOK, database
<1>10. holder = w
  BY <1>2 DEF IInv, LockInv, LockOK, InLock
<1> DEFINE others == Written(w) \ {s}
<1>11. /\ s.bet \notin Settled(others)
       /\ s.pl = Cents(pl(b))
       /\ s.before = Closing(Rows(w))
       /\ s.after = Cents(running[w] + pl(b))
       /\ Consistent(Rows(w), others)
  BY <1>3, <1>4 DEF HalfWritten
<1>12. s.before = Cents(running[w])
  BY <1>2, <1>11 DEF IInv, BatchInv, BatchOK, InLock
<1>13. s.after - s.before - s.pl \in -1..1
  BY <1>5, <1>6, <1>11, <1>12, RoundingDrift
<1>14. Rows(w) \in Seq(EntryRow)
  BY RowsType DEF IInv
<1>15. Consistent(Append(Rows(w), entry(b)), others \cup {s})
  BY <1>4, <1>7, <1>11, <1>13, <1>14, AppendConsistent
<1>16. Rows(w)' = Append(Rows(w), entry(b))
  <2>1. Rows(w)' = bankroll \o Append(newEntries[w], entry(b))
    BY <1>2, <1>8 DEF Rows, database
  <2>2. bankroll \in Seq(EntryRow) /\ newEntries[w] \in Seq(EntryRow)
    BY DEF IInv, TypeOK
  <2> QED BY <1>7, <2>1, <2>2 DEF Rows
<1>17. Written(w)' = others \cup {s}
  BY <1>2, <1>3 DEF Written, database
<1>18. Closing(Rows(w)') = Cents(running'[w])
  BY <1>8, <1>14, <1>16 DEF Closing
<1>19. todo'[w] \cap Settled(Written(w)') = {}
  <2>1. \A c \in todo[w] \cap Settled(Written(w)) : c = b
    <3>1. b \in todo[w] \cap Settled(Written(w))
      BY <1>1 DEF Settled, Written
    <3> QED BY <1>2, <3>1 DEF IInv, BatchInv, BatchOK
  <2>2. Written(w)' = Written(w)
    BY <1>2 DEF Written, database
  <2> QED BY <1>8, <2>1, <2>2
<1>20. BatchOK(w)'
  BY <1>2, <1>15, <1>16, <1>17, <1>18, <1>19 DEF BatchOK
<1> QED
  BY <1>2, <1>8, <1>9, <1>10, <1>20, OthersOutside, LockedKeeps DEF IInv, database

LEMMA CommitKeeps ==
  ASSUME IInv, NEW w \in Workers, Commit(w) PROVE IInv'
<1>1. bankroll' = Rows(w) /\ settlements' = Written(w)
  BY DEF Commit, Rows, Written
<1>2. pc[w] = "settling" /\ holder = w
  BY DEF Commit, IInv, LockInv, LockOK, InLock
<1>3. Consistent(bankroll, settlements)'
  BY <1>1, <1>2 DEF IInv, BatchInv, BatchOK
<1>4. TypeOK'
  BY <1>1, RowsType, EndRunType DEF IInv, Commit, TypeOK
<1>5. LockInv' /\ ~InLock(w)'
  BY EndRunLocals DEF IInv, Commit
<1>6. ASSUME NEW v \in Workers \ {w} PROVE ~InLock(v)'
  BY <1>2, OthersOutside DEF IInv, Commit, EndRun, TypeOK, InLock
<1>7. BatchInv'
  BY <1>5, <1>6 DEF BatchInv, BatchOK, InLock
<1> QED BY <1>3, <1>4, <1>5, <1>7 DEF IInv
-----------------------------------------------------------------------------
\* Every step of the settlement runs keeps the inductive invariant.
LEMMA NextKeeps == IInv /\ [Next]_vars => IInv'
<1> SUFFICES ASSUME IInv, [Next]_vars PROVE IInv'
  OBVIOUS
<1>1. ASSUME NEW b \in Bets, PlaceBet(b) PROVE IInv'
  BY <1>1, WorldKeeps DEF PlaceBet, IInv, TypeOK
<1>2. ASSUME NEW f \in Fixtures, FeedMoves(f) PROVE IInv'
  BY <1>2, WorldKeeps DEF FeedMoves, database, IInv, TypeOK
<1>3. ASSUME NEW w \in Workers, RefreshFails(w) PROVE IInv'
  BY <1>3, RollbackKeeps DEF RefreshFails, IInv, TypeOK
<1>4. ASSUME NEW w \in Workers, RunIsLost(w) PROVE IInv'
  BY <1>4, RollbackKeeps, ConstantsAssumption
     DEF RunIsLost, IInv, TypeOK, ConstantsAssumption
<1>5. ASSUME NEW w \in Workers, Progress(w) PROVE IInv'
  BY <1>3, <1>5, ListUnsettledKeeps, RefreshKeeps, GatherEvidenceKeeps,
     LockAndGetLatestBalanceKeeps, RelistUnsettledKeeps, SkipBetKeeps,
     AddSettlementKeeps, AddBankrollEntryKeeps, CommitKeeps
     DEF Progress
<1>6. CASE UNCHANGED vars
  BY <1>6, WorldKeeps DEF vars, database, IInv, TypeOK
<1> QED BY <1>1, <1>2, <1>4, <1>5, <1>6 DEF Next

\* The inductive invariant holds of every reachable state.
THEOREM Inductive == Spec => []IInv
  BY InitInv, NextKeeps, PTL DEF Spec

\* The tables and the locals of settle_all keep their types.
THEOREM TypeCorrect == Spec => []TypeOK
<1>1. IInv => TypeOK
  BY DEF IInv
<1> QED BY <1>1, Inductive, PTL

\* No concurrent run ever meets uq_settlements_value_bet: the list taken under
\* the advisory lock has already dropped what any other run has written.
THEOREM NoConflict == Spec => []NoUniqueConflict
<1>1. IInv => NoUniqueConflict
  <2> SUFFICES ASSUME IInv, NEW w \in Workers, pc[w] = "settling", NEW b \in todo[w]
               PROVE  /\ b \notin Settled(settlements)
                      /\ \A v \in Workers : b \notin Settled(newSettlements[v])
    BY DEF NoUniqueConflict
  <2>1. b \notin Settled(Written(w))
    BY DEF IInv, BatchInv, BatchOK
  <2>2. holder = w
    BY DEF IInv, LockInv, LockOK, InLock
  <2>3. \A v \in Workers \ {w} : newSettlements[v] = {}
    BY <2>2, OthersOutside DEF IInv, LockInv, LockOK, InLock
  <2> QED BY <2>1, <2>3 DEF Written, Settled
<1> QED BY <1>1, Inductive, PTL

\* The ledger is audited: contiguous balances, one settlement behind each row,
\* and no row off its amount by more than a cent of rounding.
THEOREM LedgerIsAudited == Spec => []LedgerAudited
<1>1. IInv => LedgerAudited
  BY DEF IInv, Consistent, LedgerAudited
<1> QED BY <1>1, Inductive, PTL

\* Settlements and bankroll rows are committed in pairs, once per bet, however
\* runs overlap, raise or die.
THEOREM SettledWithEntry == Spec => []SettlementsMatchEntries
<1>1. IInv => SettlementsMatchEntries
  BY DEF IInv, Consistent, SettlementsMatchEntries
<1> QED BY <1>1, Inductive, PTL
=============================================================================

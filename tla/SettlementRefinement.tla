------------------------ MODULE SettlementRefinement ------------------------
(***************************************************************************)
(* Concurrent runs of settle_all implement the append-only Ledger, for every *)
(* set of workers, bets, fixtures and provider answers.                     *)
(*                                                                         *)
(* A commit appends one batch to the book, every other step leaves the book *)
(* as it is.  That the batch is chained and that no bet is in it twice      *)
(* comes from the inductive invariant of SettlementProofs; that a void      *)
(* moves no money and a loss never adds any is FairInv, about the           *)
(* rows, committed or only flushed.                                         *)
(***************************************************************************)
EXTENDS SettlementProofs, SequenceTheorems

\* What the result of a settlement row says about its two balances.
FairRow(s) ==
  /\ s.result = "V" => s.after = s.before
  /\ s.result = "L" => s.after <= s.before

FairInv ==
  /\ \A s \in settlements : FairRow(s)
  /\ \A w \in Workers : \A s \in newSettlements[w] : FairRow(s)

BookRow == [bet : Bets, result : Results, before : Int, after : Int]

\* The book's row of ledger row e, which s settles.
RowOf(s, e) ==
  [bet |-> s.bet, result |-> s.result, before |-> s.before, after |-> e.balance]
-----------------------------------------------------------------------------
\* Rounding to cents keeps the order of two amounts.
LEMMA CentsMonotone ==
  ASSUME NEW m \in Int, NEW n \in Int, m <= n PROVE Cents(m) <= Cents(n)
  BY SMT DEF Cents

\* A void is worth nothing, a loss at most nothing.
LEMMA FairProfitLoss ==
  ASSUME NEW w, NEW b \in Bets, Resolution(w, b) # Null
  PROVE  /\ Resolution(w, b) = "V" => Result(w, b).pl = 0
         /\ Resolution(w, b) = "L" => Result(w, b).pl <= 0
<1>1. Result(w, b).pl = ProfitLoss(Resolution(w, b), StakeOf[b], OddsOf[b])
  BY DEF Result
<1>2. Resolution(w, b) = "V" => Result(w, b).pl = 0
  BY <1>1 DEF ProfitLoss
<1>3. ASSUME Resolution(w, b) = "L" PROVE Result(w, b).pl <= 0
  <2>1. StakeOf[b] # Null
    BY <1>3 DEF Resolution
  <2>2. StakeOf[b] \in Nat
    BY <2>1, ConstantsAssumption DEF ConstantsAssumption
  <2>3. Result(w, b).pl = -(StakeOf[b] * 1000)
    BY <1>1, <1>3 DEF ProfitLoss
  <2> QED BY <2>2, <2>3
<1> QED BY <1>2, <1>3

\* Rows are written fair, and stay so whatever happens to their transaction.
LEMMA NextKeepsFair == IInv /\ FairInv /\ [Next]_vars => FairInv'
<1> SUFFICES ASSUME IInv, FairInv, [Next]_vars PROVE FairInv'
  OBVIOUS
<1>1. ASSUME NEW w \in Workers, AddSettlement(w) PROVE FairInv'
  <2> DEFINE row(b) == [bet |-> b, result |-> Result(w, b).outcome,
                        pl |-> Cents(Result(w, b).pl),
                        before |-> Cents(running[w]),
                        after |-> Cents(running[w] + Result(w, b).pl)]
  <2>1. PICK b \in todo[w] :
          /\ Resolution(w, b) # Null
          /\ newSettlements' = [newSettlements EXCEPT ![w] = @ \cup {row(b)}]
    BY <1>1 DEF AddSettlement
  <2>2. b \in Bets /\ running[w] \in Int
    BY DEF IInv, TypeOK
  <2>3. /\ Result(w, b).outcome = Resolution(w, b)
        /\ Result(w, b).pl \in Int
    BY <2>1, <2>2, ResolutionType
  <2>4. FairRow(row(b))
    <3>1. CASE Resolution(w, b) = "V"
      <4>1. running[w] + Result(w, b).pl = running[w]
        BY <2>1, <2>2, <3>1, FairProfitLoss
      <4> QED BY <2>3, <3>1, <4>1 DEF FairRow
    <3>2. CASE Resolution(w, b) = "L"
      <4>1. running[w] + Result(w, b).pl <= running[w]
        BY <2>1, <2>2, <2>3, <3>2, FairProfitLoss
      <4>2. Cents(running[w] + Result(w, b).pl) <= Cents(running[w])
        BY <2>2, <2>3, <4>1, CentsMonotone
      <4> QED BY <2>3, <3>2, <4>2 DEF FairRow
    <3> QED BY <2>3, <3>1, <3>2 DEF FairRow
  <2>5. settlements' = settlements
    BY <1>1 DEF AddSettlement, database
  <2>6. \A v \in Workers :
          newSettlements'[v] \subseteq newSettlements[v] \cup {row(b)}
    BY <2>1 DEF IInv, TypeOK
  <2> HIDE DEF row
  <2> QED BY <2>4, <2>5, <2>6 DEF FairInv
<1>2. ASSUME NEW w \in Workers, Commit(w) PROVE FairInv'
  BY <1>2 DEF Commit, EndRun, FairInv, IInv, TypeOK
<1>3. ASSUME NEW w \in Workers, Rollback(w) PROVE FairInv'
  BY <1>3 DEF Rollback, EndRun, database, FairInv, IInv, TypeOK
<1>4. ASSUME UNCHANGED <<settlements, newSettlements>> PROVE FairInv'
  BY <1>4 DEF FairInv
<1>5. ASSUME NEW w \in Workers, Progress(w) PROVE FairInv'
  BY <1>1, <1>2, <1>3, <1>4, <1>5
     DEF Progress, ListUnsettled, Refresh, RefreshFails, GatherEvidence,
         LockAndGetLatestBalance, RelistUnsettled, SkipBet, AddBankrollEntry,
         database
<1> QED
  BY <1>3, <1>4, <1>5
     DEF Next, PlaceBet, FeedMoves, RunIsLost, database, run, vars

\* Nothing but a commit writes the tables the book is read from.
LEMMA OnlyCommitsWrite ==
  ASSUME [Next]_vars, \A w \in Workers : ~Commit(w)
  PROVE  UNCHANGED <<settlements, bankroll>>
  BY DEF Next, Progress, PlaceBet, FeedMoves, ListUnsettled, Refresh,
         RefreshFails, GatherEvidence, LockAndGetLatestBalance, RelistUnsettled,
         SkipBet, AddSettlement, AddBankrollEntry, RunIsLost, Rollback,
         database, vars
-----------------------------------------------------------------------------
\* The book has one row per ledger row, read from the one settlement of its bet.
LEMMA BookRows ==
  ASSUME TypeOK, Consistent(bankroll, settlements)
  PROVE  /\ Book \in Seq(BookRow)
         /\ Len(Book) = Len(bankroll)
         /\ \A i \in 1..Len(bankroll) : \A s \in settlements :
              s.bet = bankroll[i].bet => Book[i] = RowOf(s, bankroll[i])
<1>1. Len(bankroll) \in Nat /\ \A i \in 1..Len(bankroll) : bankroll[i] \in EntryRow
  BY DEF TypeOK
<1>2. ASSUME NEW i \in 1..Len(bankroll), NEW s \in settlements,
             s.bet = bankroll[i].bet
      PROVE  Book[i] = RowOf(s, bankroll[i])
  <2>1. \A t \in settlements : t.bet = bankroll[i].bet => t = s
    BY <1>2 DEF Consistent, Matched
  <2>2. (CHOOSE t \in settlements : t.bet = bankroll[i].bet) = s
    BY <1>2, <2>1
  <2> QED BY <2>2 DEF Book, RowOf
<1>3. ASSUME NEW i \in 1..Len(bankroll) PROVE Book[i] \in BookRow
  <2>1. PICK s \in settlements : s.bet = bankroll[i].bet
    BY DEF Consistent, Audited
  <2>2. s \in SettlementRow /\ bankroll[i] \in EntryRow
    BY <1>1 DEF TypeOK
  <2>3. Book[i] = RowOf(s, bankroll[i])
    BY <1>2, <2>1
  <2>4. RowOf(s, bankroll[i]) \in BookRow
    BY <2>2 DEF RowOf, BookRow, SettlementRow, EntryRow
  <2> QED BY <2>3, <2>4
<1>4. Book \in [1..Len(bankroll) -> BookRow]
  BY <1>3 DEF Book
<1>5. Book \in Seq(BookRow) /\ Len(Book) = Len(bankroll)
  BY <1>1, <1>4
<1> QED BY <1>2, <1>5

\* Each row opens with the balance the row before it closed with, is fair, and
\* no bet has two rows.
LEMMA BookIsChained ==
  ASSUME IInv, FairInv
  PROVE  /\ \A i \in 1..Len(Book) :
              /\ Book[i].bet \in Bets
              /\ Book[i].before = IF i = 1 THEN Opening ELSE Book[i - 1].after
              /\ Book[i].result = "V" => Book[i].after = Book[i].before
              /\ Book[i].result = "L" => Book[i].after <= Book[i].before
         /\ \A i, j \in 1..Len(Book) : Book[i].bet = Book[j].bet => i = j
<1>1. TypeOK /\ Consistent(bankroll, settlements)
  BY DEF IInv
<1>2. /\ Len(Book) = Len(bankroll) /\ Len(Book) \in Nat
      /\ \A i \in 1..Len(Book) : Book[i] \in BookRow
  BY <1>1, BookRows
<1>3. ASSUME NEW i \in 1..Len(Book)
      PROVE  \E s \in settlements :
               /\ Book[i] = RowOf(s, bankroll[i])
               /\ s.bet = bankroll[i].bet
               /\ s.after = bankroll[i].balance
               /\ s.before = BalanceBefore(bankroll, i)
  BY <1>1, <1>2, BookRows DEF Consistent, Audited
<1>4. ASSUME NEW i \in 1..Len(Book)
      PROVE  /\ Book[i].bet = bankroll[i].bet
             /\ Book[i].after = bankroll[i].balance
             /\ Book[i].before = BalanceBefore(bankroll, i)
             /\ Book[i].result = "V" => Book[i].after = Book[i].before
             /\ Book[i].result = "L" => Book[i].after <= Book[i].before
  <2>1. PICK s \in settlements :
          /\ Book[i] = RowOf(s, bankroll[i])
          /\ s.bet = bankroll[i].bet
          /\ s.after = bankroll[i].balance
          /\ s.before = BalanceBefore(bankroll, i)
    BY <1>3
  <2>2. FairRow(s)
    BY DEF FairInv
  <2>3. /\ Book[i].bet = s.bet
        /\ Book[i].result = s.result
        /\ Book[i].before = s.before
        /\ Book[i].after = bankroll[i].balance
    BY <2>1 DEF RowOf
  <2> QED BY <2>1, <2>2, <2>3 DEF FairRow
<1>5. ASSUME NEW i \in 1..Len(Book), i # 1
      PROVE  Book[i].before = Book[i - 1].after
  <2>1. i - 1 \in 1..Len(Book)
    BY <1>2, <1>5
  <2> QED BY <1>4, <1>5, <2>1 DEF BalanceBefore
<1>6. \A i \in 1..Len(Book) :
        Book[i].before = IF i = 1 THEN Opening ELSE Book[i - 1].after
  BY <1>4, <1>5 DEF BalanceBefore
<1>7. \A i, j \in 1..Len(Book) : Book[i].bet = Book[j].bet => i = j
  BY <1>1, <1>2, <1>4 DEF Consistent, Matched
<1> QED BY <1>2, <1>4, <1>6, <1>7 DEF BookRow

-----------------------------------------------------------------------------
\* A commit leaves the rows that are in the book, and adds its own behind them.
LEMMA CommitExtendsBook ==
  ASSUME IInv, IInv', NEW w \in Workers, Commit(w)
  PROVE  /\ Len(Book') >= Len(Book)
         /\ SubSeq(Book', 1, Len(Book)) = Book
<1>1. /\ bankroll' = bankroll \o newEntries[w]
      /\ settlements \subseteq settlements'
      /\ bankroll \in Seq(EntryRow) /\ newEntries[w] \in Seq(EntryRow)
  BY DEF Commit, IInv, TypeOK
<1>2. /\ Book \in Seq(BookRow) /\ Len(Book) = Len(bankroll)
      /\ \A i \in 1..Len(bankroll) : \A s \in settlements :
           s.bet = bankroll[i].bet => Book[i] = RowOf(s, bankroll[i])
  BY BookRows DEF IInv
<1>3. /\ Book' \in Seq(BookRow) /\ Len(Book') = Len(bankroll')
      /\ \A i \in 1..Len(bankroll') : \A s \in settlements' :
           s.bet = bankroll'[i].bet => Book'[i] = RowOf(s, bankroll'[i])
  <2>1. (TypeOK /\ Consistent(bankroll, settlements))'
    BY DEF IInv
  <2>2. (/\ Book \in Seq(BookRow) /\ Len(Book) = Len(bankroll)
         /\ \A i \in 1..Len(bankroll) : \A s \in settlements :
              s.bet = bankroll[i].bet => Book[i] = RowOf(s, bankroll[i]))'
    BY <2>1, BookRows, PTL
  <2> QED BY <2>2 DEF RowOf
<1>4. /\ Len(bankroll) \in Nat /\ Len(bankroll') >= Len(bankroll)
      /\ \A i \in 1..Len(bankroll) : i \in 1..Len(bankroll') /\ bankroll'[i] = bankroll[i]
  BY <1>1
<1>5. ASSUME NEW i \in 1..Len(Book) PROVE Book'[i] = Book[i]
  <2>1. PICK s \in settlements : s.bet = bankroll[i].bet
    BY <1>2 DEF IInv, Consistent, Audited
  <2> QED BY <1>1, <1>2, <1>3, <1>4, <2>1
<1>6. /\ SubSeq(Book', 1, Len(Book)) \in Seq(BookRow)
      /\ Len(SubSeq(Book', 1, Len(Book))) = Len(Book)
      /\ \A i \in 1..Len(Book) : SubSeq(Book', 1, Len(Book))[i] = Book'[i]
  BY <1>2, <1>3, <1>4
<1>7. SubSeq(Book', 1, Len(Book)) = Book
  BY <1>2, <1>5, <1>6, SeqEqual
<1> QED BY <1>2, <1>3, <1>4, <1>7

\* A step of the settlement runs settles one batch of the ledger or none.
LEMMA StepRefines ==
  IInv /\ FairInv /\ IInv' /\ FairInv' /\ [Next]_vars
    => [Abstract!SettleBatch]_Book
<1> SUFFICES ASSUME IInv, FairInv, IInv', FairInv', [Next]_vars
             PROVE  [Abstract!SettleBatch]_Book
  OBVIOUS
<1>1. CASE \A w \in Workers : ~Commit(w)
  <2>1. UNCHANGED <<settlements, bankroll>>
    BY <1>1, OnlyCommitsWrite
  <2>2. Book' = Book
    BY <2>1 DEF Book
  <2> QED BY <2>2
<1>2. ASSUME NEW w \in Workers, Commit(w)
      PROVE  [Abstract!SettleBatch]_Book
  <2> DEFINE n    == Len(Book)
             more == Book'
             new  == SubSeq(more, n + 1, Len(more))
  <2>1. /\ Len(more) >= n
        /\ SubSeq(more, 1, n) = Book
    BY <1>2, CommitExtendsBook
  <2>2. Book \in Seq(BookRow)
    BY BookRows DEF IInv
  <2>3. (Book \in Seq(BookRow))'
    <3>1. (TypeOK /\ Consistent(bankroll, settlements))'
      BY DEF IInv
    <3> QED BY <3>1, BookRows, PTL
  <2>4. /\ \A i \in 1..Len(more) :
             /\ more[i].bet \in Bets
             /\ more[i].before = IF i = 1 THEN Opening ELSE more[i - 1].after
             /\ more[i].result = "V" => more[i].after = more[i].before
             /\ more[i].result = "L" => more[i].after <= more[i].before
        /\ \A i, j \in 1..Len(more) : more[i].bet = more[j].bet => i = j
    <3>1. (/\ \A i \in 1..Len(Book) :
                /\ Book[i].bet \in Bets
                /\ Book[i].before = IF i = 1 THEN Opening ELSE Book[i - 1].after
                /\ Book[i].result = "V" => Book[i].after = Book[i].before
                /\ Book[i].result = "L" => Book[i].after <= Book[i].before
           /\ \A i, j \in 1..Len(Book) : Book[i].bet = Book[j].bet => i = j)'
      BY BookIsChained, PTL
    <3> QED BY <3>1
  <2>5. more \in Seq(BookRow)
    BY <2>3
  <2> HIDE DEF more
  <2>6. /\ n \in Nat /\ Len(more) \in Nat
        /\ \A i \in 1..n : Book[i] = more[i]
    BY <2>1, <2>2, <2>5
  <2>7. CASE Len(more) = n
    <3>1. more = Book
      BY <2>2, <2>5, <2>6, <2>7, SeqEqual
    <3> QED BY <3>1 DEF more
  <2>8. CASE Len(more) # n
    <3>1. /\ Len(new) = Len(more) - n
          /\ \A i \in 1..(Len(more) - n) : new[i] = more[n + i]
      BY <2>1, <2>5, <2>6, <2>8
    <3>2. ASSUME NEW i \in 1..Len(new)
          PROVE  /\ new[i].before = IF i = 1 THEN Abstract!ClosingBalance(Book)
                                    ELSE new[i - 1].after
                 /\ new[i].result = "V" => new[i].after = new[i].before
                 /\ new[i].result = "L" => new[i].after <= new[i].before
      <4>1. n + i \in 1..Len(more) /\ new[i] = more[n + i]
        BY <2>1, <2>6, <3>1
      <4>2. CASE i = 1
        <5>1. CASE n = 0
          <6>1. Book = <<>>
            BY <2>2, <5>1, EmptySeq
          <6> QED BY <2>4, <4>1, <4>2, <5>1, <6>1 DEF Abstract!ClosingBalance
        <5>2. CASE n # 0
          <6>1. Book # <<>> /\ n \in 1..n
            BY <2>6, <5>2
          <6>2. more[n + 1].before = more[n].after
            BY <2>4, <2>6, <4>1, <4>2, <5>2
          <6> QED BY <2>4, <2>6, <4>1, <4>2, <6>1, <6>2
                  DEF Abstract!ClosingBalance
        <5> QED BY <5>1, <5>2
      <4>3. CASE i # 1
        <5>1. i - 1 \in 1..Len(new) /\ new[i - 1] = more[n + i - 1]
          BY <2>6, <3>1, <4>3
        <5>2. more[n + i].before = more[n + i - 1].after
          BY <2>4, <2>6, <4>1, <4>3
        <5> QED BY <2>4, <4>1, <4>3, <5>1, <5>2
      <4> QED BY <4>2, <4>3
    <3>3. Abstract!Chained(new, Abstract!ClosingBalance(Book))
      BY <3>2 DEF Abstract!Chained
    <3>4. Abstract!SettledOnce(more)
      BY <2>4 DEF Abstract!SettledOnce
    <3>5. Len(more) > n
      BY <2>1, <2>6, <2>8
    <3> QED BY <2>1, <2>4, <3>3, <3>4, <3>5 DEF more, Abstract!SettleBatch
  <2> QED BY <2>7, <2>8
<1> QED BY <1>1, <1>2

\* The committed tables behave as the append-only ledger: whatever concurrent
\* runs of settle_all do, and wherever they die, the book only grows by whole
\* batches of chained rows, with every bet in it at most once.
THEOREM Implements == Spec => ImplementsLedger
<1>1. Init => IInv /\ FairInv
  BY InitInv DEF Init, FairInv
<1>2. Init => Abstract!Init
  BY DEF Init, Abstract!Init, Book
<1>3. IInv /\ FairInv /\ [Next]_vars => IInv' /\ FairInv'
  BY NextKeeps, NextKeepsFair
<1> QED
  BY <1>1, <1>2, <1>3, StepRefines, PTL DEF Spec, ImplementsLedger, Abstract!Spec
=============================================================================

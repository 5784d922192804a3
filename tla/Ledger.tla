------------------------------- MODULE Ledger -------------------------------
(***************************************************************************)
(* What settlement promises whoever reads its tables (performance, the      *)
(* dashboard): one append-only book of settled bets.  It only ever grows by *)
(* whole batches; a bet enters it once and for good; each row opens         *)
(* with the balance the row before it closed with; a void moves no money.   *)
(***************************************************************************)
EXTENDS Integers, Sequences

CONSTANTS
  Bets,      \* bets that may be settled
  Opening    \* the balance before the first settlement, in cents

VARIABLE book   \* rows [bet, result, before, after]

ClosingBalance(rows) == IF rows = <<>> THEN Opening ELSE rows[Len(rows)].after

\* `rows` may follow a balance of `opening`.
Chained(rows, opening) ==
  \A i \in 1..Len(rows) :
    /\ rows[i].before = IF i = 1 THEN opening ELSE rows[i - 1].after
    /\ rows[i].result = "V" => rows[i].after = rows[i].before
    /\ rows[i].result = "L" => rows[i].after <= rows[i].before

SettledOnce(rows) == \A i, j \in 1..Len(rows) : rows[i].bet = rows[j].bet => i = j

Init == book = <<>>

\* One batch is appended; nothing that was written before changes.
SettleBatch ==
  /\ Len(book') > Len(book)
  /\ SubSeq(book', 1, Len(book)) = book
  /\ Chained(SubSeq(book', Len(book) + 1, Len(book')), ClosingBalance(book))
  /\ SettledOnce(book')
  /\ \A i \in 1..Len(book') : book'[i].bet \in Bets

Spec == Init /\ [][SettleBatch]_book
=============================================================================

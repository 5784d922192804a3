------------------------ MODULE SettlementResolution ------------------------
(***************************************************************************)
(* The pure half of app/services/settlement.py: how one provider answer     *)
(* becomes an authoritative state, and how a score resolves one bet.        *)
(*                                                                         *)
(* A score is <<home, away>>, each a goal count or Null.  A selection is    *)
(* [market, code, line]; an Over/Under line is in QUARTER goals (line 10 is *)
(* 2.5 goals), so totals are scaled before they are compared.  Stakes are   *)
(* in cents, odds in thousandths; profit and loss is exact in MILS,         *)
(* thousandths of a cent, because amount * (odds - 1) needs five decimals.  *)
(***************************************************************************)
EXTENDS Integers

CONSTANT Null      \* Python's None

ASSUME NullAssumption == Null \notin Int

Terminal == {"FT", "AET", "PEN"}

\* Lifecycles for which an injected provider may be asked for VOID evidence.
VoidEvidenceLifecycles ==
  {"INTERRUPTED", "POSTPONED", "CANCELLED", "ABANDONED", "AWARDED_WALKOVER",
   "UNKNOWN"}

Lifecycles == Terminal \cup VoidEvidenceLifecycles \cup {"NOT_STARTED", "LIVE"}

\* The lifecycle of a raw API-Football short status.
Lifecycle(status) ==
  CASE status \in {"TBD", "NS"}                                 -> "NOT_STARTED"
    [] status \in {"1H", "HT", "2H", "ET", "BT", "P", "LIVE"}   -> "LIVE"
    [] status \in {"SUSP", "INT"}                               -> "INTERRUPTED"
    [] status \in Terminal                                      -> status
    [] status = "PST"                                           -> "POSTPONED"
    [] status = "CANC"                                          -> "CANCELLED"
    [] status = "ABD"                                           -> "ABANDONED"
    [] status \in {"AWD", "WO"}                                 -> "AWARDED_WALKOVER"
    [] OTHER                                                    -> "UNKNOWN"

ScorePair(pair) ==
  IF \E k \in 1..2 : pair[k] = Null \/ (pair[k] # Null /\ pair[k] < 0)
  THEN Null ELSE pair

\* `known` says that the fixture carries an API-Football identity, `answer` is
\* what the provider returned for it: Null, or a record whose `sameId` says
\* that it is about the fixture that was asked for.
AuthoritativeState(known, answer) ==
  IF ~known \/ answer = Null \/ (answer # Null /\ ~answer.sameId)
  THEN [lifecycle |-> "UNKNOWN", score |-> Null]
  ELSE LET lifecycle  == Lifecycle(answer.status)
           regulation == ScorePair(answer.regulation)
           aggregate  == ScorePair(answer.goals)
       IN  [lifecycle |-> lifecycle,
            score     |-> IF lifecycle \notin Terminal THEN Null
                          ELSE IF regulation # Null THEN regulation
                          ELSE IF lifecycle = "FT" THEN aggregate
                          ELSE Null]

CanSettle(state) == state.lifecycle \in Terminal /\ state.score # Null

WinIf(won) == IF won THEN "W" ELSE "L"

Against(total, line, won) ==
  IF won THEN "W" ELSE IF total = line THEN "P" ELSE "L"

\* W, L or P for a selection the resolver supports, Null for one it skips.
Outcome(selection, score) ==
  LET home  == score[1]
      away  == score[2]
      total == 4 * (home + away)
  IN  CASE selection.market = "1X2" /\ selection.code = "home" -> WinIf(home > away)
        [] selection.market = "1X2" /\ selection.code = "draw" -> WinIf(home = away)
        [] selection.market = "1X2" /\ selection.code = "away" -> WinIf(away > home)
        [] /\ selection.market = "OU" /\ selection.code = "over"
           /\ selection.line # Null
              -> Against(total, selection.line, total > selection.line)
        [] /\ selection.market = "OU" /\ selection.code = "under"
           /\ selection.line # Null
              -> Against(total, selection.line, total < selection.line)
        [] selection.market = "BTTS" /\ selection.code = "yes"
              -> WinIf(home > 0 /\ away > 0)
        [] selection.market = "BTTS" /\ selection.code = "no"
              -> WinIf(~(home > 0 /\ away > 0))
        [] OTHER -> Null

\* Fault: a void loses the stake.
ProfitLossVoidLoses(outcome, stake, odds) ==
  CASE outcome = "W"        -> stake * (odds - 1000)
    [] outcome \in {"L", "V"} -> -(stake * 1000)
    [] outcome = "P"        -> 0

\* Exact profit or loss, in mils, of `stake` cents at `odds` thousandths.
ProfitLoss(outcome, stake, odds) ==
  CASE outcome = "W"        -> stake * (odds - 1000)
    [] outcome = "L"        -> -(stake * 1000)
    [] outcome \in {"P", "V"} -> 0

\* What a Numeric(12, 2) column stores of an amount in mils: whole cents, a
\* half rounded away from zero.
Cents(mils) ==
  IF mils >= 0 THEN (mils + 500) \div 1000 ELSE -((500 - mils) \div 1000)

Mils(cents) == 1000 * cents
=============================================================================

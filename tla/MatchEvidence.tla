---------------------------- MODULE MatchEvidence ----------------------------
(***************************************************************************)
(* What an analysis of one fixture rests on: the confirmed line-ups and the *)
(* bookmakers' prices that were captured up to its decision time.  Rows of  *)
(* both are only ever added.  Sessions (the pre-kickoff command, the daily  *)
(* job, the endpoints) sync line-ups or odds, analyse, or do all three in   *)
(* one transaction, at the same time:                                       *)
(*   - a line-up is stamped with the time of the provider's answer, a price *)
(*     with the bookmaker's own last update, and both become visible to     *)
(*     others when the session commits;                                     *)
(*   - an analysis stamps its decision time first and then reads the home   *)
(*     line-up, the away line-up and the prices, each in a statement of its *)
(*     own (READ COMMITTED: each sees what is committed by then);           *)
(*   - a review of the analysis reads the prices twice more, as of then and *)
(*     as of a look-back earlier, to tell the reviewer how the market moved. *)
(* The results of earlier matches are in Backtest.                          *)
(***************************************************************************)
EXTENDS Integers, FiniteSets, Sequences

CONSTANTS
  Sessions,
  Books,               \* bookmakers
  Boards,              \* 1X2 prices a bookmaker can offer: code -> price
  Announcements,       \* line-ups the provider can confirm, for both teams
  MaximumAge,          \* VerifiedMarketQuotePolicy.maximum_age
  PreliminaryAge,      \* preliminary_maximum_age
  MinimumBookmakers,
  Deviation,           \* maximum_relative_deviation, in percent
  Lookback,            \* movement_lookback
  MaxTime,             \* bound: the clock
  MaxMoves             \* bound: changes of the provider's line-ups and prices

Teams  == {"home", "away"}
Codes  == {"home", "draw", "away"}
Stages == {"initial", "final"}    \* "post_lineup" is treated as "final"

\* What a session does, in order: an endpoint, or a session of the daily job,
\* which syncs and analyses in different ones; the pre-kickoff command.
Jobs == {<<"lineups">>, <<"odds">>, <<"analysis">>, <<"lineups", "odds", "analysis">>}

ASSUME EvidenceAssumption ==
  /\ 0 < MaximumAge /\ MaximumAge < PreliminaryAge
  /\ MinimumBookmakers \in Nat \ {0, 1}
  /\ Deviation \in 1..99 /\ Lookback \in Nat \ {0}
  /\ MaxTime \in Nat /\ MaxMoves \in Nat
  /\ Boards # {} /\ \A b \in Boards : DOMAIN b = Codes

VARIABLES
  clock,
  moves,
  published,  \* the provider's confirmed line-ups: a sheet, or none yet
  offered,    \* the board each bookmaker offers, and when he last changed it
  lineups,    \* committed rows [team, captured, sheet]
  prices,     \* committed rows [book, code, captured, price]
  session,    \* each session's program counter, answers and reads
  verdicts    \* committed analyses: decision time, stage, what they read;
              \* history: who was at work when they began (open), and whether
              \* a price of before was committed after they read (late)

evidenceVars == <<clock, moves, published, offered, lineups, prices, session, verdicts>>

None == [captured |-> 0 - 1]     \* no row

Idle == [at |-> "idle", todo |-> <<>>, stage |-> "initial", captured |-> 0,
         sheets |-> {}, boards |-> {}, ownLineups |-> {}, ownPrices |-> {},
         asOf |-> 0, home |-> None, away |-> None, odds |-> {}, status |-> "none",
         told |-> <<>>, open |-> {}, late |-> FALSE]

EvidenceInit ==
  /\ clock = 0 /\ moves = 0
  /\ published \in {{}} \cup {{x} : x \in Announcements}
  /\ offered = [b \in Books |-> [board |-> CHOOSE x \in Boards : TRUE, updated |-> 0]]
  /\ lineups = {} /\ prices = {}
  /\ session = [s \in Sessions |-> Idle]
  /\ verdicts = {}

Running == {s \in Sessions : session[s].at \notin {"idle", "over"}}

Tick ==
  /\ clock < MaxTime /\ clock' = clock + 1
  /\ UNCHANGED <<moves, published, offered, lineups, prices, session, verdicts>>

\* The provider confirms or corrects the line-ups.
Announce ==
  /\ moves < MaxMoves /\ moves' = moves + 1
  /\ \E x \in Announcements : {x} # published /\ published' = {x}
  /\ UNCHANGED <<clock, offered, lineups, prices, session, verdicts>>

MovePrice ==
  /\ moves < MaxMoves /\ moves' = moves + 1
  /\ \E b \in Books, x \in Boards :
       /\ x # offered[b].board
       /\ offered' = [offered EXCEPT ![b] = [board |-> x, updated |-> clock]]
  /\ UNCHANGED <<clock, published, lineups, prices, session, verdicts>>

\* The session begins; its open transaction may be in the way of analyses that
\* begin before it ends.
Open(s) ==
  /\ session[s].at = "idle"
  /\ \E job \in Jobs, g \in Stages :
       /\ "analysis" \notin {job[i] : i \in DOMAIN job} => g = "initial"
       /\ session' = [session EXCEPT ![s] =
            [Idle EXCEPT !.at = Head(job), !.todo = Tail(job), !.stage = g]]
  /\ UNCHANGED <<clock, moves, published, offered, lineups, prices, verdicts>>

Onward(r) == IF r.todo = <<>> THEN [r EXCEPT !.at = "commit"]
            ELSE [r EXCEPT !.at = Head(r.todo), !.todo = Tail(r.todo)]

\* get_fixture_lineups: nothing, or the line-ups of both teams; captured_at is
\* the time of the answer.
AskLineups(s) ==
  /\ session[s].at = "lineups"
  /\ session' = [session EXCEPT ![s] =
       [session[s] EXCEPT !.at = "save lineups", !.sheets = published, !.captured = clock]]
  /\ UNCHANGED <<clock, moves, published, offered, lineups, prices, verdicts>>

\* _prepare_all: rows for both teams.
LineupRows(r) ==
  {[team |-> t, captured |-> r.captured, sheet |-> x] : t \in Teams, x \in r.sheets}

SameLineup(a, b) == a.team = b.team /\ a.captured = b.captured

\* add_if_absent for both, or nothing at all: a player who is not registered
\* in the team refuses the whole batch before the first row, which the
\* pre-kickoff command logs and an endpoint reports as an error.
SaveLineups(s) ==
  LET r   == session[s]
      new == {x \in LineupRows(r) : \A y \in lineups \cup r.ownLineups : ~SameLineup(x, y)}
  IN  /\ r.at = "save lineups"
      /\ \A t \in Sessions \ {s} : \A x \in new, y \in session[t].ownLineups : ~SameLineup(x, y)
      /\ \E rows \in {new, {}} :
           session' = [session EXCEPT ![s] =
             Onward([r EXCEPT !.ownLineups = r.ownLineups \cup rows, !.sheets = {}, !.captured = 0])]
      /\ UNCHANGED <<clock, moves, published, offered, lineups, prices, verdicts>>

\* get_odds_for_fixtures: the bookmakers' boards with their last update; one
\* without a name or an update, which is skipped, is left out.
AskOdds(s) ==
  /\ session[s].at = "odds"
  /\ session' = [session EXCEPT ![s] =
       [session[s] EXCEPT !.at = "save odds",
          !.boards = {[book |-> b, board |-> offered[b].board, captured |-> offered[b].updated] :
                       b \in Books}]]
  /\ UNCHANGED <<clock, moves, published, offered, lineups, prices, verdicts>>

PriceRows(r) ==
  UNION {{[book |-> m.book, code |-> c, captured |-> m.captured, price |-> m.board[c]] :
           c \in Codes} : m \in r.boards}

SamePrice(a, b) == a.book = b.book /\ a.code = b.code /\ a.captured = b.captured

\* add_if_absent for every outcome of a matched event; an event that matches
\* no fixture, or several, is left out.
SaveOdds(s) ==
  LET r   == session[s]
      new == {x \in PriceRows(r) : \A y \in prices \cup r.ownPrices : ~SamePrice(x, y)}
  IN  /\ r.at = "save odds"
      /\ \A t \in Sessions \ {s} : \A x \in new, y \in session[t].ownPrices : ~SamePrice(x, y)
      /\ \E rows \in {new, {}} :
           session' = [session EXCEPT ![s] =
             Onward([r EXCEPT !.ownPrices = r.ownPrices \cup rows, !.boards = {}])]
      /\ UNCHANGED <<clock, moves, published, offered, lineups, prices, verdicts>>
-----------------------------------------------------------------------------
(* What an analysis reads, of a set of visible rows *)

\* get_latest_by_source: the latest confirmed row of the team up to as_of.
LatestLineup(rows, team, asOf) ==
  LET known == {x \in rows : x.team = team /\ x.captured <= asOf}
  IN  IF known = {} THEN None
      ELSE CHOOSE x \in known : \A y \in known : y.captured <= x.captured

\* _latest_by_selection_and_bookmaker of list_by_fixture(as_of).
LatestPrices(rows, asOf) ==
  LET known == {x \in rows : x.captured <= asOf}
  IN  {x \in known : \A y \in known :
         (y.book = x.book /\ y.code = x.code) => y.captured <= x.captured}

\* Twice the median of the prices of a set of rows.
TwiceMedian(rows) ==
  LET n        == Cardinality(rows)
      below(x) == {y \in rows : y.price < x.price}
      upTo(x)  == {y \in rows : y.price <= x.price}
      at(k)    == (CHOOSE x \in rows : Cardinality(below(x)) < k /\ k <= Cardinality(upTo(x))).price
  IN  at((n + 1) \div 2) + at((n + 2) \div 2)

Distance(x, twice) == IF 2 * x.price >= twice THEN 2 * x.price - twice ELSE twice - 2 * x.price

\* _evaluate_latest for one code: the fresh prices near their median, or none
\* where too few bookmakers are left.
Kept(latest, code, asOf, age) ==
  LET fresh  == {x \in latest : x.code = code /\ x.captured >= asOf - age}
      middle == TwiceMedian(fresh)
      near   == {x \in fresh : Distance(x, middle) * 100 <= Deviation * middle}
  IN  IF Cardinality(near) < MinimumBookmakers THEN {} ELSE near

\* verify: the whole market or nothing.
Verify(rows, asOf) ==
  LET latest == LatestPrices(rows, asOf)
      Complete(age) == \A c \in Codes : Kept(latest, c, asOf, age) # {}
  IN  IF latest = {} THEN "not_found"
      ELSE IF Complete(MaximumAge) THEN "verified"
      ELSE IF Complete(PreliminaryAge) THEN "preliminary"
      ELSE IF \A x \in latest : x.captured < asOf - PreliminaryAge THEN "too_stale"
      ELSE "rejected"

\* _build_quote: of the kept prices one nearest to their median, the first in
\* the order of the bookmakers; here all of them.
Quotes(rows, asOf) ==
  IF Verify(rows, asOf) # "verified" THEN {}
  ELSE LET latest == LatestPrices(rows, asOf)
           Nearest(kept) ==
             LET middle == TwiceMedian(kept)
             IN  {x \in kept : \A y \in kept : Distance(x, middle) <= Distance(y, middle)}
       IN  UNION {Nearest(Kept(latest, c, asOf, MaximumAge)) : c \in Codes}

\* The contributing snapshots of the whole verified market, or none.
Market(rows, asOf) ==
  IF Verify(rows, asOf) # "verified" THEN {}
  ELSE LET latest == LatestPrices(rows, asOf)
       IN  UNION {Kept(latest, c, asOf, MaximumAge) : c \in Codes}

\* LineupAdmissionGate.
Admitted(stage, home, away) ==
  stage = "initial" \/ (home # None /\ away # None)
-----------------------------------------------------------------------------
(* The analysis *)

Quiet == UNCHANGED <<clock, moves, published, offered, lineups, prices, verdicts>>

\* analyze_detailed: the decision time is taken first; the first stage asks
\* for no line-ups.
StartAnalysis(s) ==
  LET r == session[s] IN
    /\ r.at = "analysis"
    /\ session' = [session EXCEPT ![s] =
         [r EXCEPT !.at = IF r.stage = "initial" THEN "prices" ELSE "home",
                   !.asOf = clock, !.open = Running \ {s}]]
    /\ Quiet

\* VerifiedLineupService.verify: one statement for each team.
ReadHome(s) ==
  LET r == session[s] IN
    /\ r.at = "home"
    /\ session' = [session EXCEPT ![s] =
         [r EXCEPT !.at = "away",
                   !.home = LatestLineup(lineups \cup r.ownLineups, "home", r.asOf)]]
    /\ Quiet

ReadAway(s) ==
  LET r == session[s] IN
    /\ r.at = "away"
    /\ session' = [session EXCEPT ![s] =
         [r EXCEPT !.at = "prices",
                   !.away = LatestLineup(lineups \cup r.ownLineups, "away", r.asOf)]]
    /\ Quiet

\* build and the rest: which prices enter the model, and the verdict.  Only an
\* analysis with prices may be reviewed: its caller decides.  A fixture without
\* form or league data, of which no prices are read, is left out.
ReadPrices(s) ==
  LET r       == session[s]
      visible == prices \cup r.ownPrices
  IN  /\ r.at = "prices"
      /\ \E next \in {"commit"} \cup (IF Quotes(visible, r.asOf) = {} THEN {}
                                        ELSE {"opening"}) :
           session' = [session EXCEPT ![s] =
             [r EXCEPT !.at = next, !.odds = Quotes(visible, r.asOf),
                       !.status = Verify(visible, r.asOf)]]
      /\ Quiet

\* Fault: the movement is read up to now.
TellMovementUpToNow(s) ==
  LET r    == session[s]
      asOf == IF r.at = "opening" THEN r.asOf - Lookback ELSE clock
  IN  /\ r.at \in {"opening", "current"}
      /\ session' = [session EXCEPT ![s] =
           [r EXCEPT !.at = IF r.at = "opening" THEN "current" ELSE "commit",
                     !.told = Append(r.told, Market(prices \cup r.ownPrices, asOf))]]
      /\ Quiet

\* review_detailed, compare: the market is verified as of the look-back, then
\* again as of the decision time; of a reading without a verified market the
\* reviewer is told the issues, and no movement.
TellMovement(s) ==
  LET r    == session[s]
      asOf == IF r.at = "opening" THEN r.asOf - Lookback ELSE r.asOf
  IN  /\ r.at \in {"opening", "current"}
      /\ session' = [session EXCEPT ![s] =
           [r EXCEPT !.at = IF r.at = "opening" THEN "current" ELSE "commit",
                     !.told = Append(r.told, Market(prices \cup r.ownPrices, asOf))]]
      /\ Quiet

\* The verdict as it is logged with its analysis_as_of.
Verdict(s) ==
  LET r == session[s] IN
    [asOf |-> r.asOf, stage |-> r.stage, home |-> r.home, away |-> r.away,
     odds |-> r.odds, status |-> r.status, told |-> r.told,
     admitted |-> Admitted(r.stage, r.home, r.away), open |-> r.open, late |-> r.late]

\* Rows become visible, and the verdict with them.
Commit(s) ==
  LET r == session[s]
      Late(x) == \E y \in r.ownPrices : y.captured <= x.asOf
  IN  /\ r.at = "commit"
      /\ lineups' = lineups \cup r.ownLineups
      /\ prices' = prices \cup r.ownPrices
      /\ verdicts' = {[v EXCEPT !.late = v.late \/ Late(v)] : v \in verdicts}
                        \cup (IF r.status = "none" THEN {} ELSE {Verdict(s)})
      /\ session' = [t \in Sessions |->
           IF t = s THEN [Idle EXCEPT !.at = "over"]
           ELSE IF session[t].status = "none" THEN session[t]
           ELSE [session[t] EXCEPT !.late = session[t].late \/ Late(session[t])]]
      /\ UNCHANGED <<clock, moves, published, offered>>

\* An exception, a failed statement or a kill: nothing was written.
RollBack(s) ==
  /\ s \in Running
  /\ session' = [session EXCEPT ![s] = [Idle EXCEPT !.at = "over"]]
  /\ Quiet

EvidenceNext ==
  \/ Tick \/ Announce \/ MovePrice
  \/ \E s \in Sessions :
       \/ Open(s) \/ AskLineups(s) \/ SaveLineups(s) \/ AskOdds(s) \/ SaveOdds(s)
       \/ StartAnalysis(s) \/ ReadHome(s) \/ ReadAway(s) \/ ReadPrices(s)
       \/ TellMovement(s) \/ Commit(s) \/ RollBack(s)

EvidenceSpec == EvidenceInit /\ [][EvidenceNext]_evidenceVars
-----------------------------------------------------------------------------
(* Properties *)

LineupRow == [team : Teams, captured : 0..MaxTime, sheet : Announcements]
PriceRow  == [book : Books, code : Codes, captured : 0..MaxTime,
              price : UNION {{b[c] : c \in Codes} : b \in Boards}]
Verdicts  == [asOf : 0..MaxTime, stage : Stages,
              home : LineupRow \cup {None}, away : LineupRow \cup {None},
              odds : SUBSET PriceRow,
              status : {"not_found", "verified", "preliminary", "too_stale", "rejected"},
              told : Seq(SUBSET PriceRow), admitted : BOOLEAN,
              open : SUBSET Sessions, late : BOOLEAN]
Records ==
  [at : {"idle", "lineups", "save lineups", "odds", "save odds", "analysis", "home", "away",
         "prices", "opening", "current", "commit", "over"},
   todo : Seq({"lineups", "odds", "analysis"}), stage : Stages,
   captured : 0..MaxTime, sheets : SUBSET Announcements,
   boards : SUBSET [book : Books, board : Boards, captured : 0..MaxTime],
   ownLineups : SUBSET LineupRow, ownPrices : SUBSET PriceRow,
   asOf : 0..MaxTime, home : LineupRow \cup {None}, away : LineupRow \cup {None},
   odds : SUBSET PriceRow,
   status : {"none", "not_found", "verified", "preliminary", "too_stale", "rejected"},
   told : Seq(SUBSET PriceRow), open : SUBSET Sessions, late : BOOLEAN]

\* Types of the variables.
EvidenceTypeOK ==
  /\ clock \in 0..MaxTime /\ moves \in 0..MaxMoves
  /\ published \subseteq Announcements
  /\ offered \in [Books -> [board : Boards, updated : 0..MaxTime]]
  /\ lineups \subseteq LineupRow /\ prices \subseteq PriceRow
  /\ session \in [Sessions -> Records]
  /\ verdicts \subseteq Verdicts

\* No two rows have one key, whoever wrote them, committed or not yet; nothing
\* is left of a session that is over.
RowsHaveKeys ==
  /\ \A x, y \in lineups : SameLineup(x, y) => x = y
  /\ \A x, y \in prices : SamePrice(x, y) => x = y
  /\ \A s \in Sessions :
       /\ \A x \in session[s].ownLineups :
            /\ \A y \in session[s].ownLineups : SameLineup(x, y) => x = y
            /\ \A y \in lineups : ~SameLineup(x, y)
            /\ \A t \in Sessions \ {s} : \A y \in session[t].ownLineups : ~SameLineup(x, y)
       /\ \A x \in session[s].ownPrices :
            /\ \A y \in session[s].ownPrices : SamePrice(x, y) => x = y
            /\ \A y \in prices : ~SamePrice(x, y)
            /\ \A t \in Sessions \ {s} : \A y \in session[t].ownPrices : ~SamePrice(x, y)
       /\ s \notin Running => session[s] \in {Idle, [Idle EXCEPT !.at = "over"]}

\* An analysis can be repeated for its decision time: whatever is captured,
\* corrected or moved later, the line-ups are of one answer of the provider
\* and still the ones it would find, and so are the prices, and so is the
\* market the reviewer was told of, which has every analysed price.  The
\* line-ups can be others only if some session was at work when the analysis
\* began (its rows were captured before and committed after) or was answered in
\* the same instant, the prices and the market only if a session committed a
\* bookmaker's earlier update after the prices were read.
VerdictsStand ==
  \A v \in verdicts :
    /\ v.stage # "initial" =>
         \/ v.open # {} \/ \E x \in lineups : x.captured = v.asOf
         \/ /\ v.home.captured = v.away.captured
            /\ v.home = LatestLineup(lineups, "home", v.asOf)
            /\ v.away = LatestLineup(lineups, "away", v.asOf)
    /\ \/ v.late
       \/ /\ v.odds = Quotes(prices, v.asOf) /\ v.status = Verify(prices, v.asOf)
          /\ v.told # <<>> =>
               /\ v.told = <<Market(prices, v.asOf - Lookback), Market(prices, v.asOf)>>
               /\ v.odds \subseteq v.told[2]
=============================================================================

---------------------------- MODULE MCSettlement ----------------------------
(***************************************************************************)
(* Small instances of Settlement.  Two runs, bets whose winnings do not      *)
(* come out in whole cents, and a provider that answers final (with and     *)
(* without a regulation score), live, cancelled, nothing at all, or raises. *)
(***************************************************************************)
EXTENDS Settlement, TLC

CONSTANTS b1, b2, b3, f1, f2

Symmetric == Permutations(Workers)

\* Two bets of two fixtures ...
TwoFixtures == b1 :> f1 @@ b2 :> f2

\* ... or three bets of one.
OneFixture == b1 :> f1 @@ b2 :> f1 @@ b3 :> f1

Selections(b) ==
  CASE b = b1 -> [market |-> "1X2", code |-> "home", line |-> Null]
    [] b = b2 -> [market |-> "OU", code |-> "over", line |-> 10]
    [] OTHER  -> [market |-> "BTTS", code |-> "no", line |-> Null]

\* 12.50 at 1.333 and 3.35 at 1.910: neither wins a whole number of cents.
\* The third bet was logged without a stake.
Stakes(b) == CASE b = b1 -> 1250 [] b = b2 -> 335 [] OTHER -> Null

Odds(b) == CASE b = b1 -> 1333 [] b = b2 -> 1910 [] OTHER -> 2000

SelectionsOfBets == [b \in Bets |-> Selections(b)]
StakesOfBets == [b \in Bets |-> Stakes(b)]
OddsOfBets == [b \in Bets |-> Odds(b)]

FixtureAnswer(status, regulation, goals) ==
  [sameId |-> TRUE, status |-> status, regulation |-> regulation, goals |-> goals]

NoScore == <<Null, Null>>

FullTime        == FixtureAnswer("FT", <<2, 1>>, <<2, 1>>)
GoallessByGoals == FixtureAnswer("FT", NoScore, <<0, 0>>)
AfterExtraTime  == FixtureAnswer("AET", <<1, 1>>, <<2, 1>>)
Cancelled       == FixtureAnswer("CANC", NoScore, NoScore)
Live            == FixtureAnswer("2H", NoScore, <<1, 0>>)

FinalCancelledOrDown == {FullTime, Cancelled, ServiceError}
FinalOrDown      == {FullTime, ServiceError}
ManyAnswers      == {FullTime, GoallessByGoals, AfterExtraTime, Live, Null}
=============================================================================

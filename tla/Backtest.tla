------------------------------ MODULE Backtest ------------------------------
(***************************************************************************)
(* BacktestService.run over BacktestInputBuilder: finished fixtures are     *)
(* replayed in kickoff order, each as of just before its own kickoff.  The  *)
(* form of both teams and the league baseline are taken from the finished   *)
(* fixtures that kicked off before, one still being played then included,   *)
(* with its final score; a fixture that cannot be modelled is skipped and   *)
(* counted; the rest are outcomes, with a bet where a selection is          *)
(* recommended.  Nothing is written.                                        *)
(* Of the model only what decides the control flow is here: the expected    *)
(* goals are products of goals scored and conceded per match, so one is     *)
(* zero exactly where one of its two sums is.                               *)
(***************************************************************************)
EXTENDS Integers, FiniteSets, FiniteSetsExt

CONSTANTS
  Fixtures,     \* finished fixtures of one competition
  Sides,        \* [home, away] of each fixture
  Goals,        \* goals a team can score in a match
  Length,       \* how long a match lasts
  FormWindow,   \* form_window
  LastKickoff,  \* bound: kickoffs
  NoScore

ASSUME BacktestAssumption ==
  /\ Length \in Nat \ {0} /\ FormWindow \in Nat \ {0} /\ LastKickoff \in Nat
  /\ Goals \subseteq Nat /\ IsFiniteSet(Fixtures)
  /\ \A f \in Fixtures : Sides[f].home # Sides[f].away

VARIABLES
  kickoff,   \* kickoff time of each fixture
  score,     \* [home, away], or NoScore in a row without one
  at,        \* "running", "reported" or "aborted"
  todo,      \* fixtures not yet replayed
  skipped,   \* how many were skipped
  outcomes   \* fixture, with whether a bet was recommended

backtestVars == <<kickoff, score, at, todo, skipped, outcomes>>

\* The rows of the competition as the database has them when the backtest runs.
BacktestInit ==
  /\ kickoff \in [Fixtures -> 0..LastKickoff]
  /\ score \in [Fixtures -> [home : Goals, away : Goals] \cup {NoScore}]
  /\ \A f, g \in Fixtures :   \* a team plays one match at a time
       f # g /\ {Sides[f].home, Sides[f].away} \cap {Sides[g].home, Sides[g].away} # {}
         => kickoff[f] + Length <= kickoff[g] \/ kickoff[g] + Length <= kickoff[f]
  /\ at = "running"
  /\ todo = Fixtures
  /\ skipped = 0
  /\ outcomes = {}

Has(f, team) == team \in {Sides[f].home, Sides[f].away}

\* list_finished_by_team: the latest FormWindow of the fixtures that kicked
\* off before the moment, without the fixture itself; with equal kickoffs any.
\* _team_stats leaves out rows without a score.
Recent(f, team) ==
  LET before == {g \in Fixtures \ {f} : Has(g, team) /\ kickoff[g] < kickoff[f]}
      rank(g) == Cardinality({h \in before : kickoff[h] > kickoff[g]})
  IN  {g \in before : rank(g) < FormWindow /\ score[g] # NoScore}

\* list_finished_by_competition, for _league_averages.
League(f) == {g \in Fixtures : kickoff[g] < kickoff[f] /\ score[g] # NoScore}

Scored(team, fs) ==
  MapThenSumSet(LAMBDA g : IF Sides[g].home = team THEN score[g].home ELSE score[g].away, fs)

Conceded(team, fs) ==
  MapThenSumSet(LAMBDA g : IF Sides[g].home = team THEN score[g].away ELSE score[g].home, fs)

\* build returns None: no form of a team, or no goals in the league so far.
Unknown(f) ==
  \/ Recent(f, Sides[f].home) = {} \/ Recent(f, Sides[f].away) = {}
  \/ MapThenSumSet(LAMBDA g : score[g].home + score[g].away, League(f)) = 0

\* estimate: a raw lambda of zero, marked INSUFFICIENT_DATA: no probabilities.
Degenerate(f) ==
  LET home == Recent(f, Sides[f].home)
      away == Recent(f, Sides[f].away)
  IN  \/ Scored(Sides[f].home, home) = 0 \/ Conceded(Sides[f].away, away) = 0
      \/ Scored(Sides[f].away, away) = 0 \/ Conceded(Sides[f].home, home) = 0

Turn(f) == at = "running" /\ f \in todo /\ \A g \in todo : kickoff[f] <= kickoff[g]

\* Fault: a fixture without form is left out of the statistics.
SkipUncounted(f) ==
  /\ Turn(f) /\ (score[f] = NoScore \/ Unknown(f))
  /\ todo' = todo \ {f}
  /\ UNCHANGED <<kickoff, score, at, skipped, outcomes>>

SkipFixture(f) ==
  /\ Turn(f) /\ (score[f] = NoScore \/ Unknown(f))
  /\ skipped' = skipped + 1
  /\ todo' = todo \ {f}
  /\ UNCHANGED <<kickoff, score, at, outcomes>>

\* probs is empty and max(probs) raises a ValueError that nothing catches.
AbortAt(f) ==
  /\ Turn(f) /\ score[f] # NoScore /\ ~Unknown(f) /\ Degenerate(f)
  /\ at' = "aborted"
  /\ UNCHANGED <<kickoff, score, todo, skipped, outcomes>>

\* The most probable result is compared with the score; a recommended
\* selection with the highest expected value is the bet.
Evaluate(f) ==
  /\ Turn(f) /\ score[f] # NoScore /\ ~Unknown(f) /\ ~Degenerate(f)
  /\ \E bet \in BOOLEAN :
       outcomes' = outcomes \cup {[fixture |-> f, bet |-> bet]}
  /\ todo' = todo \ {f}
  /\ UNCHANGED <<kickoff, score, at, skipped>>

\* compute_stats.
Report ==
  /\ at = "running" /\ todo = {}
  /\ at' = "reported"
  /\ UNCHANGED <<kickoff, score, todo, skipped, outcomes>>

BacktestNext ==
  Report \/ \E f \in Fixtures : SkipFixture(f) \/ AbortAt(f) \/ Evaluate(f)

BacktestSpec == BacktestInit /\ [][BacktestNext]_backtestVars
-----------------------------------------------------------------------------
(* Properties *)

\* Types of the variables; every fixture is in the statistics once.
BacktestTypeOK ==
  /\ at \in {"running", "reported", "aborted"}
  /\ todo \subseteq Fixtures
  /\ \A o \in outcomes : o.fixture \in Fixtures \ todo
  /\ skipped + Cardinality(outcomes) + Cardinality(todo) = Cardinality(Fixtures)

\* What run says of the history it cannot model (a lambda of zero): the
\* fixture is skipped and counted, and the backtest goes on.
DegenerateIsSkipped == at # "aborted"
=============================================================================

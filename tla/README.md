# A formal model of football-agent

TLA+ modules of the parts of football-agent whose correctness depends on the
order in which things happen, TLC configurations that check them on small
instances, and TLAPS proofs of the results that matter most for every size.

football-agent is a betting-analysis backend in Python: scheduled commands (and
a FastAPI application) pull fixtures and odds from rate-limited services, run
probability models over them, let a language model review the best picks of the
day, store predictions, value bets and decisions in PostgreSQL, and settle the
bets once their fixtures are over. Nothing in it is distributed in the textbook
sense; what makes it hard is that several operating-system processes and several
coroutines do these things at the same time, that only some of them take a
common lock, that part of the state is in JSON files beside the database, and
that every external call can fail, take minutes, or be cut off by the task
scheduler.

Paths below are relative to `src/`.

## 1. Inventory

### The processes and how they meet

| process | started by | lock it takes | what it shares |
|---|---|---|---|
| `daily_job` | task, 08:00 | `daily_job` | database, heartbeat and timeline files |
| `production_recovery` | task, 10:30 | its own | reruns the whole daily pipeline |
| `pre_kickoff` | task, every 30 min | `pre_kickoff` | database, `pre_kickoff_triggers.json` |
| `settlement` | task, 23:15 | `settlement`, then `pre_kickoff` | database |
| reports, monitors, dashboard | tasks | their own | files they write |
| `DailyWorker` | by hand, an alternative to the tasks | none | database |
| HTTP API | always on | none | database; one limiter for all requests |

(`scripts/register_scheduled_tasks.ps1`, `app/workers/`, `app/api/`.) They meet
in three places: the PostgreSQL tables, each session one READ COMMITTED
transaction (`app/database/session.py`); the lock and state files of the runner;
and the quota of the external accounts, which each process counts for itself.

### Components

**Settlement** (`app/services/settlement.py`, `app/repositories/sqlalchemy/settlement_repository.py`).
State: `settlements` (unique per bet) and `bankroll_entries` (numbered,
append-only, each row with the running balance). Operation: `settle_all`: list
the unsettled bets, ask the provider about each fixture, optionally gather VOID
evidence, take a transaction-level advisory lock, list again, and add a
settlement and a bankroll row per bet. Hard: everything read before the lock may
be stale under it; rows are rounded to cents; a raise half way must lose all.
Correct when every bet is settled once, with its entry, and the balances form
one chain.

**Runner locks** (`app/workers/scheduler_runner.py`, `acquire_lock`,
`release_lock`). State: one file per lock, with a pid and a time. Hard: creating,
writing, judging and removing the file are separate steps, a release removes the
path whoever owns it, commands get killed, Windows and POSIX differ. Correct
when a lock has one holder and no dead file stays.

**Heartbeat and recovery** (same file, `main`, `_load_heartbeat`,
`_run_production_recovery`). State: `heartbeat.json`, one record per command.
Hard: read-modify-write without a lock, truncated while written, and a decision
taken on the last record of whatever day. Correct when a failed day is retried,
once, and success is recorded only of days that did succeed.

**Daily top picks, committee review, prediction logger**
(`app/services/daily_top_picks.py`, `committee_review.py`,
`prediction_logger.py`, the identity modules). State: `predictions`,
`value_bets`, `decision_logs`. Operations: analyse the slate, log predictions
under deterministic identities, rank, pass the cost guard, call the language
model, store bets and decision. Hard: the guard reads before a slow call and
writes after it; inserts wait for other transactions' keys; failures are
swallowed in a transaction that PostgreSQL has aborted. Correct when no fixture
is paid for twice, no bet lacks its explanation and reports are true.

**Pre-kickoff checkpoints** (`_run_pre_kickoff`,
`app/services/pre_kickoff_checkpoint_resolver.py`). State: the file of completed
checkpoints T90/T60/T30 and the same tables. Hard: the clock runs while fixtures
are worked on, kickoffs move, the file and the database are two stores without
one commit. Correct when a checkpoint is decided in its window, once, in order.

**API-Football limiter** (`app/providers/api_football_rate_limit.py`, `base.py`,
`api_football_http.py`). State: sliding window, day and run counters, the
server's headers, the streak of rate limits and the open circuit. Operation: one
call with its admission, waits and retries under one FIFO lock. Hard: midnight
inside a sleep or a request, retries count as requests, headers that contradict
the budgets. Correct when no budget is exceeded, pauses are kept and every call
ends.

**Fixture and squad ingestion** (`app/services/ingestion.py`,
`player_squad_ingestion.py`, `fixture_squad_ingestion.py`, the reference
repositories). State: competitions, teams, fixtures, players, each row with a
unique external id. Operations: a sync looks every row of the provider's answer
up, adds it, or assigns the columns that may change, in one transaction. Hard:
two syncs add the same row or lock the same rows in opposite orders; the
provider's answer is older than what another sync has committed; the ORM writes
only the columns that looked different. Correct when every sync ends and no
answer overwrites a fresher one, as far as the code promises it.

**Match evidence** (`app/services/odds_ingestion.py`,
`fixture_lineup_ingestion.py`, `verified_lineup.py`, `verified_market_quote.py`,
`lineup_admission_gate.py`, `fixture_analysis.py`). State: line-up and odds rows,
only ever added, each with the time it was captured. Operations: sync line-ups,
sync odds, analyse as of a decision time. Hard: what an analysis may use is
decided by capture times, what it sees by commits, and the two orders differ.
Correct when an analysis can be repeated for its decision time.

**Backfill** (`app/services/backfill.py`). State: a checkpoint file written in
place. Operation: sync the units of a plan (days, or league and season pairs)
one by one, each committed before the file is written. Hard: kills between and
inside the two writes, two runs of different plans over one file. Correct when a
checkpoint never claims a unit that was not committed.

**Team intelligence** (`app/team_intelligence/http.py`, `storage.py`,
`scripts/team_intelligence_canary.py`, `scripts/team_intelligence_replay.py`).
State: a cache of two files per URL, a budget and a
circuit per process; an archive of payloads and receipts; a store of
observations. Operations: fetch politely; a canary run archives what it fetched
and stores what it parsed; a replay derives the same again. Hard: files are
created and then filled, an existing file counts as finished, a page is archived
before anybody knows whether it parses, the content changes between runs, and the
replay has one identity resolver for what each run parsed with its own. Correct
when what is returned was served, hosts are spared, the archive replays to what the
store says, and what a replay cannot do or leaves out has one of the known reasons.

**Backtest** (`app/services/backtest.py`). Replays finished matches in kickoff
order as of just before each. Hard: matches that kick off together, matches in
play, teams without history or without goals. Correct when what cannot be modelled
is skipped and counted, and the backtest gets to its report.

**Inactive code.** `build_odds_provider` wires the API-Football adapter alone
("paid providers stay inactive"), so the prioritized provider, the paid adapters
and the token bucket only they would use (`app/utils/rate_limiter.py`) run in
tests only; so do the verified statistics, team form, league baseline and data
quality services, which nothing in production constructs.

**Gates, selection, probability models, agents and prompts, reports, dashboard,
HTTP endpoints, configuration, schema**: pure decisions, numerics, reads, or
external calls. `PROJECT.json` lists each with its status and reason, and the
forty hazards of the code at their lines.

## 2. Modules

| module | models | composed with |
|---|---|---|
| `SettlementResolution` | the pure part of settlement: states, outcomes, profit, rounding | used by `Settlement` |
| `Settlement` | concurrent runs of `settle_all` over the two tables and the advisory lock | implements `Ledger` |
| `Ledger` | abstract: an append-only book that grows by whole batches of chained rows | - |
| `RunnerLock` | the lock files, step by step | checked by `MCRunner` |
| `RunnerHeartbeat` | `heartbeat.json` and the decisions of recovery | checked by `MCRunner` |
| `DecisionStore` | the transactions on predictions, value bets and decision logs | used by the next two |
| `DailyPicks` | concurrent runs of the daily pipeline for one date | over `DecisionStore` |
| `PreKickoff` | `_run_pre_kickoff` again and again while time passes | over `DecisionStore` |
| `ApiFootballRequests` | the limiter, the HTTP base class and the retry loop | - |
| `ReferenceSync` | concurrent syncs of fixtures, teams and squads, with row locks | checked by `MCDatabase` |
| `Backfill` | both backfills and their checkpoint file | checked by `MCDatabase` |
| `MatchEvidence` | line-ups and prices, from the provider's answer to an analysis | checked by `MCEvidence` |
| `EvidenceFetch` | the polite client with its cache, budget and circuit | checked by `MCEvidence` |
| `EvidenceArchive` | canary and replay over one archive and one store | checked by `MCEvidence` |
| `Backtest` | the replay of finished matches | checked by `MCEvidence` |
| `SettlementProofs`, `SettlementRefinement`, `RunnerProofs`, `DailyPicksProofs`, `PreKickoffProofs`, `ApiFootballProofs`, `DatabaseProofs`, `EvidenceProofs` | the theorems | extend the modules they are about, three of them through an MC module (section 5) |
| `MC*` | constants for TLC | extend their modules |

`MCRunner`, `MCDatabase` and `MCEvidence` each put components side by side that
share no variable. A variable `program`, chosen at the start, says which of them
a behaviour is about; the others stay in their initial states. Such a run asks the
same of each component as a run of its own would. The modules have action names
of their own (`Trigger`, `KillClient`, `StartBackfill`) so that they can be
extended together.

Conventions: actions have the names of the code's methods where there is one; an
operator that carries a comment beginning "Fault:" is no part of `Next`. It is
what a plausible mistake at that place would look like, kept beside the
definition it spoils so that one can see which property would notice.

### Settlement

`pc[w]` follows `settle_all`: `ListUnsettled` (the candidates, line 164),
`Refresh` once per distinct fixture (200), `GatherEvidence`,
`LockAndGetLatestBalance` (234: `pg_advisory_xact_lock`, then the last balance),
`RelistUnsettled`, `SkipBet` or `AddSettlement` (flushed) followed by
`AddBankrollEntry`, `Commit`. `RunIsLost` is an exception or a crash at any of
them. `PlaceBet` and `FeedMoves` are the world: bets appear and the provider
changes its answers at any moment. A run's flushed rows are its `view`, which is
what its own reads see and what `Commit` publishes. Money is in cents, odds in
thousandths; `Cents` rounds a half away from zero as the columns do, so the rounding of stored
balances against the exact running balance is in the model. Bets whose fixture row is missing and the
report are left out.

### RunnerLock

A lock file is `[owner, written, aged]`. `Create` is
`os.open(O_CREAT|O_EXCL)`, `WriteOwner` writes the pid, `FindExisting`,
`Inspect` and `Break` are a loser's read, judgement and `os.remove`, `Release`
removes by path. `Remove` has both file semantics (`RemovesOpen`). `Start` to
`Exit` is one command with its one or two locks; a command refused its second
lock gives back its first. `Crash` leaves the files, with an owner that is no
longer alive; `Age` is time passing.

### RunnerHeartbeat

A slot is one trigger of one command and runs at most once a day. `LoadHeartbeat`,
`TruncateHeartbeat`, `FillHeartbeat` are the three steps of `main`'s
read-modify-write; `RecoveryDecides` is the decision matrix of
`_run_production_recovery` and counts the reruns it decides on. `SkipLocked` is
what the code does with a refused lock: it records *success*. Consequences that are in the model
and easy to overlook: a recovery that was refused its lock writes
today's record, so that a second recovery of the day skips; an early recovery
that skips blocks a later one; a second daily job that finds the lock taken
records a success of the day whatever becomes of the first. `Interrupted` is the
other way to a success nobody earned: `main` catches `Exception` only, so Ctrl-C or
any other `BaseException` goes through `finally` with the initial status. Only the
slots in `Interruptible`, those started by hand, meet it; the task scheduler kills
(`Killed`) and nothing is written. The history `unearned` remembers the days on which
a daily run was refused its lock or interrupted, `blurred` every day on which
something interfered.

### DecisionStore, DailyPicks, PreKickoff

`DecisionStore` has the rules the two pipelines rely on: a statement sees
committed and own rows; `ON CONFLICT DO NOTHING` waits for an uncommitted equal
key; a failing statement aborts the transaction, later ones raise, a commit is
then a rollback. An analysis is abstracted to the *version* of the inputs it
read; identities (uuid5 of fixture, context and inputs) become
`<<fixture, version>>`.

`DailyPicks` walks `run()`: `Analyze` and `LogPrediction` per fixture, `Rank`
(EV, then kickoff, cut to `MaxPicks`: `top` is the set of the picks still to be dealt
with, and the next one is its best), then per pick `Skip` (the cost guard),
`CallModel`, `ModelAnswers`, `SaveValueBets`, `SaveDecisionLog`, then `Finish`;
`LogFails` is a swallowed failure, `Lose` an exception that leaves `run()`,
`Crash` a kill, `RefreshInputs` an odds or form update committed by somebody.

`PreKickoff` has `Begin` (fixtures of the next 100 minutes, the file), `Find` and
`Refresh` per fixture, `Revalidate` and `FetchOdds` once for all that are due,
then per due fixture `Log`, `Review` or `NoReview`, `Complete` or `GiveUp`
(`analysis` is the fixture at hand with the version of its inputs), and `Finish`
(commit). `Tick` may happen between any two.
`CrashSaving` is a kill between truncating and writing the file.

What the two show about the code, besides the findings: runs on equal inputs
serialise on the prediction row's uncommitted key, so a double review needs
changed inputs, a log that failed, or a lost run; a language-model failure on the
second pick rolls back the paid review of the first; when the last log call of a
run fails in SQL and there is no pick, the run reports predictions that were
rolled back.

### ApiFootballRequests

The serial lock is a queue and the call at its head is the only one that moves:
`Look`+`Refuse`/`Wait`/`Send` is `acquire`, `Succeed`, `Limit`, `Unavailable`,
`Reject`, `LoseAnswer` are the ways an attempt ends (headers observed, streak and
circuit updated, retried or not). Every instant is kept as an age or as time
left, so time and days are unbounded and the state space is finite. `Popped` is how
many requests the `popleft` loop takes off the left of the window, `Young` what it
leaves. The history
variables `sent`, `sentToday`, `leftToday`, `pauseIn` are what the server would
count; the properties compare them with what the limiter believes. In the model
as in the code: a spent minute known only from the local countdown is forgotten,
a limit header of 0 refuses every later call, the run budget is never reset in a
process that stays up, the streak survives the cool-down, and all budgets are
local to a process.

### ReferenceSync

A sync is a session with its list of rows still to handle (`StartFixtureSync`:
the competition, the teams and the fixture of each entry; `AskSquad` and
`StartSquadSync`: the squads of a fixture's two teams). `ReadRow` is the lookup,
`AddRow` the flushed insert, `UpdateRow` the assignment of the columns that
differ from what was *just* read; both wait for a row another open sync has
(`Blocked`). `AddFails` is the unique constraint, `Refuse` the exception the
repository raises when an external id comes back with other teams,
`BreakDeadlock` PostgreSQL ending a circle of waits, `Die` a kill; each rolls the
whole batch back. `ProviderMoves` changes what the provider says, `told` is the
version of a row a sync was given, and the histories `applied` and `met` remember
which sync committed which version of a row, and which syncs were open at the same
time. A row is two columns; `Untold` is the version of a row the sync has no answer
for, `NoRow` a row that is not there.

### Backfill

`StartBackfill` reads the checkpoint (`Claimed`: a dated checkpoint covers the days up
to its own, a grid checkpoint its pairs, either only for the same plan) and
leaves the claimed units out: they start in the run's set `done`, and `Current` is
the first unit of the plan outside of it. `SyncUnit` is the committed sync of that
unit; `TruncateCheckpoint` and `FillCheckpoint` are the two halves of
`write_text`; `InterruptBackfill` is an exception or a kill at any point. Two
runs of any plans share the file.

### MatchEvidence

A session does one of `Jobs`: sync line-ups, sync odds, analyse, or all three in
one transaction as the pre-kickoff command does. `AskLineups`/`SaveLineups` and
`AskOdds`/`SaveOdds` separate the provider's answer, which carries the capture
time, from the rows, which others see only after `Commit`. `StartAnalysis` takes
the decision time; `ReadHome`, `ReadAway` and `ReadPrices` are statements of
their own. An analysis with verified prices may be reviewed: `TellMovement` reads
the market twice more, as of `Lookback` before the decision time and as of it. `Verify`, `Kept` and `Quotes` are the market policy: latest row per bookmaker
and outcome, age, median, deviation, minimum of bookmakers, the whole market or
nothing; `Admitted` is the line-up gate. That an event may match no fixture or
several, or that a player is not registered, is the choice of no rows in the two
saves.

### EvidenceFetch and EvidenceArchive

`EvidenceFetch` is `CompliantHttpClient.fetch` for one URL: `HitCache` or
`BeginFetch`, `SendRequest` until `Success`, `ClientError`, `ServerError`,
`TransportFails`, `BudgetSpent` or the open circuit end it, then `WriteBody` and
`WriteMetadata`. `KillClient` may leave a torn file or a new body beside old
metadata. `EvidenceArchive` runs a canary (`StartCanary`, `GetPage`,
`GetEndpoint`, `ArchivePayload`, `PageReceipt`, `EndpointReceipt`, `CanaryAppend`,
`WriteSummary`) and the replay of what the receipts name (`StartReplay`,
`ReplayAppend`, `EndReplay`) over one directory; every file is `Absent`, `Half`
or `Whole`, and the kills (`KillCanary`, `KillReplay`) leave halves. Receipts of
one day and content are one file here, torn if one of them is.

What parsing makes of a payload is given by constants. A page of fixtures lists the
target (`Listed`), perhaps among the next ones of its league (`Upcoming`, the only
pages a canary goes on from to the endpoints); it may have an item that makes the
parser raise (`Broken`) or an item that is no object (`Loose`): the canary skips
the latter, and `PageReceipt` has archived the page before it looks at either. The
replay parses every archived page unfiltered, so both spoil the archive for good
(`Replayable`). The identity resolver is one per canary run, but one for all payloads
of a replay. It refuses a known id under another name: between pages (`Clashing`,
`Clash`), which ends the replay, and between the sheets of a player (`Naming`):
the name met first stays (`FirstNames`) and a sheet under another one is left out
of a replay that ends well (`Derived`). `named` says whether the summary names the
target.

### Backtest

Every small season is an initial state: kickoffs, sides and scores. `Recent` and
`League` are what the input builder may read at a fixture's decision time; `Unknown` and
`Degenerate` are the two ways a match cannot be modelled; `SkipFixture`,
`Evaluate` and `AbortAt` are the three ways a turn ends, `Report` the end.

## 3. Runs

All runs use definitions of the modules as they are; the configurations only give
constants. Deadlock is checked everywhere except in `evidence` and
`backtest_aborts`, whose components come to their end within the bounds (a
backtest has no next step after its report). `DailyPicks` and `PreKickoff` stutter
explicitly (`Over`) in the one state where they are finished, `MCRunner` and
`MCDatabase` where the days, the syncs or the backfills have run out.

| run | instance | shows |
|---|---|---|
| `settlement` | 2 symmetric runs, 2 bets of 2 fixtures, full time/cancelled/service error, all VOID evidence, 1 lost run | inductive invariant, one settlement and one entry per bet, an audited chain of balances, no unique conflict, refinement of `Ledger` |
| `settlement_down` | 1 run | *finding*: an error on one fixture blocks the other's bet |
| `runner` | lock: 3 processes, 2 locks, POSIX, 2 kills, fair; heartbeat: 2 days, 1 kill, the daily job with two recoveries a day or with a second daily job by hand, which may be interrupted | one holder until a live file is removed, idle processes own nothing, dead locks get broken; recorded success is real unless a daily run was refused or interrupted; a failed day is retried, once, on days without interference |
| `runner_lock_overlap` | 2 processes, Windows, no kill | *finding*: two holders |
| `heartbeat_killed` | daily job, recovery, 2 days, 1 kill | *finding*: the day is skipped |
| `daily_picks` | 2 runs, 3 fixtures, 2 picks, 1 change of inputs, 1 kill, fair | what the cost guard achieves; bets explained; reports true; best first; runs end |
| `pre_kickoff` | 3 fixtures, 40 minutes in steps of 20, kickoffs moved once by half an hour, 1 failure | order, no repetition, file against database |
| `pre_kickoff_late` | no moves, no failures | *finding*: a decision in a closed window |
| `api_football` | 2 callers, a minute of 3 ticks, budgets 2/3/5, 2 retries, 5 header sets, fair | budgets and pauses over calls, retries and midnights; every call ends |
| `database` | settlement: 2 runs, full time/service error, fair; reference: 2 syncs, 3 versions, 1 death; backfill: 2 runners, 3 starts, 2 interrupts | final bets are settled and nobody waits for the lock for ever; no answer goes back behind a fresher one, syncs end; checkpoints claim only what was committed |
| `evidence` | fetch: 3 fetches, 1 kill; archive: 5 pages, 4 sheets, 2 canaries, 2 replays, 2 kills; match evidence: 2 sessions, 2 bookmakers, a look-back of one; backtest: 4 matches | what a fetch returns was served and hosts are spared; the archive replays unless for one of the known reasons, to what the store says, and repeats what canary runs did; analyses can be repeated |
| `backtest_aborts` | the same, backtest | *finding*: a degenerate match ends the whole backtest |

Distinct states: `pre_kickoff` 3.3 million, `runner` 1.2 million, `evidence` 0.8
million, `api_football` and `daily_picks` 0.4 and 0.35 million, `database` 0.13
million. The longest take one to three minutes with two workers.

Why the bounds are enough to be interesting:

- Two settlement runs are what the advisory lock is about; two bets give a batch
  of more than one row, and batches split over runs. Stakes and odds (12.50 at
  1.333, 3.35 at 1.910) are chosen so that winnings are not whole cents.
- Three lock processes let a third command arrive between a judge and a breaker;
  two kills leave two dead files, or kill the breaker of the first.
- Two days are needed to have a yesterday; two recoveries and a kill give every
  meeting of two writers in the heartbeat file, and a second daily job is what
  finds the daily lock taken, and what is interrupted by hand; an interruption
  counts as the kill.
- With three fixtures and two picks the cut of the ranking matters; one change of
  inputs is enough to give two runs different rankings and identities.
- Forty minutes cover the change from one window to the next for both fixtures
  and runs at 0, 20 and 40; a move of thirty minutes changes the due checkpoint in
  both directions.
- A window of three ticks with a budget of two, a cool-down shorter than the
  minute, and retry delays absent, zero and longer than both put every pause at
  both sides of every other; the day's budget of three is reached within two
  windows.
- Two syncs over a fixture, its two teams and a player, listed in either order,
  are the smallest circle of waits; three versions let an answer be older than
  two others. One version names other teams and one death is allowed.
- Plans of one to three days and of one or two pairs contain, overlap and equal
  one another; three starts and two interrupts let a run find what a killed run and
  another plan's run left.
- Two sessions give every interleaving of one sync with one analysis and of two
  syncs; a clock of three instants with ages of one and two has fresh,
  preliminary and stale prices. `Sessions`, `Books` and `Announcements` are
  symmetric: no definition tells their members apart.
- Three fetches with a lifetime of one second see a hit, a revalidation and a
  torn cache; a threshold of two and one retry open the circuit in the middle of a
  fetch. Two canaries on two days are what makes an archive hold two versions of a
  page; two kills leave two kinds of torn file. Of the five pages two have the target
  among the next fixtures, with different kickoffs, one has it further away and
  disagrees with the first about a team's name, one is broken and one has a loose
  item; of the four sheets two give the
  player the same name, one another and one does not parse. One endpoint is enough:
  sheets of several meet in the same resolver.
- Four matches among four teams at three kickoff times include equal kickoffs,
  matches in play, teams without history and teams that have never scored.

Fairness, and why the code has it:

- `Settlement`: weak fairness of a run's steps (a started process goes on, the
  scheduler starts the next); strong fairness of getting the advisory lock, which
  PostgreSQL grants in the order of requests. Lost runs are never fair.
- `RunnerLock`: weak fairness of taking and giving back locks and of ageing; none
  of `Finish`: nothing bounds how long a command runs.
- `DailyPicks`: weak fairness of a started run's steps; statements and model calls
  end, with a result or an exception. None of starting, killing or refreshing.
- `ApiFootballRequests`: weak fairness of time and of the holder's step: the event
  loop runs what is ready and httpx ends a request or times out.
- `ReferenceSync`: weak fairness of a started sync's steps: statements end,
  provider calls return or raise, and PostgreSQL breaks deadlocks.
- The side-by-side modules ask the same of the component in question
  (`LockFairness`, `DatabaseFairness`).
- `RunnerHeartbeat`, `PreKickoff`, `Backfill`, `MatchEvidence`, `EvidenceFetch`,
  `EvidenceArchive`, `Backtest`: none; only safety is checked.

Every property of a passing run is broken by at least one of the spoiled
definitions listed under "mutants" in `PROJECT.json`.

## 4. Findings

Five statements the repository makes of itself do not hold; each has a run with a
counterexample.

1. `settle_all` "fail[s] closed per fixture" (`settlement.py:163`): the provider
   call at line 200 is unguarded and one fixture's error ends the whole run.
2. Settlement "cannot overlap a live checkpoint refresh"
   (`scheduler_runner.py:660`): judging and removing a stale lock are two steps and
   an empty file counts as stale (308, 318).
3. Recovery retries the daily run "once if failed"
   (`register_scheduled_tasks.ps1:128`): a killed job leaves no record, and
   yesterday's success makes recovery skip (799).
4. "Missed windows are never backdated" (`scheduler_runner.py:536`): the checkpoint
   is resolved once for all fixtures and used after slow calls (572).
5. Degenerate history is counted as skipped (`backtest.py:384`): an expectation of
   zero goals no longer raises where the comment says it does; the probabilities
   come back empty and `max` of them raises at line 391, outside the `try`, so
   the whole backtest ends without a report.

Five more, without a run of their own:

- The language model is not called twice for a fixture (`daily_job.py:4`): the
  guard reads before, and the log commits after, the call
  (`daily_top_picks.py:198`). `SecondReviewNeedsOverlapOrLoss` in `daily_picks`
  says when it happens: only when runs overlap or one is lost.
- The backtest's inputs are "before the match" (`backtest.py:4`): a match that is
  still in play at another's kickoff counts with its final score, because results
  are stamped with kickoffs. `Recent` and `League` do what the code does; no
  property is made of it.
- `main` logs a command that finds its lock taken as a skip, exits inside the `try`,
  and lets `finally` record the initial status *success*
  (`scheduler_runner.py:1279`). Recovery reads that record as a daily run that
  succeeded, even when the run that held the lock fails and its own record was
  overwritten. Ctrl-C takes the same way (1297-1308: only `Exception` is caught).
  `DailySuccessIsReal` says that there is no third way, and excepts the days
  (`unearned`) on which one of the two was taken.
- An "offline replay of a saved team-intelligence Canary raw archive"
  (`scripts/team_intelligence_replay.py:1`) is not possible of every archive a canary
  can save: not of a page the canary archived (91)
  and could not parse, nor of one with an item the canary's filter (96) passed
  over, since the replay parses every page unguarded (53-55); and payloads after a
  player's change of name are passed over while the replay ends well (147).
  `ArchiveIsReplayable` and `StoreMatchesArchive` name these cases.
- Team names are matched without stripping suffixes (`odds_matching.py:7`):
  `normalize_team_name` strips one (FC, City, Town, ...) at the end, so that
  "Stoke City FC" and "Stoke City" do not meet. Names are not in the model.

## 5. Proofs

The theorems hold for every value of the constants that satisfies the named
assumptions of the modules: any number of runs, fixtures, rows and callers, and any
bound on crashes, moves and time. The runs check the same statements on the small
instances of section 3. Each component has one inductive invariant, proved as a
theorem of its own; the properties follow from it. In all of them one lemma says
that the initial states satisfy the invariant, and a lemma per conjunct (or per
action, where one action disturbs several conjuncts) that every step keeps it.

`SettlementProofs` (every number of runs, bets and fixtures, every stake, odds and
sequence of provider answers, from `ConstantsAssumption` and `FreeLockAssumption`):

- `Inductive`: `Spec => []IInv`. `IInv` is `TypeOK` and `LockInv` (exactly the
  holder is inside the locked part), `Consistent` (the committed tables are
  audited and matched) and `BatchInv` (what the holder has written on top of the
  tables is consistent too, or is short of exactly the one entry it is about to
  write). None of `NoUniqueConflict`, `LedgerAudited`, `SettlementsMatchEntries`
  is inductive alone: that a commit keeps the ledger audited is known only because
  the holder's view was audited, and that the view started from the present tables
  only because nobody else can have committed since it got the lock.
- `TypeCorrect`, `NoConflict`, `LedgerIsAudited`, `SettledWithEntry` follow.
  `RoundingDrift` is the lemma that rounding exact balances to cents drifts from
  the stored amount by a cent at most.

`SettlementRefinement` (from the same assumptions): `Implements`, that the
concurrent runs implement `Ledger`. Besides `IInv` it needs `FairInv`, that a
void row closes with the balance it opened with and a losing row not above it,
also while the row is only flushed. Every step but `Commit` leaves `Book`
alone (`OnlyCommitsWrite`); a commit keeps the rows that were there
(`CommitExtendsBook`), because a bet has one settlement and so the book's
`CHOOSE` does not change its mind, and appends rows that are chained
(`BookIsChained`); a commit of a run that settled nothing is a stutter.

`RunnerProofs`:

- Locks (any processes, locks, kills and both file semantics, from
  `LocksOfAssumption`, `NullAssumption` and `MaxCrashesAssumption`):
  `LocksInductive`, `LockTypeCorrect`, `OneHolder`. `LockInv` says that, until a
  live process's file has been removed, a process relies on a lock exactly when the
  file at its path is the one it created. The property alone is not inductive: a
  release removes by path, so one has to know whose file is there.
- Heartbeat (any triggers, days and kills, from `CommandOfAssumption`,
  `BoundsAssumption`, `UnrecordedAssumption`): `HeartbeatInductive`,
  `HeartbeatTypeCorrect`, `DailySuccessTrue`, `FailedDayRetried`,
  `RetriedOnceADay`. A record reaches the file through the memory of whoever writes
  the file back, so `HeartbeatInv` says of every run's loaded copy what it says of
  the file (`DailyInv`, `RecoveryInv`); `SlotsInv` says who is at work on which day
  and that two runs of a command never have its lock at once, and `AttemptsInv`
  that after a rerun on an undisturbed day either the rerun is going on or the
  file still has its record: this is why a later recovery does not try again.
  Working this proof out showed that a second daily job records a success although
  it did nothing (section 4); the property was corrected to say so.

`DailyPicksProofs` (any slate, values, runs, number of picks, changes and crashes,
from `SlateAssumption`, `EVAssumption`, `BoundsAssumption`): `PicksInductive`, and
from it `DailyTypeCorrect`, `SecondReviewExcused`, `BetsExplained`,
`ReportsStored`, `BestReviewedFirst`. `PicksInv` is about one run at a time: a
pick that left the list has a decision log the run can see (`PickInv`), what it
reports it can see (`ReportInv`), a flushed bet has its log or waits for it in the
same transaction (`BetInv`), a model call has left its log, is going on, or was in
vain (`CallInv`). Another run's step can only add rows to what a run sees. The
second review is excused because the guard saw no log: then the other run's was
not committed, so that run was open (they have met) or lost.

`PreKickoffProofs` (any fixtures, kickoffs, moves, failures and step of the clock,
from the module's five assumptions): `PreKickoffInductive`, `PreKickoffTyped`,
`NotRepeated`, `CompletedRecorded` and `InOrder`, an action property. The file is
written before the commit, so `RecordInv` must say of each completed key that its
decision is committed or is going to be (`Uncommitted`), and `AnalysisInv` the same
of the key about to be completed. `OrderInv` keeps, of a fixture whose kickoff
stands, that each decision was due at some moment up to now and that what is due is
not before what is decided; `WindowsFollow` is the fact that windows only follow one
another.

`ApiFootballProofs` (every set of callers and headers, all budgets, times and
retries, from `BudgetAssumption`, `TimeAssumption`, `HeadersAssumption`,
`NullAssumption`):

- `Inductive`: `IInv` is `CountersOK`, `DayInv` (the limiter's figures of the day
  are the true ones unless midnight has passed since it looked; then the true ones
  are fresh, and it looks again before it admits) and `PauseInv` (a pause that is
  owed is covered by the open circuit or by the reset of a spent minute, for at
  least as long).
- `CountersTyped`, `DailyBudgetSafe` (no UTC day sees more requests than the
  budget), `ServerDaySafe` (nor more than the server said were left),
  `PausesSafe` (an action property: no request while an answer forbids it).
- `WindowInductive`, `TypeCorrect`, `MinuteBudgetSafe`: the requests the server saw
  in the last minute are the young ones among those the limiter remembers, in the
  same order, and there are never more of them than the minute's budget; an
  admission asks for room first. `WindowExact`: because the window is sorted,
  popping from its left until an entry is young forgets no request too early and
  keeps none too long. How many are popped is defined by choice, as the length whose
  prefix is old and whose next entry is not; the proof takes the least index before
  a young entry, and needs no induction over the sequence.

`DatabaseProofs`:

- Backfill (any plans and runs, from `PlansAssumption`, `BackfillBounds`):
  `BackfillInductive`, `CheckpointsHonest`. `BackfillInv` adds that what a run has
  put behind it is committed, and so is the unit whose checkpoint it is writing. A
  dated checkpoint says only its last day, so the proof needs that the days of a
  plan are consecutive: what lies before the current one is in `done`.
- Syncs (any sessions, rows, versions, orders and deaths, from
  `ReferenceAssumption`): `ReferenceInductive`, `ReferenceTyped`, `FreshestStays`.
  `ReferenceInv` says, of an open session and unless somebody who overlapped with it
  has committed the row: it was told something at least as new as whatever was
  committed (`NewerInv`), a row it has dealt with is, for it, what it was told
  (`DoneInv`), the row it is about to change is still the one it read (`ReadInv`).
  The column-wise UPDATE is right for exactly that reason.

`EvidenceProofs` (from `FetchAssumption`, `ArchiveAssumption`, `PageAssumption`,
`EvidenceAssumption`, `BacktestAssumption`):

- `FetchInductive`, `FetchTypeCorrect`, `HostSpared` and `FetchTrue`. `FetchInv` is
  the type invariant, `BreakerInv` (refusals are failures, and what a fetch adds
  to them is bounded by its attempts, counted from a circuit that was closed when
  it began) and `CacheInv` (unless a kill came between the two writes, what a
  client holds and what the two files say together is of one answer, served
  between its request and its capture time; between the writes the content file
  is already the new one).
- `ArchiveInductive`, `ArchiveTypeCorrect`, `ReplayableAlways`, `StoreIsIndex`,
  `ReplayRepeatsAlways`. `ArchiveInv`: processes take turns; a receipt has its payload,
  torn or not; everything stored, or held to be stored, has the receipts of its page
  and its payload; everything captured under the page and the name the replay chose
  is stored or still in its hands; and, as long as nobody was killed, no file is torn
  and every captured sheet that parses is stored under some page or in the hands of
  the canary (`RepeatInv`), so that a replay has nothing new when there is one page.
- `EvidenceInductive`, `EvidenceTypeCorrect`, `VerdictsAlwaysStand`, `RowsStayKeyed`.
  The two reads of the line-ups and the reads of the prices are statements of their
  own, and others commit between them. `EvidenceInv` therefore says of a session in
  the middle of an analysis that what it has read so far it would read again
  (`PricesInv`, `LineupsInv`), that nothing bears a time that has not come, and that
  line-ups come in pairs captured at once. That rows are unique by key is
  `KeysInv`, which is inductive once `EvidenceInv` is known; `RowsAreKeyed` relates
  it to `RowsHaveKeys`.
- `BacktestTypeCorrect`: the season is finite, and replayed, skipped and remaining
  fixtures are all of it, each counted once.

Side by side: `MCRunner`, `MCDatabase` and `MCEvidence` put modules that share no
variable beside each other, and `RunnerIsBoth`, `DatabaseIsAll` and `AllIsEach` say
that a behaviour of such a composition is a behaviour of every one of its modules.
So what is proved of the modules holds of the specifications the runs check, and
the type invariants of the compositions follow: `RunnerTyped`, `DatabaseTyped`,
`AllTyped`. This is why the proof modules extend these MC modules.

Only model-checked:

- All liveness, and everything about fairness or ENABLED, which is outside this
  prover: `EveryCallEnds`, `RunsEnd`, `FinalBetsSettle`, `WaitingRunGetsLock`,
  `DeadLockIsBroken`, `SyncsEnd`.
- What the code is said to do and does not (the runs that expect a violation).

What a recursive definition computes for every input could not be proved either;
the modules declare none.

## 6. Plan

Done: settlement, its proofs and its refinement; runner locks and heartbeat;
decision store, daily picks, pre-kickoff; the limiter; ingestion of fixtures and
squads; backfill; match evidence; the polite client; archive and replay; backtest;
and a proof of every safety property the passing runs check. Next, in this order:

1. Proofs: an abstract specification of `DecisionStore` (what is committed only
   grows, an identity at a time) implemented by `DailyPicks` and `PreKickoff`.
2. Compositions: daily picks and pre-kickoff over one `DecisionStore`; several
   limiters on one account.
3. The matching of events to fixtures and the gates as operators.

## 7. Not modelled, and why

Probability models (floating point, no control); the content of prompts, reviews
and reports, HTML, wording and logging; provider adapters' parsing; PostgreSQL,
the file system, the task scheduler and the services themselves, which appear only
as what this code uses of them; readers of the database (performance, dashboard),
which write nothing; configuration; migrations and test code.

Inactive code: the paid odds adapters with the prioritized provider and the token
bucket, the verified statistics, form, baseline and data quality services, and the
deprecated `app/scheduler_runner.py`. `DailyWorker` has no state but the clock.

Of modelled components: availability rows (appended as line-ups are, and read for
prompts only); the comparison of names when odds events are matched to
fixtures; matching of observations, conflict reports and the database copy in team
intelligence; the aggregates of the backtest and the performance tracker; the
steps of the daily job around the picks (each is modelled by itself: fixtures in
`ReferenceSync`, odds in `MatchEvidence`, settlement in `Settlement`).

Clocks are assumed not to run backwards and pids not to be reused.

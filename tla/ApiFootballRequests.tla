------------------------- MODULE ApiFootballRequests -------------------------
(***************************************************************************)
(* The requests one process sends to API-Football: the admission of          *)
(* app/providers/api_football_rate_limit.py, the retry loop of              *)
(* BaseHTTPProvider._get_json and the hooks of api_football_http.py that    *)
(* join them.  The adapters are coroutines that share one limiter; its      *)
(* serial lock, a FIFO asyncio.Lock, is held for a whole call with its      *)
(* retries, so the call at the head of the queue is the only one that moves.*)
(*                                                                         *)
(* Time is in ticks, and every instant the code keeps is kept as an age or  *)
(* as the time that is left, so that time is not bounded.  The server is    *)
(* external: any answer with any of the quota headers in Headers.           *)
(***************************************************************************)
EXTENDS Integers, Sequences, FiniteSets

CONSTANTS
  Callers,
  Minute,        \* ticks in the sliding window of 60 seconds
  MinInterval,   \* min_interval_seconds
  Cooldown,      \* circuit_cooldown_seconds
  MinuteBudget, DailyBudget, RunBudget,
  MaxRetries,
  BackoffBase,
  Headers,       \* the quota headers an answer may carry
  RetryDelays,   \* what _rate_limit_delay may find in an answer, or Null
  Null

ASSUME BudgetAssumption ==
  {MinuteBudget, DailyBudget, RunBudget, Minute, Cooldown} \subseteq Nat \ {0}
ASSUME TimeAssumption == {MinInterval, MaxRetries, BackoffBase} \subseteq Nat
ASSUME HeadersAssumption ==
  Headers \subseteq [dailyLimit : Nat \cup {Null}, minuteLimit : Nat \cup {Null},
                     daily : Nat \cup {Null}, minute : Nat \cup {Null}]
ASSUME NullAssumption == Null \notin Int /\ RetryDelays \subseteq Nat \cup {Null}

VARIABLES
  minuteCalls,  \* ages of the admitted requests, oldest first
  sinceLast,    \* age of the last one, up to MinInterval
  stale,        \* the day has changed since the limiter looked
  dailyUsed, runUsed,
  server,       \* what the headers said last
  resetIn,      \* time to _server_minute_reset_at
  streak,       \* _consecutive_limits, up to 2
  circuitIn,    \* time to _circuit_until
  queue,        \* the callers at the serial lock, the holder first
  phase,        \* where the holder is
  attempt,      \* of the holder's call
  timer,        \* what is left of the holder's sleep
  sent,         \* history: ages of the requests sent in the last minute
  sentToday,    \* history: requests sent on this day
  leftToday,    \* history: requests the server still grants today, or Null
  pauseIn       \* history: time for which the answers so far forbid requests

budgetVars == <<minuteCalls, sinceLast, stale, dailyUsed, runUsed>>
serverVars == <<server, resetIn>>
circuitVars == <<streak, circuitIn>>
callVars == <<queue, phase, attempt, timer>>
history == <<sent, sentToday, leftToday, pauseIn>>
vars == <<budgetVars, serverVars, circuitVars, callVars, history>>

Nothing == [dailyLimit |-> Null, minuteLimit |-> Null,
            daily |-> Null, minute |-> Null]

Init ==
  /\ minuteCalls = <<>> /\ sinceLast = MinInterval /\ stale = FALSE
  /\ dailyUsed = 0 /\ runUsed = 0
  /\ server = Nothing /\ resetIn = 0
  /\ streak = 0 /\ circuitIn = 0
  /\ queue = <<>> /\ phase = "admit" /\ attempt = 0 /\ timer = 0
  /\ sent = <<>> /\ sentToday = 0 /\ leftToday = Null /\ pauseIn = 0

Larger(m, n) == IF m >= n THEN m ELSE n
Smaller(m, n) == IF m <= n THEN m ELSE n
Less(n) == IF n = 0 THEN 0 ELSE n - 1
Older(ages) == [i \in DOMAIN ages |-> IF ages[i] < Minute THEN ages[i] + 1 ELSE Minute]

\* Ages are listed oldest first: those that come before the first young one are
\* popped from the left.
AreOld(ages, k) == /\ \A i \in 1..k : ages[i] >= Minute
                   /\ k < Len(ages) => ages[k + 1] < Minute
Popped(ages) == CHOOSE k \in 0..Len(ages) : AreOld(ages, k)
Young(ages) == SubSeq(ages, Popped(ages) + 1, Len(ages))

-----------------------------------------------------------------------------
(* The environment *)

Tick ==
  /\ minuteCalls' = Older(minuteCalls)
  /\ sinceLast' = Smaller(sinceLast + 1, MinInterval)
  /\ resetIn' = Less(resetIn) /\ circuitIn' = Less(circuitIn)
  /\ timer' = Less(timer)
  /\ sent' = Young(Older(sent)) /\ pauseIn' = Less(pauseIn)
  /\ UNCHANGED <<stale, dailyUsed, runUsed, server, streak, queue, phase, attempt,
                 sentToday, leftToday>>

\* Midnight UTC.
NewDay ==
  /\ stale' = TRUE
  /\ sentToday' = 0 /\ leftToday' = Null
  /\ UNCHANGED <<minuteCalls, sinceLast, dailyUsed, runUsed, serverVars,
                 circuitVars, callVars, sent, pauseIn>>

\* An adapter calls _get_json and queues up at serial().
Call(c) ==
  /\ \A i \in DOMAIN queue : queue[i] # c
  /\ queue' = Append(queue, c)
  /\ UNCHANGED <<budgetVars, serverVars, circuitVars, phase, attempt, timer, history>>

-----------------------------------------------------------------------------
(* admit() *)

\* The day's figures once the limiter has looked at the date.
UsedToday == IF stale THEN 0 ELSE dailyUsed
Server == IF stale THEN [server EXCEPT !.daily = Null] ELSE server

Ceiling(budget, limit) == IF limit = Null THEN budget ELSE Smaller(budget, limit)
DailyCeiling == Ceiling(DailyBudget, server.dailyLimit)
MinuteCeiling == Ceiling(MinuteBudget, server.minuteLimit)

\* Fault: only the local budgets count.
RefusedLocally ==
  \/ circuitIn > 0
  \/ runUsed >= RunBudget
  \/ UsedToday >= DailyCeiling
  \/ MinuteCeiling = 0

Refused ==
  \/ circuitIn > 0
  \/ runUsed >= RunBudget
  \/ UsedToday >= DailyCeiling
  \/ Server.daily # Null /\ Server.daily <= 0
  \/ MinuteCeiling = 0

\* What the interval, the window and the server make a request wait for.
IntervalWait == MinInterval - sinceLast

\* Fault: one request more than the ceiling fits into the window.
WindowWaitOffByOne ==
  LET calls == Young(minuteCalls)
  IN IF Len(calls) > MinuteCeiling THEN Minute - calls[1] ELSE 0

WindowWait ==
  LET calls == Young(minuteCalls)
  IN IF Len(calls) >= MinuteCeiling THEN Minute - calls[1] ELSE 0

ServerWait == IF Server.minute = 0 THEN resetIn ELSE 0

NoWait == IntervalWait = 0 /\ WindowWait = 0 /\ ServerWait = 0
Delay == Larger(IntervalWait, Larger(WindowWait, ServerWait))

\* A spent minute without a reset to wait for is forgotten.
Current == IF Server.minute = 0 /\ resetIn = 0 THEN [Server EXCEPT !.minute = Null]
           ELSE Server

Spend(n) == IF n = Null THEN Null ELSE n - 1

\* The call returns or raises: the lock goes to the next in the queue.
EndCall == queue' = Tail(queue) /\ phase' = "admit" /\ attempt' = 0 /\ timer' = 0

\* What admit has found out stays, whatever comes of the request.
Look ==
  /\ queue # <<>> /\ phase = "admit"
  /\ stale' = FALSE

\* Fault: a spent budget is waited for.
RefuseByWaiting ==
  /\ Look /\ Refused
  /\ minuteCalls' = Young(minuteCalls)
  /\ dailyUsed' = UsedToday /\ server' = Server
  /\ phase' = "sleep" /\ timer' = Minute
  /\ UNCHANGED <<sinceLast, runUsed, resetIn, circuitVars, queue, attempt, history>>

\* A hard budget is spent or the circuit is open: the call fails.
Refuse ==
  /\ Look /\ Refused
  /\ minuteCalls' = Young(minuteCalls)
  /\ dailyUsed' = UsedToday /\ server' = Server
  /\ EndCall
  /\ UNCHANGED <<sinceLast, runUsed, resetIn, circuitVars, history>>

\* The holder sleeps and looks again.
Wait ==
  /\ Look /\ ~Refused /\ ~NoWait
  /\ minuteCalls' = Young(minuteCalls)
  /\ dailyUsed' = UsedToday /\ server' = Current
  /\ phase' = "sleep" /\ timer' = Delay
  /\ UNCHANGED <<sinceLast, runUsed, resetIn, circuitVars, queue, attempt, history>>

\* Fault: a retry is not charged to the day.
SendChargingCalls ==
  /\ Look /\ ~Refused /\ NoWait
  /\ minuteCalls' = Append(Young(minuteCalls), 0)
  /\ sinceLast' = 0
  /\ dailyUsed' = UsedToday + (IF attempt = 0 THEN 1 ELSE 0)
  /\ runUsed' = runUsed + 1
  /\ server' = [Current EXCEPT !.daily = Spend(@), !.minute = Spend(@)]
  /\ phase' = "flight"
  /\ sent' = Append(sent, 0) /\ sentToday' = sentToday + 1
  /\ leftToday' = Spend(leftToday)
  /\ UNCHANGED <<resetIn, circuitVars, queue, attempt, timer, pauseIn>>

\* The request is admitted and goes out.
Send ==
  /\ Look /\ ~Refused /\ NoWait
  /\ minuteCalls' = Append(Young(minuteCalls), 0)
  /\ sinceLast' = 0
  /\ dailyUsed' = UsedToday + 1 /\ runUsed' = runUsed + 1
  /\ server' = [Current EXCEPT !.daily = Spend(@), !.minute = Spend(@)]
  /\ phase' = "flight"
  /\ sent' = Append(sent, 0) /\ sentToday' = sentToday + 1
  /\ leftToday' = Spend(leftToday)
  /\ UNCHANGED <<resetIn, circuitVars, queue, attempt, timer, pauseIn>>

\* A sleep is over, in admit or before a retry.
Wake ==
  /\ queue # <<>> /\ phase = "sleep" /\ timer = 0
  /\ phase' = "admit"
  /\ UNCHANGED <<budgetVars, serverVars, circuitVars, queue, attempt, timer, history>>

-----------------------------------------------------------------------------
(* The answer *)

Newer(old, new) == IF new = Null THEN old ELSE new

\* Fault: a spent minute has no reset.
ObserveWithoutReset(h) ==
  /\ server' = [dailyLimit |-> Newer(server.dailyLimit, h.dailyLimit),
                minuteLimit |-> Newer(server.minuteLimit, h.minuteLimit),
                daily |-> Newer(server.daily, h.daily),
                minute |-> Newer(server.minute, h.minute)]
  /\ resetIn' = 0
  /\ leftToday' = IF stale THEN leftToday ELSE Newer(leftToday, h.daily)

\* observe_headers.
Observe(h) ==
  /\ server' = [dailyLimit |-> Newer(server.dailyLimit, h.dailyLimit),
                minuteLimit |-> Newer(server.minuteLimit, h.minuteLimit),
                daily |-> Newer(server.daily, h.daily),
                minute |-> Newer(server.minute, h.minute)]
  /\ resetIn' = CASE h.minute = Null -> resetIn
                  [] h.minute = 0 -> Minute
                  [] OTHER -> 0
  /\ leftToday' = IF stale THEN leftToday ELSE Newer(leftToday, h.daily)

\* The pause the headers ask for.
Pause(h) == IF h.minute = 0 THEN Minute ELSE 0

\* note_rate_limit: the second limit in a row opens the circuit.
NoteRateLimit(h, delay) ==
  /\ streak' = Smaller(streak + 1, 2)
  /\ circuitIn' = IF streak + 1 >= 2 THEN Larger(Cooldown, Newer(0, delay))
                  ELSE circuitIn
  /\ pauseIn' = Larger(Pause(h), IF streak >= 1 THEN Cooldown ELSE pauseIn)

\* _backoff_delay.
Backoff(n) == BackoffBase * 2^n

\* Fault: one attempt too many.
RetryOnceMore(delay) ==
  IF attempt <= MaxRetries
  THEN /\ phase' = "sleep" /\ timer' = Newer(Backoff(attempt), delay)
       /\ attempt' = attempt + 1
       /\ UNCHANGED queue
  ELSE EndCall

\* Another attempt after a pause, unless the last one was the last.
Retry(delay) ==
  IF attempt < MaxRetries
  THEN /\ phase' = "sleep" /\ timer' = Newer(Backoff(attempt), delay)
       /\ attempt' = attempt + 1
       /\ UNCHANGED queue
  ELSE EndCall

\* A usable payload.
Succeed(h) ==
  /\ phase = "flight"
  /\ Observe(h)
  /\ streak' = 0 /\ pauseIn' = Larger(Pause(h), pauseIn)
  /\ EndCall
  /\ UNCHANGED <<budgetVars, circuitIn, sent, sentToday>>

\* 429, or 200 with a rateLimit error in the payload.
Limit(h, delay) ==
  /\ phase = "flight"
  /\ Observe(h)
  /\ NoteRateLimit(h, delay)
  /\ Retry(delay)
  /\ UNCHANGED <<budgetVars, sent, sentToday>>

\* 500, 502, 503 or 504.
Unavailable(h) ==
  /\ phase = "flight"
  /\ Observe(h)
  /\ Retry(Null)
  /\ pauseIn' = Larger(Pause(h), pauseIn)
  /\ UNCHANGED <<budgetVars, circuitVars, sent, sentToday>>

\* Any other status, malformed JSON or an application error: no retry.
Reject(h) ==
  /\ phase = "flight"
  /\ Observe(h)
  /\ EndCall
  /\ pauseIn' = Larger(Pause(h), pauseIn)
  /\ UNCHANGED <<budgetVars, circuitVars, sent, sentToday>>

\* httpx.TransportError: no answer, no headers.
LoseAnswer ==
  /\ phase = "flight"
  /\ Retry(Null)
  /\ UNCHANGED <<budgetVars, serverVars, circuitVars, history>>

Answer ==
  \/ LoseAnswer
  \/ \E h \in Headers :
       \/ Succeed(h) \/ Unavailable(h) \/ Reject(h)
       \/ \E delay \in RetryDelays : Limit(h, delay)

Holder == Refuse \/ Wait \/ Send \/ Wake \/ Answer

Next == Tick \/ NewDay \/ Holder \/ \E c \in Callers : Call(c)

Spec == Init /\ [][Next]_vars

\* Time passes, the event loop runs what is ready, and httpx ends a request
\* with an answer or with its timeout.
LiveSpec == Spec /\ WF_vars(Tick) /\ WF_vars(Holder)
-----------------------------------------------------------------------------
(* Properties *)

Counts == Nat \cup {Null}

\* Types of what is counted and timed, and of what the server said.
CountersOK ==
  /\ sinceLast \in 0..MinInterval
  /\ stale \in BOOLEAN /\ dailyUsed \in Nat /\ runUsed \in 0..RunBudget
  /\ server \in [dailyLimit : Counts, minuteLimit : Counts,
                 daily : Counts, minute : Counts]
  /\ resetIn \in 0..Minute /\ streak \in 0..2 /\ circuitIn \in Nat
  /\ phase \in {"admit", "sleep", "flight"}
  /\ attempt \in 0..MaxRetries
  /\ sentToday \in Nat /\ leftToday \in Counts /\ pauseIn \in Nat

\* Types of the variables.
TypeOK ==
  /\ CountersOK
  /\ minuteCalls \in Seq(0..Minute) /\ sent \in Seq(0..Minute)
  /\ queue \in Seq(Callers) /\ timer \in Nat

\* Whatever the headers say and however calls and retries follow each other,
\* no 60 seconds see more requests than the minute budget.
MinuteBudgetHeld == Len(sent) <= MinuteBudget

\* No UTC day sees more requests than the daily budget, across midnights that
\* fall into a sleep, a request or a backoff.
DailyBudgetHeld == sentToday <= DailyBudget

\* After an answer that says how many requests the day has left, no more than
\* that many are sent on the day.
ServerDayHeld == leftToday = Null \/ leftToday >= 0

\* No request is sent within the cool-down of the second rate limit in a row,
\* by the retry loop that saw it or by any other call, nor within a minute of
\* an answer that said the minute is spent.
PausesHeld == [][sentToday' = sentToday + 1 => pauseIn = 0]_vars

\* Every call gets the lock and comes to an end: it returns, is refused or
\* runs out of attempts.
EveryCallEnds ==
  \A c \in Callers :
    (\E i \in DOMAIN queue : queue[i] = c) ~> (\A i \in DOMAIN queue : queue[i] # c)
=============================================================================

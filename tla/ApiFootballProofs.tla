-------------------------- MODULE ApiFootballProofs --------------------------
(***************************************************************************)
(* For every set of callers and headers and all budgets and times: the      *)
(* variables are type correct, no 60 seconds see more requests than the     *)
(* minute budget, no UTC day sees more than the daily budget or than the    *)
(* server said it has left, and no request is sent while an answer forbids  *)
(* it.  The argument: the day's figures of the limiter are the true ones    *)
(* unless midnight has passed since it looked, and then it looks before it  *)
(* admits (DayInv); a pause that is owed is covered by the circuit or by    *)
(* the reset of a spent minute (PauseInv); what the limiter has not popped  *)
(* yet differs from what was sent in the last minute only by what it would  *)
(* pop (WindowInv).                                                        *)
(***************************************************************************)
EXTENDS ApiFootballRequests, FiniteSetTheorems, SequenceTheorems, WellFoundedInduction, TLAPS

\* The limiter's figures of the day against what was sent and granted.
DayInv ==
  /\ stale => sentToday = 0 /\ leftToday = Null
  /\ ~stale => sentToday <= dailyUsed /\ leftToday = server.daily
  /\ dailyUsed <= DailyBudget

\* While a pause is owed the circuit is open or the minute is spent, for as
\* long; a request in flight was sent when none was owed.
PauseInv ==
  /\ pauseIn > 0 => \/ circuitIn >= pauseIn
                    \/ server.minute = 0 /\ resetIn >= pauseIn
  /\ phase = "flight" => pauseIn = 0

\* What the server may have said.
Answers == [dailyLimit : Counts, minuteLimit : Counts,
            daily : Counts, minute : Counts]

IInv == CountersOK /\ DayInv /\ PauseInv

USE BudgetAssumption, TimeAssumption, HeadersAssumption, NullAssumption

\* The constants' assumptions, one number at a time.
LEMMA Numbers ==
  /\ MinInterval \in Nat /\ MaxRetries \in Nat /\ Minute \in Nat \ {0}
  /\ RunBudget \in Nat \ {0} /\ DailyBudget \in Nat \ {0}
  OBVIOUS

LEMMA InitInv == Init => IInv
<1> SUFFICES ASSUME Init PROVE IInv
  OBVIOUS
<1>1. server \in Answers
  BY DEF Init, Nothing, Counts, Answers
<1>2. CountersOK
  <2>0. stale \in BOOLEAN
    BY Zenon DEF Init
  <2>1. /\ sinceLast = MinInterval /\ dailyUsed = 0 /\ runUsed = 0
        /\ resetIn = 0 /\ streak = 0 /\ circuitIn = 0 /\ phase = "admit"
        /\ attempt = 0 /\ sentToday = 0 /\ leftToday = Null /\ pauseIn = 0
    BY DEF Init
  <2> QED BY ONLY <1>1, <2>0, <2>1, Numbers DEF CountersOK, Counts, Answers
<1>3. DayInv
  BY DEF Init, DayInv, Nothing
<1>4. PauseInv
  BY DEF Init, PauseInv
<1> QED BY <1>2, <1>3, <1>4 DEF IInv

LEMMA TickInv == IInv /\ Tick => IInv'
<1> SUFFICES ASSUME IInv, Tick PROVE IInv'
  OBVIOUS
<1> USE DEF IInv, Tick
<1>1. CountersOK'
  BY DEF CountersOK, Counts, Less, Smaller
<1>2. DayInv'
  BY DEF DayInv
<1>3. PauseInv'
  BY DEF PauseInv, CountersOK, Less
<1> QED BY <1>1, <1>2, <1>3

LEMMA NewDayInv == IInv /\ NewDay => IInv'
  BY DEF IInv, NewDay, CountersOK, DayInv, PauseInv, Counts, serverVars,
         circuitVars, callVars

LEMMA CallInv == ASSUME NEW c \in Callers PROVE IInv /\ Call(c) => IInv'
  BY DEF IInv, Call, CountersOK, DayInv, PauseInv, budgetVars, serverVars,
         circuitVars, history

\* What looking at the date and at the spent minute leaves of the server's
\* figures.
LEMMA LookAtServer ==
  ASSUME IInv
  PROVE  /\ Server \in [dailyLimit : Counts, minuteLimit : Counts,
                        daily : Counts, minute : Counts]
         /\ Server.minute = server.minute
         /\ Server.daily = leftToday
         /\ UsedToday \in Nat /\ sentToday <= UsedToday
         /\ UsedToday <= DailyBudget
         /\ Current \in [dailyLimit : Counts, minuteLimit : Counts,
                         daily : Counts, minute : Counts]
         /\ Current.daily = leftToday
         /\ resetIn > 0 => Current.minute = server.minute
<1>1. /\ Server \in [dailyLimit : Counts, minuteLimit : Counts,
                     daily : Counts, minute : Counts]
      /\ Server.minute = server.minute
      /\ Server.daily = leftToday
  BY DEF IInv, CountersOK, DayInv, Server, Counts
<1>2. /\ UsedToday \in Nat /\ sentToday <= UsedToday
      /\ UsedToday <= DailyBudget
  BY DEF IInv, CountersOK, DayInv, UsedToday
<1>3. /\ Current \in [dailyLimit : Counts, minuteLimit : Counts,
                      daily : Counts, minute : Counts]
      /\ Current.daily = leftToday
      /\ resetIn > 0 => Current.minute = server.minute
  BY <1>1 DEF Current, Counts
<1> QED BY <1>1, <1>2, <1>3

LEMMA RefuseInv == IInv /\ Refuse => IInv'
<1> SUFFICES ASSUME IInv, Refuse PROVE IInv'
  OBVIOUS
<1> USE LookAtServer DEF Refuse, Look, EndCall, circuitVars, history
<1>1. CountersOK'
  <2>1. /\ server' \in Answers /\ dailyUsed' \in Nat
        /\ UNCHANGED <<sinceLast, runUsed, resetIn, streak, circuitIn, sentToday,
                       leftToday, pauseIn>>
    BY DEF Answers
  <2>2. stale' \in BOOLEAN /\ phase' = "admit" /\ attempt' = 0
    OBVIOUS
  <2> QED BY ONLY IInv, <2>1, <2>2, TimeAssumption DEF IInv, CountersOK, Answers, Counts
<1>2. DayInv'
  BY DEF IInv, DayInv
<1>3. PauseInv'
  BY DEF IInv, PauseInv
<1> QED BY <1>1, <1>2, <1>3 DEF IInv

LEMMA WaitInv == IInv /\ Wait => IInv'
<1> SUFFICES ASSUME IInv, Wait PROVE IInv'
  OBVIOUS
<1> USE LookAtServer DEF Wait, Look, circuitVars, history
<1>1. CountersOK'
  BY DEF IInv, CountersOK
<1>2. DayInv'
  BY DEF IInv, DayInv
<1>3. PauseInv'
  BY DEF IInv, PauseInv, CountersOK
<1> QED BY <1>1, <1>2, <1>3 DEF IInv

\* A request that is admitted is within the day and owes no pause.
LEMMA Admission ==
  ASSUME IInv, ~Refused, NoWait
  PROVE  /\ UsedToday < DailyBudget /\ runUsed < RunBudget
         /\ leftToday = Null \/ leftToday > 0
         /\ Current.minute = Null \/ Current.minute > 0
         /\ pauseIn = 0
<1>1. UsedToday < DailyBudget /\ runUsed < RunBudget
  BY LookAtServer DEF Refused, DailyCeiling, Ceiling, Smaller, IInv, CountersOK,
     Counts
<1>2. leftToday = Null \/ leftToday > 0
  BY LookAtServer DEF Refused, IInv, CountersOK, Counts
<1>3. circuitIn = 0
  BY DEF Refused, IInv, CountersOK
<1>4. Server.minute = 0 => resetIn = 0
  BY DEF NoWait, ServerWait
<1>5. Current.minute = Null \/ Current.minute > 0
  BY <1>4, LookAtServer DEF Current, IInv, CountersOK, Counts
<1>6. pauseIn = 0
  BY <1>3, <1>4, LookAtServer DEF IInv, PauseInv, CountersOK
<1> QED BY <1>1, <1>2, <1>5, <1>6

LEMMA SendInv == IInv /\ Send => IInv'
<1> SUFFICES ASSUME IInv, Send PROVE IInv'
  OBVIOUS
<1> USE LookAtServer, Admission DEF Send, Look, circuitVars
<1>a. Spend(Current.minute) \in Counts /\ Spend(leftToday) \in Counts
  <2>1. Current.minute \in Counts /\ leftToday \in Counts
    BY ONLY IInv, LookAtServer DEF IInv, CountersOK
  <2>2. /\ Current.minute = Null \/ Current.minute > 0
        /\ leftToday = Null \/ leftToday > 0
    OBVIOUS
  <2>3. ASSUME NEW n \in Counts, n = Null \/ n > 0 PROVE Spend(n) \in Counts
    BY ONLY <2>3, NullAssumption DEF Spend, Counts
  <2> QED BY ONLY <2>1, <2>2, <2>3
<1>1. server' \in Answers /\ server'.daily = Spend(leftToday)
  <2>1. server' = [Current EXCEPT !.daily = Spend(leftToday),
                                  !.minute = Spend(Current.minute)]
    OBVIOUS
  <2> QED BY ONLY <1>a, <2>1, LookAtServer, IInv DEF Answers
<1>2. CountersOK'
  <2>0. stale' \in BOOLEAN
    BY Zenon
  <2>1. /\ sinceLast' \in 0..MinInterval /\ dailyUsed' \in Nat
        /\ runUsed' \in 0..RunBudget /\ sentToday' \in Nat
    <3>1. /\ sinceLast' = 0 /\ dailyUsed' = UsedToday + 1
          /\ runUsed' = runUsed + 1 /\ sentToday' = sentToday + 1
      OBVIOUS
    <3>2. /\ UsedToday \in Nat /\ runUsed \in 0..RunBudget /\ runUsed < RunBudget
          /\ sentToday \in Nat
      BY DEF IInv, CountersOK
    <3> QED BY ONLY <3>1, <3>2, Numbers
  <2>2. /\ leftToday' \in Counts /\ phase' = "flight"
        /\ UNCHANGED <<resetIn, streak, circuitIn, attempt, pauseIn>>
    BY <1>a
  <2> QED BY ONLY IInv, <1>1, <2>0, <2>1, <2>2 DEF IInv, CountersOK, Answers
<1>3. DayInv'
  <2>1. /\ stale' = FALSE /\ leftToday' = server'.daily
        /\ dailyUsed' = UsedToday + 1 /\ sentToday' = sentToday + 1
    BY <1>1
  <2>2. /\ UsedToday \in Nat /\ sentToday \in Nat /\ sentToday <= UsedToday
        /\ UsedToday < DailyBudget
    BY DEF IInv, CountersOK
  <2> QED BY ONLY <2>1, <2>2, BudgetAssumption DEF DayInv
<1>4. PauseInv'
  BY DEF PauseInv
<1> QED BY <1>2, <1>3, <1>4 DEF IInv

LEMMA WakeInv == IInv /\ Wake => IInv'
  BY DEF IInv, Wake, CountersOK, DayInv, PauseInv, budgetVars, serverVars,
         circuitVars, history

\* The headers of an answer keep the types and the figures of the day; a
\* pause they ask for is covered.
LEMMA ObserveInv ==
  ASSUME IInv, NEW h \in Headers, Observe(h), phase = "flight",
         UNCHANGED budgetVars, UNCHANGED sentToday
  PROVE  /\ server' \in [dailyLimit : Counts, minuteLimit : Counts,
                         daily : Counts, minute : Counts]
         /\ resetIn' \in 0..Minute /\ leftToday' \in Counts
         /\ DayInv'
         /\ Pause(h) \in Nat
         /\ Pause(h) > 0 => server'.minute = 0 /\ resetIn' >= Pause(h)
         /\ pauseIn = 0
<1>1. h \in [dailyLimit : Counts, minuteLimit : Counts,
             daily : Counts, minute : Counts]
  BY DEF Counts
<1>2. /\ server' \in [dailyLimit : Counts, minuteLimit : Counts,
                      daily : Counts, minute : Counts]
      /\ resetIn' \in 0..Minute /\ leftToday' \in Counts
  BY <1>1 DEF Observe, Newer, IInv, CountersOK, Counts
<1>3. server'.daily = Newer(server.daily, h.daily)
  BY DEF Observe
<1>4. DayInv'
  BY <1>3 DEF Observe, IInv, DayInv, budgetVars, Newer
<1>5. /\ Pause(h) \in Nat
      /\ Pause(h) > 0 => server'.minute = 0 /\ resetIn' >= Pause(h)
  BY DEF Pause, Observe, Newer
<1>6. pauseIn = 0
  BY DEF IInv, PauseInv
<1> QED BY <1>2, <1>4, <1>5, <1>6

\* Ending a call or going for another attempt.
LEMMA CallGoesOn ==
  ASSUME IInv, NEW delay, EndCall \/ Retry(delay)
  PROVE  phase' \in {"admit", "sleep"} /\ attempt' \in 0..MaxRetries
  BY DEF EndCall, Retry, IInv, CountersOK

LEMMA SucceedInv ==
  ASSUME NEW h \in Headers PROVE IInv /\ Succeed(h) => IInv'
<1> SUFFICES ASSUME IInv, Succeed(h) PROVE IInv'
  OBVIOUS
<1> USE ObserveInv DEF Succeed
<1>1. CountersOK'
  BY CallGoesOn DEF IInv, CountersOK, budgetVars, Larger
<1>2. PauseInv'
  BY CallGoesOn DEF PauseInv, Larger
<1> QED BY <1>1, <1>2 DEF IInv

LEMMA RejectInv ==
  ASSUME NEW h \in Headers PROVE IInv /\ Reject(h) => IInv'
<1> SUFFICES ASSUME IInv, Reject(h) PROVE IInv'
  OBVIOUS
<1> USE ObserveInv DEF Reject
<1>1. CountersOK'
  BY CallGoesOn DEF IInv, CountersOK, budgetVars, circuitVars, Larger
<1>2. PauseInv'
  BY CallGoesOn DEF PauseInv, Larger
<1> QED BY <1>1, <1>2 DEF IInv

LEMMA UnavailableInv ==
  ASSUME NEW h \in Headers PROVE IInv /\ Unavailable(h) => IInv'
<1> SUFFICES ASSUME IInv, Unavailable(h) PROVE IInv'
  OBVIOUS
<1> USE ObserveInv DEF Unavailable
<1>1. CountersOK'
  BY CallGoesOn DEF IInv, CountersOK, budgetVars, circuitVars, Larger
<1>2. PauseInv'
  BY CallGoesOn DEF PauseInv, Larger
<1> QED BY <1>1, <1>2 DEF IInv

LEMMA LimitInv ==
  ASSUME NEW h \in Headers, NEW delay \in RetryDelays
  PROVE  IInv /\ Limit(h, delay) => IInv'
<1> SUFFICES ASSUME IInv, Limit(h, delay) PROVE IInv'
  OBVIOUS
<1> USE ObserveInv DEF Limit
<1>1. /\ streak' \in 0..2 /\ circuitIn' \in Nat
      /\ streak >= 1 => circuitIn' >= Cooldown
  BY DEF NoteRateLimit, Smaller, Larger, Newer, IInv, CountersOK
<1>2. CountersOK'
  BY <1>1, CallGoesOn DEF IInv, CountersOK, budgetVars, Larger, NoteRateLimit
<1>3. PauseInv'
  BY <1>1, CallGoesOn DEF PauseInv, Larger, NoteRateLimit, IInv, CountersOK
<1> QED BY <1>2, <1>3 DEF IInv

LEMMA LoseAnswerInv == IInv /\ LoseAnswer => IInv'
<1> SUFFICES ASSUME IInv, LoseAnswer PROVE IInv'
  OBVIOUS
<1> USE CallGoesOn DEF LoseAnswer, budgetVars, serverVars, circuitVars, history
<1>1. CountersOK'
  BY DEF IInv, CountersOK
<1>2. DayInv'
  BY DEF IInv, DayInv
<1>3. PauseInv'
  BY DEF IInv, PauseInv
<1> QED BY <1>1, <1>2, <1>3 DEF IInv

\* The invariant is inductive.
THEOREM Inductive == Spec => []IInv
<1>1. IInv /\ [Next]_vars => IInv'
  <2> SUFFICES ASSUME IInv, [Next]_vars PROVE IInv'
    OBVIOUS
  <2>1. CASE Tick BY <2>1, TickInv
  <2>2. CASE NewDay BY <2>2, NewDayInv
  <2>3. CASE \E c \in Callers : Call(c) BY <2>3, CallInv
  <2>4. CASE Refuse BY <2>4, RefuseInv
  <2>5. CASE Wait BY <2>5, WaitInv
  <2>6. CASE Send BY <2>6, SendInv
  <2>7. CASE Wake BY <2>7, WakeInv
  <2>8. CASE Answer
    BY <2>8, LoseAnswerInv, SucceedInv, UnavailableInv, RejectInv, LimitInv
       DEF Answer
  <2>9. CASE UNCHANGED vars
    BY <2>9 DEF vars, budgetVars, serverVars, circuitVars, callVars, history,
       IInv, CountersOK, DayInv, PauseInv
  <2> QED
    BY <2>1, <2>2, <2>3, <2>4, <2>5, <2>6, <2>7, <2>8, <2>9 DEF Next, Holder
<1> QED BY InitInv, <1>1, PTL DEF Spec

\* The counters keep their types, for every constant.
THEOREM CountersTyped == Spec => []CountersOK
<1>1. IInv => CountersOK BY DEF IInv
<1> QED BY Inductive, <1>1, PTL

\* No UTC day sees more requests than the daily budget.
THEOREM DailyBudgetSafe == Spec => []DailyBudgetHeld
<1>1. IInv => DailyBudgetHeld
  BY DEF IInv, DayInv, CountersOK, DailyBudgetHeld
<1> QED BY Inductive, <1>1, PTL

\* No more requests are sent on a day than the server said it has left.
THEOREM ServerDaySafe == Spec => []ServerDayHeld
<1>1. IInv => ServerDayHeld
  BY DEF IInv, CountersOK, Counts, ServerDayHeld
<1> QED BY Inductive, <1>1, PTL

\* Only Send sends, and it sends when no pause is owed.
LEMMA OnlySendSends ==
  ASSUME IInv, Next, sentToday' = sentToday + 1 PROVE Send
<1>1. sentToday \in Nat
  BY DEF IInv, CountersOK
<1>2. sentToday' # sentToday
  BY <1>1
<1>3. ~NewDay
  BY <1>1 DEF NewDay
<1>4. ~Tick
  BY <1>2 DEF Tick
<1>5. ~(\E c \in Callers : Call(c))
  BY <1>2 DEF Call, history
<1>6. ~Refuse /\ ~Wait /\ ~Wake
  BY <1>2 DEF Refuse, Wait, Wake, history
<1>7. ~Answer
  BY <1>2 DEF Answer, LoseAnswer, Succeed, Unavailable, Reject, Limit, history
<1> QED BY <1>3, <1>4, <1>5, <1>6, <1>7 DEF Next, Holder

\* No request is sent within a pause that the answers so far ask for: the
\* cool-down after two rate limits in a row, the minute after a spent minute.
THEOREM PausesSafe == Spec => PausesHeld
<1>1. IInv /\ [Next]_vars => [sentToday' = sentToday + 1 => pauseIn = 0]_vars
  <2> SUFFICES ASSUME IInv, Next, sentToday' = sentToday + 1 PROVE pauseIn = 0
    OBVIOUS
  <2>1. Send
    BY OnlySendSends
  <2> QED BY <2>1, Admission DEF Send
<1> QED BY Inductive, <1>1, PTL DEF Spec, PausesHeld
-----------------------------------------------------------------------------
(* The window of a minute *)

\* A property of numbers that some number has, a least one has.
LEMMA LeastIndex ==
  ASSUME NEW n \in Nat, NEW T, T \subseteq 0..n, T # {} PROVE \E k \in T : \A i \in T : k <= i
<1> DEFINE R == OpToRel(<, Nat)
<1>1. IsWellFoundedOn(R, Nat)
  BY NatLessThanWellFounded
<1>2. \A x, y \in Nat : y < x => <<y, x>> \in R
  BY DEF OpToRel
<1> HIDE DEF R
<1>3. T \subseteq Nat
  OBVIOUS
<1>4. PICK k \in T : \A i \in T : ~ (<<i, k>> \in R)
  BY <1>1, <1>3, WFMin
<1>5. ASSUME NEW i \in T PROVE k <= i
  <2>1. k \in Nat /\ i \in Nat /\ ~(i < k)
    BY <1>2, <1>3, <1>4
  <2> QED BY <2>1
<1> QED BY <1>5

Ages == Seq(0..Minute)

\* The number of ages that are popped, and no other.
PoppedIs(ages, k) == k \in 0..Len(ages) /\ AreOld(ages, k)

LEMMA PoppedOnce ==
  ASSUME NEW ages \in Ages
  PROVE  PoppedIs(ages, Popped(ages)) /\ \A k : PoppedIs(ages, k) => k = Popped(ages)
<1>1. Len(ages) \in Nat /\ \A i \in 1..Len(ages) : ages[i] \in 0..Minute
  BY DEF Ages
<1>2. PICK n \in Nat : n = Len(ages)
  BY <1>1
<1> DEFINE T == {k \in 0..n : k < n => ages[k + 1] < Minute}
<1>3. T \subseteq 0..n /\ n \in T
  OBVIOUS
<1>4. PICK m \in T : \A i \in T : m <= i
  <2> HIDE DEF T
  <2>1. T # {}
    BY <1>3
  <2> QED BY <1>3, <2>1, LeastIndex
<1>5. ASSUME NEW i \in 1..m PROVE ages[i] >= Minute
  <2>1. i - 1 \in 0..n /\ i - 1 < n /\ m \in 0..n
    BY <1>5
  <2>2. i - 1 \notin T
    BY <1>4, <2>1
  <2>3. ~(ages[(i - 1) + 1] < Minute) /\ (i - 1) + 1 = i
    BY <2>1, <2>2
  <2>4. ages[i] \in 0..Minute
    BY <1>1, <1>2, <2>1
  <2> QED BY <2>3, <2>4
<1>6. PoppedIs(ages, m)
  BY <1>2, <1>5 DEF PoppedIs, AreOld
<1>7. PoppedIs(ages, Popped(ages))
  <2>1. Popped(ages) = CHOOSE k \in 0..Len(ages) : AreOld(ages, k)
    BY DEF Popped
  <2> QED BY <1>6, <2>1 DEF PoppedIs
<1>8. ASSUME NEW i, NEW j, PoppedIs(ages, i), PoppedIs(ages, j) PROVE ~(i < j)
  <2>1. i \in 0..n /\ j \in 0..n
    BY <1>2, <1>8 DEF PoppedIs, AreOld
  <2> SUFFICES ASSUME i < j PROVE FALSE
    OBVIOUS
  <2>2. i + 1 \in 1..j /\ i + 1 \in 1..Len(ages) /\ i < Len(ages)
    BY <1>2, <2>1
  <2>3. ages[i + 1] >= Minute /\ ages[i + 1] < Minute
    BY <1>8, <2>2 DEF PoppedIs, AreOld
  <2>4. ages[i + 1] \in 0..Minute
    BY <1>1, <2>2
  <2> QED BY <2>3, <2>4
<1>9. ASSUME NEW i, PoppedIs(ages, i) PROVE i = Popped(ages)
  <2>1. i \in Nat /\ Popped(ages) \in Nat
    BY <1>2, <1>7, <1>9 DEF PoppedIs, AreOld
  <2>2. ~(i < Popped(ages)) /\ ~(Popped(ages) < i)
    BY <1>7, <1>8, <1>9
  <2> QED BY <2>1, <2>2
<1> QED BY <1>7, <1>9

\* What is left: a sequence of ages, the first of which is young.
LEMMA YoungFacts ==
  ASSUME NEW ages \in Ages
  PROVE  /\ Young(ages) \in Ages
         /\ Popped(ages) \in 0..Len(ages) /\ Len(Young(ages)) = Len(ages) - Popped(ages)
         /\ \A i \in 1..(Len(ages) - Popped(ages)) : Young(ages)[i] = ages[Popped(ages) + i]
         /\ Len(Young(ages)) > 0 => Young(ages)[1] < Minute
<1>1. PICK k : k = Popped(ages)
  OBVIOUS
<1>2. PICK n \in Nat : n = Len(ages)
  BY DEF Ages
<1>3. k \in 0..n /\ (k < n => ages[k + 1] < Minute)
  BY <1>1, <1>2, PoppedOnce DEF PoppedIs, AreOld
<1>4. \A i \in (k + 1)..n : ages[i] \in 0..Minute
  BY <1>2, <1>3 DEF Ages
<1>5. PICK young : young = SubSeq(ages, k + 1, n)
  OBVIOUS
<1>6. ages \in Seq(0..Minute) /\ k + 1 \in 1..(n + 1) /\ n \in 0..n
  BY <1>3 DEF Ages
<1>7. /\ young \in Seq(0..Minute)
      /\ Len(young) = IF k + 1 <= n THEN n - (k + 1) + 1 ELSE 0
      /\ \A i \in 1..(n - (k + 1) + 1) : young[i] = ages[(k + 1) + i - 1]
  <2>1. PICK m \in Int : m = k + 1
    BY <1>3
  <2>2. n \in Int /\ \A i \in m..n : ages[i] \in 0..Minute
    BY <1>4, <2>1
  <2>3. /\ SubSeq(ages, m, n) \in Seq(0..Minute)
        /\ Len(SubSeq(ages, m, n)) = IF m <= n THEN n - m + 1 ELSE 0
        /\ \A i \in 1..(n - m + 1) : SubSeq(ages, m, n)[i] = ages[m + i - 1]
    BY <2>2, SubSeqProperties
  <2> QED BY <1>5, <2>1, <2>3
<1>8. Len(young) = n - k
  <2>1. k <= n /\ k \in Nat
    BY <1>3
  <2>2. CASE k + 1 <= n
    BY <1>7, <2>1, <2>2
  <2>3. CASE ~(k + 1 <= n)
    <3>1. k = n
      BY <2>1, <2>3
    <3> QED BY <1>7, <2>3, <3>1
  <2> QED BY <2>2, <2>3
<1>9. ASSUME NEW i \in 1..(n - k) PROVE young[i] = ages[k + i]
  <2>1. i \in 1..(n - (k + 1) + 1) /\ (k + 1) + i - 1 = k + i
    BY <1>3, <1>9
  <2> QED BY <1>7, <2>1
<1>10. Len(young) > 0 => young[1] < Minute
  <2> SUFFICES ASSUME Len(young) > 0 PROVE young[1] < Minute
    OBVIOUS
  <2>1. 1 \in 1..(n - k) /\ k < n
    BY <1>3, <1>8
  <2> QED BY <1>3, <1>9, <2>1
<1>11. Young(ages) = young
  BY <1>1, <1>2, <1>5 DEF Young
<1> QED BY <1>1, <1>2, <1>3, <1>7, <1>8, <1>9, <1>10, <1>11 DEF Ages

\* A sequence that is what is left, is what is left.
LEMMA YoungIs ==
  ASSUME NEW ages \in Ages, NEW rest \in Ages, NEW k, PoppedIs(ages, k),
         Len(rest) = Len(ages) - k, \A i \in 1..Len(rest) : rest[i] = ages[k + i]
  PROVE  Young(ages) = rest
<1>1. k = Popped(ages)
  BY PoppedOnce
<1>2. PICK young : young = Young(ages)
  OBVIOUS
<1>3. /\ young \in Seq(0..Minute) /\ Len(young) = Len(rest)
      /\ \A i \in 1..Len(rest) : young[i] = rest[i]
  BY <1>1, <1>2, YoungFacts DEF Ages
<1>4. rest \in Seq(0..Minute)
  BY DEF Ages
<1> QED BY <1>2, <1>3, <1>4, SeqEqual

LEMMA OlderFacts ==
  ASSUME NEW ages \in Ages
  PROVE  /\ Older(ages) \in Ages /\ Len(Older(ages)) = Len(ages)
         /\ \A i \in 1..Len(ages) :
              Older(ages)[i] = IF ages[i] < Minute THEN ages[i] + 1 ELSE Minute
<1>1. /\ Len(ages) \in Nat /\ DOMAIN ages = 1..Len(ages)
      /\ \A i \in 1..Len(ages) : ages[i] \in 0..Minute
  BY DEF Ages
<1>2. Older(ages) = [i \in 1..Len(ages) |-> IF ages[i] < Minute THEN ages[i] + 1 ELSE Minute]
  BY <1>1, SMTT(20) DEF Older
<1>3. \A i \in 1..Len(ages) : (IF ages[i] < Minute THEN ages[i] + 1 ELSE Minute) \in 0..Minute
  BY <1>1, Numbers
<1> QED BY <1>1, <1>2, <1>3 DEF Ages

\* Popping twice is popping once.
LEMMA YoungStays == ASSUME NEW ages \in Ages PROVE Young(Young(ages)) = Young(ages)
<1>1. PICK young : young = Young(ages)
  OBVIOUS
<1>2. young \in Ages /\ (Len(young) > 0 => young[1] < Minute)
  BY <1>1, YoungFacts
<1>3. Len(young) \in Nat
  BY <1>2 DEF Ages
<1>4. PoppedIs(young, 0)
  BY <1>2, <1>3 DEF PoppedIs, AreOld
<1> QED BY <1>1, <1>2, <1>3, <1>4, YoungIs

\* A request that is sent is young.
LEMMA YoungSent ==
  ASSUME NEW ages \in Ages
  PROVE  /\ Append(Young(ages), 0) \in Ages /\ Len(Append(Young(ages), 0)) = Len(Young(ages)) + 1
         /\ Young(Append(Young(ages), 0)) = Append(Young(ages), 0)
<1>1. PICK young : young = Young(ages)
  OBVIOUS
<1>2. young \in Seq(0..Minute) /\ (Len(young) > 0 => young[1] < Minute)
  BY <1>1, YoungFacts DEF Ages
<1>3. PICK more : more = Append(young, 0)
  OBVIOUS
<1>4. 0 \in 0..Minute /\ 0 < Minute
  BY Numbers
<1>5. /\ more \in Seq(0..Minute) /\ Len(more) = Len(young) + 1
      /\ more[1] = IF Len(young) > 0 THEN young[1] ELSE 0
  BY <1>2, <1>3, <1>4
<1>6. more[1] < Minute
  BY <1>2, <1>4, <1>5
<1>7. Len(more) \in Nat /\ more \in Ages
  BY <1>5 DEF Ages
<1>8. PoppedIs(more, 0)
  BY <1>6, <1>7 DEF PoppedIs, AreOld
<1>9. Young(more) = more
  BY <1>7, <1>8, YoungIs
<1> QED BY <1>1, <1>3, <1>5, <1>7, <1>9

\* What was popped stays out of the window as time passes.
LEMMA YoungAges ==
  ASSUME NEW ages \in Ages
  PROVE  /\ Young(Older(ages)) = Young(Older(Young(ages)))
         /\ Len(Young(Older(Young(ages)))) <= Len(Young(ages))
<1>1. PICK k, young, old, then, m, rest :
        /\ k = Popped(ages) /\ young = Young(ages) /\ old = Older(ages)
        /\ then = Older(young) /\ m = Popped(then) /\ rest = Young(then)
  OBVIOUS
<1>2. /\ young \in Ages /\ k \in 0..Len(ages) /\ Len(young) = Len(ages) - k
      /\ \A i \in 1..(Len(ages) - k) : young[i] = ages[k + i]
  BY <1>1, YoungFacts
<1>3. \A i \in 1..k : ages[i] >= Minute
  BY <1>1, PoppedOnce DEF PoppedIs, AreOld
<1>4. /\ old \in Ages /\ Len(old) = Len(ages)
      /\ \A i \in 1..Len(ages) : old[i] = IF ages[i] < Minute THEN ages[i] + 1 ELSE Minute
  BY <1>1, OlderFacts
<1>5. /\ then \in Ages /\ Len(then) = Len(young)
      /\ \A i \in 1..Len(young) : then[i] = IF young[i] < Minute THEN young[i] + 1 ELSE Minute
  BY <1>1, <1>2, OlderFacts
<1>6. /\ rest \in Ages /\ m \in 0..Len(then) /\ Len(rest) = Len(then) - m
      /\ \A i \in 1..(Len(then) - m) : rest[i] = then[m + i]
  BY <1>1, <1>5, YoungFacts
<1>7. /\ \A i \in 1..m : then[i] >= Minute
      /\ m < Len(then) => then[m + 1] < Minute
  BY <1>1, <1>5, PoppedOnce DEF PoppedIs, AreOld
<1>8. PICK n \in Nat : n = Len(ages)
  BY DEF Ages
<1>9. /\ k \in 0..n /\ m \in 0..(n - k) /\ Len(old) = n /\ Len(then) = n - k
      /\ Len(rest) = n - (k + m) /\ Len(young) = n - k
  BY <1>2, <1>4, <1>5, <1>6, <1>8
<1>10. \A i \in 1..n : ages[i] \in 0..Minute
  BY <1>8 DEF Ages
<1>11. ASSUME NEW i \in 1..(n - k) PROVE then[i] = old[k + i]
  <2>1. k + i \in 1..n /\ i \in 1..Len(young) /\ i \in 1..(Len(ages) - k)
    BY <1>8, <1>9
  <2>2. young[i] = ages[k + i]
    BY <1>2, <2>1
  <2> QED BY <1>4, <1>5, <1>8, <2>1, <2>2
<1>12. ASSUME NEW i \in 1..(k + m) PROVE old[i] >= Minute
  <2>1. CASE i <= k
    <3>1. i \in 1..k /\ i \in 1..n
      BY <1>9, <2>1
    <3>2. ages[i] >= Minute /\ ages[i] \in 0..Minute
      BY <1>3, <1>10, <3>1
    <3>3. ~(ages[i] < Minute)
      BY <3>2, Numbers
    <3>4. old[i] = Minute
      BY <1>4, <1>8, <3>1, <3>3
    <3> QED BY <3>4, Numbers
  <2>2. CASE ~(i <= k)
    <3>1. i - k \in 1..m /\ i - k \in 1..(n - k) /\ k + (i - k) = i
      BY <1>9, <2>2
    <3> QED BY <1>7, <1>11, <3>1
  <2> QED BY <2>1, <2>2
<1>13. k + m < n => old[(k + m) + 1] < Minute
  <2> SUFFICES ASSUME k + m < n PROVE old[(k + m) + 1] < Minute
    OBVIOUS
  <2>1. m < Len(then) /\ m + 1 \in 1..(n - k) /\ k + (m + 1) = (k + m) + 1
    BY <1>9
  <2> QED BY <1>7, <1>11, <2>1
<1>14. PoppedIs(old, k + m)
  BY <1>9, <1>12, <1>13 DEF PoppedIs, AreOld
<1>15. ASSUME NEW i \in 1..Len(rest) PROVE rest[i] = old[(k + m) + i]
  <2>1. m + i \in 1..(n - k) /\ k + (m + i) = (k + m) + i /\ i \in 1..(Len(then) - m)
    BY <1>9
  <2> QED BY <1>6, <1>11, <2>1
<1>16. Young(old) = rest
  BY <1>4, <1>6, <1>9, <1>14, <1>15, YoungIs
<1>17. Len(rest) <= Len(young)
  BY <1>9
<1> QED BY <1>1, <1>16, <1>17
-----------------------------------------------------------------------------
(* The queue and the minute *)

\* The holder is in the queue while its call is under way; the limiter's window
\* is what was sent in the last minute, and not more than the budget.
WindowInv ==
  /\ queue \in Seq(Callers) /\ timer \in Nat
  /\ phase # "admit" => queue # <<>>
  /\ minuteCalls \in Ages /\ sent = Young(minuteCalls) /\ Len(sent) <= MinuteBudget

LEMMA SentFacts ==
  ASSUME WindowInv PROVE sent \in Ages /\ Len(sent) \in Nat /\ Young(sent) = sent
<1>1. sent \in Ages /\ Young(sent) = sent
  BY YoungFacts, YoungStays DEF WindowInv
<1> QED BY <1>1 DEF Ages

LEMMA TailQueue ==
  ASSUME queue \in Seq(Callers), queue # <<>>, EndCall
  PROVE  queue' \in Seq(Callers) /\ timer' = 0 /\ phase' = "admit"
BY DEF EndCall

\* 2^n is the number of sets of n things.
LEMMA BackoffNat == ASSUME NEW n \in Nat PROVE Backoff(n) \in Nat
<1>1. IsFiniteSet(1..n) /\ Cardinality(1..n) = n
  <2>1. IsFiniteSet(1..n) /\ Cardinality(1..n) = IF 1 > n THEN 0 ELSE n - 1 + 1
    BY 1 \in Int, n \in Int, FS_Interval
  <2> QED BY <2>1
<1>2. IsFiniteSet(SUBSET (1..n)) /\ Cardinality(SUBSET (1..n)) = 2^n
  BY <1>1, FS_SUBSET
<1>3. 2^n \in Nat
  BY <1>2, FS_CardinalityType
<1> QED BY <1>3, TimeAssumption DEF Backoff

\* A call that goes on keeps its place, one that ends leaves the queue.
LEMMA RetryTyped ==
  ASSUME IInv, WindowInv, NEW delay \in Nat \cup {Null}, queue # <<>>,
         EndCall \/ Retry(delay)
  PROVE  /\ queue' \in Seq(Callers) /\ timer' \in Nat
         /\ phase' # "admit" => queue' # <<>>
<1>1. CASE EndCall
  BY <1>1, TailQueue DEF WindowInv
<1>2. CASE ~EndCall
  <2>1. phase' = "sleep" /\ timer' = Newer(Backoff(attempt), delay) /\ queue' = queue
    BY <1>2 DEF Retry
  <2>2. Backoff(attempt) \in Nat
    BY BackoffNat DEF IInv, CountersOK
  <2>3. timer' \in Nat
    BY <2>1, <2>2 DEF Newer
  <2> QED BY <2>1, <2>3 DEF WindowInv
<1> QED BY <1>1, <1>2

\* The window, when only the queue moves.
LEMMA WindowStays ==
  ASSUME WindowInv, UNCHANGED <<minuteCalls, sent>>,
         queue' \in Seq(Callers), timer' \in Nat, phase' # "admit" => queue' # <<>>
  PROVE  WindowInv'
BY DEF WindowInv, Young, Popped, AreOld, Ages

LEMMA WindowOfTick == IInv /\ WindowInv /\ Tick => WindowInv'
<1> SUFFICES ASSUME WindowInv, Tick PROVE WindowInv'
  OBVIOUS
<1>1. minuteCalls' = Older(minuteCalls) /\ sent' = Young(Older(sent)) /\ timer' = Less(timer)
      /\ UNCHANGED <<queue, phase>>
  BY DEF Tick
<1>2. Young(Older(minuteCalls)) = Young(Older(sent)) /\ Len(Young(Older(sent))) <= Len(sent)
  BY YoungAges DEF WindowInv
<1>3. PICK older : older = Older(minuteCalls)
  OBVIOUS
<1>4. older \in Ages
  BY <1>3, OlderFacts DEF WindowInv
<1>5. sent' = Young(minuteCalls')
  BY <1>1, <1>2
<1>6. Len(sent') <= MinuteBudget
  <2>1. sent' \in Ages
    BY <1>1, <1>2, <1>3, <1>4, YoungFacts
  <2>2. Len(sent') \in Nat /\ Len(sent) \in Nat /\ Len(sent') <= Len(sent)
    BY <1>1, <1>2, <2>1, SentFacts DEF Ages
  <2> QED BY <2>2 DEF WindowInv
<1>7. timer' \in Nat
  BY <1>1 DEF Less, WindowInv
<1> QED BY <1>1, <1>3, <1>4, <1>5, <1>6, <1>7 DEF WindowInv, Young, Popped, AreOld, Ages

\* A look at the window keeps what was sent in it.
LEMMA WindowLooked ==
  ASSUME WindowInv, minuteCalls' = Young(minuteCalls), sent' = sent,
         queue' \in Seq(Callers), timer' \in Nat, phase' # "admit" => queue' # <<>>
  PROVE  WindowInv'
<1>1. PICK young : young = Young(minuteCalls)
  OBVIOUS
<1>2. young \in Ages /\ Young(young) = young
  BY <1>1, YoungFacts, YoungStays DEF WindowInv
<1>3. minuteCalls' = young /\ sent' = young /\ Len(sent') <= MinuteBudget
  BY <1>1 DEF WindowInv
<1>4. sent' = Young(minuteCalls')
  BY <1>2, <1>3
<1> QED BY <1>2, <1>3, <1>4 DEF WindowInv, Young, Popped, AreOld, Ages

LEMMA WindowOfCall == ASSUME NEW c \in Callers PROVE IInv /\ WindowInv /\ Call(c) => WindowInv'
<1> SUFFICES ASSUME WindowInv, Call(c) PROVE WindowInv'
  OBVIOUS
<1>1. /\ queue' = Append(queue, c) /\ queue \in Seq(Callers)
      /\ UNCHANGED <<minuteCalls, sent, phase, timer>> /\ timer \in Nat
  BY DEF Call, WindowInv, budgetVars, history
<1>2. queue' \in Seq(Callers) /\ queue' # <<>>
  BY <1>1
<1> QED BY <1>1, <1>2, WindowStays

LEMMA WindowOfRefuse == IInv /\ WindowInv /\ Refuse => WindowInv'
<1> SUFFICES ASSUME WindowInv, Refuse PROVE WindowInv'
  OBVIOUS
<1>1. minuteCalls' = Young(minuteCalls) /\ sent' = sent /\ EndCall /\ queue # <<>>
  BY DEF Refuse, Look, history
<1>2. queue' \in Seq(Callers) /\ timer' = 0 /\ phase' = "admit"
  BY <1>1, TailQueue DEF WindowInv
<1> QED BY <1>1, <1>2, WindowLooked

\* What a request that is not refused finds in the window.
LEMMA WindowFree ==
  ASSUME IInv, WindowInv, ~Refused
  PROVE  /\ WindowWait \in Nat
         /\ WindowWait = 0 => Len(Young(minuteCalls)) + 1 <= MinuteBudget
<1>1. PICK calls : calls = Young(minuteCalls)
  OBVIOUS
<1>2. /\ calls \in Ages /\ Len(calls) \in Nat /\ (Len(calls) > 0 => calls[1] < Minute)
      /\ (Len(calls) > 0 => calls[1] \in 0..Minute)
  <2>1. calls \in Ages /\ (Len(calls) > 0 => calls[1] < Minute)
    BY <1>1, YoungFacts DEF WindowInv
  <2> QED BY <2>1 DEF Ages
<1>3. MinuteCeiling \in Nat \ {0} /\ MinuteCeiling <= MinuteBudget
  <2>1. server.minuteLimit \in Counts
    BY DEF IInv, CountersOK
  <2>2. MinuteBudget \in Nat \ {0}
    BY BudgetAssumption
  <2>3. MinuteCeiling # 0
    BY DEF Refused
  <2>4. MinuteCeiling \in Nat /\ MinuteCeiling <= MinuteBudget
    BY <2>1, <2>2 DEF MinuteCeiling, Ceiling, Smaller, Counts
  <2> QED BY <2>3, <2>4
<1>4. WindowWait = IF Len(calls) >= MinuteCeiling THEN Minute - calls[1] ELSE 0
  BY <1>1 DEF WindowWait
<1>5. CASE Len(calls) >= MinuteCeiling
  <2>1. Len(calls) > 0
    BY <1>2, <1>3, <1>5
  <2>2. WindowWait \in Nat \ {0}
    BY <1>2, <1>4, <1>5, <2>1, Numbers
  <2> QED BY <2>2
<1>6. CASE ~(Len(calls) >= MinuteCeiling)
  <2>1. MinuteBudget \in Nat
    BY BudgetAssumption
  <2>2. Len(calls) + 1 <= MinuteBudget
    BY <1>2, <1>3, <1>6, <2>1
  <2> QED BY <1>1, <1>4, <1>6, <2>2
<1> QED BY <1>5, <1>6

LEMMA WindowOfWait == IInv /\ WindowInv /\ Wait => WindowInv'
<1> SUFFICES ASSUME IInv, WindowInv, Wait PROVE WindowInv'
  OBVIOUS
<1>1. /\ minuteCalls' = Young(minuteCalls) /\ sent' = sent /\ timer' = Delay
      /\ queue' = queue /\ queue # <<>> /\ ~Refused
  BY DEF Wait, Look, history
<1>2. Delay \in Nat
  <2>1. WindowWait \in Nat
    BY <1>1, WindowFree
  <2>2. IntervalWait \in Nat
    BY Numbers DEF IntervalWait, IInv, CountersOK
  <2>3. ServerWait \in Nat
    BY Numbers DEF ServerWait, IInv, CountersOK
  <2> QED BY <2>1, <2>2, <2>3 DEF Delay, Larger
<1>3. queue' \in Seq(Callers)
  BY <1>1 DEF WindowInv
<1> QED BY <1>1, <1>2, <1>3, WindowLooked

LEMMA WindowOfSend == IInv /\ WindowInv /\ Send => WindowInv'
<1> SUFFICES ASSUME IInv, WindowInv, Send PROVE WindowInv'
  OBVIOUS
<1>1. /\ minuteCalls' = Append(Young(minuteCalls), 0) /\ sent' = Append(sent, 0)
      /\ UNCHANGED <<queue, timer>> /\ queue # <<>> /\ ~Refused /\ NoWait
  BY DEF Send, Look
<1>2. PICK more : more = Append(Young(minuteCalls), 0)
  OBVIOUS
<1>3. more \in Ages /\ Len(more) = Len(Young(minuteCalls)) + 1 /\ Young(more) = more
  BY <1>2, YoungSent DEF WindowInv
<1>4. Len(Young(minuteCalls)) + 1 <= MinuteBudget
  BY <1>1, WindowFree DEF NoWait
<1>5. minuteCalls' = more /\ sent' = more
  BY <1>1, <1>2 DEF WindowInv
<1>6. sent' = Young(minuteCalls') /\ Len(sent') <= MinuteBudget
  BY <1>3, <1>4, <1>5
<1> QED BY <1>1, <1>3, <1>5, <1>6 DEF WindowInv, Young, Popped, AreOld, Ages

LEMMA WindowOfAnswer == IInv /\ WindowInv /\ Answer => WindowInv'
<1> SUFFICES ASSUME IInv, WindowInv, Answer PROVE WindowInv'
  OBVIOUS
<1>1. UNCHANGED <<minuteCalls, sent>>
  BY DEF Answer, LoseAnswer, Succeed, Unavailable, Reject, Limit, budgetVars, history
<1>2. phase = "flight"
  BY DEF Answer, LoseAnswer, Succeed, Unavailable, Reject, Limit
<1>3. queue # <<>>
  BY <1>2 DEF WindowInv
<1>4. \E delay \in Nat \cup {Null} : EndCall \/ Retry(delay)
  BY DEF Answer, LoseAnswer, Succeed, Unavailable, Reject, Limit
<1>5. queue' \in Seq(Callers) /\ timer' \in Nat /\ (phase' # "admit" => queue' # <<>>)
  BY <1>3, <1>4, RetryTyped
<1> QED BY <1>1, <1>5, WindowStays

LEMMA WindowStarts == Init => WindowInv
<1> SUFFICES ASSUME Init PROVE WindowInv
  OBVIOUS
<1>1. PICK none : none = <<>>
  OBVIOUS
<1>2. none \in Ages /\ Len(none) = 0
  BY <1>1 DEF Ages
<1>3. PoppedIs(none, 0)
  BY <1>2 DEF PoppedIs, AreOld
<1>4. Young(none) = none
  BY <1>2, <1>3, YoungIs
<1>5. /\ minuteCalls = none /\ sent = none /\ queue = <<>> /\ phase = "admit" /\ timer = 0
      /\ MinuteBudget \in Nat
  BY <1>1, BudgetAssumption DEF Init
<1> QED BY <1>2, <1>4, <1>5 DEF WindowInv

\* The queue and the window keep their shape, whatever calls, answers and
\* midnights follow each other.
THEOREM WindowInductive == Spec => []WindowInv
<1>1. IInv /\ WindowInv /\ [Next]_vars => WindowInv'
  <2> SUFFICES ASSUME IInv, WindowInv, [Next]_vars PROVE WindowInv'
    OBVIOUS
  <2>1. CASE Tick BY <2>1, WindowOfTick
  <2>2. CASE NewDay \/ Wake \/ UNCHANGED vars
    <3>1. /\ UNCHANGED <<minuteCalls, sent, queue, timer>> /\ (phase' = phase \/ Wake)
      BY <2>2 DEF NewDay, Wake, vars, budgetVars, serverVars, circuitVars, callVars, history
    <3>2. phase' # "admit" => queue # <<>>
      BY <3>1 DEF Wake, WindowInv
    <3> QED BY <3>1, <3>2, WindowStays DEF WindowInv
  <2>3. CASE \E c \in Callers : Call(c) BY <2>3, WindowOfCall
  <2>4. CASE Refuse BY <2>4, WindowOfRefuse
  <2>5. CASE Wait BY <2>5, WindowOfWait
  <2>6. CASE Send BY <2>6, WindowOfSend
  <2>7. CASE Answer BY <2>7, WindowOfAnswer
  <2> QED BY <2>1, <2>2, <2>3, <2>4, <2>5, <2>6, <2>7 DEF Next, Holder
<1> QED BY WindowStarts, <1>1, Inductive, PTL DEF Spec

\* The variables keep their types.
THEOREM TypeCorrect == Spec => []TypeOK
<1>1. IInv /\ WindowInv => TypeOK
  <2> SUFFICES ASSUME IInv, WindowInv PROVE TypeOK
    OBVIOUS
  <2>1. minuteCalls \in Seq(0..Minute) /\ sent \in Seq(0..Minute)
    BY SentFacts DEF WindowInv, Ages
  <2> QED BY <2>1 DEF IInv, WindowInv, TypeOK
<1> QED BY Inductive, WindowInductive, <1>1, PTL

\* No 60 seconds see more requests than the minute budget.
THEOREM MinuteBudgetSafe == Spec => []MinuteBudgetHeld
<1>1. WindowInv => MinuteBudgetHeld
  BY DEF WindowInv, MinuteBudgetHeld
<1> QED BY WindowInductive, <1>1, PTL
-----------------------------------------------------------------------------
(* What is popped *)

OldestFirst(ages) == \A i, j \in 1..Len(ages) : i < j => ages[i] >= ages[j]

LEMMA OlderOrdered ==
  ASSUME NEW ages \in Ages, OldestFirst(ages) PROVE OldestFirst(Older(ages))
<1>1. PICK older : older = Older(ages)
  OBVIOUS
<1>2. /\ Len(older) = Len(ages)
      /\ \A i \in 1..Len(ages) : older[i] = IF ages[i] < Minute THEN ages[i] + 1 ELSE Minute
  BY <1>1, OlderFacts
<1>3. \A i \in 1..Len(ages) : ages[i] \in 0..Minute
  BY DEF Ages
<1>4. ASSUME NEW i \in 1..Len(ages), NEW j \in 1..Len(ages), i < j PROVE older[i] >= older[j]
  <2>1. ages[i] >= ages[j] /\ ages[i] \in 0..Minute /\ ages[j] \in 0..Minute
    BY <1>3, <1>4 DEF OldestFirst
  <2> QED BY <1>2, <2>1, Numbers
<1>5. OldestFirst(older)
  BY <1>2, <1>4 DEF OldestFirst
<1> QED BY <1>1, <1>5

LEMMA YoungOrdered ==
  ASSUME NEW ages \in Ages, OldestFirst(ages)
  PROVE  OldestFirst(Young(ages)) /\ OldestFirst(Append(Young(ages), 0))
<1>1. PICK young, k, n : young = Young(ages) /\ k = Popped(ages) /\ n = Len(ages)
  OBVIOUS
<1>2. /\ young \in Seq(0..Minute) /\ k \in 0..n /\ n \in Nat /\ Len(young) = n - k
      /\ \A i \in 1..(n - k) : young[i] = ages[k + i]
  <2>1. /\ Young(ages) \in Ages /\ Popped(ages) \in 0..Len(ages) /\ Len(ages) \in Nat
        /\ Len(Young(ages)) = Len(ages) - Popped(ages)
        /\ \A i \in 1..(Len(ages) - Popped(ages)) : Young(ages)[i] = ages[Popped(ages) + i]
    BY YoungFacts DEF Ages
  <2> QED BY <1>1, <2>1 DEF Ages
<1>3. ASSUME NEW i \in 1..(n - k), NEW j \in 1..(n - k), i < j PROVE young[i] >= young[j]
  <2>1. k + i \in 1..n /\ k + j \in 1..n /\ k + i < k + j
    BY <1>2, <1>3
  <2>2. ages[k + i] >= ages[k + j]
    BY <1>1, <2>1 DEF OldestFirst
  <2> QED BY <1>2, <2>2
<1>4. OldestFirst(young)
  BY <1>2, <1>3 DEF OldestFirst
<1>5. PICK more : more = Append(young, 0)
  OBVIOUS
<1>6. 0 \in 0..Minute
  BY Numbers
<1>7. /\ Len(more) = (n - k) + 1 /\ more[(n - k) + 1] = 0
      /\ \A i \in 1..(n - k) : more[i] = young[i] /\ young[i] \in 0..Minute
  <2>1. PICK m \in Nat : m = n - k
    BY ONLY <1>2
  <2>2. young \in Seq(0..Minute) /\ Len(young) = m
    BY ONLY <1>2, <2>1
  <2>3. /\ Len(more) = m + 1 /\ more[m + 1] = 0
        /\ \A i \in 1..m : more[i] = young[i] /\ young[i] \in 0..Minute
    <3>1. /\ Len(more) = Len(young) + 1 /\ more[Len(young) + 1] = 0
          /\ \A i \in 1..Len(young) : more[i] = young[i]
      BY ONLY <1>5, <1>6, <2>2, AppendProperties
    <3>2. \A i \in 1..Len(young) : young[i] \in 0..Minute
      BY ONLY <2>2, ElementOfSeq
    <3> QED BY ONLY <2>2, <3>1, <3>2
  <2> QED BY ONLY <2>1, <2>3
<1>8. ASSUME NEW i \in 1..((n - k) + 1), NEW j \in 1..((n - k) + 1), i < j
      PROVE  more[i] >= more[j]
  <2>1. i \in 1..(n - k) /\ (j \in 1..(n - k) \/ j = (n - k) + 1)
    BY <1>2, <1>8
  <2>2. CASE j = (n - k) + 1
    BY <1>7, <2>1, <2>2
  <2>3. CASE j \in 1..(n - k)
    BY <1>3, <1>7, <1>8, <2>1, <2>3
  <2> QED BY <2>1, <2>2, <2>3
<1>9. OldestFirst(more)
  BY <1>7, <1>8 DEF OldestFirst
<1> QED BY <1>1, <1>4, <1>5, <1>9

\* Of ages that are listed oldest first exactly the old ones are popped.
LEMMA PoppedAreOld ==
  ASSUME NEW ages \in Ages, OldestFirst(ages)
  PROVE  \A i \in 1..Len(ages) : i <= Popped(ages) <=> ages[i] >= Minute
<1>1. PICK k, n : k = Popped(ages) /\ n = Len(ages)
  OBVIOUS
<1>2. /\ k \in 0..n /\ n \in Nat /\ (\A i \in 1..k : ages[i] >= Minute)
      /\ (k < n => ages[k + 1] < Minute)
      /\ \A i \in 1..n : ages[i] \in 0..Minute
  <2>1. PoppedIs(ages, Popped(ages))
    BY PoppedOnce
  <2>2. Len(ages) \in Nat /\ \A i \in 1..Len(ages) : ages[i] \in 0..Minute
    BY DEF Ages
  <2>3. PoppedIs(ages, k)
    BY <1>1, <2>1
  <2> QED BY <1>1, <2>2, <2>3 DEF PoppedIs, AreOld
<1>3. ASSUME NEW i \in 1..n, ~(i <= k) PROVE ~(ages[i] >= Minute)
  <2>1. k < n /\ k + 1 \in 1..n /\ (i = k + 1 \/ k + 1 < i)
    BY <1>2, <1>3
  <2>2. i = k + 1 \/ ages[k + 1] >= ages[i]
    BY <1>1, <2>1 DEF OldestFirst
  <2>3. ages[k + 1] < Minute /\ ages[k + 1] \in 0..Minute /\ ages[i] \in 0..Minute
    BY <1>2, <2>1
  <2> QED BY <2>2, <2>3, Numbers
<1>4. ASSUME NEW i \in 1..n, i <= k PROVE ages[i] >= Minute
  <2>1. i \in 1..k
    BY <1>2, <1>4
  <2> QED BY <1>2, <2>1
<1> QED BY <1>1, <1>3, <1>4

LEMMA OrderKept == WindowInv /\ OldestFirst(minuteCalls) /\ [Next]_vars => OldestFirst(minuteCalls')
<1> SUFFICES ASSUME WindowInv, OldestFirst(minuteCalls), [Next]_vars
             PROVE  OldestFirst(minuteCalls')
  OBVIOUS
<1>1. minuteCalls' \in {minuteCalls, Older(minuteCalls), Young(minuteCalls),
                        Append(Young(minuteCalls), 0)}
  BY DEF Next, Holder, Tick, NewDay, Call, Refuse, Wait, Send, Wake, Answer, LoseAnswer,
         Succeed, Unavailable, Reject, Limit, vars, budgetVars
<1>2. minuteCalls \in Ages
  BY DEF WindowInv
<1>3. /\ OldestFirst(Older(minuteCalls)) /\ OldestFirst(Young(minuteCalls))
      /\ OldestFirst(Append(Young(minuteCalls), 0))
  BY <1>2, OlderOrdered, YoungOrdered
<1> QED BY <1>1, <1>3

\* What the limiter pops from the left is exactly what is a minute old: it
\* forgets no request too early and keeps none too long.
THEOREM WindowExact ==
  Spec => [](\A i \in 1..Len(minuteCalls) :
               i <= Popped(minuteCalls) <=> minuteCalls[i] >= Minute)
<1> DEFINE Ordered == OldestFirst(minuteCalls)
           Exact   == \A i \in 1..Len(minuteCalls) :
                        i <= Popped(minuteCalls) <=> minuteCalls[i] >= Minute
<1>1. Init => Ordered
  BY DEF Init, OldestFirst
<1>2. WindowInv /\ Ordered /\ [Next]_vars => Ordered'
  BY OrderKept DEF OldestFirst
<1>3. WindowInv /\ Ordered => Exact
  BY PoppedAreOld DEF WindowInv
<1> QED BY <1>1, <1>2, <1>3, WindowInductive, PTL DEF Spec
=============================================================================

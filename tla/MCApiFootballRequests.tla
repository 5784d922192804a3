----------------------- MODULE MCApiFootballRequests -----------------------
(* A small limiter.  A minute of three ticks; two retries, so that the second *)
(* limit in a row opens the circuit inside one call; answers without quota    *)
(* headers, with one request left, with nothing left of the minute or the     *)
(* day, and with server limits below the local ones.                          *)
EXTENDS ApiFootballRequests

QuotaHeaders ==
  {Nothing,
   [Nothing EXCEPT !.daily = 1, !.minute = 1],
   [Nothing EXCEPT !.minute = 0],
   [Nothing EXCEPT !.daily = 0],
   [Nothing EXCEPT !.dailyLimit = 1, !.minuteLimit = 1]}
=============================================================================

---------------------------- MODULE MCDailyPicks ----------------------------
(* Small instances of DailyPicks.  Three fixtures and two picks; new odds turn *)
(* the ranking around.                                                        *)
EXTENDS DailyPicks, TLC

CONSTANTS early, late, night

ThreeFixtures == <<early, late, night>>

\* The early match is the better bet until its odds move.
ExpectedValues ==
  <<early, 0>> :> 3 @@ <<early, 1>> :> 1 @@
  <<late, 0>> :> 2 @@ <<late, 1>> :> 3 @@
  <<night, 0>> :> 2 @@ <<night, 1>> :> 0
=============================================================================

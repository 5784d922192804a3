---------------------------- MODULE MCPreKickoff ----------------------------
(* Two supported fixtures and one that is not; three moments, so up to three    *)
(* runs, in which each fixture crosses from one window into the next.           *)
EXTENDS PreKickoff, TLC

CONSTANTS soon, later, friendly

Kickoffs == soon :> 60 @@ later :> 80 @@ friendly :> 10
HalfAnHour == {-30, 30}
=============================================================================

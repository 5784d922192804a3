----------------------------- MODULE MCDatabase -----------------------------
(***************************************************************************)
(* The writers of the database under fair scheduling: Settlement with two   *)
(* fixtures and a provider that can be down, ReferenceSync with two syncs   *)
(* of one fixture and of the squads of its teams, and Backfill with two     *)
(* runs over days or over league seasons.  They share no row in these       *)
(* models: `program` says which one a behaviour is about, and the others    *)
(* stay in their initial states.                                            *)
(***************************************************************************)
EXTENDS MCSettlement, ReferenceSync, Backfill

CONSTANTS hosts, guests, game, player, league, cup

VARIABLE program

databaseVars == <<vars, referenceVars, backfillVars, program>>

SquadsOfGame == <<hosts, guests>>

\* The provider's versions of the rows: the kick-off moves, then the match goes
\* live; the player changes sides, then his name is corrected.
FactsOf(e) ==
  CASE e = game   -> <<<<"noon", "scheduled">>, <<"evening", "scheduled">>,
                       <<"evening", "live">>>>
    [] e = player -> <<<<guests, "P. Ayer">>, <<hosts, "P. Ayer">>, <<hosts, "P. Ayers">>>>
    [] OTHER      -> <<<<e, "club">>, <<e, "club">>, <<e, "club">>>>

FactsByVersion == [e \in Entities |-> [v \in 0..MaxVersion |-> FactsOf(e)[v + 1]]]

ListingOrders == {<<hosts, guests, game>>, <<guests, hosts, game>>}

\* In its last version the fixture is listed with other teams.
LastMisnamed == {<<game, 2>>}

ThreeDaysOrTwo == {<<1, 2, 3>>, <<2, 3>>}
BothOrOne == {<<league, cup>>, <<cup>>}

DatabaseInit ==
  /\ Init
  /\ ReferenceInit
  /\ BackfillInit
  /\ program \in {"settlement", "reference", "backfill"}

\* Bounded syncs and backfills come to their end; settlement may never.
DatabaseNext ==
  \/ /\ program = "settlement"
     /\ Next
     /\ UNCHANGED <<referenceVars, backfillVars, program>>
  \/ /\ program = "reference"
     /\ ReferenceNext
     /\ UNCHANGED <<vars, backfillVars, program>>
  \/ /\ program = "backfill"
     /\ BackfillNext
     /\ UNCHANGED <<vars, referenceVars, program>>
  \/ program # "settlement" /\ UNCHANGED databaseVars

DatabaseSpec == DatabaseInit /\ [][DatabaseNext]_databaseVars

\* The fairness of Settlement and of ReferenceSync, asked of the behaviours that
\* are about them.
DatabaseFairness ==
  /\ \A w \in Workers :
       /\ WF_vars(program = "settlement" /\ Progress(w))
       /\ SF_vars(program = "settlement" /\ LockAndGetLatestBalance(w))
  /\ \A s \in Syncs : WF_referenceVars(program = "reference" /\ SyncStep(s))

DatabaseLiveSpec == DatabaseSpec /\ DatabaseFairness

\* The type invariants of the three modules.
DatabaseTypeOK == TypeOK /\ ReferenceTypeOK /\ BackfillTypeOK
=============================================================================

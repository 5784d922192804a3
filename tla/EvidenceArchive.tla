--------------------------- MODULE EvidenceArchive ---------------------------
(***************************************************************************)
(* The evidence canary and the offline replay of its archive.  A canary run *)
(* fetches the fixtures page and then each endpoint of the target fixture,  *)
(* if the page has it among the next ones; ContentAddressedArchive keeps    *)
(* every payload once, under its hash, and a receipt per capture, before    *)
(* anything of it is parsed; the observations parsed from the payloads go   *)
(* to the ObservationStore, one file each, and a summary is written last.   *)
(* The replay derives the observations of the fixtures the summary names    *)
(* again, from the receipts and payloads of all runs.                       *)
(*                                                                         *)
(* All files but the summary are created exclusively and then filled: a     *)
(* process killed in between leaves a torn file, and whoever comes next     *)
(* takes an existing file for a finished one.  A payload is the version of  *)
(* the page or of an endpoint's sheet, and the provider serves any of them  *)
(* at any time.  The fixture's canonical id, and with it an observation's,  *)
(* depends on the kickoff, that is on the version of the page.              *)
(*                                                                         *)
(* One fixture, one player and one league stand for the run's: what the     *)
(* others do to the target is in PageReceipt and Clash.  The provider gives *)
(* the league the name the canary has for it, and a content one media type. *)
(***************************************************************************)
EXTENDS Naturals

CONSTANTS
  Pages,       \* versions of the fixtures page
  Listed,      \* those that list the target fixture,
  Upcoming,    \* ... as one of the next two of its league
  Broken,      \* those with an item _parse_fixture raises on
  Loose,       \* those with an item that is no object
  Clashing,    \* pairs of pages that differ in a team's name; <<k, k>>: a page
               \* that has two names for a team of its next fixtures
  Endpoints,   \* injuries, lineups: fetched in any order here
  Sheets,      \* versions of what an endpoint serves
  Unparsable,  \* those of them the parser or the adapter refuses
  Naming,      \* the team and name a sheet of an endpoint registers the player
  Nobody,      \* under, or nobody: injuries register players, lineups do not
  MaxDays,     \* bound: the calendar
  MaxCanaries, \* bound: canary runs
  MaxReplays,  \* bound: replays
  MaxKilled,   \* bound: processes killed
  Absent, Half, Whole  \* states of a file

ASSUME ArchiveAssumption ==
  /\ {MaxCanaries, MaxReplays, MaxKilled} \subseteq Nat /\ MaxDays \in Nat \ {0}
  /\ Upcoming \subseteq Listed /\ Listed \cup Broken \cup Loose \subseteq Pages
  /\ Absent # Half /\ Half # Whole /\ Whole # Absent

PageUrl == "fixtures"
ASSUME PageAssumption == PageUrl \notin Endpoints

Blobs == ({PageUrl} \X Pages) \cup (Endpoints \X Sheets)

VARIABLES
  day,
  payloads,      \* payload files, by content
  receipts,      \* receipt files, by <<day, content>>: those of one day and
                 \* content, kept per capture, are one here, torn if one is
  store,         \* observation files, by <<page, endpoint, sheet>>
  summary,       \* the canary's summary file
  named,         \* the target is one of the fixtures the summary names
  canary,        \* the canary process: [at, page, blob, todo, out]
  replay,        \* the replay process: [at, out]
  replayed,      \* history: how the last replay ended, with no canary since
  canaries, replays, killed  \* bounds

archiveFiles == <<payloads, receipts>>
report == <<summary, named>>
spent == <<canaries, replays, killed>>
archiveVars == <<day, archiveFiles, store, report, canary, replay, replayed, spent>>

NoBlob == <<>>
CanaryIdle == [at |-> "idle", page |-> NoBlob, blob |-> NoBlob, todo |-> {}, out |-> {}]
ReplayIdle == [at |-> "idle", out |-> {}]

ArchiveInit ==
  /\ day = 1
  /\ payloads = [b \in Blobs |-> Absent]
  /\ receipts = [r \in (1..MaxDays) \X Blobs |-> Absent]
  /\ store = [o \in Pages \X Endpoints \X Sheets |-> Absent]
  /\ summary = Absent /\ named = FALSE
  /\ canary = CanaryIdle /\ replay = ReplayIdle
  /\ replayed = "no"
  /\ canaries = 0 /\ replays = 0 /\ killed = 0

\* Midnight passes; the receipts of a run are kept under its day.  Runs that
\* cross it are left out.
NextDay ==
  /\ day < MaxDays /\ canary.at = "idle"
  /\ day' = day + 1
  /\ UNCHANGED <<archiveFiles, store, report, canary, replay, replayed, spent>>

StartCanary ==
  /\ canary.at = "idle" /\ replay.at = "idle" /\ canaries < MaxCanaries
  /\ canaries' = canaries + 1
  /\ canary' = [CanaryIdle EXCEPT !.at = "get"]
  /\ replayed' = "no"
  /\ UNCHANGED <<day, archiveFiles, store, report, replay, replays, killed>>

\* client.get: the page first, then the endpoints of the target.
GetPage ==
  /\ canary.at = "get" /\ canary.page = NoBlob
  /\ \E k \in Pages :
       canary' = [canary EXCEPT !.at = "payload", !.blob = <<PageUrl, k>>]
  /\ UNCHANGED <<day, archiveFiles, store, report, replay, replayed, spent>>

GetEndpoint ==
  /\ canary.at = "get" /\ canary.page # NoBlob
  /\ \E e \in canary.todo : \E s \in Sheets :
       canary' = [canary EXCEPT !.at = "payload", !.blob = <<e, s>>,
                                !.todo = @ \ {e}]
  /\ UNCHANGED <<day, archiveFiles, store, report, replay, replayed, spent>>

\* The request fails: without a page the run is over, without an endpoint it
\* goes on.
GetFails ==
  /\ canary.at = "get"
  /\ IF canary.page = NoBlob THEN canary' = CanaryIdle
     ELSE \E e \in canary.todo : canary' = [canary EXCEPT !.todo = @ \ {e}]
  /\ UNCHANGED <<day, archiveFiles, store, report, replay, replayed, spent>>

\* _write_exclusive: an existing file, whole or not, is left as it is.
Created(file) == IF file = Absent THEN Whole ELSE file

\* Fault: the receipt is written first.
ArchiveReceiptFirst ==
  /\ canary.at = "payload"
  /\ receipts' = [receipts EXCEPT ![<<day, canary.blob>>] = Created(@)]
  /\ canary' = [canary EXCEPT !.at = "receipt"]
  /\ UNCHANGED <<day, payloads, store, report, replay, replayed, spent>>

\* archive: the payload ...
ArchivePayload ==
  /\ canary.at = "payload"
  /\ payloads' = [payloads EXCEPT ![canary.blob] = Created(@)]
  /\ canary' = [canary EXCEPT !.at = "receipt"]
  /\ UNCHANGED <<day, receipts, store, report, replay, replayed, spent>>

\* Fault: a receipt is named for the day and the URL, and the next one of the
\* day replaces it.
PageReceiptOfTheDay ==
  /\ canary.at = "receipt" /\ canary.page = NoBlob
  /\ LET k == canary.blob[2] IN
     /\ receipts' = [r \in DOMAIN receipts |->
          IF r[1] # day \/ r[2][1] # PageUrl THEN receipts[r]
          ELSE IF r[2] = canary.blob THEN Whole ELSE Absent]
     /\ \/ canary' = CanaryIdle
        \/ /\ k \notin Broken /\ <<k, k>> \notin Clashing
           /\ canary' = [canary EXCEPT !.at = "get", !.blob = NoBlob, !.page = canary.blob,
                            !.todo = IF k \in Upcoming THEN Endpoints ELSE {}]
  /\ UNCHANGED <<day, payloads, store, report, replay, replayed, spent>>

\* ... and the receipt.  Only then is the page parsed and its fixtures are
\* registered, and the run is over if either raises; it is, too, if the page of
\* another league cannot be had or parsed.  Items that are no object are skipped.
PageReceipt ==
  /\ canary.at = "receipt" /\ canary.page = NoBlob
  /\ receipts' = [receipts EXCEPT ![<<day, canary.blob>>] = Created(@)]
  /\ LET k == canary.blob[2] IN
     \/ canary' = CanaryIdle
     \/ /\ k \notin Broken /\ <<k, k>> \notin Clashing
        /\ canary' = [canary EXCEPT !.at = "get", !.blob = NoBlob, !.page = canary.blob,
                         !.todo = IF k \in Upcoming THEN Endpoints ELSE {}]
  /\ UNCHANGED <<day, payloads, store, report, replay, replayed, spent>>

\* Fault: the adapter asks for the players before they are registered.
ObservedUnregistered(k, blob) ==
  IF blob[2] \in Unparsable \/ Naming[blob] # Nobody THEN {} ELSE {<<k, blob[1], blob[2]>>}

\* What the parser and the adapter make of an endpoint's payload when the
\* fixture is the page's.
Observed(k, blob) == IF blob[2] \in Unparsable THEN {} ELSE {<<k, blob[1], blob[2]>>}

\* An endpoint's payload that cannot be parsed is skipped.  The resolver is the
\* run's own and meets one sheet with the player's name.
EndpointReceipt ==
  /\ canary.at = "receipt" /\ canary.page # NoBlob
  /\ receipts' = [receipts EXCEPT ![<<day, canary.blob>>] = Created(@)]
  /\ canary' = [canary EXCEPT !.at = "get", !.blob = NoBlob,
                              !.out = @ \cup Observed(canary.page[2], canary.blob)]
  /\ UNCHANGED <<day, payloads, store, report, replay, replayed, spent>>

EndpointsDone ==
  /\ canary.at = "get" /\ canary.page # NoBlob /\ canary.todo = {}
  /\ canary' = [canary EXCEPT !.at = "append"]
  /\ UNCHANGED <<day, archiveFiles, store, report, replay, replayed, spent>>

\* append, for one observation: a new file, or a duplicate that is read back
\* and compared.
AppendObservation(o) ==
  /\ store[o] # Half
  /\ store' = [store EXCEPT ![o] = Whole]

CanaryAppend ==
  /\ canary.at = "append"
  /\ \E o \in canary.out :
       AppendObservation(o) /\ canary' = [canary EXCEPT !.out = @ \ {o}]
  /\ UNCHANGED <<day, archiveFiles, report, replay, replayed, spent>>

\* A torn duplicate does not parse: the run ends without its summary.
CanaryAppendFails ==
  /\ canary.at = "append"
  /\ \E o \in canary.out : store[o] = Half
  /\ canary' = CanaryIdle
  /\ UNCHANGED <<day, archiveFiles, store, report, replay, replayed, spent>>

WriteSummary ==
  /\ canary.at = "append" /\ canary.out = {}
  /\ summary' = Whole
  /\ named' = (canary.page[2] \in Upcoming)
  /\ canary' = CanaryIdle
  /\ UNCHANGED <<day, archiveFiles, store, replay, replayed, spent>>

\* The canary is killed, also in the middle of writing a file.
KillCanary ==
  /\ canary.at # "idle" /\ killed < MaxKilled
  /\ killed' = killed + 1
  /\ \/ UNCHANGED <<archiveFiles, store, summary>>
     \/ /\ canary.at = "payload" /\ payloads[canary.blob] = Absent
        /\ payloads' = [payloads EXCEPT ![canary.blob] = Half]
        /\ UNCHANGED <<receipts, store, summary>>
     \/ /\ canary.at = "receipt"
        /\ receipts' = [receipts EXCEPT ![<<day, canary.blob>>] = Half]
        /\ UNCHANGED <<payloads, store, summary>>
     \/ /\ canary.at = "append"
        /\ \E o \in canary.out :
             store[o] = Absent /\ store' = [store EXCEPT ![o] = Half]
        /\ UNCHANGED <<archiveFiles, summary>>
     \/ /\ canary.at = "append" /\ canary.out = {}
        /\ summary' = Half
        /\ UNCHANGED <<archiveFiles, store>>
  /\ canary' = CanaryIdle
  /\ UNCHANGED <<day, named, replay, replayed, canaries, replays>>

\* _load_payloads: of each URL and content the first receipt in the order of
\* days and, within a day, hashes; the later ones add nothing to what follows.
\* The page's URL names the day, an endpoint's does not.
Receipted == {r \in DOMAIN receipts : receipts[r] # Absent}

CapturedPages == {r[2][2] : r \in {r \in Receipted : r[2][1] = PageUrl}}

\* Nothing is torn of what the replay reads, and every page parses, here also
\* the items that are no object.
Replayable ==
  /\ summary = Whole
  /\ \A r \in Receipted :
       /\ receipts[r] = Whole /\ payloads[r[2]] # Absent
       /\ r[2][1] = PageUrl \/ named => payloads[r[2]] = Whole
  /\ CapturedPages \cap (Broken \cup Loose) = {}

\* Two of the summary's fixtures may have a team in common and be taken from
\* pages that do not agree on its name: the resolver refuses the second.
Clash == \E k, l \in CapturedPages : <<k, l>> \in Clashing

\* The page that gives the fixture its id: of the last day that has any with it.
ReplayPages ==
  LET with == {r \in Receipted : r[2][1] = PageUrl /\ r[2][2] \in Listed}
  IN  {r[2][2] : r \in {r \in with : \A q \in with : q[1] <= r[1]}}

ParsedReceipts == {r \in Receipted : r[2][1] \in Endpoints /\ r[2][2] \notin Unparsable}

\* The name the one resolver of the replay keeps for the player: the first.
FirstNames ==
  LET naming == {r \in Receipted : r[2][1] \in Endpoints /\ Naming[r[2]] # Nobody}
  IN  IF naming = {} THEN {Nobody}
      ELSE {Naming[r[2]] : r \in {r \in naming : \A q \in naming : r[1] <= q[1]}}

\* A sheet under another name is caught and noted, and gives nothing.
Derived(k, name) ==
  {<<k, r[2][1], r[2][2]>> : r \in {r \in ParsedReceipts : Naming[r[2]] \in {Nobody, name}}}

\* It is started by hand, when no canary runs and one has written its summary.
\* Of torn payloads also those are refused that it would not parse, if empty.
StartReplay ==
  /\ replay.at = "idle" /\ canary.at = "idle"
  /\ replays < MaxReplays /\ summary # Absent
  /\ replays' = replays + 1
  /\ \/ /\ Replayable
        /\ \/ ~named /\ replay' = [at |-> "append", out |-> {}]
           \/ /\ named
              /\ \E k \in ReplayPages : \E name \in FirstNames :
                   replay' = [at |-> "append", out |-> Derived(k, name)]
        /\ UNCHANGED replayed
     \/ /\ ~Replayable \/ Clash \/ \E r \in Receipted : payloads[r[2]] = Half
        /\ replayed' = "failed" /\ UNCHANGED replay
  /\ UNCHANGED <<day, archiveFiles, store, report, canary, canaries, killed>>

ReplayAppend ==
  /\ replay.at = "append"
  /\ \E o \in replay.out :
       AppendObservation(o) /\ replay' = [replay EXCEPT !.out = @ \ {o}]
  /\ UNCHANGED <<day, archiveFiles, report, canary, replayed, spent>>

EndReplay ==
  /\ replay.at = "append"
  /\ \/ replay.out = {} /\ replayed' = "ok"
     \/ (\E o \in replay.out : store[o] = Half) /\ replayed' = "failed"
  /\ replay' = ReplayIdle
  /\ UNCHANGED <<day, archiveFiles, store, report, canary, spent>>

KillReplay ==
  /\ replay.at # "idle" /\ killed < MaxKilled
  /\ killed' = killed + 1
  /\ \/ UNCHANGED store
     \/ \E o \in replay.out :
          store[o] = Absent /\ store' = [store EXCEPT ![o] = Half]
  /\ replay' = ReplayIdle
  /\ UNCHANGED <<day, archiveFiles, report, canary, replayed, canaries, replays>>

ArchiveNext ==
  \/ NextDay
  \/ StartCanary \/ GetPage \/ GetEndpoint \/ GetFails
  \/ ArchivePayload \/ PageReceipt \/ EndpointReceipt \/ EndpointsDone
  \/ CanaryAppend \/ CanaryAppendFails \/ WriteSummary \/ KillCanary
  \/ StartReplay \/ ReplayAppend \/ EndReplay \/ KillReplay

ArchiveSpec == ArchiveInit /\ [][ArchiveNext]_archiveVars
-----------------------------------------------------------------------------
(* Properties *)

\* Types of the variables.
ArchiveTypeOK ==
  LET Files == {Absent, Half, Whole}
      Ids   == Pages \X Endpoints \X Sheets
  IN  /\ day \in 1..MaxDays
      /\ payloads \in [Blobs -> Files]
      /\ receipts \in [(1..MaxDays) \X Blobs -> Files]
      /\ store \in [Ids -> Files] /\ summary \in Files /\ named \in BOOLEAN
      /\ canary \in [at : {"idle", "get", "payload", "receipt", "append"},
                     page : ({PageUrl} \X Pages) \cup {NoBlob}, blob : Blobs \cup {NoBlob},
                     todo : SUBSET Endpoints, out : SUBSET Ids]
      /\ replay \in [at : {"idle", "append"}, out : SUBSET Ids]
      /\ replayed \in {"no", "ok", "failed"}

AnyTorn ==
  \/ \E b \in Blobs : payloads[b] = Half
  \/ \E r \in DOMAIN receipts : receipts[r] = Half
  \/ \E o \in DOMAIN store : store[o] = Half
  \/ summary = Half

\* What was captured can be replayed, in whatever state of its work a canary
\* was killed: no receipt is without its payload.  What spoils this spoils it
\* for good: a file torn because a process was killed filling it, which every
\* later run takes for the archived one, a page that was archived before it
\* turned out not to parse, or one with an item the canary had skipped; and
\* pages that do not agree on a team's name can.
ArchiveIsReplayable ==
  replayed = "failed" =>
    AnyTorn \/ Clash \/ CapturedPages \cap (Broken \cup Loose) # {}

\* The archive is the record and the store its index.  No observation is
\* stored of which the page and the payload have no receipt.  When a replay
\* has ended whose summary names the fixture, the archived payloads that parse
\* have their observations, the ones that canary runs had captured and lost
\* (killed, or stopped by a torn duplicate) before they stored anything
\* included, if they have the name the player was first archived with or none;
\* those with another one are left out of a replay that ends well.
StoreMatchesArchive ==
  LET CapturedSheets ==
        {b \in Endpoints \X Sheets : \E d \in 1..MaxDays : receipts[<<d, b>>] # Absent}
  IN  /\ \A o \in DOMAIN store : store[o] # Absent =>
           o[1] \in CapturedPages /\ <<o[2], o[3]>> \in CapturedSheets
      /\ replayed = "ok" /\ named =>
           \E k \in Pages : \E name \in FirstNames : \A b \in CapturedSheets :
             /\ b[2] \notin Unparsable
             /\ Naming[b] \in {Nobody, name}
             => store[<<k, b[1], b[2]>>] = Whole

\* A replay repeats what the canary runs did and adds nothing, if no process
\* was ever killed and one page with the fixture was archived: whatever it is
\* about to store is there, from whichever run, whichever of their pages did
\* not parse and whichever requests failed.
ReplayRepeats ==
  /\ replay.at = "append" /\ killed = 0
  /\ \A k, l \in CapturedPages \cap Listed : k = l
  => \A o \in replay.out : store[o] = Whole
=============================================================================

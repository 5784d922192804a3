---------------------------- MODULE EvidenceProofs ----------------------------
(***************************************************************************)
(* For every cache lifetime, budget, threshold and sequence of contents,    *)
(* retries and kills, a client of EvidenceFetch spares a host that refuses  *)
(* and dates its evidence truthfully; a replay of EvidenceArchive fails for *)
(* named reasons only, stores what the archive has and repeats what canary  *)
(* runs did; whatever sessions of MatchEvidence sync and commit in whatever *)
(* order, a committed analysis can be repeated for its decision time; and   *)
(* for every season, a backtest of Backtest counts every fixture once.      *)
(***************************************************************************)
EXTENDS MCEvidence, FiniteSetTheorems, WellFoundedInduction, TLAPS

\* The entry's content was served between its request and its capture.
Dated(e) == e.at <= seconds /\ \E t \in e.asked..e.at : e.content \in history[t]

\* A dated entry with the ETag of its own content, which a 304 may confirm.
Sound(e) == Dated(e) /\ e.etag = e.content

Asking == client.at \in {"ask", "wait"}

\* Refusals are failures.  What a fetch adds to them is bounded by its retries,
\* counted from a breaker that was closed when it began.
BreakerInv ==
  /\ refused <= failures
  /\ refused <= CircuitThreshold + MaxRetries
  /\ Asking => refused <= (CircuitThreshold - 1) + client.attempts

\* Unless a process was killed between the writes, everything a client holds is
\* sound, and so is what the two files say together, except between the
\* writes, when the content file is already the new entry's.
CacheInv ==
  ~split =>
    /\ metadata # TornFile
    /\ \A e \in client.cached \cup client.fetched \cup result : Sound(e)
    /\ client.at # "metadata" => \A e \in Cached : Sound(e)
    /\ client.at = "metadata" => \A e \in client.fetched : body = e.content
    /\ client.at = "wait" => client.asked <= seconds

FetchInv == FetchTypeOK /\ BreakerInv /\ CacheInv

LEMMA FetchTyped == FetchTypeOK /\ [FetchNext]_fetchVars => FetchTypeOK'
<1> SUFFICES ASSUME FetchTypeOK, [FetchNext]_fetchVars PROVE FetchTypeOK'
  OBVIOUS
<1>a. /\ CacheTtl \in Nat /\ RequestBudget \in Nat /\ MaxRetries \in Nat /\ MaxTicks \in Nat
      /\ MaxFetches \in Nat /\ MaxKills \in Nat
  BY FetchAssumption DEF FetchAssumption
<1>b. Resting \in Clients
  BY <1>a DEF Resting, Clients, Times
<1>c. Resting.at = "idle" /\ Resting.fetched = {} /\ Resting.cached = {}
  BY DEF Resting
<1> USE <1>a, <1>b, <1>c DEF FetchTypeOK
<1>d. metadata # TornFile \/ body = NoFile =>
        Cached \subseteq Entries /\ \A x, y \in Cached : x = y
  <2>1. CASE NoFile \in {body, metadata}
    BY <2>1 DEF Cached
  <2>2. CASE NoFile \notin {body, metadata} /\ metadata # TornFile
    <3>1. body \in Contents \cup {TornFile}
          /\ metadata \in Stamps
      BY <2>2
    <3>2. [content |-> body, etag |-> metadata.etag, at |-> metadata.at,
           asked |-> metadata.asked] \in Entries
      BY <3>1 DEF Entries, Stamps
    <3> QED BY <2>2, <3>2 DEF Cached
  <2> QED BY <2>1, <2>2
<1>1. CASE Second
  BY <1>1 DEF Second, disk, counters, Times
<1>2. CASE SourceChanges
  BY <1>2 DEF SourceChanges, disk, counters
<1>3. CASE HitCache
  <2>1. result' \subseteq Entries /\ \A x, y \in result' : x = y
    BY <1>3, <1>d DEF HitCache
  <2> QED BY <1>3, <2>1 DEF HitCache, source, disk, counters
<1>4. CASE BeginFetch
  <2>1. Cached \subseteq Entries /\ \A x, y \in Cached : x = y
    BY <1>4, <1>d DEF BeginFetch, Cached
  <2>2. client' \in Clients /\ client'.at = "ask" /\ client'.cached = Cached /\ client'.fetched = {}
    BY <1>4, <2>1 DEF BeginFetch, Clients, Resting
  <2> QED BY <1>4, <2>1, <2>2 DEF BeginFetch, source, disk, counters
<1>5. CASE SendRequest
  <2>1. client' \in Clients /\ client'.cached = client.cached /\ client'.fetched = client.fetched
    BY <1>5 DEF SendRequest, Clients
  <2> QED BY <1>5, <2>1 DEF SendRequest, source, disk, counters
<1>6. CASE BudgetSpent \/ TransportFails
  BY <1>6 DEF BudgetSpent, TransportFails, source, disk, counters
<1>7. ASSUME Answered PROVE requests' \in 0..RequestBudget
  BY <1>7 DEF Answered
<1>8. ASSUME AskAgain \/ client' = Resting
      PROVE  /\ client' \in Clients /\ client'.at # "wait"
             /\ \A x, y \in client'.cached : x = y
             /\ \A x, y \in client'.fetched : x = y
  <2>1. CASE client.attempts < MaxRetries /\ AskAgain
    <3>1. client' = [client EXCEPT !.at = "ask", !.attempts = @ + 1]
      BY <2>1 DEF AskAgain
    <3>2. client.attempts + 1 \in 0..MaxRetries
      BY <2>1 DEF Clients
    <3> QED BY <3>1, <3>2 DEF Clients
  <2>2. CASE client' = Resting
    BY <2>2
  <2> QED BY <1>8, <2>1, <2>2 DEF AskAgain
<1>9. CASE Refused
  BY <1>9, <1>7, <1>8 DEF Refused, Answered, source, disk
<1>10. CASE ServerError
  BY <1>10, <1>7, <1>8 DEF ServerError, Answered, source, disk
<1>11. CASE ClientError
  BY <1>11, <1>7, <1>8 DEF ClientError, Answered, source, disk
<1>12. CASE Success
  <2>1. \A t \in client.asked..seconds : t \in Times
    BY DEF Times, Clients
  <2>2. Seen \subseteq Contents
    BY <2>1 DEF Seen
  <2>3. ASSUME NEW content \in Contents \cup {TornFile}, NEW etag \in Contents,
               Fetched(content, etag, seconds)
        PROVE  /\ client' \in Clients /\ client'.at = "body"
               /\ client'.cached = client.cached
               /\ \A x, y \in client'.fetched : x = y
    <3> DEFINE entry == [content |-> content, etag |-> etag, at |-> seconds,
                         asked |-> client.asked]
    <3>1. entry \in Entries
      BY <2>3 DEF Entries, Clients
    <3>2. client' = [client EXCEPT !.at = "body", !.fetched = {entry}]
      BY <2>3 DEF Fetched
    <3> HIDE DEF entry
    <3> QED BY <3>1, <3>2 DEF Clients
  <2>4. \E content \in Contents \cup {TornFile}, etag \in Contents :
          Fetched(content, etag, seconds)
    BY <1>12, <2>2 DEF Success, Clients, Entries
  <2> QED BY <1>12, <1>7, <2>3, <2>4 DEF Success, Answered, source, disk
<1>13. CASE WriteBody
  <2>1. body' \in Contents \cup {NoFile, TornFile}
    BY <1>13 DEF WriteBody, Clients, Entries
  <2>2. client' \in Clients /\ client'.at = "metadata"
        /\ client'.cached = client.cached /\ client'.fetched = client.fetched
    BY <1>13 DEF WriteBody, Clients
  <2> QED BY <1>13, <2>1, <2>2 DEF WriteBody, source, counters
<1>14. CASE WriteMetadata
  <2>1. /\ metadata' \in Stamps
        /\ result' \subseteq Entries /\ \A x, y \in result' : x = y
    BY <1>14 DEF WriteMetadata, Clients, Entries, Stamps
  <2> QED BY <1>14, <2>1 DEF WriteMetadata, source
<1>15. CASE KillClient
  <2>1. /\ body' \in Contents \cup {NoFile, TornFile}
        /\ metadata' \in {NoFile, TornFile} \cup Stamps
        /\ split' \in BOOLEAN
    BY <1>15 DEF KillClient, disk
  <2> QED BY <1>15, <2>1 DEF KillClient, source
<1>16. CASE UNCHANGED fetchVars
  BY <1>16 DEF fetchVars, source, disk, counters
<1> QED
  BY <1>1, <1>2, <1>3, <1>4, <1>5, <1>6, <1>9, <1>10, <1>11, <1>12, <1>13,
     <1>14, <1>15, <1>16 DEF FetchNext

LEMMA BreakerKept ==
  FetchTypeOK /\ BreakerInv /\ [FetchNext]_fetchVars => BreakerInv'
<1> SUFFICES ASSUME FetchTypeOK, BreakerInv, [FetchNext]_fetchVars PROVE BreakerInv'
  OBVIOUS
<1>0. /\ CircuitThreshold \in Nat \ {0} /\ MaxRetries \in Nat
      /\ failures \in Nat /\ refused \in Nat /\ client.attempts \in 0..MaxRetries
      /\ client \in Clients
  BY FetchAssumption DEF FetchAssumption, FetchTypeOK, Clients
<1> USE <1>0 DEF BreakerInv, Asking, Resting, Clients
<1>1. CASE Second \/ SourceChanges \/ HitCache
  BY <1>1 DEF Second, SourceChanges, HitCache, counters
<1>2. CASE BeginFetch
  BY <1>2 DEF BeginFetch, counters
<1>3. CASE SendRequest
  BY <1>3 DEF SendRequest, counters
<1>4. CASE BudgetSpent \/ TransportFails
  BY <1>4 DEF BudgetSpent, TransportFails, counters
<1>5. CASE Refused
  <2>1. /\ refused' = refused + 1 /\ failures' = failures + 1
        /\ client.at = "wait"
    BY <1>5 DEF Refused, Answered
  <2>2. \/ client'.at = "idle"
        \/ client'.at = "ask" /\ client'.attempts = client.attempts + 1
    <3>1. CASE client' = Resting
      BY <3>1
    <3>2. CASE client' = [client EXCEPT !.at = "ask", !.attempts = @ + 1]
      BY <3>2
    <3> QED BY <1>5, <3>1, <3>2 DEF Refused, AskAgain
  <2> QED BY <2>1, <2>2
<1>6. CASE ServerError
  BY <1>6 DEF ServerError, Answered, AskAgain
<1>7. CASE ClientError
  BY <1>7 DEF ClientError, Answered
<1>8. CASE Success
  BY <1>8 DEF Entries, Success, Fetched, Answered
<1>9. CASE WriteBody
  BY <1>9 DEF WriteBody, counters
<1>10. CASE WriteMetadata \/ KillClient
  BY <1>10 DEF WriteMetadata, KillClient
<1>11. CASE UNCHANGED fetchVars
  BY <1>11 DEF fetchVars, counters
<1> QED
  BY <1>1, <1>2, <1>3, <1>4, <1>5, <1>6, <1>7, <1>8, <1>9, <1>10, <1>11 DEF FetchNext

\* Evidence stays what it is while time passes and the source changes.
LEMMA SoundStays ==
  ASSUME FetchTypeOK, Second \/ SourceChanges \/ UNCHANGED <<seconds, history>>,
         NEW e \in Entries, Sound(e)
  PROVE  Sound(e)'
<1>1. PICK t \in e.asked..e.at : e.content \in history[t]
  BY DEF Sound, Dated
<1>2. e.at <= seconds /\ e.asked \in Nat /\ e.at \in Nat /\ seconds \in Nat /\ t \in Times /\ t <= seconds
  BY FetchAssumption DEF FetchAssumption, FetchTypeOK, Entries, Times, Sound, Dated
<1>3. seconds' \in Nat /\ e.at <= seconds'
  BY <1>2 DEF Second, SourceChanges
<1>4. e.content \in history'[t]
  BY <1>1, <1>2 DEF Second, SourceChanges, FetchTypeOK
<1> QED BY <1>1, <1>3, <1>4 DEF Sound, Dated

LEMMA CacheKept ==
  FetchTypeOK /\ FetchTypeOK' /\ CacheInv /\ [FetchNext]_fetchVars => CacheInv'
<1> SUFFICES ASSUME FetchTypeOK, FetchTypeOK', CacheInv, [FetchNext]_fetchVars, ~split'
             PROVE  CacheInv'
  BY DEF CacheInv
<1>1. ~split
  BY DEF FetchNext, fetchVars, Second, SourceChanges, HitCache, BeginFetch, SendRequest,
     BudgetSpent, TransportFails, Refused, ServerError, ClientError, Success, Answered,
     WriteBody, WriteMetadata, KillClient
<1>2. /\ metadata # TornFile
      /\ \A e \in client.cached \cup client.fetched \cup result : Sound(e)
      /\ client.at # "metadata" => \A e \in Cached : Sound(e)
      /\ client.at = "metadata" => \A e \in client.fetched : body = e.content
      /\ client.at = "wait" => client.asked <= seconds
  BY <1>1 DEF CacheInv
<1>3. /\ client.cached \subseteq Entries /\ client.fetched \subseteq Entries
      /\ result \subseteq Entries
      /\ client \in Clients
  BY DEF FetchTypeOK, Clients
<1>4. seconds \in Nat /\ seconds' \in Nat /\ client.asked \in Nat
  BY FetchAssumption DEF FetchAssumption, FetchTypeOK, Clients, Times
<1>5. Resting.at = "idle" /\ Resting.fetched = {} /\ Resting.cached = {}
  BY DEF Resting
<1>6. Cached \subseteq Entries
  BY <1>2 DEF FetchTypeOK, Cached, Entries, Stamps
<1>7. Second \/ SourceChanges \/ UNCHANGED <<seconds, history>>
  BY DEF FetchNext, fetchVars, HitCache, BeginFetch, SendRequest, BudgetSpent,
     TransportFails, Refused, ServerError, ClientError, Success, Answered, WriteBody,
     WriteMetadata, KillClient, source
<1>8. \A e \in Entries : Sound(e) => Sound(e)'
  BY <1>7, SoundStays
\* What a step that changes no file must show.
<1>9. ASSUME UNCHANGED disk, client.at # "metadata",
             client'.at # "metadata",
             \A e \in client'.cached \cup client'.fetched \cup result' : Sound(e)',
             client'.at = "wait" => client'.asked <= seconds'
      PROVE  CacheInv'
  <2>1. Cached' = Cached /\ metadata' # TornFile
    BY <1>2, <1>9 DEF Cached, disk
  <2> QED BY <1>2, <1>6, <1>8, <1>9, <2>1 DEF CacheInv
<1>10. CASE UNCHANGED <<disk, client, result>>
  <2>1. Cached' = Cached /\ body' = body /\ metadata' = metadata
    BY <1>10 DEF Cached, disk
  <2>2. seconds' >= seconds
    BY <1>4, <1>7 DEF Second, SourceChanges
  <2>3. client' = client /\ result' = result
    BY <1>10
  <2>4. client.at = "wait" => client.asked <= seconds'
    BY <1>2, <1>4, <2>2
  <2> QED BY <1>2, <1>3, <1>6, <1>8, <2>1, <2>3, <2>4 DEF CacheInv
<1>11. CASE HitCache
  <2>1. client.at = "idle" /\ client' = client /\ result' \subseteq Cached
        /\ UNCHANGED disk
    BY <1>11 DEF HitCache
  <2> QED BY <1>2, <1>3, <1>6, <1>8, <1>9, <2>1
<1>12. CASE BeginFetch
  <2>1. /\ client.at = "idle" /\ UNCHANGED disk /\ result' = result
        /\ client'.at = "ask" /\ client'.cached = Cached /\ client'.fetched = {}
    BY <1>12 DEF BeginFetch, Resting
  <2> QED BY <1>2, <1>3, <1>6, <1>8, <1>9, <2>1
<1>13. CASE SendRequest
  <2>1. /\ client.at = "ask" /\ UNCHANGED disk /\ result' = result
        /\ client'.at = "wait" /\ client'.cached = client.cached
        /\ client'.fetched = client.fetched /\ client'.asked = seconds
        /\ seconds' = seconds
    BY <1>13, <1>3 DEF SendRequest, Clients, source
  <2> QED BY <1>2, <1>3, <1>4, <1>8, <1>9, <2>1
<1>14. CASE BudgetSpent \/ TransportFails \/ ClientError
  BY <1>14, <1>2, <1>3, <1>5, <1>8, <1>9 DEF BudgetSpent, TransportFails, ClientError, Answered
<1>15. CASE Refused \/ ServerError
  <2>1. client.at = "wait" /\ UNCHANGED disk /\ result' = result
    BY <1>15 DEF Refused, ServerError, Answered
  <2>2. \/ client' = Resting
        \/ client'.at = "ask" /\ client'.cached = client.cached
             /\ client'.fetched = client.fetched
    BY <1>15, <1>3 DEF Refused, ServerError, AskAgain, Clients
  <2> QED BY <1>2, <1>3, <1>5, <1>8, <1>9, <2>1, <2>2
<1>16. CASE Success
  <2>1. client.at = "wait" /\ UNCHANGED <<disk, seconds, history>> /\ result' = result
    BY <1>16 DEF Success, Answered, source
  <2>2. PICK c \in Seen : Fetched(c, c, seconds)
    <3>1. \A old \in client.cached : old.content = old.etag
      BY <1>2 DEF Sound
    <3> QED BY <1>16, <3>1 DEF Success
  <2>3. PICK t \in client.asked..seconds : c \in history[t]
    BY <2>2 DEF Seen
  <2>4. /\ client'.at = "body" /\ client'.cached = client.cached
        /\ \E e : client'.fetched = {e} /\ e.content = c /\ e.etag = c
                  /\ e.at = seconds /\ e.asked = client.asked
    <3> DEFINE entry == [content |-> c, etag |-> c, at |-> seconds,
                         asked |-> client.asked]
    <3>1. client' = [client EXCEPT !.at = "body", !.fetched = {entry}]
      BY <2>2 DEF Fetched
    <3>2. /\ entry.content = c /\ entry.etag = c /\ entry.at = seconds
          /\ entry.asked = client.asked
      OBVIOUS
    <3> HIDE DEF entry
    <3>3. /\ client'.at = "body" /\ client'.cached = client.cached
          /\ client'.fetched = {entry}
      BY <3>1, <1>3 DEF Clients
    <3> QED BY <3>2, <3>3
  <2>5. PICK e : /\ client'.fetched = {e} /\ e.content = c /\ e.etag = c
                 /\ e.at = seconds /\ e.asked = client.asked
    BY <2>4
  <2>6. Sound(e)'
    BY <2>1, <2>3, <2>5, <1>4 DEF Sound, Dated
  <2> QED BY <1>2, <1>3, <1>8, <1>9, <2>1, <2>4, <2>5, <2>6
<1>17. CASE WriteBody
  <2>1. PICK entry \in client.fetched : body' = entry.content
    BY <1>17 DEF WriteBody
  <2>2. /\ client'.at = "metadata" /\ client'.cached = client.cached
        /\ client'.fetched = client.fetched /\ result' = result /\ metadata' = metadata
    BY <1>17, <1>3 DEF WriteBody, Clients
  <2>3. \A e \in client.fetched : body' = e.content
    BY <2>1 DEF FetchTypeOK
  <2> QED BY <1>2, <1>3, <1>8, <2>2, <2>3 DEF CacheInv
<1>18. CASE WriteMetadata
  <2>1. PICK entry \in client.fetched :
          /\ metadata' = [etag |-> entry.etag, at |-> entry.at, asked |-> entry.asked]
          /\ result' = {entry}
    BY <1>18 DEF WriteMetadata
  <2>2. body' = entry.content /\ client' = Resting /\ entry \in Entries /\ Sound(entry)'
    BY <1>18, <1>2, <1>3, <1>8 DEF WriteMetadata
  <2>3. \A e \in Cached' : /\ e.content = entry.content /\ e.etag = entry.etag
                          /\ e.at = entry.at /\ e.asked = entry.asked
    BY <2>1, <2>2 DEF Cached
  <2>4. \A e \in Cached' : Sound(e)'
    BY <2>2, <2>3 DEF Sound, Dated
  <2>5. metadata' # TornFile
    BY <2>1, <2>2, FetchAssumption DEF FetchAssumption, Stamps, Entries
  <2> QED BY <1>5, <2>1, <2>2, <2>4, <2>5 DEF CacheInv
<1>19. CASE KillClient
  <2>1. client.at # "metadata" /\ UNCHANGED disk /\ client' = Resting /\ result' = result
    BY <1>19, <1>1 DEF KillClient
  <2> QED BY <1>2, <1>3, <1>5, <1>8, <1>9, <2>1
<1>20. CASE Second \/ SourceChanges \/ UNCHANGED fetchVars
  <2>1. UNCHANGED <<disk, client, result>>
    BY <1>20 DEF Second, SourceChanges, fetchVars, disk
  <2> QED BY <1>10, <2>1
<1> QED
  BY <1>11, <1>12, <1>13, <1>14, <1>15, <1>16, <1>17, <1>18, <1>19, <1>20 DEF FetchNext

LEMMA FetchStarts == FetchInit => FetchInv
<1> SUFFICES ASSUME FetchInit PROVE FetchInv
  OBVIOUS
<1>1. Resting \in Clients /\ 0 \in Times /\ served \in Contents
  BY FetchAssumption DEF FetchAssumption, FetchInit, Resting, Clients, Times
<1>2. /\ Resting.at = "idle" /\ Resting.fetched = {} /\ Resting.cached = {}
      /\ Cached = {}
  BY DEF FetchInit, Resting, Cached
<1>a. /\ RequestBudget \in Nat /\ MaxFetches \in Nat /\ MaxKills \in Nat
      /\ MaxRetries \in Nat /\ CircuitThreshold \in Nat \ {0}
  BY FetchAssumption DEF FetchAssumption
<1>b. history \in [Times -> SUBSET Contents]
  BY <1>1 DEF FetchInit
<1>3. FetchTypeOK
  <2>1. /\ seconds = 0 /\ body = NoFile /\ metadata = NoFile /\ client = Resting
        /\ requests = 0 /\ failures = 0 /\ refused = 0 /\ result = {}
        /\ fetches = 0 /\ kills = 0 /\ split = FALSE
    BY DEF FetchInit
  <2>2. /\ \A x, y \in client.cached : x = y
        /\ \A x, y \in client.fetched : x = y
        /\ \A x, y \in result : x = y
        /\ client.at # "wait"
    BY <1>2, <2>1
  <2>3. /\ requests \in 0..RequestBudget /\ fetches \in 0..MaxFetches
        /\ kills \in 0..MaxKills /\ failures \in Nat /\ refused \in Nat
    BY <1>a, <2>1
  <2> QED BY <1>1, <1>b, <2>1, <2>2, <2>3 DEF FetchTypeOK
<1>4. BreakerInv
  BY <1>2, FetchAssumption DEF FetchAssumption, FetchInit, BreakerInv, Asking
<1>5. CacheInv
  <2>1. metadata # TornFile
    BY FetchAssumption DEF FetchAssumption, FetchInit
  <2> QED BY <1>2, <2>1 DEF FetchInit, CacheInv
<1> QED BY <1>3, <1>4, <1>5 DEF FetchInv

\* Every state of the client is typed, keeps its breaker's promise, and holds
\* sound entries unless a kill split the two files.
THEOREM FetchInductive == FetchSpec => []FetchInv
<1>1. FetchInv /\ [FetchNext]_fetchVars => FetchInv'
  BY FetchTyped, BreakerKept, CacheKept DEF FetchInv
<1> QED BY FetchStarts, <1>1, PTL DEF FetchSpec

\* The client's process and files keep their types.
THEOREM FetchTypeCorrect == FetchSpec => []FetchTypeOK
<1>1. FetchInv => FetchTypeOK
  BY DEF FetchInv
<1> QED BY FetchInductive, <1>1, PTL

\* A host that refuses is not asked more than the breaker's threshold and one
\* fetch's retries allow (the breaker of CompliantHttpClient.fetch).
THEOREM HostSpared == FetchSpec => []HostIsSpared
<1>1. FetchInv => HostIsSpared
  BY DEF FetchInv, BreakerInv, HostIsSpared
<1> QED BY FetchInductive, <1>1, PTL

\* What fetch returns was served when it says it was captured, unless a process
\* was killed between the writes of _write_cache.
THEOREM FetchTrue == FetchSpec => []FetchIsTrue
<1>1. FetchInv => FetchIsTrue
  BY DEF FetchInv, CacheInv, Sound, Dated, FetchIsTrue
<1> QED BY FetchInductive, <1>1, PTL
-----------------------------------------------------------------------------
(* The archive *)

\* What has a receipt, whole or torn.
Captured == {r[2] : r \in Receipted}

\* One process at a time; while a canary runs no replay has the last word.
TurnsInv ==
  canary.at # "idle" => replay.at = "idle" /\ replayed = "no"

\* What the canary is about to archive: the page first, then endpoints' sheets.
BlobInv ==
  canary.at \in {"payload", "receipt"} =>
    canary.blob \in (IF canary.page = NoBlob THEN {PageUrl} \X Pages ELSE Endpoints \X Sheets)

\* A receipt has its payload, torn or not.
PayloadInv ==
  /\ \A b \in Captured : payloads[b] # Absent
  /\ canary.at = "receipt" => payloads[canary.blob] # Absent

\* The page and the sheet of an observation have receipts.
Sourced(o) == {<<PageUrl, o[1]>>, <<o[2], o[3]>>} \subseteq Captured

\* So have those of everything that is stored or about to be.
SourceInv ==
  /\ canary.page # NoBlob => canary.page \in Captured
  /\ \A o \in canary.out \cup replay.out : Sourced(o)
  /\ \A o \in DOMAIN store : store[o] # Absent => Sourced(o)

\* What page k and a name give is stored, or listed in the given set.
AllStoredBut(k, name, listed) == \A o \in Derived(k, name) : o \in listed \/ store[o] = Whole

\* A replay of the fixture stores all that one page and name give.
ReplayInv ==
  named =>
    /\ replay.at = "append" =>
         \E k \in Pages : \E name \in FirstNames : AllStoredBut(k, name, replay.out)
    /\ replayed = "ok" => \E k \in Pages : \E name \in FirstNames : AllStoredBut(k, name, {})

\* The sheet is stored under a page that lists the fixture, or about to be.
Held(b) ==
  \E k \in CapturedPages \cap Listed :
    LET o == <<k, b[1], b[2]>> IN o \in canary.out \/ store[o] = Whole

\* No capture that parses is lost unless a process was killed: endpoints are
\* asked for under a page that has the fixture, and a run without a page holds
\* nothing.  A replay holds what parses, under such a page.
RepeatInv ==
  /\ killed \in Nat
  /\ canary.at = "idle" => canary.page = NoBlob
  /\ canary.page = NoBlob => canary.out = {} /\ canary.todo = {}
  /\ canary.page # NoBlob /\ (canary.at \in {"payload", "receipt"} \/ canary.todo # {})
       => canary.page[2] \in Listed
  /\ \A o \in replay.out : o[1] \in Listed /\ o[3] \notin Unparsable
  /\ killed = 0 =>
       /\ \A o \in DOMAIN store : store[o] # Half
       /\ \A b \in Captured : b[1] \in Endpoints /\ b[2] \notin Unparsable => Held(b)

ArchiveInv ==
  /\ ArchiveTypeOK /\ TurnsInv /\ BlobInv /\ PayloadInv /\ SourceInv /\ ReplayInv
  /\ RepeatInv /\ ArchiveIsReplayable

Files == {Absent, Half, Whole}
Ids == Pages \X Endpoints \X Sheets
Receipts == (1..MaxDays) \X Blobs

CanaryStates ==
  [at : {"idle", "get", "payload", "receipt", "append"},
   page : ({PageUrl} \X Pages) \cup {NoBlob}, blob : Blobs \cup {NoBlob},
   todo : SUBSET Endpoints, out : SUBSET Ids]
ReplayStates == [at : {"idle", "append"}, out : SUBSET Ids]

LEMMA BlobFacts ==
  /\ NoBlob \notin Blobs /\ NoBlob \notin {PageUrl} \X Pages
  /\ \A b \in Blobs : b = <<b[1], b[2]>>
  /\ \A b \in Blobs : b[1] \in Endpoints => b \in Endpoints \X Sheets
  /\ \A b \in Blobs : b[1] = PageUrl => b[2] \in Pages
  /\ {PageUrl} \X Pages \subseteq Blobs /\ Endpoints \X Sheets \subseteq Blobs
  /\ \A b \in {PageUrl} \X Pages : b[1] = PageUrl /\ b[2] \in Pages
BY PageAssumption DEF PageAssumption, Blobs, NoBlob

LEMMA CreatedFile ==
  \A file \in Files :
    /\ Created(file) \in Files /\ Created(file) # Absent
    /\ file # Absent => Created(file) = file
BY ArchiveAssumption DEF ArchiveAssumption, Created, Files

LEMMA ArchiveShape ==
  ArchiveTypeOK <=>
    /\ day \in 1..MaxDays
    /\ payloads \in [Blobs -> Files] /\ receipts \in [Receipts -> Files]
    /\ store \in [Ids -> Files] /\ summary \in Files /\ named \in BOOLEAN
    /\ canary \in CanaryStates /\ replay \in ReplayStates
    /\ replayed \in {"no", "ok", "failed"}
BY DEF ArchiveTypeOK, Files, Ids, Receipts, CanaryStates, ReplayStates

\* What the receipts give: pages that list the fixture, and the observations of
\* the sheets under such a page.
LEMMA CapturedFacts ==
  ASSUME ArchiveTypeOK
  PROVE  /\ Captured \subseteq Blobs
         /\ \A k \in CapturedPages : k \in Pages /\ <<PageUrl, k>> \in Captured
         /\ \A k : <<PageUrl, k>> \in Captured => k \in CapturedPages
         /\ ReplayPages \subseteq CapturedPages \cap Listed
         /\ \A k, name : \A o \in Derived(k, name) :
              /\ <<o[2], o[3]>> \in Captured /\ o = <<k, o[2], o[3]>>
              /\ o[2] \in Endpoints /\ o[3] \in Sheets \ Unparsable
              /\ k \in Pages => o \in Ids
<1>1. DOMAIN receipts = Receipts
  BY ArchiveShape
<1>2. \A r \in Receipted : r[2] \in Blobs /\ r[2] \in Captured
  BY <1>1 DEF Receipted, Receipts, Captured
<1>3. \A k \in CapturedPages : k \in Pages /\ <<PageUrl, k>> \in Captured
  <2> SUFFICES ASSUME NEW k \in CapturedPages
               PROVE  k \in Pages /\ <<PageUrl, k>> \in Captured
    OBVIOUS
  <2>1. PICK r \in Receipted : r[2][1] = PageUrl /\ k = r[2][2]
    BY DEF CapturedPages
  <2>2. r[2] = <<PageUrl, k>> /\ k \in Pages
    BY <1>2, <2>1, BlobFacts
  <2> QED BY <1>2, <2>1, <2>2
<1>4. ASSUME NEW k, <<PageUrl, k>> \in Captured PROVE k \in CapturedPages
  <2>1. PICK r \in Receipted : r[2] = <<PageUrl, k>>
    BY <1>4 DEF Captured
  <2>2. r[2][1] = PageUrl /\ r[2][2] = k
    BY <2>1
  <2> QED BY <2>2 DEF CapturedPages
<1>5. ReplayPages \subseteq CapturedPages \cap Listed
  BY DEF ReplayPages, CapturedPages
<1>6. ASSUME NEW k, NEW name, NEW o \in Derived(k, name)
      PROVE  /\ <<o[2], o[3]>> \in Captured /\ o = <<k, o[2], o[3]>>
             /\ o[2] \in Endpoints /\ o[3] \in Sheets \ Unparsable
             /\ k \in Pages => o \in Ids
  <2>1. PICK r \in ParsedReceipts : o = <<k, r[2][1], r[2][2]>>
    BY <1>6 DEF Derived
  <2>2. r \in Receipted /\ r[2][1] \in Endpoints /\ r[2][2] \notin Unparsable
    BY DEF ParsedReceipts
  <2>3. r[2] = <<r[2][1], r[2][2]>> /\ r[2] \in Endpoints \X Sheets
    BY <1>2, <2>2, BlobFacts
  <2>4. o[2] = r[2][1] /\ o[3] = r[2][2] /\ o[2] \in Endpoints /\ o[3] \in Sheets
    BY <2>1, <2>3
  <2> QED BY <1>2, <2>1, <2>2, <2>3, <2>4 DEF Ids
<1> QED BY <1>2, <1>3, <1>4, <1>5, <1>6 DEF Captured

\* What the canary's actions do to it.
LEMMA CanaryMoves ==
  ASSUME ArchiveTypeOK, BlobInv
  PROVE  /\ CanaryIdle \in CanaryStates /\ CanaryIdle.at = "idle"
         /\ CanaryIdle.page = NoBlob /\ CanaryIdle.out = {} /\ CanaryIdle.todo = {}
         /\ StartCanary =>
              /\ canary' \in CanaryStates /\ canary'.at = "get" /\ canary'.page = NoBlob
              /\ canary'.out = {} /\ canary'.todo = {}
         /\ GetPage =>
              /\ canary' \in CanaryStates /\ canary'.at = "payload" /\ canary'.page = NoBlob
              /\ canary.page = NoBlob /\ canary'.blob \in {PageUrl} \X Pages
              /\ canary'.out = canary.out /\ canary'.todo = canary.todo
         /\ GetEndpoint =>
              /\ canary' \in CanaryStates /\ canary'.at = "payload"
              /\ canary.page # NoBlob /\ canary'.page = canary.page
              /\ canary'.blob \in Endpoints \X Sheets /\ canary.todo # {}
              /\ canary'.out = canary.out
         /\ GetFails =>
              \/ canary' = CanaryIdle /\ canary.page = NoBlob
              \/ /\ canary' \in CanaryStates /\ canary'.at = "get"
                 /\ canary.page # NoBlob /\ canary'.page = canary.page /\ canary.todo # {}
                 /\ canary'.out = canary.out
         /\ ArchivePayload =>
              /\ canary' \in CanaryStates /\ canary'.at = "receipt"
              /\ canary'.page = canary.page /\ canary'.blob = canary.blob
              /\ canary'.out = canary.out /\ canary'.todo = canary.todo
         /\ PageReceipt =>
              /\ canary.page = NoBlob /\ canary.blob \in {PageUrl} \X Pages
              /\ \/ canary' = CanaryIdle
                 \/ /\ canary' \in CanaryStates /\ canary'.at = "get"
                    /\ canary'.page = canary.blob /\ canary'.out = canary.out
                    /\ canary'.todo # {} => canary.blob[2] \in Upcoming
         /\ EndpointReceipt =>
              /\ canary' \in CanaryStates /\ canary'.at = "get"
              /\ canary.page \in {PageUrl} \X Pages /\ canary'.page = canary.page
              /\ canary.blob \in Endpoints \X Sheets /\ canary'.todo = canary.todo
              /\ canary'.out = canary.out \cup Observed(canary.page[2], canary.blob)
         /\ EndpointsDone =>
              /\ canary' \in CanaryStates /\ canary'.at = "append"
              /\ canary.page # NoBlob /\ canary'.page = canary.page
              /\ canary'.out = canary.out /\ canary'.todo = canary.todo
         /\ CanaryAppend =>
              /\ canary' \in CanaryStates /\ canary'.at = "append"
              /\ canary'.page = canary.page /\ canary'.todo = canary.todo
              /\ \E o \in canary.out : AppendObservation(o) /\ canary'.out = canary.out \ {o}
<1>a. canary \in CanaryStates
  BY ArchiveShape
<1>b. canary.page # NoBlob => canary.page \in {PageUrl} \X Pages
  BY <1>a DEF CanaryStates
<1> USE <1>a DEF CanaryStates
<1>1. /\ CanaryIdle \in CanaryStates /\ CanaryIdle.at = "idle"
      /\ CanaryIdle.page = NoBlob /\ CanaryIdle.out = {} /\ CanaryIdle.todo = {}
  BY DEF CanaryIdle
<1>2. ASSUME StartCanary
      PROVE  /\ canary' \in CanaryStates /\ canary'.at = "get" /\ canary'.page = NoBlob
             /\ canary'.out = {} /\ canary'.todo = {}
  BY <1>2 DEF StartCanary, CanaryIdle
<1>3. ASSUME GetPage
      PROVE  /\ canary' \in CanaryStates /\ canary'.at = "payload" /\ canary'.page = NoBlob
             /\ canary.page = NoBlob /\ canary'.blob \in {PageUrl} \X Pages
             /\ canary'.out = canary.out /\ canary'.todo = canary.todo
  <2>1. PICK k \in Pages :
          canary' = [canary EXCEPT !.at = "payload", !.blob = <<PageUrl, k>>]
    BY <1>3 DEF GetPage
  <2>2. <<PageUrl, k>> \in {PageUrl} \X Pages /\ <<PageUrl, k>> \in Blobs
    BY BlobFacts
  <2> QED BY <1>3, <2>1, <2>2 DEF GetPage
<1>4. ASSUME GetEndpoint
      PROVE  /\ canary' \in CanaryStates /\ canary'.at = "payload"
             /\ canary.page # NoBlob /\ canary'.page = canary.page
             /\ canary'.blob \in Endpoints \X Sheets /\ canary.todo # {}
             /\ canary'.out = canary.out
  <2>1. PICK e \in canary.todo, s \in Sheets :
          canary' = [canary EXCEPT !.at = "payload", !.blob = <<e, s>>, !.todo = @ \ {e}]
    BY <1>4 DEF GetEndpoint
  <2>2. <<e, s>> \in Endpoints \X Sheets /\ <<e, s>> \in Blobs
    BY BlobFacts
  <2> QED BY <1>4, <2>1, <2>2 DEF GetEndpoint
<1>5. ASSUME GetFails
      PROVE  \/ canary' = CanaryIdle /\ canary.page = NoBlob
             \/ /\ canary' \in CanaryStates /\ canary'.at = "get"
                /\ canary.page # NoBlob /\ canary'.page = canary.page /\ canary.todo # {}
                /\ canary'.out = canary.out
  <2>1. CASE canary.page # NoBlob
    <3>1. PICK e \in canary.todo : canary' = [canary EXCEPT !.todo = @ \ {e}]
      BY <1>5, <2>1 DEF GetFails
    <3> QED BY <1>5, <2>1, <3>1 DEF GetFails
  <2> QED BY <1>5, <2>1 DEF GetFails
<1>6. ASSUME ArchivePayload
      PROVE  /\ canary' \in CanaryStates /\ canary'.at = "receipt"
             /\ canary'.page = canary.page /\ canary'.blob = canary.blob
             /\ canary'.out = canary.out /\ canary'.todo = canary.todo
  BY <1>6 DEF ArchivePayload
<1>7. ASSUME PageReceipt
      PROVE  /\ canary.page = NoBlob /\ canary.blob \in {PageUrl} \X Pages
             /\ \/ canary' = CanaryIdle
                \/ /\ canary' \in CanaryStates /\ canary'.at = "get"
                   /\ canary'.page = canary.blob /\ canary'.out = canary.out
                   /\ canary'.todo # {} => canary.blob[2] \in Upcoming
  <2>1. canary.page = NoBlob /\ canary.blob \in {PageUrl} \X Pages
    BY <1>7 DEF PageReceipt, BlobInv
  <2>2. CASE canary' = [canary EXCEPT !.at = "get", !.blob = NoBlob, !.page = canary.blob,
                            !.todo = IF canary.blob[2] \in Upcoming THEN Endpoints ELSE {}]
    BY <2>1, <2>2
  <2> QED BY <1>7, <2>1, <2>2 DEF PageReceipt
<1>8. ASSUME EndpointReceipt
      PROVE  /\ canary' \in CanaryStates /\ canary'.at = "get"
             /\ canary.page \in {PageUrl} \X Pages /\ canary'.page = canary.page
             /\ canary.blob \in Endpoints \X Sheets /\ canary'.todo = canary.todo
             /\ canary'.out = canary.out \cup Observed(canary.page[2], canary.blob)
  <2>1. canary.page \in {PageUrl} \X Pages /\ canary.blob \in Endpoints \X Sheets
    BY <1>8, <1>b DEF EndpointReceipt, BlobInv
  <2>2. canary.page[2] \in Pages
    BY <2>1
  <2>3. Observed(canary.page[2], canary.blob) \subseteq Ids
    BY <2>1, <2>2 DEF Observed, Ids
  <2> HIDE DEF Observed
  <2>4. canary' = [canary EXCEPT !.at = "get", !.blob = NoBlob,
                     !.out = @ \cup Observed(canary.page[2], canary.blob)]
    BY <1>8 DEF EndpointReceipt
  <2> QED BY <2>1, <2>3, <2>4
<1>9. ASSUME EndpointsDone
      PROVE  /\ canary' \in CanaryStates /\ canary'.at = "append"
             /\ canary.page # NoBlob /\ canary'.page = canary.page
             /\ canary'.out = canary.out /\ canary'.todo = canary.todo
  BY <1>9 DEF EndpointsDone
<1>10. ASSUME CanaryAppend
       PROVE  /\ canary' \in CanaryStates /\ canary'.at = "append"
              /\ canary'.page = canary.page /\ canary'.todo = canary.todo
              /\ \E o \in canary.out : AppendObservation(o) /\ canary'.out = canary.out \ {o}
  <2>1. PICK o \in canary.out :
          AppendObservation(o) /\ canary' = [canary EXCEPT !.out = @ \ {o}]
    BY <1>10 DEF CanaryAppend
  <2> QED BY <1>10, <2>1 DEF CanaryAppend
<1> QED BY <1>1, <1>2, <1>3, <1>4, <1>5, <1>6, <1>7, <1>8, <1>9, <1>10

\* The other actions end the canary's run or leave it alone.
LEMMA CanarySteps ==
  [ArchiveNext]_archiveVars =>
    \/ canary' = canary
    \/ StartCanary \/ GetPage \/ GetEndpoint \/ GetFails \/ ArchivePayload \/ PageReceipt
    \/ EndpointReceipt \/ EndpointsDone \/ CanaryAppend
    \/ canary' = CanaryIdle /\ (CanaryAppendFails \/ WriteSummary \/ KillCanary)
BY DEF ArchiveNext, archiveVars, NextDay, CanaryAppendFails, WriteSummary, KillCanary,
       StartReplay, ReplayAppend, EndReplay, KillReplay

\* What the replay's actions do to it.
LEMMA ReplayMoves ==
  ASSUME ArchiveTypeOK
  PROVE  /\ ReplayIdle \in ReplayStates /\ ReplayIdle.at = "idle" /\ ReplayIdle.out = {}
         /\ ReplayAppend =>
              /\ replay' \in ReplayStates /\ replay'.at = "append"
              /\ \E o \in replay.out : AppendObservation(o) /\ replay'.out = replay.out \ {o}
         /\ StartReplay =>
              \/ replay' = replay /\ replayed' = "failed"
              \/ /\ replay' \in ReplayStates /\ replay'.at = "append" /\ replayed' = replayed
                 /\ \/ ~named /\ replay'.out = {}
                    \/ \E k \in ReplayPages : \E name \in FirstNames :
                         replay'.out = Derived(k, name)
<1>a. replay \in ReplayStates
  BY ArchiveShape
<1> USE DEF ReplayStates
<1>1. ReplayIdle \in ReplayStates /\ ReplayIdle.at = "idle" /\ ReplayIdle.out = {}
  BY DEF ReplayIdle
<1>2. ASSUME ReplayAppend
      PROVE  /\ replay' \in ReplayStates /\ replay'.at = "append"
             /\ \E o \in replay.out : AppendObservation(o) /\ replay'.out = replay.out \ {o}
  <2>1. PICK o \in replay.out :
          AppendObservation(o) /\ replay' = [replay EXCEPT !.out = @ \ {o}]
    BY <1>2 DEF ReplayAppend
  <2> QED BY <1>2, <1>a, <2>1 DEF ReplayAppend
<1>3. ASSUME StartReplay
      PROVE  \/ replay' = replay /\ replayed' = "failed"
             \/ /\ replay' \in ReplayStates /\ replay'.at = "append" /\ replayed' = replayed
                /\ \/ ~named /\ replay'.out = {}
                   \/ \E k \in ReplayPages : \E name \in FirstNames :
                        replay'.out = Derived(k, name)
  <2>1. CASE ~named /\ replay' = [at |-> "append", out |-> {}] /\ replayed' = replayed
    BY <2>1
  <2>2. ASSUME NEW k \in ReplayPages, NEW name \in FirstNames, replayed' = replayed,
               replay' = [at |-> "append", out |-> Derived(k, name)]
        PROVE  replay' \in ReplayStates /\ replay'.at = "append" /\ replay'.out = Derived(k, name)
    <3>1. \A o \in Derived(k, name) : o \in Ids
      BY CapturedFacts
    <3> QED BY <2>2, <3>1
  <2> QED BY <1>3, <2>1, <2>2 DEF StartReplay
<1> QED BY <1>1, <1>2, <1>3

LEMMA ReplaySteps ==
  [ArchiveNext]_archiveVars =>
    \/ replay' = replay \/ StartReplay \/ ReplayAppend
    \/ replay' = ReplayIdle /\ (EndReplay \/ KillReplay)
BY DEF ArchiveNext, archiveVars, NextDay, StartCanary, GetPage, GetEndpoint, GetFails,
       ArchivePayload, PageReceipt, EndpointReceipt, EndpointsDone, CanaryAppend,
       CanaryAppendFails, WriteSummary, KillCanary, EndReplay, KillReplay

LEMMA ArchiveTyped ==
  ArchiveTypeOK /\ BlobInv /\ [ArchiveNext]_archiveVars => ArchiveTypeOK' /\ BlobInv'
<1> SUFFICES ASSUME ArchiveTypeOK, BlobInv, [ArchiveNext]_archiveVars
             PROVE  ArchiveTypeOK' /\ BlobInv'
  OBVIOUS
<1>a. /\ day \in 1..MaxDays
      /\ payloads \in [Blobs -> Files] /\ receipts \in [Receipts -> Files]
      /\ store \in [Ids -> Files] /\ summary \in Files /\ named \in BOOLEAN
      /\ canary \in CanaryStates /\ replay \in ReplayStates
      /\ replayed \in {"no", "ok", "failed"}
  BY ArchiveShape
<1>b. MaxDays \in Nat /\ {Absent, Half, Whole} \subseteq Files
  BY ArchiveAssumption DEF ArchiveAssumption, Files
<1>c. canary.at \in {"payload", "receipt"} =>
        canary.blob \in Blobs /\ <<day, canary.blob>> \in Receipts
  BY <1>a, BlobFacts DEF BlobInv, Receipts
<1>d. ASSUME NEW o, AppendObservation(o) PROVE store' \in [Ids -> Files]
  BY <1>a, <1>b, <1>d DEF AppendObservation
<1>1. canary' \in CanaryStates /\ BlobInv'
  <2>1. canary' = canary \/ canary' = CanaryIdle => canary' \in CanaryStates /\ BlobInv'
    BY <1>a, CanaryMoves DEF BlobInv
  <2>2. GetPage \/ GetEndpoint => canary' \in CanaryStates /\ BlobInv'
    BY CanaryMoves DEF BlobInv
  <2>3. ArchivePayload => canary' \in CanaryStates /\ BlobInv'
    BY CanaryMoves DEF BlobInv, ArchivePayload
  <2>4. StartCanary \/ EndpointReceipt \/ EndpointsDone \/ CanaryAppend
          => canary' \in CanaryStates /\ BlobInv'
    BY CanaryMoves DEF BlobInv
  <2>5. GetFails \/ PageReceipt =>
          canary' = CanaryIdle \/ (canary' \in CanaryStates /\ canary'.at = "get")
    BY CanaryMoves
  <2>6. canary' \in CanaryStates /\ canary'.at = "get" => BlobInv'
    BY DEF BlobInv
  <2> QED BY <2>1, <2>2, <2>3, <2>4, <2>5, <2>6, CanarySteps
<1>2. replay' \in ReplayStates
  BY <1>a, ReplayMoves, ReplaySteps
<1>3. replayed' \in {"no", "ok", "failed"} /\ day' \in 1..MaxDays /\ named' \in BOOLEAN
      /\ summary' \in Files
  <2>1. NextDay => day' \in 1..MaxDays
    BY <1>a, <1>b DEF NextDay
  <2>2. WriteSummary => named' \in BOOLEAN /\ summary' \in Files
    BY <1>b DEF WriteSummary
  <2>3. KillCanary => summary' \in Files
    BY <1>a, <1>b DEF KillCanary
  <2>4. StartCanary \/ StartReplay \/ EndReplay => replayed' \in {"no", "ok", "failed"}
    BY <1>a, ReplayMoves DEF StartCanary, EndReplay
  <2>5. ArchiveNext => NextDay \/ day' = day
    BY DEF ArchiveNext, StartCanary, GetPage, GetEndpoint, GetFails, ArchivePayload, PageReceipt,
           EndpointReceipt, EndpointsDone, CanaryAppend, CanaryAppendFails, WriteSummary,
           KillCanary, StartReplay, ReplayAppend, EndReplay, KillReplay
  <2>6. ArchiveNext => /\ WriteSummary \/ KillCanary \/ summary' = summary
                       /\ WriteSummary \/ named' = named
    BY DEF ArchiveNext, report, NextDay, StartCanary, GetPage, GetEndpoint, GetFails,
           ArchivePayload, PageReceipt, EndpointReceipt, EndpointsDone, CanaryAppend,
           CanaryAppendFails, KillCanary, StartReplay, ReplayAppend, EndReplay, KillReplay
  <2>7. ArchiveNext => StartCanary \/ StartReplay \/ EndReplay \/ replayed' = replayed
    BY DEF ArchiveNext, NextDay, GetPage, GetEndpoint, GetFails, ArchivePayload, PageReceipt,
           EndpointReceipt, EndpointsDone, CanaryAppend, CanaryAppendFails, WriteSummary,
           KillCanary, ReplayAppend, KillReplay
  <2> QED BY <1>a, <2>1, <2>2, <2>3, <2>4, <2>5, <2>6, <2>7 DEF archiveVars, report
<1>4. payloads' \in [Blobs -> Files] /\ receipts' \in [Receipts -> Files]
  <2>1. CASE ArchivePayload
    BY <2>1, <1>a, <1>c, CreatedFile DEF ArchivePayload
  <2>2. CASE PageReceipt \/ EndpointReceipt
    BY <2>2, <1>a, <1>c, CreatedFile DEF PageReceipt, EndpointReceipt
  <2>3. CASE KillCanary
    BY <2>3, <1>a, <1>b DEF KillCanary, archiveFiles
  <2> QED
    BY <1>a, <2>1, <2>2, <2>3
    DEF ArchiveNext, archiveVars, archiveFiles, NextDay, StartCanary, GetPage, GetEndpoint,
        GetFails, EndpointsDone, CanaryAppend, CanaryAppendFails, WriteSummary, StartReplay,
        ReplayAppend, EndReplay, KillReplay
<1>5. store' \in [Ids -> Files]
  <2>1. CASE CanaryAppend \/ ReplayAppend
    BY <1>d, <2>1 DEF CanaryAppend, ReplayAppend
  <2>2. CASE KillCanary \/ KillReplay
    BY <2>2, <1>a, <1>b DEF KillCanary, KillReplay
  <2> QED
    BY <1>a, <2>1, <2>2
    DEF ArchiveNext, archiveVars, NextDay, StartCanary, GetPage, GetEndpoint, GetFails,
        ArchivePayload, PageReceipt, EndpointReceipt, EndpointsDone, CanaryAppendFails,
        WriteSummary, StartReplay, EndReplay
<1>6. ArchiveTypeOK'
  BY <1>1, <1>2, <1>3, <1>4, <1>5
  DEF ArchiveTypeOK, Files, Ids, Receipts, CanaryStates, ReplayStates
<1> QED BY <1>1, <1>6

\* Files are written once, by whose turn it is.
LEMMA ArchiveGrows ==
  ASSUME ArchiveTypeOK, BlobInv, [ArchiveNext]_archiveVars
  PROVE  /\ DOMAIN receipts = Receipts /\ DOMAIN receipts' = Receipts
         /\ DOMAIN store = Ids /\ DOMAIN store' = Ids
         /\ \A r \in Receipts : receipts[r] # Absent => receipts'[r] # Absent
         /\ \A r \in Receipts :
              \/ receipts'[r] = receipts[r]
              \/ canary.at = "receipt" /\ r[2] = canary.blob
         /\ \A b \in Blobs : payloads[b] # Absent => payloads'[b] = payloads[b]
         /\ \A o \in Ids :
              \/ store'[o] = store[o]
              \/ store[o] = Absent /\ o \in canary.out \cup replay.out
         /\ canary.at = "idle" =>
              UNCHANGED <<receipts, payloads, summary, named>>
<1>a. /\ payloads \in [Blobs -> Files] /\ receipts \in [Receipts -> Files]
      /\ store \in [Ids -> Files]
      /\ canary.at \in {"payload", "receipt"} => canary.blob \in Blobs
      /\ Absent # Half /\ Absent # Whole
  BY ArchiveShape, BlobFacts, ArchiveAssumption DEF BlobInv, ArchiveAssumption
<1>b. DOMAIN receipts' = Receipts /\ DOMAIN store' = Ids
  <2>1. ArchiveTypeOK'
    BY ArchiveTyped
  <2> QED BY <2>1 DEF ArchiveTypeOK, Receipts, Ids
<1>1. \A r \in Receipts :
        /\ receipts[r] # Absent => receipts'[r] # Absent
        /\ \/ receipts'[r] = receipts[r]
           \/ canary.at = "receipt" /\ r[2] = canary.blob
  <2>1. CASE PageReceipt \/ EndpointReceipt
    <3>1. receipts' = [receipts EXCEPT ![<<day, canary.blob>>] = Created(@)]
          /\ canary.at = "receipt"
      BY <2>1 DEF PageReceipt, EndpointReceipt
    <3> QED BY <1>a, <3>1, CreatedFile
  <2>2. CASE KillCanary
    <3>1. \/ receipts' = receipts
          \/ receipts' = [receipts EXCEPT ![<<day, canary.blob>>] = Half] /\ canary.at = "receipt"
      BY <2>2 DEF KillCanary, archiveFiles
    <3> QED BY <1>a, <3>1
  <2> QED
    BY <2>1, <2>2
    DEF ArchiveNext, archiveVars, archiveFiles, NextDay, StartCanary, GetPage, GetEndpoint,
        GetFails, ArchivePayload, EndpointsDone, CanaryAppend, CanaryAppendFails, WriteSummary,
        StartReplay, ReplayAppend, EndReplay, KillReplay
<1>2. \A b \in Blobs : payloads[b] # Absent => payloads'[b] = payloads[b]
  <2>1. CASE ArchivePayload
    BY <2>1, <1>a, CreatedFile DEF ArchivePayload
  <2>2. CASE KillCanary
    BY <2>2, <1>a DEF KillCanary, archiveFiles
  <2> QED
    BY <2>1, <2>2
    DEF ArchiveNext, archiveVars, archiveFiles, NextDay, StartCanary, GetPage, GetEndpoint,
        GetFails, PageReceipt, EndpointReceipt, EndpointsDone, CanaryAppend, CanaryAppendFails,
        WriteSummary, StartReplay, ReplayAppend, EndReplay, KillReplay
<1>3. \A o \in Ids : \/ store'[o] = store[o]
                     \/ store[o] = Absent /\ o \in canary.out \cup replay.out
  <2>1. ASSUME NEW o, AppendObservation(o)
        PROVE  \A p \in Ids : store'[p] = store[p] \/ (store[p] = Absent /\ p = o)
    BY <2>1, <1>a DEF AppendObservation, Files
  <2>2. CASE CanaryAppend \/ ReplayAppend
    BY <2>1, <2>2 DEF CanaryAppend, ReplayAppend
  <2>3. CASE KillCanary \/ KillReplay
    BY <2>3, <1>a DEF KillCanary, KillReplay
  <2> QED
    BY <2>2, <2>3
    DEF ArchiveNext, archiveVars, NextDay, StartCanary, GetPage, GetEndpoint, GetFails,
        ArchivePayload, PageReceipt, EndpointReceipt, EndpointsDone, CanaryAppendFails,
        WriteSummary, StartReplay, EndReplay
<1>4. canary.at = "idle" => UNCHANGED <<receipts, payloads, summary, named>>
  BY DEF ArchiveNext, archiveVars, archiveFiles, report, NextDay, StartCanary, GetPage,
         GetEndpoint, GetFails, ArchivePayload, PageReceipt, EndpointReceipt, EndpointsDone,
         CanaryAppend, CanaryAppendFails, WriteSummary, KillCanary, StartReplay, ReplayAppend,
         EndReplay, KillReplay
<1> QED BY <1>a, <1>b, <1>1, <1>2, <1>3, <1>4

LEMMA CapturedGrows ==
  ASSUME ArchiveTypeOK, BlobInv, [ArchiveNext]_archiveVars
  PROVE  /\ Captured \subseteq Captured' /\ CapturedPages \subseteq CapturedPages'
         /\ Captured' \subseteq Captured \cup {canary.blob}
         /\ canary.at # "receipt" => Captured' = Captured
<1>1. Receipted \subseteq Receipted'
  BY ArchiveGrows DEF Receipted
<1>2. \A r \in Receipted' : r \in Receipted \/ (canary.at = "receipt" /\ r[2] = canary.blob)
  BY ArchiveGrows DEF Receipted
<1>3. CapturedPages \subseteq CapturedPages'
  BY <1>1 DEF CapturedPages
<1> QED BY <1>1, <1>2, <1>3 DEF Captured

\* Whose turn it is.
LEMMA ArchiveTurns ==
  ArchiveTypeOK /\ TurnsInv /\ [ArchiveNext]_archiveVars => TurnsInv'
<1> SUFFICES ASSUME ArchiveTypeOK, TurnsInv, [ArchiveNext]_archiveVars PROVE TurnsInv'
  OBVIOUS
<1>1. CASE UNCHANGED <<canary, replay, replayed>>
  BY <1>1 DEF TurnsInv
<1>2. CASE StartCanary
  BY <1>2 DEF StartCanary, TurnsInv
<1>3. CASE canary.at # "idle" /\ UNCHANGED <<replay, replayed>>
  BY <1>3 DEF TurnsInv
<1>4. CASE canary.at = "idle" /\ UNCHANGED canary
  BY <1>4 DEF TurnsInv
<1>5. replay.at # "idle" => canary.at = "idle"
  BY DEF TurnsInv
<1> QED
  BY <1>1, <1>2, <1>3, <1>4, <1>5
  DEF ArchiveNext, archiveVars, NextDay, GetPage, GetEndpoint, GetFails, ArchivePayload,
      PageReceipt, EndpointReceipt, EndpointsDone, CanaryAppend, CanaryAppendFails, KillCanary,
      WriteSummary, StartReplay, ReplayAppend, EndReplay, KillReplay

\* A receipt is written after its payload.
LEMMA PayloadsFirst ==
  ArchiveTypeOK /\ BlobInv /\ PayloadInv /\ [ArchiveNext]_archiveVars => PayloadInv'
<1> SUFFICES ASSUME ArchiveTypeOK, BlobInv, PayloadInv, [ArchiveNext]_archiveVars
             PROVE  PayloadInv'
  OBVIOUS
<1>a. /\ payloads \in [Blobs -> Files] /\ Captured \subseteq Blobs
      /\ canary.at \in {"payload", "receipt"} => canary.blob \in Blobs
  BY ArchiveShape, BlobFacts, CapturedFacts DEF BlobInv
<1>1. \A b \in Captured' : payloads'[b] # Absent
  <2> SUFFICES ASSUME NEW b \in Captured' PROVE payloads'[b] # Absent
    OBVIOUS
  <2>1. payloads[b] # Absent /\ b \in Blobs
    BY <1>a, CapturedGrows DEF PayloadInv
  <2> QED BY <2>1, ArchiveGrows
<1>2. ASSUME canary'.at = "receipt"
      PROVE  payloads'[canary'.blob] # Absent
  <2>1. CASE ArchivePayload
    <3>1. canary'.blob = canary.blob /\ canary.blob \in Blobs
      BY <2>1, <1>a, CanaryMoves DEF ArchivePayload
    <3> QED BY <2>1, <1>a, <3>1, CreatedFile DEF ArchivePayload
  <2>2. CASE canary' = canary
    <3>1. canary.at = "receipt" /\ canary.blob \in Blobs /\ payloads[canary.blob] # Absent
      BY <1>2, <1>a, <2>2 DEF PayloadInv
    <3> QED BY <2>2, <3>1, ArchiveGrows
  <2>3. canary'.at # "receipt" \/ ArchivePayload \/ canary' = canary
    BY CanaryMoves, CanarySteps
  <2> QED BY <1>2, <2>1, <2>2, <2>3
<1> QED BY <1>1, <1>2 DEF PayloadInv

\* The blob of a receipt just written is captured.
LEMMA ReceiptCaptures ==
  ASSUME ArchiveTypeOK, BlobInv, [ArchiveNext]_archiveVars, PageReceipt \/ EndpointReceipt
  PROVE  canary.blob \in Blobs /\ canary.blob \in Captured'
<1>1. canary.blob \in Blobs
  BY BlobFacts DEF PageReceipt, EndpointReceipt, BlobInv
<1>2. <<day, canary.blob>> \in Receipts /\ receipts \in [Receipts -> Files]
  BY <1>1, ArchiveShape DEF Receipts
<1>3. receipts'[<<day, canary.blob>>] # Absent
  BY <1>2, CreatedFile DEF PageReceipt, EndpointReceipt
<1>4. <<day, canary.blob>> \in Receipted'
  BY <1>2, <1>3, ArchiveGrows DEF Receipted
<1>5. <<day, canary.blob>>[2] \in Captured'
  BY <1>4 DEF Captured
<1> QED BY <1>1, <1>5

\* What a step adds to what a process is about to store.
LEMMA OutSteps ==
  ASSUME ArchiveTypeOK, BlobInv, [ArchiveNext]_archiveVars,
         NEW o \in canary'.out \cup replay'.out
  PROVE  \/ o \in canary.out \cup replay.out
         \/ EndpointReceipt /\ o \in Observed(canary.page[2], canary.blob)
         \/ StartReplay /\ o \in replay'.out
              /\ \E k \in ReplayPages : \E name \in FirstNames : o \in Derived(k, name)
<1>1. ASSUME o \in canary'.out
      PROVE  \/ o \in canary.out
             \/ EndpointReceipt /\ o \in Observed(canary.page[2], canary.blob)
  BY <1>1, CanaryMoves, CanarySteps
<1>2. ASSUME o \in replay'.out
      PROVE  \/ o \in replay.out
             \/ StartReplay /\ \E k \in ReplayPages : \E name \in FirstNames : o \in Derived(k, name)
  BY <1>2, ReplayMoves, ReplaySteps
<1> QED BY <1>1, <1>2

\* Nothing is stored without its receipts.
LEMMA SourcesKept ==
  ArchiveTypeOK /\ BlobInv /\ SourceInv /\ [ArchiveNext]_archiveVars => SourceInv'
<1> SUFFICES ASSUME ArchiveTypeOK, BlobInv, SourceInv, [ArchiveNext]_archiveVars
             PROVE  SourceInv'
  OBVIOUS
<1>1. \A o : Sourced(o) => Sourced(o)'
  BY CapturedGrows DEF Sourced
<1>2. ASSUME canary'.page # NoBlob PROVE canary'.page \in Captured'
  <2>1. CASE PageReceipt
    BY <1>2, <2>1, ReceiptCaptures, CanaryMoves
  <2>2. canary'.page = canary.page \/ canary'.page = NoBlob \/ PageReceipt
    BY CanaryMoves, CanarySteps
  <2>3. canary'.page = canary.page => canary'.page \in Captured'
    BY <1>2, CapturedGrows DEF SourceInv
  <2> QED BY <1>2, <2>1, <2>2, <2>3
<1>3. ASSUME NEW o \in canary'.out \cup replay'.out PROVE Sourced(o)'
  <2>1. CASE o \in canary.out \cup replay.out
    BY <1>1, <2>1 DEF SourceInv
  <2>2. CASE EndpointReceipt /\ o \in Observed(canary.page[2], canary.blob)
    <3>1. canary.page \in {PageUrl} \X Pages /\ canary.blob \in Endpoints \X Sheets
      BY <2>2, CanaryMoves
    <3>2. canary.page = <<PageUrl, canary.page[2]>> /\ canary.page # NoBlob
      BY <3>1, BlobFacts
    <3>3. o = <<canary.page[2], canary.blob[1], canary.blob[2]>>
      BY <2>2 DEF Observed
    <3>4. o[1] = canary.page[2] /\ <<o[2], o[3]>> = canary.blob
      BY <3>1, <3>3
    <3>5. canary.page \in Captured' /\ canary.blob \in Captured'
      BY <2>2, <3>2, CapturedGrows, ReceiptCaptures DEF SourceInv
    <3> QED BY <3>2, <3>4, <3>5 DEF Sourced
  <2>3. ASSUME NEW k \in ReplayPages, NEW name, o \in Derived(k, name) PROVE Sourced(o)'
    <3>1. <<PageUrl, k>> \in Captured /\ <<o[2], o[3]>> \in Captured /\ o = <<k, o[2], o[3]>>
      BY <2>3, CapturedFacts
    <3>2. o[1] = k
      BY <3>1
    <3> QED BY <1>1, <3>1, <3>2 DEF Sourced
  <2> QED BY <2>1, <2>2, <2>3, OutSteps
<1>4. ASSUME NEW o \in DOMAIN store', store'[o] # Absent PROVE Sourced(o)'
  <2>1. o \in Ids /\ (store[o] # Absent \/ o \in canary.out \cup replay.out)
    BY <1>4, ArchiveGrows
  <2>2. Sourced(o)
    BY <2>1, ArchiveGrows DEF SourceInv
  <2> QED BY <1>1, <2>2
<1> QED BY <1>2, <1>3, <1>4 DEF SourceInv

\* A replay stores what was captured, all of it before it succeeds.
LEMMA ReplayKept ==
  ArchiveTypeOK /\ BlobInv /\ TurnsInv /\ ReplayInv /\ [ArchiveNext]_archiveVars => ReplayInv'
<1> SUFFICES ASSUME ArchiveTypeOK, BlobInv, TurnsInv, ReplayInv, [ArchiveNext]_archiveVars,
                    named'
             PROVE  /\ replay'.at = "append" =>
                         \E k \in Pages : \E name \in FirstNames' :
                           AllStoredBut(k, name, replay.out)'
                    /\ replayed' = "ok" =>
                         \E k \in Pages : \E name \in FirstNames' : AllStoredBut(k, name, {})'
  BY DEF ReplayInv
<1>a. store \in [Ids -> Files] /\ Whole # Absent
  BY ArchiveShape, ArchiveAssumption DEF ArchiveAssumption
<1>b. ASSUME canary.at = "idle"
      PROVE  /\ named /\ FirstNames' = FirstNames
             /\ \A k, name : Derived(k, name)' = Derived(k, name)
  <2>1. receipts' = receipts /\ named
    BY <1>b, ArchiveGrows
  <2> QED BY <2>1 DEF FirstNames, Derived, ParsedReceipts, Receipted
<1>c. replay.at = "append" \/ replayed = "ok" => canary.at = "idle"
  BY DEF TurnsInv
\* What is listed shrinks only by what is stored.
<1>1. ASSUME canary.at = "idle", NEW k \in Pages, NEW name, NEW more, NEW less,
             AllStoredBut(k, name, more), \A o \in more \ less : store'[o] = Whole
      PROVE  \A o \in Derived(k, name) : o \in less \/ store'[o] = Whole
  <2> SUFFICES ASSUME NEW o \in Derived(k, name), o \notin less PROVE store'[o] = Whole
    OBVIOUS
  <2>1. o \in Ids
    BY <1>1, CapturedFacts
  <2>2. CASE store[o] = Whole
    BY <1>a, <2>1, <2>2, ArchiveGrows
  <2>3. CASE o \in more
    BY <1>1, <2>3
  <2> QED BY <1>1, <2>2, <2>3 DEF AllStoredBut
<1>2. ASSUME replay'.at = "append"
      PROVE  \E k \in Pages : \E name \in FirstNames' : AllStoredBut(k, name, replay.out)'
  <2>1. CASE replay.at = "append" /\ \A o \in replay.out \ replay'.out : store'[o] = Whole
    <3>1. canary.at = "idle" /\ named
      BY <1>b, <1>c, <2>1
    <3>2. PICK k \in Pages, name \in FirstNames : AllStoredBut(k, name, replay.out)
      BY <2>1, <3>1 DEF ReplayInv
    <3>3. Derived(k, name)' = Derived(k, name)
      BY <1>b, <3>1
    <3>4. \A o \in Derived(k, name) : o \in replay'.out \/ store'[o] = Whole
      BY <1>1, <2>1, <3>1, <3>2
    <3>5. AllStoredBut(k, name, replay.out)'
      BY <3>3, <3>4 DEF AllStoredBut
    <3> QED BY <1>b, <3>1, <3>5
  <2>2. CASE StartReplay /\ replay' # replay
    <3>1. canary.at = "idle"
      BY <2>2 DEF StartReplay
    <3>2. PICK k \in ReplayPages, name \in FirstNames : replay'.out = Derived(k, name)
      BY <1>b, <2>2, <3>1, ReplayMoves
    <3>3. k \in Pages /\ Derived(k, name)' = Derived(k, name)
      BY <1>b, <3>1, CapturedFacts
    <3>4. AllStoredBut(k, name, replay.out)'
      BY <3>2, <3>3 DEF AllStoredBut
    <3> QED BY <1>b, <3>1, <3>3, <3>4
  <2>3. ASSUME ReplayAppend
        PROVE  replay.at = "append" /\ \A o \in replay.out \ replay'.out : store'[o] = Whole
    <3>1. PICK o \in replay.out : AppendObservation(o) /\ replay'.out = replay.out \ {o}
      BY <2>3, ReplayMoves
    <3>2. o \in Ids /\ replay.at = "append"
      BY <2>3, ArchiveShape DEF ReplayAppend, ReplayStates
    <3> QED BY <1>a, <3>1, <3>2 DEF AppendObservation
  <2>4. replay' = ReplayIdle => replay'.at # "append"
    BY ReplayMoves
  <2> QED BY <1>2, <2>1, <2>2, <2>3, <2>4, ReplaySteps
<1>3. ASSUME replayed' = "ok"
      PROVE  \E k \in Pages : \E name \in FirstNames' : AllStoredBut(k, name, {})'
  <2>1. CASE replayed = "ok"
    <3>1. canary.at = "idle" /\ named
      BY <1>b, <1>c, <2>1
    <3>2. PICK k \in Pages, name \in FirstNames : AllStoredBut(k, name, {})
      BY <2>1, <3>1 DEF ReplayInv
    <3>3. Derived(k, name)' = Derived(k, name)
      BY <1>b, <3>1
    <3>4. \A o \in Derived(k, name) : o \in {} \/ store'[o] = Whole
      BY <1>1, <3>1, <3>2
    <3>5. AllStoredBut(k, name, {})'
      BY <3>3, <3>4 DEF AllStoredBut
    <3> QED BY <1>b, <3>1, <3>5
  <2>2. CASE EndReplay /\ replay.out = {}
    <3>1. replay.at = "append" /\ canary.at = "idle" /\ named
      BY <1>b, <1>c, <2>2 DEF EndReplay
    <3>2. PICK k \in Pages, name \in FirstNames : AllStoredBut(k, name, {})
      BY <2>2, <3>1 DEF ReplayInv
    <3>3. Derived(k, name)' = Derived(k, name)
      BY <1>b, <3>1
    <3>4. \A o \in Derived(k, name) : o \in {} \/ store'[o] = Whole
      BY <1>1, <3>1, <3>2
    <3>5. AllStoredBut(k, name, {})'
      BY <3>3, <3>4 DEF AllStoredBut
    <3> QED BY <1>b, <3>1, <3>5
  <2>3. EndReplay => replay.out = {}
    BY <1>3 DEF EndReplay
  <2>4. StartReplay => replayed = "ok"
    BY <1>3 DEF StartReplay
  <2> QED
    BY <1>3, <2>1, <2>2, <2>3, <2>4
    DEF ArchiveNext, archiveVars, NextDay, StartCanary, GetPage, GetEndpoint, GetFails,
        ArchivePayload, PageReceipt, EndpointReceipt, EndpointsDone, CanaryAppend,
        CanaryAppendFails, KillCanary, WriteSummary, ReplayAppend, KillReplay
<1> QED BY <1>2, <1>3

\* Torn files and pages that do not parse or agree are all that makes a replay
\* fail, and they stay.
LEMMA ReplayableKept ==
  /\ ArchiveTypeOK /\ BlobInv /\ TurnsInv /\ PayloadInv /\ ArchiveIsReplayable
  /\ [ArchiveNext]_archiveVars
  => ArchiveIsReplayable'
<1> DEFINE Spoilt == AnyTorn \/ Clash \/ CapturedPages \cap (Broken \cup Loose) # {}
<1> SUFFICES ASSUME ArchiveTypeOK, BlobInv, TurnsInv, PayloadInv, ArchiveIsReplayable,
                    [ArchiveNext]_archiveVars, replayed' = "failed"
             PROVE  Spoilt'
  BY DEF ArchiveIsReplayable
<1>a. /\ payloads \in [Blobs -> Files] /\ receipts \in [Receipts -> Files]
      /\ store \in [Ids -> Files] /\ summary \in Files
  BY ArchiveShape
<1>b. Absent # Half /\ Half # Whole /\ Whole # Absent
  BY ArchiveAssumption DEF ArchiveAssumption
<1>1. ASSUME Spoilt, canary.at = "idle"
      PROVE  Spoilt'
  <2>1. UNCHANGED <<receipts, payloads, summary>>
    BY <1>1, ArchiveGrows
  <2>2. \A o \in DOMAIN store : store[o] = Half => o \in DOMAIN store' /\ store'[o] = Half
    BY <1>a, <1>b, ArchiveGrows
  <2>3. AnyTorn => AnyTorn'
    BY <2>1, <2>2 DEF AnyTorn
  <2>4. CapturedPages' = CapturedPages
    BY <2>1 DEF CapturedPages, Receipted
  <2> QED BY <1>1, <2>3, <2>4 DEF Clash
<1> HIDE DEF Spoilt
<1>2. CASE replayed = "failed"
  BY <1>1, <1>2 DEF TurnsInv, ArchiveIsReplayable, Spoilt
<1>3. CASE StartReplay /\ replayed # "failed"
  <2>a. canary.at = "idle" /\ summary # Absent
    BY <1>3 DEF StartReplay
  <2>1. ASSUME ~Replayable PROVE Spoilt
    <3>1. CASE summary # Whole
      BY <1>a, <2>a, <3>1 DEF AnyTorn, Files, Spoilt
    <3>2. CASE \E r \in Receipted : receipts[r] # Whole
      <4>1. PICK r \in Receipted : receipts[r] # Whole
        BY <3>2
      <4>2. receipts[r] = Half /\ r \in DOMAIN receipts
        BY <1>a, <4>1 DEF Receipted, Files
      <4> QED BY <4>2 DEF AnyTorn, Spoilt
    <3>3. CASE \E r \in Receipted : payloads[r[2]] # Whole
      <4>1. PICK r \in Receipted : payloads[r[2]] # Whole
        BY <3>3
      <4>2. r[2] \in Captured /\ r[2] \in Blobs
        BY CapturedFacts DEF Captured
      <4>3. payloads[r[2]] = Half
        BY <1>a, <4>1, <4>2 DEF PayloadInv, Files
      <4> QED BY <4>2, <4>3 DEF AnyTorn, Spoilt
    <3>4. CASE CapturedPages \cap (Broken \cup Loose) # {}
      BY <3>4 DEF Spoilt
    <3> QED BY <1>b, <2>1, <3>1, <3>2, <3>3, <3>4 DEF Replayable
  <2>2. ASSUME NEW r \in Receipted, payloads[r[2]] = Half PROVE Spoilt
    <3>1. r[2] \in Blobs
      BY CapturedFacts DEF Captured
    <3> QED BY <2>2, <3>1 DEF AnyTorn, Spoilt
  <2>3. Clash => Spoilt
    BY DEF Spoilt
  <2> QED BY <1>1, <1>3, <2>a, <2>1, <2>2, <2>3 DEF StartReplay
<1>4. CASE EndReplay /\ \E o \in replay.out : store[o] = Half
  <2>1. Spoilt
    BY <1>4, <1>a, ArchiveShape DEF AnyTorn, ReplayStates, Spoilt
  <2>2. canary.at = "idle"
    BY <1>4 DEF EndReplay, TurnsInv
  <2> QED BY <1>1, <2>1, <2>2
<1>5. EndReplay => \E o \in replay.out : store[o] = Half
  BY DEF EndReplay
<1> QED
  BY <1>2, <1>3, <1>4, <1>5
  DEF ArchiveNext, archiveVars, NextDay, StartCanary, GetPage, GetEndpoint, GetFails,
      ArchivePayload, PageReceipt, EndpointReceipt, EndpointsDone, CanaryAppend,
      CanaryAppendFails, KillCanary, WriteSummary, ReplayAppend, KillReplay

\* Without a kill, what a run captures under a page is in its hands until it is
\* stored.
LEMMA RepeatKept ==
  ArchiveTypeOK /\ BlobInv /\ SourceInv /\ RepeatInv /\ [ArchiveNext]_archiveVars => RepeatInv'
<1> SUFFICES ASSUME ArchiveTypeOK, BlobInv, SourceInv, RepeatInv, [ArchiveNext]_archiveVars
             PROVE  RepeatInv'
  OBVIOUS
<1>a. /\ store \in [Ids -> Files] /\ canary \in CanaryStates /\ Upcoming \subseteq Listed
      /\ Half # Whole /\ Whole # Absent /\ Absent # Half
  BY ArchiveShape, ArchiveAssumption DEF ArchiveAssumption
<1>1. killed' \in Nat /\ (killed' = 0 => killed = 0 /\ ~KillCanary /\ ~KillReplay)
  <2>1. KillCanary \/ KillReplay => killed' = killed + 1
    BY DEF KillCanary, KillReplay
  <2>2. KillCanary \/ KillReplay \/ killed' = killed
    BY DEF ArchiveNext, archiveVars, spent, NextDay, StartCanary, GetPage, GetEndpoint, GetFails,
           ArchivePayload, PageReceipt, EndpointReceipt, EndpointsDone, CanaryAppend,
           CanaryAppendFails, WriteSummary, StartReplay, ReplayAppend, EndReplay
  <2>3. killed \in Nat
    BY DEF RepeatInv
  <2> QED BY <2>1, <2>2, <2>3
<1>2. canary'.at = "idle" => canary'.page = NoBlob
  BY CanaryMoves, CanarySteps DEF RepeatInv
<1>3. canary'.page = NoBlob => canary'.out = {} /\ canary'.todo = {}
  <2>1. canary.page \in {PageUrl} \X Pages => canary.page # NoBlob
    BY BlobFacts
  <2>2. canary.blob \in {PageUrl} \X Pages => canary.blob # NoBlob
    BY BlobFacts
  <2>3. CanaryAppend => canary.page # NoBlob
    BY DEF CanaryAppend, RepeatInv
  <2> QED BY <2>1, <2>2, <2>3, CanaryMoves, CanarySteps DEF RepeatInv
<1>4. canary'.page # NoBlob /\ (canary'.at \in {"payload", "receipt"} \/ canary'.todo # {})
        => canary'.page[2] \in Listed
  <2>1. ASSUME ArchivePayload, canary.page # NoBlob PROVE canary.page[2] \in Listed
    BY <2>1 DEF ArchivePayload, RepeatInv
  <2>2. ASSUME PageReceipt, canary'.page # NoBlob, canary'.at \in {"payload", "receipt"} \/ canary'.todo # {}
        PROVE  canary'.page[2] \in Listed
    BY <1>a, <2>2, CanaryMoves
  <2> QED BY <2>1, <2>2, CanaryMoves, CanarySteps DEF RepeatInv
<1>5. ASSUME NEW o \in replay'.out PROVE o[1] \in Listed /\ o[3] \notin Unparsable
  <2>1. CASE o \in replay.out
    BY <2>1 DEF RepeatInv
  <2>2. CASE StartReplay
    <3>1. CASE o \in replay.out
      BY <3>1 DEF RepeatInv
    <3>2. ASSUME NEW k \in ReplayPages, NEW name, o \in Derived(k, name)
          PROVE  o[1] \in Listed /\ o[3] \notin Unparsable
      <4>1. o = <<k, o[2], o[3]>> /\ k \in Listed /\ o[3] \notin Unparsable
        BY <3>2, CapturedFacts
      <4>2. o[1] = k
        BY <4>1
      <4> QED BY <4>1, <4>2
    <3> QED BY <1>5, <2>2, <3>1, <3>2, ReplayMoves
  <2> QED BY <1>5, <2>1, <2>2, ReplayMoves, ReplaySteps
<1>6. ASSUME killed' = 0, NEW o \in DOMAIN store' PROVE store'[o] # Half
  <2>1. o \in Ids /\ store[o] # Half
    BY <1>1, <1>6, ArchiveGrows DEF RepeatInv
  <2>2. ASSUME NEW p, AppendObservation(p) PROVE store'[o] # Half
    BY <1>a, <2>1, <2>2 DEF AppendObservation
  <2> QED
    BY <1>1, <1>6, <2>1, <2>2
    DEF ArchiveNext, archiveVars, NextDay, StartCanary, GetPage, GetEndpoint, GetFails,
        ArchivePayload, PageReceipt, EndpointReceipt, EndpointsDone, CanaryAppend,
        CanaryAppendFails, WriteSummary, StartReplay, ReplayAppend, EndReplay
<1>7. ASSUME killed' = 0, NEW b \in Captured', b[1] \in Endpoints, b[2] \notin Unparsable
      PROVE  Held(b)'
  <2>a. \A o \in Ids : store[o] = Whole => store'[o] = Whole
    BY <1>a, ArchiveGrows
  \* Captured before: the run keeps it or stores it.
  <2>1. CASE b \in Captured
    <3>1. PICK k \in CapturedPages \cap Listed :
            <<k, b[1], b[2]>> \in canary.out \/ store[<<k, b[1], b[2]>>] = Whole
      BY <1>1, <1>7, <2>1 DEF RepeatInv, Held
    <3> DEFINE o == <<k, b[1], b[2]>>
    <3>2. o \in Ids /\ k \in CapturedPages'
      <4>1. k \in Pages /\ b \in Blobs /\ k \in CapturedPages'
        BY <2>1, <3>1, CapturedFacts, CapturedGrows
      <4>2. b[1] \in Endpoints /\ b[2] \in Sheets
        BY <1>7, <4>1, BlobFacts
      <4> QED BY <4>1, <4>2 DEF Ids
    <3> HIDE DEF o
    <3>3. ASSUME o \in canary.out PROVE o \in canary'.out \/ store'[o] = Whole
      <4>a. canary.page # NoBlob /\ canary.at # "idle"
        BY <3>3 DEF RepeatInv
      <4>1. ASSUME CanaryAppend PROVE o \in canary'.out \/ store'[o] = Whole
        <5>1. PICK p \in canary.out : AppendObservation(p) /\ canary'.out = canary.out \ {p}
          BY <4>1, CanaryMoves
        <5> QED BY <1>a, <3>2, <3>3, <5>1 DEF AppendObservation
      <4>2. ~WriteSummary
        BY <3>3 DEF WriteSummary
      <4>3. ~CanaryAppendFails
        <5>1. \A p \in canary.out : p \in DOMAIN store
          BY <1>a DEF CanaryStates
        <5> QED BY <1>1, <1>7, <5>1 DEF CanaryAppendFails, RepeatInv
      <4>4. ~StartCanary
        BY <4>a DEF StartCanary
      <4> QED BY <1>1, <1>7, <3>3, <4>a, <4>1, <4>2, <4>3, <4>4, CanaryMoves, CanarySteps
    <3>4. o \in canary'.out \/ store'[o] = Whole
      BY <2>a, <3>1, <3>2, <3>3 DEF o
    <3> QED BY <3>1, <3>2, <3>4 DEF Held, o
  \* Captured now: by a run that has a page with the fixture.
  <2>2. CASE b \notin Captured
    <3>1. canary.at = "receipt" /\ b = canary.blob
      BY <2>2, CapturedGrows
    <3>2. EndpointReceipt
      <4>1. ~PageReceipt
        BY <1>7, <3>1, CanaryMoves, PageAssumption DEF PageAssumption
      <4>2. PageReceipt \/ EndpointReceipt \/ KillCanary \/ receipts' = receipts
        BY DEF ArchiveNext, archiveVars, archiveFiles, NextDay, StartCanary, GetPage, GetEndpoint,
               GetFails, ArchivePayload, EndpointsDone, CanaryAppend, CanaryAppendFails,
               WriteSummary, StartReplay, ReplayAppend, EndReplay, KillReplay
      <4>3. receipts' # receipts
        BY <2>2 DEF Captured, Receipted
      <4> QED BY <1>1, <1>7, <4>1, <4>2, <4>3
    <3> DEFINE k == canary.page[2]
    <3>3. canary.page \in {PageUrl} \X Pages /\ canary.page = <<PageUrl, k>> /\ canary.page # NoBlob
      BY <3>2, CanaryMoves, BlobFacts
    <3>4. k \in CapturedPages' /\ k \in Listed
      BY <3>1, <3>3, CapturedFacts, CapturedGrows DEF SourceInv, RepeatInv
    <3>5. <<k, b[1], b[2]>> \in canary'.out
      BY <1>7, <3>1, <3>2, CanaryMoves DEF Observed
    <3> HIDE DEF k
    <3> QED BY <3>4, <3>5 DEF Held
  <2> QED BY <2>1, <2>2
<1> QED BY <1>1, <1>2, <1>3, <1>4, <1>5, <1>6, <1>7 DEF RepeatInv

LEMMA ArchiveStarts == ArchiveInit => ArchiveInv
<1> SUFFICES ASSUME ArchiveInit PROVE ArchiveInv
  OBVIOUS
<1>a. /\ canary = CanaryIdle /\ CanaryIdle.at = "idle" /\ CanaryIdle.page = NoBlob
      /\ CanaryIdle.out = {} /\ CanaryIdle.todo = {}
      /\ replay = ReplayIdle /\ ReplayIdle.at = "idle" /\ ReplayIdle.out = {}
      /\ replayed = "no" /\ CanaryIdle \in CanaryStates /\ ReplayIdle \in ReplayStates
  BY DEF ArchiveInit, CanaryIdle, ReplayIdle, CanaryStates, ReplayStates
<1>b. 1 \in 1..MaxDays /\ Absent # Half
  BY ArchiveAssumption DEF ArchiveAssumption
<1>c. /\ payloads \in [Blobs -> Files] /\ receipts \in [Receipts -> Files]
      /\ store \in [Ids -> Files] /\ summary \in Files /\ named = FALSE
      /\ DOMAIN receipts = Receipts /\ \A r \in Receipts : receipts[r] = Absent
  BY DEF ArchiveInit, Receipts, Ids, Files
<1>1. ArchiveTypeOK
  BY <1>a, <1>b, <1>c, ArchiveShape DEF ArchiveInit
<1>2. Captured = {} /\ \A o \in DOMAIN store : store[o] = Absent
  BY <1>c DEF ArchiveInit, Captured, Receipted
<1>3. TurnsInv /\ BlobInv /\ PayloadInv /\ SourceInv /\ ReplayInv /\ ArchiveIsReplayable
  BY <1>a, <1>c, <1>2
  DEF TurnsInv, BlobInv, PayloadInv, SourceInv, ReplayInv, ArchiveIsReplayable
<1>4. RepeatInv
  BY <1>a, <1>b, <1>2 DEF RepeatInv, ArchiveInit
<1> QED BY <1>1, <1>3, <1>4 DEF ArchiveInv

\* The invariant the next theorems rest on: who holds what the archive has
\* receipts for, what a replay still owes the store, and that a canary run
\* without a kill loses nothing it captured.
THEOREM ArchiveInductive == ArchiveSpec => []ArchiveInv
<1>1. ArchiveInv /\ [ArchiveNext]_archiveVars => ArchiveInv'
  BY ArchiveTyped, ArchiveTurns, PayloadsFirst, SourcesKept, ReplayKept, ReplayableKept, RepeatKept
  DEF ArchiveInv
<1> QED BY <1>1, ArchiveStarts, PTL DEF ArchiveSpec

\* The canary, the replay and their files have their types.
THEOREM ArchiveTypeCorrect == ArchiveSpec => []ArchiveTypeOK
<1>1. ArchiveInv => ArchiveTypeOK
  BY DEF ArchiveInv
<1> QED BY <1>1, ArchiveInductive, PTL

\* A replay of ContentAddressedArchive fails only over a file torn by a kill, a
\* page that does not parse or has an item that the canary skipped, and pages
\* that do not agree on a team's name.
THEOREM ReplayableAlways == ArchiveSpec => []ArchiveIsReplayable
<1>1. ArchiveInv => ArchiveIsReplayable
  BY DEF ArchiveInv
<1> QED BY <1>1, ArchiveInductive, PTL

\* Every stored observation has the receipts of its page and its payload, and a
\* replay that succeeds has stored whatever the archive has that parses, under
\* the name the player was archived with first.
THEOREM StoreIsIndex == ArchiveSpec => []StoreMatchesArchive
<1>1. ArchiveInv => StoreMatchesArchive
  <2> SUFFICES ASSUME ArchiveInv PROVE StoreMatchesArchive
    OBVIOUS
  <2> DEFINE Sheeted ==
        {b \in Endpoints \X Sheets : \E d \in 1..MaxDays : receipts[<<d, b>>] # Absent}
  <2>a. ArchiveTypeOK /\ DOMAIN receipts = Receipts /\ DOMAIN store = Ids
    BY ArchiveShape DEF ArchiveInv
  <2>b. \A b \in Endpoints \X Sheets : b \in Sheeted <=> \E r \in Receipted : r[2] = b
    <3> SUFFICES ASSUME NEW b \in Endpoints \X Sheets
                 PROVE  b \in Sheeted <=> \E r \in Receipted : r[2] = b
      OBVIOUS
    <3>1. ASSUME NEW d \in 1..MaxDays, receipts[<<d, b>>] # Absent
          PROVE  \E r \in Receipted : r[2] = b
      <4>1. <<d, b>> \in Receipted /\ <<d, b>>[2] = b
        BY <2>a, <3>1, BlobFacts DEF Receipted, Receipts
      <4> QED BY <4>1
    <3>2. ASSUME NEW r \in Receipted, r[2] = b
          PROVE  \E d \in 1..MaxDays : receipts[<<d, b>>] # Absent
      <4>1. r[1] \in 1..MaxDays /\ r = <<r[1], b>> /\ receipts[r] # Absent
        BY <2>a, <3>2 DEF Receipted, Receipts
      <4> QED BY <4>1
    <3> QED BY <3>1, <3>2
  <2>1. ASSUME NEW o \in DOMAIN store, store[o] # Absent
        PROVE  o[1] \in CapturedPages /\ <<o[2], o[3]>> \in Sheeted
    <3>1. Sourced(o) /\ o \in Ids
      BY <2>a, <2>1 DEF ArchiveInv, SourceInv
    <3>2. <<o[2], o[3]>> \in Endpoints \X Sheets
      BY <3>1 DEF Ids
    <3>3. <<o[2], o[3]>> \in Captured /\ <<PageUrl, o[1]>> \in Captured
      BY <3>1 DEF Sourced
    <3> QED BY <2>a, <2>b, <3>2, <3>3, CapturedFacts DEF Captured
  <2>2. ASSUME replayed = "ok", named
        PROVE  \E k \in Pages : \E name \in FirstNames : \A b \in Sheeted :
                 b[2] \notin Unparsable /\ Naming[b] \in {Nobody, name}
                   => store[<<k, b[1], b[2]>>] = Whole
    <3>1. PICK k \in Pages, name \in FirstNames : AllStoredBut(k, name, {})
      BY <2>2 DEF ArchiveInv, ReplayInv
    <3>2. ASSUME NEW b \in Sheeted, b[2] \notin Unparsable, Naming[b] \in {Nobody, name}
          PROVE  store[<<k, b[1], b[2]>>] = Whole
      <4>1. b \in Endpoints \X Sheets /\ b[1] \in Endpoints
        OBVIOUS
      <4>2. PICK r \in Receipted : r[2] = b
        BY <2>b, <3>2, <4>1
      <4>3. r \in ParsedReceipts
        BY <3>2, <4>1, <4>2 DEF ParsedReceipts
      <4>4. <<k, b[1], b[2]>> \in Derived(k, name)
        BY <3>2, <4>2, <4>3 DEF Derived
      <4> QED BY <3>1, <4>4 DEF AllStoredBut
    <3> QED BY <3>2
  <2> QED BY <2>1, <2>2 DEF StoreMatchesArchive
<1> QED BY <1>1, ArchiveInductive, PTL

\* Without a kill, and with one archived page that lists the fixture, a replay
\* finds everything it derives stored by the canary runs.
THEOREM ReplayRepeatsAlways == ArchiveSpec => []ReplayRepeats
<1>1. ArchiveInv => ReplayRepeats
  <2> SUFFICES ASSUME ArchiveInv, replay.at = "append", killed = 0,
                      \A k, l \in CapturedPages \cap Listed : k = l,
                      NEW o \in replay.out
               PROVE  store[o] = Whole
    BY DEF ReplayRepeats
  <2>a. ArchiveTypeOK /\ canary.out = {}
    BY DEF ArchiveInv, TurnsInv, RepeatInv
  <2>1. o \in Ids /\ Sourced(o) /\ o[1] \in Listed /\ o[3] \notin Unparsable
    BY <2>a, ArchiveShape DEF ReplayStates, ArchiveInv, SourceInv, RepeatInv
  <2>2. o[1] \in CapturedPages /\ <<o[2], o[3]>> \in Captured /\ o[2] \in Endpoints
    BY <2>a, <2>1, CapturedFacts DEF Sourced, Ids
  <2>3. Held(<<o[2], o[3]>>)
    BY <2>1, <2>2 DEF ArchiveInv, RepeatInv
  <2>4. PICK k \in CapturedPages \cap Listed : store[<<k, o[2], o[3]>>] = Whole
    BY <2>a, <2>3 DEF Held
  <2>5. k = o[1] /\ o = <<o[1], o[2], o[3]>>
    BY <2>1, <2>2 DEF Ids
  <2> QED BY <2>4, <2>5
<1> QED BY <1>1, ArchiveInductive, PTL
-----------------------------------------------------------------------------
(* The line-ups and prices of an analysis *)

\* A job is done in its order; an analysis is the last part of one, and a review
\* of it the last of all.
PhaseInv(s) ==
  /\ session[s].status # "none" => session[s].at \in {"opening", "current", "commit"}
  /\ session[s].at \in {"opening", "current"} => session[s].status # "none"
  /\ session[s].status = "none" => session[s].told = <<>>
  /\ session[s].at \in {"idle", "over"} =>
       session[s] \in {Idle, [Idle EXCEPT !.at = "over"]}

\* Nothing bears a time that has not come.
TimesInv ==
  /\ \A b \in Books : offered[b].updated <= clock
  /\ \A s \in Sessions : session[s].asOf <= clock /\ session[s].captured <= clock

\* Line-ups come in pairs, one for each team, captured at once.
Paired(rows) ==
  \A x \in rows, team \in Teams : \E y \in rows : y.team = team /\ y.captured = x.captured

PairsInv == Paired(lineups) /\ \A s \in Sessions : Paired(session[s].ownLineups)

\* One answer lists one sheet, and one board of each bookmaker.
AnswersInv ==
  /\ \A x, y \in published : x = y
  /\ \A s \in Sessions :
       /\ \A x, y \in session[s].sheets : x = y
       /\ \A x, y \in session[s].boards : x.book = y.book => x = y

\* What the session reads as the movement, once it has read the prices.
Movement(rows, asOf) == <<Market(rows, asOf - Lookback), Market(rows, asOf)>>

SeenPrices(s) == prices \cup session[s].ownPrices
SeenLineups(s) == lineups \cup session[s].ownLineups

\* The prices a session has read are still the ones it would read.
PricesInv(s) ==
  session[s].status # "none" /\ ~session[s].late =>
    /\ session[s].odds = Quotes(SeenPrices(s), session[s].asOf)
    /\ session[s].status = Verify(SeenPrices(s), session[s].asOf)
    /\ session[s].at = "opening" => session[s].told = <<>>
    /\ session[s].at = "current" =>
         session[s].told = <<Market(SeenPrices(s), session[s].asOf - Lookback)>>
    /\ session[s].at = "commit" =>
         session[s].told \in {<<>>, Movement(SeenPrices(s), session[s].asOf)}

\* An analysis of the last stage that began while nobody else was at work.
Alone(s) ==
  /\ session[s].stage # "initial" /\ session[s].open = {}
  /\ session[s].at \in {"home", "away", "prices"} \/ session[s].status # "none"

\* Whoever began since was answered since.
AnsweredSince(s) ==
  \A t \in Sessions \ {s} :
    /\ session[t].sheets # {} => session[t].captured >= session[s].asOf
    /\ \A x \in session[t].ownLineups : x.captured >= session[s].asOf

Instant(rows, asOf) == \E x \in rows : x.captured = asOf

LineupsInv(s) ==
  Alone(s) =>
    /\ AnsweredSince(s)
    /\ \/ Instant(SeenLineups(s), session[s].asOf)
       \/ /\ session[s].at # "home" =>
               session[s].home = LatestLineup(SeenLineups(s), "home", session[s].asOf)
          /\ session[s].at \notin {"home", "away"} =>
               session[s].away = LatestLineup(SeenLineups(s), "away", session[s].asOf)

\* The same of the analyses that are committed.
VerdictsInv ==
  \A v \in verdicts :
    /\ v.stage # "initial" /\ v.open = {} =>
         /\ \A t \in Sessions :
              /\ session[t].sheets # {} => session[t].captured >= v.asOf
              /\ \A x \in session[t].ownLineups : x.captured >= v.asOf
         /\ \/ Instant(lineups, v.asOf)
            \/ /\ v.home = LatestLineup(lineups, "home", v.asOf)
               /\ v.away = LatestLineup(lineups, "away", v.asOf)
    /\ v.asOf <= clock
    /\ ~v.late =>
         /\ v.odds = Quotes(prices, v.asOf) /\ v.status = Verify(prices, v.asOf)
         /\ v.told \in {<<>>, Movement(prices, v.asOf)}

EvidenceInv ==
  /\ EvidenceTypeOK /\ TimesInv /\ PairsInv /\ AnswersInv /\ VerdictsInv
  /\ \A s \in Sessions : PhaseInv(s) /\ PricesInv(s) /\ LineupsInv(s)
-----------------------------------------------------------------------------
(* What an analysis reads *)

LEMMA LeastOfNat == ASSUME NEW T, T \subseteq Nat, T # {} PROVE \E x \in T : \A y \in T : x <= y
<1> DEFINE R == OpToRel(<, Nat)
<1>1. IsWellFoundedOn(R, Nat)
  BY NatLessThanWellFounded
<1>2. \A x, y \in Nat : y < x => <<y, x>> \in R
  BY DEF OpToRel
<1> HIDE DEF R
<1>3. \E x \in T : \A y \in T : ~ (<<y, x>> \in R)
  BY <1>1, WFMin
<1>4. PICK x \in T : \A y \in T : ~ (<<y, x>> \in R)
  BY <1>3
<1>5. ASSUME NEW y \in T PROVE x <= y
  <2>1. x \in Nat /\ y \in Nat /\ ~(y < x)
    BY <1>2, <1>4
  <2> QED BY <2>1
<1> QED BY <1>5

LEMMA GreatestUpTo ==
  ASSUME NEW n \in Nat, NEW T, T \subseteq 0..n, T # {} PROVE \E x \in T : \A y \in T : y <= x
<1> DEFINE below == {n - y : y \in T}
<1>1. below \subseteq Nat
  OBVIOUS
<1>2. below # {}
  OBVIOUS
<1>3. PICK m \in below : \A k \in below : m <= k
  BY <1>1, <1>2, LeastOfNat
<1>4. PICK x \in T : m = n - x
  OBVIOUS
<1>5. \A y \in T : m <= n - y
  BY <1>3
<1> QED BY <1>4, <1>5

LEMMA EvidenceBounds ==
  /\ MaxTime \in Nat /\ MaxMoves \in Nat /\ Lookback \in Nat
  /\ Boards # {} /\ \A b \in Boards : DOMAIN b = Codes
BY EvidenceAssumption DEF EvidenceAssumption

\* Of the rows known at a time one is the latest.
LEMMA LatestIsKnown ==
  ASSUME NEW rows, rows \subseteq LineupRow, NEW team, NEW asOf,
         NEW known, known = {x \in rows : x.team = team /\ x.captured <= asOf}, known # {}
  PROVE  /\ LatestLineup(rows, team, asOf) \in known
         /\ \A y \in known : y.captured <= LatestLineup(rows, team, asOf).captured
<1>1. {x.captured : x \in known} \subseteq 0..MaxTime
  BY DEF LineupRow
<1>2. {x.captured : x \in known} # {}
  OBVIOUS
<1>3. PICK c \in {x.captured : x \in known} : \A d \in {x.captured : x \in known} : d <= c
  BY <1>1, <1>2, GreatestUpTo, EvidenceBounds
<1>4. PICK x \in known : c = x.captured
  OBVIOUS
<1>5. \A y \in known : y.captured <= x.captured
  BY <1>3, <1>4
<1>6. LatestLineup(rows, team, asOf) = CHOOSE z \in known : \A y \in known : y.captured <= z.captured
  BY DEF LatestLineup
<1> QED BY <1>5, <1>6

LEMMA LatestLineupType ==
  ASSUME NEW rows, rows \subseteq LineupRow, NEW team, NEW asOf
  PROVE  LatestLineup(rows, team, asOf) \in LineupRow \cup {None}
<1> DEFINE known == {x \in rows : x.team = team /\ x.captured <= asOf}
<1>1. CASE known = {}
  BY <1>1 DEF LatestLineup
<1>2. CASE known # {}
  <2>1. known \subseteq LineupRow
    OBVIOUS
  <2> QED BY <1>2, <2>1, LatestIsKnown
<1> QED BY <1>1, <1>2

\* The latest line-ups of both teams are of one answer.
LEMMA LatestPair ==
  ASSUME NEW rows, rows \subseteq LineupRow, Paired(rows), NEW asOf
  PROVE  LatestLineup(rows, "home", asOf).captured = LatestLineup(rows, "away", asOf).captured
<1> DEFINE known(team) == {x \in rows : x.team = team /\ x.captured <= asOf}
           latest(team) == LatestLineup(rows, team, asOf)
<1>1. ASSUME NEW a \in Teams, NEW b \in Teams, known(a) # {}
      PROVE  known(b) # {} /\ latest(a).captured <= latest(b).captured
  <2>1. latest(a) \in known(a)
    BY <1>1, LatestIsKnown
  <2>2. PICK y \in rows : y.team = b /\ y.captured = latest(a).captured
    BY <2>1 DEF Paired
  <2>3. y \in known(b)
    BY <2>1, <2>2
  <2>4. \A z \in known(b) : z.captured <= latest(b).captured
    BY <2>3, LatestIsKnown
  <2> QED BY <2>2, <2>3, <2>4
<1>2. "home" \in Teams /\ "away" \in Teams
  BY DEF Teams
<1>3. CASE known("home") # {}
  <2>1. known("away") # {} /\ latest("home").captured <= latest("away").captured
    BY <1>1, <1>2, <1>3
  <2>2. latest("away").captured <= latest("home").captured
    BY <1>1, <1>2, <2>1
  <2>3. latest("home") \in LineupRow /\ latest("away") \in LineupRow
    <3>1. latest("home") \in known("home") /\ latest("away") \in known("away")
      BY <1>3, <2>1, LatestIsKnown
    <3> QED BY <3>1
  <2> QED BY <2>1, <2>2, <2>3 DEF LineupRow
<1>4. CASE known("home") = {}
  <2>1. known("away") = {}
    BY <1>1, <1>2, <1>4
  <2> QED BY <1>4, <2>1 DEF LatestLineup
<1> QED BY <1>3, <1>4

\* What is captured later does not count.
LEMMA SamePastLineup ==
  ASSUME NEW rows, NEW more, NEW asOf, \A x : x.captured <= asOf => (x \in rows <=> x \in more)
  PROVE  \A team : LatestLineup(rows, team, asOf) = LatestLineup(more, team, asOf)
<1> SUFFICES ASSUME NEW team
             PROVE  LatestLineup(rows, team, asOf) = LatestLineup(more, team, asOf)
  OBVIOUS
<1>1. PICK known : known = {x \in rows : x.team = team /\ x.captured <= asOf}
  OBVIOUS
<1>2. known = {x \in more : x.team = team /\ x.captured <= asOf}
  BY <1>1
<1> DEFINE latest == IF known = {} THEN None
                     ELSE CHOOSE x \in known : \A y \in known : y.captured <= x.captured
<1>3. LatestLineup(rows, team, asOf) = latest
  BY <1>1 DEF LatestLineup
<1>4. LatestLineup(more, team, asOf) = latest
  BY <1>2 DEF LatestLineup
<1> QED BY <1>3, <1>4

LEMMA SamePastPrices ==
  ASSUME NEW rows, NEW more, NEW asOf, \A x : x.captured <= asOf => (x \in rows <=> x \in more)
  PROVE  /\ Verify(rows, asOf) = Verify(more, asOf)
         /\ Quotes(rows, asOf) = Quotes(more, asOf)
         /\ Market(rows, asOf) = Market(more, asOf)
<1>1. {x \in rows : x.captured <= asOf} = {x \in more : x.captured <= asOf}
  OBVIOUS
<1>2. LatestPrices(rows, asOf) = LatestPrices(more, asOf)
  BY <1>1 DEF LatestPrices
<1>3. Verify(rows, asOf) = Verify(more, asOf)
  BY <1>2 DEF Verify
<1>4. Quotes(rows, asOf) = Quotes(more, asOf)
  BY <1>2, <1>3 DEF Quotes
<1>5. Market(rows, asOf) = Market(more, asOf)
  BY <1>2, <1>3 DEF Market
<1> QED BY <1>3, <1>4, <1>5

LEMMA SameMovement ==
  ASSUME NEW rows, rows \subseteq PriceRow, NEW more, more \subseteq PriceRow, NEW asOf \in 0..MaxTime,
         \A x \in rows \cup more : x.captured <= asOf => (x \in rows <=> x \in more)
  PROVE  /\ Verify(rows, asOf) = Verify(more, asOf)
         /\ Quotes(rows, asOf) = Quotes(more, asOf)
         /\ Market(rows, asOf - Lookback) = Market(more, asOf - Lookback)
         /\ Market(rows, asOf) = Market(more, asOf)
         /\ Movement(rows, asOf) = Movement(more, asOf)
<1>1. \A x \in rows \cup more : x.captured \in Nat
  BY DEF PriceRow
<1>2. \A x : x.captured <= asOf => (x \in rows <=> x \in more)
  OBVIOUS
<1>3. \A x : x.captured <= asOf - Lookback => (x \in rows <=> x \in more)
  BY <1>1, EvidenceBounds
<1>4. /\ Verify(rows, asOf) = Verify(more, asOf)
      /\ Quotes(rows, asOf) = Quotes(more, asOf)
      /\ Market(rows, asOf) = Market(more, asOf)
  BY <1>2, SamePastPrices
<1>5. Market(rows, asOf - Lookback) = Market(more, asOf - Lookback)
  BY <1>3, SamePastPrices
<1> QED BY <1>4, <1>5 DEF Movement

\* Prices and the market are rows, and a price that enters the model is one of
\* the market.
LEMMA ReadRows ==
  ASSUME NEW rows, NEW asOf
  PROVE  /\ Quotes(rows, asOf) \subseteq Market(rows, asOf) /\ Market(rows, asOf) \subseteq rows
         /\ Verify(rows, asOf) \in {"not_found", "verified", "preliminary", "too_stale", "rejected"}
         /\ Verify(rows, asOf) # "none"
<1>1. \A latest, code, age : Kept(latest, code, asOf, age) \subseteq latest
  BY DEF Kept
<1>2. LatestPrices(rows, asOf) \subseteq rows
  BY DEF LatestPrices
<1>3. Market(rows, asOf) \subseteq rows
  BY <1>1, <1>2 DEF Market
<1>4. Quotes(rows, asOf) \subseteq Market(rows, asOf)
  BY DEF Quotes, Market
<1>5. /\ Verify(rows, asOf) \in {"not_found", "verified", "preliminary", "too_stale", "rejected"}
      /\ Verify(rows, asOf) # "none"
  BY DEF Verify
<1> QED BY <1>3, <1>4, <1>5
-----------------------------------------------------------------------------
(* Sessions *)

Points == {"idle", "lineups", "save lineups", "odds", "save odds", "analysis", "home", "away",
           "prices", "opening", "current", "commit", "over"}
Parts == {"lineups", "odds", "analysis"}
Over == [Idle EXCEPT !.at = "over"]

LEMMA RecordFields ==
  ASSUME NEW r \in Records
  PROVE  /\ r.at \in Points /\ r.todo \in Seq(Parts) /\ r.stage \in Stages
         /\ r.captured \in 0..MaxTime /\ r.sheets \subseteq Announcements
         /\ r.boards \subseteq [book : Books, board : Boards, captured : 0..MaxTime]
         /\ r.ownLineups \subseteq LineupRow /\ r.ownPrices \subseteq PriceRow
         /\ r.asOf \in 0..MaxTime /\ r.home \in LineupRow \cup {None}
         /\ r.away \in LineupRow \cup {None} /\ r.odds \subseteq PriceRow
         /\ r.status \in {"none", "not_found", "verified", "preliminary", "too_stale", "rejected"}
         /\ r.told \in Seq(SUBSET PriceRow) /\ r.open \subseteq Sessions /\ r.late \in BOOLEAN
BY DEF Records, Points, Parts

LEMMA SessionFields ==
  ASSUME EvidenceTypeOK, NEW s \in Sessions
  PROVE  /\ session[s] \in Records
         /\ session[s].asOf \in 0..MaxTime /\ session[s].captured \in 0..MaxTime
         /\ session[s].ownLineups \subseteq LineupRow /\ session[s].ownPrices \subseteq PriceRow
         /\ SeenLineups(s) \subseteq LineupRow /\ SeenPrices(s) \subseteq PriceRow
<1>1. session[s] \in Records /\ lineups \subseteq LineupRow /\ prices \subseteq PriceRow
  BY DEF EvidenceTypeOK
<1> QED BY <1>1, RecordFields DEF SeenLineups, SeenPrices

LEMMA IdleFields ==
  /\ Idle \in Records /\ Over \in Records /\ Idle.at = "idle" /\ Over.at = "over"
  /\ \A r \in {Idle, Over} :
       /\ r.status = "none" /\ r.told = <<>> /\ r.asOf = 0 /\ r.captured = 0
       /\ r.sheets = {} /\ r.boards = {} /\ r.ownLineups = {} /\ r.ownPrices = {}
       /\ r.stage = "initial"
<1>1. 0 \in 0..MaxTime /\ <<>> \in Seq({"lineups", "odds", "analysis"}) /\ <<>> \in Seq(SUBSET PriceRow)
  BY EvidenceBounds
<1>2. Idle \in Records
  BY <1>1 DEF Idle, Records, Stages
<1>3. Over \in Records
  BY <1>2 DEF Over, Records
<1>4. /\ Idle.at = "idle" /\ Idle.status = "none" /\ Idle.told = <<>> /\ Idle.asOf = 0
      /\ Idle.captured = 0 /\ Idle.sheets = {} /\ Idle.boards = {} /\ Idle.ownLineups = {}
      /\ Idle.ownPrices = {} /\ Idle.stage = "initial"
  BY DEF Idle
<1>5. /\ Over.at = "over" /\ Over.status = "none" /\ Over.told = <<>> /\ Over.asOf = 0
      /\ Over.captured = 0 /\ Over.sheets = {} /\ Over.boards = {} /\ Over.ownLineups = {}
      /\ Over.ownPrices = {} /\ Over.stage = "initial"
  BY DEF Over, Idle
<1> QED BY <1>2, <1>3, <1>4, <1>5

LEMMA OnwardFields ==
  ASSUME NEW r \in Records
  PROVE  /\ Onward(r) \in Records /\ Onward(r).at \in Parts \cup {"commit"}
         /\ Onward(r).sheets = r.sheets /\ Onward(r).captured = r.captured
         /\ Onward(r).boards = r.boards /\ Onward(r).asOf = r.asOf
         /\ Onward(r).ownLineups = r.ownLineups /\ Onward(r).ownPrices = r.ownPrices
         /\ Onward(r).status = r.status /\ Onward(r).told = r.told
<1>1. CASE r.todo = <<>>
  BY <1>1 DEF Onward, Records
<1>2. CASE r.todo # <<>>
  <2>1. r.todo \in Seq(Parts) /\ Head(r.todo) \in Parts /\ Tail(r.todo) \in Seq(Parts)
    BY <1>2, RecordFields
  <2>2. PICK h, q : h = Head(r.todo) /\ q = Tail(r.todo)
    OBVIOUS
  <2>3. Onward(r) = [r EXCEPT !.at = h, !.todo = q]
    BY <1>2, <2>2 DEF Onward
  <2>4. h \in {"lineups", "odds", "analysis"} /\ q \in Seq({"lineups", "odds", "analysis"})
    BY <2>1, <2>2 DEF Parts
  <2>5. Onward(r) \in Records
    BY <2>3, <2>4 DEF Records, Parts
  <2>6. /\ Onward(r).at = h /\ Onward(r).sheets = r.sheets /\ Onward(r).captured = r.captured
        /\ Onward(r).boards = r.boards /\ Onward(r).asOf = r.asOf
        /\ Onward(r).ownLineups = r.ownLineups /\ Onward(r).ownPrices = r.ownPrices
        /\ Onward(r).status = r.status /\ Onward(r).told = r.told
    BY <2>3 DEF Records
  <2> QED BY <2>4, <2>5, <2>6 DEF Parts
<1> QED BY <1>1, <1>2

\* What a session brings to the table is not older than its bound.
NotBefore(t, bound) ==
  /\ session[t].sheets # {} => session[t].captured >= bound
  /\ \A x \in session[t].ownLineups : x.captured >= bound

\* A step of one session that does not commit.
LEMMA OneSession ==
  ASSUME EvidenceInv, NEW s \in Sessions, NEW r \in Records,
         session' = [session EXCEPT ![s] = r],
         UNCHANGED <<clock, moves, published, offered, lineups, prices, verdicts>>,
         r.asOf <= clock, r.captured <= clock, Paired(r.ownLineups),
         \A x, y \in r.sheets : x = y, \A x, y \in r.boards : x.book = y.book => x = y,
         \A bound \in 0..clock : NotBefore(s, bound) => NotBefore(s, bound)',
         PhaseInv(s)', PricesInv(s)', LineupsInv(s)'
  PROVE  EvidenceInv'
<1>1. /\ session'[s] = r /\ session' \in [Sessions -> Records]
      /\ \A t \in Sessions \ {s} : session'[t] = session[t]
  BY DEF EvidenceInv, EvidenceTypeOK
<1>2. EvidenceTypeOK'
  BY <1>1 DEF EvidenceInv, EvidenceTypeOK
<1>3. TimesInv'
  BY <1>1 DEF EvidenceInv, TimesInv
<1>4. PairsInv'
  BY <1>1 DEF EvidenceInv, PairsInv, Paired
<1>5. AnswersInv'
  BY <1>1 DEF EvidenceInv, AnswersInv
<1>6. \A t \in Sessions, bound \in 0..clock : NotBefore(t, bound) => NotBefore(t, bound)'
  BY <1>1 DEF NotBefore
<1>7. VerdictsInv'
  <2> SUFFICES ASSUME NEW v \in verdicts, v.stage # "initial", v.open = {}, NEW t \in Sessions
               PROVE  NotBefore(t, v.asOf)'
    BY DEF EvidenceInv, VerdictsInv, NotBefore
  <2>1. NotBefore(t, v.asOf) /\ v.asOf <= clock
    BY DEF EvidenceInv, VerdictsInv, NotBefore
  <2>2. v.asOf \in 0..MaxTime
    BY DEF EvidenceInv, EvidenceTypeOK, Verdicts
  <2>3. clock \in 0..MaxTime
    BY DEF EvidenceInv, EvidenceTypeOK
  <2>4. v.asOf \in 0..clock
    BY <2>1, <2>2, <2>3
  <2> QED BY <1>6, <2>1, <2>4
<1>8. ASSUME NEW t \in Sessions PROVE PhaseInv(t)' /\ PricesInv(t)' /\ LineupsInv(t)'
  <2>1. CASE t = s
    BY <2>1
  <2>2. CASE t # s
    <3>1. /\ session'[t] = session[t] /\ SeenPrices(t)' = SeenPrices(t)
          /\ SeenLineups(t)' = SeenLineups(t)
      BY <1>1, <2>2 DEF SeenPrices, SeenLineups
    <3>2. PhaseInv(t)' /\ PricesInv(t)'
      BY <3>1 DEF EvidenceInv, PhaseInv, PricesInv
    <3>3. AnsweredSince(t) => AnsweredSince(t)'
      <4>1. session[t].asOf \in 0..MaxTime /\ session[t].asOf <= clock /\ clock \in 0..MaxTime
        BY SessionFields DEF EvidenceInv, TimesInv, EvidenceTypeOK
      <4>2. session[t].asOf \in 0..clock
        BY <4>1
      <4> QED BY <1>6, <3>1, <4>2 DEF AnsweredSince, NotBefore
    <3>4. LineupsInv(t)'
      BY <3>1, <3>3 DEF EvidenceInv, LineupsInv, Alone
    <3> QED BY <3>2, <3>4
  <2> QED BY <2>1, <2>2
<1> QED BY <1>2, <1>3, <1>4, <1>5, <1>7, <1>8 DEF EvidenceInv

LEMMA WorldKeeps == EvidenceInv /\ (Tick \/ Announce \/ MovePrice) => EvidenceInv'
<1> SUFFICES ASSUME EvidenceInv, Tick \/ Announce \/ MovePrice PROVE EvidenceInv'
  OBVIOUS
<1>1. /\ UNCHANGED <<lineups, prices, session, verdicts>>
      /\ clock' \in 0..MaxTime /\ clock <= clock' /\ moves' \in 0..MaxMoves
      /\ published' \subseteq Announcements /\ \A x, y \in published' : x = y
  <2>1. /\ clock \in 0..MaxTime /\ moves \in 0..MaxMoves /\ published \subseteq Announcements
        /\ \A x, y \in published : x = y
    BY DEF EvidenceInv, EvidenceTypeOK, AnswersInv
  <2>2. CASE Tick
    BY <2>1, <2>2, EvidenceBounds DEF Tick
  <2>3. CASE Announce
    BY <2>1, <2>3, EvidenceBounds DEF Announce
  <2>4. CASE MovePrice
    BY <2>1, <2>4, EvidenceBounds DEF MovePrice
  <2> QED BY <2>2, <2>3, <2>4
<1>2. /\ offered' \in [Books -> [board : Boards, updated : 0..MaxTime]]
      /\ \A b \in Books : offered'[b].updated <= clock'
  <2>1. /\ offered \in [Books -> [board : Boards, updated : 0..MaxTime]]
        /\ clock \in 0..MaxTime /\ \A b \in Books : offered[b].updated <= clock
    BY DEF EvidenceInv, EvidenceTypeOK, TimesInv
  <2>2. CASE offered' = offered
    BY <1>1, <2>1, <2>2
  <2>3. CASE MovePrice
    <3>1. PICK b \in Books, x \in Boards :
            offered' = [offered EXCEPT ![b] = [board |-> x, updated |-> clock]]
      BY <2>3 DEF MovePrice
    <3>2. [board |-> x, updated |-> clock] \in [board : Boards, updated : 0..MaxTime]
      BY <2>1
    <3>3. clock' = clock
      BY <2>3 DEF MovePrice
    <3> QED BY <2>1, <3>1, <3>2, <3>3
  <2> QED BY <2>2, <2>3 DEF Tick, Announce
<1>3. EvidenceTypeOK'
  BY <1>1, <1>2 DEF EvidenceInv, EvidenceTypeOK
<1>4. TimesInv'
  <2> SUFFICES ASSUME NEW s \in Sessions
               PROVE  session[s].asOf <= clock' /\ session[s].captured <= clock'
    BY <1>1, <1>2 DEF TimesInv
  <2>1. /\ session[s].asOf \in Int /\ session[s].captured \in Int /\ clock \in Int
        /\ session[s].asOf <= clock /\ session[s].captured <= clock
    BY SessionFields DEF EvidenceInv, EvidenceTypeOK, TimesInv
  <2> QED BY <1>1, <2>1
<1>5. PairsInv' /\ AnswersInv'
  BY <1>1 DEF EvidenceInv, PairsInv, AnswersInv, Paired
<1>6. VerdictsInv'
  <2> SUFFICES ASSUME NEW v \in verdicts PROVE v.asOf <= clock'
    BY <1>1 DEF EvidenceInv, VerdictsInv
  <2>1. v.asOf \in Int /\ clock \in Int /\ v.asOf <= clock
    BY DEF EvidenceInv, EvidenceTypeOK, VerdictsInv, Verdicts
  <2> QED BY <1>1, <2>1
<1>7. ASSUME NEW s \in Sessions PROVE PhaseInv(s)' /\ PricesInv(s)' /\ LineupsInv(s)'
  BY <1>1 DEF EvidenceInv, PhaseInv, PricesInv, LineupsInv, Alone, AnsweredSince, SeenPrices, SeenLineups
<1> QED BY <1>3, <1>4, <1>5, <1>6, <1>7 DEF EvidenceInv

\* A session that has read no prices and no line-ups promises nothing.
LEMMA AtWork ==
  ASSUME NEW s \in Sessions, NEW r \in Records, session'[s] = r,
         r.status = "none", r.told = <<>>,
         r.at \in {"lineups", "save lineups", "odds", "save odds", "analysis", "commit"}
  PROVE  PhaseInv(s)' /\ PricesInv(s)' /\ LineupsInv(s)'
<1>1. PhaseInv(s)' /\ PricesInv(s)'
  BY DEF PhaseInv, PricesInv
<1>2. ~Alone(s)'
  BY DEF Alone
<1> QED BY <1>1, <1>2 DEF LineupsInv

\* What is known of a session, on its own.
LEMMA Known ==
  ASSUME EvidenceInv, NEW s \in Sessions
  PROVE  /\ session[s] \in Records /\ session \in [Sessions -> Records]
         /\ session[s].asOf <= clock /\ session[s].captured <= clock /\ clock \in 0..MaxTime
         /\ Paired(session[s].ownLineups) /\ PhaseInv(s) /\ PricesInv(s) /\ LineupsInv(s)
         /\ \A x, y \in session[s].sheets : x = y
         /\ \A x, y \in session[s].boards : x.book = y.book => x = y
         /\ \A x, y \in published : x = y
BY DEF EvidenceInv, EvidenceTypeOK, TimesInv, PairsInv, AnswersInv

LEMMA OpenKeeps == ASSUME EvidenceInv, NEW s \in Sessions, Open(s) PROVE EvidenceInv'
<1>1. PICK job \in Jobs, g \in Stages :
        session' = [session EXCEPT ![s] =
          [Idle EXCEPT !.at = Head(job), !.todo = Tail(job), !.stage = g]]
  BY DEF Open
<1>2. job \in Seq(Parts) /\ job # <<>>
  <2>1. <<"lineups">> \in Seq(Parts) /\ <<"odds">> \in Seq(Parts) /\ <<"analysis">> \in Seq(Parts)
    BY DEF Parts
  <2>2. <<"lineups", "odds", "analysis">> \in Seq(Parts)
    BY DEF Parts
  <2>3. \A q : q \in {<<"lineups">>, <<"odds">>, <<"analysis">>, <<"lineups", "odds", "analysis">>}
          => q # <<>>
    OBVIOUS
  <2>4. job \in {<<"lineups">>, <<"odds">>, <<"analysis">>, <<"lineups", "odds", "analysis">>}
    BY DEF Jobs
  <2>5. \/ job = <<"lineups">> \/ job = <<"odds">> \/ job = <<"analysis">>
        \/ job = <<"lineups", "odds", "analysis">>
    BY <2>4
  <2>6. job \in Seq(Parts)
    BY <2>1, <2>2, <2>5
  <2> QED BY <2>3, <2>4, <2>6
<1>3. PICK h, q : h = Head(job) /\ q = Tail(job)
  OBVIOUS
<1>4. h \in {"lineups", "odds", "analysis"} /\ q \in Seq({"lineups", "odds", "analysis"})
  BY <1>2, <1>3 DEF Parts
<1>5. PICK r : r = [Idle EXCEPT !.at = h, !.todo = q, !.stage = g]
  OBVIOUS
<1>6. /\ r \in Records /\ r.at = h /\ r.status = "none" /\ r.told = <<>> /\ r.asOf = 0
      /\ r.captured = 0 /\ r.sheets = {} /\ r.boards = {} /\ r.ownLineups = {}
  BY <1>4, <1>5, IdleFields DEF Records
<1>7. /\ session' = [session EXCEPT ![s] = r]
      /\ UNCHANGED <<clock, moves, published, offered, lineups, prices, verdicts>>
  BY <1>1, <1>3, <1>5 DEF Open
<1>8. session'[s] = r
  BY <1>7, Known
<1>9. PhaseInv(s)' /\ PricesInv(s)' /\ LineupsInv(s)'
  BY <1>4, <1>6, <1>8, AtWork
<1>10. \A bound : NotBefore(s, bound)'
  BY <1>6, <1>8 DEF NotBefore
<1>11. r.asOf <= clock /\ r.captured <= clock /\ Paired(r.ownLineups)
  BY <1>6, Known DEF Paired
<1> QED BY <1>6, <1>7, <1>9, <1>10, <1>11, OneSession

LEMMA AskLineupsKeeps == ASSUME EvidenceInv, NEW s \in Sessions, AskLineups(s) PROVE EvidenceInv'
<1>k. /\ session[s] \in Records /\ session \in [Sessions -> Records]
      /\ session[s].asOf <= clock /\ session[s].captured <= clock /\ clock \in 0..MaxTime
      /\ Paired(session[s].ownLineups) /\ PhaseInv(s)
      /\ \A x, y \in session[s].sheets : x = y
      /\ \A x, y \in session[s].boards : x.book = y.book => x = y
      /\ \A x, y \in published : x = y
  BY Known
<1>1. PICK r : r = [session[s] EXCEPT !.at = "save lineups", !.sheets = published,
                                      !.captured = clock]
  OBVIOUS
<1>2. /\ session' = [session EXCEPT ![s] = r] /\ session[s].at = "lineups"
      /\ UNCHANGED <<clock, moves, published, offered, lineups, prices, verdicts>>
  BY <1>1 DEF AskLineups
<1>3. session[s].status = "none" /\ session[s].told = <<>>
  BY <1>2, <1>k DEF PhaseInv
<1>4. published \subseteq Announcements
  BY DEF EvidenceInv, EvidenceTypeOK
<1>5. /\ r \in Records /\ r.at = "save lineups" /\ r.sheets = published /\ r.captured = clock
      /\ r.asOf = session[s].asOf /\ r.boards = session[s].boards
      /\ r.ownLineups = session[s].ownLineups
      /\ r.status = session[s].status /\ r.told = session[s].told
  BY <1>1, <1>4, <1>k DEF Records
<1>6. session'[s] = r
  BY <1>2, <1>k
<1>7. PhaseInv(s)' /\ PricesInv(s)' /\ LineupsInv(s)'
  BY <1>3, <1>5, <1>6, AtWork
<1>8. clock \in Nat
  BY <1>k, EvidenceBounds
<1>9. r.captured <= clock /\ \A bound \in 0..clock : r.captured >= bound
  <2>1. r.captured = clock
    BY <1>5
  <2> QED BY <1>8, <2>1
<1>10. \A bound \in 0..clock : NotBefore(s, bound) => NotBefore(s, bound)'
  BY <1>5, <1>6, <1>9 DEF NotBefore
<1>11. /\ r.asOf <= clock /\ Paired(r.ownLineups) /\ \A x, y \in r.sheets : x = y
       /\ \A x, y \in r.boards : x.book = y.book => x = y
  BY <1>5, <1>k
<1> QED BY <1>2, <1>5, <1>7, <1>9, <1>10, <1>11, OneSession

LEMMA AskOddsKeeps == ASSUME EvidenceInv, NEW s \in Sessions, AskOdds(s) PROVE EvidenceInv'
<1>k. /\ session[s] \in Records /\ session \in [Sessions -> Records]
      /\ session[s].asOf <= clock /\ session[s].captured <= clock /\ clock \in 0..MaxTime
      /\ Paired(session[s].ownLineups) /\ PhaseInv(s)
      /\ \A x, y \in session[s].sheets : x = y
      /\ \A x, y \in session[s].boards : x.book = y.book => x = y
      /\ \A x, y \in published : x = y
  BY Known
<1>1. PICK boards : boards = {[book |-> b, board |-> offered[b].board,
                               captured |-> offered[b].updated] : b \in Books}
  OBVIOUS
<1>2. PICK r : r = [session[s] EXCEPT !.at = "save odds", !.boards = boards]
  OBVIOUS
<1>3. /\ session' = [session EXCEPT ![s] = r] /\ session[s].at = "odds"
      /\ UNCHANGED <<clock, moves, published, offered, lineups, prices, verdicts>>
  BY <1>1, <1>2 DEF AskOdds
<1>4. session[s].status = "none" /\ session[s].told = <<>>
  BY <1>3, <1>k DEF PhaseInv
<1>5. /\ boards \subseteq [book : Books, board : Boards, captured : 0..MaxTime]
      /\ \A x, y \in boards : x.book = y.book => x = y
  <2>1. offered \in [Books -> [board : Boards, updated : 0..MaxTime]]
    BY DEF EvidenceInv, EvidenceTypeOK
  <2> QED BY <1>1, <2>1
<1>6. /\ r \in Records /\ r.at = "save odds" /\ r.sheets = session[s].sheets
      /\ r.captured = session[s].captured /\ r.asOf = session[s].asOf /\ r.boards = boards
      /\ r.ownLineups = session[s].ownLineups
      /\ r.status = session[s].status /\ r.told = session[s].told
  BY <1>2, <1>5, <1>k DEF Records
<1>7. session'[s] = r
  BY <1>3, <1>k
<1>8. PhaseInv(s)' /\ PricesInv(s)' /\ LineupsInv(s)'
  BY <1>4, <1>6, <1>7, AtWork
<1>9. \A bound \in 0..clock : NotBefore(s, bound) => NotBefore(s, bound)'
  BY <1>6, <1>7 DEF NotBefore
<1>10. /\ r.asOf <= clock /\ r.captured <= clock /\ Paired(r.ownLineups)
       /\ \A x, y \in r.sheets : x = y
       /\ \A x, y \in r.boards : x.book = y.book => x = y
  BY <1>5, <1>6, <1>k
<1> QED BY <1>3, <1>6, <1>8, <1>9, <1>10, OneSession

\* Line-ups that are added come in pairs, with the time of their answer.
LEMMA AddedPairs ==
  ASSUME EvidenceInv, NEW s \in Sessions,
         NEW new, new = {x \in LineupRows(session[s]) :
                           \A y \in lineups \cup session[s].ownLineups : ~SameLineup(x, y)}
  PROVE  /\ new \subseteq LineupRow /\ Paired(session[s].ownLineups \cup new)
         /\ \A x \in new : x.captured = session[s].captured /\ session[s].sheets # {}
<1> DEFINE r == session[s]
           known == lineups \cup r.ownLineups
<1>1. /\ r.captured \in 0..MaxTime /\ r.sheets \subseteq Announcements
      /\ Paired(lineups) /\ Paired(r.ownLineups)
  BY Known, RecordFields DEF EvidenceInv, PairsInv
<1>2. LineupRows(r) = {[team |-> t, captured |-> r.captured, sheet |-> x] : t \in Teams, x \in r.sheets}
  BY DEF LineupRows
<1>3. Paired(known)
  BY <1>1 DEF Paired
<1> HIDE DEF r, known
<1>4. LineupRows(r) \subseteq LineupRow
      /\ \A x \in LineupRows(r) : x.captured = r.captured /\ r.sheets # {}
  BY <1>1, <1>2 DEF LineupRow
<1>5. \A x \in LineupRows(r), team \in Teams :
        \E z \in LineupRows(r) : z.team = team /\ z.captured = x.captured
  <2> SUFFICES ASSUME NEW x \in LineupRows(r), NEW team \in Teams
               PROVE  \E z \in LineupRows(r) : z.team = team /\ z.captured = x.captured
    OBVIOUS
  <2>1. PICK listed \in r.sheets : x.captured = r.captured
    BY <1>2
  <2>2. [team |-> team, captured |-> r.captured, sheet |-> listed] \in LineupRows(r)
    BY <1>2
  <2> QED BY <2>1, <2>2
<1>6. new = {x \in LineupRows(r) : \A y \in known : ~SameLineup(x, y)}
  BY DEF r, known
<1>7. ASSUME NEW x \in new, NEW team \in Teams
      PROVE  \E z \in new : z.team = team /\ z.captured = x.captured
  <2>1. PICK z \in LineupRows(r) : z.team = team /\ z.captured = x.captured
    BY <1>5, <1>6
  <2>2. ASSUME NEW y \in known, SameLineup(z, y) PROVE FALSE
    <3>1. x.team \in Teams
      BY <1>4, <1>6 DEF LineupRow
    <3>2. PICK w \in known : w.team = x.team /\ w.captured = y.captured
      BY <1>3, <3>1 DEF Paired
    <3>3. SameLineup(x, w)
      BY <2>1, <2>2, <3>2 DEF SameLineup
    <3> QED BY <1>6, <3>3
  <2> QED BY <1>6, <2>1, <2>2
<1>8. Paired(new)
  BY <1>7 DEF Paired
<1>9. Paired(r.ownLineups \cup new)
  BY <1>1, <1>8 DEF Paired, r
<1> QED BY <1>4, <1>6, <1>9 DEF r

LEMMA SaveLineupsKeeps == ASSUME EvidenceInv, NEW s \in Sessions, SaveLineups(s) PROVE EvidenceInv'
<1>k. /\ session[s] \in Records /\ session \in [Sessions -> Records]
      /\ session[s].asOf <= clock /\ session[s].captured <= clock /\ clock \in 0..MaxTime
      /\ Paired(session[s].ownLineups) /\ PhaseInv(s)
      /\ \A x, y \in session[s].sheets : x = y
      /\ \A x, y \in session[s].boards : x.book = y.book => x = y
      /\ \A x, y \in published : x = y
  BY Known
<1>1. PICK new : new = {x \in LineupRows(session[s]) :
                          \A y \in lineups \cup session[s].ownLineups : ~SameLineup(x, y)}
  OBVIOUS
<1>2. PICK rows \in {new, {}} :
        session' = [session EXCEPT ![s] =
          Onward([session[s] EXCEPT !.ownLineups = session[s].ownLineups \cup rows,
                                    !.sheets = {}, !.captured = 0])]
  BY <1>1 DEF SaveLineups
<1>3. PICK mine : mine = session[s].ownLineups \cup rows
  OBVIOUS
<1>4. PICK q : q = [session[s] EXCEPT !.ownLineups = mine, !.sheets = {}, !.captured = 0]
  OBVIOUS
<1>5. /\ session[s].at = "save lineups" /\ session' = [session EXCEPT ![s] = Onward(q)]
      /\ UNCHANGED <<clock, moves, published, offered, lineups, prices, verdicts>>
  BY <1>2, <1>3, <1>4 DEF SaveLineups
<1>6. session[s].status = "none" /\ session[s].told = <<>>
  BY <1>5, <1>k DEF PhaseInv
<1>7. /\ mine \subseteq LineupRow /\ Paired(mine)
      /\ \A x \in mine : \/ x \in session[s].ownLineups
                         \/ x.captured = session[s].captured /\ session[s].sheets # {}
  <2>1. /\ session[s].ownLineups \subseteq LineupRow
        /\ new \subseteq LineupRow /\ Paired(session[s].ownLineups \cup new)
        /\ \A x \in new : x.captured = session[s].captured /\ session[s].sheets # {}
    BY <1>1, AddedPairs, <1>k, RecordFields
  <2>2. mine = session[s].ownLineups \cup new \/ mine = session[s].ownLineups
    BY <1>2, <1>3
  <2> QED BY <1>k, <2>1, <2>2
<1>8. /\ q \in Records /\ q.sheets = {} /\ q.captured = 0 /\ q.asOf = session[s].asOf
      /\ q.boards = session[s].boards /\ q.ownLineups = mine
      /\ q.status = session[s].status /\ q.told = session[s].told
  <2>1. 0 \in 0..MaxTime /\ {} \subseteq Announcements
    BY EvidenceBounds
  <2> QED BY <1>4, <1>7, <1>k, <2>1 DEF Records
<1>9. PICK r : r = Onward(q)
  OBVIOUS
<1>10. /\ r \in Records /\ r.at \in {"lineups", "odds", "analysis", "commit"}
       /\ r.sheets = {} /\ r.captured = 0 /\ r.asOf = session[s].asOf
       /\ r.boards = session[s].boards /\ r.ownLineups = mine
       /\ r.status = "none" /\ r.told = <<>>
  BY <1>6, <1>8, <1>9, OnwardFields DEF Parts
<1>11. session' = [session EXCEPT ![s] = r] /\ session'[s] = r
  BY <1>5, <1>9, <1>k
<1>12. PhaseInv(s)' /\ PricesInv(s)' /\ LineupsInv(s)'
  BY <1>10, <1>11, AtWork
<1>13. \A bound \in 0..clock : NotBefore(s, bound) => NotBefore(s, bound)'
  BY <1>7, <1>10, <1>11 DEF NotBefore
<1>14. r.asOf <= clock /\ r.captured <= clock
  BY <1>10, <1>k
<1> QED BY <1>5, <1>7, <1>10, <1>11, <1>12, <1>13, <1>14, <1>k, OneSession

LEMMA SaveOddsKeeps == ASSUME EvidenceInv, NEW s \in Sessions, SaveOdds(s) PROVE EvidenceInv'
<1>k. /\ session[s] \in Records /\ session \in [Sessions -> Records]
      /\ session[s].asOf <= clock /\ session[s].captured <= clock /\ clock \in 0..MaxTime
      /\ Paired(session[s].ownLineups) /\ PhaseInv(s)
      /\ \A x, y \in session[s].sheets : x = y
      /\ \A x, y \in session[s].boards : x.book = y.book => x = y
      /\ \A x, y \in published : x = y
  BY Known
<1>1. PICK new : new = {x \in PriceRows(session[s]) :
                          \A y \in prices \cup session[s].ownPrices : ~SamePrice(x, y)}
  OBVIOUS
<1>2. PICK rows \in {new, {}} :
        session' = [session EXCEPT ![s] =
          Onward([session[s] EXCEPT !.ownPrices = session[s].ownPrices \cup rows, !.boards = {}])]
  BY <1>1 DEF SaveOdds
<1>3. PICK mine : mine = session[s].ownPrices \cup rows
  OBVIOUS
<1>4. PICK q : q = [session[s] EXCEPT !.ownPrices = mine, !.boards = {}]
  OBVIOUS
<1>5. /\ session[s].at = "save odds" /\ session' = [session EXCEPT ![s] = Onward(q)]
      /\ UNCHANGED <<clock, moves, published, offered, lineups, prices, verdicts>>
  BY <1>2, <1>3, <1>4 DEF SaveOdds
<1>6. session[s].status = "none" /\ session[s].told = <<>>
  BY <1>5, <1>k DEF PhaseInv
<1>7. mine \subseteq PriceRow
  <2>1. session[s].boards \subseteq [book : Books, board : Boards, captured : 0..MaxTime]
        /\ session[s].ownPrices \subseteq PriceRow
    BY <1>k, RecordFields
  <2>2. PriceRows(session[s]) \subseteq PriceRow
    BY <2>1 DEF PriceRows, PriceRow
  <2> QED BY <1>1, <1>2, <1>3, <2>1, <2>2
<1>8. /\ q \in Records /\ q.sheets = session[s].sheets /\ q.captured = session[s].captured
      /\ q.asOf = session[s].asOf /\ q.boards = {} /\ q.ownLineups = session[s].ownLineups
      /\ q.status = session[s].status /\ q.told = session[s].told
  BY <1>4, <1>7, <1>k DEF Records
<1>9. PICK r : r = Onward(q)
  OBVIOUS
<1>10. /\ r \in Records /\ r.at \in {"lineups", "odds", "analysis", "commit"}
       /\ r.sheets = session[s].sheets /\ r.captured = session[s].captured
       /\ r.asOf = session[s].asOf /\ r.boards = {} /\ r.ownLineups = session[s].ownLineups
       /\ r.status = "none" /\ r.told = <<>>
  BY <1>6, <1>8, <1>9, OnwardFields DEF Parts
<1>11. session' = [session EXCEPT ![s] = r] /\ session'[s] = r
  BY <1>5, <1>9, <1>k
<1>12. PhaseInv(s)' /\ PricesInv(s)' /\ LineupsInv(s)'
  BY <1>10, <1>11, AtWork
<1>13. \A bound \in 0..clock : NotBefore(s, bound) => NotBefore(s, bound)'
  BY <1>10, <1>11 DEF NotBefore
<1>14. /\ r.asOf <= clock /\ r.captured <= clock /\ Paired(r.ownLineups)
       /\ \A x, y \in r.sheets : x = y
       /\ \A x, y \in r.boards : x.book = y.book => x = y
  BY <1>10, <1>k
<1> QED BY <1>5, <1>10, <1>11, <1>12, <1>13, <1>14, OneSession

\* A step of an analysis: nothing new is brought to the table.
LEMMA AnalysisStep ==
  ASSUME EvidenceInv, NEW s \in Sessions, NEW r \in Records,
         session' = [session EXCEPT ![s] = r], Quiet,
         r.asOf <= clock, r.captured = session[s].captured, r.sheets = session[s].sheets,
         r.boards = session[s].boards, r.ownLineups = session[s].ownLineups,
         r.ownPrices = session[s].ownPrices,
         r.at \in {"home", "away", "prices", "opening", "current", "commit"},
         r.status # "none" <=> r.at \in {"opening", "current", "commit"},
         r.status = "none" => r.told = <<>>
  PROVE  /\ session'[s] = r /\ \A t \in Sessions \ {s} : session'[t] = session[t]
         /\ SeenPrices(s)' = SeenPrices(s) /\ SeenLineups(s)' = SeenLineups(s)
         /\ PricesInv(s)' /\ LineupsInv(s)' => EvidenceInv'
<1>1. session'[s] = r /\ \A t \in Sessions \ {s} : session'[t] = session[t]
  BY Known
<1>2. SeenPrices(s)' = SeenPrices(s) /\ SeenLineups(s)' = SeenLineups(s)
  BY <1>1 DEF SeenPrices, SeenLineups, Quiet
<1>3. PhaseInv(s)'
  BY <1>1 DEF PhaseInv
<1>4. \A bound \in 0..clock : NotBefore(s, bound) => NotBefore(s, bound)'
  BY <1>1 DEF NotBefore
<1>5. /\ r.captured <= clock /\ Paired(r.ownLineups)
      /\ \A x, y \in r.sheets : x = y
      /\ \A x, y \in r.boards : x.book = y.book => x = y
  BY Known
<1>6. UNCHANGED <<clock, moves, published, offered, lineups, prices, verdicts>>
  BY DEF Quiet
<1>7. PricesInv(s)' /\ LineupsInv(s)' => EvidenceInv'
  BY <1>3, <1>4, <1>5, <1>6, OneSession
<1> QED BY <1>1, <1>2, <1>7

LEMMA StartAnalysisKeeps ==
  ASSUME EvidenceInv, NEW s \in Sessions, StartAnalysis(s) PROVE EvidenceInv'
<1>1. PICK step : step = IF session[s].stage = "initial" THEN "prices" ELSE "home"
  OBVIOUS
<1>2. PICK r : r = [session[s] EXCEPT !.at = step, !.asOf = clock, !.open = Running \ {s}]
  OBVIOUS
<1>3. session' = [session EXCEPT ![s] = r] /\ Quiet /\ session[s].at = "analysis"
  BY <1>1, <1>2 DEF StartAnalysis
<1>4. /\ session[s] \in Records /\ session[s].status = "none" /\ session[s].told = <<>>
      /\ clock \in 0..MaxTime
  BY <1>3, Known DEF PhaseInv
<1>5. step \in {"home", "prices"} /\ Running \ {s} \subseteq Sessions
  BY <1>1 DEF Running
<1>6. /\ r \in Records /\ r.at = step /\ r.asOf = clock /\ r.open = Running \ {s}
      /\ r.captured = session[s].captured /\ r.sheets = session[s].sheets
      /\ r.boards = session[s].boards /\ r.ownLineups = session[s].ownLineups
      /\ r.ownPrices = session[s].ownPrices /\ r.status = "none" /\ r.told = <<>>
      /\ r.stage = session[s].stage
  BY <1>2, <1>4, <1>5 DEF Records
<1>7. clock <= clock
  BY <1>4
<1>8. /\ session'[s] = r /\ \A t \in Sessions \ {s} : session'[t] = session[t]
      /\ PricesInv(s)' /\ LineupsInv(s)' => EvidenceInv'
  BY <1>3, <1>5, <1>6, <1>7, AnalysisStep
<1>9. PricesInv(s)'
  BY <1>6, <1>8 DEF PricesInv
<1>10. LineupsInv(s)'
  <2> SUFFICES ASSUME Alone(s)' PROVE AnsweredSince(s)' /\ r.at = "home"
    BY <1>8 DEF LineupsInv
  <2>1. r.at = "home" /\ Running \ {s} = {}
    BY <1>1, <1>6, <1>8 DEF Alone
  <2>2. ASSUME NEW t \in Sessions \ {s}
        PROVE  session'[t].sheets = {} /\ session'[t].ownLineups = {}
    <3>1. session[t].at \in {"idle", "over"}
      BY <2>1 DEF Running
    <3>2. session[t] \in {Idle, Over}
      BY <3>1, Known DEF PhaseInv, Over
    <3> QED BY <1>8, <3>2, IdleFields
  <2>3. AnsweredSince(s)'
    BY <2>2 DEF AnsweredSince
  <2> QED BY <2>1, <2>3
<1> QED BY <1>8, <1>9, <1>10

LEMMA ReadHomeKeeps == ASSUME EvidenceInv, NEW s \in Sessions, ReadHome(s) PROVE EvidenceInv'
<1>1. PICK home : home = LatestLineup(SeenLineups(s), "home", session[s].asOf)
  OBVIOUS
<1>2. PICK r : r = [session[s] EXCEPT !.at = "away", !.home = home]
  OBVIOUS
<1>3. session' = [session EXCEPT ![s] = r] /\ Quiet /\ session[s].at = "home"
  BY <1>1, <1>2 DEF ReadHome, SeenLineups
<1>4. /\ session[s] \in Records /\ session[s].status = "none" /\ session[s].told = <<>>
      /\ session[s].asOf <= clock /\ LineupsInv(s)
  BY <1>3, Known DEF PhaseInv
<1>5. home \in LineupRow \cup {None}
  BY <1>1, SessionFields, LatestLineupType DEF EvidenceInv
<1>6. /\ r \in Records /\ r.at = "away" /\ r.asOf = session[s].asOf /\ r.open = session[s].open
      /\ r.captured = session[s].captured /\ r.sheets = session[s].sheets
      /\ r.boards = session[s].boards /\ r.ownLineups = session[s].ownLineups
      /\ r.ownPrices = session[s].ownPrices /\ r.status = "none" /\ r.told = <<>>
      /\ r.stage = session[s].stage /\ r.home = home
  BY <1>2, <1>4, <1>5 DEF Records
<1>7. /\ session'[s] = r /\ \A t \in Sessions \ {s} : session'[t] = session[t]
      /\ SeenLineups(s)' = SeenLineups(s)
      /\ PricesInv(s)' /\ LineupsInv(s)' => EvidenceInv'
  BY <1>3, <1>4, <1>6, AnalysisStep
<1>8. PricesInv(s)'
  BY <1>6, <1>7 DEF PricesInv
<1>9. LineupsInv(s)'
  <2> SUFFICES ASSUME Alone(s)' PROVE AnsweredSince(s)'
    BY <1>1, <1>6, <1>7 DEF LineupsInv
  <2>1. AnsweredSince(s)
    BY <1>3, <1>4, <1>6, <1>7 DEF LineupsInv, Alone
  <2> QED BY <1>6, <1>7, <2>1 DEF AnsweredSince
<1> QED BY <1>7, <1>8, <1>9

LEMMA ReadAwayKeeps == ASSUME EvidenceInv, NEW s \in Sessions, ReadAway(s) PROVE EvidenceInv'
<1>1. PICK away : away = LatestLineup(SeenLineups(s), "away", session[s].asOf)
  OBVIOUS
<1>2. PICK r : r = [session[s] EXCEPT !.at = "prices", !.away = away]
  OBVIOUS
<1>3. session' = [session EXCEPT ![s] = r] /\ Quiet /\ session[s].at = "away"
  BY <1>1, <1>2 DEF ReadAway, SeenLineups
<1>4. /\ session[s] \in Records /\ session[s].status = "none" /\ session[s].told = <<>>
      /\ session[s].asOf <= clock /\ LineupsInv(s)
  BY <1>3, Known DEF PhaseInv
<1>5. away \in LineupRow \cup {None}
  BY <1>1, SessionFields, LatestLineupType DEF EvidenceInv
<1>6. /\ r \in Records /\ r.at = "prices" /\ r.asOf = session[s].asOf /\ r.open = session[s].open
      /\ r.captured = session[s].captured /\ r.sheets = session[s].sheets
      /\ r.boards = session[s].boards /\ r.ownLineups = session[s].ownLineups
      /\ r.ownPrices = session[s].ownPrices /\ r.status = "none" /\ r.told = <<>>
      /\ r.stage = session[s].stage /\ r.home = session[s].home /\ r.away = away
  BY <1>2, <1>4, <1>5 DEF Records
<1>7. /\ session'[s] = r /\ \A t \in Sessions \ {s} : session'[t] = session[t]
      /\ SeenLineups(s)' = SeenLineups(s)
      /\ PricesInv(s)' /\ LineupsInv(s)' => EvidenceInv'
  BY <1>3, <1>4, <1>6, AnalysisStep
<1>8. PricesInv(s)'
  BY <1>6, <1>7 DEF PricesInv
<1>9. LineupsInv(s)'
  <2> SUFFICES ASSUME Alone(s)'
               PROVE  /\ AnsweredSince(s)'
                      /\ \/ Instant(SeenLineups(s), session[s].asOf)
                         \/ session[s].home = LatestLineup(SeenLineups(s), "home", session[s].asOf)
    BY <1>1, <1>6, <1>7 DEF LineupsInv
  <2>1. /\ AnsweredSince(s)
        /\ \/ Instant(SeenLineups(s), session[s].asOf)
           \/ session[s].home = LatestLineup(SeenLineups(s), "home", session[s].asOf)
    BY <1>3, <1>4, <1>6, <1>7 DEF LineupsInv, Alone
  <2> QED BY <1>6, <1>7, <2>1 DEF AnsweredSince
<1> QED BY <1>7, <1>8, <1>9

LEMMA ReadPricesKeeps == ASSUME EvidenceInv, NEW s \in Sessions, ReadPrices(s) PROVE EvidenceInv'
<1>1. PICK odds, status : /\ odds = Quotes(SeenPrices(s), session[s].asOf)
                          /\ status = Verify(SeenPrices(s), session[s].asOf)
  OBVIOUS
<1>2. PICK next \in {"commit", "opening"} :
        session' = [session EXCEPT ![s] =
          [session[s] EXCEPT !.at = next, !.odds = odds, !.status = status]]
  BY <1>1 DEF ReadPrices, SeenPrices
<1>3. PICK r : r = [session[s] EXCEPT !.at = next, !.odds = odds, !.status = status]
  OBVIOUS
<1>4. session' = [session EXCEPT ![s] = r] /\ Quiet /\ session[s].at = "prices"
  BY <1>2, <1>3 DEF ReadPrices
<1>5. /\ session[s] \in Records /\ session[s].status = "none" /\ session[s].told = <<>>
      /\ session[s].asOf <= clock /\ LineupsInv(s)
  BY <1>4, Known DEF PhaseInv
<1>6. /\ odds \subseteq PriceRow /\ status # "none"
      /\ status \in {"none", "not_found", "verified", "preliminary", "too_stale", "rejected"}
  <2>1. SeenPrices(s) \subseteq PriceRow
    BY SessionFields DEF EvidenceInv
  <2>2. odds \subseteq SeenPrices(s)
    BY <1>1, ReadRows
  <2>3. /\ status \in {"not_found", "verified", "preliminary", "too_stale", "rejected"}
        /\ status # "none"
    BY <1>1, ReadRows
  <2> QED BY <2>1, <2>2, <2>3
<1>7. /\ r \in Records /\ r.at = next /\ r.asOf = session[s].asOf /\ r.open = session[s].open
      /\ r.captured = session[s].captured /\ r.sheets = session[s].sheets
      /\ r.boards = session[s].boards /\ r.ownLineups = session[s].ownLineups
      /\ r.ownPrices = session[s].ownPrices /\ r.status = status /\ r.told = session[s].told
      /\ r.stage = session[s].stage /\ r.home = session[s].home /\ r.away = session[s].away
      /\ r.odds = odds
  BY <1>2, <1>3, <1>5, <1>6 DEF Records
<1>8. /\ session'[s] = r /\ \A t \in Sessions \ {s} : session'[t] = session[t]
      /\ SeenLineups(s)' = SeenLineups(s) /\ SeenPrices(s)' = SeenPrices(s)
      /\ PricesInv(s)' /\ LineupsInv(s)' => EvidenceInv'
  <2>1. r.at \in {"opening", "commit"} /\ r.status # "none" /\ r.asOf <= clock
    BY <1>2, <1>5, <1>6, <1>7
  <2> QED BY <1>4, <1>7, <2>1, AnalysisStep
<1>9. PricesInv(s)'
  BY <1>1, <1>2, <1>5, <1>7, <1>8 DEF PricesInv
<1>10. LineupsInv(s)'
  <2> SUFFICES ASSUME Alone(s)'
               PROVE  /\ AnsweredSince(s)'
                      /\ \/ Instant(SeenLineups(s), session[s].asOf)
                         \/ /\ session[s].home = LatestLineup(SeenLineups(s), "home", session[s].asOf)
                            /\ session[s].away = LatestLineup(SeenLineups(s), "away", session[s].asOf)
    BY <1>7, <1>8 DEF LineupsInv
  <2>1. /\ AnsweredSince(s)
        /\ \/ Instant(SeenLineups(s), session[s].asOf)
           \/ /\ session[s].home = LatestLineup(SeenLineups(s), "home", session[s].asOf)
              /\ session[s].away = LatestLineup(SeenLineups(s), "away", session[s].asOf)
    BY <1>4, <1>5, <1>7, <1>8 DEF LineupsInv, Alone
  <2> QED BY <1>7, <1>8, <2>1 DEF AnsweredSince
<1> QED BY <1>8, <1>9, <1>10

LEMMA SecondAppended == \A a, b : Append(<<a>>, b) = <<a, b>>
<1> SUFFICES ASSUME NEW a, NEW b PROVE Append(<<a>>, b) = <<a, b>>
  OBVIOUS
<1> DEFINE S == {a, b}
           p == Append(<<a>>, b)
           q == <<a, b>>
<1>1. <<a>> \in Seq(S) /\ Len(<<a>>) = 1 /\ b \in S
  OBVIOUS
<1>2. q \in Seq(S) /\ Len(q) = 2 /\ q[1] = a /\ q[2] = b
  OBVIOUS
<1> HIDE DEF S
<1>3. p \in Seq(S) /\ Len(p) = 2 /\ p[1] = a /\ p[2] = b
  BY <1>1
<1> HIDE DEF p, q
<1>4. p = [i \in 1..2 |-> p[i]] /\ q = [i \in 1..2 |-> q[i]]
  BY <1>2, <1>3
<1>5. \A i \in 1..2 : p[i] = q[i]
  BY <1>2, <1>3
<1>6. p = q
  BY <1>4, <1>5
<1> QED BY <1>6 DEF p, q

LEMMA TellMovementKeeps ==
  ASSUME EvidenceInv, NEW s \in Sessions, TellMovement(s) PROVE EvidenceInv'
<1>1. PICK asOf : asOf = IF session[s].at = "opening" THEN session[s].asOf - Lookback
                         ELSE session[s].asOf
  OBVIOUS
<1>2. PICK next : next = IF session[s].at = "opening" THEN "current" ELSE "commit"
  OBVIOUS
<1>3. PICK market : market = Market(SeenPrices(s), asOf)
  OBVIOUS
<1>4. PICK told : told = Append(session[s].told, market)
  OBVIOUS
<1>5. PICK r : r = [session[s] EXCEPT !.at = next, !.told = told]
  OBVIOUS
<1>6. /\ session' = [session EXCEPT ![s] = r] /\ Quiet
      /\ session[s].at \in {"opening", "current"}
  BY <1>1, <1>2, <1>3, <1>4, <1>5 DEF TellMovement, SeenPrices
<1>7. /\ session[s] \in Records /\ session[s].status # "none"
      /\ session[s].asOf <= clock /\ LineupsInv(s) /\ PricesInv(s)
      /\ session[s].told \in Seq(SUBSET PriceRow)
  BY <1>6, Known, RecordFields DEF PhaseInv
<1>8. told \in Seq(SUBSET PriceRow)
  <2>1. market \subseteq PriceRow
    BY <1>3, SessionFields, ReadRows DEF EvidenceInv
  <2> QED BY <1>4, <1>7, <2>1
<1>9. /\ r \in Records /\ r.at = next /\ r.asOf = session[s].asOf /\ r.open = session[s].open
      /\ r.captured = session[s].captured /\ r.sheets = session[s].sheets
      /\ r.boards = session[s].boards /\ r.ownLineups = session[s].ownLineups
      /\ r.ownPrices = session[s].ownPrices /\ r.status = session[s].status /\ r.told = told
      /\ r.stage = session[s].stage /\ r.home = session[s].home /\ r.away = session[s].away
      /\ r.odds = session[s].odds /\ r.late = session[s].late
  <2>1. session[s] \in Records
    BY <1>7
  <2>2. next \in {"current", "commit"}
    BY <1>2
  <2> QED BY <1>5, <1>8, <2>1, <2>2 DEF Records
<1>10. /\ session'[s] = r /\ \A t \in Sessions \ {s} : session'[t] = session[t]
       /\ SeenLineups(s)' = SeenLineups(s) /\ SeenPrices(s)' = SeenPrices(s)
       /\ PricesInv(s)' /\ LineupsInv(s)' => EvidenceInv'
  <2>1. r.at \in {"current", "commit"} /\ r.status # "none" /\ r.asOf <= clock
    BY <1>2, <1>7, <1>9
  <2> QED BY <1>6, <1>9, <2>1, AnalysisStep
<1>11. PricesInv(s)'
  <2> SUFFICES ASSUME ~session[s].late
               PROVE  /\ r.odds = Quotes(SeenPrices(s), r.asOf)
                      /\ r.status = Verify(SeenPrices(s), r.asOf)
                      /\ r.at = "opening" => r.told = <<>>
                      /\ r.at = "current" => r.told = <<Market(SeenPrices(s), r.asOf - Lookback)>>
                      /\ r.at = "commit" => r.told \in {<<>>, Movement(SeenPrices(s), r.asOf)}
    BY <1>9, <1>10 DEF PricesInv
  <2>1. /\ session[s].odds = Quotes(SeenPrices(s), session[s].asOf)
        /\ session[s].status = Verify(SeenPrices(s), session[s].asOf)
    BY <1>7 DEF PricesInv
  <2>2. CASE session[s].at = "opening"
    <3>1. session[s].told = <<>>
      BY <1>7, <2>2 DEF PricesInv
    <3>2. told = <<Market(SeenPrices(s), session[s].asOf - Lookback)>>
      BY <1>1, <1>3, <1>4, <2>2, <3>1
    <3> QED BY <1>2, <1>9, <2>1, <2>2, <3>2
  <2>3. CASE session[s].at = "current"
    <3>1. session[s].told = <<Market(SeenPrices(s), session[s].asOf - Lookback)>>
      BY <1>7, <2>3 DEF PricesInv
    <3>2. asOf = session[s].asOf
      BY <1>1, <2>3
    <3>3. \A first, second : Append(<<first>>, second) = <<first, second>>
      BY SecondAppended
    <3>4. told = Movement(SeenPrices(s), session[s].asOf)
      BY <1>3, <1>4, <3>1, <3>2, <3>3 DEF Movement
    <3> QED BY <1>2, <1>9, <2>1, <2>3, <3>4
  <2> QED BY <1>6, <2>2, <2>3
<1>12. LineupsInv(s)'
  <2> SUFFICES ASSUME Alone(s)'
               PROVE  /\ AnsweredSince(s)'
                      /\ \/ Instant(SeenLineups(s), session[s].asOf)
                         \/ /\ session[s].home = LatestLineup(SeenLineups(s), "home", session[s].asOf)
                            /\ session[s].away = LatestLineup(SeenLineups(s), "away", session[s].asOf)
    BY <1>9, <1>10 DEF LineupsInv
  <2>1. /\ AnsweredSince(s)
        /\ \/ Instant(SeenLineups(s), session[s].asOf)
           \/ /\ session[s].home = LatestLineup(SeenLineups(s), "home", session[s].asOf)
              /\ session[s].away = LatestLineup(SeenLineups(s), "away", session[s].asOf)
    BY <1>6, <1>7, <1>9, <1>10 DEF LineupsInv, Alone
  <2> QED BY <1>9, <1>10, <2>1 DEF AnsweredSince
<1> QED BY <1>10, <1>11, <1>12

LEMMA EvidenceRollBackKeeps ==
  ASSUME EvidenceInv, NEW s \in Sessions, RollBack(s) PROVE EvidenceInv'
<1>1. session' = [session EXCEPT ![s] = Over] /\ Quiet
  BY DEF RollBack, Over
<1>2. session'[s] = Over
  BY <1>1, Known
<1>3. PhaseInv(s)' /\ PricesInv(s)' /\ LineupsInv(s)'
  BY <1>2, IdleFields DEF PhaseInv, PricesInv, LineupsInv, Alone, Over
<1>4. \A bound : NotBefore(s, bound)'
  BY <1>2, IdleFields DEF NotBefore
<1>5. Over.asOf <= clock /\ Over.captured <= clock /\ Paired(Over.ownLineups)
  BY IdleFields, Known DEF Paired
<1> QED BY <1>1, <1>3, <1>4, <1>5, IdleFields, OneSession DEF Quiet

-----------------------------------------------------------------------------
(* Commit *)

\* The session brings a price of before the decision time.
Overtakes(s, asOf) == \E y \in session[s].ownPrices : y.captured <= asOf

\* What is answered at the decision time or later leaves the line-ups alone,
\* unless it was answered in the same instant.
LEMMA AnsweredLater ==
  ASSUME NEW rows, NEW more, NEW asOf \in 0..MaxTime, rows \subseteq more,
         \A x \in more : x \in rows \/ (x \in LineupRow /\ x.captured >= asOf), NEW team
  PROVE  Instant(more, asOf) \/ LatestLineup(rows, team, asOf) = LatestLineup(more, team, asOf)
<1> SUFFICES ASSUME ~Instant(more, asOf)
             PROVE  LatestLineup(rows, team, asOf) = LatestLineup(more, team, asOf)
  OBVIOUS
<1>1. ASSUME NEW x \in more, x \notin rows PROVE ~(x.captured <= asOf)
  <2>1. x \in LineupRow /\ x.captured >= asOf
    BY <1>1
  <2>2. x.captured \in Int /\ asOf \in Int
    BY <2>1 DEF LineupRow
  <2>3. x.captured # asOf
    BY DEF Instant
  <2> QED BY <2>1, <2>2, <2>3
<1>2. \A x : x.captured <= asOf => (x \in rows <=> x \in more)
  BY <1>1
<1> QED BY <1>2, SamePastLineup

\* So do prices of after the decision time.
LEMMA MovedLater ==
  ASSUME EvidenceTypeOK, NEW s \in Sessions, NEW rows, rows \subseteq PriceRow,
         NEW asOf \in 0..MaxTime, ~Overtakes(s, asOf),
         NEW more, more = rows \cup session[s].ownPrices
  PROVE  /\ Verify(rows, asOf) = Verify(more, asOf)
         /\ Quotes(rows, asOf) = Quotes(more, asOf)
         /\ Market(rows, asOf - Lookback) = Market(more, asOf - Lookback)
         /\ Movement(rows, asOf) = Movement(more, asOf)
<1>1. more \subseteq PriceRow
  BY SessionFields
<1>2. \A x \in rows \cup more : x.captured <= asOf => (x \in rows <=> x \in more)
  BY DEF Overtakes
<1> QED BY <1>1, <1>2, SameMovement

LEMMA CommitFields ==
  ASSUME EvidenceInv, NEW s \in Sessions, Commit(s)
  PROVE  /\ session[s].at = "commit" /\ session' \in [Sessions -> Records] /\ session'[s] = Over
         /\ lineups' = lineups \cup session[s].ownLineups
         /\ prices' = prices \cup session[s].ownPrices
         /\ UNCHANGED <<clock, moves, published, offered>>
         /\ \A t \in Sessions \ {s} :
              /\ session[t].status = "none" => session'[t] = session[t]
              /\ session[t].status # "none" =>
                   session'[t] = [session[t] EXCEPT !.late =
                                    session[t].late \/ Overtakes(s, session[t].asOf)]
<1>1. /\ session[s].at = "commit"
      /\ lineups' = lineups \cup session[s].ownLineups
      /\ prices' = prices \cup session[s].ownPrices
      /\ UNCHANGED <<clock, moves, published, offered>>
      /\ session' = [t \in Sessions |->
           IF t = s THEN Over
           ELSE IF session[t].status = "none" THEN session[t]
           ELSE [session[t] EXCEPT !.late = session[t].late \/ Overtakes(s, session[t].asOf)]]
  BY DEF Commit, Over, Overtakes
<1>2. session'[s] = Over
  BY <1>1
<1>3. ASSUME NEW t \in Sessions \ {s}
      PROVE  /\ session'[t] \in Records
             /\ session[t].status = "none" => session'[t] = session[t]
             /\ session[t].status # "none" =>
                   session'[t] = [session[t] EXCEPT !.late =
                                    session[t].late \/ Overtakes(s, session[t].asOf)]
  <2>1. /\ session[t].status = "none" => session'[t] = session[t]
        /\ session[t].status # "none" =>
             session'[t] = [session[t] EXCEPT !.late =
                              session[t].late \/ Overtakes(s, session[t].asOf)]
    BY <1>1
  <2>2. session[t] \in Records /\ session[t].late \in BOOLEAN
    BY Known, RecordFields
  <2>3. PICK late \in BOOLEAN : late = (session[t].late \/ Overtakes(s, session[t].asOf))
    BY <2>2 DEF Overtakes
  <2>4. [session[t] EXCEPT !.late = late] \in Records
    BY <2>2 DEF Records
  <2>5. session'[t] \in Records
    BY <2>1, <2>2, <2>3, <2>4
  <2> QED BY <2>1, <2>5
<1>4. session' \in [Sessions -> Records]
  BY <1>1, <1>2, <1>3, IdleFields
<1> QED BY <1>1, <1>2, <1>3, <1>4

LEMMA CommitOthers ==
  ASSUME EvidenceInv, NEW s \in Sessions, Commit(s), NEW t \in Sessions \ {s}
  PROVE  /\ session'[t].at = session[t].at /\ session'[t].todo = session[t].todo
         /\ session'[t].stage = session[t].stage /\ session'[t].captured = session[t].captured
         /\ session'[t].sheets = session[t].sheets /\ session'[t].boards = session[t].boards
         /\ session'[t].ownLineups = session[t].ownLineups
         /\ session'[t].ownPrices = session[t].ownPrices /\ session'[t].asOf = session[t].asOf
         /\ session'[t].home = session[t].home /\ session'[t].away = session[t].away
         /\ session'[t].odds = session[t].odds /\ session'[t].status = session[t].status
         /\ session'[t].told = session[t].told /\ session'[t].open = session[t].open
         /\ session[t].status # "none" /\ ~session'[t].late =>
              ~session[t].late /\ ~Overtakes(s, session[t].asOf)
<1>1. CASE session[t].status = "none"
  BY <1>1, CommitFields
<1>2. CASE session[t].status # "none"
  <2>1. session'[t] = [session[t] EXCEPT !.late =
                         session[t].late \/ Overtakes(s, session[t].asOf)]
    BY <1>2, CommitFields
  <2>2. session[t] \in Records
    BY Known
  <2>3. PICK late \in BOOLEAN : late = (session[t].late \/ Overtakes(s, session[t].asOf))
    BY <2>2, RecordFields DEF Overtakes
  <2>4. PICK r : r = session[t]
    OBVIOUS
  <2>5. session'[t] = [r EXCEPT !.late = late] /\ r \in Records
    BY <2>1, <2>2, <2>3, <2>4
  <2>6. session'[t].late = late
    BY <2>5 DEF Records
  <2>7. /\ session'[t].at = r.at /\ session'[t].todo = r.todo
        /\ session'[t].stage = r.stage /\ session'[t].captured = r.captured
        /\ session'[t].sheets = r.sheets /\ session'[t].boards = r.boards
        /\ session'[t].ownLineups = r.ownLineups
        /\ session'[t].ownPrices = r.ownPrices /\ session'[t].asOf = r.asOf
        /\ session'[t].home = r.home /\ session'[t].away = r.away
        /\ session'[t].odds = r.odds /\ session'[t].status = r.status
        /\ session'[t].told = r.told /\ session'[t].open = r.open
    BY <2>5 DEF Records
  <2> QED BY <2>3, <2>4, <2>6, <2>7
<1> QED BY <1>1, <1>2

LEMMA VerdictFields ==
  ASSUME NEW v \in Verdicts
  PROVE  /\ v.asOf \in 0..MaxTime /\ v.stage \in Stages /\ v.home \in LineupRow \cup {None}
         /\ v.away \in LineupRow \cup {None} /\ v.odds \subseteq PriceRow
         /\ v.told \in Seq(SUBSET PriceRow) /\ v.open \subseteq Sessions /\ v.late \in BOOLEAN
BY DEF Verdicts

\* A verdict is one of before, perhaps late now, or the one of the session.
LEMMA CommitVerdicts ==
  ASSUME EvidenceInv, NEW s \in Sessions, Commit(s), NEW w \in verdicts'
  PROVE  /\ w \in Verdicts
         /\ \/ \E v \in verdicts :
                 /\ w.asOf = v.asOf /\ w.stage = v.stage /\ w.home = v.home /\ w.away = v.away
                 /\ w.odds = v.odds /\ w.status = v.status /\ w.told = v.told /\ w.open = v.open
                 /\ ~w.late => ~v.late /\ ~Overtakes(s, v.asOf)
            \/ LET r == session[s] IN
                 /\ r.status # "none"
                 /\ w.asOf = r.asOf /\ w.stage = r.stage /\ w.home = r.home /\ w.away = r.away
                 /\ w.odds = r.odds /\ w.status = r.status /\ w.told = r.told /\ w.open = r.open
                 /\ w.late = r.late
<1>1. verdicts' = {[v EXCEPT !.late = v.late \/ Overtakes(s, v.asOf)] : v \in verdicts}
                    \cup (IF session[s].status = "none" THEN {} ELSE {Verdict(s)})
  BY DEF Commit, Overtakes
<1>2. CASE \E v \in verdicts : w = [v EXCEPT !.late = v.late \/ Overtakes(s, v.asOf)]
  <2>1. PICK v \in verdicts : w = [v EXCEPT !.late = v.late \/ Overtakes(s, v.asOf)]
    BY <1>2
  <2>2. v \in Verdicts
    BY DEF EvidenceInv, EvidenceTypeOK
  <2>3. PICK late \in BOOLEAN : late = (v.late \/ Overtakes(s, v.asOf))
    BY <2>2, VerdictFields DEF Overtakes
  <2>4. w = [v EXCEPT !.late = late]
    BY <2>1, <2>3
  <2>5. /\ w \in Verdicts /\ w.late = late
        /\ w.asOf = v.asOf /\ w.stage = v.stage /\ w.home = v.home /\ w.away = v.away
        /\ w.odds = v.odds /\ w.status = v.status /\ w.told = v.told /\ w.open = v.open
    BY <2>2, <2>4 DEF Verdicts
  <2> QED BY <2>3, <2>5
<1>3. CASE w = Verdict(s) /\ session[s].status # "none"
  <2>1. PICK r : r = session[s]
    OBVIOUS
  <2>2. r \in Records /\ r.status # "none"
    BY <1>3, <2>1, Known
  <2>3. PICK admitted \in BOOLEAN : admitted = Admitted(r.stage, r.home, r.away)
    BY DEF Admitted
  <2>4. w = [asOf |-> r.asOf, stage |-> r.stage, home |-> r.home, away |-> r.away,
             odds |-> r.odds, status |-> r.status, told |-> r.told,
             admitted |-> admitted, open |-> r.open, late |-> r.late]
    BY <1>3, <2>1, <2>3 DEF Verdict
  <2>5. w \in Verdicts
    BY <2>2, <2>4, RecordFields DEF Verdicts
  <2>6. /\ w.asOf = r.asOf /\ w.stage = r.stage /\ w.home = r.home /\ w.away = r.away
        /\ w.odds = r.odds /\ w.status = r.status /\ w.told = r.told /\ w.open = r.open
        /\ w.late = r.late
    BY <2>4
  <2> QED BY <2>1, <2>2, <2>5, <2>6
<1> QED BY <1>1, <1>2, <1>3

LEMMA CommitTypes ==
  ASSUME EvidenceInv, NEW s \in Sessions, Commit(s)
  PROVE  EvidenceTypeOK' /\ TimesInv' /\ PairsInv' /\ AnswersInv'
<1>1. /\ session' \in [Sessions -> Records] /\ session'[s] = Over
      /\ lineups' = lineups \cup session[s].ownLineups
      /\ prices' = prices \cup session[s].ownPrices
      /\ UNCHANGED <<clock, moves, published, offered>>
  BY CommitFields
<1>2. verdicts' \subseteq Verdicts
  BY CommitVerdicts
<1>3. session[s].ownLineups \subseteq LineupRow /\ session[s].ownPrices \subseteq PriceRow
  BY SessionFields DEF EvidenceInv
<1>4. EvidenceTypeOK'
  BY <1>1, <1>2, <1>3 DEF EvidenceInv, EvidenceTypeOK
<1>5. \A t \in Sessions \ {s} :
        /\ session'[t].asOf = session[t].asOf /\ session'[t].captured = session[t].captured
        /\ session'[t].ownLineups = session[t].ownLineups /\ session'[t].sheets = session[t].sheets
        /\ session'[t].boards = session[t].boards
  BY CommitOthers
<1>6. /\ Over.asOf = 0 /\ Over.captured = 0 /\ Over.ownLineups = {} /\ Over.sheets = {}
      /\ Over.boards = {}
  BY IdleFields
<1>7. TimesInv'
  <2>1. 0 <= clock
    BY DEF EvidenceInv, EvidenceTypeOK
  <2> QED BY <1>1, <1>5, <1>6, <2>1 DEF EvidenceInv, TimesInv
<1>8. PairsInv'
  <2>1. Paired(lineups) /\ Paired(session[s].ownLineups)
    BY DEF EvidenceInv, PairsInv
  <2>2. Paired(lineups \cup session[s].ownLineups)
    BY <2>1 DEF Paired
  <2>3. \A t \in Sessions : Paired(session'[t].ownLineups)
    BY <1>1, <1>5, <1>6 DEF EvidenceInv, PairsInv, Paired
  <2>4. Paired(lineups')
    BY <1>1, <2>2
  <2> QED BY <2>3, <2>4 DEF PairsInv, Paired
<1>9. AnswersInv'
  BY <1>1, <1>5, <1>6 DEF EvidenceInv, AnswersInv
<1> QED BY <1>4, <1>7, <1>8, <1>9

\* No session brings older line-ups to the table because another commits.
LEMMA CommitBringsNothing ==
  ASSUME EvidenceInv, NEW s \in Sessions, Commit(s), NEW t \in Sessions, NEW bound,
         t = s \/ NotBefore(t, bound)
  PROVE  /\ session'[t].sheets # {} => session'[t].captured >= bound
         /\ \A x \in session'[t].ownLineups : x.captured >= bound
<1>1. CASE t = s
  BY <1>1, CommitFields, IdleFields
<1>2. CASE t # s
  BY <1>2, CommitOthers DEF NotBefore
<1> QED BY <1>1, <1>2

LEMMA CommitSessions ==
  ASSUME EvidenceInv, NEW s \in Sessions, Commit(s), NEW t \in Sessions
  PROVE  PhaseInv(t)' /\ PricesInv(t)' /\ LineupsInv(t)'
<1>1. CASE t = s
  <2>1. session'[t] = Over
    BY <1>1, CommitFields
  <2> QED BY <2>1, IdleFields DEF PhaseInv, PricesInv, LineupsInv, Alone, Over
<1>2. CASE t # s
  <2>1. /\ session'[t].at = session[t].at /\ session'[t].stage = session[t].stage
        /\ session'[t].ownLineups = session[t].ownLineups
        /\ session'[t].ownPrices = session[t].ownPrices /\ session'[t].asOf = session[t].asOf
        /\ session'[t].home = session[t].home /\ session'[t].away = session[t].away
        /\ session'[t].odds = session[t].odds /\ session'[t].status = session[t].status
        /\ session'[t].told = session[t].told /\ session'[t].open = session[t].open
        /\ session[t].status # "none" /\ ~session'[t].late =>
             ~session[t].late /\ ~Overtakes(s, session[t].asOf)
    BY <1>2, CommitOthers
  <2>2. /\ lineups' = lineups \cup session[s].ownLineups
        /\ prices' = prices \cup session[s].ownPrices
        /\ session[t].status = "none" => session'[t] = session[t]
    BY <1>2, CommitFields
  <2>3. /\ SeenLineups(t)' = SeenLineups(t) \cup session[s].ownLineups
        /\ SeenPrices(t)' = SeenPrices(t) \cup session[s].ownPrices
    BY <2>1, <2>2 DEF SeenLineups, SeenPrices
  <2>4. PhaseInv(t) /\ PricesInv(t) /\ LineupsInv(t)
    BY Known
  <2>5. /\ session[t].asOf \in 0..MaxTime /\ SeenPrices(t) \subseteq PriceRow
        /\ session[s].ownLineups \subseteq LineupRow
    BY SessionFields DEF EvidenceInv
  <2>6. PhaseInv(t)'
    <3>1. session[t].at \in {"idle", "over"} => session[t].status = "none"
      BY <2>4 DEF PhaseInv
    <3> QED BY <2>1, <2>2, <2>4, <3>1 DEF PhaseInv
  <2>7. PricesInv(t)'
    <3>1. CASE session[t].status # "none" /\ ~session'[t].late
      <4>1. ~session[t].late /\ ~Overtakes(s, session[t].asOf)
        BY <2>1, <3>1
      <4>2. PICK more : more = SeenPrices(t) \cup session[s].ownPrices
        OBVIOUS
      <4>3. /\ Verify(SeenPrices(t), session[t].asOf) = Verify(more, session[t].asOf)
            /\ Quotes(SeenPrices(t), session[t].asOf) = Quotes(more, session[t].asOf)
            /\ Market(SeenPrices(t), session[t].asOf - Lookback)
                 = Market(more, session[t].asOf - Lookback)
            /\ Movement(SeenPrices(t), session[t].asOf) = Movement(more, session[t].asOf)
        BY <2>5, <4>1, <4>2, MovedLater DEF EvidenceInv
      <4>4. SeenPrices(t)' = more
        BY <2>3, <4>2
      <4> QED BY <2>1, <2>4, <3>1, <4>1, <4>3, <4>4 DEF PricesInv
    <3>2. CASE session[t].status = "none" \/ session'[t].late
      BY <2>1, <3>2 DEF PricesInv
    <3> QED BY <3>1, <3>2
  <2>8. LineupsInv(t)'
    <3> SUFFICES ASSUME Alone(t)' PROVE LineupsInv(t)'
      BY DEF LineupsInv
    <3>1. Alone(t)
      BY <2>1 DEF Alone
    <3>2. AnsweredSince(t)
      BY <2>4, <3>1 DEF LineupsInv
    <3>3. AnsweredSince(t)'
      <4> SUFFICES ASSUME NEW u \in Sessions \ {t}
                   PROVE  /\ session'[u].sheets # {} => session'[u].captured >= session[t].asOf
                          /\ \A x \in session'[u].ownLineups : x.captured >= session[t].asOf
        BY <2>1 DEF AnsweredSince
      <4>1. NotBefore(u, session[t].asOf)
        BY <3>2 DEF AnsweredSince, NotBefore
      <4> QED BY <4>1, CommitBringsNothing
    <3>4. \A x \in session[s].ownLineups : x.captured >= session[t].asOf
      BY <1>2, <3>2 DEF AnsweredSince
    <3>5. CASE Instant(SeenLineups(t), session[t].asOf)
      <4>1. Instant(SeenLineups(t)', session[t].asOf)
        BY <2>3, <3>5 DEF Instant
      <4> QED BY <2>1, <3>3, <4>1 DEF LineupsInv
    <3>6. CASE ~Instant(SeenLineups(t), session[t].asOf)
      <4>1. PICK more : more = SeenLineups(t) \cup session[s].ownLineups
        OBVIOUS
      <4>2. \/ Instant(more, session[t].asOf)
            \/ \A team : LatestLineup(SeenLineups(t), team, session[t].asOf)
                           = LatestLineup(more, team, session[t].asOf)
        <5>1. /\ SeenLineups(t) \subseteq more
              /\ \A x \in more : \/ x \in SeenLineups(t)
                                 \/ x \in LineupRow /\ x.captured >= session[t].asOf
          BY <2>5, <3>4, <4>1
        <5> QED BY <2>5, <5>1, AnsweredLater
      <4>3. SeenLineups(t)' = more
        BY <2>3, <4>1
      <4>4. /\ session[t].at # "home" =>
                 session[t].home = LatestLineup(SeenLineups(t), "home", session[t].asOf)
            /\ session[t].at \notin {"home", "away"} =>
                 session[t].away = LatestLineup(SeenLineups(t), "away", session[t].asOf)
        BY <2>4, <3>1, <3>6 DEF LineupsInv
      <4> QED BY <2>1, <3>3, <4>2, <4>3, <4>4 DEF LineupsInv
    <3> QED BY <3>5, <3>6
  <2> QED BY <2>6, <2>7, <2>8
<1> QED BY <1>1, <1>2

LEMMA CommitStands == ASSUME EvidenceInv, NEW s \in Sessions, Commit(s) PROVE VerdictsInv'
<1>1. /\ lineups' = SeenLineups(s) /\ prices' = SeenPrices(s) /\ clock' = clock
      /\ lineups' = lineups \cup session[s].ownLineups
      /\ prices' = prices \cup session[s].ownPrices
      /\ session[s].at = "commit"
  BY CommitFields DEF SeenLineups, SeenPrices
<1> SUFFICES ASSUME NEW w \in verdicts'
             PROVE  /\ w.stage # "initial" /\ w.open = {} =>
                         /\ \A t \in Sessions :
                              /\ session'[t].sheets # {} => session'[t].captured >= w.asOf
                              /\ \A x \in session'[t].ownLineups : x.captured >= w.asOf
                         /\ \/ Instant(lineups', w.asOf)
                            \/ /\ w.home = LatestLineup(lineups', "home", w.asOf)
                               /\ w.away = LatestLineup(lineups', "away", w.asOf)
                    /\ w.asOf <= clock
                    /\ ~w.late =>
                         /\ w.odds = Quotes(prices', w.asOf) /\ w.status = Verify(prices', w.asOf)
                         /\ w.told \in {<<>>, Movement(prices', w.asOf)}
  BY <1>1 DEF VerdictsInv
<1>2. CASE /\ session[s].status # "none"
           /\ w.asOf = session[s].asOf /\ w.stage = session[s].stage /\ w.home = session[s].home
           /\ w.away = session[s].away /\ w.odds = session[s].odds /\ w.status = session[s].status
           /\ w.told = session[s].told /\ w.open = session[s].open /\ w.late = session[s].late
  <2>1. session[s].asOf <= clock /\ PricesInv(s) /\ LineupsInv(s)
    BY Known
  <2>2. ~w.late => /\ w.odds = Quotes(prices', w.asOf) /\ w.status = Verify(prices', w.asOf)
                   /\ w.told \in {<<>>, Movement(prices', w.asOf)}
    BY <1>1, <1>2, <2>1 DEF PricesInv
  <2>3. ASSUME w.stage # "initial", w.open = {}
        PROVE  /\ \A t \in Sessions :
                    /\ session'[t].sheets # {} => session'[t].captured >= w.asOf
                    /\ \A x \in session'[t].ownLineups : x.captured >= w.asOf
               /\ \/ Instant(lineups', w.asOf)
                  \/ /\ w.home = LatestLineup(lineups', "home", w.asOf)
                     /\ w.away = LatestLineup(lineups', "away", w.asOf)
    <3>1. Alone(s)
      BY <1>2, <2>3 DEF Alone
    <3>2. \A t \in Sessions : t = s \/ NotBefore(t, w.asOf)
      BY <1>2, <2>1, <3>1 DEF LineupsInv, AnsweredSince, NotBefore
    <3>3. \A t \in Sessions :
            /\ session'[t].sheets # {} => session'[t].captured >= w.asOf
            /\ \A x \in session'[t].ownLineups : x.captured >= w.asOf
      BY <3>2, CommitBringsNothing
    <3> QED BY <1>1, <1>2, <2>1, <3>1, <3>3 DEF LineupsInv
  <2> QED BY <1>2, <2>1, <2>2, <2>3
<1>3. ASSUME NEW v \in verdicts,
             w.asOf = v.asOf, w.stage = v.stage, w.home = v.home, w.away = v.away,
             w.odds = v.odds, w.status = v.status, w.told = v.told, w.open = v.open,
             ~w.late => ~v.late /\ ~Overtakes(s, v.asOf)
      PROVE  /\ w.stage # "initial" /\ w.open = {} =>
                  /\ \A t \in Sessions :
                       /\ session'[t].sheets # {} => session'[t].captured >= w.asOf
                       /\ \A x \in session'[t].ownLineups : x.captured >= w.asOf
                  /\ \/ Instant(lineups', w.asOf)
                     \/ /\ w.home = LatestLineup(lineups', "home", w.asOf)
                        /\ w.away = LatestLineup(lineups', "away", w.asOf)
             /\ w.asOf <= clock
             /\ ~w.late =>
                  /\ w.odds = Quotes(prices', w.asOf) /\ w.status = Verify(prices', w.asOf)
                  /\ w.told \in {<<>>, Movement(prices', w.asOf)}
  <2>1. /\ v.stage # "initial" /\ v.open = {} =>
             /\ \A t \in Sessions : NotBefore(t, v.asOf)
             /\ \/ Instant(lineups, v.asOf)
                \/ /\ v.home = LatestLineup(lineups, "home", v.asOf)
                   /\ v.away = LatestLineup(lineups, "away", v.asOf)
        /\ v.asOf <= clock
        /\ ~v.late =>
             /\ v.odds = Quotes(prices, v.asOf) /\ v.status = Verify(prices, v.asOf)
             /\ v.told \in {<<>>, Movement(prices, v.asOf)}
    BY DEF EvidenceInv, VerdictsInv, NotBefore
  <2>2. v.asOf \in 0..MaxTime
    BY VerdictFields DEF EvidenceInv, EvidenceTypeOK
  <2>3. /\ prices \subseteq PriceRow /\ EvidenceTypeOK /\ session[s].ownLineups \subseteq LineupRow
    BY SessionFields DEF EvidenceInv, EvidenceTypeOK
  <2>4. ASSUME ~w.late
        PROVE  /\ w.odds = Quotes(prices', w.asOf) /\ w.status = Verify(prices', w.asOf)
               /\ w.told \in {<<>>, Movement(prices', w.asOf)}
    <3>1. ~v.late /\ ~Overtakes(s, v.asOf)
      BY <1>3, <2>4
    <3>2. PICK more : more = prices \cup session[s].ownPrices
      OBVIOUS
    <3>3. /\ Verify(prices, v.asOf) = Verify(more, v.asOf)
          /\ Quotes(prices, v.asOf) = Quotes(more, v.asOf)
          /\ Movement(prices, v.asOf) = Movement(more, v.asOf)
      BY <2>2, <2>3, <3>1, <3>2, MovedLater
    <3>4. prices' = more
      BY <1>1, <3>2
    <3> QED BY <1>3, <2>1, <3>1, <3>3, <3>4
  <2>5. ASSUME w.stage # "initial", w.open = {}
        PROVE  /\ \A t \in Sessions :
                    /\ session'[t].sheets # {} => session'[t].captured >= w.asOf
                    /\ \A x \in session'[t].ownLineups : x.captured >= w.asOf
               /\ \/ Instant(lineups', w.asOf)
                  \/ /\ w.home = LatestLineup(lineups', "home", w.asOf)
                     /\ w.away = LatestLineup(lineups', "away", w.asOf)
    <3>1. /\ \A t \in Sessions : NotBefore(t, w.asOf)
          /\ \/ Instant(lineups, v.asOf)
             \/ /\ v.home = LatestLineup(lineups, "home", v.asOf)
                /\ v.away = LatestLineup(lineups, "away", v.asOf)
      BY <1>3, <2>1, <2>5
    <3>2. \A t \in Sessions :
            /\ session'[t].sheets # {} => session'[t].captured >= w.asOf
            /\ \A x \in session'[t].ownLineups : x.captured >= w.asOf
      BY <3>1, CommitBringsNothing
    <3>3. \A x \in session[s].ownLineups : x.captured >= v.asOf
      BY <1>3, <3>1 DEF NotBefore
    <3>4. PICK more : more = lineups \cup session[s].ownLineups
      OBVIOUS
    <3>5. \/ Instant(more, v.asOf)
          \/ \A team : LatestLineup(lineups, team, v.asOf) = LatestLineup(more, team, v.asOf)
      <4>1. /\ lineups \subseteq more
            /\ \A x \in more : x \in lineups \/ (x \in LineupRow /\ x.captured >= v.asOf)
        BY <2>3, <3>3, <3>4
      <4> QED BY <2>2, <4>1, AnsweredLater
    <3>6. Instant(lineups, v.asOf) => Instant(more, v.asOf)
      BY <3>4 DEF Instant
    <3>7. \/ Instant(lineups', w.asOf)
          \/ /\ w.home = LatestLineup(lineups', "home", w.asOf)
             /\ w.away = LatestLineup(lineups', "away", w.asOf)
      BY <1>1, <1>3, <3>1, <3>4, <3>5, <3>6
    <3> QED BY <3>2, <3>7
  <2> QED BY <1>3, <2>1, <2>4, <2>5
<1> QED BY <1>2, <1>3, CommitVerdicts

LEMMA CommitKeeps == ASSUME EvidenceInv, NEW s \in Sessions, Commit(s) PROVE EvidenceInv'
<1>1. EvidenceTypeOK' /\ TimesInv' /\ PairsInv' /\ AnswersInv' /\ VerdictsInv'
  BY CommitTypes, CommitStands
<1>2. \A t \in Sessions : PhaseInv(t)' /\ PricesInv(t)' /\ LineupsInv(t)'
  BY CommitSessions
<1> QED BY <1>1, <1>2 DEF EvidenceInv
-----------------------------------------------------------------------------
LEMMA EvidenceStarts == EvidenceInit => EvidenceInv
<1> SUFFICES ASSUME EvidenceInit PROVE EvidenceInv
  OBVIOUS
<1>1. /\ clock = 0 /\ moves = 0 /\ lineups = {} /\ prices = {} /\ verdicts = {}
      /\ published \subseteq Announcements /\ \A x, y \in published : x = y
      /\ session = [s \in Sessions |-> Idle]
  BY DEF EvidenceInit
<1>2. 0 \in 0..MaxTime /\ 0 \in 0..MaxMoves /\ 0 <= 0
  BY EvidenceBounds
<1>3. /\ offered \in [Books -> [board : Boards, updated : 0..MaxTime]]
      /\ \A b \in Books : offered[b].updated = 0
  <2>1. PICK first \in Boards : first = CHOOSE x \in Boards : TRUE
    BY EvidenceBounds
  <2>2. offered = [b \in Books |-> [board |-> first, updated |-> 0]]
    BY <2>1 DEF EvidenceInit
  <2> QED BY <1>2, <2>2
<1>4. \A s \in Sessions : session[s] = Idle
  BY <1>1
<1>5. EvidenceTypeOK
  BY <1>1, <1>2, <1>3, IdleFields DEF EvidenceTypeOK
<1>6. TimesInv
  BY <1>1, <1>2, <1>3, <1>4, IdleFields DEF TimesInv
<1>7. PairsInv /\ AnswersInv /\ VerdictsInv
  BY <1>1, <1>4, IdleFields DEF PairsInv, Paired, AnswersInv, VerdictsInv
<1>8. \A s \in Sessions : PhaseInv(s) /\ PricesInv(s) /\ LineupsInv(s)
  BY <1>4, IdleFields DEF PhaseInv, PricesInv, LineupsInv, Alone
<1> QED BY <1>5, <1>6, <1>7, <1>8 DEF EvidenceInv

LEMMA EvidenceKept == EvidenceInv /\ [EvidenceNext]_evidenceVars => EvidenceInv'
<1> SUFFICES ASSUME EvidenceInv, [EvidenceNext]_evidenceVars PROVE EvidenceInv'
  OBVIOUS
<1>1. CASE Tick \/ Announce \/ MovePrice
  BY <1>1, WorldKeeps
<1>2. ASSUME NEW s \in Sessions, Open(s) PROVE EvidenceInv'
  BY <1>2, OpenKeeps
<1>3. ASSUME NEW s \in Sessions, AskLineups(s) \/ SaveLineups(s) PROVE EvidenceInv'
  BY <1>3, AskLineupsKeeps, SaveLineupsKeeps
<1>4. ASSUME NEW s \in Sessions, AskOdds(s) \/ SaveOdds(s) PROVE EvidenceInv'
  BY <1>4, AskOddsKeeps, SaveOddsKeeps
<1>5. ASSUME NEW s \in Sessions, StartAnalysis(s) PROVE EvidenceInv'
  BY <1>5, StartAnalysisKeeps
<1>6. ASSUME NEW s \in Sessions, ReadHome(s) \/ ReadAway(s) \/ ReadPrices(s) PROVE EvidenceInv'
  BY <1>6, ReadHomeKeeps, ReadAwayKeeps, ReadPricesKeeps
<1>7. ASSUME NEW s \in Sessions, TellMovement(s) PROVE EvidenceInv'
  BY <1>7, TellMovementKeeps
<1>8. ASSUME NEW s \in Sessions, Commit(s) PROVE EvidenceInv'
  BY <1>8, CommitKeeps
<1>9. ASSUME NEW s \in Sessions, RollBack(s) PROVE EvidenceInv'
  BY <1>9, EvidenceRollBackKeeps
<1>10. CASE UNCHANGED evidenceVars
  <2>1. UNCHANGED <<clock, moves, published, offered, lineups, prices, session, verdicts>>
    BY <1>10 DEF evidenceVars
  <2>2. EvidenceTypeOK' /\ TimesInv' /\ AnswersInv' /\ VerdictsInv'
    BY <2>1 DEF EvidenceInv, EvidenceTypeOK, TimesInv, AnswersInv, VerdictsInv
  <2>3. PairsInv'
    BY <2>1 DEF EvidenceInv, PairsInv, Paired
  <2>4. ASSUME NEW s \in Sessions PROVE PhaseInv(s)' /\ PricesInv(s)' /\ LineupsInv(s)'
    BY <2>1 DEF EvidenceInv, PhaseInv, PricesInv, LineupsInv, Alone, AnsweredSince,
                SeenPrices, SeenLineups
  <2> QED BY <2>2, <2>3, <2>4 DEF EvidenceInv
<1> QED BY <1>1, <1>2, <1>3, <1>4, <1>5, <1>6, <1>7, <1>8, <1>9, <1>10 DEF EvidenceNext

\* The invariant holds of every behaviour: of the line-ups and prices that
\* sessions sync and analyses read, at once or one after the other.
THEOREM EvidenceInductive == EvidenceSpec => []EvidenceInv
<1>1. EvidenceInit => EvidenceInv
  BY EvidenceStarts
<1>2. EvidenceInv /\ [EvidenceNext]_evidenceVars => EvidenceInv'
  BY EvidenceKept
<1> QED BY <1>1, <1>2, PTL DEF EvidenceSpec

\* The variables keep their types.
THEOREM EvidenceTypeCorrect == EvidenceSpec => []EvidenceTypeOK
<1>1. EvidenceInv => EvidenceTypeOK
  BY DEF EvidenceInv
<1> QED BY <1>1, EvidenceInductive, PTL

\* A committed analysis can be repeated for its decision time, with the same
\* line-ups of one answer, the same prices and the same market told to the
\* reviewer: but for the line-ups of whoever was at work when it began or was
\* answered in the same instant, and the prices committed late.
THEOREM VerdictsAlwaysStand == EvidenceSpec => []VerdictsStand
<1>1. EvidenceInv => VerdictsStand
  <2> SUFFICES ASSUME EvidenceInv, NEW v \in verdicts
               PROVE  /\ v.stage # "initial" =>
                           \/ v.open # {} \/ \E x \in lineups : x.captured = v.asOf
                           \/ /\ v.home.captured = v.away.captured
                              /\ v.home = LatestLineup(lineups, "home", v.asOf)
                              /\ v.away = LatestLineup(lineups, "away", v.asOf)
                      /\ \/ v.late
                         \/ /\ v.odds = Quotes(prices, v.asOf) /\ v.status = Verify(prices, v.asOf)
                            /\ v.told # <<>> =>
                                 /\ v.told = <<Market(prices, v.asOf - Lookback),
                                               Market(prices, v.asOf)>>
                                 /\ v.odds \subseteq v.told[2]
    BY DEF VerdictsStand
  <2>1. /\ v.stage # "initial" /\ v.open = {} =>
             \/ Instant(lineups, v.asOf)
             \/ /\ v.home = LatestLineup(lineups, "home", v.asOf)
                /\ v.away = LatestLineup(lineups, "away", v.asOf)
        /\ ~v.late =>
             /\ v.odds = Quotes(prices, v.asOf) /\ v.status = Verify(prices, v.asOf)
             /\ v.told \in {<<>>, Movement(prices, v.asOf)}
    BY DEF EvidenceInv, VerdictsInv
  <2>2. /\ lineups \subseteq LineupRow /\ Paired(lineups) /\ v.late \in BOOLEAN
    BY VerdictFields DEF EvidenceInv, EvidenceTypeOK, PairsInv
  <2>3. LatestLineup(lineups, "home", v.asOf).captured = LatestLineup(lineups, "away", v.asOf).captured
    BY <2>2, LatestPair
  <2>4. ASSUME ~v.late, v.told # <<>>
        PROVE  /\ v.told = <<Market(prices, v.asOf - Lookback), Market(prices, v.asOf)>>
               /\ v.odds \subseteq v.told[2]
    <3>1. PICK before, now : /\ before = Market(prices, v.asOf - Lookback)
                             /\ now = Market(prices, v.asOf)
      OBVIOUS
    <3>2. v.told = <<before, now>> /\ v.odds = Quotes(prices, v.asOf)
      BY <2>1, <2>4, <3>1 DEF Movement
    <3>3. v.told[2] = now
      BY <3>2
    <3>4. Quotes(prices, v.asOf) \subseteq Market(prices, v.asOf)
      BY ReadRows
    <3> QED BY <3>1, <3>2, <3>3, <3>4
  <2> QED BY <2>1, <2>2, <2>3, <2>4 DEF Instant
<1> QED BY <1>1, EvidenceInductive, PTL
-----------------------------------------------------------------------------
(* Keys of rows *)

\* Rows of a table and rows that sessions bring to it, with a key of their own.
Keyed(key, table, own) ==
  /\ \A x, y \in table : key[x] = key[y] => x = y
  /\ \A s \in Sessions : \A x \in own[s] :
       /\ \A y \in own[s] : key[x] = key[y] => x = y
       /\ \A y \in table : key[x] # key[y]
       /\ \A t \in Sessions \ {s} : \A y \in own[t] : key[x] # key[y]

LEMMA FewerKeyed ==
  ASSUME NEW key, NEW table, NEW own, Keyed(key, table, own),
         NEW less, \A s \in Sessions : less[s] \subseteq own[s]
  PROVE  Keyed(key, table, less)
BY DEF Keyed

LEMMA MoreKeyed ==
  ASSUME NEW key, NEW table, NEW own, Keyed(key, table, own), NEW s \in Sessions, NEW new,
         \A x, y \in new : key[x] = key[y] => x = y,
         \A x \in new : \A y \in table \cup own[s] : key[x] # key[y],
         \A t \in Sessions \ {s} : \A x \in new, y \in own[t] : key[x] # key[y],
         NEW more, more[s] \subseteq own[s] \cup new,
         \A t \in Sessions \ {s} : more[t] \subseteq own[t]
  PROVE  Keyed(key, table, more)
<1>1. ASSUME NEW t \in Sessions, NEW x \in more[t]
      PROVE  /\ \A y \in more[t] : key[x] = key[y] => x = y
             /\ \A y \in table : key[x] # key[y]
             /\ \A u \in Sessions \ {t} : \A y \in more[u] : key[x] # key[y]
  <2>1. CASE t = s
    <3>1. \A y \in more[s] : key[x] = key[y] => x = y
      BY <1>1, <2>1 DEF Keyed
    <3>2. \A y \in table : key[x] # key[y]
      BY <1>1, <2>1 DEF Keyed
    <3>3. \A u \in Sessions \ {s} : \A y \in more[u] : key[x] # key[y]
      BY <1>1, <2>1 DEF Keyed
    <3> QED BY <2>1, <3>1, <3>2, <3>3
  <2>2. CASE t # s
    <3>1. x \in own[t]
      BY <1>1, <2>2
    <3>2. /\ \A y \in more[t] : key[x] = key[y] => x = y
          /\ \A y \in table : key[x] # key[y]
      BY <2>2, <3>1 DEF Keyed
    <3>3. ASSUME NEW u \in Sessions \ {t}, NEW y \in more[u] PROVE key[x] # key[y]
      <4>1. y \in own[u] \/ (u = s /\ y \in new)
        BY <3>3
      <4> QED BY <2>2, <3>1, <4>1 DEF Keyed
    <3> QED BY <3>2, <3>3
  <2> QED BY <2>1, <2>2
<1> QED BY <1>1 DEF Keyed

LEMMA CommittedKeyed ==
  ASSUME NEW key, NEW table, NEW own, Keyed(key, table, own), NEW s \in Sessions,
         NEW more, more = table \cup own[s],
         NEW less, less[s] = {}, \A t \in Sessions \ {s} : less[t] = own[t]
  PROVE  Keyed(key, more, less)
<1>1. \A x, y \in more : key[x] = key[y] => x = y
  BY DEF Keyed
<1>2. ASSUME NEW t \in Sessions, NEW x \in less[t]
      PROVE  /\ \A y \in less[t] : key[x] = key[y] => x = y
             /\ \A y \in more : key[x] # key[y]
             /\ \A u \in Sessions \ {t} : \A y \in less[u] : key[x] # key[y]
  <2>1. t # s /\ x \in own[t]
    BY <1>2
  <2> QED BY <2>1 DEF Keyed
<1> QED BY <1>1, <1>2 DEF Keyed

LineupKey == [x \in LineupRow |-> <<x.team, x.captured>>]
PriceKey  == [x \in PriceRow |-> <<x.book, x.code, x.captured>>]

OwnLineups == [s \in Sessions |-> session[s].ownLineups]
OwnPrices  == [s \in Sessions |-> session[s].ownPrices]

LEMMA KeysOfRows ==
  /\ \A x, y \in LineupRow : SameLineup(x, y) <=> LineupKey[x] = LineupKey[y]
  /\ \A x, y \in PriceRow : SamePrice(x, y) <=> PriceKey[x] = PriceKey[y]
BY DEF SameLineup, SamePrice, LineupKey, PriceKey

KeysInv == Keyed(LineupKey, lineups, OwnLineups) /\ Keyed(PriceKey, prices, OwnPrices)

LEMMA RowsAreKeyed == EvidenceInv => (RowsHaveKeys <=> KeysInv)
<1> SUFFICES ASSUME EvidenceInv PROVE RowsHaveKeys <=> KeysInv
  OBVIOUS
<1>1. /\ lineups \subseteq LineupRow /\ prices \subseteq PriceRow
      /\ \A s \in Sessions : /\ session[s].ownLineups \subseteq LineupRow
                             /\ session[s].ownPrices \subseteq PriceRow
  BY SessionFields DEF EvidenceInv, EvidenceTypeOK
<1>2. \A s \in Sessions : OwnLineups[s] = session[s].ownLineups /\ OwnPrices[s] = session[s].ownPrices
  BY DEF OwnLineups, OwnPrices
<1>3. \A s \in Sessions : s \notin Running => session[s] \in {Idle, Over}
  BY Known DEF PhaseInv, Running, Over
<1>4. Keyed(LineupKey, lineups, OwnLineups) <=>
        /\ \A x, y \in lineups : SameLineup(x, y) => x = y
        /\ \A s \in Sessions : \A x \in session[s].ownLineups :
            /\ \A y \in session[s].ownLineups : SameLineup(x, y) => x = y
            /\ \A y \in lineups : ~SameLineup(x, y)
            /\ \A t \in Sessions \ {s} : \A y \in session[t].ownLineups : ~SameLineup(x, y)
  BY <1>1, <1>2, KeysOfRows DEF Keyed
<1>5. Keyed(PriceKey, prices, OwnPrices) <=>
        /\ \A x, y \in prices : SamePrice(x, y) => x = y
        /\ \A s \in Sessions : \A x \in session[s].ownPrices :
            /\ \A y \in session[s].ownPrices : SamePrice(x, y) => x = y
            /\ \A y \in prices : ~SamePrice(x, y)
            /\ \A t \in Sessions \ {s} : \A y \in session[t].ownPrices : ~SamePrice(x, y)
  BY <1>1, <1>2, KeysOfRows DEF Keyed
<1> QED BY <1>3, <1>4, <1>5 DEF RowsHaveKeys, KeysInv, Over

\* The tables stand, and what the sessions hold is keyed.
LEMMA KeysOfNext ==
  ASSUME lineups' = lineups, prices' = prices,
         Keyed(LineupKey, lineups, OwnLineups'), Keyed(PriceKey, prices, OwnPrices')
  PROVE  KeysInv'
<1>1. Keyed(LineupKey, lineups, OwnLineups)' <=> Keyed(LineupKey, lineups', OwnLineups')
  BY DEF Keyed, LineupKey
<1>2. Keyed(PriceKey, prices, OwnPrices)' <=> Keyed(PriceKey, prices', OwnPrices')
  BY DEF Keyed, PriceKey
<1> QED BY <1>1, <1>2 DEF KeysInv

\* A step of a session that brings nothing and commits nothing.
LEMMA KeysShrink ==
  ASSUME KeysInv, lineups' = lineups, prices' = prices,
         \A s \in Sessions : /\ session'[s].ownLineups \subseteq session[s].ownLineups
                             /\ session'[s].ownPrices \subseteq session[s].ownPrices
  PROVE  KeysInv'
<1>1. \A s \in Sessions : OwnLineups'[s] \subseteq OwnLineups[s] /\ OwnPrices'[s] \subseteq OwnPrices[s]
  BY DEF OwnLineups, OwnPrices
<1>2. Keyed(LineupKey, lineups, OwnLineups') /\ Keyed(PriceKey, prices, OwnPrices')
  BY <1>1, FewerKeyed DEF KeysInv
<1> QED BY <1>2, KeysOfNext

LEMMA SaveLineupsKeyed ==
  ASSUME EvidenceInv, KeysInv, NEW s \in Sessions, SaveLineups(s) PROVE KeysInv'
<1>1. PICK new : new = {x \in LineupRows(session[s]) :
                          \A y \in lineups \cup session[s].ownLineups : ~SameLineup(x, y)}
  OBVIOUS
<1>2. PICK rows \in {new, {}} :
        session' = [session EXCEPT ![s] =
          Onward([session[s] EXCEPT !.ownLineups = session[s].ownLineups \cup rows,
                                    !.sheets = {}, !.captured = 0])]
  BY <1>1 DEF SaveLineups
<1>3. PICK mine : mine = session[s].ownLineups \cup rows
  OBVIOUS
<1>4. PICK q : q = [session[s] EXCEPT !.ownLineups = mine, !.sheets = {}, !.captured = 0]
  OBVIOUS
<1>5. /\ session' = [session EXCEPT ![s] = Onward(q)] /\ lineups' = lineups /\ prices' = prices
      /\ \A t \in Sessions \ {s} : \A x \in new, y \in session[t].ownLineups : ~SameLineup(x, y)
  BY <1>1, <1>2, <1>3, <1>4 DEF SaveLineups
<1>6. /\ session[s] \in Records /\ session \in [Sessions -> Records]
      /\ \A x, y \in session[s].sheets : x = y
  BY Known
<1>7. new \subseteq LineupRow /\ \A x \in new : x.captured = session[s].captured
  BY <1>1, AddedPairs
<1>8. mine \subseteq LineupRow
  BY <1>2, <1>3, <1>6, <1>7, RecordFields
<1>9. q \in Records /\ q.ownLineups = mine /\ q.ownPrices = session[s].ownPrices
  <2>1. 0 \in 0..MaxTime /\ {} \subseteq Announcements
    BY EvidenceBounds
  <2> QED BY <1>4, <1>6, <1>8, <2>1 DEF Records
<1>10. /\ session'[s].ownLineups = mine /\ session'[s].ownPrices = session[s].ownPrices
       /\ \A t \in Sessions \ {s} : session'[t] = session[t]
  BY <1>5, <1>6, <1>9, OnwardFields
<1>11. \A t \in Sessions : session[t].ownLineups \subseteq LineupRow /\ lineups \subseteq LineupRow
  BY SessionFields DEF EvidenceInv, EvidenceTypeOK
<1>12. ASSUME NEW x \in new, NEW y \in new, LineupKey[x] = LineupKey[y] PROVE x = y
  <2>1. PICK tx \in Teams, sx \in session[s].sheets :
          x = [team |-> tx, captured |-> session[s].captured, sheet |-> sx]
    BY <1>1 DEF LineupRows
  <2>2. PICK ty \in Teams, sy \in session[s].sheets :
          y = [team |-> ty, captured |-> session[s].captured, sheet |-> sy]
    BY <1>1 DEF LineupRows
  <2>3. SameLineup(x, y)
    BY <1>7, <1>12, KeysOfRows
  <2>4. tx = ty /\ sx = sy
    BY <1>6, <2>1, <2>2, <2>3 DEF SameLineup
  <2> QED BY <2>1, <2>2, <2>4
<1>13. \A x \in new : \A y \in lineups \cup OwnLineups[s] : LineupKey[x] # LineupKey[y]
  BY <1>1, <1>7, <1>11, KeysOfRows DEF OwnLineups
<1>14. \A t \in Sessions \ {s} : \A x \in new, y \in OwnLineups[t] : LineupKey[x] # LineupKey[y]
  BY <1>5, <1>7, <1>11, KeysOfRows DEF OwnLineups
<1>15. /\ OwnLineups'[s] \subseteq OwnLineups[s] \cup new
       /\ \A t \in Sessions \ {s} : OwnLineups'[t] \subseteq OwnLineups[t]
  BY <1>2, <1>3, <1>10 DEF OwnLineups
<1>16. Keyed(LineupKey, lineups, OwnLineups')
  BY <1>12, <1>13, <1>14, <1>15, MoreKeyed DEF KeysInv
<1>17. Keyed(PriceKey, prices, OwnPrices')
  <2>1. \A t \in Sessions : OwnPrices'[t] \subseteq OwnPrices[t]
    BY <1>10 DEF OwnPrices
  <2> QED BY <2>1, FewerKeyed DEF KeysInv
<1> QED BY <1>5, <1>16, <1>17, KeysOfNext

LEMMA SaveOddsKeyed ==
  ASSUME EvidenceInv, KeysInv, NEW s \in Sessions, SaveOdds(s) PROVE KeysInv'
<1>1. PICK new : new = {x \in PriceRows(session[s]) :
                          \A y \in prices \cup session[s].ownPrices : ~SamePrice(x, y)}
  OBVIOUS
<1>2. PICK rows \in {new, {}} :
        session' = [session EXCEPT ![s] =
          Onward([session[s] EXCEPT !.ownPrices = session[s].ownPrices \cup rows, !.boards = {}])]
  BY <1>1 DEF SaveOdds
<1>3. PICK mine : mine = session[s].ownPrices \cup rows
  OBVIOUS
<1>4. PICK q : q = [session[s] EXCEPT !.ownPrices = mine, !.boards = {}]
  OBVIOUS
<1>5. /\ session' = [session EXCEPT ![s] = Onward(q)] /\ lineups' = lineups /\ prices' = prices
      /\ \A t \in Sessions \ {s} : \A x \in new, y \in session[t].ownPrices : ~SamePrice(x, y)
  BY <1>1, <1>2, <1>3, <1>4 DEF SaveOdds
<1>6. /\ session[s] \in Records /\ session \in [Sessions -> Records]
      /\ \A x, y \in session[s].boards : x.book = y.book => x = y
  BY Known
<1>7. PriceRows(session[s]) \subseteq PriceRow /\ new \subseteq PriceRow
  <2>1. session[s].boards \subseteq [book : Books, board : Boards, captured : 0..MaxTime]
    BY <1>6, RecordFields
  <2>2. PriceRows(session[s]) \subseteq PriceRow
    BY <2>1 DEF PriceRows, PriceRow
  <2> QED BY <1>1, <2>2
<1>8. mine \subseteq PriceRow
  BY <1>2, <1>3, <1>6, <1>7, RecordFields
<1>9. q \in Records /\ q.ownPrices = mine /\ q.ownLineups = session[s].ownLineups
  BY <1>4, <1>6, <1>8 DEF Records
<1>10. /\ session'[s].ownPrices = mine /\ session'[s].ownLineups = session[s].ownLineups
       /\ \A t \in Sessions \ {s} : session'[t] = session[t]
  BY <1>5, <1>6, <1>9, OnwardFields
<1>11. \A t \in Sessions : session[t].ownPrices \subseteq PriceRow /\ prices \subseteq PriceRow
  BY SessionFields DEF EvidenceInv, EvidenceTypeOK
<1>12. ASSUME NEW x \in new, NEW y \in new, PriceKey[x] = PriceKey[y] PROVE x = y
  <2>1. PICK mx \in session[s].boards, cx \in Codes :
          x = [book |-> mx.book, code |-> cx, captured |-> mx.captured, price |-> mx.board[cx]]
    BY <1>1 DEF PriceRows
  <2>2. PICK my \in session[s].boards, cy \in Codes :
          y = [book |-> my.book, code |-> cy, captured |-> my.captured, price |-> my.board[cy]]
    BY <1>1 DEF PriceRows
  <2>3. SamePrice(x, y)
    BY <1>7, <1>12, KeysOfRows
  <2>4. mx = my /\ cx = cy
    BY <1>6, <2>1, <2>2, <2>3 DEF SamePrice
  <2> QED BY <2>1, <2>2, <2>4
<1>13. \A x \in new : \A y \in prices \cup OwnPrices[s] : PriceKey[x] # PriceKey[y]
  BY <1>1, <1>7, <1>11, KeysOfRows DEF OwnPrices
<1>14. \A t \in Sessions \ {s} : \A x \in new, y \in OwnPrices[t] : PriceKey[x] # PriceKey[y]
  BY <1>5, <1>7, <1>11, KeysOfRows DEF OwnPrices
<1>15. /\ OwnPrices'[s] \subseteq OwnPrices[s] \cup new
       /\ \A t \in Sessions \ {s} : OwnPrices'[t] \subseteq OwnPrices[t]
  BY <1>2, <1>3, <1>10 DEF OwnPrices
<1>16. Keyed(PriceKey, prices, OwnPrices')
  BY <1>12, <1>13, <1>14, <1>15, MoreKeyed DEF KeysInv
<1>17. Keyed(LineupKey, lineups, OwnLineups')
  <2>1. \A t \in Sessions : OwnLineups'[t] \subseteq OwnLineups[t]
    BY <1>10 DEF OwnLineups
  <2> QED BY <2>1, FewerKeyed DEF KeysInv
<1> QED BY <1>5, <1>16, <1>17, KeysOfNext

LEMMA CommitKeyed == ASSUME EvidenceInv, KeysInv, NEW s \in Sessions, Commit(s) PROVE KeysInv'
<1>1. /\ session'[s] = Over /\ lineups' = lineups \cup session[s].ownLineups
      /\ prices' = prices \cup session[s].ownPrices
  BY CommitFields
<1>2. \A t \in Sessions \ {s} : /\ session'[t].ownLineups = session[t].ownLineups
                                /\ session'[t].ownPrices = session[t].ownPrices
  BY CommitOthers
<1>3. /\ OwnLineups'[s] = {} /\ \A t \in Sessions \ {s} : OwnLineups'[t] = OwnLineups[t]
      /\ OwnPrices'[s] = {} /\ \A t \in Sessions \ {s} : OwnPrices'[t] = OwnPrices[t]
      /\ lineups' = lineups \cup OwnLineups[s] /\ prices' = prices \cup OwnPrices[s]
  BY <1>1, <1>2, IdleFields DEF OwnLineups, OwnPrices
<1>4. Keyed(LineupKey, lineups', OwnLineups')
  BY <1>3, CommittedKeyed DEF KeysInv
<1>5. Keyed(PriceKey, prices', OwnPrices')
  BY <1>3, CommittedKeyed DEF KeysInv
<1> QED BY <1>4, <1>5 DEF KeysInv, Keyed, LineupKey, PriceKey

LEMMA KeysKept == EvidenceInv /\ KeysInv /\ [EvidenceNext]_evidenceVars => KeysInv'
<1> SUFFICES ASSUME EvidenceInv, KeysInv, [EvidenceNext]_evidenceVars PROVE KeysInv'
  OBVIOUS
<1>1. session \in [Sessions -> Records]
  BY DEF EvidenceInv, EvidenceTypeOK
<1>2. CASE Tick \/ Announce \/ MovePrice \/ UNCHANGED evidenceVars
  BY <1>2, KeysShrink DEF Tick, Announce, MovePrice, evidenceVars
<1>3. ASSUME NEW s \in Sessions, SaveLineups(s) \/ SaveOdds(s) \/ Commit(s) PROVE KeysInv'
  BY <1>3, SaveLineupsKeyed, SaveOddsKeyed, CommitKeyed
<1>4. ASSUME NEW s \in Sessions, NEW r, session' = [session EXCEPT ![s] = r],
             lineups' = lineups, prices' = prices,
             r.ownLineups \subseteq session[s].ownLineups, r.ownPrices \subseteq session[s].ownPrices
      PROVE  KeysInv'
  <2>1. session'[s] = r /\ \A t \in Sessions \ {s} : session'[t] = session[t]
    BY <1>1, <1>4
  <2> QED BY <1>4, <2>1, KeysShrink
<1>5. ASSUME NEW s \in Sessions, Open(s) \/ RollBack(s) PROVE KeysInv'
  <2>1. CASE Open(s)
    <3>1. PICK h, q, g : session' = [session EXCEPT ![s] =
                           [Idle EXCEPT !.at = h, !.todo = q, !.stage = g]]
      BY <2>1 DEF Open
    <3>2. PICK r : r = [Idle EXCEPT !.at = h, !.todo = q, !.stage = g]
      OBVIOUS
    <3>3. r.ownLineups = {} /\ r.ownPrices = {}
      BY <3>2 DEF Idle
    <3>4. session' = [session EXCEPT ![s] = r] /\ lineups' = lineups /\ prices' = prices
      BY <2>1, <3>1, <3>2 DEF Open
    <3> QED BY <1>4, <3>3, <3>4
  <2>2. CASE RollBack(s)
    BY <1>4, <2>2, IdleFields DEF RollBack, Over, Quiet
  <2> QED BY <1>5, <2>1, <2>2
<1>6. ASSUME NEW s \in Sessions, AskLineups(s) \/ AskOdds(s) PROVE KeysInv'
  <2>1. session[s] \in Records
    BY <1>1
  <2>2. PICK e : e = session[s]
    OBVIOUS
  <2>3. CASE AskLineups(s)
    <3>1. PICK r : r = [e EXCEPT !.at = "save lineups", !.sheets = published, !.captured = clock]
      OBVIOUS
    <3>2. r.ownLineups = e.ownLineups /\ r.ownPrices = e.ownPrices
      BY <2>1, <2>2, <3>1 DEF Records
    <3>3. session' = [session EXCEPT ![s] = r] /\ lineups' = lineups /\ prices' = prices
      BY <2>2, <2>3, <3>1 DEF AskLineups
    <3> QED BY <1>4, <2>2, <3>2, <3>3
  <2>4. CASE AskOdds(s)
    <3>1. PICK boards : session' = [session EXCEPT ![s] = [e EXCEPT !.at = "save odds", !.boards = boards]]
      BY <2>2, <2>4 DEF AskOdds
    <3>2. PICK r : r = [e EXCEPT !.at = "save odds", !.boards = boards]
      OBVIOUS
    <3>3. r.ownLineups = e.ownLineups /\ r.ownPrices = e.ownPrices
      BY <2>1, <2>2, <3>2 DEF Records
    <3>4. session' = [session EXCEPT ![s] = r] /\ lineups' = lineups /\ prices' = prices
      BY <2>4, <3>1, <3>2 DEF AskOdds
    <3> QED BY <1>4, <2>2, <3>3, <3>4
  <2> QED BY <1>6, <2>3, <2>4
<1>7. ASSUME NEW s \in Sessions,
             StartAnalysis(s) \/ ReadHome(s) \/ ReadAway(s) \/ ReadPrices(s) \/ TellMovement(s)
      PROVE  KeysInv'
  <2>1. session[s] \in Records
    BY <1>1
  <2>2. PICK e : e = session[s]
    OBVIOUS
  <2>3. \E r : /\ session' = [session EXCEPT ![s] = r]
               /\ r.ownLineups = e.ownLineups /\ r.ownPrices = e.ownPrices
    <3>1. CASE StartAnalysis(s)
      <4>1. PICK step, asOf, open : session' = [session EXCEPT ![s] =
                                    [e EXCEPT !.at = step, !.asOf = asOf, !.open = open]]
        BY <2>2, <3>1 DEF StartAnalysis
      <4>2. PICK r : r = [e EXCEPT !.at = step, !.asOf = asOf, !.open = open]
        OBVIOUS
      <4>3. r.ownLineups = e.ownLineups /\ r.ownPrices = e.ownPrices
        BY <2>1, <2>2, <4>2 DEF Records
      <4> QED BY <4>1, <4>2, <4>3
    <3>2. CASE ReadHome(s)
      <4>1. PICK home : session' = [session EXCEPT ![s] = [e EXCEPT !.at = "away", !.home = home]]
        BY <2>2, <3>2 DEF ReadHome
      <4>2. PICK r : r = [e EXCEPT !.at = "away", !.home = home]
        OBVIOUS
      <4>3. r.ownLineups = e.ownLineups /\ r.ownPrices = e.ownPrices
        BY <2>1, <2>2, <4>2 DEF Records
      <4> QED BY <4>1, <4>2, <4>3
    <3>3. CASE ReadAway(s)
      <4>1. PICK away : session' = [session EXCEPT ![s] = [e EXCEPT !.at = "prices", !.away = away]]
        BY <2>2, <3>3 DEF ReadAway
      <4>2. PICK r : r = [e EXCEPT !.at = "prices", !.away = away]
        OBVIOUS
      <4>3. r.ownLineups = e.ownLineups /\ r.ownPrices = e.ownPrices
        BY <2>1, <2>2, <4>2 DEF Records
      <4> QED BY <4>1, <4>2, <4>3
    <3>4. CASE ReadPrices(s)
      <4>0. PICK odds, status : /\ odds = Quotes(prices \cup e.ownPrices, e.asOf)
                                /\ status = Verify(prices \cup e.ownPrices, e.asOf)
        OBVIOUS
      <4>1. PICK step : session' = [session EXCEPT ![s] =
                        [e EXCEPT !.at = step, !.odds = odds, !.status = status]]
        BY <2>2, <3>4, <4>0 DEF ReadPrices
      <4>2. PICK r : r = [e EXCEPT !.at = step, !.odds = odds, !.status = status]
        OBVIOUS
      <4>3. r.ownLineups = e.ownLineups /\ r.ownPrices = e.ownPrices
        BY <2>1, <2>2, <4>2 DEF Records
      <4> QED BY <4>1, <4>2, <4>3
    <3>5. CASE TellMovement(s)
      <4>1. PICK step, told : session' = [session EXCEPT ![s] = [e EXCEPT !.at = step, !.told = told]]
        BY <2>2, <3>5 DEF TellMovement
      <4>2. PICK r : r = [e EXCEPT !.at = step, !.told = told]
        OBVIOUS
      <4>3. r.ownLineups = e.ownLineups /\ r.ownPrices = e.ownPrices
        BY <2>1, <2>2, <4>2 DEF Records
      <4> QED BY <4>1, <4>2, <4>3
    <3> QED BY <1>7, <3>1, <3>2, <3>3, <3>4, <3>5
  <2>4. lineups' = lineups /\ prices' = prices
    BY <1>7 DEF StartAnalysis, ReadHome, ReadAway, ReadPrices, TellMovement, Quiet
  <2> QED BY <1>4, <2>2, <2>3, <2>4
<1> QED BY <1>2, <1>3, <1>5, <1>6, <1>7 DEF EvidenceNext

\* No two line-ups and no two prices have one key, whoever wrote them, committed
\* or not yet, and a session that is over leaves nothing.
THEOREM RowsStayKeyed == EvidenceSpec => []RowsHaveKeys
<1>1. EvidenceInit => KeysInv
  <2> SUFFICES ASSUME EvidenceInit PROVE KeysInv
    OBVIOUS
  <2>1. lineups = {} /\ prices = {} /\ \A s \in Sessions : OwnLineups[s] = {} /\ OwnPrices[s] = {}
    BY IdleFields DEF EvidenceInit, OwnLineups, OwnPrices
  <2> QED BY <2>1 DEF KeysInv, Keyed
<1>2. EvidenceInv /\ KeysInv /\ [EvidenceNext]_evidenceVars => KeysInv'
  BY KeysKept
<1>3. EvidenceInv => (RowsHaveKeys <=> KeysInv)
  BY RowsAreKeyed
<1> QED BY <1>1, <1>2, <1>3, EvidenceInductive, PTL DEF EvidenceSpec
-----------------------------------------------------------------------------
(* The backtest *)

\* The replayed and the skipped fixtures of BacktestService.run and those still
\* to come are all the fixtures, each once.
THEOREM BacktestTypeCorrect == BacktestSpec => []BacktestTypeOK
<1> DEFINE Inv == BacktestTypeOK /\ IsFiniteSet(outcomes) /\ skipped \in Nat
<1>a. IsFiniteSet(Fixtures)
  BY BacktestAssumption DEF BacktestAssumption
<1>1. BacktestInit => Inv
  <2> SUFFICES ASSUME BacktestInit PROVE Inv
    OBVIOUS
  <2>1. IsFiniteSet(outcomes) /\ Cardinality(outcomes) = 0
    BY FS_EmptySet DEF BacktestInit
  <2>2. Cardinality(Fixtures) \in Nat
    BY <1>a, FS_CardinalityType
  <2> QED BY <2>1, <2>2 DEF BacktestInit, BacktestTypeOK
<1>2. Inv /\ [BacktestNext]_backtestVars => Inv'
  <2> SUFFICES ASSUME Inv, [BacktestNext]_backtestVars PROVE Inv'
    OBVIOUS
  <2>1. /\ IsFiniteSet(todo) /\ Cardinality(todo) \in Nat
        /\ Cardinality(outcomes) \in Nat
    BY <1>a, FS_Subset, FS_CardinalityType DEF BacktestTypeOK
  <2>2. ASSUME NEW f \in todo
        PROVE  Cardinality(todo \ {f}) = Cardinality(todo) - 1
    BY <2>1, <2>2, FS_RemoveElement
  <2>3. ASSUME NEW f \in Fixtures, SkipFixture(f) PROVE Inv'
    <3>1. /\ f \in todo /\ todo' = todo \ {f} /\ skipped' = skipped + 1
          /\ at' = at /\ outcomes' = outcomes
      BY <2>3 DEF SkipFixture, Turn
    <3> QED BY <2>1, <2>2, <3>1 DEF BacktestTypeOK
  <2>4. ASSUME NEW f \in Fixtures, Evaluate(f) PROVE Inv'
    <3>1. PICK o : o.fixture = f /\ outcomes' = outcomes \cup {o}
      BY <2>4 DEF Evaluate
    <3>2. f \in todo /\ todo' = todo \ {f} /\ skipped' = skipped /\ at' = at
      BY <2>4 DEF Evaluate, Turn
    <3>3. o \notin outcomes
      BY <3>1, <3>2 DEF BacktestTypeOK
    <3>4. IsFiniteSet(outcomes') /\ Cardinality(outcomes') = Cardinality(outcomes) + 1
      BY <3>1, <3>3, FS_AddElement
    <3> QED BY <2>1, <2>2, <3>1, <3>2, <3>4 DEF BacktestTypeOK
  <2>5. CASE Report \/ (\E f \in Fixtures : AbortAt(f)) \/ UNCHANGED backtestVars
    BY <2>5 DEF Report, AbortAt, backtestVars, BacktestTypeOK
  <2> QED BY <2>3, <2>4, <2>5 DEF BacktestNext
<1>3. Inv => BacktestTypeOK
  OBVIOUS
<1> QED BY <1>1, <1>2, <1>3, PTL DEF BacktestSpec
-----------------------------------------------------------------------------
(* Side by side *)

\* A behaviour of the four modules side by side is a behaviour of each.
LEMMA AllIsEach == AllSpec => FetchSpec /\ ArchiveSpec /\ EvidenceSpec /\ BacktestSpec
<1>1. AllInit => FetchInit /\ ArchiveInit /\ EvidenceInit /\ BacktestInit
  BY DEF AllInit
<1>2. [AllNext]_evidenceRunVars
        => /\ [FetchNext]_fetchVars /\ [ArchiveNext]_archiveVars
           /\ [EvidenceNext]_evidenceVars /\ [BacktestNext]_backtestVars
  BY DEF AllNext, evidenceRunVars
<1> QED BY <1>1, <1>2, PTL DEF AllSpec, FetchSpec, ArchiveSpec, EvidenceSpec, BacktestSpec

\* What the services know of a match, before it and when they replay it, keeps
\* its types, and its rows keep their keys.
THEOREM AllTyped == AllSpec => []AllTypeOK
<1>1. FetchTypeOK /\ ArchiveTypeOK /\ EvidenceTypeOK /\ RowsHaveKeys /\ BacktestTypeOK
        => AllTypeOK
  BY DEF AllTypeOK
<1> QED BY <1>1, AllIsEach, FetchTypeCorrect, ArchiveTypeCorrect, EvidenceTypeCorrect,
           RowsStayKeyed, BacktestTypeCorrect, PTL
=============================================================================

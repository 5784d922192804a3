---------------------------- MODULE EvidenceFetch ----------------------------
(***************************************************************************)
(* CompliantHttpClient.fetch for one URL of an approved source: the cache of *)
(* two files (the content, and metadata with its capture time and ETag)     *)
(* which outlives the process, the request budget and the circuit breaker,  *)
(* which do not.  The source's content changes as it likes and may come     *)
(* back to an earlier version.  A client process fetches again and again,   *)
(* fails, or is killed, also between and inside the two writes; the next    *)
(* process finds the files as they are.                                     *)
(***************************************************************************)
EXTENDS Naturals

CONSTANTS
  Contents,         \* versions of what the URL serves
  CacheTtl,         \* cache_ttl, in seconds
  RequestBudget,    \* request_budget
  MaxRetries,       \* max_retries
  CircuitThreshold, \* circuit_breaker_failures
  MaxTicks,         \* bound: seconds
  MaxFetches,       \* bound: fetches begun
  MaxKills,         \* bound: processes killed
  NoFile, TornFile  \* the file does not exist; it was being written

Times  == 0..MaxTicks
Stamps == [etag : Contents, at : Times, asked : Times]    \* a metadata file

ASSUME FetchAssumption ==
  /\ {CacheTtl, RequestBudget, MaxRetries, MaxTicks, MaxFetches, MaxKills} \subseteq Nat
  /\ CircuitThreshold \in Nat \ {0}
  /\ Contents # {} /\ TornFile \notin Stamps \cup {NoFile}

VARIABLES
  seconds,
  served,    \* what the source serves now
  history,   \* history: what it served during each second
  body,      \* the content file: NoFile, TornFile or a version
  metadata,  \* the metadata file: NoFile, TornFile or [etag, at, asked]
  client,    \* the process: [at, cached, fetched, attempts, asked]
  requests,  \* _requests
  failures,  \* _failures[host]
  refused,   \* history: refusals (429, 3xx) since the last success
  result,    \* the last FetchResult: {} or {an entry}
  fetches, kills, \* bounds
  split      \* history: a process was killed between the two files' writes

fetchVars == <<seconds, served, history, body, metadata, client, requests, failures,
               refused, result, fetches, kills, split>>

disk == <<body, metadata>>
source == <<seconds, served, history>>
counters == <<requests, failures, refused>>

Resting == [at |-> "idle", cached |-> {}, fetched |-> {}, attempts |-> 0, asked |-> 0]

FetchInit ==
  /\ seconds = 0
  /\ served = CHOOSE c \in Contents : TRUE
  /\ history = [t \in Times |-> IF t = 0 THEN {served} ELSE {}]
  /\ body = NoFile /\ metadata = NoFile
  /\ client = Resting
  /\ requests = 0 /\ failures = 0 /\ refused = 0
  /\ result = {}
  /\ fetches = 0 /\ kills = 0
  /\ split = FALSE

Second ==
  /\ seconds < MaxTicks
  /\ seconds' = seconds + 1
  /\ history' = [history EXCEPT ![seconds + 1] = {served}]
  /\ UNCHANGED <<served, disk, client, counters, result, fetches, kills, split>>

SourceChanges ==
  /\ \E c \in Contents \ {served} :
       /\ served' = c
       /\ history' = [history EXCEPT ![seconds] = @ \cup {c}]
  /\ UNCHANGED <<seconds, disk, client, counters, result, fetches, kills, split>>

\* _load_cache: both files are there.  The content is whatever the file holds;
\* metadata that does not parse makes the fetch raise, which changes nothing,
\* as does an open circuit.
Cached ==
  IF NoFile \in {body, metadata} THEN {}
  ELSE {[content |-> body, etag |-> metadata.etag, at |-> metadata.at,
         asked |-> metadata.asked]}

\* An Expires header, which can only keep the entry longer, is left out.
Fresh(entry) == seconds <= entry.at + CacheTtl

\* The cached entry is fresh: it is the result, stamped as it was captured.
HitCache ==
  /\ client.at = "idle" /\ fetches < MaxFetches
  /\ metadata # TornFile
  /\ \E entry \in Cached :
       /\ Fresh(entry)
       /\ result' = {entry}
  /\ fetches' = fetches + 1
  /\ UNCHANGED <<source, disk, client, counters, kills, split>>

\* Fault: an open circuit does not keep the fetch from starting.
BeginAnyFetch ==
  /\ client.at = "idle" /\ fetches < MaxFetches
  /\ metadata # TornFile \/ body = NoFile
  /\ \A entry \in Cached : ~Fresh(entry)
  /\ client' = [Resting EXCEPT !.at = "ask", !.cached = Cached]
  /\ fetches' = fetches + 1
  /\ UNCHANGED <<source, disk, counters, result, kills, split>>

\* It is not: the host is asked, unless its circuit is open.
BeginFetch ==
  /\ client.at = "idle" /\ fetches < MaxFetches
  /\ metadata # TornFile \/ body = NoFile
  /\ \A entry \in Cached : ~Fresh(entry)
  /\ failures < CircuitThreshold
  /\ client' = [Resting EXCEPT !.at = "ask", !.cached = Cached]
  /\ fetches' = fetches + 1
  /\ UNCHANGED <<source, disk, counters, result, kills, split>>

SendRequest ==
  /\ client.at = "ask"
  /\ requests < RequestBudget
  /\ client' = [client EXCEPT !.at = "wait", !.asked = seconds]
  /\ UNCHANGED <<source, disk, counters, result, fetches, kills, split>>

\* fetch raises: the budget is spent.
BudgetSpent ==
  /\ client.at = "ask"
  /\ requests >= RequestBudget
  /\ client' = Resting
  /\ UNCHANGED <<source, disk, counters, result, fetches, kills, split>>

\* The transport raises: neither the budget nor the breaker hears of it.
TransportFails ==
  /\ client.at = "wait"
  /\ client' = Resting
  /\ UNCHANGED <<source, disk, counters, result, fetches, kills, split>>

Answered ==
  /\ client.at = "wait"
  /\ requests' = requests + 1
  /\ UNCHANGED <<source, disk, result, fetches, kills, split>>

\* Retry after a refusal or a server error, until the attempts are used up.
AskAgain ==
  client' = IF client.attempts < MaxRetries
            THEN [client EXCEPT !.at = "ask", !.attempts = @ + 1]
            ELSE Resting

\* 429, or a redirect, which is not retried.
Refused ==
  /\ Answered
  /\ failures' = failures + 1
  /\ refused' = refused + 1
  /\ AskAgain \/ client' = Resting

\* 5xx: the last one is raised without being counted.
ServerError ==
  /\ Answered
  /\ failures' = IF client.attempts < MaxRetries THEN failures + 1 ELSE failures
  /\ AskAgain
  /\ UNCHANGED refused

\* Any other error status raises at once.
ClientError ==
  /\ Answered
  /\ client' = Resting
  /\ UNCHANGED <<failures, refused>>

\* What the server may have looked at: anything served since it was asked.
Seen == UNION {history[t] : t \in client.asked..seconds}

Fetched(content, etag, at) ==
  client' = [client EXCEPT !.at = "body",
               !.fetched = {[content |-> content, etag |-> etag, at |-> at,
                              asked |-> client.asked]}]

\* Fault: the new content is stored under the capture time of the old entry.
SuccessKeepingTime ==
  /\ Answered
  /\ \E c \in Seen :
       \/ client.cached = {} /\ Fetched(c, c, seconds)
       \/ \E old \in client.cached : Fetched(c, c, old.at)
  /\ UNCHANGED <<failures, refused>>

\* 200 with the content, or 304 where the ETag sent is the content's: the
\* cached content again.  Both are stamped with the time of the answer.
Success ==
  /\ Answered
  /\ \E c \in Seen :
       \/ Fetched(c, c, seconds)
       \/ \E old \in client.cached : old.etag = c /\ Fetched(old.content, c, seconds)
  /\ UNCHANGED <<failures, refused>>

\* _write_cache: the content file, then the metadata file, each in place; that
\* the system refuses one of the writes is left out.
WriteBody ==
  /\ client.at = "body"
  /\ \E entry \in client.fetched : body' = entry.content
  /\ client' = [client EXCEPT !.at = "metadata"]
  /\ UNCHANGED <<source, metadata, counters, result, fetches, kills, split>>

WriteMetadata ==
  /\ client.at = "metadata"
  /\ \E entry \in client.fetched :
       /\ metadata' = [etag |-> entry.etag, at |-> entry.at, asked |-> entry.asked]
       /\ result' = {entry}
  /\ failures' = 0 /\ refused' = 0
  /\ client' = Resting
  /\ UNCHANGED <<source, body, requests, fetches, kills, split>>

\* The process is killed; a write on its way leaves a torn file.  The next
\* process starts with fresh counters.
KillClient ==
  /\ client.at # "idle" /\ kills < MaxKills
  /\ kills' = kills + 1
  /\ \/ client.at # "metadata" /\ UNCHANGED <<disk, split>>
     \/ client.at = "body" /\ body' = TornFile /\ split' = TRUE /\ UNCHANGED metadata
     \/ client.at = "metadata" /\ metadata' = TornFile /\ split' = TRUE /\ UNCHANGED body
     \/ client.at = "metadata" /\ split' = TRUE /\ UNCHANGED disk
  /\ client' = Resting
  /\ requests' = 0 /\ failures' = 0 /\ refused' = 0
  /\ UNCHANGED <<source, result, fetches>>

FetchNext ==
  \/ Second \/ SourceChanges
  \/ HitCache \/ BeginFetch \/ SendRequest \/ BudgetSpent \/ TransportFails
  \/ Refused \/ ServerError \/ ClientError \/ Success
  \/ WriteBody \/ WriteMetadata \/ KillClient

FetchSpec == FetchInit /\ [][FetchNext]_fetchVars
-----------------------------------------------------------------------------
(* Properties *)

Entries ==
  [content : Contents \cup {TornFile}, etag : Contents, at : Times, asked : Times]

Clients ==
  [at : {"idle", "ask", "wait", "body", "metadata"}, cached : SUBSET Entries,
   fetched : SUBSET Entries, attempts : 0..MaxRetries, asked : Times]

\* Types of the variables; there is one cached entry at most, and one fetched.
FetchTypeOK ==
  /\ seconds \in Times /\ served \in Contents
  /\ history \in [Times -> SUBSET Contents]
  /\ body \in Contents \cup {NoFile, TornFile}
  /\ metadata \in {NoFile, TornFile} \cup Stamps
  /\ client \in Clients
  /\ \A x, y \in client.cached : x = y
  /\ \A x, y \in client.fetched : x = y
  /\ \A x, y \in result : x = y
  /\ requests \in 0..RequestBudget
  /\ client.at = "wait" => requests < RequestBudget
  /\ failures \in Nat /\ refused \in Nat
  /\ result \subseteq Entries
  /\ fetches \in 0..MaxFetches /\ kills \in 0..MaxKills
  /\ split \in BOOLEAN

\* Evidence is dated when it was true: the payload a fetch returns, from the
\* source or from the cache, is whole and was served between the request that
\* confirmed it and its captured_at, across any number of fetches, reverted
\* contents and restarts.  The one exception is a process killed between or
\* inside the two writes of the cache: it leaves new or torn content under the
\* old entry's time and ETag, which is returned as it is while it is fresh and
\* is confirmed by every 304 after that.
FetchIsTrue ==
  ~split =>
    \A r \in result : \E t \in r.asked..r.at : r.content \in history[t]

\* A source that refuses is left alone: the breaker is looked at only when a
\* fetch begins, so a process sends at most the threshold and one fetch's
\* retries into refusals without a success in between.
HostIsSpared == refused <= CircuitThreshold + MaxRetries
=============================================================================

------------------------------ MODULE KeyCache ------------------------------
(***************************************************************************)
(* Token verification of internal/jwtverify: the JWKS cache with its TTL,  *)
(* the refresh that concurrent requests share, and the throttle on         *)
(* refreshes for an unknown kid.  A request is a Verify of a token, or the *)
(* Ready of GET /readyz, and takes one critical section of the cache per   *)
(* step.  Signature and claims depend on the token alone: their verdict is *)
(* a choice.                                                               *)
(***************************************************************************)
EXTENDS Integers, FiniteSets

CONSTANTS
  Request,          \* request goroutines
  Kid,              \* key ids
  NoKid,            \* the empty kid of Ready
  CacheTTL,         \* Config.CacheTTL
  RefreshInterval,  \* unknownKidRefreshInterval
  MaxClock          \* bound on the clock

ASSUME KeyCacheAssumption ==
  /\ {CacheTTL, RefreshInterval, MaxClock} \subseteq Nat \ {0}
  /\ NoKid \notin Kid

Never == -1   \* the zero time.Time

VARIABLES
  clock,
  keys, fetchedAt, lastAttempt,  \* keyCache: set of kids, and its two times
  inflight, waiters,             \* keyCache: the shared refresh
  pc, kid, start,                \* per request: step, kid, the time it read first
  shared,                        \* observer: how the refresh a request waited for ended
  answer                         \* observer: what the request returned, on which grounds

cache == <<keys, fetchedAt, lastAttempt, inflight, waiters>>
vars == <<clock, cache, pc, kid, start, shared, answer>>

NoAnswer == [what |-> "none", grounds |-> "none"]

\* The types of the state; no time that was read is ahead of the clock.
TypeOK ==
  /\ clock \in 0..MaxClock
  /\ keys \subseteq Kid
  /\ fetchedAt \in Never..clock /\ lastAttempt \in Never..clock
  /\ inflight \in BOOLEAN
  /\ waiters \subseteq Request
  /\ pc \in [Request -> {"idle", "get", "may", "stale", "unknown", "fetch", "wait", "refreshed", "failed"}]
  /\ kid \in [Request -> Kid \cup {NoKid}]
  /\ start \in [Request -> 0..clock]
  /\ shared \in [Request -> {"none", "ok", "failed"}]
  /\ answer \in [Request ->
       [what : {"none", "accepted", "ready", "unauthenticated", "unavailable"},
        grounds : {"none", "fresh", "misled", "stale"}]]

Init ==
  /\ clock = 0
  /\ keys = {} /\ fetchedAt = Never /\ lastAttempt = Never
  /\ inflight = FALSE /\ waiters = {}
  /\ pc = [r \in Request |-> "idle"]
  /\ kid = [r \in Request |-> NoKid]
  /\ start = [r \in Request |-> 0]
  /\ shared = [r \in Request |-> "none"]
  /\ answer = [r \in Request |-> NoAnswer]

Tick ==
  /\ clock < MaxClock
  /\ clock' = clock + 1
  /\ UNCHANGED <<cache, pc, kid, start, shared, answer>>

-----------------------------------------------------------------------------
\* keyCache.get.
Fresh(now) == fetchedAt # Never /\ now - fetchedAt < CacheTTL
Present(r) == kid[r] \in keys

Goto(r, step) == pc' = [pc EXCEPT ![r] = step]

\* On what a request is granted: a key set that was fresh when it came in, one that it
\* found after waiting for a refresh that failed, or a stale one.
Grounds(r) ==
  CASE Fresh(start[r])                           -> "fresh"
    [] ~Fresh(start[r]) /\ shared[r] = "failed" -> "misled"
    [] OTHER                                     -> "stale"

Return(r, what) ==
  /\ Goto(r, "idle")
  /\ kid' = [kid EXCEPT ![r] = NoKid]
  /\ start' = [start EXCEPT ![r] = 0]
  /\ shared' = [shared EXCEPT ![r] = "none"]
  /\ answer' = [answer EXCEPT ![r] =
       [what |-> what, grounds |-> IF what \in {"accepted", "ready"} THEN Grounds(r) ELSE "none"]]

\* Verdicts that depend on the token alone: the signature under a key of that kid, and
\* issuer, audience, subject and times of the claims.
verifySignature == BOOLEAN
checkClaims == BOOLEAN

\* The key is found: signature, then claims decide.  Ready needs no key.
KeyFound(r) ==
  IF kid[r] = NoKid THEN Return(r, "ready")
  ELSE \E signed \in verifySignature, good \in checkClaims :
         Return(r, IF signed /\ good THEN "accepted" ELSE "unauthenticated")

\* What a document of the provider can yield: usable keys, at least one.
fetchJWKS == SUBSET Kid \ {{}}

\* A well-formed token of a supported algorithm with a kid, or a readiness probe.
Start(r, k) ==
  /\ pc[r] = "idle"
  /\ Goto(r, "get")
  /\ kid' = [kid EXCEPT ![r] = k]
  /\ start' = [start EXCEPT ![r] = clock]
  /\ answer' = [answer EXCEPT ![r] = NoAnswer]
  /\ UNCHANGED <<clock, cache, shared>>

\* The first lookup, with the time read before it.
Get(r) ==
  /\ pc[r] = "get"
  /\ \/ Fresh(start[r]) /\ (Present(r) \/ kid[r] = NoKid) /\ KeyFound(r)
     \/ /\ Fresh(start[r]) /\ ~Present(r) /\ kid[r] # NoKid
        /\ Goto(r, "may")
        /\ UNCHANGED <<kid, start, shared, answer>>
     \/ ~Fresh(start[r]) /\ Goto(r, "stale") /\ UNCHANGED <<kid, start, shared, answer>>
  /\ UNCHANGED <<clock, cache>>

\* Weakened form: any time after the last attempt will do.
Throttled_Never(r) == FALSE

Throttled(r) == lastAttempt # Never /\ start[r] - lastAttempt < RefreshInterval

\* mayRefresh: a fresh cache without the kid.
MayRefresh(r) ==
  /\ pc[r] = "may"
  /\ \/ Throttled(r) /\ Return(r, "unauthenticated")
     \/ ~Throttled(r) /\ Goto(r, "unknown") /\ UNCHANGED <<kid, start, shared, answer>>
  /\ UNCHANGED <<clock, cache>>

-----------------------------------------------------------------------------
\* Weakened form: the flag is looked at, and set after the fetch has begun.
RefreshLead_Unmarked(r) ==
  /\ pc[r] \in {"stale", "unknown"}
  /\ ~inflight
  /\ lastAttempt' = clock
  /\ Goto(r, "fetch")
  /\ UNCHANGED <<clock, keys, fetchedAt, inflight, waiters, kid, start, shared, answer>>

\* refresh, the request that does the fetch.
RefreshLead(r) ==
  /\ pc[r] \in {"stale", "unknown"}
  /\ ~inflight
  /\ inflight' = TRUE
  /\ lastAttempt' = clock
  /\ Goto(r, "fetch")
  /\ UNCHANGED <<clock, keys, fetchedAt, waiters, kid, start, shared, answer>>

\* refresh, a request that waits for the one under way.
RefreshJoin(r) ==
  /\ pc[r] \in {"stale", "unknown"}
  /\ inflight
  /\ waiters' = waiters \cup {r}
  /\ Goto(r, "wait")
  /\ UNCHANGED <<clock, keys, fetchedAt, lastAttempt, inflight, kid, start, shared, answer>>

\* Whoever waits is woken, and is told of no error.
Wake(r, step, outcome) ==
  /\ pc' = [q \in Request |-> IF q = r THEN step
                              ELSE IF pc[q] = "wait" THEN "refreshed" ELSE pc[q]]
  /\ shared' = [q \in Request |-> IF pc[q] = "wait" THEN outcome ELSE shared[q]]
  /\ waiters' = {}

\* The provider answers with usable keys (an empty set is an error).
FetchOK(r, fetched) ==
  /\ pc[r] = "fetch"
  /\ inflight' = FALSE
  /\ keys' = fetched
  /\ fetchedAt' = clock
  /\ Wake(r, "refreshed", "ok")
  /\ UNCHANGED <<clock, lastAttempt, kid, start, answer>>

\* The fetch fails: unreachable, bad status, bad document, or the caller gave up.
FetchFails(r) ==
  /\ pc[r] = "fetch"
  /\ inflight' = FALSE
  /\ Wake(r, "failed", "failed")
  /\ UNCHANGED <<clock, keys, fetchedAt, lastAttempt, kid, start, answer>>

\* A waiter's request is cancelled; its channel stays in waiters.
WaiterGivesUp(r) ==
  /\ pc[r] = "wait"
  /\ Goto(r, "failed")
  /\ UNCHANGED <<clock, cache, kid, start, shared, answer>>

\* keyFor and Ready after refresh returned nil.
AfterRefresh(r) ==
  /\ pc[r] = "refreshed"
  /\ \/ (Present(r) \/ kid[r] = NoKid) /\ KeyFound(r)
     \/ ~Present(r) /\ kid[r] # NoKid /\ Return(r, "unauthenticated")
  /\ UNCHANGED <<clock, cache>>

\* Weakened form: an entry that is there is good enough.
StillGood_Stale(r) == Present(r)

\* After an error only an entry that is fresh now will do.
StillGood(r) == Present(r) /\ Fresh(clock)

\* Weakened form: tries again until the provider answers.
AfterFailure_Retries(r) ==
  /\ pc[r] = "failed"
  /\ \/ StillGood(r) /\ KeyFound(r)
     \/ ~StillGood(r) /\ Goto(r, "stale") /\ UNCHANGED <<kid, start, shared, answer>>
  /\ UNCHANGED <<clock, cache>>

AfterFailure(r) ==
  /\ pc[r] = "failed"
  /\ \/ StillGood(r) /\ KeyFound(r)
     \/ ~StillGood(r) /\ Return(r, "unavailable")
  /\ UNCHANGED <<clock, cache>>

-----------------------------------------------------------------------------
Step(r) ==
  \/ Get(r) \/ MayRefresh(r) \/ RefreshLead(r) \/ RefreshJoin(r)
  \/ (\E fetched \in fetchJWKS : FetchOK(r, fetched)) \/ FetchFails(r)
  \/ AfterRefresh(r) \/ AfterFailure(r)

Next ==
  \/ Tick
  \/ \E r \in Request :
       \/ Step(r) \/ WaiterGivesUp(r)
       \/ \E k \in Kid \cup {NoKid} : Start(r, k)

Spec == Init /\ [][Next]_vars

\* A request that can go on does, and a fetch ends: the HTTP client has a timeout
\* (verify.go:105).  Nobody has to cancel, and the clock need not move.
FairSpec == Spec /\ \A r \in Request : WF_vars(Step(r))

-----------------------------------------------------------------------------
\* jwks.go:64: one fetch at a time.  The flag is up exactly while one request fetches,
\* and whoever waits is on the list that this request will wake.
SingleFlight ==
  /\ Cardinality({r \in Request : pc[r] = "fetch"}) = IF inflight THEN 1 ELSE 0
  /\ \A r \in Request : pc[r] = "wait" => inflight /\ r \in waiters

\* The only way around the expiry of the key set: whoever waits for a refresh that
\* failed is told of no error, and takes what is there.  Nobody else is granted
\* anything, a token or a probe, on a key set that had expired when it came in.
FreshOrMisled ==
  \A r \in Request : answer[r].grounds # "stale"

\* verify.go:202, "Fail closed. A stale cache entry is NOT good enough": a token is
\* accepted only under a key set that had not expired when the request came in.
FailsClosed ==
  \A r \in Request : answer[r].what = "accepted" => answer[r].grounds = "fresh"

\* jwks.go:25: once a refresh was attempted, a request that comes in during the next
\* interval with an unknown kid starts none.  Requests that were in earlier still may.
UnknownKidThrottled ==
  [][\A r \in Request :
       /\ RefreshLead(r) /\ pc[r] = "unknown"
       /\ lastAttempt # Never /\ clock - lastAttempt < RefreshInterval
       => start[r] <= lastAttempt]_vars

\* A request is answered, however refreshes end and whoever gives up.
RequestAnswered == \A r \in Request : pc[r] # "idle" ~> pc[r] = "idle"
=============================================================================

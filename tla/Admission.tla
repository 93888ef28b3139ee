----------------------------- MODULE Admission ------------------------------
(***************************************************************************)
(* The middlewares in front of the v1 routes, for the requests of one API   *)
(* key: authMiddleware, the two rate limiters of middleware/quota.ts (in    *)
(* memory, or on Redis counters that expire), quotaMiddleware with its       *)
(* read-through Redis cache, and bumpQuotaCache after a charge.              *)
(*                                                                          *)
(* A "chat" request passes every middleware; a "voice" upload passes         *)
(* rateLimitRpmMiddleware and the hourly window of its own route; a "child"  *)
(* is a chat call with the header that marks the voice route's own calls,    *)
(* whoever sends it: the limiter neither counts it nor gives it a slot.      *)
(***************************************************************************)
EXTENDS Integers, FiniteSets

CONSTANTS
  Requests,       \* requests sent with the key
  Mixes,          \* the routes they may be for
  Rpm,            \* plan.requestsPerMinute
  MaxConcurrent,  \* plan.maxConcurrent
  VoicePerHour,   \* VOICE_RATE_LIMIT_PER_HOUR
  Quota,          \* effectiveMonthlyQuota, 0 for unlimited
  Cost,           \* tokens a completed request is charged
  MaxExpiries     \* bound: expiries of the concurrency counter

ASSUME PlanAssumption == /\ Rpm \in Nat \ {0} /\ MaxConcurrent \in Nat \ {0}
                         /\ VoicePerHour \in Nat /\ Quota \in Nat /\ Cost \in Nat
ASSUME AdmissionBounds == MaxExpiries \in Nat /\ IsFiniteSet(Requests)
Kinds == {"chat", "voice", "child"}
ASSUME MixAssumption == Mixes \subseteq [Requests -> Kinds]

NoCache == -1
Steps == {"idle", "rpm", "conc", "expire", "undo", "quota", "quotaRead",
          "quotaSet", "voiceWindow", "handler", "bumpExists", "bumpIncr",
          "closing", "refused", "done"}

VARIABLES
  redisEnabled,  \* REDIS_ENABLED, fixed at start-up
  kind,          \* the route each request is for
  at,            \* where each request is
  rpmCount,      \* requests counted in the current window
  voiceCount,    \* entry of voiceWindow
  conc,          \* memoryConc entry, or the Redis counter conc:<key>
  concKey,       \* the Redis key of the counter: absent, plain or expiring
  slot,          \* requests whose release callback has yet to run
  lost,          \* requests whose increment went with an expired counter
  leaked,        \* requests a failed Redis command has left in the counter
  unset,         \* the counter's last expire was not executed
  expiries,
  used,          \* quotaLedger.tokensUsed
  charged,       \* requests the ledger has been charged for
  job,           \* each request's persistUsageEvent: its refresh of the cache
  cache,         \* quota:<customer>, or NoCache
  cacheTtl,      \* the cache entry has an expiry
  figure         \* usedStr of a request, tokensUsed of its usage job

counterVars == <<conc, concKey, slot, lost, leaked, unset>>
limitVars == <<rpmCount, voiceCount, counterVars>>
quotaVars == <<used, charged, job, cache, cacheTtl, figure>>
admissionVars == <<redisEnabled, kind, at, limitVars, quotaVars, expiries>>

AdmissionTypeOK ==
  /\ redisEnabled \in BOOLEAN /\ kind \in [Requests -> Kinds]
  /\ at \in [Requests -> Steps]
  /\ expiries \in 0 .. MaxExpiries
  /\ rpmCount \in 0 .. Rpm + 1
  /\ voiceCount \in 0 .. VoicePerHour
  /\ conc \in -Cardinality(Requests) .. Cardinality(Requests)
  /\ concKey \in {"absent", "plain", "expiring"} /\ cacheTtl \in BOOLEAN
  /\ slot \subseteq Requests /\ lost \subseteq Requests
  /\ leaked \subseteq Requests /\ unset \in BOOLEAN
  /\ used \in Nat /\ cache \in Nat \cup {NoCache}
  /\ charged \subseteq Requests /\ job \in [Requests -> {"none", "stored", "read"}]
  /\ figure \in [Requests -> Nat]

AdmissionInit ==
  /\ redisEnabled \in BOOLEAN /\ kind \in Mixes
  /\ at = [r \in Requests |-> "idle"]
  /\ expiries = 0
  /\ rpmCount = 0 /\ voiceCount = 0
  /\ conc = 0 /\ concKey = "absent"
  /\ slot = {} /\ lost = {} /\ leaked = {} /\ unset = FALSE
  /\ used = 0 /\ cache = NoCache /\ cacheTtl = FALSE
  /\ charged = {} /\ job = [r \in Requests |-> "none"]
  /\ figure = [r \in Requests |-> 0]

Move(r, from, to) == at[r] = from /\ at' = [at EXCEPT ![r] = to]

-----------------------------------------------------------------------------
(* Authentication. *)

\* 401 for a missing, unknown or revoked key, 403 without an active
\* subscription, 503 when the database does not answer; or the next middleware,
\* which for a call with the orchestration header leaves out the rate limiter.
AuthMiddleware(r) ==
  /\ \/ Move(r, "idle", "refused")
     \/ Move(r, "idle", IF kind[r] = "child" THEN "quota" ELSE "rpm")
  /\ UNCHANGED <<redisEnabled, kind, limitVars, quotaVars, expiries>>

-----------------------------------------------------------------------------
(* Rate limits. *)

\* The count of the window, in memory or in the Redis bucket of this minute,
\* which may have begun since the last request; counts over the limit are alike.
\* Redis failing is a 503, and a bucket's pexpire only cleans up.
RateLimitRpm(r) ==
  /\ \E n \in {1, rpmCount + 1} :
       /\ rpmCount' = IF n > Rpm THEN Rpm + 1 ELSE n
       /\ \/ (n > Rpm \/ redisEnabled) /\ Move(r, "rpm", "refused")
          \/ n <= Rpm /\ Move(r, "rpm", IF kind[r] = "voice" THEN "voiceWindow" ELSE "conc")
  /\ UNCHANGED <<redisEnabled, kind, voiceCount, counterVars, quotaVars, expiries>>

VoiceWindow(r) ==
  /\ IF voiceCount < VoicePerHour
     THEN Move(r, "voiceWindow", "handler") /\ voiceCount' = voiceCount + 1
     ELSE Move(r, "voiceWindow", "refused") /\ UNCHANGED voiceCount
  /\ UNCHANGED <<redisEnabled, kind, rpmCount, counterVars, quotaVars, expiries>>

MemoryAcquireConc(r) ==
  /\ ~redisEnabled
  /\ IF conc >= MaxConcurrent
     THEN Move(r, "conc", "refused") /\ UNCHANGED <<conc, slot>>
     ELSE /\ Move(r, "conc", "quota")
          /\ conc' = conc + 1
          /\ slot' = slot \cup {r}
  /\ UNCHANGED <<redisEnabled, kind, rpmCount, voiceCount, concKey, lost, leaked,
                 unset, quotaVars, expiries>>

\* incr and decr create the key, without an expiry, when it is not there.
Touched == IF concKey = "absent" THEN "plain" ELSE concKey

\* What follows the increment to n: over the limit it is undone.
AfterIncr(n) == IF n > MaxConcurrent THEN "undo" ELSE "quota"

\* Mutant: only the increment that creates the key sets its expiry.
RedisAcquireNewKey(r) ==
  /\ redisEnabled
  /\ conc' = conc + 1 /\ concKey' = Touched
  /\ Move(r, "conc", IF concKey = "absent" THEN "expire" ELSE AfterIncr(conc + 1))
  /\ slot' = IF at'[r] = "quota" THEN slot \cup {r} ELSE slot
  /\ UNCHANGED <<redisEnabled, kind, rpmCount, voiceCount, lost, leaked, unset,
                 quotaVars, expiries>>

RedisAcquireConc(r) ==
  /\ redisEnabled
  /\ conc' = conc + 1 /\ concKey' = Touched
  /\ Move(r, "conc", IF conc + 1 = 1 THEN "expire" ELSE AfterIncr(conc + 1))
  /\ slot' = IF at'[r] = "quota" THEN slot \cup {r} ELSE slot
  /\ UNCHANGED <<redisEnabled, kind, rpmCount, voiceCount, lost, leaked, unset,
                 quotaVars, expiries>>

\* incr rejects, executed or not: 503, and nobody takes the increment back.
RedisIncrFails(r) ==
  /\ redisEnabled
  /\ Move(r, "conc", "refused")
  /\ \/ UNCHANGED counterVars
     \/ /\ conc' = conc + 1 /\ concKey' = Touched
        /\ leaked' = leaked \cup {r}
        /\ unset' = (unset \/ conc + 1 = 1)
        /\ UNCHANGED <<slot, lost>>
  /\ UNCHANGED <<redisEnabled, kind, rpmCount, voiceCount, quotaVars, expiries>>

\* expire does nothing to a key that is gone.
WithExpiry == IF concKey = "absent" THEN "absent" ELSE "expiring"

ExpireConc(r) ==
  /\ Move(r, "expire", AfterIncr(1))
  /\ concKey' = WithExpiry /\ unset' = FALSE
  /\ slot' = slot \cup {r}
  /\ UNCHANGED <<redisEnabled, kind, rpmCount, voiceCount, conc, lost, leaked,
                 quotaVars, expiries>>

\* A failed command of r leaves its increment in the counter, if it is there.
Leak(r) == leaked' = leaked \cup ({r} \ lost)

\* expire rejects, executed or not: 503, no slot, and the increment stays.
ExpireFails(r) ==
  /\ Move(r, "expire", "refused")
  /\ \/ concKey' = WithExpiry /\ UNCHANGED unset
     \/ UNCHANGED concKey /\ unset' = TRUE
  /\ Leak(r)
  /\ UNCHANGED <<redisEnabled, kind, rpmCount, voiceCount, conc, slot, lost,
                 quotaVars, expiries>>

\* One decr, which Redis may fail to execute.
Decr(r) == \/ conc' = conc - 1 /\ concKey' = Touched /\ UNCHANGED leaked
           \/ Leak(r) /\ UNCHANGED <<conc, concKey>>

\* The rejected request takes its increment back.
UndoConc(r) ==
  /\ Move(r, "undo", "refused")
  /\ Decr(r)
  /\ UNCHANGED <<redisEnabled, kind, rpmCount, voiceCount, slot, lost, unset,
                 quotaVars, expiries>>

\* The release callback: once per request.
ReleaseSlot(r) ==
  /\ IF r \notin slot THEN UNCHANGED <<conc, concKey, leaked>>
     ELSE IF redisEnabled THEN Decr(r)
     ELSE conc' = (IF conc > 1 THEN conc - 1 ELSE 0) /\ UNCHANGED <<concKey, leaked>>
  /\ slot' = slot \ {r}
  /\ UNCHANGED <<rpmCount, voiceCount, lost, unset>>

\* Redis drops the counter 120 seconds after its expiry was set, whoever still
\* holds a slot.
CounterExpires ==
  /\ concKey = "expiring" /\ expiries < MaxExpiries
  /\ expiries' = expiries + 1
  /\ conc' = 0 /\ concKey' = "absent"
  /\ lost' = lost \cup {r \in Requests : r \in slot \/ at[r] \in {"expire", "undo"}}
  /\ leaked' = {} /\ unset' = FALSE
  /\ UNCHANGED <<redisEnabled, kind, at, rpmCount, voiceCount, slot,
                 quotaVars>>

-----------------------------------------------------------------------------
(* The monthly quota pre-check and its cache. *)

\* The verdict on the figure n; the 429 is sent and the slot released.
QuotaVerdict(n) == IF Quota > 0 /\ n >= Quota THEN "closing" ELSE "handler"

\* An unlimited plan is let through; in memory mode the ledger is read; on
\* Redis the cached figure decides, and without one the ledger is read.
QuotaMiddleware(r) ==
  /\ Move(r, "quota",
          CASE Quota = 0 -> "handler"
            [] Quota > 0 /\ ~redisEnabled -> QuotaVerdict(used)
            [] Quota > 0 /\ redisEnabled /\ cache = NoCache -> "quotaRead"
            [] OTHER -> QuotaVerdict(cache))
  /\ UNCHANGED <<redisEnabled, kind, limitVars, quotaVars, expiries>>

ReadLedger(r) ==
  /\ Move(r, "quotaRead", "quotaSet")
  /\ figure' = [figure EXCEPT ![r] = used]
  /\ UNCHANGED <<redisEnabled, kind, limitVars, used, charged, job, cache, cacheTtl,
                 expiries>>

\* set ... EX 60.
FillCache(r) ==
  /\ Move(r, "quotaSet", QuotaVerdict(figure[r]))
  /\ cache' = figure[r] /\ cacheTtl' = TRUE
  /\ figure' = [figure EXCEPT ![r] = 0]
  /\ UNCHANGED <<redisEnabled, kind, limitVars, used, charged, job, expiries>>

\* Redis or the database does not answer: 503.
QuotaUnavailable(r) ==
  /\ \E from \in {"quota", "quotaRead", "quotaSet"} : Move(r, from, "closing")
  /\ figure' = [figure EXCEPT ![r] = 0]
  /\ UNCHANGED <<redisEnabled, kind, limitVars, used, charged, job, cache, cacheTtl,
                 expiries>>

CacheExpires ==
  /\ cacheTtl
  /\ cache' = NoCache /\ cacheTtl' = FALSE
  /\ UNCHANGED <<redisEnabled, kind, at, limitVars, used, charged, job, figure,
                 expiries>>

\* The handler has charged the ledger, which refuses what does not fit (module
\* QuotaLedger), has stored the usage job, and goes on to bumpQuotaCache.
Charge(r) ==
  /\ Quota > 0 => used + Cost <= Quota
  /\ Move(r, "handler", IF redisEnabled THEN "bumpExists" ELSE "closing")
  /\ used' = used + Cost
  /\ charged' = charged \cup {r}
  /\ job' = IF redisEnabled THEN [job EXCEPT ![r] = "stored"] ELSE job
  /\ UNCHANGED <<redisEnabled, kind, limitVars, cache, cacheTtl, figure, expiries>>

\* It has failed, or has nothing to charge.
EndUncharged(r) ==
  /\ Move(r, "handler", "closing")
  /\ UNCHANGED <<redisEnabled, kind, limitVars, quotaVars, expiries>>

\* exists; it may fail, as incrby may, and the handler with it.
BumpExists(r) ==
  /\ \/ cache # NoCache /\ Move(r, "bumpExists", "bumpIncr")
     \/ Move(r, "bumpExists", "closing")
  /\ UNCHANGED <<redisEnabled, kind, limitVars, quotaVars, expiries>>

\* incrby: on a key that has expired meanwhile it starts from zero and sets
\* no expiry.
BumpIncr(r) ==
  /\ Move(r, "bumpIncr", "closing")
  /\ cache' \in {cache, (IF cache = NoCache THEN 0 ELSE cache) + Cost}
  /\ UNCHANGED <<redisEnabled, kind, limitVars, used, charged, job, cacheTtl, figure,
                 expiries>>

\* The usage worker, once it has persisted the request's event: it reads the
\* ledger and puts its figure in the cache (set ... EX 300).
UsageReads(r) ==
  /\ job[r] = "stored" /\ job' = [job EXCEPT ![r] = "read"]
  /\ figure' = [figure EXCEPT ![r] = used]
  /\ UNCHANGED <<redisEnabled, kind, at, limitVars, used, charged, cache, cacheTtl,
                 expiries>>

UsageSets(r) ==
  /\ job[r] = "read" /\ job' = [job EXCEPT ![r] = "none"]
  /\ cache' = figure[r] /\ cacheTtl' = TRUE
  /\ figure' = [figure EXCEPT ![r] = 0]
  /\ UNCHANGED <<redisEnabled, kind, at, limitVars, used, charged, expiries>>

\* The invoice worker opens a period, or an operator resets the usage
\* (adjustCustomerQuotaAction); neither touches the cache.
OpenPeriod ==
  /\ used > 0 /\ used' = 0
  /\ UNCHANGED <<redisEnabled, kind, at, limitVars, charged, job, cache, cacheTtl,
                 figure, expiries>>

-----------------------------------------------------------------------------
(* The end of a request. *)

Finish(r) ==
  /\ Move(r, "closing", "done")
  /\ ReleaseSlot(r)
  /\ UNCHANGED <<redisEnabled, kind, quotaVars, expiries>>

\* The client goes away while the handler runs: the slot is free at once, the
\* handler goes on.
Disconnect(r) ==
  /\ at[r] \in {"handler", "bumpExists", "bumpIncr"} /\ r \in slot
  /\ ReleaseSlot(r)
  /\ UNCHANGED <<redisEnabled, kind, at, quotaVars, expiries>>

Middleware(r) ==
  \/ AuthMiddleware(r) \/ RateLimitRpm(r) \/ VoiceWindow(r)
  \/ MemoryAcquireConc(r) \/ RedisAcquireConc(r) \/ RedisIncrFails(r)
  \/ ExpireConc(r) \/ ExpireFails(r) \/ UndoConc(r)
  \/ QuotaMiddleware(r) \/ ReadLedger(r) \/ FillCache(r) \/ QuotaUnavailable(r)
  \/ BumpExists(r) \/ BumpIncr(r) \/ Finish(r)

Environment ==
  \/ CounterExpires \/ CacheExpires \/ OpenPeriod
  \/ \E r \in Requests : UsageReads(r) \/ UsageSets(r)

-----------------------------------------------------------------------------

\* The key's connected requests that take a slot stay within maxConcurrent,
\* except for as many as were holding one when the Redis counter expired under
\* them (rateLimitMiddleware sets a 120 second expiry, a generation may take
\* longer).  A request with the orchestration header takes none.
ConcurrencyBounded == Cardinality(slot) <= MaxConcurrent + Cardinality(lost)

\* Requests whose increment is in the counter: it has not gone with an expired
\* one, and they will take it back, or a failed command keeps them from it.
Counted == leaked \cup {r \in Requests \ lost : r \in slot \/ at[r] \in {"expire", "undo"}}

\* The counter is never higher than the requests that are counted in it, so
\* that a key loses a slot only to a Redis command that failed: not to a refusal
\* that takes its increment back, a client that leaves, or both ends of a
\* response calling the release.
CounterHasReason == conc <= Cardinality(Counted)

\* A counter above zero has an expiry, or the request that raised it from zero
\* is about to set one, or Redis failed on that one command: so any other
\* decrement that is lost costs the key a slot for two minutes and not for good.
PositiveCounterExpires ==
  redisEnabled /\ conc > 0 =>
    concKey = "expiring" \/ unset \/ \E r \in Requests : at[r] = "expire"

\* The cached figure may be too high, because a charge was counted by the fill
\* and bumped again or a period has been opened; such a figure expires.  The one
\* that does not, left by an increment after the key had expired, counts no
\* charge twice.
StickyFigureCounted ==
  cache # NoCache /\ ~cacheTtl => cache <= Cost * Cardinality(charged)

\* The limits of middleware/quota.ts and quotaCheck.ts: no more requests of a key
\* hold a slot than its plan allows, but for slots a Redis expiry lost; the
\* counter is above them, or without an expiry, only through a Redis command
\* that failed; and a cached figure that does not expire counts charges once.
LimitsHold == /\ ConcurrencyBounded /\ CounterHasReason /\ PositiveCounterExpires
              /\ StickyFigureCounted
=============================================================================

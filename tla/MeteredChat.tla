---------------------------- MODULE MeteredChat -----------------------------
(***************************************************************************)
(* POST /v1/chat/completions from admission to settlement, for the requests *)
(* of one customer that run concurrently: the handler of routes/v1.ts with  *)
(* finalizeAndMeter and its catch block, the execution records of           *)
(* execution.ts, the quota ledger (module QuotaLedger), the usage queue and *)
(* the usage worker, usage receipts, and the invoice worker's roll-over;    *)
(* and the shorter handler of routes/anusandhan.ts, which meters without a  *)
(* reservation and shares everything behind it.                             *)
(*                                                                          *)
(* Between two awaits the handler of one request may interleave with any    *)
(* other; every await may fail at the places named in Faults; the gateway   *)
(* process may crash, and nothing in the code resumes what it was doing.    *)
(***************************************************************************)
EXTENDS QuotaLedger

CONSTANTS
  Queued,        \* requests of a gateway with REDIS_ENABLED: usage through BullMQ;
                 \* for the others it is written inline
  Clients,       \* the handlers in use: "v1", "anusandhan"
  Grants,        \* bonus tokens an operator may add to the quota at a time
  Faults,        \* handler steps whose await may reject
  MaxTries,      \* BullMQ "attempts" of a usage job
  MaxCrashes,    \* bound: gateway crashes
  MaxPeriods     \* bound: period roll-overs and adjustments of the quota

ASSUME QueuedAssumption == Queued \subseteq Requests
ASSUME ClientsAssumption == Clients \subseteq {"v1", "anusandhan"}
ASSUME GrantsAssumption == Grants \subseteq Nat \ {0}
ASSUME BoundsAssumption == /\ MaxTries \in Nat \ {0}
                           /\ MaxCrashes \in Nat
                           /\ MaxPeriods \in Nat

\* The steps of the handler in the order of the code.  "release" to
\* "markAttempt" are the catch block.
HandlerSteps == {"quotaCheck", "create", "claimTrace", "reserve", "route",
                 "startAttempt", "generate", "finalize", "finalizeAttempt",
                 "commit", "enqueue", "receipt", "epilogue",
                 "release", "markFailed", "markAttempt"}
CatchSteps == {"release", "markFailed", "markAttempt"}
Ends == {"throttled", "done", "failed", "crashed"}
AllSteps == {"idle"} \cup HandlerSteps \cup Ends

Verdicts == {"SUCCEEDED", "FAILED", "REJECTED"}
JobStates == {"none", "waiting", "persisted", "receipted", "completed", "failed"}

VARIABLES
  pc,          \* where the handler of each request is
  client,      \* the handler that serves each request
  bonus,       \* Customer.quotaBonusTokens
  limit,       \* req.auth.monthlyTokenQuota, read at authentication
  held,        \* local reservedTokens > 0
  quotaError,  \* the caught error is a QuotaExceededError
  tokens,      \* local promptTokens + completionTokens
  status,      \* InferenceRequest.status
  attempt,     \* InferenceAttempt.status of attempt 1
  job,         \* the usage job of the request in the queue
  tries,       \* failed deliveries of that job
  events,      \* requests with a UsageEvent row
  receipt,     \* the status signed into the UsageReceipt
  crashes,     \* gateway crashes so far
  periods      \* roll-overs and adjustments so far

localVars == <<client, limit, held, quotaError, tokens>>
handlerVars == <<pc, localVars>>
recordVars == <<status, attempt>>
otherVars == <<job, tries, events, receipt, crashes, periods, bonus>>
vars == <<ledgerVars, handlerVars, recordVars, otherVars>>

TypeOK ==
  /\ LedgerTypeOK
  /\ pc \in [Requests -> AllSteps]
  /\ client \in [Requests -> {"v1", "anusandhan"}]
  /\ bonus \in Nat
  /\ limit \in [Requests -> Nat]
  /\ held \in [Requests -> BOOLEAN]
  /\ quotaError \in [Requests -> BOOLEAN]
  /\ tokens \in [Requests -> Nat]
  /\ status \in [Requests -> {"none", "QUEUED", "RUNNING"} \cup Verdicts]
  /\ attempt \in [Requests -> {"none", "RUNNING"} \cup Verdicts]
  /\ job \in [Requests -> JobStates]
  /\ tries \in [Requests -> 0 .. MaxTries]
  /\ events \subseteq Requests
  /\ receipt \in [Requests -> {"none", "QUEUED", "RUNNING"} \cup Verdicts]
  /\ crashes \in 0 .. MaxCrashes
  /\ periods \in 0 .. MaxPeriods

Init ==
  /\ LedgerInit
  /\ pc = [r \in Requests |-> "idle"]
  /\ client = [r \in Requests |-> "v1"]
  /\ bonus = 0
  /\ limit = [r \in Requests |-> 0]
  /\ held = [r \in Requests |-> FALSE]
  /\ quotaError = [r \in Requests |-> FALSE]
  /\ tokens = [r \in Requests |-> 0]
  /\ status = [r \in Requests |-> "none"]
  /\ attempt = [r \in Requests |-> "none"]
  /\ job = [r \in Requests |-> "none"]
  /\ tries = [r \in Requests |-> 0]
  /\ events = {}
  /\ receipt = [r \in Requests |-> "none"]
  /\ crashes = 0
  /\ periods = 0

-----------------------------------------------------------------------------
(* Admission. *)

Goto(r, from, to) == pc[r] = from /\ pc' = [pc EXCEPT ![r] = to]

\* An unlimited plan stays so; otherwise the bonus adds to the allotment.
EffectiveMonthlyQuota == IF Limit = 0 THEN 0 ELSE Limit + bonus

\* Authenticated at one of the two endpoints; the quota of this moment is the
\* one the request is held to.
Arrive(r) ==
  /\ Goto(r, "idle", "quotaCheck")
  /\ \E c \in Clients : client' = [client EXCEPT ![r] = c]
  /\ limit' = [limit EXCEPT ![r] = EffectiveMonthlyQuota]
  /\ UNCHANGED <<ledgerVars, held, quotaError, tokens, recordVars, otherVars>>

\* quotaMiddleware.  Without Redis it reads the ledger; with Redis it reads a
\* cached figure that may be of any age, so either verdict is possible.
QuotaMiddleware(r) ==
  /\ \/ /\ limit[r] > 0 /\ (r \in Queued \/ tokensUsed >= limit[r])
        /\ Goto(r, "quotaCheck", "throttled")
     \/ /\ limit[r] = 0 \/ r \in Queued \/ tokensUsed < limit[r]
        /\ Goto(r, "quotaCheck", "create")
  /\ UNCHANGED <<ledgerVars, localVars, recordVars, otherVars>>

CreateInferenceRequest(r) ==
  /\ client[r] = "v1"
  /\ Goto(r, "create", "claimTrace")
  /\ status' = [status EXCEPT ![r] = "QUEUED"]
  /\ UNCHANGED <<ledgerVars, localVars, attempt, otherVars>>

\* Anusandhan's handler makes the platform default ready and creates the row
\* (prepareAnusandhanLlmPool, createInferenceRequest); it has no trace, no reservation and no routing.
AcceptAnusandhan(r) ==
  /\ client[r] = "anusandhan"
  /\ Goto(r, "create", "startAttempt")
  /\ status' = [status EXCEPT ![r] = "QUEUED"]
  /\ UNCHANGED <<ledgerVars, localVars, attempt, otherVars>>

\* claimCoreTrace writes the trace session only, which is not modelled here.
ClaimTrace(r) ==
  /\ Goto(r, "claimTrace", IF limit[r] > 0 THEN "reserve" ELSE "route")
  /\ UNCHANGED <<ledgerVars, localVars, recordVars, otherVars>>

Reserve(r) ==
  /\ Goto(r, "reserve", "route")
  /\ ReserveQuota(r, limit[r])
  /\ held' = [held EXCEPT ![r] = TRUE]
  /\ UNCHANGED <<client, limit, quotaError, tokens, recordVars, otherVars>>

\* reserveQuota throws QuotaExceededError; nothing is held, so the catch block
\* goes straight to the execution record.
RejectOverQuota(r) ==
  /\ ~CanReserve(r, limit[r])
  /\ Goto(r, "reserve", "markFailed")
  /\ quotaError' = [quotaError EXCEPT ![r] = TRUE]
  /\ UNCHANGED <<ledgerVars, client, limit, held, tokens, recordVars, otherVars>>

-----------------------------------------------------------------------------
(* Execution. *)

\* resolveModelForRequest and getActivePricingVersion.
Route(r) ==
  /\ Goto(r, "route", "startAttempt")
  /\ UNCHANGED <<ledgerVars, localVars, recordVars, otherVars>>

StartAttempt(r) ==
  /\ Goto(r, "startAttempt", "generate")
  /\ status' = [status EXCEPT ![r] = "RUNNING"]
  /\ attempt' = [attempt EXCEPT ![r] = "RUNNING"]
  /\ UNCHANGED <<ledgerVars, localVars, otherVars>>

\* The chunk loop, streaming or not: the last counts that the engine reports or,
\* when their sum is zero, estimateChatTokens, which is at least one.
AnswerTokens(r) == \E n \in Actuals : tokens' = [tokens EXCEPT ![r] = n]

\* Retrieval, the call of generateStream and its answer.
Generate(r) ==
  /\ client[r] = "v1"
  /\ Goto(r, "generate", "finalize")
  /\ AnswerTokens(r)
  /\ UNCHANGED <<ledgerVars, client, limit, held, quotaError, recordVars, otherVars>>

\* The price lookup, a generation without streaming, and its own estimate of
\* an answer without usage, at least one token for prompt and answer each.
GenerateAnusandhan(r) ==
  /\ client[r] = "anusandhan"
  /\ Goto(r, "generate", "finalize")
  /\ \E n \in Actuals : tokens' = [tokens EXCEPT ![r] = n]
  /\ UNCHANGED <<ledgerVars, client, limit, held, quotaError, recordVars, otherVars>>

-----------------------------------------------------------------------------
(* finalizeAndMeter. *)

FinalizeSucceeded(r) ==
  /\ Goto(r, "finalize", "finalizeAttempt")
  /\ status' = [status EXCEPT ![r] = "SUCCEEDED"]
  /\ UNCHANGED <<ledgerVars, localVars, attempt, otherVars>>

FinalizeAttempt(r) ==
  /\ Goto(r, "finalizeAttempt", IF held[r] THEN "commit" ELSE "enqueue")
  /\ attempt' = [attempt EXCEPT ![r] = "SUCCEEDED"]
  /\ UNCHANGED <<ledgerVars, localVars, status, otherVars>>

Commit(r) ==
  /\ Goto(r, "commit", "enqueue")
  /\ CommitQuota(r, tokens[r])
  /\ UNCHANGED <<localVars, recordVars, otherVars>>

\* Mutant: the event is stored, the charge is left to commitQuota.
PersistEventOnly(r) ==
  /\ events' = events \cup {r}
  /\ UNCHANGED ledgerVars

\* The transaction of persistUsageEvent: nothing if the event row is there.
PersistUsageEvent(r) ==
  \/ r \in events /\ UNCHANGED <<ledgerVars, events>>
  \/ /\ r \notin events
     /\ UsageCommit(r, tokens[r])
     /\ events' = events \cup {r}

\* issueUsageReceipt signs the request row as it is now, once per request.  Its
\* errors are logged and dropped, so the receipt may be missing.
IssueUsageReceipt(r) ==
  \/ receipt[r] = "none" /\ receipt' = [receipt EXCEPT ![r] = status[r]]
  \/ UNCHANGED receipt

\* What follows the usage: Anusandhan's handler answers at once.
AfterUsage(r) == IF client[r] = "v1" THEN "epilogue" ELSE "done"

\* enqueueUsage: a queue job when Redis is on, persistUsageEvent inline if not.
EnqueueUsage(r) ==
  /\ IF r \in Queued
     THEN /\ Goto(r, "enqueue", AfterUsage(r))
          /\ job' = [job EXCEPT ![r] = IF @ = "none" THEN "waiting" ELSE @]
          /\ UNCHANGED <<ledgerVars, events>>
     ELSE /\ Goto(r, "enqueue", "receipt")
          /\ PersistUsageEvent(r)
          /\ UNCHANGED job
  /\ UNCHANGED <<localVars, recordVars, tries, receipt, crashes, periods, bonus>>

ReceiptInline(r) ==
  /\ Goto(r, "receipt", AfterUsage(r))
  /\ IssueUsageReceipt(r)
  /\ UNCHANGED <<ledgerVars, localVars, recordVars, job, tries, events,
                 crashes, periods, bonus>>

\* bumpQuotaCache, writeAuditEvent, the trace's completion and the response.
Epilogue(r) ==
  /\ Goto(r, "epilogue", "done")
  /\ UNCHANGED <<ledgerVars, localVars, recordVars, otherVars>>

-----------------------------------------------------------------------------
(* Errors.  A rejected await enters the catch block, which first gives back *)
(* the reservation and then marks the records; errors there are swallowed.  *)

\* Mutant: the catch block forgets the reservation.
FailWithoutRelease(r) ==
  /\ pc[r] \in Faults \ CatchSteps
  /\ pc[r] \in HandlerSteps
  /\ pc' = [pc EXCEPT ![r] = "markFailed"]
  /\ UNCHANGED <<ledgerVars, localVars, recordVars, otherVars>>

Fail(r) ==
  /\ pc[r] \in Faults \ CatchSteps
  /\ pc[r] \in HandlerSteps
  /\ pc' = [pc EXCEPT ![r] = CASE pc[r] \in {"quotaCheck", "create"} -> "failed"
                               [] held[r] -> "release"
                               [] OTHER -> "markFailed"]
  /\ UNCHANGED <<ledgerVars, localVars, recordVars, otherVars>>

Release(r) ==
  /\ Goto(r, "release", "markFailed")
  /\ ReleaseQuota(r)
  /\ UNCHANGED <<localVars, recordVars, otherVars>>

Verdict(r) == IF quotaError[r] THEN "REJECTED" ELSE "FAILED"

MarkFailed(r) ==
  /\ Goto(r, "markFailed", "markAttempt")
  /\ status' = [status EXCEPT ![r] = Verdict(r)]
  /\ UNCHANGED <<ledgerVars, localVars, attempt, otherVars>>

\* The attempt row may not exist yet: its update then throws and is swallowed.
MarkAttempt(r) ==
  /\ Goto(r, "markAttempt", "failed")
  /\ attempt' = [attempt EXCEPT ![r] = IF @ = "none" THEN @ ELSE Verdict(r)]
  /\ UNCHANGED <<ledgerVars, localVars, status, otherVars>>

CatchSwallows(r) ==
  /\ pc[r] \in Faults \cap CatchSteps
  /\ pc' = [pc EXCEPT ![r] = IF @ = "release" THEN "markFailed" ELSE "failed"]
  /\ UNCHANGED <<ledgerVars, localVars, recordVars, otherVars>>

Crash ==
  /\ crashes < MaxCrashes
  /\ crashes' = crashes + 1
  /\ pc' = [r \in Requests |-> IF pc[r] \in HandlerSteps THEN "crashed" ELSE pc[r]]
  /\ UNCHANGED <<ledgerVars, localVars, recordVars, job, tries, events,
                 receipt, periods, bonus>>

-----------------------------------------------------------------------------
(* The usage worker.  BullMQ delivers a job at least once: a delivery that   *)
(* fails or whose worker dies, at any point, is delivered again until its    *)
(* attempts are used up.                                                     *)

WorkerPersist(r) ==
  /\ job[r] = "waiting"
  /\ PersistUsageEvent(r)
  /\ job' = [job EXCEPT ![r] = "persisted"]
  /\ UNCHANGED <<handlerVars, recordVars, tries, receipt, crashes, periods, bonus>>

WorkerReceipt(r) ==
  /\ job[r] = "persisted"
  /\ IssueUsageReceipt(r)
  /\ job' = [job EXCEPT ![r] = "receipted"]
  /\ UNCHANGED <<ledgerVars, handlerVars, recordVars, tries, events, crashes,
                 periods, bonus>>

WorkerComplete(r) ==
  /\ job[r] = "receipted"
  /\ job' = [job EXCEPT ![r] = "completed"]
  /\ UNCHANGED <<ledgerVars, handlerVars, recordVars, tries, events, receipt,
                 crashes, periods, bonus>>

\* Mutant: one attempt too many.
WorkerFailLate(r) ==
  /\ job[r] \in {"waiting", "persisted", "receipted"}
  /\ tries' = [tries EXCEPT ![r] = @ + 1]
  /\ job' = [job EXCEPT ![r] = IF tries[r] = MaxTries THEN "failed"
                               ELSE "waiting"]
  /\ UNCHANGED <<ledgerVars, handlerVars, recordVars, events, receipt, crashes,
                 periods, bonus>>

WorkerFail(r) ==
  /\ job[r] \in {"waiting", "persisted", "receipted"}
  /\ tries' = [tries EXCEPT ![r] = @ + 1]
  /\ job' = [job EXCEPT ![r] = IF tries[r] + 1 = MaxTries THEN "failed"
                               ELSE "waiting"]
  /\ UNCHANGED <<ledgerVars, handlerVars, recordVars, events, receipt, crashes,
                 periods, bonus>>

\* The invoice worker's last write for a due subscription.
RollOver ==
  /\ periods < MaxPeriods
  /\ periods' = periods + 1
  /\ OpenPeriod
  /\ UNCHANGED <<handlerVars, recordVars, job, tries, events, receipt,
                 crashes, bonus>>

\* adjustCustomerQuotaAction: one transaction that adds a bonus, resets the
\* usage, or both, whatever the customer's requests are doing.
AdjustCustomerQuota ==
  /\ periods < MaxPeriods
  /\ periods' = periods + 1
  /\ \/ /\ \E n \in Grants : bonus' = bonus + n
        /\ ResetUsage \/ UNCHANGED ledgerVars
     \/ ResetUsage /\ UNCHANGED bonus
  /\ UNCHANGED <<handlerVars, recordVars, job, tries, events, receipt, crashes>>

-----------------------------------------------------------------------------

Handler(r) ==
  \/ Arrive(r) \/ QuotaMiddleware(r) \/ CreateInferenceRequest(r)
  \/ AcceptAnusandhan(r) \/ ClaimTrace(r) \/ Reserve(r) \/ RejectOverQuota(r)
  \/ Route(r) \/ StartAttempt(r) \/ Generate(r) \/ GenerateAnusandhan(r)
  \/ FinalizeSucceeded(r)
  \/ FinalizeAttempt(r) \/ Commit(r) \/ EnqueueUsage(r) \/ ReceiptInline(r)
  \/ Epilogue(r) \/ Release(r) \/ MarkFailed(r) \/ MarkAttempt(r)

Rejection(r) == Fail(r) \/ CatchSwallows(r)

Worker(r) == WorkerPersist(r) \/ WorkerReceipt(r) \/ WorkerComplete(r)

Next ==
  \/ \E r \in Requests : Handler(r) \/ Rejection(r) \/ Worker(r) \/ WorkerFail(r)
  \/ Crash
  \/ RollOver
  \/ AdjustCustomerQuota

Spec == Init /\ [][Next]_vars

\* The event loop keeps running a handler whose await has settled, and a
\* running worker keeps taking jobs.  Nothing has to fail.
Fairness == \A r \in Requests : WF_vars(Handler(r)) /\ WF_vars(Worker(r))

FairSpec == Spec /\ Fairness
-----------------------------------------------------------------------------
(* Safety. *)

\* The charge, the usage event and the generation agree: a UsageEvent row has
\* its tokens charged, and a request is charged exactly what it generated,
\* whether commitQuota or the usage worker wrote the charge.
ChargeMatchesUsage ==
  \A r \in Requests :
    /\ r \in events => <<r, "commit">> \in entries
    /\ <<r, "commit">> \in entries =>
         deltaTokens[<<r, "commit">>] = tokens[r] /\ tokens[r] > 0

\* A request answered with success has given back all it reserved, and is
\* charged or has a usage job that has yet to run or has used up its attempts.
SettledWhenDone ==
  \A r \in Requests : pc[r] = "done" =>
    /\ ReservedOf(r) = 0
    /\ \/ <<r, "commit">> \in entries
       \/ job[r] \in {"waiting", "failed"}

\* Used and reserved tokens together stay within the plan's quota and bonus,
\* although every request reserves against the quota it was authenticated with.
\* Holds when no generation exceeds its estimate, no await fails after
\* commitQuota and no request comes through Anusandhan, which does not reserve.
WithinQuota == Limit > 0 => /\ tokensUsed + tokensReserved <= EffectiveMonthlyQuota
                            /\ tokensReserved >= 0

Outstanding == [r \in Requests |-> ReservedOf(r)]

\* What the ledger holds in reserve is what unsettled requests hold.
ReserveIsOutstanding ==
  tokensReserved = MapThenSumSet(LAMBDA r : Outstanding[r],
                                 {r \in Requests : Outstanding[r] > 0})

-----------------------------------------------------------------------------
(* Liveness, under FairSpec. *)

\* Every request that reaches the gateway is answered (or dies with it).
EveryRequestEnds == \A r \in Requests : pc[r] = "quotaCheck" ~> pc[r] \in Ends

\* A reservation is given back, by commitQuota or by releaseQuota, as long as
\* the process lives and releaseQuota itself is not the call that fails.
ReservationsAreReturned ==
  \A r \in Requests : ReservedOf(r) > 0 ~> ReservedOf(r) = 0

\* A queued usage job ends with its usage event, or uses up its attempts.
JobsBecomeEvents ==
  \A r \in Requests : job[r] = "waiting" ~> (r \in events \/ job[r] = "failed")

\* Nothing stays half done in the pipeline (v1.ts, usage-worker.ts): requests are
\* answered, reservations returned, usage jobs stored or given up.
ChatSettles == EveryRequestEnds /\ ReservationsAreReturned /\ JobsBecomeEvents

-----------------------------------------------------------------------------
(* Statements of the documentation that the code does not keep. *)

\* packages/platform/src/ledger.ts: a reservation is released "for canceling a
\* request before usage is recorded".  The catch block of the chat handler
\* releases after commitQuota when a later await fails.
ReleasedOnlyBeforeUsage ==
  [][\A r \in Requests :
       <<r, "release">> \in entries' \ entries => <<r, "commit">> \notin entries]_vars

\* README.md: "Immutable execution ledger".  The same catch block rewrites the
\* status of a request that was already finalized as SUCCEEDED and charged.
OutcomeIsFinal ==
  [][\A r \in Requests : status[r] = "SUCCEEDED" => status'[r] = "SUCCEEDED"]_vars
=============================================================================

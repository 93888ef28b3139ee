# A TLA+ model of ModelForge

ModelForge is a self-hosted inference platform. An Express gateway (`apps/gateway`) serves an
OpenAI-compatible API, meters and bills it, and runs a pool of `llama-server` processes; a Next.js
control plane (`apps/web`) administers it; an optional Rust engine (`apps/inference-engine`) serves
models over gRPC; shared packages hold billing, database schema and pure platform logic.

This directory models the parts in which several things happen at once and money, memory, files or
answers are at stake. Every part is checked with TLC on small instances; the quota ledger, the chat
pipeline, the edge, billing, the model pool and the Rust engine are also proved about with TLAPS, for
instances of any size.

## 1. Inventory

| Component | State it keeps | Operations | Interacts with | What is hard | Module |
|---|---|---|---|---|---|
| Quota ledger (`quotaLedger.ts`, `usage.ts`) | `QuotaLedger` row, append-only `QuotaLedgerEntry` rows with unique keys | reserve, commit, release, usage commit, period reset, operator's reset and bonus | chat handler, usage worker, invoice worker, customers page | retries and two writers of one charge; concurrent reservations | `QuotaLedger`, `UsageMeter` |
| Chat pipeline (`routes/v1.ts`, `execution.ts`, `queues.ts`, `usage-worker.ts`) | `InferenceRequest`, `InferenceAttempt`, locals of the handler, BullMQ jobs, `UsageEvent` | one handler of some fifteen awaits, its catch block, the worker | ledger, engine, receipts, traces | any await may fail; crash; redelivery; roll-over in between | `MeteredChat` |
| Chat stream (`v1.ts`, `app/api/chat/route.ts`, `useChatStream.ts`) | message list, bytes under way, abort controllers | send, stop, voice message, proxy, stream, settle | engine adapters, chat page | a client that goes away, deadlines, reads that cut events | `ChatStream` |
| Local model pool (`engine/llamaServer.ts`) | map of instances, per-model load locks, child processes, `HostedModel.status` | load, evict, unload, child exit, generate | chat handler, administration, start-up | eviction across awaits, start-up races, processes that hang | `LlamaPool` |
| Hub downloads (`lib/huggingFace.ts`, `weights.ts`) | job map, queue, abort controllers, hashes, `.part` and final files, saved list | start, retry, cancel, remove, attempts, restart | administration, model registry | cancel/retry races, resumed files, restart from a stale list | `HubDownloads` |
| Keys, rate limiter, quota pre-check (`middleware/*.ts`, `quotaCheck.ts`) | per-key counters in memory or Redis with expiry, cached `tokensUsed` | authenticate, count, acquire, release, read through, bump | every API request | expiry while requests run, failed release, stale figure | `Admission` |
| Core Inspector (`coreTrace.ts`, web actions and panel) | in-memory map of armed sessions, `CoreTraceSession` rows, the panel's copy | arm, cancel, hydrate, claim, complete, fail, poll | chat handler, control plane | three places that must agree; late polls | `CoreTrace` |
| Receipts (`receipts.ts`, `signing.ts`, `canonical.ts`, verify route) | `UsageReceipt` rows chained by hash, signing key | issue, link, verify | usage worker, control plane | predecessor read before the insert; two orders of keys | `UsageReceipts` |
| Invoicing and payment (`invoice-worker.ts`, `packages/billing`) | `Subscription`, `Invoice`, ledger reset | scan, generate, checkout, webhook | ledger, usage worker | three writes without a transaction; rounding | `Billing` |
| Model registry (`models/actions.ts`, `routes/internal.ts`, `engine/index.ts`, start-up) | `HostedModel`, plan arrays, entitlements, credentials, `PricingVersion`, weights | publish, grant, price, set default, load, unload, remove, reconcile | pool, downloads, router | several writes per action, two operators, a restart between | `ModelAdmin` |
| Admin panels (`ModelPoolControls.tsx`, `HuggingFaceBrowser.tsx`) | React state, timers, polls under way | click, poll, apply an answer | registry, downloads | answers out of order | `AdminPanels` |
| Routing policy (`policyRouter.ts`, `policy.ts`) | policy rows | three reads, pure choice of a model | chat handler | an edit between two reads | `Routing` |
| SLO, credits, evaluation, entity graph (`modernJobs.ts`, `modern-worker.ts`, `neo4j.ts`) | `SloWindow`, `ServiceCredit`, `EvalRun` | roll-up, run suite, query the graph | request rows, metering | find-then-create; a job run again after a crash | `PlatformJobs` |
| Knowledge bases (`knowledge/actions.ts`, `modernJobs.ts`, `retrieval.ts`, `rag.ts`) | bases, documents, versions, chunks | ingest, delete, retrieve, cut | chat handler | deletes between the statements of an ingest | `Knowledge`, `Chunking` |
| Voice (`lib/voice/*`, `v1.ts`, `anusandhan.ts`, `VoiceSttControls.tsx`) | installation jobs, `runtime.json`, cached provider, temporary clips, remote files | install, activate, transcribe, diarize, meter, ask | chat handler, speech scripts | overlapping writes of one file, shared work index, polling with time-outs | `VoiceModels`, `VoicePipeline` |
| Rust engine (`model_pool.rs`, `batching.rs`, `service.rs`) | map of resident models, counters, semaphores, per-model scheduler, channels | load, evict, unload, generate, submit, decode | gateway by gRPC | check-then-act under a read/write lock; full and closed channels | `RustEngine` |
| Remote providers, gRPC client | none | one call, stream parsing | chat handler | broken streams | part of `ChatStream`, `RustEngine` |
| Speech scripts, platform library, configuration and schema | none of their own | | | text and number processing | not modelled |

What makes them correct, in short: a request is charged exactly what it generated, at most once, and
never beyond the quota; nothing reserved stays reserved; a model server is never lost, never used before
it is healthy; downloads use the slots they are given, end, and never publish bytes known to be wrong;
what is shown as a complete answer is all the gateway received of it, and was settled; every period is
invoiced, never for more than was metered; the records of a model agree after any sequence of one
operator's actions (two at once lose updates, section 4); counters return; what two stores say about one
thing agrees. `PROJECT.json` lists every component with its status and every hazard at the line where it
bites.

## 2. What is modelled

Conventions. One action is what runs between two awaits (gateway, control plane), one acquisition of a
lock (Rust engine), or one transaction (database). An await that may reject has a failing outcome that
goes where the code's `catch` goes. Payloads, names and texts are reduced to what a property tells
apart. Bounds are CONSTANTS called `Max...` and appear in guards only.

### The metered request: `UsageMeter`, `QuotaLedger`, `MeteredChat`

`UsageMeter` is the promise made to a customer: a set of charged requests and a total that grows by one
request's charge at a time. `QuotaLedger` is the database side: the two columns of the ledger row and,
per idempotency key, the columns of the entries. Each operation of the code is one serializable
transaction and so one action: `ReserveQuota`, `CommitQuota`, `ReleaseQuota`, `UsageCommit` (the ledger
part of `persistUsageEvent`, which shares its key with `CommitQuota`), `OpenPeriod` (the invoice
worker's reset) and `ResetUsage` (the operator's). `closedTokens` is a history variable: what earlier
resets took off `tokensUsed`. `MeterSpec` states the refinement: charged requests are those with a
commit entry, the total is `tokensUsed + closedTokens`.

`MeteredChat` extends `QuotaLedger` with the handler of `POST /v1/chat/completions`, in the order of
the code: quota check, request row, trace claim, reservation, routing, attempt, generation,
`finalizeAndMeter` (request, attempt, commit, enqueue, receipt, epilogue), and the catch block
(release, mark request, mark attempt), whose own errors are swallowed as in the code. `Faults` names
the awaits that may reject in a run. Requests in `Queued` find Redis available and leave their usage to
the worker; the others persist it inline. `Crash` stops every handler where it is; the code has no
recovery, so nothing resumes. The usage worker persists, signs and completes, and any delivery may fail
and be repeated up to `MaxTries`; the transaction of a failed delivery may already have committed. The
verdict of the quota pre-check is arbitrary here (its cache is in `Admission`). `AdjustCustomerQuota` is
the operator's adjustment: a bonus out of `Grants` or a reset of the usage. Authentication reads plan and
bonus once, so a request reserves against the `limit` it arrived with although the bonus has grown since.
A request comes through one of the `Clients`: the chat endpoint, or Anusandhan's (`anusandhan.ts`), whose
handler has neither trace, reservation, routing nor epilogue, and shares records, usage queue and worker.

### The edge: `Admission`, `CoreTrace`, `GatewayEdge`

`Admission` follows the requests of one API key through `authMiddleware`, the requests-per-minute and
the concurrency limiter, `quotaMiddleware` and the hourly window of voice uploads. The limiters run in
memory or on Redis counters, which expire on their own; every `incr`, `expire` and `decr` may fail,
executed or not (`RedisIncrFails`, `ExpireFails`, `Decr`), and the history variables `leaked` and `unset`
say what a failure has left behind. A call with the orchestration header, which the voice route sets and
any client may, passes no limiter. The cached quota figure has three writers: the pre-check's fill, the
handler's bump, and the usage job (`UsageReads`, `UsageSets`); it expires, except when a bump re-creates
a key that expired between `exists` and `incrby`. A period that opens does not touch it.

`CoreTrace` is one customer's Core Inspector: session rows, the gateway's map `armedByCustomer`, what a
starting gateway has read but not yet put there, the requests that claim a session, and the panel with
refreshes under way that may arrive after it shows another session. `GatewayEdge` composes the two: a
request is admitted, claims, runs, is charged, closes its recorder and is answered. `focus` chooses
whether the surroundings of a behaviour are the limits or the captures. The recorder's last write may
fail and is not tried again (`RecorderCloses`, `unwritten`).

### The answer on its way: `ChatStream`

One turn from `useChatStream` through the proxy to the streaming half of the handler and the engine
adapters, and back. A read of the network may end inside an event; the buffer keeps the rest. The user
may stop, a voice upload may write the same list of messages, the client's going away is noticed only
once the listener is attached, and the engine may hang until its deadline. The engine's stream may
be over before its answer is: the adapters hand over a final chunk all the same (`handed`), and nothing
downstream can tell the difference, so `produced` is what the adapter received. Settlement is one step
that succeeds or throws; `MeteredChat` says what it does.

### Models: `LlamaPool`, `HubDownloads`, `ModelAdmin`, `AdminPanels`, `RustEngine`

`LlamaPool`: one incarnation of a model server is `<<model, n>>`. `current` is the `instances` map,
`child` the process, `ready` its promise, `active` its `activeRequests`, `loader` the position of the
load that holds the model's lock, `evict` the state of its eviction loop, `unloading` the calls that
wait for an exit. Callers go through `ensureLoaded` and `generateStream`. A process may exit at any
time, ignore SIGTERM, or answer `/health` and exit before the answer is used. The environment may unload
any model at any time. Reservations that protect a model are an arbitrary subset of `Leased`. Time-outs
are nondeterministic: an await with a deadline may end at any moment. Ports are not modelled.

`HubDownloads`: jobs, their queue and the map of controllers, the runners (calls of `runDownload` that
have not returned; after cancel and retry a job may have two), and the files. Contents are `partial`,
`good` or `bad`; sizes and hashes are what tells them apart. `Pump` is `pumpDownloadQueue`, `PumpOne`
one pass of its loop. `Persist` is the
debounced write of the list, so a restart may find an old one. All jobs belong to one bundle, whose
registration is the last step of `completeDownload`.

`ModelAdmin` is the registry and everything that writes it: the server actions of the models page, each
a sequence of writes and gateway calls that may be cut short between any two; the gateway's engine
routes; a second operator on the infrastructure page; the start-up that reconciles registry and pool and
warms the default; and a chat request that looks up the active price while an operator changes it.
`op.pc` is the await the action has reached, `op.seen` what it has read, `boot` the same for the
start-up, which looks at a row, awaits the model's unload and writes the status in three steps
(`BootChecks`, `BootUnloads`, `BootMarks`); `versions` holds the price versions under their
`effectiveFrom`. A register may run beside a removal; `op.late` are the rows it has pointed at the file
since the removal counted. `Paths` are files under one spelling each.
`AdminPanels` is the browser side, in which the answer to a fetch is fixed when the server handles it
and applied when it arrives, in any order.

`RustEngine` is the gRPC engine. The pool's lock is taken anew for every question a load asks, and each
acquisition is a step. A resident model is shared by reference counting, so requests keep using an
instance that has left the map. Each model has a scheduler with a bounded queue and a window of
sequences; a generation is a decode thread, a token channel and the task that forwards it to gRPC.
`Configs` chooses between the scheduler and the direct path and between real weights and the echo stub.

### Money: `Billing`

The usage worker stores events, the daily scan invoices finished periods and opens the next in three
separate writes, and an operator may generate an invoice by hand for any interval, over or not,
overlapping others or not. Invoices get their status from checkouts, which mark them SENT, and from
webhooks, which mark any invoice PAID: the mock adapter, used unless Stripe is configured, verifies
nothing. Time is a counter; a worker may die between any two steps, and `unreset` remembers that it died
between moving the subscription and resetting the ledger. `early` are the intervals somebody asked for
before they ended. Costs are in units of which `Cent` make one cent (10 000 micros), so the rounding of
the code's division is kept.

### Voice: `VoiceModels`, `VoicePipeline`

`VoiceModels`: operators install and activate speech models, the gateway runs one install at a time and
keeps the choice in `runtime.json`, and requests read it. The file is written in place: opening empties
it, the text follows, two writes may overlap, a shorter text leaves the tail of a longer one, and a
write may fail before or after the file is emptied, or half-way; whatever is not one whole text reads as
the default. The page offers to activate what is installed, the API takes any model of the catalogue
(`forced`). The provider that requests share is cached under every setting that can differ, so that it
says nothing the file does not, and is left out. `VoicePipeline`: an upload from admission to answer,
through Gemini, cloud or local diarization, per-turn workers that share an index and a directory, a
Space, or one local transcription; then metering, an optional nested chat call, and the answer.

### Platform features: `Routing`, `Knowledge`, `Chunking`, `PlatformJobs`, `UsageReceipts`, `Platform`

`Routing`: `resolveModelForRequest` reads catalogue, policy and default one after the other while an
administrator may change each; `evaluateRoutingPolicy` is an operator. A key may be entitled to no model
at all. `Knowledge`: an ingest of four statements against cascading deletes, a retrieval of two reads
with its budgets, and the catalogue of documents, which lists a base without any by itself; scores are
an arbitrary ranking. `Chunking`: `chunkText` over every text up to a length, white space or not.
`PlatformJobs`: SLO roll-ups, credits and evaluation runs, given to the worker again after a crash, and
the graph routes with a store that may fail. `UsageReceipts`: overlapping issues of receipts, which read
the latest by its stamp before they take their own (`clock`) and may be stored in another order, the
chain of hashes, the link from the request row, and the verification; the text of a payload is the order
of its keys. `Platform` explores these, which share nothing but the database, one at a time.

## 3. Runs

Deadlock checking is off in every run: requests, callers, downloads and clicks are finite in number and
the system may rest when they are done. Where a run checks a conjunction, its parts are definitions of
their own, each with its comment; they are named in brackets.

| Run | Instance | Shows |
|---|---|---|
| `chat_metering` | 2 requests through either endpoint, quota 3, estimates 2, actual 1 or 3, queue on, failures in every stretch, 2 deliveries, 1 crash, 1 roll-over or reset; 2.3 million states | types, `LedgerMatchesEntries`, `ChargeMatchesUsage`, `SettledWhenDone`, and the refinement of `UsageMeter` |
| `chat_quota` | 2 requests, quota 3, actual 1 or 2, one charged by the worker and one inline, failures up to `commitQuota`, 1 roll-over, reset or bonus of 1, fair; 69 thousand states | `WithinQuota`, `ReserveIsOutstanding`, `ChatSettles` (`EveryRequestEnds`, `ReservationsAreReturned`, `JobsBecomeEvents`) |
| `pool_lifecycle` | models of 1, 1 and 2 units in a budget of 2, one possibly leased, 2 callers, 1 outside unload, fair; 54 thousand states | `ChildrenAccounted`, `RunsOnlyWhenReady`, `CountsAreExact` (`ActiveIsRunning`), `EveryCallerEnds` |
| `hub_downloads` | 2 jobs of 2 shards, 1 slot, 2 attempts, corrupt transfers, cancels and removals, 1 retry or restart, fair; 379 thousand states | `ActiveIsAttended`, `SlotsUsedExactly` (`WithinLimit`, `NoIdleSlot`), `FinalIsVerified`, `EveryDownloadSettles` |
| `gateway_edge` | 3 interchangeable requests of one key, limit of 1 concurrent and 1 per minute (a new minute may begin at any time), 1 voice upload an hour, 1 expiry; 2 sessions, 1 poll | `LimitsHold` (`ConcurrencyBounded`, `CounterHasReason`, `PositiveCounterExpires`, `StickyFigureCounted`), `CapturesAreSound` (`OneShot`, `CaptureEndsWithRequest`, `PanelEndIsReal`) |
| `rust_engine` | 2 models of 2 units in a budget of 3, 2 loads, 2 generations of at most 2 tokens, channels of 1, 3 configurations, fair | `EngineCountsAgree` (`ActiveCountsHolders`, `WithinPermits`, `WithinWindow`, `OverBudgetOnlyByRace`), `NeverEvictsActive`, `StreamsEnd` (`EveryStreamEnds`, `StreamHasAnEnd`) |
| `billing` | 2 events, 2 units to the cent, periods of 1 tick, time up to 2, 1 crash, 2 calls (invoices by hand for the first period or for both, checkouts, webhooks), fair | `InvoiceIsRight` (`NeverOverbills`, `EndedIsBilled`), `RollOverIsSafe` (`PeriodsTile`, `QuotaNeverOvercounts`), `EndedIsInvoiced` |
| `voice` | 2 uploads, 2 operators with 2 choices, failing writes, 6 pipeline configurations, 2 turns, 2 workers, 1 restart, fair | `SelectionIsSound` (`SelectionHeals`, `SelectionIsInstalled`, `OneInstall`), `TurnsAreWhole` (`EachTurnOnce`, `ClipsOutliveWorkers`), `AnswerClosesUpload` (`AnsweredIsCharged`, `RemoteFileGone`), `EveryoneIsAnswered` (`EveryUploadIsAnswered`, `PanelFreed`) |
| `model_admin` | 2 models, 1 file; 3 actions of one operator alone, 2 beside others; 1 action cut short, 1 restart; prices; both panels with 4 clicks and 2 exits, fair panels; 598 thousand states | `RegistryAgrees` (`GrantsAgree`, `RemoteHasKey`, `RegistryMatchesPool`), `ActivePriceIsLatest`, `StepsSpareOthers` (`DefaultKept`, `SharedFilesKept`, `StartupLeavesRemotes`), `PanelsSettle` (`InFlightIsShown`, `PoolViewSettles`, `DownloadViewSettles`) |
| `chat_stream` | 2 turns, the first of up to 2 deltas and the second without any, 1 stop, 1 voice upload, local and remote engine, fair; 187 thousand states | `ConsoleIsTrue` (`ShownIsProduced`, `TurnKept`), `SettlementMatchesAnswer` (`FinishedIsSettled`, `SettledIsDelivered`), `TurnsEnd` (`TurnEnds`, `HandlerEnds`, `OverIsOver`) |
| `platform` | 3 models, 1 edit; 2 customers with 2 bases and 2 documents; texts of up to 7 characters, passages of up to 3; 2 SLO windows, 2 test cases, 3 runs of a job; 2 paid requests with 2 deliveries; 1.1 million states | `RoutedAsAllowed`, `RetrievalIsSound`, `WorkIsAccounted`, `ChunkingIsFaithful`, `JobsRerunSafely` |
| `receipts_verify` | 1 request | a genuine receipt is refused (section 4) |

The parts of the groups of `platform`: `RoutedIsEntitled`, `RoutedIsWithinPolicy`, `UnnamedIsCheapest`;
`IngestedIsWhole`, `NoOrphans`, `RetrievedIsOwn`, `PassagesWithinBudget`, `AnswerFits`; `OneReceipt`,
`LinkedHasReceipt`, `ChainLeadsBack`, `GraphAnsweredIsMetered`; `ChunkingEnds`, `EveryWordKept`,
`PassageFits`; `OneCreditPerWindow`, `OnePlatformRow`, `EvalIsComplete`, `CreditNeedsBreach`.

Why the bounds are enough. Requests interact only through the two ledger columns, and the amount one
takes depends on the sum of the others, so two requests show every race; quota 3 holds one estimate of 2
and not two. The estimates lie between the actual counts, so both an over- and an under-estimate occur.
One crash and one roll-over or adjustment can fall at every point; a second would meet the same states.
For the pool, three models and a budget of two units give loads that need no, one and two evictions and
two loads that evict each other; a caller starts at most one load, so `MaxSpawns` equal to the number of
callers never binds. For downloads, one of two jobs must wait for a slot; two attempts show both sides
of the attempt limit. At the edge, three requests against a limit of one give a holder, one that is
refused and one that comes after an expiry. In the Rust engine two models do not fit together, so every
load of the second evicts, and channels of one element are full and empty within two tokens. In billing,
two periods show one that is open, one that is closed, a scan that is late and an interval that overlaps
both; two calls are an early and a late invoice for one interval, or two writers of one status; costs
that are no multiple of a cent show the rounding. Two writers and one reader are all that the selection
file can confuse; two workers on two turns show every race on the shared index. Two models are the one
an action is about and the one it must spare. In a text of seven characters cut into passages of at most
three, every position of white space relative to cut and overlap occurs; the cut depends on nothing
further away.

What the passing runs leave out on purpose.
- `WithinQuota` needs generations that stay within their estimate, no request through Anusandhan, which
  charges without a reservation, and no failure after `commitQuota`:
  the code charges the measured count whatever it is, and the release after a commit (section 4) takes
  from other reservations. A roll-over keeps reservations, so it does not hurt, and a bonus only grows,
  so a request that still has the older limit reserves less than it might.
- `ReservationsAreReturned` excludes crashes and a failing `releaseQuota`: nothing in the code gives back
  what was reserved by a process that died.
- `FinalIsVerified` speaks of shards whose hash the gateway still knows: retries and restarts forget it,
  and when the Hub's manifest cannot be read again the code skips the comparison.
- `WithinLimit` holds until the first retry, for the reason given in section 4.
- `ConcurrencyBounded` allows for the slots that an expiring Redis counter has lost, and speaks of the
  requests that take one: those with the orchestration header take none. `CounterHasReason` and
  `PositiveCounterExpires` allow for Redis commands that failed.
- `StickyFigureCounted` is about the figure that does not expire. One that does may count a charge twice
  until then, and either kind outlives a roll-over (section 4).
- `CaptureEndsWithRequest` allows for an outcome the database refused.
- `EndedIsBilled` and `QuotaNeverOvercounts` suppose usage jobs that are stored in the tick they begin in
  (`quick`): an event stored after its period has been invoiced is on no invoice. `EndedIsBilled` leaves
  out intervals an operator asked for early. `QuotaNeverOvercounts` is measured against the period of the
  subscription, and falls back on that of the ledger only when the worker has died between the two.
- No property relates an invoice's status to a payment, because the code does not.
- `SelectionHeals` speaks of writes that ran alone and succeeded, `SelectionIsInstalled` allows for
  models activated although not installed.
- `GrantsAgree` needs an operator who is alone and no action cut short; `RegistryMatchesPool` a restart
  during which nobody else writes and no process exits. So they say nothing of a status that grows stale
  later.
- `SharedFilesKept` holds beside a register, but for rows that took the path after the removal's count;
  `StartupLeavesRemotes` but for a row that became remote after start-up had found it local.
- `SettledIsDelivered` is about what the adapter received, not about what the engine meant to say.
- `OverBudgetOnlyByRace` says exactly when the Rust pool's budget can be exceeded: two loads between
  check and insert.

### Fairness

Only steps that the code is bound to take are fair; a failure, an exit, a crash, a cancel and every
command of a user never has to happen.

- Chat: weak fairness of each handler and of the worker on each job. Node's event loop runs a
  continuation once its promise settles, and every await of the handler settles (database calls return
  or throw, generation has a deadline of 900 s by default).
- Pool: weak fairness of each load, each caller and each unload. Start-up gives up after a time-out,
  generation has a deadline, `unloadModel` sends SIGKILL after five seconds. `ChildExit` is not fair: a
  process may live or hang for ever, and `EveryCallerEnds` holds nevertheless.
- Downloads: weak fairness of each runner: fetches, file operations and timers return or throw.
- Rust engine: weak fairness of each model's scheduler task and of each generation's three parts; Tokio
  runs ready tasks and the decode loop is bounded by `max_tokens`. Callers need not cancel.
- Billing: weak fairness of the scan, which is a repeatable job, and of the usage worker on each event.
  Operators, customers and the provider's webhook are not fair.
- Voice: weak fairness of each upload, of each page's poll and of each install; scripts and remote calls
  have time-outs.
- Panels: weak fairness of answers, timers and polls, and strong fairness of the arrival of each answer
  of a poll: polls repeat every few seconds, so the arrival is enabled again and again rather than for
  ever.
- Stream: weak fairness of the handler's, the proxy's and the reader's steps and of the deadline. The
  engine is not fair: it may hang.
- Chunking: weak fairness of the loop itself.

## 4. Findings, and statements the code does not keep

The run `receipts_verify` shows the one finding: the control plane's verification sorts the keys of a
payload with `localeCompare`, while the gateway signed them in code-unit order. `requestId` and
`requestedModel` change places, so the text differs from the one that was signed and every genuine
receipt is answered "Signature mismatch".

Six further statements are suggested by comments, names or documentation and are refuted by TLC. They
are kept as definitions beside the properties they qualify and are not in a run; each line gives an
instance on which TLC finds the trace.

| Statement | What happens | Instance |
|---|---|---|
| `MeteredChat!ReleasedOnlyBeforeUsage` | a failing enqueue, cache bump, audit write or trace completion after `commitQuota` enters the catch block, which releases the reservation a second time, out of the reservations of other requests | 2 requests, `Clients` {"v1"}, `Limit` 4, `Actuals` {1}, `Faults` `EveryStretch`, `MaxTries` 1, no crash, no period |
| `MeteredChat!OutcomeIsFinal` | the same catch block turns a request that was finalized as SUCCEEDED and charged into FAILED | the same |
| `LlamaPool!EvictsOnlyIdle` | idle candidates are chosen once, then unloaded one after the other; one that has been given a request meanwhile is stopped with it | 3 models, `Budget` 2, 4 callers, `MaxSpawns` 4 |
| `LlamaPool!WithinBudget` | the lock is per model and a model is counted only once it is in the map, so two loads pass the budget check together | models of 1 and 2 units, `Budget` 2, 2 callers, `MaxSpawns` 2, no unload |
| `HubDownloads!RegistersOnlyComplete` | registration waits for active shards only, so a failed or cancelled shard does not hold it back | 2 jobs, `MaxConcurrent` 2, `MaxAttempts` 1, no disturbance |
| `HubDownloads!WithinLimit` without `retries = 0` | a retry before the cancelled runner has stopped starts a second runner on the same job and `.part` file | 2 jobs, `MaxConcurrent` 2, `MaxAttempts` 2, 1 disturbance |

Seen while translating, and part of the modelled behaviour where their module exists:

- Chat page: `send` uses the messages it was rendered with, so a voice transcript that has not been
  rendered is overwritten. A client that leaves before the close listener is attached is never heard. A
  stream that ends early, or with an error event, is taken for a normal stop, settled and shown as
  complete (`llamaServer.ts:532-579`, `remoteOpenAi.ts:255-304`).
- Registry: registering a model again rewrites its prices without a pricing version
  (`internal.ts:396-444`); `setPlatformDefault` marks every other remote INACTIVE and says "warm load
  failed" on success (`actions.ts:572-584`); a plan's `allowedModelIds` is read and written whole, so
  two operators lose updates; removal compares weight paths as strings, so it does not see a row with
  another spelling or another shard of the file, and then deletes all shards (`internal.ts:533-548`,
  `weights.ts:127-144`); a row registered between its count and the unlink loses its file; a row made
  remote while start-up awaits its unload is set INACTIVE (`engine/index.ts:132-139`); the gateway
  listens before it has reconciled the registry.
- Hub browser: selecting a repository does not abort the previous list.
- Voice: the Anusandhan route does not meter a local transcription; diarization is charged also when it
  failed and fell back.
- Jobs: the SLO roll-up counts RUNNING requests as failures; a crash leaves an evaluation run or a
  document RUNNING for ever; nothing in the repository enqueues SLO or evaluation jobs.
- Graph: a query is executed before it is metered, so a failing meter answers 500 after the write.
- Receipts: a crash between the two writes leaves the request without its `receiptId`; two concurrent
  issues name the same predecessor, so the chain forks.
- Core Inspector: a session stays CAPTURING when the gateway dies, and when the write of its outcome fails
  (`coreTrace.ts:82-107`).
- Limits: a failed `expire` leaves a counter without one and a failed `incr` or `decr` one too high, and
  nothing repairs either (`quota.ts:138-162`); anybody who sends `x-modelforge-orchestration` passes the
  limiter (`quota.ts:40-42`); a cached figure left by a late bump has no expiry and, after a roll-over,
  refuses the customer until a usage job overwrites it (`quotaCheck.ts:50-51`, `usage.ts:98-105`).
- Invoices: a checkout of a PAID invoice sets it back to SENT (`internal.ts:590`); a webhook to the mock
  adapter marks any invoice PAID (`adapters.ts:34-37`); invoices by hand for overlapping intervals bill an
  event more than once (`internal.ts:561-570`).
- Roll-over: a worker that dies between the subscription and the ledger (`invoice-worker.ts:41-48`) leaves
  last month's tokens in the quota until the next period ends.
- Voice: a failing write empties or cuts `runtime.json`, and requests use the default until the next one.
- Retrieval reads at most 4000 chunks in no order, and `chunkFaqMarkdown` drops text between a heading
  and its first `###`.

## 5. Proofs

Assumptions on the constants are in the modules, each under a name: natural numbers for limits and
bounds; estimates and actual counts that are positive (the code's estimators return at least one),
bonuses that are positive (the action refuses others); at least one price; finite sets of requests,
models, callers, events, loads, bases, documents, calls, downloads and shards (a process serves finitely many);
at the edge and in the registry, that nothing has the name that stands for "none"; in the Rust engine,
that what is resident at the start fits the budget (`ResidentAssumption`). Otherwise the sets and numbers
are arbitrary. Two theorems have hypotheses of their own, given below.

Sums and counts. The library's induction theorems take an operator, which the provers cannot
instantiate. `FiniteSums` goes round that: a predicate is a set of sets, and the least element that the
strict subset order gives every non-empty set of subsets turns into induction. From it follow that the
recursion behind `MapThenSumSet` has a solution, what adding or removing an element does to a sum, that
sums of equal functions are equal, that they are monotone and additive, that a sum is that of a part and
that of the rest, and that it may be re-indexed. The modules below rest on those and on the library's
facts about cardinality.

- `MeteredChatProofs`, the ledger. `LedgerTypeCorrect`; `LedgerAppendOnly` (entries are immutable);
  `LedgerImplementsMeter`: the ledger refines `UsageMeter` whoever calls it, in any order. The step
  that matters: commit and usage commit share a key, so only the first of them moves the total, and
  `OpenPeriod` and `ResetUsage` leave `tokensUsed + closedTokens` alone. The type invariant suffices for
  induction. `LedgerRowIsSum`: both columns of the row are the sums over the entries
  (`LedgerMatchesEntries`, in `QuotaLedger`), which also needs that absent entries have zero columns.
- `MeteredChatProofs`, the pipeline. `ChatImplementsLedger`: every step of the pipeline is one ledger
  operation or none, hence `ChatChargesOnce` and `ChatLedgerIsSum` by way of the ledger theorems.
  `ChargeIsUsage` and `SuccessIsSettled` need an inductive invariant, `ChatInv`: types; absent entries
  have zero columns; and per request what the handler's position implies (before the reservation there
  is no entry; before the generation no charge, job or event; from there on the token count is positive
  and fixed; a held reservation has its entry; a job that still has deliveries has tries left). Without
  it `ChargeMatchesUsage` is not inductive: a handler at `commit` with an arbitrary earlier entry would
  break it. The steps are split into those of the request itself (`OwnSteps`) and of the others
  (`OtherRequests`), which only need that ledger operations touch their own keys. `ReserveOutstanding`
  adds to `ChatInv` that a request holds all of its estimate or nothing, all of it in the catch block,
  and that the row is the sum of what is held. Its hypothesis is that no await fails between
  `commitQuota` and the answer; otherwise the property is false, as section 4 says. `QuotaIsKept` adds
  that a request is held to a quota that was granted, and that past the reservation it has a reservation
  or a charge. It further needs that no request comes through Anusandhan and that no generation exceeds
  its estimate; the code makes sure of neither. The run `chat_quota` is an instance of both theorems.
- `MeteredChatProofs`, the stream. `ConsoleStaysTrue` and `SettlementsMatch` from `StreamInv`. Neither
  is inductive: that a complete answer is all of the text is known only at the end. What is conserved on
  the way is the text. Until a turn is over or stopped, what its bubble shows and what is in the pipe
  add up to what the adapter has written (`BubbleInv`): all that was produced for llama-server, nothing
  before the end for a remote provider. `PipeInv` says that no text follows an event that ends the turn,
  which is written last, and that [DONE] stands there only for a settled turn or behind an error. With
  `Cutting` (a read splits the text as it splits the events) and `Absorbing` (what the loop over the
  lines keeps) follows that the first [DONE] without an error before it finds all of the text shown.
  `ConsoleInv` has that one turn streams at a time, the last. `OverStaysOver`, an action property,
  follows from it: it is the third conjunct of `TurnsEnd`.
- `LlamaPoolProofs`. `NoProcessLost` and `NoRequestBeforeHealth` from `PoolInv`: the map holds only
  the newest incarnation; a load before its spawn excludes an instance in the map (the lock works);
  an instance whose load is before its health verdict is pending; an instance in the map without a
  load is ready; what a caller holds exists. Neither property is inductive alone: that a load may
  overwrite the map entry without losing a process rests on the lock, and that the "already loaded"
  shortcut finds a healthy server rests on the correspondence between lock and readiness.
  `PoolCountsExact` adds the exactness of `activeRequests` and the remaining types; the long part is that
  moving a model behind all others keeps the order a permutation of the models.
- `LlamaPoolProofs`, the downloads. `DownloadsStayAttended`, `SlotsStayUsed` and `FinalStaysVerified`
  from `HubInv`. Most steps end in a pass of `pumpDownloadQueue`, so what holds when it starts and when
  it ends has one form, `Mid`, in the queue, the controllers and the runners; `PumpInv` is what holds
  after each id of the pass, which starts a job it takes a slot for and keeps in the queue what it does
  not start. `ActiveIsAttended` is not inductive: a runner that registers takes its job's status with it,
  so `Attended` asks for another one, or a place in the queue, when the job is active. `WithinLimit`
  needs `Single`: without retries a job is in the queue once or has one runner, and that runner holds the
  slot. `FinalIsVerified` needs `Filed`: of the jobs that are to fetch a missing shard there is one,
  listed and active, by the guard of `startHuggingFaceDownload`; so between its look at the files and the
  last byte a runner that is not aborted is the only one to write the `.part` file, nobody renames it
  under the transfer, and what is hashed is a whole file. Any number of jobs may be for one shard.
- `GatewayEdgeProofs`. `LimitsAreKept`: `ConcurrencyBounded` speaks of slots, the code compares a
  counter, so `LimitInv` relates the two. In memory the counter is the number of slots; on Redis it is
  at least the number of increments that were neither lost with an expiry nor taken back, and the slots
  granted are at most the limit and those an expiry lost; each request raises it at most once.
  `CounterHasReason` is the other direction: an increment is accounted for by the request that will take
  it back, or is `leaked`. For the cached figure `CacheInv` says that a request increments it after its
  charge and once, so one without an expiry is at most the charges of the requests past their increment.
  `CapturesSound` needs `TraceInv`: sessions are created in order, an unclaimed session has neither
  recorder nor request, a recorded one has a recorder as long as it captures and its outcome was not
  refused, a recorder belongs to a request inside its handler, and answers on their way to the panel
  that say a session is over are right.
- `BillingProofs`. `RollOverSafe` from `RollInv`: the scan works on the subscription's own period, which
  has ended; an event has its time from the moment its store begins; when stores are quick nothing of an
  earlier tick is open; the ledger counts stored events, and when stores are quick only those since its
  start, which is the subscription's unless the worker is, or died, between the two writes.
  `InvoicesAreRight` from `AmountInv`: what a reader has in hand is stored and, with quick stores, is
  all of its interval unless that was asked for early (`EndedUnlessEarly`: otherwise it has ended); an
  invoice is at most the rounded cost, and at least what whole cents per event leave. Both directions
  are sums over growing sets of events, with the division of the code.
- `EngineProofs`, the Rust engine. `CountersAgree` from `EngineInv`: a load past its checks has a model
  and room for an instance; without a race at most one load is between check and insert, and what it was
  promised fits beside the map; a request that counts, or is about to, holds an instance; queues hold
  requests of their own model; `active_requests`, semaphore and gate are exact. `ActiveIsNeverEvicted`
  is an action property from the same invariant. `EndIsTold` adds that a forwarder stops only when its
  caller has left or knows the end, and that what an ended task leaves to be forwarded ends in a last
  chunk or an error.
- `EngineProofs`, the registry. `RegistryStaysAgreed`, `PriceStaysLatest` and `OthersStaySpared` from
  `RegistryInv`. What the runs check speaks of the moments between actions; the invariant says for each
  step of each action what its writes have done so far. `GrantInv`: after the array and before the
  entitlement the two differ by the model in hand, and a removal has given up the default only when the
  model is gone from both. `MatchInv`: while nobody else writes, what start-up has listed is what the
  pool holds, so each later step keeps registry and pool together; between an unload and the mark they
  agree but for the model unloaded (`MatchBut`). `FileInv`: a removal counts the rows that share its file
  before it deletes its own, and whoever takes the path after that is among `op.late`. `PriceInv`:
  a look-up that found no version may hold a price that is old by now, but then it is `Overtaken`: the
  operator's version is still to come, or is there and later than the look-up's `now`, from which
  the stale one is made effective. That an edit passes the time it closed the others with, and the chat
  the time it looked, is what makes this hold. `OthersStaySpared` is an action property from the same
  invariant.
- `EngineProofs`, the panels. `InFlightStaysShown`, the safety half of `PanelsSettle`: it needs that a
  timer runs only for a bar that is done and has no request (`BarsAgree`), so that it never removes the
  bar of the next one.
- `VoiceProofs`. `SelectionStaysSound` from `ModelInv`: while nothing is torn there is at most one
  writer of the file, which is empty under it, and otherwise the file is the last text that was stored;
  who is about to write writes a selection that can be used or was forced; the running install is the
  one `activeInstallId` names. `TurnsStayWhole` and `AnswersCloseUploads` from `PipeInv`, a conjunction
  per upload: workers have different turns below the shared index, none of them done, and the clip
  directory while they work; the file at Gemini is in use only between the generation and its delete;
  charges are opened in order, none before admission, and nothing follows an answer.
- `PlatformProofs`. The features share no state, so `PlatformInv` is one invariant for each, and a step
  of one leaves the others alone. `RoutedStaysAllowed`: the comparator of the last resort is a total
  order, hence a non-empty finite set of candidates has a first one, and what the ranking returns is a
  candidate the policy admits. `RetrievalStaysSound` from `KnowInv`: an ingest writes its rows in order,
  a document keeps the base it was created in, retrieval reads bases of one customer only, and a passage
  in hand is of a document whose ingest began; the budget is a sum over the passages. `ChunksKeepWords`
  from `ChunkInv`: every word before the place of the cut is in a passage, which a step backwards by the
  overlap keeps. `JobsStayRerunSafe` from `JobsInv`: a roll-up that looks for a credit has a breached
  row, and none of its customer's credits when it creates one; the last run has one result per case so
  far. `CreditNeedsBreach`, an action property, follows from it. `WorkStaysAccounted` from `ReceiptInv`
  (a delivery about to link has stored its receipt, and knows only stored ones, whatever the order of
  stamps) and `GraphInv`.

Six representations were chosen so that the modules can be reasoned about, and are what TLC checks too:
the order of last use is a permutation in `LlamaPool` and a relation in `RustEngine`, whose
instances have equal standing; the periods of `Billing` are multiples of `PeriodTicks`; amounts are
sums of functions over sets of events rather than over a sequence of rows; the pass of
`pumpDownloadQueue` is a recursive function on the length of the queue it has seen; and the versions of a
price are a function of the time they are effective from.

Only model-checked:

- all liveness, since the prover handles neither fairness nor `ENABLED`: the temporal properties of the
  runs, among them that the panels settle and that `chunkText` ends, the other half of
  `ChunkingIsFaithful`.

Every invariant of a passing run is stated by a theorem.

No module declares a RECURSIVE operator, in whose presence the prover loses its arithmetic.

## 6. Not modelled

- cryptography (Ed25519, encryption of credentials, hashing of keys) and the services behind an API
  (llama.cpp, Stripe, Neo4j, Gemini, speech libraries), which appear as calls that answer or fail;
- text and number crunching without state: redaction, embeddings, the merging and cleaning of
  transcripts, the speech scripts, Hub search and manifest parsing, federation constants, colours and
  charts;
- pages of the control plane that only read, forms that write one row, and sessions of its users;
- configuration and schema, whose unique keys and cascades are used where they matter;
- Redis clients that send a command again after a reconnection, so that it is executed twice;
- what the infrastructure page's load and unload routes do between their own awaits: each is one step of
  `ModelAdmin` beside the operator's action, which is taken apart;
- server actions rejected without a `catch` in `ModelPoolControls.tsx`, which would leave a bar on the
  panel;
- two modern workers (SLO windows, evaluation) on one queue: the default of one job at a time is modelled;
- the choice of a port for a new llama-server, and the Bangladeshi payment providers, which are stubs.

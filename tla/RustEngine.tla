----------------------------- MODULE RustEngine -----------------------------
(***************************************************************************)
(* The in-process inference engine the gateway can use over gRPC            *)
(* (apps/inference-engine): the model pool with its budget and its least     *)
(* recently used eviction, the batching scheduler of each model, and one     *)
(* generation from the gateway's call to the last chunk.                     *)
(*                                                                           *)
(* The pool's map is behind a read-write lock that is taken anew for every    *)
(* question a load asks (is it there, how much is used, who is idle, remove   *)
(* it, insert it): each acquisition is a step. A resident model is shared     *)
(* through reference counts, so requests keep using an instance that has      *)
(* left the map. Tokens are not told apart.                                   *)
(***************************************************************************)
EXTENDS Integers, Sequences, FiniteSets, FiniteSetsExt

CONSTANTS
  Models, Ram,      \* the models and what each needs of the budget
  Budget,           \* total_ram_budget_mb
  Loaders,          \* calls of LoadModel
  Resident,         \* models loaded before the behaviour starts
  Requests, ModelOf, \* calls of Generate and the model each names
  MaxPerModel,      \* max_concurrent_per_model
  BatchMax,         \* batch_max_sequences
  QueueCap,         \* capacity of a scheduler's channel (128)
  ChanCap,          \* capacity of a token channel (64)
  MaxTokens,        \* max_tokens of every request
  Configs           \* triples of enable_continuous_batching, the models whose
                    \* weights file exists (the others echo) and the model that
                    \* each LoadModel call asks for, None if it is not made

None == "none"

ASSUME RustAssumption ==
  /\ IsFiniteSet(Models) /\ IsFiniteSet(Loaders) /\ IsFiniteSet(Requests)
  /\ Configs \subseteq BOOLEAN \X (SUBSET Models) \X [Loaders -> Models \cup {None}]
  /\ Resident \subseteq Models
  /\ Ram \in [Models -> Nat \ {0}] /\ Budget \in Nat
  /\ ModelOf \in [Requests -> Models]
  /\ MaxPerModel \in Nat \ {0} /\ BatchMax \in Nat \ {0}
  /\ QueueCap \in Nat \ {0} /\ ChanCap \in Nat \ {0} /\ MaxTokens \in Nat \ {0}

\* What is resident was loaded within the budget.
ASSUME ResidentAssumption == MapThenSumSet(LAMBDA m : Ram[m], Resident) <= Budget

Instances == 1 .. (Cardinality(Resident) + Cardinality(Loaders))

VARIABLES
  models,    \* ModelPool.models: the instance each model id maps to, 0 if absent
  made,      \* how many instances have been created
  active,    \* active_requests of each instance
  permits,   \* free permits of each instance's semaphore
  lru,       \* last_used_at: pairs of instances, the first used before the second
  load,      \* where each LoadModel call is
  victim,    \* the model a load has chosen to evict
  raced,     \* did two loads ever hold room in the budget at once?
  config,    \* the member of Configs the engine was started with
  queue,     \* the scheduler's channel of each model
  head,      \* the request a scheduler has received and not yet spawned
  gate,      \* free permits of each scheduler's gate
  at,        \* where each Generate call is
  handle,    \* the instance a generation holds
  thread,    \* the blocking decode thread of a generation
  pipe,      \* what the thread has sent to the generation task
  chan,      \* what the task has sent to the gRPC forwarder
  produced,  \* tokens produced
  rx,        \* does the forwarder still hold the token receiver?
  gone,      \* has the gateway cancelled the call?
  terminal   \* what ended the stream, as the gateway saw it

poolVars == <<models, made, lru>>
loadVars == <<load, victim, raced>>
schedVars == <<queue, head, gate>>
streamVars == <<thread, pipe, chan, produced, rx, gone, terminal>>
genVars == <<at, handle, active, permits>>
vars == <<poolVars, loadVars, config, schedVars, genVars, streamVars>>

Batching == config[1]
Real == config[2]
LoadsOf == config[3]

LoadStates == {"idle", "sizing", "picking", "unloading", "reading", "inserting", "done", "failed"}
TaskStates == {"new", "queued", "spawned", "held", "touched", "waiting", "decoding", "ended"}
Items == {"token", "final", "error"}

TypeOK ==
  /\ models \in [Models -> {0} \cup Instances]
  /\ made \in 0 .. Cardinality(Instances)
  /\ active \in [Instances -> 0 .. Cardinality(Requests)]
  /\ permits \in [Instances -> 0 .. MaxPerModel]
  /\ lru \subseteq Instances \X Instances
  /\ load \in [Loaders -> LoadStates] /\ victim \in [Loaders -> Models \cup {None}]
  /\ raced \in BOOLEAN
  /\ config \in Configs
  /\ queue \in [Models -> Seq(Requests)] /\ head \in [Models -> Requests \cup {None}]
  /\ gate \in [Models -> 0 .. BatchMax]
  /\ at \in [Requests -> TaskStates] /\ handle \in [Requests -> {0} \cup Instances]
  /\ thread \in [Requests -> {"none", "running", "ended"}]
  /\ pipe \in [Requests -> Seq(Items)] /\ chan \in [Requests -> Seq(Items)]
  /\ produced \in [Requests -> 0 .. MaxTokens]
  /\ rx \in [Requests -> BOOLEAN] /\ gone \in [Requests -> BOOLEAN]
  /\ terminal \in [Requests -> {None, "final", "error"}]

Init ==
  /\ config \in Configs
  \* The models of Resident, loaded one after the other.
  /\ models \in [Models -> 0 .. Cardinality(Resident)]
  /\ \A m \in Models : models[m] = 0 <=> m \notin Resident
  /\ \A m, n \in Resident : m # n => models[m] # models[n]
  /\ made = Cardinality(Resident)
  /\ active = [i \in Instances |-> 0]
  /\ permits = [i \in Instances |-> MaxPerModel]
  /\ lru = {p \in Instances \X Instances : p[1] < p[2]}
  /\ load = [l \in Loaders |-> IF LoadsOf[l] = None THEN "done" ELSE "idle"] /\ victim = [l \in Loaders |-> None]
  /\ raced = FALSE
  /\ queue = [m \in Models |-> <<>>] /\ head = [m \in Models |-> None]
  /\ gate = [m \in Models |-> BatchMax]
  /\ at = [r \in Requests |-> "new"] /\ handle = [r \in Requests |-> 0]
  /\ thread = [r \in Requests |-> "none"]
  /\ pipe = [r \in Requests |-> <<>>] /\ chan = [r \in Requests |-> <<>>]
  /\ produced = [r \in Requests |-> 0]
  /\ rx = [r \in Requests |-> TRUE] /\ gone = [r \in Requests |-> FALSE]
  /\ terminal = [r \in Requests |-> None]

-----------------------------------------------------------------------------
(* Loading and eviction *)

UsedRam == MapThenSumSet(LAMBDA m : Ram[m], {m \in Models : models[m] # 0})

Idle(i) == active[i] = 0

\* last_used_at of an instance becomes now.
UsedLast(i) == lru' = {p \in lru : p[1] # i} \cup {<<j, i>> : j \in Instances \ {i}}

\* unload_model: under the write lock, refused for an unknown or busy model.
Unloadable(m) == models[m] # 0 /\ Idle(models[m])
RemoveModel(m) ==
  /\ models' = [models EXCEPT ![m] = 0]
  /\ UNCHANGED <<made, lru>>

LoadGoes(l, s, t) == load[l] = s /\ load' = [load EXCEPT ![l] = t]

\* load_model: a model that is there answers at once.
LoadChecks(l) ==
  /\ load[l] = "idle"
  /\ \/ models[LoadsOf[l]] # 0 /\ LoadGoes(l, "idle", "done")
     \/ models[LoadsOf[l]] = 0 /\ LoadGoes(l, "idle", "sizing")
  /\ UNCHANGED <<poolVars, victim, raced>>

\* evict_until: compare what is used with the budget ...
EvictSizes(l) ==
  load[l] = "sizing" /\
  LET fits == UsedRam + Ram[LoadsOf[l]] <= Budget
  IN  /\ LoadGoes(l, "sizing", IF fits THEN "reading" ELSE "picking")
      /\ raced' = (raced \/ (fits /\ \E k \in Loaders : load[k] \in {"reading", "inserting"}))
      /\ UNCHANGED <<poolVars, victim>>

\* ... choose the idle model used longest ago, or fail for lack of memory ...
EvictPicks(l) ==
  LET idle == {m \in Models : Unloadable(m)}
  IN  /\ \/ /\ idle = {} /\ LoadGoes(l, "picking", "failed")
            /\ UNCHANGED victim
         \/ \E m \in idle :
              /\ \A n \in idle \ {m} : <<models[m], models[n]>> \in lru
              /\ LoadGoes(l, "picking", "unloading")
              /\ victim' = [victim EXCEPT ![l] = m]
      /\ UNCHANGED <<poolVars, raced>>

\* A mutant: it evicts whatever the map now holds under the chosen name.
EvictRegardless(l) ==
  /\ LoadGoes(l, "unloading", "sizing")
  /\ models[victim[l]] # 0 /\ RemoveModel(victim[l])
  /\ victim' = [victim EXCEPT ![l] = None] /\ UNCHANGED raced

\* ... and unload it, which fails the load if the choice has become stale.
EvictUnloads(l) ==
  /\ load[l] = "unloading"
  /\ IF Unloadable(victim[l])
     THEN LoadGoes(l, "unloading", "sizing") /\ RemoveModel(victim[l])
     ELSE LoadGoes(l, "unloading", "failed") /\ UNCHANGED poolVars
  /\ victim' = [victim EXCEPT ![l] = None] /\ UNCHANGED raced

\* backend::load_model maps the weights; only a real file can fail.
BackendLoads(l) ==
  /\ \/ LoadGoes(l, "reading", "inserting")
     \/ LoadsOf[l] \in Real /\ LoadGoes(l, "reading", "failed")
  /\ UNCHANGED <<poolVars, victim, raced>>

\* The insert replaces whatever the map holds for the model by now.
LoadInserts(l) ==
  LET m == LoadsOf[l] IN
  /\ LoadGoes(l, "inserting", "done")
  /\ made' = made + 1
  /\ models' = [models EXCEPT ![m] = made + 1]
  /\ UsedLast(made + 1)
  /\ UNCHANGED <<victim, raced>>

LoadModel(l) ==
  /\ LoadChecks(l) \/ EvictSizes(l) \/ EvictPicks(l) \/ EvictUnloads(l)
     \/ BackendLoads(l) \/ LoadInserts(l)
  /\ UNCHANGED <<config, schedVars, genVars, streamVars>>

\* The UnloadModel call of an administrator.
UnloadModel(m) ==
  /\ Unloadable(m) /\ RemoveModel(m)
  /\ UNCHANGED <<loadVars, config, schedVars, genVars, streamVars>>

-----------------------------------------------------------------------------
(* Admission into a model's window *)

Goes(r, s, t) == at[r] = s /\ at' = [at EXCEPT ![r] = t]

\* BatchCoordinator::submit: into the model's channel, whose scheduler is
\* started by the first request and never stops, or straight to a task.
Submit(r) ==
  /\ \/ /\ Batching /\ Len(queue[ModelOf[r]]) < QueueCap
        /\ Goes(r, "new", "queued")
        /\ queue' = [queue EXCEPT ![ModelOf[r]] = Append(@, r)]
     \/ ~Batching /\ Goes(r, "new", "spawned") /\ UNCHANGED queue
  /\ UNCHANGED <<head, gate, poolVars, loadVars, config, handle, active, permits, streamVars>>

\* run_scheduler receives in order and waits for a permit with the request in hand.
SchedulerReceives(m) ==
  /\ head[m] = None /\ queue[m] # <<>>
  /\ head' = [head EXCEPT ![m] = Head(queue[m])]
  /\ queue' = [queue EXCEPT ![m] = Tail(@)]
  /\ UNCHANGED <<gate, poolVars, loadVars, config, genVars, streamVars>>

\* A mutant: the task is spawned without its permit.
SpawnUngated(m) ==
  /\ head[m] # None
  /\ Goes(head[m], "queued", "spawned")
  /\ head' = [head EXCEPT ![m] = None]
  /\ gate' = [gate EXCEPT ![m] = IF @ > 0 THEN @ - 1 ELSE @]
  /\ UNCHANGED <<queue, poolVars, loadVars, config, handle, active, permits, streamVars>>

SchedulerSpawns(m) ==
  /\ head[m] # None /\ gate[m] > 0
  /\ gate' = [gate EXCEPT ![m] = @ - 1]
  /\ Goes(head[m], "queued", "spawned")
  /\ head' = [head EXCEPT ![m] = None]
  /\ UNCHANGED <<queue, poolVars, loadVars, config, handle, active, permits, streamVars>>

-----------------------------------------------------------------------------
(* One generation *)

\* A mutant: the permit is forgotten when the receiver is gone.
KeepGate(r) ==
  gate' = IF Batching /\ rx[r] THEN [gate EXCEPT ![ModelOf[r]] = @ + 1] ELSE gate

\* generate_stream returned: the gate's permit is dropped with the task.
DropGate(r) ==
  gate' = IF Batching THEN [gate EXCEPT ![ModelOf[r]] = @ + 1] ELSE gate

\* tx.send of the task: nobody receives once the forwarder has stopped.
Sends(r, item) ==
  /\ rx[r] => Len(chan[r]) < ChanCap
  /\ chan' = IF rx[r] THEN [chan EXCEPT ![r] = Append(@, item)] ELSE chan

\* ensure_loaded clones the instance, or the stream ends with an error.
EnsureLoaded(r) ==
  /\ \/ /\ models[ModelOf[r]] = 0
        /\ Goes(r, "spawned", "ended") /\ Sends(r, "error") /\ DropGate(r)
        /\ UNCHANGED handle
     \/ /\ models[ModelOf[r]] # 0
        /\ Goes(r, "spawned", "held")
        /\ handle' = [handle EXCEPT ![r] = models[ModelOf[r]]]
        /\ UNCHANGED <<gate, chan>>
  /\ UNCHANGED <<poolVars, active, permits, thread, pipe, produced, rx, gone, terminal>>

Touch(r) ==
  /\ Goes(r, "held", "touched")
  /\ UsedLast(handle[r])
  /\ UNCHANGED <<models, made, gate, handle, active, permits, streamVars>>

BeginRequest(r) ==
  /\ Goes(r, "touched", "waiting")
  /\ active' = [active EXCEPT ![handle[r]] = @ + 1]
  /\ UNCHANGED <<poolVars, gate, handle, permits, streamVars>>

\* The instance's semaphore; a real model then decodes on a thread of its own.
AcquirePermit(r) ==
  /\ Goes(r, "waiting", "decoding")
  /\ permits[handle[r]] > 0
  /\ permits' = [permits EXCEPT ![handle[r]] = @ - 1]
  /\ thread' = [thread EXCEPT ![r] = IF ModelOf[r] \in Real THEN "running" ELSE @]
  /\ UNCHANGED <<poolVars, gate, handle, active, pipe, chan, produced, rx, gone, terminal>>

\* The end of generate_stream: end_request and both permits.
Leave(r) ==
  /\ Goes(r, "decoding", "ended")
  /\ active' = [active EXCEPT ![handle[r]] = @ - 1]
  /\ permits' = [permits EXCEPT ![handle[r]] = @ + 1]
  /\ DropGate(r)

Stay == UNCHANGED <<at, active, permits, gate>>

\* What decoding can yield next: the end of generation or a stop sequence, an
\* error of the backend, a further token, or the end at max_tokens.
Yields(r) == {"final"} \cup (IF ModelOf[r] \in Real THEN {"error"} ELSE {})
             \cup (IF produced[r] < MaxTokens THEN {"token"} ELSE {})

Produce(r, item) ==
  produced' = IF item = "token" THEN [produced EXCEPT ![r] = @ + 1] ELSE produced

\* run_llama: one send per token; a send nobody receives ends the thread.
ThreadEmits(r) ==
  /\ thread[r] = "running"
  /\ \E item \in Yields(r) :
       \/ /\ at[r] = "decoding" /\ Len(pipe[r]) < ChanCap
          /\ pipe' = [pipe EXCEPT ![r] = Append(@, item)]
          /\ Produce(r, item)
          /\ thread' = [thread EXCEPT ![r] = IF item = "token" THEN @ ELSE "ended"]
       \/ /\ at[r] = "ended"
          /\ thread' = [thread EXCEPT ![r] = "ended"]
          /\ UNCHANGED <<pipe, produced>>
  /\ UNCHANGED <<poolVars, gate, genVars, chan, rx, gone, terminal>>

\* generate_real relays the thread's items and stops after the last one, an
\* error, or a receiver that is gone; generate_echo produces its own.
RelayItem(r, item) ==
  /\ Sends(r, item)
  /\ IF item # "token" \/ ~rx[r] THEN Leave(r) ELSE Stay

Relay(r) ==
  /\ at[r] = "decoding" /\ pipe[r] # <<>>
  /\ RelayItem(r, Head(pipe[r]))
  /\ pipe' = [pipe EXCEPT ![r] = Tail(@)]
  /\ UNCHANGED <<poolVars, handle, thread, produced, rx, gone, terminal>>

Echo(r) ==
  /\ at[r] = "decoding" /\ ModelOf[r] \notin Real
  /\ \E item \in Yields(r) : RelayItem(r, item) /\ Produce(r, item)
  /\ UNCHANGED <<poolVars, handle, thread, pipe, rx, gone, terminal>>

GenerateStream(r) ==
  /\ EnsureLoaded(r) \/ Touch(r) \/ BeginRequest(r) \/ AcquirePermit(r) \/ Relay(r) \/ Echo(r)
  /\ UNCHANGED <<loadVars, config, queue, head>>

DecodeThread(r) == ThreadEmits(r) /\ UNCHANGED <<loadVars, config, queue, head>>

-----------------------------------------------------------------------------
(* The gRPC stream and its caller *)

\* The forwarder of InferenceService::generate finds out that the call is
\* cancelled when it next sends; it stops after the last chunk.
Forward(r) ==
  /\ rx[r] /\ chan[r] # <<>>
  /\ LET item == Head(chan[r])
         stops == gone[r] \/ item = "final"
     IN  /\ terminal' = IF ~gone[r] /\ item # "token" THEN [terminal EXCEPT ![r] = item] ELSE terminal
         /\ rx' = [rx EXCEPT ![r] = ~stops]
         /\ chan' = [chan EXCEPT ![r] = IF stops THEN <<>> ELSE Tail(@)]
  /\ UNCHANGED <<poolVars, loadVars, config, schedVars, genVars, thread, pipe, produced, gone>>

\* The gateway aborts the call or its deadline passes.
Cancel(r) ==
  /\ at[r] # "new" /\ ~gone[r] /\ terminal[r] = None
  /\ gone' = [gone EXCEPT ![r] = TRUE]
  /\ UNCHANGED <<poolVars, loadVars, config, schedVars, genVars, thread, pipe, chan,
                 produced, rx, terminal>>

Scheduler(m) == SchedulerReceives(m) \/ SchedulerSpawns(m)
Serve(r) == Submit(r) \/ GenerateStream(r) \/ DecodeThread(r) \/ Forward(r)

Next ==
  \/ \E l \in Loaders : LoadModel(l)
  \/ \E m \in Models : UnloadModel(m) \/ Scheduler(m)
  \/ \E r \in Requests : Serve(r) \/ Cancel(r)

Spec == Init /\ [][Next]_vars

\* Tasks, threads and lock holders run; nobody need load, unload or cancel.
FairSpec ==
  /\ Spec
  /\ \A m \in Models : WF_vars(Scheduler(m))
  /\ \A r \in Requests : WF_vars(GenerateStream(r)) /\ WF_vars(Forward(r)) /\ WF_vars(DecodeThread(r))

-----------------------------------------------------------------------------
(* Properties *)

Holders(i) == {r \in Requests : handle[r] = i /\ at[r] \in {"waiting", "decoding"}}
Tasks(m) == {r \in Requests : ModelOf[r] = m /\ at[r] \notin {"new", "queued", "ended"}}

\* active_requests, which alone keeps a model from eviction, counts the
\* generations between begin_request and end_request: it never stays up after a
\* failed, cancelled or finished one, on instances that left the map as well.
ActiveCountsHolders == \A i \in Instances : active[i] = Cardinality(Holders(i))

\* max_concurrent_per_model: no more generations decode on an instance than its
\* semaphore admits, and a permit comes back whichever way a generation ends.
WithinPermits ==
  \A i \in Instances :
    Cardinality({r \in Holders(i) : at[r] = "decoding"}) = MaxPerModel - permits[i]

\* batch_max_sequences: a scheduler outlives the instances of its model, so its
\* window bounds the generations of a model over unloads and reloads, when the
\* per-instance semaphore starts afresh.
WithinWindow ==
  Batching => \A m \in Models : Cardinality(Tasks(m)) <= BatchMax

\* The gateway is told how a stream ended: when the task has ended and nothing
\* is left to forward, a caller who stayed saw a last chunk or an error.
StreamHasAnEnd ==
  \A r \in Requests :
    at[r] = "ended" /\ chan[r] = <<>> /\ ~gone[r] => terminal[r] # None

\* The budget of evict_until is exceeded only when two loads held room in it at
\* the same time: the check and the insert are under different locks.
OverBudgetOnlyByRace == UsedRam > Budget => raced

\* never_evicts_active_model: a model is removed only while no request counts on
\* it, although a load chooses its victim before it removes it.
NeverEvictsActive ==
  [][\A m \in Models : models[m] # 0 /\ models'[m] = 0 => Idle(models[m])]_vars

\* Every submitted generation ends, and its decode thread with it: cancelled
\* ones give back their place in the scheduler's window.
EveryStreamEnds ==
  \A r \in Requests : at[r] # "new" ~> at[r] = "ended" /\ thread[r] # "running"

\* State keeps its types, and the engine's three counters and its budget stay true whichever way loads and
\* generations interleave, fail or are cancelled (model_pool.rs, batching.rs):
\* active_requests is exact, semaphore and window bound what decodes, and the
\* budget is exceeded only when two loads overlapped between check and insert.
EngineCountsAgree ==
  TypeOK /\ ActiveCountsHolders /\ WithinPermits /\ WithinWindow /\ OverBudgetOnlyByRace

\* Every generation ends with its decode thread, and a gateway that stayed is told
\* how (service.rs, batching.rs).
StreamsEnd == EveryStreamEnds /\ []StreamHasAnEnd
=============================================================================

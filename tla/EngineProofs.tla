------------------------------ MODULE EngineProofs ------------------------------
(***************************************************************************)
(* Proofs about what runs models and what knows of them.                    *)
(*                                                                          *)
(* RustEngine, for any models, budget, calls and capacities: its counters   *)
(* bound what they count only if each is exact, so the invariant says so of *)
(* all of them, and that a call which will count on an instance holds one;  *)
(* the budget needs what the loads between check and insert were promised.  *)
(*                                                                          *)
(* ModelAdmin and its panels, for any models, files, prices and bounds: the *)
(* records of a model agree between actions only, so the invariant says for *)
(* each step of each action what its writes have done so far.               *)
(***************************************************************************)
EXTENDS RustEngine, ModelAdmin, FiniteSums

(***************************************************************************)
(* RustEngine                                                               *)
(***************************************************************************)

\* The types the argument needs: without the upper bounds of the counters.
EngineTypes ==
  /\ models \in [Models -> {0} \cup Instances] /\ made \in Nat
  /\ active \in [Instances -> Int] /\ permits \in [Instances -> Nat]
  /\ lru \subseteq Instances \X Instances
  /\ load \in [Loaders -> LoadStates] /\ victim \in [Loaders -> Models \cup {None}]
  /\ raced \in BOOLEAN /\ config \in Configs
  /\ queue \in [Models -> Seq(Requests)] /\ head \in [Models -> Requests \cup {None}]
  /\ gate \in [Models -> Nat]
  /\ at \in [Requests -> TaskStates] /\ handle \in [Requests -> {0} \cup Instances]
  /\ thread \in [Requests -> {"none", "running", "ended"}]
  /\ pipe \in [Requests -> Seq(Items)] /\ chan \in [Requests -> Seq(Items)]
  /\ produced \in [Requests -> 0 .. MaxTokens]
  /\ rx \in [Requests -> BOOLEAN] /\ gone \in [Requests -> BOOLEAN]
  /\ terminal \in [Requests -> {None, "final", "error"}]

\* A load that is under way has a model, and one that unloads a victim.
Loading == {l \in Loaders : load[l] \notin {"done", "failed"}}
LoadHasModel ==
  /\ \A l \in Loading : LoadsOf[l] \in Models
  /\ \A l \in Loaders : load[l] = "unloading" => victim[l] \in Models

\* There is an instance left for every load that may still insert one.
RoomForLoads == made + Cardinality(Loading) <= Cardinality(Instances)

\* The loads between check and insert fit into the budget, unless two raced.
Promised == {l \in Loaders : load[l] \in {"reading", "inserting"}}
InMap == {m \in Models : models[m] # 0}
Within(S, l) == SumOf(Ram, S) + Ram[LoadsOf[l]] <= Budget
BudgetKept ==
  ~raced => /\ \A l, k \in Promised : l = k
            /\ \A S \in SUBSET Models :
                 S = InMap => SumOf(Ram, S) <= Budget /\ \A l \in Promised : Within(S, l)

LoadInv == LoadHasModel /\ RoomForLoads /\ BudgetKept

\* Who counts, or will count, on an instance holds one.
HolderHolds ==
  \A r \in Requests : at[r] \in {"held", "touched", "waiting", "decoding"} => handle[r] \in Instances

\* A scheduler sees requests of its own model only.
QueuesAreOwn ==
  \A m \in Models : /\ head[m] # None => ModelOf[head[m]] = m
                    /\ \A k \in 1 .. Len(queue[m]) : ModelOf[queue[m][k]] = m

\* The gate's permits that are out are with the model's tasks.
GateCountsTasks ==
  Batching => \A m \in Models : Cardinality(Tasks(m)) = BatchMax - gate[m]
GateInRange == ~Batching => \A m \in Models : gate[m] \in 0 .. BatchMax

GenerateInv ==
  HolderHolds /\ QueuesAreOwn /\ ActiveCountsHolders /\ WithinPermits /\ GateCountsTasks /\ GateInRange

USE RustAssumption
USE DEF LoadStates, TaskStates, Items, poolVars, loadVars, schedVars, streamVars, genVars

-----------------------------------------------------------------------------
(* Types *)

\* Instances are numbered: the resident ones first, then one for each load.
LEMMA InstanceNumbers ==
  /\ Cardinality(Resident) \in Nat /\ Cardinality(Loaders) \in Nat
  /\ Instances = 1 .. (Cardinality(Resident) + Cardinality(Loaders))
  /\ Cardinality(Instances) = Cardinality(Resident) + Cardinality(Loaders)
  /\ 1 .. Cardinality(Resident) \subseteq Instances
<1>1. Cardinality(Resident) \in Nat /\ Cardinality(Loaders) \in Nat
  <2>1. IsFiniteSet(Models) /\ IsFiniteSet(Loaders) /\ Resident \subseteq Models
    OBVIOUS
  <2> QED
    BY <2>1, SubsetIsSmaller, FS_CardinalityType
<1>2. PICK n \in Nat, k \in Nat : n = Cardinality(Resident) /\ k = Cardinality(Loaders)
  BY <1>1
<1>3. Cardinality(1 .. n + k) = n + k
  <2>1. PICK s \in Int : s = n + k /\ s >= 0
    OBVIOUS
  <2>2. Cardinality(1 .. s) = IF 1 > s THEN 0 ELSE s - 1 + 1
    BY FS_Interval
  <2> QED
    BY <2>1, <2>2
<1>4. Instances = 1 .. n + k /\ 1 .. n \subseteq Instances
  BY <1>2 DEF Instances
<1> QED
  BY <1>1, <1>2, <1>3, <1>4

\* The chosen configuration fixes batching, real weights and what is loaded.
LEMMA ConfigTypes ==
  ASSUME EngineTypes
  PROVE  /\ Batching \in BOOLEAN /\ Real \subseteq Models
         /\ LoadsOf \in [Loaders -> Models \cup {None}]
<1>1. config \in BOOLEAN \X (SUBSET Models) \X [Loaders -> Models \cup {None}]
  BY DEF EngineTypes
<1> QED
  BY <1>1 DEF Batching, Real, LoadsOf

\* The engine starts well typed.
LEMMA EngineTypesInit == Init => EngineTypes
<1> SUFFICES ASSUME Init PROVE EngineTypes
  OBVIOUS
<1>1. models \in [Models -> {0} \cup Instances] /\ made \in Nat
  BY InstanceNumbers DEF Init
<1>2. /\ active \in [Instances -> Int] /\ permits \in [Instances -> Nat]
      /\ lru \subseteq Instances \X Instances
  BY DEF Init
<1>3. raced \in BOOLEAN /\ rx \in [Requests -> BOOLEAN] /\ gone \in [Requests -> BOOLEAN]
  BY DEF Init
<1>4. /\ load \in [Loaders -> LoadStates] /\ victim \in [Loaders -> Models \cup {None}]
      /\ queue \in [Models -> Seq(Requests)] /\ head \in [Models -> Requests \cup {None}]
      /\ gate \in [Models -> Nat]
  BY DEF Init
<1>5. /\ pipe \in [Requests -> Seq(Items)] /\ chan \in [Requests -> Seq(Items)]
      /\ produced \in [Requests -> 0 .. MaxTokens]
  BY DEF Init
<1> QED
  BY <1>1, <1>2, <1>3, <1>4, <1>5 DEF Init, EngineTypes

\* last_used_at is set of instances.
LEMMA UsedLastType ==
  ASSUME EngineTypes, NEW i \in Instances, UsedLast(i)
  PROVE  lru' \subseteq Instances \X Instances
BY DEF EngineTypes, UsedLast

\* load_model keeps the types, whatever question to the pool it asks next.
LEMMA LoadTypes ==
  ASSUME EngineTypes, LoadInv, NEW l \in Loaders, LoadModel(l)
  PROVE  EngineTypes'
<1>0. UNCHANGED <<config, queue, head, gate, at, handle, active, permits, thread, pipe, chan,
                  produced, rx, gone, terminal>>
  BY DEF LoadModel
<1>1. SUFFICES ASSUME TRUE
               PROVE  /\ models' \in [Models -> {0} \cup Instances] /\ made' \in Nat
                      /\ lru' \subseteq Instances \X Instances
                      /\ load' \in [Loaders -> LoadStates] /\ victim' \in [Loaders -> Models \cup {None}]
                      /\ raced' \in BOOLEAN
  BY <1>0 DEF EngineTypes
<1>2. /\ models \in [Models -> {0} \cup Instances] /\ made \in Nat
      /\ lru \subseteq Instances \X Instances
      /\ load \in [Loaders -> LoadStates] /\ victim \in [Loaders -> Models \cup {None}]
      /\ raced \in BOOLEAN
  BY DEF EngineTypes
<1>3. CASE LoadChecks(l) \/ BackendLoads(l)
  BY <1>2, <1>3 DEF LoadChecks, BackendLoads, LoadGoes
<1>4. CASE EvictSizes(l)
  <2>1. raced' \in BOOLEAN
    BY <1>4, Zenon DEF EvictSizes
  <2> QED
    BY <1>2, <1>4, <2>1 DEF EvictSizes, LoadGoes
<1>5. CASE EvictPicks(l)
  BY <1>2, <1>5 DEF EvictPicks, LoadGoes
<1>6. CASE EvictUnloads(l)
  BY <1>2, <1>6 DEF EvictUnloads, LoadGoes, RemoveModel
<1>7. CASE LoadInserts(l)
  <2>1. made + 1 \in Instances
    <3>1. l \in Loading /\ IsFiniteSet(Loading)
      <4>1. Loading \subseteq Loaders
        BY DEF Loading
      <4> QED
        BY <1>7, <4>1, SubsetIsSmaller DEF LoadInserts, LoadGoes, Loading
    <3>2. Cardinality(Loading) \in Nat /\ Cardinality(Loading) > 0
      BY <3>1, FS_CardinalityType, FS_EmptySet
    <3> QED
      BY <1>2, <3>2, InstanceNumbers DEF LoadInv, RoomForLoads
  <2>2. lru' \subseteq Instances \X Instances
    BY <1>7, <2>1, UsedLastType DEF LoadInserts
  <2>3. PICK m \in Models \cup {None} : m = LoadsOf[l]
    BY ConfigTypes
  <2>4. /\ load' = [load EXCEPT ![l] = "done"] /\ made' = made + 1
        /\ models' = [models EXCEPT ![m] = made + 1] /\ UNCHANGED <<victim, raced>>
    BY <1>7, <2>3 DEF LoadInserts, LoadGoes
  <2>5. models' \in [Models -> {0} \cup Instances] /\ made' \in Nat
    <3>1. PICK i \in Instances : i = made + 1
      BY <2>1
    <3>2. [models EXCEPT ![m] = i] \in [Models -> {0} \cup Instances]
      BY <1>2
    <3> QED
      BY <1>2, <2>4, <3>1, <3>2
  <2>6. load' \in [Loaders -> LoadStates] /\ victim' \in [Loaders -> Models \cup {None}]
    BY <1>2, <2>4
  <2> QED
    BY <1>2, <2>2, <2>4, <2>5, <2>6, Zenon
<1> QED
  BY <1>3, <1>4, <1>5, <1>6, <1>7 DEF LoadModel

\* tx.send keeps the type of the channels.
LEMMA SendsType ==
  ASSUME EngineTypes, NEW r \in Requests, NEW item \in Items, Sends(r, item)
  PROVE  chan' \in [Requests -> Seq(Items)]
<1>1. Append(chan[r], item) \in Seq(Items)
  BY DEF EngineTypes
<1> QED
  BY <1>1 DEF EngineTypes, Sends

\* Dropping a task leaves a window of natural size.
LEMMA DropGateType ==
  ASSUME EngineTypes, NEW r \in Requests, DropGate(r)
  PROVE  gate' \in [Models -> Nat]
BY DEF EngineTypes, DropGate

\* A relayed item moves the task and its counters, and nothing else of it.
LEMMA RelayTypes ==
  ASSUME EngineTypes, HolderHolds, NEW r \in Requests, NEW item \in Items, RelayItem(r, item)
  PROVE  /\ chan' \in [Requests -> Seq(Items)] /\ gate' \in [Models -> Nat]
         /\ at' \in [Requests -> TaskStates]
         /\ active' \in [Instances -> Int] /\ permits' \in [Instances -> Nat]
<1>1. chan' \in [Requests -> Seq(Items)]
  BY SendsType DEF RelayItem
<1>2. CASE Leave(r)
  <2>1. gate' \in [Models -> Nat]
    BY <1>2, DropGateType DEF Leave
  <2>2. handle[r] \in Instances
    BY <1>2 DEF Leave, Goes, HolderHolds
  <2>3. active' \in [Instances -> Int] /\ permits' \in [Instances -> Nat]
    BY <1>2, <2>2 DEF Leave, EngineTypes
  <2>4. at' \in [Requests -> TaskStates]
    BY <1>2 DEF Leave, Goes, EngineTypes
  <2> QED
    BY <1>1, <2>1, <2>3, <2>4
<1>3. CASE Stay
  BY <1>1, <1>3 DEF Stay, EngineTypes
<1> QED
  BY <1>2, <1>3 DEF RelayItem

\* A decoder yields items, at most MaxTokens of them.
LEMMA YieldTypes ==
  ASSUME EngineTypes, NEW r \in Requests, NEW item \in Yields(r), Produce(r, item)
  PROVE  item \in Items /\ produced' \in [Requests -> 0 .. MaxTokens]
<1>1. item \in Items
  BY DEF Yields
<1>2. item = "token" => produced[r] < MaxTokens
  BY DEF Yields
<1> QED
  BY <1>1, <1>2 DEF EngineTypes, Produce

\* unload_model and the scheduler keep the types.
LEMMA SchedulerTypes ==
  ASSUME EngineTypes, NEW m \in Models, UnloadModel(m) \/ Scheduler(m)
  PROVE  EngineTypes'
<1>1. CASE UnloadModel(m)
  <2>1. models' \in [Models -> {0} \cup Instances]
    BY <1>1 DEF EngineTypes, UnloadModel, RemoveModel
  <2>2. UNCHANGED <<made, lru, loadVars, config, schedVars, genVars, streamVars>>
    BY <1>1 DEF UnloadModel, RemoveModel
  <2> QED
    BY <2>1, <2>2 DEF EngineTypes
<1>2. CASE SchedulerReceives(m)
  <2>1. queue[m] \in Seq(Requests) /\ queue[m] # <<>>
    BY <1>2 DEF SchedulerReceives, EngineTypes
  <2>2. Head(queue[m]) \in Requests /\ Tail(queue[m]) \in Seq(Requests)
    BY <2>1
  <2> QED
    BY <1>2, <2>2 DEF SchedulerReceives, EngineTypes
<1>3. CASE SchedulerSpawns(m)
  <2>1. gate' \in [Models -> Nat] /\ at' \in [Requests -> TaskStates]
    BY <1>3 DEF SchedulerSpawns, Goes, EngineTypes
  <2>2. head' \in [Models -> Requests \cup {None}]
    BY <1>3 DEF SchedulerSpawns, EngineTypes
  <2>3. UNCHANGED <<queue, poolVars, loadVars, config, handle, active, permits, streamVars>>
    BY <1>3 DEF SchedulerSpawns
  <2> QED
    BY <2>1, <2>2, <2>3 DEF EngineTypes
<1> QED
  BY <1>1, <1>2, <1>3 DEF Scheduler

\* A generation and a cancelled call keep the types.
LEMMA ServeTypes ==
  ASSUME EngineTypes, HolderHolds, NEW r \in Requests, Serve(r) \/ Cancel(r)
  PROVE  EngineTypes'
<1>1. CASE Submit(r)
  <2>1. CASE /\ Goes(r, "new", "queued")
             /\ queue' = [queue EXCEPT ![ModelOf[r]] = Append(@, r)]
    <3>1. Append(queue[ModelOf[r]], r) \in Seq(Requests)
      BY DEF EngineTypes
    <3> QED
      BY <1>1, <2>1, <3>1 DEF Submit, Goes, EngineTypes
  <2>2. CASE Goes(r, "new", "spawned") /\ UNCHANGED queue
    BY <1>1, <2>2 DEF Submit, Goes, EngineTypes
  <2> QED
    BY <1>1, <2>1, <2>2 DEF Submit
<1>2. CASE EnsureLoaded(r) /\ UNCHANGED <<loadVars, config, queue, head>>
  <2>1. CASE Goes(r, "spawned", "ended") /\ Sends(r, "error") /\ DropGate(r) /\ UNCHANGED handle
    BY <1>2, <2>1, SendsType, DropGateType DEF EnsureLoaded, Goes, EngineTypes
  <2>2. CASE /\ Goes(r, "spawned", "held")
             /\ handle' = [handle EXCEPT ![r] = models[ModelOf[r]]]
             /\ UNCHANGED <<gate, chan>>
    BY <1>2, <2>2 DEF EnsureLoaded, Goes, EngineTypes
  <2> QED
    BY <1>2, <2>1, <2>2 DEF EnsureLoaded
<1>3. CASE Touch(r) /\ UNCHANGED <<loadVars, config, queue, head>>
  <2>1. handle[r] \in Instances
    BY <1>3 DEF Touch, Goes, HolderHolds
  <2>2. lru' \subseteq Instances \X Instances
    BY <1>3, <2>1, UsedLastType DEF Touch
  <2> QED
    BY <1>3, <2>2 DEF Touch, Goes, EngineTypes
<1>4. CASE BeginRequest(r) /\ UNCHANGED <<loadVars, config, queue, head>>
  <2>1. handle[r] \in Instances
    BY <1>4 DEF BeginRequest, Goes, HolderHolds
  <2>2. active' \in [Instances -> Int] /\ at' \in [Requests -> TaskStates]
    BY <1>4, <2>1 DEF BeginRequest, Goes, EngineTypes
  <2>3. UNCHANGED <<poolVars, loadVars, config, queue, head, gate, handle, permits, streamVars>>
    BY <1>4 DEF BeginRequest
  <2> QED
    BY <2>2, <2>3 DEF EngineTypes
<1>5. CASE AcquirePermit(r) /\ UNCHANGED <<loadVars, config, queue, head>>
  <2>1. handle[r] \in Instances
    BY <1>5 DEF AcquirePermit, Goes, HolderHolds
  <2>2. permits' \in [Instances -> Nat] /\ at' \in [Requests -> TaskStates]
    BY <1>5, <2>1 DEF AcquirePermit, Goes, EngineTypes
  <2>3. thread' \in [Requests -> {"none", "running", "ended"}]
    BY <1>5 DEF AcquirePermit, EngineTypes
  <2>4. UNCHANGED <<poolVars, loadVars, config, queue, head, gate, handle, active, pipe, chan,
                    produced, rx, gone, terminal>>
    BY <1>5 DEF AcquirePermit
  <2> QED
    BY <2>2, <2>3, <2>4 DEF EngineTypes
<1>6. CASE Relay(r) /\ UNCHANGED <<loadVars, config, queue, head>>
  <2>1. pipe[r] \in Seq(Items) /\ pipe[r] # <<>>
    BY <1>6 DEF Relay, EngineTypes
  <2>2. Head(pipe[r]) \in Items /\ Tail(pipe[r]) \in Seq(Items)
    BY <2>1
  <2>3. pipe' \in [Requests -> Seq(Items)]
    BY <1>6, <2>2 DEF Relay, EngineTypes
  <2>4. RelayItem(r, Head(pipe[r]))
    BY <1>6 DEF Relay
  <2>5. /\ chan' \in [Requests -> Seq(Items)] /\ gate' \in [Models -> Nat]
        /\ at' \in [Requests -> TaskStates]
        /\ active' \in [Instances -> Int] /\ permits' \in [Instances -> Nat]
    BY <2>2, <2>4, RelayTypes
  <2>6. UNCHANGED <<poolVars, loadVars, config, queue, head, handle, thread, produced, rx, gone, terminal>>
    BY <1>6 DEF Relay
  <2> QED
    BY <2>3, <2>5, <2>6 DEF EngineTypes
<1>7. CASE Echo(r) /\ UNCHANGED <<loadVars, config, queue, head>>
  <2>1. PICK item \in Yields(r) : RelayItem(r, item) /\ Produce(r, item)
    BY <1>7 DEF Echo
  <2>2. item \in Items /\ produced' \in [Requests -> 0 .. MaxTokens]
    BY <2>1, YieldTypes
  <2>3. /\ chan' \in [Requests -> Seq(Items)] /\ gate' \in [Models -> Nat]
        /\ at' \in [Requests -> TaskStates]
        /\ active' \in [Instances -> Int] /\ permits' \in [Instances -> Nat]
    BY <2>1, <2>2, RelayTypes
  <2>4. UNCHANGED <<poolVars, loadVars, config, queue, head, handle, thread, pipe, rx, gone, terminal>>
    BY <1>7 DEF Echo
  <2> QED
    BY <2>2, <2>3, <2>4 DEF EngineTypes
<1>8. CASE DecodeThread(r)
  <2>1. PICK item \in Yields(r) :
           \/ /\ pipe' = [pipe EXCEPT ![r] = Append(@, item)]
              /\ Produce(r, item)
              /\ thread' = [thread EXCEPT ![r] = IF item = "token" THEN @ ELSE "ended"]
           \/ /\ thread' = [thread EXCEPT ![r] = "ended"]
              /\ UNCHANGED <<pipe, produced>>
    BY <1>8 DEF DecodeThread, ThreadEmits
  <2>2. item \in Items
    BY DEF Yields
  <2>3. Append(pipe[r], item) \in Seq(Items)
    BY <2>2 DEF EngineTypes
  <2>4. /\ pipe' \in [Requests -> Seq(Items)]
        /\ produced' \in [Requests -> 0 .. MaxTokens]
        /\ thread' \in [Requests -> {"none", "running", "ended"}]
    <3>1. pipe' \in [Requests -> Seq(Items)]
      BY <2>1, <2>3 DEF EngineTypes
    <3>2. produced' \in [Requests -> 0 .. MaxTokens]
      BY <2>1, YieldTypes DEF EngineTypes
    <3>3. thread' \in [Requests -> {"none", "running", "ended"}]
      BY <2>1 DEF EngineTypes
    <3> QED
      BY <3>1, <3>2, <3>3
  <2> QED
    BY <1>8, <2>4 DEF DecodeThread, ThreadEmits, EngineTypes
<1>9. CASE Forward(r)
  <2>1. chan[r] \in Seq(Items) /\ chan[r] # <<>>
    BY <1>9 DEF Forward, EngineTypes
  <2>2. Head(chan[r]) \in Items /\ Tail(chan[r]) \in Seq(Items) /\ <<>> \in Seq(Items)
    BY <2>1
  <2>3. chan' \in [Requests -> Seq(Items)]
    BY <1>9, <2>2 DEF Forward, EngineTypes
  <2>4. terminal' \in [Requests -> {None, "final", "error"}]
    BY <1>9, <2>2 DEF Forward, EngineTypes
  <2>5. rx' \in [Requests -> BOOLEAN]
    BY <1>9 DEF Forward, EngineTypes
  <2> QED
    BY <1>9, <2>3, <2>4, <2>5 DEF Forward, EngineTypes
<1>10. CASE Cancel(r)
  BY <1>10 DEF Cancel, EngineTypes
<1> QED
  BY <1>1, <1>2, <1>3, <1>4, <1>5, <1>6, <1>7, <1>8, <1>9, <1>10 DEF Serve, GenerateStream

-----------------------------------------------------------------------------
(* Loads and the budget *)

\* The pool's used RAM is the sum over the models in the map, and monotone.
LEMMA RamIsSum ==
  /\ UsedRam = SumOf(Ram, InMap)
  /\ \A S \in SUBSET Models : \A T \in SUBSET S :
       SumOf(Ram, T) \in Nat /\ SumOf(Ram, S) \in Nat /\ SumOf(Ram, T) <= SumOf(Ram, S)
<1>1. UsedRam = SumOf(Ram, InMap)
  BY DEF UsedRam, SumOf, InMap
<1>3. ASSUME NEW S \in SUBSET Models, NEW T \in SUBSET S
      PROVE  SumOf(Ram, T) \in Nat /\ SumOf(Ram, S) \in Nat /\ SumOf(Ram, T) <= SumOf(Ram, S)
  <2>1. IsFiniteSet(S) /\ \A m \in S : Ram[m] \in Nat
    BY FS_Subset
  <2> QED
    BY <2>1, SumOfPart
<1> QED
  BY <1>1, <1>3

\* One model more adds at most its own RAM.
LEMMA RamGrowsByOne ==
  ASSUME NEW S \in SUBSET Models, NEW m \in Models
  PROVE  SumOf(Ram, S \cup {m}) <= SumOf(Ram, S) + Ram[m] /\ SumOf(Ram, S) \in Nat /\ Ram[m] \in Nat
<1>1. CASE m \in S
  <2>1. S \cup {m} = S
    BY <1>1
  <2> QED
    BY <2>1, RamIsSum
<1>2. CASE m \notin S
  <2> DEFINE T == S \cup {m}
  <2>1. IsFiniteSet(T) /\ (\A x \in T : Ram[x] \in Int) /\ m \in T /\ T \ {m} = S
    BY <1>2, FS_Subset
  <2> HIDE DEF T
  <2>2. SumOf(Ram, T) = Ram[m] + SumOf(Ram, S)
    BY <2>1, SumRemove
  <2> QED
    BY <2>2, RamIsSum DEF T
<1> QED
  BY <1>1, <1>2

\* At the start the loads to come have their models, and the resident ones fit.
LEMMA LoadInvInit == Init => LoadInv
<1> SUFFICES ASSUME Init PROVE LoadInv
  OBVIOUS
<1>0. EngineTypes
  BY EngineTypesInit
<1>1. LoadHasModel
  <2>1. \A l \in Loading : LoadsOf[l] # None
    BY DEF Init, Loading
  <2> QED
    BY <1>0, <2>1, ConfigTypes DEF Init, LoadHasModel, Loading
<1>2. RoomForLoads
  <2>1. Loading \subseteq Loaders
    BY DEF Loading
  <2>2. Cardinality(Loading) \in Nat /\ Cardinality(Loading) <= Cardinality(Loaders)
    BY <2>1, SubsetIsSmaller
  <2> QED
    BY <2>2, InstanceNumbers DEF Init, RoomForLoads
<1>3. BudgetKept
  <2>1. InMap = Resident
    BY DEF Init, InMap
  <2>2. SumOf(Ram, Resident) <= Budget
    BY ResidentAssumption DEF SumOf
  <2>3. Promised = {}
    BY DEF Init, Promised
  <2> QED
    BY <2>1, <2>2, <2>3, RamIsSum DEF BudgetKept
<1> QED
  BY <1>1, <1>2, <1>3 DEF LoadInv

\* A step of no load that inserts nothing.
LEMMA UnloadKeeps ==
  ASSUME EngineTypes, LoadInv, UNCHANGED <<loadVars, config, made>>, InMap' \subseteq InMap
  PROVE  LoadInv'
<1>1. Loading' = Loading /\ Promised' = Promised /\ LoadsOf' = LoadsOf
  BY DEF Loading, Promised, LoadsOf
<1>2. InMap \in SUBSET Models /\ InMap' \in SUBSET InMap
  BY DEF InMap
<1>3. PICK M \in SUBSET Models : M = InMap
  BY <1>2
<1>4. BudgetKept'
  <2>1. \A l \in Promised : LoadsOf[l] \in Models
    BY DEF LoadInv, LoadHasModel, Promised, Loading
  <2>2. \A l \in Promised : Ram[LoadsOf[l]] \in Nat
    BY <2>1
  <2>3. ASSUME ~raced, NEW S \in SUBSET Models, S = InMap'
        PROVE  SumOf(Ram, S) <= Budget /\ \A l \in Promised : SumOf(Ram, S) + Ram[LoadsOf[l]] <= Budget
    <3>1. S \in SUBSET M
      BY <1>2, <1>3, <2>3
    <3>2. SumOf(Ram, S) <= SumOf(Ram, M) /\ SumOf(Ram, S) \in Nat /\ SumOf(Ram, M) \in Nat
      BY <3>1, RamIsSum
    <3>3. SumOf(Ram, M) <= Budget /\ \A l \in Promised : SumOf(Ram, M) + Ram[LoadsOf[l]] <= Budget
      BY <1>3, <2>3 DEF LoadInv, BudgetKept, Within
    <3> QED
      BY <2>2, <3>2, <3>3
  <2> QED
    BY <1>1, <2>3 DEF LoadInv, BudgetKept, Within
<1> QED
  BY <1>1, <1>4 DEF LoadInv, LoadHasModel, RoomForLoads

\* Each step of load_model keeps its promise of a model and of room.
LEMMA LoadKeeps ==
  ASSUME EngineTypes, LoadInv, NEW l \in Loaders, LoadModel(l)
  PROVE  LoadInv'
<1>0. /\ models \in [Models -> {0} \cup Instances] /\ made \in Nat
      /\ load \in [Loaders -> LoadStates] /\ victim \in [Loaders -> Models \cup {None}]
      /\ raced \in BOOLEAN /\ LoadsOf' = LoadsOf
      /\ l \in Loading /\ LoadsOf[l] \in Models /\ Ram[LoadsOf[l]] \in Nat
  <2>1. l \in Loading
    BY DEF LoadModel, LoadChecks, EvictSizes, EvictPicks, EvictUnloads, BackendLoads, LoadInserts,
           LoadGoes, Loading
  <2>2. LoadsOf[l] \in Models
    BY <2>1 DEF LoadInv, LoadHasModel
  <2>3. LoadsOf' = LoadsOf
    BY DEF LoadModel, LoadsOf
  <2> QED
    BY <2>1, <2>2, <2>3 DEF EngineTypes
<1>1. PICK t \in LoadStates : load' = [load EXCEPT ![l] = t]
  BY DEF LoadModel, LoadChecks, EvictSizes, EvictPicks, EvictUnloads, BackendLoads, LoadInserts, LoadGoes
<1>2. IsFiniteSet(Loading) /\ Cardinality(Loading) \in Nat
  <2>1. Loading \subseteq Loaders
    BY DEF Loading
  <2> QED
    BY <2>1, SubsetIsSmaller
<1>3. Loading' = IF t \in {"done", "failed"} THEN Loading \ {l} ELSE Loading
  BY <1>0, <1>1 DEF Loading
<1>4. Cardinality(Loading \ {l}) = Cardinality(Loading) - 1
  BY <1>0, <1>2, FS_RemoveElement
<1>5. RoomForLoads'
  <2>0. PICK n \in Nat, k \in Nat : n = Cardinality(Loading) /\ k = Cardinality(Loading')
                                   /\ k = IF t \in {"done", "failed"} THEN n - 1 ELSE n
    <3>1. Cardinality(Loading \ {l}) \in Nat
      BY <1>2, SubsetIsSmaller
    <3> QED
      BY <1>2, <1>3, <1>4, <3>1
  <2>1. CASE LoadInserts(l)
    <3>1. made' = made + 1 /\ t = "done"
      BY <1>0, <1>1, <2>1 DEF LoadInserts, LoadGoes
    <3> QED
      BY <1>0, <2>0, <3>1, InstanceNumbers DEF LoadInv, RoomForLoads
  <2>2. CASE made' = made
    BY <1>0, <2>0, <2>2, InstanceNumbers DEF LoadInv, RoomForLoads
  <2> QED
    BY <2>1, <2>2 DEF LoadModel, LoadChecks, EvictSizes, EvictPicks, EvictUnloads, RemoveModel, BackendLoads
<1>6. LoadHasModel'
  <2>1. \A k \in Loading' : LoadsOf'[k] \in Models
    BY <1>0, <1>3 DEF LoadInv, LoadHasModel
  <2>2. \A k \in Loaders : load'[k] = "unloading" => victim'[k] \in Models
    <3>1. CASE EvictPicks(l)
      BY <1>0, <3>1 DEF EvictPicks, LoadGoes, LoadInv, LoadHasModel
    <3>2. CASE t # "unloading" /\ (victim' = victim \/ victim' = [victim EXCEPT ![l] = None])
      BY <1>0, <1>1, <3>2 DEF LoadInv, LoadHasModel
    <3>3. ~EvictPicks(l) => t # "unloading"
      BY <1>0, <1>1 DEF LoadModel, LoadChecks, EvictSizes, EvictUnloads, BackendLoads, LoadInserts, LoadGoes
    <3>4. ~EvictPicks(l) => victim' = victim \/ victim' = [victim EXCEPT ![l] = None]
      BY DEF LoadModel, LoadChecks, EvictSizes, EvictUnloads, BackendLoads, LoadInserts
    <3> QED
      BY <3>1, <3>2, <3>3, <3>4
  <2> QED
    BY <2>1, <2>2 DEF LoadHasModel
<1>7. PICK M \in SUBSET Models : M = InMap /\ SumOf(Ram, M) \in Nat /\ UsedRam = SumOf(Ram, M)
  <2>1. InMap \in SUBSET Models
    BY DEF InMap
  <2> QED
    BY <2>1, RamIsSum
<1>8. Promised' = IF t \in {"reading", "inserting"} THEN Promised \cup {l} ELSE Promised \ {l}
  BY <1>0, <1>1 DEF Promised
<1>9. \A k \in Promised : Ram[LoadsOf[k]] \in Nat
  <2>1. \A k \in Promised : LoadsOf[k] \in Models
    BY DEF LoadInv, LoadHasModel, Promised, Loading
  <2> QED
    BY <2>1
<1>10. ~raced => /\ \A k, j \in Promised : k = j
                 /\ SumOf(Ram, M) <= Budget
                 /\ \A k \in Promised : SumOf(Ram, M) + Ram[LoadsOf[k]] <= Budget
  BY <1>7 DEF LoadInv, BudgetKept, Within
<1>11. ASSUME ~raced' => /\ \A k, j \in Promised' : k = j
                         /\ \A S \in SUBSET Models : S = InMap' =>
                              /\ SumOf(Ram, S) <= Budget
                              /\ \A k \in Promised' : SumOf(Ram, S) + Ram[LoadsOf[k]] <= Budget
       PROVE  LoadInv'
  <2>1. BudgetKept'
    BY <1>0, <1>11 DEF BudgetKept, Within
  <2> QED
    BY <1>5, <1>6, <2>1 DEF LoadInv
<1>12. CASE EvictSizes(l)
  <2>1. InMap' = M
    BY <1>7, <1>12 DEF EvictSizes, InMap
  <2> DEFINE fits == UsedRam + Ram[LoadsOf[l]] <= Budget
  <2>2. /\ t = IF fits THEN "reading" ELSE "picking"
        /\ ~raced' => ~raced /\ (fits => Promised = {})
    <3>1. raced' = (raced \/ (fits /\ \E k \in Loaders : load[k] \in {"reading", "inserting"}))
      BY <1>12 DEF EvictSizes
    <3>2. ~raced' => ~raced /\ (fits => Promised = {})
      BY <3>1 DEF Promised
    <3> QED
      BY <1>0, <1>1, <1>12, <3>2 DEF EvictSizes, LoadGoes
  <2>3. fits => SumOf(Ram, M) + Ram[LoadsOf[l]] <= Budget
    BY <1>7
  <2> HIDE DEF fits
  <2>4. CASE fits
    <3>1. Promised' = Promised \cup {l}
      BY <1>8, <2>2, <2>4
    <3> QED
      BY <1>10, <1>11, <2>1, <2>2, <2>3, <2>4, <3>1
  <2>5. CASE ~fits
    <3>1. Promised' \subseteq Promised
      BY <1>8, <2>2, <2>5
    <3> QED
      BY <1>10, <1>11, <2>1, <2>2, <3>1
  <2> QED
    BY <2>4, <2>5
<1>13. CASE LoadInserts(l)
  <2>1. t = "done" /\ l \in Promised /\ raced' = raced
    BY <1>0, <1>1, <1>13 DEF LoadInserts, LoadGoes, Promised
  <2>2. InMap' = M \cup {LoadsOf[l]}
    BY <1>0, <1>7, <1>13 DEF LoadInserts, InMap
  <2>3. SumOf(Ram, M \cup {LoadsOf[l]}) <= SumOf(Ram, M) + Ram[LoadsOf[l]]
    BY <1>0, RamGrowsByOne
  <2>4. SumOf(Ram, M \cup {LoadsOf[l]}) \in Nat
    <3>1. M \cup {LoadsOf[l]} \in SUBSET Models
      BY <1>0
    <3> QED
      BY <3>1, RamIsSum
  <2>5. ~raced' => Promised' = {}
    BY <1>8, <1>10, <2>1
  <2>6. ~raced' => SumOf(Ram, M \cup {LoadsOf[l]}) <= Budget
    BY <1>0, <1>7, <1>10, <2>1, <2>3, <2>4
  <2> QED
    BY <1>11, <2>2, <2>5, <2>6
<1>14. CASE LoadChecks(l) \/ EvictPicks(l) \/ EvictUnloads(l) \/ BackendLoads(l)
  <2>1. InMap' \in SUBSET M /\ raced' = raced
    BY <1>0, <1>7, <1>14 DEF LoadChecks, EvictPicks, EvictUnloads, RemoveModel, BackendLoads, InMap
  <2>2. Promised' \subseteq Promised
    <3>1. t \in {"reading", "inserting"} => l \in Promised
      BY <1>0, <1>1, <1>14 DEF LoadChecks, EvictPicks, EvictUnloads, BackendLoads, LoadGoes, Promised
    <3> QED
      BY <1>8, <3>1
  <2>3. ASSUME ~raced, NEW S \in SUBSET Models, S = InMap'
        PROVE  /\ SumOf(Ram, S) <= Budget
               /\ \A k \in Promised' : SumOf(Ram, S) + Ram[LoadsOf[k]] <= Budget
    <3>1. SumOf(Ram, S) <= SumOf(Ram, M) /\ SumOf(Ram, S) \in Nat
      BY <2>1, <2>3, RamIsSum
    <3> QED
      BY <1>7, <1>9, <1>10, <2>2, <2>3, <3>1
  <2> QED
    BY <1>10, <1>11, <2>1, <2>2, <2>3
<1> QED
  BY <1>12, <1>13, <1>14 DEF LoadModel

-----------------------------------------------------------------------------
(* Generations and their counters *)

Decoders(i) == {r \in Holders(i) : at[r] = "decoding"}

\* Everything the counters count is a finite set.
LEMMA CountedAreFinite ==
  /\ \A i \in Instances : IsFiniteSet(Holders(i)) /\ Cardinality(Holders(i)) \in Nat
  /\ \A i \in Instances : IsFiniteSet(Decoders(i)) /\ Cardinality(Decoders(i)) \in Nat
  /\ \A m \in Models : IsFiniteSet(Tasks(m)) /\ Cardinality(Tasks(m)) \in Nat
<1>1. \A S : S \subseteq Requests => IsFiniteSet(S) /\ Cardinality(S) \in Nat
  <2>1. IsFiniteSet(Requests)
    OBVIOUS
  <2> QED
    BY <2>1, SubsetIsSmaller
<1>2. /\ \A i \in Instances : Holders(i) \subseteq Requests /\ Decoders(i) \subseteq Requests
      /\ \A m \in Models : Tasks(m) \subseteq Requests
  BY DEF Holders, Decoders, Tasks
<1> QED
  BY <1>1, <1>2

\* One more and one fewer of a finite set.
LEMMA CountUp ==
  ASSUME NEW S, IsFiniteSet(S), NEW x, x \notin S
  PROVE  Cardinality(S \cup {x}) = Cardinality(S) + 1
BY FS_AddElement

\* And one fewer.
LEMMA CountDown ==
  ASSUME NEW S, IsFiniteSet(S), NEW x \in S
  PROVE  Cardinality(S \ {x}) = Cardinality(S) - 1
BY FS_RemoveElement

\* At the start every counter is exact: nothing runs.
LEMMA GenerateInvInit == Init => GenerateInv
<1> SUFFICES ASSUME Init PROVE GenerateInv
  OBVIOUS
<1>1. HolderHolds
  BY DEF Init, HolderHolds
<1>2. QueuesAreOwn
  BY DEF Init, QueuesAreOwn
<1>3. /\ \A i \in Instances : Holders(i) = {} /\ {r \in Holders(i) : at[r] = "decoding"} = {}
      /\ \A m \in Models : Tasks(m) = {}
  BY DEF Init, Holders, Tasks
<1>4. Cardinality({}) = 0
  BY FS_EmptySet
<1>5. /\ \A i \in Instances : active[i] = 0 /\ permits[i] = MaxPerModel
      /\ \A m \in Models : gate[m] = BatchMax
      /\ MaxPerModel - MaxPerModel = 0 /\ BatchMax - BatchMax = 0 /\ BatchMax \in 0 .. BatchMax
  BY DEF Init
<1>6. ActiveCountsHolders /\ WithinPermits
  BY <1>3, <1>4, <1>5 DEF ActiveCountsHolders, WithinPermits
<1>7. GateCountsTasks /\ GateInRange
  BY <1>3, <1>4, <1>5 DEF GateCountsTasks, GateInRange
<1> QED
  BY <1>1, <1>2, <1>6, <1>7 DEF GenerateInv

\* A step that moves no generation.
LEMMA CountsUntouched ==
  ASSUME EngineTypes, GenerateInv, UNCHANGED <<config, queue, head, gate, at, handle, active, permits>>
  PROVE  GenerateInv'
<1>1. \A i \in Instances : Holders(i)' = Holders(i)
                           /\ {r \in Holders(i) : at[r] = "decoding"}' = {r \in Holders(i) : at[r] = "decoding"}
  BY DEF Holders
<1>2. \A m \in Models : Tasks(m)' = Tasks(m)
  BY DEF Tasks
<1>3. Batching' = Batching
  BY DEF Batching
<1>4. HolderHolds' /\ QueuesAreOwn'
  BY DEF GenerateInv, HolderHolds, QueuesAreOwn
<1>5. ActiveCountsHolders' /\ WithinPermits'
  BY <1>1 DEF GenerateInv, ActiveCountsHolders, WithinPermits
<1>6. GateCountsTasks' /\ GateInRange'
  BY <1>2, <1>3 DEF GenerateInv, GateCountsTasks, GateInRange
<1> QED
  BY <1>4, <1>5, <1>6 DEF GenerateInv

\* What a generation's step from one place to another does to the sets counted.
LEMMA MoveSets ==
  ASSUME EngineTypes, NEW r \in Requests, NEW s, NEW t \in TaskStates, Goes(r, s, t),
         handle' = handle \/ {s, t} \cap {"waiting", "decoding"} = {},
         \A q \in Requests \ {r} : handle'[q] = handle[q]
  PROVE  /\ \A i \in Instances :
              /\ Holders(i)' = IF t \in {"waiting", "decoding"} /\ handle[r] = i
                               THEN Holders(i) \cup {r} ELSE Holders(i) \ {r}
              /\ Decoders(i)' = IF t = "decoding" /\ handle[r] = i
                                THEN Decoders(i) \cup {r} ELSE Decoders(i) \ {r}
         /\ \A m \in Models :
              Tasks(m)' = IF t \notin {"new", "queued", "ended"} /\ ModelOf[r] = m
                          THEN Tasks(m) \cup {r} ELSE Tasks(m) \ {r}
<1>1. /\ at[r] = s /\ \A q \in Requests : at'[q] = IF q = r THEN t ELSE at[q]
  BY DEF EngineTypes, Goes
<1>2. \A m \in Models :
        Tasks(m)' = IF t \notin {"new", "queued", "ended"} /\ ModelOf[r] = m
                    THEN Tasks(m) \cup {r} ELSE Tasks(m) \ {r}
  BY <1>1 DEF Tasks
<1>3. /\ \A q \in Requests \ {r} : handle'[q] = handle[q] /\ at'[q] = at[q]
      /\ t \in {"waiting", "decoding"} => handle'[r] = handle[r]
      /\ at'[r] = t
  BY <1>1
<1>4. ASSUME NEW i \in Instances
      PROVE  Holders(i)' = IF t \in {"waiting", "decoding"} /\ handle[r] = i
                           THEN Holders(i) \cup {r} ELSE Holders(i) \ {r}
  <2>1. \A q \in Requests \ {r} : q \in Holders(i)' <=> q \in Holders(i)
    BY <1>3 DEF Holders
  <2>2. r \in Holders(i)' <=> t \in {"waiting", "decoding"} /\ handle[r] = i
    BY <1>3 DEF Holders
  <2>3. Holders(i)' \subseteq Requests /\ Holders(i) \subseteq Requests
    BY DEF Holders
  <2> HIDE DEF Holders
  <2> QED
    BY <2>1, <2>2, <2>3
<1>5. ASSUME NEW i \in Instances
      PROVE  Decoders(i)' = IF t = "decoding" /\ handle[r] = i
                            THEN Decoders(i) \cup {r} ELSE Decoders(i) \ {r}
  <2>1. \A q \in Requests \ {r} : q \in Decoders(i)' <=> q \in Decoders(i)
    BY <1>3 DEF Holders, Decoders
  <2>2. r \in Decoders(i)' <=> t = "decoding" /\ handle[r] = i
    BY <1>3 DEF Holders, Decoders
  <2>3. Decoders(i)' \subseteq Requests /\ Decoders(i) \subseteq Requests
    BY DEF Holders, Decoders
  <2> QED
    BY <2>1, <2>2, <2>3
<1> QED
  BY <1>2, <1>4, <1>5

\* The counters agree with the sets they count, after the step.
CountsAgree ==
  /\ \A i \in Instances : active[i] = Cardinality(Holders(i))
  /\ \A i \in Instances : Cardinality(Decoders(i)) = MaxPerModel - permits[i]
  /\ Batching => \A m \in Models : Cardinality(Tasks(m)) = BatchMax - gate[m]

\* CountsAgree is the three properties of counters, now and in the next state.
LEMMA CountsAgreeMeans ==
  /\ CountsAgree <=> ActiveCountsHolders /\ WithinPermits /\ GateCountsTasks
  /\ CountsAgree' <=> ActiveCountsHolders' /\ WithinPermits' /\ GateCountsTasks'
BY DEF CountsAgree, ActiveCountsHolders, WithinPermits, GateCountsTasks, Decoders

\* The gate when a task is dropped: the window has one task fewer.
LEMMA GateDropped ==
  ASSUME EngineTypes, GenerateInv, config' = config, NEW r \in Requests, DropGate(r),
         at[r] \notin {"new", "queued", "ended"},
         \A m \in Models : Tasks(m)' = Tasks(m) \ {r}
  PROVE  (Batching' => \A m \in Models : Cardinality(Tasks(m)') = BatchMax - gate'[m]) /\ GateInRange'
<1>1. Batching' = Batching /\ Batching \in BOOLEAN
  BY ConfigTypes DEF Batching
<1>2. CASE Batching
  <2> SUFFICES ASSUME NEW m \in Models PROVE Cardinality(Tasks(m)') = BatchMax - gate'[m]
    BY <1>1, <1>2 DEF GateInRange
  <2>1. /\ gate \in [Models -> Nat] /\ ModelOf[r] \in Models
        /\ gate' = [gate EXCEPT ![ModelOf[r]] = @ + 1]
        /\ Cardinality(Tasks(m)) = BatchMax - gate[m]
    BY <1>2 DEF EngineTypes, DropGate, GenerateInv, GateCountsTasks
  <2>2. CASE ModelOf[r] = m
    <3>1. r \in Tasks(m) /\ IsFiniteSet(Tasks(m))
      BY <2>2, CountedAreFinite DEF Tasks
    <3>2. Cardinality(Tasks(m)') = Cardinality(Tasks(m)) - 1
      BY <3>1, CountDown
    <3> QED
      BY <2>1, <2>2, <3>2
  <2>3. CASE ModelOf[r] # m
    <3>1. r \notin Tasks(m)
      BY <2>3 DEF Tasks
    <3>2. Tasks(m)' = Tasks(m)
      BY <3>1
    <3> QED
      BY <2>1, <2>3, <3>2
  <2> QED
    BY <2>2, <2>3
<1>3. CASE ~Batching
  BY <1>1, <1>3 DEF GateInRange, GenerateInv, DropGate
<1> QED
  BY <1>1, <1>2, <1>3

\* end_request and both permits.
LEMMA LeaveKeeps ==
  ASSUME EngineTypes, GenerateInv, NEW r \in Requests, Leave(r), UNCHANGED <<config, queue, head, handle>>
  PROVE  GenerateInv'
<1>1. Goes(r, "decoding", "ended") /\ at[r] = "decoding" /\ handle[r] \in Instances
  BY DEF Leave, Goes, GenerateInv, HolderHolds
<1>2. /\ \A i \in Instances : Holders(i)' = Holders(i) \ {r} /\ Decoders(i)' = Decoders(i) \ {r}
      /\ \A m \in Models : Tasks(m)' = Tasks(m) \ {r}
  BY <1>1, MoveSets
<1>3. CountsAgree
  BY CountsAgreeMeans DEF GenerateInv
<1>4. ASSUME NEW i \in Instances
      PROVE  /\ active'[i] = Cardinality(Holders(i)')
             /\ Cardinality(Decoders(i)') = MaxPerModel - permits'[i]
  <2>1. /\ active'[i] = IF i = handle[r] THEN active[i] - 1 ELSE active[i]
        /\ permits'[i] = IF i = handle[r] THEN permits[i] + 1 ELSE permits[i]
        /\ permits[i] \in Int /\ active[i] \in Int
    BY <1>1 DEF Leave, EngineTypes
  <2>2. CASE i = handle[r]
    <3>1. r \in Holders(i) /\ r \in Decoders(i)
      BY <1>1, <2>2 DEF Holders, Decoders
    <3>2. /\ Cardinality(Holders(i)') = Cardinality(Holders(i)) - 1
          /\ Cardinality(Decoders(i)') = Cardinality(Decoders(i)) - 1
      BY <1>2, <3>1, CountedAreFinite, CountDown
    <3> QED
      BY <1>3, <2>1, <2>2, <3>2 DEF CountsAgree
  <2>3. CASE i # handle[r]
    <3>1. r \notin Holders(i) /\ r \notin Decoders(i)
      BY <2>3 DEF Holders, Decoders
    <3>2. \A S, T : T = S \ {r} /\ r \notin S => T = S
      BY Zenon
    <3>3. Holders(i)' = Holders(i) \ {r} /\ Decoders(i)' = Decoders(i) \ {r}
      BY <1>2, Zenon
    <3>4. Holders(i)' = Holders(i) /\ Decoders(i)' = Decoders(i)
      BY <3>1, <3>2, <3>3, Zenon
    <3> QED
      BY <1>3, <2>1, <2>3, <3>4 DEF CountsAgree
  <2> QED
    BY <2>2, <2>3
<1>5. (Batching' => \A m \in Models : Cardinality(Tasks(m)') = BatchMax - gate'[m]) /\ GateInRange'
  BY <1>1, <1>2, GateDropped DEF Leave
<1>6. CountsAgree'
  BY <1>4, <1>5 DEF CountsAgree
<1>7. HolderHolds' /\ QueuesAreOwn'
  BY DEF GenerateInv, HolderHolds, QueuesAreOwn, Leave, Goes, EngineTypes
<1> QED
  BY <1>5, <1>6, <1>7, CountsAgreeMeans DEF GenerateInv

\* A step of one generation that is neither counted nor uncounted by it.
LEMMA QuietMove ==
  ASSUME EngineTypes, GenerateInv, NEW r \in Requests, NEW s \in TaskStates, NEW t \in TaskStates, Goes(r, s, t),
         \/ {s, t} \subseteq {"new", "queued"}
         \/ {s, t} \subseteq {"spawned", "held", "touched"}
         \/ s = "new" /\ t = "spawned" /\ ~Batching,
         handle' = handle \/ s = "spawned",
         \A q \in Requests \ {r} : handle'[q] = handle[q],
         UNCHANGED <<config, gate, active, permits>>
  PROVE  CountsAgree' /\ GateInRange'
<1>1. at[r] = s /\ s \notin {"waiting", "decoding", "ended"} /\ t \notin {"waiting", "decoding", "ended"}
  BY DEF Goes
<1>2. /\ \A i \in Instances : Holders(i)' = Holders(i) \ {r} /\ Decoders(i)' = Decoders(i) \ {r}
      /\ \A m \in Models : Tasks(m)' = IF t \notin {"new", "queued", "ended"} /\ ModelOf[r] = m
                                       THEN Tasks(m) \cup {r} ELSE Tasks(m) \ {r}
  BY <1>1, MoveSets
<1>3. \A i \in Instances : Holders(i)' = Holders(i) /\ Decoders(i)' = Decoders(i)
  <2>1. \A i \in Instances : r \notin Holders(i) /\ r \notin Decoders(i)
    BY <1>1 DEF Holders, Decoders
  <2>2. \A S, T : T = S \ {r} /\ r \notin S => T = S
    OBVIOUS
  <2> QED
    BY <1>2, <2>1, <2>2, Zenon
<1>4. Batching' = Batching
  BY DEF Batching
<1>5. Batching => \A m \in Models : Tasks(m)' = Tasks(m)
  <2>1. \A m \in Models : r \in Tasks(m) <=> s \notin {"new", "queued", "ended"} /\ ModelOf[r] = m
    BY <1>1 DEF Tasks
  <2>2. Batching => (s \notin {"new", "queued", "ended"} <=> t \notin {"new", "queued", "ended"})
    OBVIOUS
  <2>3. ASSUME Batching, NEW m \in Models PROVE Tasks(m)' = Tasks(m)
    <3>0. Tasks(m)' = IF r \in Tasks(m) THEN Tasks(m) \cup {r} ELSE Tasks(m) \ {r}
      BY <1>2, <2>1, <2>2, <2>3, Zenon
    <3>1. CASE r \in Tasks(m)
      <4>1. Tasks(m)' = Tasks(m) \cup {r}
        BY <3>0, <3>1
      <4> QED
        BY <3>1, <4>1
    <3>2. CASE r \notin Tasks(m)
      <4>1. Tasks(m)' = Tasks(m) \ {r}
        BY <3>0, <3>2
      <4> QED
        BY <3>2, <4>1
    <3> QED
      BY <3>1, <3>2
  <2> QED
    BY <2>3
<1>6. CountsAgree
  BY CountsAgreeMeans DEF GenerateInv
<1> QED
  BY <1>3, <1>4, <1>5, <1>6 DEF CountsAgree, GateInRange, GenerateInv

\* The scheduler admits at most what the window has room for.
LEMMA SchedulerKeeps ==
  ASSUME EngineTypes, GenerateInv, NEW m \in Models, Scheduler(m)
  PROVE  GenerateInv'
<1>0. QueuesAreOwn /\ CountsAgree
  BY CountsAgreeMeans DEF GenerateInv
<1>1. CASE SchedulerReceives(m)
  <2>1. UNCHANGED <<config, gate, at, handle, active, permits>>
    BY <1>1 DEF SchedulerReceives
  <2>2. /\ queue[m] \in Seq(Requests) /\ queue[m] # <<>>
        /\ head' = [head EXCEPT ![m] = Head(queue[m])] /\ queue' = [queue EXCEPT ![m] = Tail(queue[m])]
    BY <1>1 DEF SchedulerReceives, EngineTypes
  <2>3. /\ Len(queue[m]) \in Nat /\ Len(queue[m]) > 0 /\ Head(queue[m]) = queue[m][1]
        /\ Len(Tail(queue[m])) = Len(queue[m]) - 1
        /\ \A k \in 1 .. Len(Tail(queue[m])) : Tail(queue[m])[k] = queue[m][k + 1]
    BY <2>2
  <2>4. \A k \in 1 .. Len(queue[m]) : ModelOf[queue[m][k]] = m
    BY <1>0 DEF QueuesAreOwn
  <2>5. /\ ModelOf[Head(queue[m])] = m
        /\ \A k \in 1 .. Len(Tail(queue[m])) : ModelOf[Tail(queue[m])[k]] = m
    BY <2>3, <2>4
  <2>6. QueuesAreOwn'
    <3>1. \A n \in Models : /\ head'[n] = IF n = m THEN Head(queue[m]) ELSE head[n]
                            /\ queue'[n] = IF n = m THEN Tail(queue[m]) ELSE queue[n]
      BY <2>2 DEF EngineTypes
    <3>2. ASSUME NEW n \in Models, n # m
          PROVE  /\ head'[n] # None => ModelOf[head'[n]] = n
                 /\ \A k \in 1 .. Len(queue'[n]) : ModelOf[queue'[n][k]] = n
      BY <1>0, <3>1, <3>2 DEF QueuesAreOwn
    <3> QED
      BY <2>5, <3>1, <3>2 DEF QueuesAreOwn
  <2>7. \A i \in Instances : Holders(i)' = Holders(i) /\ Decoders(i)' = Decoders(i)
    BY <2>1 DEF Holders, Decoders
  <2>8. Batching' = Batching /\ \A n \in Models : Tasks(n)' = Tasks(n)
    BY <2>1 DEF Tasks, Batching
  <2>9. CountsAgree' /\ GateInRange' /\ HolderHolds'
    BY <1>0, <2>1, <2>7, <2>8 DEF CountsAgree, GateInRange, HolderHolds, GenerateInv
  <2> QED
    BY <2>6, <2>9, CountsAgreeMeans DEF GenerateInv
<1>2. CASE SchedulerSpawns(m)
  <2>1. PICK r \in Requests : r = head[m]
    BY <1>2 DEF SchedulerSpawns, EngineTypes
  <2>2. /\ Goes(r, "queued", "spawned") /\ ModelOf[r] = m /\ at[r] = "queued"
        /\ gate' = [gate EXCEPT ![m] = @ - 1] /\ gate \in [Models -> Nat]
        /\ UNCHANGED <<queue, config, handle, active, permits>>
    BY <1>0, <1>2, <2>1 DEF SchedulerSpawns, QueuesAreOwn, Goes, EngineTypes
  <2>3. /\ \A i \in Instances : Holders(i)' = Holders(i) \ {r} /\ Decoders(i)' = Decoders(i) \ {r}
        /\ \A n \in Models : Tasks(n)' = IF ModelOf[r] = n THEN Tasks(n) \cup {r} ELSE Tasks(n) \ {r}
    BY <2>2, MoveSets
  <2>4. /\ \A i \in Instances : r \notin Holders(i) /\ r \notin Decoders(i)
        /\ \A n \in Models : r \notin Tasks(n)
    BY <2>2 DEF Holders, Decoders, Tasks
  <2>5. \A S, T : T = S \ {r} /\ r \notin S => T = S
    OBVIOUS
  <2>6. /\ \A i \in Instances : Holders(i)' = Holders(i) /\ Decoders(i)' = Decoders(i)
        /\ \A n \in Models \ {m} : Tasks(n)' = Tasks(n)
    <3>1. \A i \in Instances : Holders(i)' = Holders(i) /\ Decoders(i)' = Decoders(i)
      BY <2>3, <2>4, <2>5, Zenon
    <3>2. ASSUME NEW n \in Models, n # m PROVE Tasks(n)' = Tasks(n)
      <4>1. Tasks(n)' = Tasks(n) \ {r}
        BY <2>2, <2>3, <3>2
      <4> QED
        BY <2>4, <2>5, <4>1, Zenon
    <3> QED
      BY <3>1, <3>2
  <2>7. Cardinality(Tasks(m)') = Cardinality(Tasks(m)) + 1 /\ Cardinality(Tasks(m)) \in Nat
    <3>1. Tasks(m)' = Tasks(m) \cup {r}
      BY <2>2, <2>3
    <3>2. IsFiniteSet(Tasks(m)) /\ r \notin Tasks(m)
      BY <2>4, CountedAreFinite
    <3>3. Cardinality(Tasks(m) \cup {r}) = Cardinality(Tasks(m)) + 1
      BY <3>2, CountUp
    <3> QED
      BY <3>1, <3>3, CountedAreFinite
  <2>8. Batching' = Batching
    BY <2>2 DEF Batching
  <2>9. CountsAgree'
    <3>1. \A i \in Instances : active'[i] = Cardinality(Holders(i)')
                               /\ Cardinality(Decoders(i)') = MaxPerModel - permits'[i]
      BY <1>0, <2>2, <2>6 DEF CountsAgree
    <3>2. ASSUME Batching, NEW n \in Models PROVE Cardinality(Tasks(n)') = BatchMax - gate'[n]
      BY <1>0, <2>2, <2>6, <2>7, <3>2 DEF CountsAgree
    <3> QED
      BY <2>8, <3>1, <3>2 DEF CountsAgree
  <2>10. GateInRange'
    BY <1>2, <2>2, <2>8 DEF SchedulerSpawns, GateInRange, GenerateInv
  <2>11. HolderHolds'
    BY <2>2 DEF GenerateInv, HolderHolds, Goes, EngineTypes
  <2>12. QueuesAreOwn'
    <3>1. queue' = queue /\ \A n \in Models : head'[n] = IF n = m THEN None ELSE head[n]
      BY <1>2 DEF SchedulerSpawns, EngineTypes
    <3> QED
      BY <1>0, <3>1 DEF QueuesAreOwn
  <2> QED
    BY <2>9, <2>10, <2>11, <2>12, CountsAgreeMeans DEF GenerateInv
<1> QED
  BY <1>1, <1>2 DEF Scheduler

\* A submitted task waits in the queue of its own model.
LEMMA SubmitKeeps ==
  ASSUME EngineTypes, GenerateInv, NEW r \in Requests, Submit(r)
  PROVE  GenerateInv'
<1>0. UNCHANGED <<head, gate, config, handle, active, permits>>
  BY DEF Submit
<1>1. CASE /\ Goes(r, "new", "queued")
           /\ queue' = [queue EXCEPT ![ModelOf[r]] = Append(@, r)]
  <2>1. CountsAgree' /\ GateInRange'
    BY <1>0, <1>1, QuietMove
  <2>2. HolderHolds'
    BY <1>0, <1>1 DEF GenerateInv, HolderHolds, Goes, EngineTypes
  <2>3. PICK m \in Models : m = ModelOf[r]
    OBVIOUS
  <2>4. queue[m] \in Seq(Requests) /\ queue' = [queue EXCEPT ![m] = Append(queue[m], r)]
    BY <1>1, <2>3 DEF EngineTypes
  <2>5. /\ Len(Append(queue[m], r)) = Len(queue[m]) + 1 /\ Len(queue[m]) \in Nat
        /\ \A k \in 1 .. Len(queue[m]) : Append(queue[m], r)[k] = queue[m][k]
        /\ Append(queue[m], r)[Len(queue[m]) + 1] = r
    BY <2>4
  <2>6. \A k \in 1 .. Len(Append(queue[m], r)) : ModelOf[Append(queue[m], r)[k]] = m
    BY <2>3, <2>5 DEF GenerateInv, QueuesAreOwn
  <2>7. QueuesAreOwn'
    BY <1>0, <2>4, <2>6 DEF GenerateInv, QueuesAreOwn, EngineTypes
  <2> QED
    BY <2>1, <2>2, <2>7, CountsAgreeMeans DEF GenerateInv
<1>2. CASE ~Batching /\ Goes(r, "new", "spawned") /\ UNCHANGED queue
  <2>1. CountsAgree' /\ GateInRange'
    BY <1>0, <1>2, QuietMove
  <2>2. HolderHolds' /\ QueuesAreOwn'
    BY <1>0, <1>2 DEF GenerateInv, HolderHolds, QueuesAreOwn, Goes, EngineTypes
  <2> QED
    BY <2>1, <2>2, CountsAgreeMeans DEF GenerateInv
<1> QED
  BY <1>1, <1>2 DEF Submit

\* ensure_loaded counts nothing before it has an instance.
LEMMA EnsureKeeps ==
  ASSUME EngineTypes, GenerateInv, NEW r \in Requests, EnsureLoaded(r), UNCHANGED <<config, queue, head>>
  PROVE  GenerateInv'
<1>0. UNCHANGED <<active, permits>>
  BY DEF EnsureLoaded
<1>1. CASE Goes(r, "spawned", "ended") /\ DropGate(r) /\ UNCHANGED handle
  <2>1. at[r] = "spawned"
    BY <1>1 DEF Goes
  <2>2. /\ \A i \in Instances : Holders(i)' = Holders(i) \ {r} /\ Decoders(i)' = Decoders(i) \ {r}
        /\ \A m \in Models : Tasks(m)' = Tasks(m) \ {r}
    BY <1>1, MoveSets
  <2>3. \A i \in Instances : Holders(i)' = Holders(i) /\ Decoders(i)' = Decoders(i)
    <3>1. \A i \in Instances : r \notin Holders(i) /\ r \notin Decoders(i)
      BY <2>1 DEF Holders, Decoders
    <3>2. \A S, T : T = S \ {r} /\ r \notin S => T = S
      OBVIOUS
    <3> QED
      BY <2>2, <3>1, <3>2, Zenon
  <2>4. (Batching' => \A m \in Models : Cardinality(Tasks(m)') = BatchMax - gate'[m]) /\ GateInRange'
    BY <1>1, <2>1, <2>2, GateDropped
  <2>5. CountsAgree
    BY CountsAgreeMeans DEF GenerateInv
  <2>6. CountsAgree'
    BY <1>0, <2>3, <2>4, <2>5 DEF CountsAgree
  <2>7. HolderHolds' /\ QueuesAreOwn'
    BY <1>1 DEF GenerateInv, HolderHolds, QueuesAreOwn, Goes, EngineTypes
  <2> QED
    BY <2>4, <2>6, <2>7, CountsAgreeMeans DEF GenerateInv
<1>2. CASE /\ models[ModelOf[r]] # 0 /\ Goes(r, "spawned", "held")
           /\ handle' = [handle EXCEPT ![r] = models[ModelOf[r]]]
           /\ UNCHANGED gate
  <2>1. models[ModelOf[r]] \in Instances /\ handle \in [Requests -> {0} \cup Instances]
    BY <1>2 DEF EngineTypes
  <2>2. \A q \in Requests \ {r} : handle'[q] = handle[q]
    BY <1>2, <2>1
  <2>3. CountsAgree' /\ GateInRange'
    BY <1>0, <1>2, <2>2, QuietMove
  <2>4. HolderHolds'
    BY <1>2, <2>1 DEF GenerateInv, HolderHolds, Goes, EngineTypes
  <2>5. QueuesAreOwn'
    BY DEF GenerateInv, QueuesAreOwn
  <2> QED
    BY <2>3, <2>4, <2>5, CountsAgreeMeans DEF GenerateInv
<1> QED
  BY <1>1, <1>2 DEF EnsureLoaded

\* last_used_at is no counter.
LEMMA TouchKeeps ==
  ASSUME EngineTypes, GenerateInv, NEW r \in Requests, Touch(r), UNCHANGED <<config, queue, head>>
  PROVE  GenerateInv'
<1>1. Goes(r, "held", "touched") /\ UNCHANGED <<gate, handle, active, permits>>
  BY DEF Touch
<1>2. CountsAgree' /\ GateInRange'
  BY <1>1, QuietMove
<1>3. HolderHolds' /\ QueuesAreOwn'
  BY <1>1 DEF GenerateInv, HolderHolds, QueuesAreOwn, Goes, EngineTypes
<1> QED
  BY <1>2, <1>3, CountsAgreeMeans DEF GenerateInv

\* begin_request and the instance's semaphore.
LEMMA CountInKeeps ==
  ASSUME EngineTypes, GenerateInv, NEW r \in Requests, UNCHANGED <<config, queue, head, gate, handle>>,
         \/ /\ Goes(r, "touched", "waiting") /\ UNCHANGED permits
            /\ active' = [active EXCEPT ![handle[r]] = @ + 1]
         \/ /\ Goes(r, "waiting", "decoding") /\ UNCHANGED active
            /\ permits' = [permits EXCEPT ![handle[r]] = @ - 1]
  PROVE  GenerateInv'
<1>0. /\ handle[r] \in Instances /\ active \in [Instances -> Int] /\ permits \in [Instances -> Nat]
      /\ ModelOf[r] \in Models
  BY DEF Goes, GenerateInv, HolderHolds, EngineTypes
<1>1. CountsAgree
  BY CountsAgreeMeans DEF GenerateInv
<1>2. \A S : r \in S => S \cup {r} = S
  OBVIOUS
<1>3. \A S : r \notin S => S \ {r} = S
  OBVIOUS
<1>4. Batching' = Batching
  BY DEF Batching
<1>5. \A m \in Models : Tasks(m)' = Tasks(m)
  BY DEF Tasks, Goes, EngineTypes
<1>6. CASE /\ Goes(r, "touched", "waiting") /\ UNCHANGED permits
           /\ active' = [active EXCEPT ![handle[r]] = @ + 1]
  <2>1. at[r] = "touched" /\ \A i \in Instances : r \notin Holders(i) /\ r \notin Decoders(i)
    BY <1>6 DEF Goes, Holders, Decoders
  <2>2. \A i \in Instances :
          /\ Holders(i)' = IF handle[r] = i THEN Holders(i) \cup {r} ELSE Holders(i) \ {r}
          /\ Decoders(i)' = Decoders(i) \ {r}
    BY <1>6, MoveSets
  <2>3. \A i \in Instances : Decoders(i)' = Decoders(i)
    BY <1>3, <2>1, <2>2, Zenon
  <2>4. ASSUME NEW i \in Instances PROVE active'[i] = Cardinality(Holders(i)')
    <3>1. CASE i = handle[r]
      <4>1. Cardinality(Holders(i)') = Cardinality(Holders(i)) + 1
        BY <2>1, <2>2, <3>1, CountedAreFinite, CountUp
      <4> QED
        BY <1>0, <1>1, <1>6, <3>1, <4>1 DEF CountsAgree
    <3>2. CASE i # handle[r]
      <4>1. Holders(i)' = Holders(i)
        BY <1>3, <2>1, <2>2, <3>2
      <4> QED
        BY <1>0, <1>1, <1>6, <3>2, <4>1 DEF CountsAgree
    <3> QED
      BY <3>1, <3>2
  <2>5. CountsAgree'
    BY <1>1, <1>4, <1>5, <1>6, <2>3, <2>4 DEF CountsAgree
  <2>6. HolderHolds' /\ QueuesAreOwn' /\ GateInRange'
    BY <1>4, <1>6 DEF GenerateInv, HolderHolds, QueuesAreOwn, GateInRange, Goes, EngineTypes
  <2> QED
    BY <2>5, <2>6, CountsAgreeMeans DEF GenerateInv
<1>7. CASE /\ Goes(r, "waiting", "decoding") /\ UNCHANGED active
           /\ permits' = [permits EXCEPT ![handle[r]] = @ - 1]
  <2>1. at[r] = "waiting" /\ \A i \in Instances : (r \in Holders(i) <=> handle[r] = i) /\ r \notin Decoders(i)
    BY <1>7 DEF Goes, Holders, Decoders
  <2>2. \A i \in Instances :
          /\ Holders(i)' = IF handle[r] = i THEN Holders(i) \cup {r} ELSE Holders(i) \ {r}
          /\ Decoders(i)' = IF handle[r] = i THEN Decoders(i) \cup {r} ELSE Decoders(i) \ {r}
    BY <1>7, MoveSets
  <2>3. ASSUME NEW i \in Instances PROVE Holders(i)' = Holders(i)
    <3>1. CASE i = handle[r]
      BY <1>2, <2>1, <2>2, <3>1
    <3>2. CASE i # handle[r]
      BY <1>3, <2>1, <2>2, <3>2
    <3> QED
      BY <3>1, <3>2
  <2>4. ASSUME NEW i \in Instances PROVE Cardinality(Decoders(i)') = MaxPerModel - permits'[i]
    <3>1. CASE i = handle[r]
      <4>1. Cardinality(Decoders(i)') = Cardinality(Decoders(i)) + 1
        BY <2>1, <2>2, <3>1, CountedAreFinite, CountUp
      <4> QED
        BY <1>0, <1>1, <1>7, <3>1, <4>1 DEF CountsAgree
    <3>2. CASE i # handle[r]
      <4>1. Decoders(i)' = Decoders(i)
        BY <1>3, <2>1, <2>2, <3>2
      <4> QED
        BY <1>0, <1>1, <1>7, <3>2, <4>1 DEF CountsAgree
    <3> QED
      BY <3>1, <3>2
  <2>5. CountsAgree'
    BY <1>1, <1>4, <1>5, <1>7, <2>3, <2>4 DEF CountsAgree
  <2>6. HolderHolds' /\ QueuesAreOwn' /\ GateInRange'
    BY <1>4, <1>7 DEF GenerateInv, HolderHolds, QueuesAreOwn, GateInRange, Goes, EngineTypes
  <2> QED
    BY <2>5, <2>6, CountsAgreeMeans DEF GenerateInv
<1> QED
  BY <1>6, <1>7

\* Every step of a generation and every cancellation keeps the counters exact.
LEMMA ServeKeeps ==
  ASSUME EngineTypes, GenerateInv, NEW r \in Requests, Serve(r) \/ Cancel(r)
  PROVE  GenerateInv'
<1>1. CASE EnsureLoaded(r) /\ UNCHANGED <<loadVars, config, queue, head>>
  BY <1>1, EnsureKeeps
<1>2. CASE Touch(r) /\ UNCHANGED <<loadVars, config, queue, head>>
  BY <1>2, TouchKeeps
<1>3. CASE BeginRequest(r) /\ UNCHANGED <<loadVars, config, queue, head>>
  BY <1>3, CountInKeeps DEF BeginRequest
<1>4. CASE AcquirePermit(r) /\ UNCHANGED <<loadVars, config, queue, head>>
  BY <1>4, CountInKeeps DEF AcquirePermit
<1>5. ASSUME NEW item, RelayItem(r, item), UNCHANGED <<loadVars, config, queue, head, handle>>
      PROVE  GenerateInv'
  BY <1>5, LeaveKeeps, CountsUntouched DEF RelayItem, Stay
<1>6. CASE Relay(r) /\ UNCHANGED <<loadVars, config, queue, head>>
  BY <1>5, <1>6 DEF Relay
<1>7. CASE Echo(r) /\ UNCHANGED <<loadVars, config, queue, head>>
  BY <1>5, <1>7 DEF Echo
<1>8. CASE DecodeThread(r) \/ Forward(r) \/ Cancel(r)
  BY <1>8, CountsUntouched DEF DecodeThread, ThreadEmits, Forward, Cancel
<1> QED
  BY <1>1, <1>2, <1>3, <1>4, <1>6, <1>7, <1>8, SubmitKeeps DEF Serve, GenerateStream

-----------------------------------------------------------------------------
(* The theorems *)

EngineInv == EngineTypes /\ LoadInv /\ GenerateInv

\* The invariant of the engine is inductive.
LEMMA EngineInvStep == EngineInv /\ [Next]_vars => EngineInv'
<1> SUFFICES ASSUME EngineTypes, LoadInv, GenerateInv, [Next]_vars PROVE EngineInv'
  BY DEF EngineInv
<1>0. HolderHolds
  BY DEF GenerateInv
<1>1. ASSUME NEW l \in Loaders, LoadModel(l) PROVE EngineInv'
  BY <1>1, LoadTypes, LoadKeeps, CountsUntouched DEF EngineInv, LoadModel
<1>2. ASSUME NEW m \in Models, UnloadModel(m) PROVE EngineInv'
  <2>1. InMap' \subseteq InMap
    BY <1>2 DEF UnloadModel, RemoveModel, InMap, EngineTypes
  <2> QED
    BY <1>2, <2>1, SchedulerTypes, UnloadKeeps, CountsUntouched DEF EngineInv, UnloadModel, RemoveModel
<1>3. ASSUME UNCHANGED <<models, made, loadVars, config>> PROVE LoadInv'
  <2>1. InMap' = InMap
    BY <1>3 DEF InMap
  <2> QED
    BY <1>3, <2>1, UnloadKeeps
<1>4. ASSUME NEW m \in Models, Scheduler(m) PROVE EngineInv'
  <2>1. UNCHANGED <<models, made, loadVars, config>>
    BY <1>4 DEF Scheduler, SchedulerReceives, SchedulerSpawns
  <2> QED
    BY <1>3, <1>4, <2>1, SchedulerTypes, SchedulerKeeps DEF EngineInv
<1>5. ASSUME NEW r \in Requests, Serve(r) \/ Cancel(r) PROVE EngineInv'
  <2>1. UNCHANGED <<models, made, loadVars, config>>
    BY <1>5 DEF Serve, Submit, GenerateStream, EnsureLoaded, Touch, BeginRequest, AcquirePermit, Relay, Echo,
                DecodeThread, ThreadEmits, Forward, Cancel
  <2>2. EngineTypes'
    BY <1>0, <1>5, ServeTypes
  <2>3. GenerateInv'
    BY <1>5, ServeKeeps
  <2> QED
    BY <1>3, <2>1, <2>2, <2>3 DEF EngineInv
<1>6. CASE UNCHANGED vars
  <2>1. EngineTypes'
    BY <1>6 DEF EngineTypes, vars
  <2> QED
    BY <1>3, <1>6, <2>1, CountsUntouched DEF EngineInv, vars
<1> QED
  BY <1>1, <1>2, <1>4, <1>5, <1>6 DEF Next

\* The invariant the properties below follow from (model_pool.rs, batching.rs).
THEOREM EngineInvariant == Spec => []EngineInv
<1>1. Init => EngineInv
  BY EngineTypesInit, LoadInvInit, GenerateInvInit DEF EngineInv
<1> QED
  BY <1>1, EngineInvStep, PTL DEF Spec

\* However loads, evictions, unloads and generations interleave, fail or are
\* cancelled (model_pool.rs, batching.rs): active_requests is exact, the semaphore
\* and the window bound what decodes, and the budget is exceeded only when two
\* loads overlapped between the check and the insert.
THEOREM CountersAgree == Spec => []EngineCountsAgree
<1>1. EngineInv => EngineCountsAgree
  <2> SUFFICES ASSUME EngineTypes, LoadInv, GenerateInv PROVE EngineCountsAgree
    BY DEF EngineInv
  <2>1. CountsAgree
    BY CountsAgreeMeans DEF GenerateInv
  <2>2. ASSUME NEW i \in Instances
        PROVE  active[i] \in 0 .. Cardinality(Requests) /\ permits[i] \in 0 .. MaxPerModel
    <3>1. Holders(i) \subseteq Requests /\ IsFiniteSet(Requests)
      BY DEF Holders
    <3>2. Cardinality(Holders(i)) <= Cardinality(Requests) /\ Cardinality(Requests) \in Nat
      BY <3>1, SubsetIsSmaller
    <3>3. Cardinality(Holders(i)) \in Nat /\ Cardinality(Decoders(i)) \in Nat
      BY CountedAreFinite
    <3>4. active[i] = Cardinality(Holders(i)) /\ Cardinality(Decoders(i)) = MaxPerModel - permits[i]
          /\ permits[i] \in Nat
      BY <2>1 DEF CountsAgree, EngineTypes
    <3> QED
      BY <3>2, <3>3, <3>4
  <2>3. ASSUME NEW m \in Models
        PROVE  gate[m] \in 0 .. BatchMax /\ (Batching => Cardinality(Tasks(m)) <= BatchMax)
    <3>1. Cardinality(Tasks(m)) \in Nat /\ gate[m] \in Nat
      BY CountedAreFinite DEF EngineTypes
    <3>2. CASE Batching
      <4>1. Cardinality(Tasks(m)) = BatchMax - gate[m]
        BY <2>1, <3>2 DEF CountsAgree
      <4> QED
        BY <3>1, <4>1
    <3>3. CASE ~Batching
      BY <3>3 DEF GenerateInv, GateInRange
    <3> QED
      BY <3>2, <3>3
  <2>4. /\ active \in [Instances -> 0 .. Cardinality(Requests)] /\ permits \in [Instances -> 0 .. MaxPerModel]
        /\ gate \in [Models -> 0 .. BatchMax]
    BY <2>2, <2>3 DEF EngineTypes
  <2>5. made \in 0 .. Cardinality(Instances)
    <3>1. Loading \subseteq Loaders
      BY DEF Loading
    <3>2. Cardinality(Loading) \in Nat
      BY <3>1, SubsetIsSmaller
    <3> QED
      BY <3>2, InstanceNumbers DEF LoadInv, RoomForLoads, EngineTypes
  <2>6. TypeOK
    BY <2>4, <2>5 DEF EngineTypes, TypeOK
  <2>7. WithinWindow
    BY <2>3 DEF WithinWindow
  <2>8. OverBudgetOnlyByRace
    <3>1. InMap \in SUBSET Models /\ UsedRam = SumOf(Ram, InMap)
      BY RamIsSum DEF InMap
    <3>2. SumOf(Ram, InMap) \in Nat
      BY <3>1, RamIsSum
    <3>3. ~raced => UsedRam <= Budget
      BY <3>1 DEF LoadInv, BudgetKept
    <3> QED
      BY <3>1, <3>2, <3>3 DEF OverBudgetOnlyByRace
  <2> QED
    BY <2>6, <2>7, <2>8 DEF GenerateInv, EngineCountsAgree
<1> QED
  BY <1>1, EngineInvariant, PTL

\* never_evicts_active_model (model_pool.rs): although a load chooses its victim
\* before it removes it, a model leaves the map only while no request counts on it.
THEOREM ActiveIsNeverEvicted == Spec => NeverEvictsActive
<1> DEFINE A == \A m \in Models : models[m] # 0 /\ models'[m] = 0 => Idle(models[m])
<1>1. EngineInv /\ [Next]_vars => [A]_vars
  <2> SUFFICES ASSUME EngineInv, Next PROVE A
    OBVIOUS
  <2>0. models \in [Models -> {0} \cup Instances] /\ made \in Nat
    BY DEF EngineInv, EngineTypes
  <2>1. CASE models' = models
    BY <2>1
  <2>2. ASSUME NEW n, Unloadable(n), RemoveModel(n) PROVE A
    BY <2>0, <2>2 DEF Unloadable, RemoveModel
  <2>3. ASSUME NEW l \in Loaders, LoadInserts(l) PROVE A
    BY <2>0, <2>3 DEF LoadInserts
  <2>4. ASSUME NEW l \in Loaders, EvictUnloads(l) PROVE A
    BY <2>1, <2>2, <2>4 DEF EvictUnloads
  <2>5. ASSUME NEW l \in Loaders, LoadModel(l) PROVE A
    BY <2>1, <2>3, <2>4, <2>5 DEF LoadModel, LoadChecks, EvictSizes, EvictPicks, BackendLoads
  <2>6. ASSUME NEW m \in Models, UnloadModel(m) \/ Scheduler(m) PROVE A
    BY <2>1, <2>2, <2>6 DEF UnloadModel, Scheduler, SchedulerReceives, SchedulerSpawns
  <2>7. ASSUME NEW r \in Requests, Serve(r) \/ Cancel(r) PROVE A
    <3>1. models' = models
      BY <2>7 DEF Serve, Submit, GenerateStream, EnsureLoaded, Touch, BeginRequest, AcquirePermit,
                  Relay, Echo, DecodeThread, ThreadEmits, Forward, Cancel
    <3> QED
      BY <2>1, <3>1
  <2> QED
    BY <2>5, <2>6, <2>7 DEF Next
<1> QED
  BY <1>1, EngineInvariant, PTL DEF Spec, NeverEvictsActive

-----------------------------------------------------------------------------
(* The end of a stream *)

\* A forwarder stops only when its caller has left or knows the end, and what an
\* ended task leaves to be forwarded ends in a last chunk or an error.
EndIsComing ==
  \A r \in Requests :
    /\ ~rx[r] => gone[r] \/ terminal[r] # None
    /\ at[r] = "ended" /\ ~gone[r] /\ terminal[r] = None =>
         Len(chan[r]) > 0 /\ chan[r][Len(chan[r])] # "token"

\* A step that neither ends a task nor touches what is forwarded.
LEMMA EndUntouched ==
  ASSUME EndIsComing, UNCHANGED <<chan, rx, gone, terminal>>,
         \A q \in Requests : at'[q] = "ended" => at[q] = "ended"
  PROVE  EndIsComing'
BY DEF EndIsComing

\* The last send of a task, or a send nobody receives.
LEMMA LastSend ==
  ASSUME EngineTypes, EndIsComing, NEW r \in Requests, NEW item \in Items, Sends(r, item),
         UNCHANGED <<rx, gone, terminal>>,
         \A q \in Requests \ {r} : at'[q] = at[q],
         at[r] # "ended", at'[r] = "ended" => item # "token" \/ ~rx[r]
  PROVE  EndIsComing'
<1>1. chan[r] \in Seq(Items) /\ chan \in [Requests -> Seq(Items)]
  BY DEF EngineTypes
<1>2. /\ Len(Append(chan[r], item)) = Len(chan[r]) + 1 /\ Len(chan[r]) \in Nat
      /\ Append(chan[r], item)[Len(chan[r]) + 1] = item
  BY <1>1
<1>3. \A q \in Requests \ {r} : chan'[q] = chan[q]
  BY <1>1 DEF Sends
<1>4. ASSUME at'[r] = "ended", ~gone[r], terminal[r] = None
      PROVE  Len(chan'[r]) > 0 /\ chan'[r][Len(chan'[r])] # "token"
  <2>1. rx[r] /\ item # "token"
    BY <1>4 DEF EndIsComing
  <2>2. chan'[r] = Append(chan[r], item)
    BY <1>1, <2>1 DEF Sends
  <2> QED
    BY <1>2, <2>1, <2>2
<1> QED
  BY <1>3, <1>4 DEF EndIsComing

\* The forwarder stops for a caller who left or has been told the end.
LEMMA ForwardEnd ==
  ASSUME EngineTypes, EndIsComing, NEW r \in Requests, Forward(r)
  PROVE  EndIsComing'
<1>1. /\ chan \in [Requests -> Seq(Items)] /\ rx \in [Requests -> BOOLEAN]
      /\ terminal \in [Requests -> {None, "final", "error"}]
      /\ chan[r] \in Seq(Items) /\ chan[r] # <<>>
  BY DEF EngineTypes, Forward
<1>2. PICK item \in Items : item = Head(chan[r])
  BY <1>1
<1>3. /\ UNCHANGED <<at, gone>>
      /\ terminal' = IF ~gone[r] /\ item # "token" THEN [terminal EXCEPT ![r] = item] ELSE terminal
      /\ rx' = [rx EXCEPT ![r] = ~(gone[r] \/ item = "final")]
      /\ chan' = [chan EXCEPT ![r] = IF gone[r] \/ item = "final" THEN <<>> ELSE Tail(@)]
  BY <1>2 DEF Forward
<1>4. \A q \in Requests \ {r} : chan'[q] = chan[q] /\ rx'[q] = rx[q] /\ terminal'[q] = terminal[q]
  BY <1>1, <1>3
<1>5. terminal'[r] = IF ~gone[r] /\ item # "token" THEN item ELSE terminal[r]
  BY <1>1, <1>3
<1>6. ~rx'[r] => gone[r] \/ item = "final"
  BY <1>1, <1>3
<1>7. ~rx'[r] => gone'[r] \/ terminal'[r] # None
  BY <1>3, <1>5, <1>6 DEF None
<1>8. ASSUME at[r] = "ended", ~gone[r], terminal'[r] = None
      PROVE  Len(chan'[r]) > 0 /\ chan'[r][Len(chan'[r])] # "token"
  <2>1. item = "token" /\ terminal[r] = None
    BY <1>5, <1>8 DEF None
  <2>2. Len(chan[r]) > 0 /\ chan[r][Len(chan[r])] # "token"
    BY <1>8, <2>1 DEF EndIsComing
  <2>3. chan'[r] = Tail(chan[r])
    BY <1>1, <1>3, <1>8, <2>1
  <2>4. Len(chan[r]) \in Nat /\ Head(chan[r]) = chan[r][1]
    BY <1>1
  <2>5. Len(chan[r]) > 1
    BY <1>2, <2>1, <2>2, <2>4
  <2>6. Len(Tail(chan[r])) = Len(chan[r]) - 1 /\ Tail(chan[r])[Len(chan[r]) - 1] = chan[r][Len(chan[r])]
    BY <1>1, <2>4, <2>5
  <2> QED
    BY <2>2, <2>3, <2>4, <2>5, <2>6
<1> QED
  BY <1>3, <1>4, <1>7, <1>8 DEF EndIsComing

\* Until the caller knows the end it is on its way, in every step.
LEMMA EndIsComingStep == EngineTypes /\ EndIsComing /\ [Next]_vars => EndIsComing'
<1> SUFFICES ASSUME EngineTypes, EndIsComing, [Next]_vars PROVE EndIsComing'
  OBVIOUS
<1>0. at \in [Requests -> TaskStates]
  BY DEF EngineTypes
<1>1. CASE UNCHANGED <<at, chan, rx, gone, terminal>>
  BY <1>1, EndUntouched
<1>2. ASSUME NEW q \in Requests, NEW s, NEW t \in TaskStates, Goes(q, s, t), t # "ended",
             UNCHANGED <<chan, rx, gone, terminal>>
      PROVE  EndIsComing'
  BY <1>0, <1>2, EndUntouched DEF Goes
<1>3. ASSUME NEW m \in Models, Scheduler(m) PROVE EndIsComing'
  <2>1. CASE SchedulerReceives(m)
    BY <1>1, <2>1 DEF SchedulerReceives
  <2>2. CASE SchedulerSpawns(m)
    BY <1>2, <2>2 DEF SchedulerSpawns, EngineTypes
  <2> QED
    BY <1>3, <2>1, <2>2 DEF Scheduler
<1>4. ASSUME NEW r \in Requests, NEW item \in Items, RelayItem(r, item), at[r] = "decoding",
             UNCHANGED <<rx, gone, terminal>>
      PROVE  EndIsComing'
  <2>1. CASE Leave(r) /\ (item # "token" \/ ~rx[r])
    <3>1. \A q \in Requests \ {r} : at'[q] = at[q]
      BY <1>0, <2>1 DEF Leave, Goes
    <3> QED
      BY <1>4, <2>1, <3>1, LastSend DEF RelayItem
  <2>2. CASE Stay
    BY <1>4, <2>2, LastSend DEF RelayItem, Stay
  <2> QED
    BY <1>4, <2>1, <2>2 DEF RelayItem
<1>5. ASSUME NEW r \in Requests, EnsureLoaded(r) PROVE EndIsComing'
  <2>1. CASE Goes(r, "spawned", "ended") /\ Sends(r, "error")
    <3>1. at[r] = "spawned" /\ \A q \in Requests \ {r} : at'[q] = at[q]
      BY <1>0, <2>1 DEF Goes
    <3> QED
      BY <1>5, <2>1, <3>1, LastSend DEF EnsureLoaded
  <2>2. CASE Goes(r, "spawned", "held") /\ UNCHANGED chan
    BY <1>2, <1>5, <2>2 DEF EnsureLoaded
  <2> QED
    BY <1>5, <2>1, <2>2 DEF EnsureLoaded
<1>6. ASSUME NEW r \in Requests, Relay(r) PROVE EndIsComing'
  <2>1. pipe[r] \in Seq(Items) /\ pipe[r] # <<>>
    BY <1>6 DEF Relay, EngineTypes
  <2>2. Head(pipe[r]) \in Items
    BY <2>1
  <2> QED
    BY <1>4, <1>6, <2>2 DEF Relay
<1>7. ASSUME NEW r \in Requests, Echo(r) PROVE EndIsComing'
  <2>1. PICK item \in Yields(r) : RelayItem(r, item)
    BY <1>7 DEF Echo
  <2>2. item \in Items
    BY DEF Yields
  <2> QED
    BY <1>4, <1>7, <2>1, <2>2 DEF Echo
<1>8. ASSUME NEW r \in Requests, Cancel(r) PROVE EndIsComing'
  BY <1>8 DEF Cancel, EndIsComing, EngineTypes
<1>9. ASSUME NEW r \in Requests, Touch(r) \/ BeginRequest(r) \/ AcquirePermit(r) \/ Submit(r) PROVE EndIsComing'
  BY <1>2, <1>9 DEF Touch, BeginRequest, AcquirePermit, Submit
<1>10. ASSUME NEW r \in Requests, DecodeThread(r) PROVE EndIsComing'
  BY <1>1, <1>10 DEF DecodeThread, ThreadEmits
<1>11. ASSUME NEW l \in Loaders, LoadModel(l) PROVE EndIsComing'
  BY <1>1, <1>11 DEF LoadModel
<1>12. ASSUME NEW m \in Models, UnloadModel(m) PROVE EndIsComing'
  BY <1>1, <1>12 DEF UnloadModel
<1>13. CASE UNCHANGED vars
  BY <1>1, <1>13 DEF vars
<1> QED
  BY <1>3, <1>5, <1>6, <1>7, <1>8, <1>9, <1>10, <1>11, <1>12, <1>13, ForwardEnd
  DEF Next, Serve, GenerateStream

\* service.rs, batching.rs: once a generation has ended and nothing is left to
\* forward, a gateway that did not cancel has been told how it ended, also when
\* the model was not there or the backend failed.
THEOREM EndIsTold == Spec => []StreamHasAnEnd
<1>1. Init => EndIsComing
  BY DEF Init, EndIsComing
<1>2. EngineInv /\ EndIsComing /\ [Next]_vars => EndIsComing'
  BY EndIsComingStep DEF EngineInv
<1>3. EngineInv /\ EndIsComing => StreamHasAnEnd
  <2>1. Len(<<>>) = 0
    OBVIOUS
  <2> QED
    BY <2>1 DEF EndIsComing, StreamHasAnEnd
<1> QED
  BY <1>1, <1>2, <1>3, EngineInvariant, PTL DEF Spec

(***************************************************************************)
(* ModelAdmin and AdminPanels                                               *)
(***************************************************************************)

HIDE RustAssumption

\* The steps of each action of the operator.
StepOf(act, pc) ==
  /\ act = "none" => pc = "idle"
  /\ act = "local" => pc \in {"row", "version"}
  /\ act = "edit" => pc \in {"row", "close", "version"}
  /\ act = "remote" => pc \in {"keyrow", "row", "version", "plans", "array", "entitle",
                                "granted", "default"}
  /\ act = "grant" => pc \in {"plans", "array", "entitle", "granted"}
  /\ act = "default" => pc \in {"default", "plans", "array", "entitle", "granted", "avail",
                                 "list", "evict", "loading"}
  /\ act = "remove" => pc \in {"unload", "plans", "strip", "revoke", "delete", "unlink"}
Steps == {"idle", "row", "keyrow", "close", "version", "plans", "array", "entitle", "granted",
          "default", "avail", "list", "evict", "loading", "unload", "strip", "revoke", "delete",
          "unlink"}
Acts == {"none", "local", "edit", "remote", "grant", "default", "remove"}
Kinds == {"NONE", "LOCAL", "REMOTE"}
Files == Paths \cup {NoPath}
Warming == {"evict", "unload", "mark", "warming"}

\* Types, by what is written together. An operator's action has a model and a step
\* of its own kind, a price if it writes one, and a file if it writes a local row.
RowTypes ==
  /\ kind \in [Slugs -> Kinds] /\ status \in [Slugs -> {"INACTIVE", "LOADED", "ERROR"}]
  /\ path \in [Slugs -> Files] /\ price \in [Slugs -> Prices]
  /\ dflt \in Rows \cup {NoModel} /\ keyed \subseteq Rows
  /\ \A m \in Rows : kind[m] = "LOCAL" => path[m] \in Paths
GrantTypes == allowed \subseteq Slugs /\ entitled \subseteq Slugs
PoolTypes == disk \subseteq Paths /\ live \subseteq Slugs
OpRecord ==
  [act : Acts, m : Slugs \cup {NoModel}, pc : Steps, file : Files,
   price : Prices \cup {0}, flag : BOOLEAN, seen : SUBSET Slugs, was : Prices \cup 0..MaxClock,
   kin : Kinds, late : SUBSET Slugs]
OpTypes ==
  /\ op \in OpRecord /\ StepOf(op.act, op.pc)
  /\ op.act = "none" => op = NoOp
  /\ op.flag => op.act \in {"remote", "remove"}
  /\ op.act # "none" => op.m \in Slugs
  /\ op.act \in {"local", "edit", "remote"} => op.price \in Prices
  /\ (op.act = "local" \/ (op.act = "edit" /\ op.kin # "REMOTE")) => op.file \in Paths
CallTypes ==
  /\ infra \in [act : {"none", "load", "unload"}, m : Slugs \cup {NoModel}, file : Files]
  /\ infra # NoCall => infra.m \in Slugs
BootTypes ==
  /\ boot \in [pc : {"up", "down", "list", "reconcile", "find", "evict", "unload", "mark",
                     "warming"},
               seen : SUBSET Slugs, m : Slugs \cup {NoModel}, file : Files,
               victim : Slugs \cup {NoModel}, kin : Kinds]
  /\ boot.pc \in Warming => boot.m \in Slugs
  /\ boot.pc \in {"unload", "mark"} => boot.victim \in Slugs /\ boot.kin # "REMOTE"
CountTypes ==
  /\ mode \in {"alone", "busy", "pricing", "panels"} /\ survives \in BOOLEAN
  /\ quiet \in BOOLEAN /\ broken \in 0..MaxFaults
  /\ count \in [ops : 0..MaxOps, crashes : 0..MaxCrashes]
  /\ clock \in 0..MaxClock
VersionTypes ==
  /\ DOMAIN versions \subseteq 0..MaxClock
  /\ \A t \in DOMAIN versions : versions[t] \in [price : Prices, open : BOOLEAN]
  /\ chat \in [pc : {"idle", "found_none", "priced"}, now : 0..MaxClock, price : Prices \cup {0}]
  /\ chat.pc = "priced" => chat.price \in Prices
AdminTypes == RowTypes /\ GrantTypes /\ PoolTypes /\ OpTypes /\ CallTypes /\ BootTypes
              /\ CountTypes /\ VersionTypes

\* Where the grants are while an action changes them and nothing else runs.
DefaultBut(m) == dflt \notin {NoModel, m} => dflt \in allowed
Agreed == DefaultBut(NoModel) /\ allowed = entitled
GrantPhase ==
  /\ op.act \in {"none", "local", "edit"} => Agreed
  /\ op.pc \in {"row", "keyrow", "version", "unload", "avail", "list", "evict", "loading",
                "unlink"} => Agreed
  /\ op.pc = "default" => Agreed /\ (op.act = "remote" => op.m \in allowed)
  /\ op.pc = "plans" => allowed = entitled /\ DefaultBut(op.m)
                        /\ (op.act # "default" => Agreed)
  /\ op.pc = "array" => allowed = entitled /\ DefaultBut(op.m) /\ op.seen = allowed
  /\ op.pc = "entitle" => allowed = entitled \cup {op.m} /\ DefaultBut(NoModel)
  /\ op.pc = "granted" => Agreed /\ op.m \in allowed
  /\ op.pc = "strip" => Agreed /\ op.seen = allowed
  /\ op.pc = "revoke" => allowed = entitled \ {op.m} /\ DefaultBut(op.m)
  /\ op.pc = "delete" => allowed = entitled /\ DefaultBut(op.m)
GrantInv == mode = "alone" => /\ op # NoOp => boot.pc = "up" /\ infra = NoCall
                              /\ broken = 0 => GrantPhase

\* A remote row has a key before it is written.
KeyInv == RemoteHasKey /\ (op.act = "remote" /\ op.pc = "row" => EnvKey)

\* While nobody else writes, start-up brings registry and pool together. A pool that
\* does not survive the gateway is empty until the default has been loaded.
Match == \A m \in Rows : kind[m] = "LOCAL" => (status[m] = "LOADED" <=> m \in live)
\* A model that has left the pool is about to be marked.
MatchBut(v) ==
  \A m \in Rows : kind[m] = "LOCAL" =>
    IF m = v THEN m \notin live ELSE (status[m] = "LOADED" <=> m \in live)
MatchInv ==
  quiet =>
    /\ op = NoOp /\ infra = NoCall
    /\ boot.pc \in {"find", "evict", "unload", "warming", "up"} => Match
    /\ boot.pc = "mark" => MatchBut(boot.victim)
    /\ boot.pc = "reconcile" =>
         \A m \in Rows : kind[m] = "LOCAL" => (m \in boot.seen <=> m \in live)
    /\ boot.pc # "up" /\ ~survives => live = {}
    /\ boot.pc \in Warming => boot.m \in Rows /\ boot.file = FileOf(boot.m)
    /\ boot.pc = "warming" => ~Remote(boot.m) /\ boot.m \notin live

\* A removal that is about to delete a file was the last to name it, but for the rows
\* that took the path since it counted them.
FileInv ==
  op.act = "remove" =>
    /\ op.pc = "delete" /\ op.flag =>
         \A m \in Rows \ {op.m} : path[m] = op.file => m \in op.late
    /\ op.pc = "unlink" => \A m \in Rows : path[m] = op.file => m \in op.late

\* The operator is about to create the version of the price in the row; the edit
\* creates it as of the time it closed the others.
Pending == op.pc \in {"close", "version"}
Backdates == op.act = "edit" /\ op.pc = "version"
\* The chat's stale price has been or will be overtaken.
Overtaken ==
  /\ ~(Backdates /\ op.was < chat.now)
  /\ Pending \/ \E t \in Active : t > chat.now
\* No other action runs in mode "pricing" than those that write prices.
Priceable ==
  /\ Rows = {Priced}
  /\ op.act \in {"none", "local", "edit"} /\ (op # NoOp => op.m = Priced)
  /\ op.act = "edit" /\ op.pc = "row" => op.was = price[Priced]
  /\ Pending => op.price = price[Priced]
Timed ==
  /\ DOMAIN versions \subseteq 0..clock
  /\ Backdates => op.was \in 0..clock /\ op.was \notin DOMAIN versions
  /\ chat.pc # "idle" => /\ chat.now \in 0..clock /\ chat.now \notin DOMAIN versions
                         /\ Backdates => op.was # chat.now
Current ==
  /\ Backdates => \A t \in Active : t > op.was => versions[t].price = price[Priced]
  /\ ~Pending => \A t \in Active : (\A u \in Active : u <= t) => versions[t].price = price[Priced]
  /\ chat.pc = "priced" /\ chat.price # price[Priced] => Overtaken
PriceInv ==
  /\ chat.pc # "idle" => mode = "pricing"
  /\ mode = "pricing" => Priceable /\ Timed /\ Current

RegistryInv ==
  PanelTypeOK /\ AdminTypes /\ GrantInv /\ KeyInv /\ MatchInv /\ FileInv /\ PriceInv

-----------------------------------------------------------------------------

\* What a click of the operator starts.
Started(act, m, pc, f, p, flag) ==
  /\ act \in Acts \ {"none"} /\ f \in Files /\ p \in Prices \cup {0}
  /\ act \in {"local", "edit"} => pc = "row"
  /\ act = "remote" => (pc = "keyrow" \/ (pc = "row" /\ EnvKey))
  /\ act = "grant" => pc = "plans"
  /\ act = "default" => pc = "default"
  /\ act = "remove" => pc = "unload"
  /\ act \in {"local", "edit", "remote"} => p \in Prices
  /\ (act = "local" \/ (act = "edit" /\ kind[m] # "REMOTE")) => f \in Paths
  /\ act = "edit" => m \in Rows
  /\ flag => act = "remote"
  /\ mode = "pricing" => act \in {"local", "edit"} /\ (act = "local" => m = Priced)

\* Each button of the page starts an action as its handler does.
LEMMA BeginsAs ==
  ASSUME Begins
  PROVE  \/ \E m \in Slugs, act \in Acts, pc \in Steps, f \in Files, p \in Prices \cup {0},
                 flag \in BOOLEAN :
              Begin(act, m, pc, f, p, flag) /\ Started(act, m, pc, f, p, flag)
         \/ \E m \in Slugs, f \in Paths : RegisterDiscovered(m, f)
<1>1. OfferedPrices \subseteq Prices
  BY BoundsAssumption DEF OfferedPrices
<1> DEFINE Clicked == \E m \in Slugs, act \in Acts, pc \in Steps, f \in Files, p \in Prices \cup {0},
                 flag \in BOOLEAN :
                        Begin(act, m, pc, f, p, flag) /\ Started(act, m, pc, f, p, flag)
<1>2. ASSUME NEW m \in Slugs, NEW f \in Paths, NEW p \in Prices, BeginUpsertModel(m, f, p),
             mode = "pricing" => m = Priced
      PROVE  Clicked
  <2>1. Begin("local", m, "row", f, p, FALSE) /\ Started("local", m, "row", f, p, FALSE)
    BY <1>2 DEF BeginUpsertModel, Started, Acts, Files
  <2> QED
    BY <2>1 DEF Acts, Steps, Files
<1>3. ASSUME NEW m \in Slugs, NEW f \in Paths, NEW p \in Prices, BeginEdit(m, f, p)
      PROVE  Clicked
  <2> DEFINE g == IF Remote(m) THEN NoPath ELSE f
  <2>1. Begin("edit", m, "row", g, p, FALSE) /\ Started("edit", m, "row", g, p, FALSE)
    BY <1>3 DEF BeginEdit, Started, Acts, Files, EditOffered, Remote
  <2>2. g \in Files /\ "edit" \in Acts /\ "row" \in Steps
    BY DEF Steps, Acts, Files
  <2> HIDE DEF g
  <2> QED
    BY <2>1, <2>2
<1>4. ASSUME NEW m \in Slugs, NEW key \in BOOLEAN, NEW def \in BOOLEAN, NEW p \in Prices,
             mode # "pricing", BeginUpsertRemote(m, key, p, def)
      PROVE  Clicked
  <2> DEFINE pc == IF key \/ m \in keyed THEN "keyrow" ELSE "row"
  <2>1. Begin("remote", m, pc, NoPath, p, def) /\ Started("remote", m, pc, NoPath, p, def)
    BY <1>4 DEF BeginUpsertRemote, Started, Acts, Files
  <2>2. pc \in Steps /\ "remote" \in Acts /\ NoPath \in Files
    BY DEF Steps, Acts, Files
  <2> HIDE DEF pc
  <2> QED
    BY <2>1, <2>2
<1>5. ASSUME NEW m \in Slugs, mode # "pricing", BeginGrant(m) \/ BeginSetDefault(m) \/ BeginRemove(m)
      PROVE  Clicked
  <2>1. CASE BeginGrant(m)
    <3>1. Begin("grant", m, "plans", NoPath, 0, FALSE) /\ Started("grant", m, "plans", NoPath, 0, FALSE)
      BY <1>5, <2>1 DEF BeginGrant, Started, Acts, Files
    <3> QED
      BY <3>1 DEF Acts, Steps, Files
  <2>2. CASE BeginSetDefault(m)
    <3>1. Begin("default", m, "default", NoPath, 0, FALSE)
          /\ Started("default", m, "default", NoPath, 0, FALSE)
      BY <1>5, <2>2 DEF BeginSetDefault, Started, Acts, Files
    <3> QED
      BY <3>1 DEF Acts, Steps, Files
  <2>3. CASE BeginRemove(m)
    <3>1. Begin("remove", m, "unload", NoPath, 0, FALSE)
          /\ Started("remove", m, "unload", NoPath, 0, FALSE)
      BY <1>5, <2>3 DEF BeginRemove, Started, Acts, Files
    <3> QED
      BY <3>1 DEF Acts, Steps, Files
  <2> QED
    BY <1>5, <2>1, <2>2, <2>3
<1> QED
  BY <1>1, <1>2, <1>3, <1>4, <1>5 DEF Begins

\* What a click leaves alone, whatever it starts.
LEMMA BeginsLeave ==
  ASSUME Begins
  PROVE  /\ MayStart /\ (mode # "busy" => op = NoOp) /\ count.ops < OpBudget /\ quiet' = FALSE
         /\ count' = [count EXCEPT !.ops = @ + 1]
         /\ UNCHANGED <<mode, survives, dflt, keyed>> /\ UNCHANGED <<allowed, entitled, disk, live>>
         /\ UNCHANGED <<infra, boot, broken>> /\ UNCHANGED <<clock, versions, chat>>
         /\ UNCHANGED panelVars
<1>1. ASSUME NEW m \in Slugs, NEW act \in Acts, NEW pc \in Steps, NEW f \in Files,
             NEW p \in Prices \cup {0}, NEW flag \in BOOLEAN, Begin(act, m, pc, f, p, flag)
      PROVE  /\ MayStart /\ (mode # "busy" => op = NoOp) /\ count.ops < OpBudget /\ quiet' = FALSE
             /\ count' = [count EXCEPT !.ops = @ + 1]
             /\ UNCHANGED <<mode, survives, dflt, keyed>> /\ UNCHANGED <<allowed, entitled, disk, live>>
             /\ UNCHANGED <<infra, boot, broken>> /\ UNCHANGED <<clock, versions, chat>>
             /\ UNCHANGED panelVars
  BY <1>1 DEF Begin, registry, grants, pricing
<1>2. ASSUME NEW m \in Slugs, NEW f \in Paths, RegisterDiscovered(m, f)
      PROVE  /\ MayStart /\ (mode # "busy" => op = NoOp) /\ count.ops < OpBudget /\ quiet' = FALSE
             /\ count' = [count EXCEPT !.ops = @ + 1]
             /\ UNCHANGED <<mode, survives, dflt, keyed>> /\ UNCHANGED <<allowed, entitled, disk, live>>
             /\ UNCHANGED <<infra, boot, broken>> /\ UNCHANGED <<clock, versions, chat>>
             /\ UNCHANGED panelVars
  BY <1>2 DEF RegisterDiscovered, grants, pricing
<1> QED
  BY <1>1, <1>2, BeginsAs

-----------------------------------------------------------------------------
(* Types                                                                    *)

\* The answer of a load and the mark of an unload leave every status a status.
LEMMA StatusesStay ==
  ASSUME RowTypes, NEW m, NEW f
  PROVE  /\ LoadAnswers(m, f) => status' \in [Slugs -> {"INACTIVE", "LOADED", "ERROR"}]
         /\ status' = Inactive(m) => status' \in [Slugs -> {"INACTIVE", "LOADED", "ERROR"}]
BY DEF RowTypes, LoadAnswers, Inactive, Rows

\* A row that is written, registered, removed or made the default stays well formed.
LEMMA RowsStayTyped ==
  ASSUME AdminTypes, AdminNext
  PROVE  RowTypes'
<1> USE DEF AdminTypes
<1>1. ASSUME UNCHANGED registry
      PROVE  RowTypes'
  BY <1>1 DEF RowTypes, Rows, registry
<1>2. ASSUME UNCHANGED <<kind, path, price, dflt, keyed>>,
             status' \in [Slugs -> {"INACTIVE", "LOADED", "ERROR"}]
      PROVE  RowTypes'
  BY <1>2 DEF RowTypes, Rows
<1>3. CASE WriteRow
  <2>1. op.m \in Slugs /\ op.price \in Prices /\ op.file \in Files
        /\ ((op.act = "local" \/ (op.act = "edit" /\ op.kin # "REMOTE")) => op.file \in Paths)
    BY <1>3 DEF WriteRow, OpTypes, OpRecord
  <2>2. /\ kind' \in [Slugs -> Kinds] /\ status' \in [Slugs -> {"INACTIVE", "LOADED", "ERROR"}]
        /\ path' \in [Slugs -> Files] /\ price' \in [Slugs -> Prices]
    BY <1>3, <2>1 DEF WriteRow, RowTypes, Kinds
  <2>3. Rows' = Rows \cup {op.m}
    BY <1>3, <2>1 DEF WriteRow, RowTypes, Rows, Kinds
  <2>4. dflt' \in Rows' \cup {NoModel} /\ keyed' \subseteq Rows'
    BY <1>3, <2>3 DEF WriteRow, RowTypes
  <2>5. \A m \in Rows' : kind'[m] = "LOCAL" => path'[m] \in Paths
    BY <1>3, <2>1 DEF WriteRow, RowTypes, Rows, Kinds
  <2> QED
    BY <2>2, <2>4, <2>5 DEF RowTypes
<1>4. CASE MoveDefault
  BY <1>4 DEF MoveDefault, RowTypes, Rows
<1>5. ASSUME NEW m \in Slugs, NEW f \in Paths, RegisterDiscovered(m, f)
      PROVE  RowTypes'
  <2>1. (CHOOSE p \in Prices : TRUE) \in Prices
    BY BoundsAssumption
  <2>2. /\ kind' \in [Slugs -> Kinds] /\ status' \in [Slugs -> {"INACTIVE", "LOADED", "ERROR"}]
        /\ path' \in [Slugs -> Files] /\ price' \in [Slugs -> Prices]
    BY <1>5, <2>1 DEF RegisterDiscovered, RowTypes, Kinds, Files
  <2>3. Rows' = Rows \cup {m}
    BY <1>5 DEF RegisterDiscovered, RowTypes, Rows, Kinds
  <2>4. \A x \in Rows' : kind'[x] = "LOCAL" => path'[x] \in Paths
    BY <1>5 DEF RegisterDiscovered, RowTypes, Rows, Kinds
  <2> QED
    BY <1>5, <2>2, <2>3, <2>4 DEF RowTypes, RegisterDiscovered
<1>6. ASSUME NEW m \in Slugs, kind' = [kind EXCEPT ![m] = "NONE"],
             status' = [status EXCEPT ![m] = "INACTIVE"], path' = [path EXCEPT ![m] = NoPath],
             dflt' = (IF dflt = m THEN NoModel ELSE dflt), keyed' = keyed \ {m}, price' = price
      PROVE  RowTypes'
  <2>1. Rows' = Rows \ {m}
    BY <1>6 DEF RowTypes, Rows, Kinds
  <2> QED
    BY <1>6, <2>1 DEF RowTypes, Rows, Kinds, Files
<1>7. CASE RemoveRow
  BY <1>6, <1>7 DEF RemoveRow, At, OpTypes
<1>8. ASSUME NEW m \in Slugs, ColleagueRemoves(m)
      PROVE  RowTypes'
  BY <1>6, <1>8 DEF ColleagueRemoves
<1>9. CASE MarkAvailable \/ EvictOther \/ DefaultLoaded \/ RemoveUnload \/ InfraAnswers
  BY <1>2, <1>9, StatusesStay DEF MarkAvailable, EvictOther, DefaultLoaded, RemoveUnload,
     InfraAnswers, RowTypes
<1>10. CASE \/ BootReconciles \/ BootChecks \/ BootUnloads \/ BootMarks \/ BootMarksDefault
            \/ BootLoadsDefault
  <2>1. UNCHANGED <<kind, path, price, dflt, keyed>>
    BY <1>10 DEF BootReconciles, BootChecks, BootUnloads, BootMarks, BootMarksDefault,
       BootLoadsDefault, BootUnchanged
  <2>2. CASE BootReconciles
    BY <1>2, <2>1, <2>2 DEF BootReconciles, RowTypes
  <2>3. CASE BootChecks \/ BootUnloads \/ BootMarks \/ BootLoadsDefault
    BY <1>2, <2>1, <2>3, StatusesStay DEF BootChecks, BootUnloads, BootMarks, BootLoadsDefault,
       RowTypes
  <2>4. CASE BootMarksDefault
    BY <1>2, <2>1, <2>4 DEF BootMarksDefault, RowTypes
  <2> QED
    BY <1>10, <2>2, <2>3, <2>4
<1>11. ASSUME NEW m \in Slugs, ProcessExits(m)
       PROVE  RowTypes'
  BY <1>2, <1>11 DEF ProcessExits, BootUnchanged, RowTypes
<1>12. CASE CloseVersions \/ CreateVersion \/ ReadPlans \/ WriteArray \/ Entitle \/ AfterGrant
            \/ ListOthers \/ LoadDefault \/ RemoveStrip \/ RemoveRevoke \/ RemoveFiles
            \/ ActionStuck \/ ActionFails \/ Crash \/ BootFails
  BY <1>1, <1>12 DEF CloseVersions, CreateVersion, ReadPlans, WriteArray, Entitle, AfterGrant,
     ListOthers, LoadDefault, RemoveStrip, RemoveRevoke, RemoveFiles, ActionStuck, ActionFails,
     Crash, BootFails
<1>13. CASE BootListens \/ BootLists \/ BootFindsDefault \/ PriceLookup \/ PriceReadRow \/ PriceCreate
  BY <1>1, <1>13 DEF BootListens, BootLists, BootFindsDefault, BootUnchanged, PriceLookup,
     PriceReadRow, PriceCreate, registry
<1>14. ASSUME NEW m \in Slugs, NEW act \in {"load", "unload"}, InfraCall(act, m)
       PROVE  RowTypes'
  BY <1>1, <1>14 DEF InfraCall
<1>15. CASE Begins
  BY <1>1, <1>5, <1>15, BeginsAs DEF Begin
<1> QED
  BY <1>3, <1>4, <1>5, <1>7, <1>8, <1>9, <1>10, <1>11, <1>12, <1>13, <1>14, <1>15
     DEF AdminNext, OpStep, Boots

\* Plans list models of the registry's alphabet, the pool and the disk too.
LEMMA GrantsAndPoolStayTyped ==
  ASSUME AdminTypes, AdminNext
  PROVE  GrantTypes' /\ PoolTypes'
<1> USE DEF AdminTypes, GrantTypes, PoolTypes
<1>1. op.m \in Slugs \cup {NoModel} /\ op.seen \subseteq Slugs
      /\ (op.act # "none" => op.m \in Slugs) /\ (infra # NoCall => infra.m \in Slugs)
      /\ (boot.pc \in Warming => boot.m \in Slugs) /\ boot.seen \subseteq Slugs
  BY DEF OpTypes, OpRecord, CallTypes, BootTypes
<1>2. op.pc \in {"array", "entitle"} \/ op.act = "default" => op.m \in Slugs
  BY <1>1 DEF OpTypes, StepOf
<1>3. ASSUME UNCHANGED <<grants, disk, live>>
      PROVE  GrantTypes' /\ PoolTypes'
  BY <1>3 DEF grants
<1>4. CASE WriteArray \/ Entitle \/ RemoveStrip \/ RemoveRevoke \/ RemoveFiles
  BY <1>1, <1>2, <1>4 DEF WriteArray, Entitle, RemoveStrip, RemoveRevoke, RemoveFiles, grants
<1>5. CASE EvictOther \/ DefaultLoaded \/ RemoveUnload \/ InfraAnswers
  BY <1>1, <1>2, <1>5 DEF EvictOther, DefaultLoaded, RemoveUnload, InfraAnswers, LoadAnswers, Unloaded,
     grants, At
<1>6. CASE BootUnloads \/ BootLoadsDefault \/ Crash
  BY <1>1, <1>6 DEF BootUnloads, BootLoadsDefault, LoadAnswers, Unloaded, BootUnchanged, Crash,
     grants, Warming
<1>7. ASSUME NEW m \in Slugs, ProcessExits(m) \/ ColleagueRemoves(m)
      PROVE  GrantTypes' /\ PoolTypes'
  BY <1>7 DEF ProcessExits, ColleagueRemoves, Unloaded, BootUnchanged, grants
<1>8. CASE WriteRow \/ CloseVersions \/ CreateVersion \/ ReadPlans \/ AfterGrant \/ MoveDefault
           \/ MarkAvailable \/ ListOthers \/ LoadDefault \/ RemoveRow
           \/ ActionStuck \/ ActionFails \/ BootFails
  BY <1>3, <1>8 DEF WriteRow, CloseVersions, CreateVersion, ReadPlans, AfterGrant, MoveDefault,
     MarkAvailable, ListOthers, LoadDefault, RemoveRow, ActionStuck, ActionFails, BootFails
<1>9. CASE BootListens \/ BootLists \/ BootReconciles \/ BootFindsDefault \/ BootMarksDefault
           \/ BootChecks \/ BootMarks \/ PriceLookup \/ PriceReadRow \/ PriceCreate
  BY <1>3, <1>9 DEF BootListens, BootLists, BootReconciles, BootFindsDefault, BootMarksDefault,
     BootChecks, BootMarks, BootUnchanged, PriceLookup, PriceReadRow, PriceCreate
<1>10. ASSUME NEW m \in Slugs, NEW act \in {"load", "unload"}, InfraCall(act, m)
       PROVE  GrantTypes' /\ PoolTypes'
  BY <1>3, <1>10 DEF InfraCall
<1>11. CASE Begins
  BY <1>3, <1>11, BeginsLeave
<1> QED
  BY <1>4, <1>5, <1>6, <1>7, <1>8, <1>9, <1>10, <1>11 DEF AdminNext, OpStep, Boots

\* An action of the operator starts well formed and goes through the steps of its kind.
LEMMA OperatorStaysTyped ==
  ASSUME AdminTypes, AdminNext
  PROVE  OpTypes'
<1> USE DEF AdminTypes
<1>1. NoOp \in OpRecord
  BY BoundsAssumption DEF NoOp, OpRecord, Acts, Steps, Files, Kinds
<1>2. ASSUME op' = NoOp
      PROVE  OpTypes'
  BY <1>1, <1>2 DEF OpTypes, StepOf, NoOp
<1>3. ASSUME op' = op
      PROVE  OpTypes'
  BY <1>3 DEF OpTypes
<1>4. ASSUME NEW pc \in Steps, StepOf(op.act, pc), op.act # "none", op' = [op EXCEPT !.pc = pc]
      PROVE  OpTypes'
  <2>1. op' \in OpRecord /\ op'.act = op.act /\ op'.pc = pc /\ op'.m = op.m
        /\ op'.price = op.price /\ op'.file = op.file /\ op'.kin = op.kin /\ (op'.flag <=> op.flag)
    BY <1>4 DEF OpTypes, OpRecord
  <2> QED
    BY <1>4, <2>1 DEF OpTypes
<1>5. ASSUME NEW m \in Slugs, NEW act \in Acts, NEW pc \in Steps, NEW f \in Files,
             NEW p \in Prices \cup {0}, NEW flag \in BOOLEAN,
             Begin(act, m, pc, f, p, flag), Started(act, m, pc, f, p, flag)
      PROVE  OpTypes'
  <2>1. /\ op'.act = act /\ op'.m = m /\ op'.pc = pc /\ op'.file = f /\ op'.price = p
        /\ op'.flag = flag /\ op'.was = price[m] /\ op'.kin = kind[m] /\ op'.seen = {}
        /\ op' = [act |-> act, m |-> m, pc |-> pc, file |-> f, price |-> p, flag |-> flag,
                  seen |-> {}, was |-> price[m], kin |-> kind[m], late |-> {}]
    BY <1>5 DEF Begin, NoOp
  <2>2. price[m] \in Prices /\ kind[m] \in Kinds
    BY DEF RowTypes
  <2>3. op' \in OpRecord
    BY <2>1, <2>2 DEF OpRecord
  <2>4. StepOf(act, pc)
    BY <1>5 DEF Started, StepOf
  <2> QED
    BY <1>5, <2>1, <2>3, <2>4 DEF OpTypes, Started
<1>6. CASE WriteRow
  BY <1>2, <1>4, <1>6 DEF WriteRow, Goto, Done, Steps, StepOf
<1>7. CASE CloseVersions
  <2>1. clock' \in 0..MaxClock
    BY <1>7, BoundsAssumption DEF CloseVersions, Tick, CountTypes
  <2>2. /\ op' \in OpRecord /\ op'.act = op.act /\ op'.pc = "version" /\ op'.m = op.m
        /\ op'.price = op.price /\ op'.file = op.file /\ op'.kin = op.kin /\ (op'.flag <=> op.flag) /\ op.act = "edit"
    BY <1>7, <2>1 DEF CloseVersions, OpTypes, OpRecord, Steps, At
  <2> QED
    BY <2>2 DEF OpTypes, StepOf
<1>8. CASE CreateVersion
  BY <1>2, <1>4, <1>8 DEF CreateVersion, Goto, Done, Steps, StepOf
<1>9. CASE ReadPlans
  <2>1. /\ op' \in OpRecord /\ op'.act = op.act /\ op'.m = op.m
        /\ op'.price = op.price /\ op'.file = op.file /\ op'.kin = op.kin /\ (op'.flag <=> op.flag)
        /\ op'.pc = IF op.act = "remove" THEN "strip"
                    ELSE IF op.m \in allowed THEN "granted" ELSE "array"
    BY <1>9 DEF ReadPlans, OpTypes, OpRecord, Steps, GrantTypes
  <2>2. op.act \in {"remote", "grant", "default", "remove"}
    BY <1>9 DEF OpTypes, StepOf, ReadPlans, Acts, OpRecord
  <2>3. StepOf(op'.act, op'.pc)
    BY <2>1, <2>2 DEF StepOf
  <2> QED
    BY <2>1, <2>2, <2>3 DEF OpTypes
<1>10. CASE WriteArray \/ Entitle \/ AfterGrant
  <2>1. op.act \in {"remote", "grant", "default"}
    BY <1>10 DEF WriteArray, Entitle, AfterGrant, OpTypes, StepOf, OpRecord, Acts
  <2>2. op.flag => op.act = "remote"
    BY <2>1 DEF OpTypes
  <2> QED
    BY <1>2, <1>4, <1>10, <2>1, <2>2 DEF WriteArray, Entitle, AfterGrant, Goto, Done, Steps, StepOf
<1>11. CASE MoveDefault \/ MarkAvailable
  BY <1>2, <1>4, <1>11 DEF MoveDefault, MarkAvailable, Goto, Done, Steps, StepOf, At
<1>12. CASE ListOthers \/ EvictOther \/ LoadDefault
  <2>1. EngineModels \subseteq Slugs
    BY DEF EngineModels, PoolTypes, Rows
  <2>2. op.m \in Rows => FileOf(op.m) \in Files
    BY DEF FileOf, RowTypes, Files, Rows
  <2>3. op.act = "default"
    BY <1>12 DEF ListOthers, EvictOther, LoadDefault, At
  <2>4. \/ op' = NoOp
        \/ /\ op' \in OpRecord /\ op'.act = op.act /\ op'.m = op.m /\ op'.kin = op.kin
           /\ (op'.flag <=> op.flag)
           /\ op'.price = op.price /\ op'.pc \in {"evict", "loading"}
    <3>1. CASE ListOthers
      BY <2>1, <3>1 DEF ListOthers, At, OpTypes, OpRecord, Steps
    <3>2. CASE EvictOther
      BY <3>2 DEF EvictOther, At, OpTypes, OpRecord, Steps
    <3>3. CASE LoadDefault
      BY <2>2, <3>3 DEF LoadDefault, At, OpTypes, OpRecord, Steps
    <3> QED
      BY <1>12, <3>1, <3>2, <3>3
  <2> QED
    BY <1>2, <2>3, <2>4 DEF OpTypes, StepOf
<1>13. CASE RemoveUnload \/ RemoveRevoke
  <2>1. op.act = "remove"
    BY <1>13 DEF RemoveUnload, RemoveRevoke, At
  <2>2. /\ op' \in OpRecord /\ op'.act = op.act /\ op'.m = op.m /\ op'.kin = op.kin
        /\ op'.price = op.price /\ op'.pc \in {"plans", "delete"}
    <3>1. CASE RemoveUnload
      <4>1. path[op.m] \in Files
        BY <2>1 DEF OpTypes, RowTypes
      <4> QED
        BY <3>1, <4>1 DEF RemoveUnload, At, OpTypes, OpRecord, Steps
    <3>2. CASE RemoveRevoke
      <4>1. PICK b \in BOOLEAN : op' = [op EXCEPT !.pc = "delete", !.flag = b]
        BY <3>2 DEF RemoveRevoke
      <4> QED
        BY <3>2, <4>1 DEF RemoveRevoke, At, OpTypes, OpRecord, Steps
    <3> QED
      BY <1>13, <3>1, <3>2
  <2> QED
    BY <2>1, <2>2 DEF OpTypes, StepOf
<1>14. CASE RemoveStrip \/ RemoveRow \/ RemoveFiles
  BY <1>2, <1>4, <1>14 DEF RemoveStrip, RemoveRow, RemoveFiles, Goto, Done, Steps, StepOf, At
<1>15. CASE DefaultLoaded \/ ActionStuck \/ ActionFails
  BY <1>2, <1>15 DEF DefaultLoaded, ActionStuck, ActionFails, Done
<1>16. CASE InfraAnswers \/ Crash \/ Boots \/ BootFails \/ PriceLookup \/ PriceReadRow \/ PriceCreate
  BY <1>3, <1>16 DEF InfraAnswers, Crash, Boots, BootListens, BootLists, BootReconciles,
     BootFindsDefault, BootChecks, BootUnloads, BootMarks, BootMarksDefault, BootLoadsDefault, BootUnchanged, BootFails,
     PriceLookup, PriceReadRow, PriceCreate
<1>17. ASSUME NEW m \in Slugs, NEW act \in {"load", "unload"},
              InfraCall(act, m) \/ ProcessExits(m) \/ ColleagueRemoves(m)
       PROVE  OpTypes'
  BY <1>3, <1>17 DEF InfraCall, ProcessExits, ColleagueRemoves, BootUnchanged
<1>18. CASE Begins
  <2>1. ASSUME NEW m \in Slugs, NEW f \in Paths, RegisterDiscovered(m, f)
        PROVE  OpTypes'
    <3>1. CASE op.pc \in {"delete", "unlink"}
      <4>1. op' = [op EXCEPT !.late = @ \cup {m}]
        BY <2>1, <3>1 DEF RegisterDiscovered
      <4>2. /\ op' \in OpRecord /\ op'.act = op.act /\ op'.pc = op.pc /\ op'.m = op.m
            /\ op'.price = op.price /\ op'.file = op.file /\ op'.kin = op.kin
            /\ (op'.flag <=> op.flag) /\ op.act # "none"
        BY <3>1, <4>1 DEF OpTypes, OpRecord, NoOp
      <4> QED
        BY <4>2 DEF OpTypes
    <3>2. CASE op.pc \notin {"delete", "unlink"}
      BY <1>3, <2>1, <3>2 DEF RegisterDiscovered
    <3> QED
      BY <3>1, <3>2
  <2> QED
    BY <1>5, <1>18, <2>1, BeginsAs
<1> QED
  BY <1>6, <1>7, <1>8, <1>9, <1>10, <1>11, <1>12, <1>13, <1>14, <1>15, <1>16, <1>17, <1>18
     DEF AdminNext, OpStep

\* A call of the infrastructure page and the start-up name models of the registry.
LEMMA CallsStayTyped ==
  ASSUME AdminTypes, AdminNext
  PROVE  CallTypes' /\ BootTypes'
<1> USE DEF AdminTypes, Warming, Kinds
<1>1. ASSUME infra' \in {infra, NoCall}
      PROVE  CallTypes'
  BY <1>1 DEF CallTypes, NoCall, Files
<1>2. ASSUME boot' \in {boot, NoBoot}
      PROVE  BootTypes'
  BY <1>2 DEF BootTypes, NoBoot, Files
<1>3. EngineModels \subseteq Slugs /\ \A m \in Slugs : FileOf(m) \in Files
  BY DEF EngineModels, FileOf, PoolTypes, RowTypes, Rows, Files
<1>4. ASSUME NEW m \in Slugs, NEW act \in {"load", "unload"}, InfraCall(act, m)
      PROVE  CallTypes' /\ BootTypes'
  BY <1>2, <1>3, <1>4 DEF InfraCall, CallTypes
<1>5. CASE Crash
  BY <1>1, <1>5 DEF Crash, NoBoot, BootTypes, Files
<1>6. ASSUME infra' = infra,
             NEW to \in {"list", "reconcile", "find", "evict", "unload", "mark", "warming"},
             NEW seen \in SUBSET Slugs, boot' = [boot EXCEPT !.pc = to, !.seen = seen],
             to \in Warming => boot.m \in Slugs,
             to \in {"unload", "mark"} => boot.victim \in Slugs /\ boot.kin # "REMOTE"
      PROVE  CallTypes' /\ BootTypes'
  BY <1>1, <1>6 DEF BootTypes
<1>7. CASE BootListens \/ BootLists \/ BootReconciles
  <2>1. infra' = infra
    BY <1>7 DEF BootListens, BootLists, BootReconciles, BootUnchanged
  <2>2. \/ boot' = [boot EXCEPT !.pc = "list", !.seen = boot.seen]
        \/ boot' = [boot EXCEPT !.pc = "reconcile", !.seen = EngineModels]
        \/ boot' = [boot EXCEPT !.pc = "find", !.seen = boot.seen]
    BY <1>7 DEF BootListens, BootLists, BootReconciles, BootStep, BootTypes
  <2>3. boot.seen \in SUBSET Slugs
    BY DEF BootTypes
  <2> QED
    BY <1>3, <1>6, <2>1, <2>2, <2>3 DEF Warming
<1>8. CASE BootFindsDefault
  <2>1. dflt # NoModel => dflt \in Slugs
    BY DEF RowTypes, Rows
  <2> QED
    BY <1>1, <1>2, <1>3, <1>8, <2>1 DEF BootFindsDefault, BootUnchanged, BootTypes, NoBoot, Kinds
<1>9. CASE BootChecks
  <2>1. PICK m \in boot.seen :
          boot' = [boot EXCEPT !.seen = @ \ {m}, !.victim = m, !.kin = kind[m],
                               !.pc = IF Remote(m) THEN "evict" ELSE "unload"]
    BY <1>9 DEF BootChecks
  <2>2. m \in Slugs /\ boot.m \in Slugs /\ infra' = infra /\ kind[m] \in Kinds
    BY <1>9 DEF BootChecks, BootTypes, BootUnchanged, RowTypes, Warming
  <2> QED
    BY <1>1, <2>1, <2>2 DEF BootTypes, Remote
<1>16. CASE BootUnloads \/ BootMarks
  <2>1. infra' = infra /\ boot.m \in Slugs /\ boot.victim \in Slugs /\ boot.kin # "REMOTE"
        /\ boot.seen \in SUBSET Slugs
    BY <1>16 DEF BootUnloads, BootMarks, BootStep, BootUnchanged, BootTypes, Warming
  <2>2. \/ boot' = [boot EXCEPT !.pc = "mark", !.seen = boot.seen]
        \/ boot' = [boot EXCEPT !.pc = "evict", !.seen = boot.seen]
    BY <1>16 DEF BootUnloads, BootMarks, BootStep, BootTypes
  <2> QED
    BY <1>6, <2>1, <2>2
<1>10. CASE BootMarksDefault
  <2>1. infra' = infra /\ boot.m \in Slugs /\ boot.seen \in SUBSET Slugs
    BY <1>10 DEF BootMarksDefault, BootUnchanged, BootTypes, Warming
  <2>2. boot' = NoBoot \/ boot' = [boot EXCEPT !.pc = "warming", !.seen = boot.seen]
    BY <1>10 DEF BootMarksDefault, BootTypes
  <2> QED
    BY <1>1, <1>2, <1>6, <2>1, <2>2
<1>17. CASE BootFails
  <2>1. infra' = infra /\ boot.seen \in SUBSET Slugs
    BY <1>17 DEF BootFails, BootTypes
  <2>2. boot' = NoBoot \/ (boot.m \in Slugs /\ boot' = [boot EXCEPT !.pc = "evict", !.seen = boot.seen])
    BY <1>17 DEF BootFails, BootTypes, Warming
  <2> QED
    BY <1>1, <1>2, <1>6, <2>1, <2>2
<1>11. CASE BootLoadsDefault \/ InfraAnswers
  BY <1>1, <1>2, <1>11 DEF BootLoadsDefault, BootUnchanged, InfraAnswers
<1>12. CASE OpStep \/ ActionFails
  BY <1>1, <1>2, <1>12 DEF OpStep, WriteRow, CloseVersions, CreateVersion, ReadPlans, WriteArray,
     Entitle, AfterGrant, MoveDefault, MarkAvailable, ListOthers, EvictOther, LoadDefault,
     DefaultLoaded, RemoveUnload, RemoveStrip, RemoveRevoke, RemoveRow, RemoveFiles, ActionStuck,
     ActionFails
<1>13. CASE PriceLookup \/ PriceReadRow \/ PriceCreate
  BY <1>1, <1>2, <1>13 DEF PriceLookup, PriceReadRow, PriceCreate
<1>14. ASSUME NEW m \in Slugs, ProcessExits(m) \/ ColleagueRemoves(m)
       PROVE  CallTypes' /\ BootTypes'
  BY <1>1, <1>2, <1>14 DEF ProcessExits, ColleagueRemoves, BootUnchanged
<1>15. CASE Begins
  BY <1>1, <1>2, <1>15, BeginsLeave
<1> QED
  BY <1>4, <1>5, <1>7, <1>8, <1>9, <1>10, <1>11, <1>12, <1>13, <1>14, <1>15,
     <1>16, <1>17 DEF AdminNext, Boots

\* What the operators do is counted within the bounds.
LEMMA CountsStayTyped ==
  ASSUME AdminTypes, AdminNext
  PROVE  CountTypes'
<1> USE DEF AdminTypes, CountTypes
<1> USE BoundsAssumption
<1>1. count.ops < OpBudget => count.ops + 1 \in 0..MaxOps
  BY DEF OpBudget
<1>2. CASE \/ WriteRow \/ ReadPlans \/ WriteArray \/ Entitle \/ AfterGrant \/ MoveDefault
           \/ MarkAvailable \/ ListOthers \/ EvictOther \/ LoadDefault \/ DefaultLoaded
           \/ RemoveUnload \/ RemoveStrip \/ RemoveRevoke \/ RemoveRow \/ RemoveFiles
           \/ ActionStuck \/ ActionFails
  BY <1>2 DEF WriteRow, ReadPlans, WriteArray, Entitle, AfterGrant, MoveDefault,
     MarkAvailable, ListOthers, EvictOther, LoadDefault, DefaultLoaded, RemoveUnload, RemoveStrip,
     RemoveRevoke, RemoveRow, RemoveFiles, ActionStuck, ActionFails, pricing
<1>9. CASE CloseVersions \/ CreateVersion
  <2>1. clock' \in 0..MaxClock
    BY <1>9 DEF CloseVersions, CreateVersion, Tick
  <2> QED
    BY <1>9, <2>1 DEF CloseVersions, CreateVersion
<1>3. CASE InfraAnswers
  BY <1>3 DEF InfraAnswers, pricing
<1>11. CASE BootFails
  <2>1. broken' \in 0..MaxFaults /\ UNCHANGED <<mode, survives, count, clock>> /\ quiet' = FALSE
    BY <1>11 DEF BootFails, pricing
  <2> QED
    BY <2>1
<1>10. CASE Crash
  <2>1. quiet' \in BOOLEAN
    BY <1>10, Zenon DEF Crash
  <2>2. count' \in [ops : 0..MaxOps, crashes : 0..MaxCrashes]
    BY <1>10 DEF Crash
  <2>3. UNCHANGED <<mode, survives, broken, clock>>
    BY <1>10 DEF Crash, pricing
  <2> QED
    BY <2>1, <2>2, <2>3
<1>4. CASE Boots
  BY <1>4 DEF Boots, BootListens, BootLists, BootReconciles, BootFindsDefault, BootChecks, BootUnloads, BootMarks,
     BootMarksDefault, BootLoadsDefault, BootUnchanged, pricing
<1>5. CASE PriceLookup \/ PriceReadRow \/ PriceCreate
  BY <1>5 DEF PriceLookup, PriceReadRow, PriceCreate, Tick
<1>6. ASSUME NEW m \in Slugs, ProcessExits(m) \/ ColleagueRemoves(m)
      PROVE  CountTypes'
  BY <1>1, <1>6 DEF ProcessExits, ColleagueRemoves, BootUnchanged, pricing
<1>7. ASSUME NEW m \in Slugs, NEW act \in {"load", "unload"}, InfraCall(act, m)
      PROVE  CountTypes'
  <2>1. count' \in [ops : 0..MaxOps, crashes : 0..MaxCrashes]
    BY <1>1, <1>7 DEF InfraCall
  <2> QED
    BY <1>7, <2>1 DEF InfraCall, pricing
<1>8. CASE Begins
  <2>1. UNCHANGED <<mode, survives, broken, clock>> /\ quiet' = FALSE /\ count.ops < OpBudget
        /\ count' = [count EXCEPT !.ops = @ + 1]
    BY <1>8, BeginsLeave
  <2>2. count' \in [ops : 0..MaxOps, crashes : 0..MaxCrashes]
    BY <1>1, <2>1
  <2> QED
    BY <2>1, <2>2
<1> QED
  BY <1>2, <1>3, <1>4, <1>5, <1>6, <1>7, <1>8, <1>9, <1>10, <1>11 DEF AdminNext, OpStep

\* A version that is created has a price and a time; closing one keeps both.
LEMMA VersionsStayTyped ==
  ASSUME AdminTypes, PriceInv, AdminNext
  PROVE  VersionTypes'
<1> USE DEF AdminTypes
<1>1. ASSUME UNCHANGED <<versions, chat>>
      PROVE  VersionTypes'
  BY <1>1 DEF VersionTypes
<1>2. ASSUME NEW t \in 0..MaxClock, NEW p \in Prices,
             versions' = versions \/ versions' = InsertVersion(t, p), chat' \in {chat, NoChat}
      PROVE  VersionTypes'
  <2>1. NoChat \in [pc : {"idle", "found_none", "priced"}, now : 0..MaxClock, price : Prices \cup {0}]
    BY BoundsAssumption DEF NoChat
  <2>2. /\ DOMAIN versions' \subseteq 0..MaxClock
        /\ \A u \in DOMAIN versions' : versions'[u] \in [price : Prices, open : BOOLEAN]
    <3>1. CASE versions' = versions
      BY <3>1 DEF VersionTypes
    <3>2. CASE versions' = InsertVersion(t, p)
      <4>1. [price |-> p, open |-> TRUE] \in [price : Prices, open : BOOLEAN]
        OBVIOUS
      <4>2. /\ DOMAIN versions' = DOMAIN versions \cup {t}
            /\ \A u \in DOMAIN versions' :
                 versions'[u] = IF u = t THEN [price |-> p, open |-> TRUE] ELSE versions[u]
        BY <3>2 DEF InsertVersion
      <4> QED
        BY <4>1, <4>2 DEF VersionTypes
    <3> QED
      BY <1>2, <3>1, <3>2
  <2> QED
    BY <1>2, <2>1, <2>2 DEF VersionTypes, NoChat
<1>3. CASE CloseVersions
  <2>1. DOMAIN versions' = DOMAIN versions /\ chat' = chat
        /\ \A t \in DOMAIN versions : versions'[t] = [versions[t] EXCEPT !.open = FALSE]
    BY <1>3 DEF CloseVersions
  <2>2. \A t \in DOMAIN versions : versions[t] \in [price : Prices, open : BOOLEAN]
    BY DEF VersionTypes
  <2>3. \A t \in DOMAIN versions : versions'[t] \in [price : Prices, open : BOOLEAN]
    BY <2>1, <2>2
  <2> QED
    BY <2>1, <2>3 DEF VersionTypes
<1>4. CASE CreateVersion
  <2>1. op.act # "none" /\ op.act \in {"local", "edit", "remote"} /\ op.price \in Prices
    BY <1>4 DEF CreateVersion, OpTypes, StepOf, OpRecord, Acts
  <2>2. chat' = chat /\ clock' \in 0..MaxClock
    BY <1>4, CountsStayTyped DEF CreateVersion, CountTypes
  <2> DEFINE t == IF op.act = "edit" THEN op.was ELSE clock'
  <2>3. versions' = versions \/ (mode = "pricing" /\ versions' = InsertVersion(t, op.price))
    BY <1>4 DEF CreateVersion
  <2>4. mode = "pricing" => t \in 0..MaxClock
    <3>1. ASSUME mode = "pricing", op.act = "edit"
          PROVE  op.was \in 0..MaxClock
      <4>1. op.was \in 0..clock
        BY <1>4, <3>1 DEF CreateVersion, PriceInv, Timed, Backdates
      <4> QED
        BY <4>1, BoundsAssumption DEF CountTypes
    <3> QED
      BY <2>2, <3>1
  <2> HIDE DEF t
  <2>5. PICK p \in Prices : p = op.price
    BY <2>1
  <2>6. CASE versions' = versions
    BY <2>2, <2>6 DEF VersionTypes
  <2> QED
    BY <1>2, <2>2, <2>3, <2>4, <2>5, <2>6
<1>5. CASE PriceLookup
  BY <1>5, CountsStayTyped DEF PriceLookup, VersionTypes, CountTypes, NoChat
<1>6. CASE PriceReadRow
  <2>1. mode = "pricing"
    BY <1>6 DEF PriceReadRow, PriceInv
  <2>2. price[Priced] \in Prices
    BY <2>1 DEF PriceInv, Priceable, Rows, RowTypes
  <2> QED
    BY <1>6, <2>2 DEF PriceReadRow, VersionTypes
<1>7. CASE PriceCreate
  <2>1. chat.price \in Prices /\ chat.now \in 0..MaxClock
    BY <1>7 DEF PriceCreate, VersionTypes
  <2> QED
    BY <1>2, <1>7, <2>1 DEF PriceCreate

<1>8. CASE Begins
  BY <1>1, <1>8, BeginsLeave
<1>9. CASE \/ WriteRow \/ ReadPlans \/ WriteArray \/ Entitle \/ AfterGrant \/ MoveDefault
           \/ MarkAvailable \/ ListOthers \/ EvictOther \/ LoadDefault \/ DefaultLoaded
           \/ RemoveUnload \/ RemoveStrip \/ RemoveRevoke \/ RemoveRow \/ RemoveFiles
           \/ ActionStuck \/ ActionFails
  BY <1>1, <1>9 DEF WriteRow, ReadPlans, WriteArray, Entitle, AfterGrant, MoveDefault,
     MarkAvailable, ListOthers, EvictOther, LoadDefault, DefaultLoaded, RemoveUnload, RemoveStrip,
     RemoveRevoke, RemoveRow, RemoveFiles, ActionStuck, ActionFails, pricing
<1>10. CASE InfraAnswers \/ Crash \/ BootFails \/ Boots
  BY <1>1, <1>10 DEF InfraAnswers, Crash, BootFails, Boots, BootListens, BootLists,
     BootReconciles, BootFindsDefault, BootChecks, BootUnloads, BootMarks, BootMarksDefault, BootLoadsDefault,
     BootUnchanged, pricing
<1>11. ASSUME NEW m \in Slugs, ProcessExits(m) \/ ColleagueRemoves(m)
       PROVE  VersionTypes'
  BY <1>1, <1>11 DEF ProcessExits, ColleagueRemoves, BootUnchanged, pricing
<1>12. ASSUME NEW m \in Slugs, NEW act \in {"load", "unload"}, InfraCall(act, m)
       PROVE  VersionTypes'
  BY <1>1, <1>12 DEF InfraCall, pricing
<1> QED
  BY <1>3, <1>4, <1>5, <1>6, <1>7, <1>8, <1>9, <1>10, <1>11, <1>12 DEF AdminNext, OpStep

\* All of the administration's state keeps its types.
LEMMA AdminStaysTyped ==
  ASSUME AdminTypes, PriceInv, AdminNext
  PROVE  AdminTypes'
BY RowsStayTyped, GrantsAndPoolStayTyped, OperatorStaysTyped, CallsStayTyped, CountsStayTyped,
   VersionsStayTyped DEF AdminTypes

-----------------------------------------------------------------------------
(* Keys and files                                                           *)

\* A remote row is written after its key was checked or along with it.
LEMMA KeysStay ==
  ASSUME AdminTypes, KeyInv, AdminNext
  PROVE  KeyInv'
<1> USE DEF KeyInv
<1>1. ASSUME UNCHANGED <<kind, keyed>>, op' \in {op, NoOp} \/ op'.pc # "row"
      PROVE  KeyInv'
  BY <1>1 DEF RemoteHasKey, Rows, Remote, NoOp
<1>2. ASSUME NEW pc, pc # "row", op' = [op EXCEPT !.pc = pc]
      PROVE  op'.pc # "row"
  BY <1>2 DEF AdminTypes, OpTypes, OpRecord
<1>3. CASE WriteRow
  <2>1. op.m \in Slugs /\ kind \in [Slugs -> Kinds]
    BY <1>3 DEF WriteRow, AdminTypes, OpTypes, RowTypes
  <2>2. op' = NoOp \/ op'.pc # "row"
    BY <1>2, <1>3 DEF WriteRow, Goto, Done
  <2>3. op.act = "remote" => op.m \in keyed' \/ EnvKey
    BY <1>3 DEF WriteRow
  <2>4. kind' = [kind EXCEPT ![op.m] = kind'[op.m]] /\ keyed \subseteq keyed'
        /\ (kind'[op.m] = "REMOTE" => op.act = "remote" \/ kind[op.m] = "REMOTE")
    BY <1>3, <2>1 DEF WriteRow
  <2>5. RemoteHasKey'
    BY <2>1, <2>3, <2>4 DEF RemoteHasKey, Rows, Remote
  <2> QED
    BY <2>2, <2>5 DEF NoOp
<1>4. ASSUME NEW m \in Slugs, NEW f \in Paths, RegisterDiscovered(m, f)
      PROVE  KeyInv'
  BY <1>4 DEF RegisterDiscovered, RemoteHasKey, Rows, Remote, AdminTypes, RowTypes
<1>5. ASSUME NEW m \in Slugs, kind' = [kind EXCEPT ![m] = "NONE"], keyed' = keyed \ {m},
             op' \in {op, NoOp} \/ op'.pc # "row"
      PROVE  KeyInv'
  <2>1. RemoteHasKey'
    BY <1>5 DEF RemoteHasKey, Rows, Remote, AdminTypes, RowTypes
  <2> QED
    BY <1>5, <2>1 DEF NoOp
<1>6. CASE RemoveRow
  <2>1. op.m \in Slugs
    BY <1>6 DEF RemoveRow, At, AdminTypes, OpTypes
  <2> QED
    BY <1>2, <1>5, <1>6, <2>1 DEF RemoveRow, Goto, Done
<1>7. ASSUME NEW m \in Slugs, ColleagueRemoves(m) \/ ProcessExits(m)
      PROVE  KeyInv'
  BY <1>1, <1>5, <1>7 DEF ColleagueRemoves, ProcessExits, BootUnchanged
<1>8. CASE CreateVersion \/ WriteArray \/ Entitle \/ AfterGrant \/ MoveDefault \/ MarkAvailable
           \/ RemoveStrip \/ RemoveFiles \/ DefaultLoaded \/ ActionStuck \/ ActionFails
  BY <1>1, <1>2, <1>8 DEF CreateVersion, WriteArray, Entitle, AfterGrant, MoveDefault,
     MarkAvailable, RemoveStrip, RemoveFiles, DefaultLoaded, ActionStuck, ActionFails, Goto, Done,
     registry
<1>9. CASE CloseVersions \/ ReadPlans \/ ListOthers \/ EvictOther \/ LoadDefault \/ RemoveUnload
           \/ RemoveRevoke
  <2>1. UNCHANGED <<kind, keyed>>
    BY <1>9 DEF CloseVersions, ReadPlans, ListOthers, EvictOther, LoadDefault, RemoveUnload,
       RemoveRevoke, registry
  <2>2. op' = NoOp \/ op'.pc # "row"
    <3>1. CASE CloseVersions \/ ReadPlans
      BY <3>1 DEF CloseVersions, ReadPlans, AdminTypes, OpTypes, OpRecord
    <3>2. CASE ListOthers \/ EvictOther \/ LoadDefault
      BY <3>2 DEF ListOthers, EvictOther, LoadDefault, AdminTypes, OpTypes, OpRecord, At
    <3>3. CASE RemoveUnload \/ RemoveRevoke
      BY <3>3 DEF RemoveUnload, RemoveRevoke, AdminTypes, OpTypes, OpRecord
    <3> QED
      BY <1>9, <3>1, <3>2, <3>3
  <2> QED
    BY <1>1, <2>1, <2>2
<1>10. CASE InfraAnswers \/ Crash \/ BootFails \/ Boots \/ PriceLookup \/ PriceReadRow \/ PriceCreate
  BY <1>1, <1>10 DEF InfraAnswers, Crash, BootFails, Boots, BootListens, BootLists,
     BootReconciles, BootFindsDefault, BootChecks, BootUnloads, BootMarks, BootMarksDefault, BootLoadsDefault,
     BootUnchanged, PriceLookup, PriceReadRow, PriceCreate, registry
<1>11. ASSUME NEW m \in Slugs, NEW act \in {"load", "unload"}, InfraCall(act, m)
       PROVE  KeyInv'
  BY <1>1, <1>11 DEF InfraCall, registry
<1>12. ASSUME NEW m \in Slugs, NEW act \in Acts, NEW pc \in Steps, NEW f \in Files,
              NEW p \in Prices \cup {0}, NEW flag \in BOOLEAN,
              Begin(act, m, pc, f, p, flag), Started(act, m, pc, f, p, flag)
       PROVE  KeyInv'
  <2>1. op'.act = act /\ op'.pc = pc /\ UNCHANGED <<kind, keyed>>
    BY <1>12 DEF Begin, NoOp, registry
  <2> QED
    BY <1>12, <2>1 DEF Started, RemoteHasKey, Rows, Remote
<1> QED
  BY <1>3, <1>4, <1>6, <1>7, <1>8, <1>9, <1>10, <1>11, <1>12, BeginsAs DEF AdminNext, OpStep

\* How the registry is used is chosen once.
LEMMA ModeStays ==
  ASSUME AdminNext
  PROVE  mode' = mode
<1>1. CASE Begins
  BY <1>1, BeginsLeave
<1>2. CASE OpStep \/ ActionFails
  BY <1>2 DEF OpStep, WriteRow, CloseVersions, CreateVersion, ReadPlans, WriteArray,
     Entitle, AfterGrant, MoveDefault, MarkAvailable, ListOthers, EvictOther, LoadDefault,
     DefaultLoaded, RemoveUnload, RemoveStrip, RemoveRevoke, RemoveRow, RemoveFiles,
     ActionStuck, ActionFails
<1>3. CASE InfraAnswers \/ Crash \/ BootFails \/ Boots \/ PriceLookup \/ PriceReadRow \/ PriceCreate
  BY <1>3 DEF InfraAnswers, Crash, BootFails, Boots, BootListens, BootLists,
     BootReconciles, BootFindsDefault, BootChecks, BootUnloads, BootMarks, BootMarksDefault, BootLoadsDefault,
     BootUnchanged, PriceLookup, PriceReadRow, PriceCreate
<1>4. ASSUME NEW m \in Slugs, ColleagueRemoves(m) \/ ProcessExits(m)
      PROVE  mode' = mode
  BY <1>4 DEF ColleagueRemoves, ProcessExits, BootUnchanged
<1>5. ASSUME NEW m \in Slugs, NEW act \in {"load", "unload"}, InfraCall(act, m)
      PROVE  mode' = mode
  BY <1>5 DEF InfraCall
<1> QED
  BY <1>1, <1>2, <1>3, <1>4, <1>5 DEF AdminNext

\* A step of the operator's action moves it on or ends it.
LEMMA StepFields ==
  ASSUME AdminTypes
  PROVE  /\ \A pc : op' = [op EXCEPT !.pc = pc] =>
                    /\ op'.act = op.act /\ op'.pc = pc /\ op'.m = op.m /\ op'.file = op.file
                    /\ op'.price = op.price /\ op'.was = op.was
         /\ op' = NoOp => op'.act = "none" /\ op'.pc = "idle"
BY DEF AdminTypes, OpTypes, OpRecord, NoOp

\* The count of sharers stays true until the file is deleted.
LEMMA FilesStay ==
  ASSUME AdminTypes, FileInv, AdminNext
  PROVE  FileInv'
<1> USE DEF FileInv
<1>1. ASSUME op' = op, UNCHANGED <<kind, path>>
      PROVE  FileInv'
  BY <1>1 DEF Rows
<1>2. ASSUME op'.act # "remove" \/ op'.pc \notin {"delete", "unlink"}
      PROVE  FileInv'
  BY <1>2
<1>3. ASSUME NEW pc, op' = [op EXCEPT !.pc = pc]
      PROVE  op'.act = op.act /\ op'.pc = pc /\ op'.m = op.m /\ op'.file = op.file
             /\ op'.late = op.late
  BY <1>3 DEF AdminTypes, OpTypes, OpRecord
<1>4. op' = NoOp => op'.act # "remove"
  BY DEF NoOp
<1>5. CASE RemoveRevoke
  <2>1. op'.act = op.act /\ op'.m = op.m /\ op'.file = op.file /\ op'.pc = "delete"
        /\ (op'.flag <=> Sharers(op.m, op.file) = {}) /\ UNCHANGED <<kind, path>>
    BY <1>5 DEF RemoveRevoke, AdminTypes, OpTypes, OpRecord, registry
  <2>2. Sharers(op.m, op.file) = {} => \A m \in Rows \ {op.m} : path[m] # op.file
    BY DEF Sharers
  <2> QED
    BY <2>1, <2>2 DEF Rows
<1>6. CASE RemoveRow
  <2>1. op.act = "remove" /\ op.pc = "delete" /\ op.m \in Slugs
    BY <1>6 DEF RemoveRow, At, AdminTypes, OpTypes
  <2>2. CASE ~op.flag
    BY <1>2, <1>4, <1>6, <2>2 DEF RemoveRow, Done
  <2>3. CASE op.flag
    <3>1. op'.act = op.act /\ op'.pc = "unlink" /\ op'.m = op.m /\ op'.file = op.file
          /\ op'.late = op.late
      BY <1>3, <1>6, <2>3 DEF RemoveRow, Goto
    <3>2. Rows' = Rows \ {op.m} /\ \A m \in Rows \ {op.m} : path'[m] = path[m]
      BY <1>6, <2>1 DEF RemoveRow, Rows, AdminTypes, RowTypes
    <3> QED
      BY <2>1, <2>3, <3>1, <3>2
  <2> QED
    BY <2>2, <2>3
<1>7. CASE WriteRow \/ CreateVersion \/ WriteArray \/ Entitle \/ AfterGrant \/ MoveDefault
           \/ MarkAvailable \/ RemoveStrip \/ RemoveFiles \/ DefaultLoaded \/ ActionStuck
           \/ ActionFails
  BY <1>2, <1>3, <1>4, <1>7 DEF WriteRow, CreateVersion, WriteArray, Entitle, AfterGrant,
     MoveDefault, MarkAvailable, RemoveStrip, RemoveFiles, DefaultLoaded, ActionStuck,
     ActionFails, Goto, Done
<1>8. CASE CloseVersions \/ ReadPlans \/ RemoveUnload
  <2>1. op'.pc \notin {"delete", "unlink"}
    BY <1>8 DEF CloseVersions, ReadPlans, RemoveUnload, AdminTypes, OpTypes, OpRecord
  <2> QED
    BY <1>2, <2>1
<1>9. CASE ListOthers \/ EvictOther \/ LoadDefault
  <2>1. op' = NoOp \/ op'.act = "default"
    BY <1>9 DEF ListOthers, EvictOther, LoadDefault, At, AdminTypes, OpTypes, OpRecord
  <2> QED
    BY <1>2, <1>4, <2>1
<1>10. CASE InfraAnswers \/ Crash \/ BootFails \/ Boots \/ PriceLookup \/ PriceReadRow \/ PriceCreate
  BY <1>1, <1>10 DEF InfraAnswers, Crash, BootFails, Boots, BootListens, BootLists,
     BootReconciles, BootFindsDefault, BootChecks, BootUnloads, BootMarks, BootMarksDefault, BootLoadsDefault,
     BootUnchanged, PriceLookup, PriceReadRow, PriceCreate, registry
<1>11. ASSUME NEW m \in Slugs, ProcessExits(m)
       PROVE  FileInv'
  BY <1>1, <1>11 DEF ProcessExits, BootUnchanged
<1>16. ASSUME NEW m \in Slugs, ColleagueRemoves(m)
       PROVE  FileInv'
  <2>1. op' = op /\ Rows' = Rows \ {m} /\ \A x \in Rows \ {m} : path'[x] = path[x]
    BY <1>16 DEF ColleagueRemoves, Rows, AdminTypes, RowTypes
  <2> QED
    BY <2>1
<1>12. ASSUME NEW m \in Slugs, NEW act \in {"load", "unload"}, InfraCall(act, m)
       PROVE  FileInv'
  BY <1>1, <1>12 DEF InfraCall, registry
<1>13. ASSUME NEW m \in Slugs, NEW act \in Acts, NEW pc \in Steps, NEW f \in Files,
              NEW p \in Prices \cup {0}, NEW flag \in BOOLEAN,
              Begin(act, m, pc, f, p, flag), Started(act, m, pc, f, p, flag)
       PROVE  FileInv'
  <2>1. op'.act = act /\ op'.pc = pc
    BY <1>13 DEF Begin, NoOp
  <2> QED
    BY <1>2, <1>13, <2>1 DEF Started
<1>14. ASSUME NEW m \in Slugs, NEW f \in Paths, RegisterDiscovered(m, f)
       PROVE  FileInv'
  <2>1. CASE op.act = "remove" /\ op.pc \in {"delete", "unlink"}
    <3>1. op' = [op EXCEPT !.late = @ \cup {m}]
      BY <1>14, <2>1 DEF RegisterDiscovered
    <3>2. /\ op'.act = op.act /\ op'.pc = op.pc /\ op'.m = op.m /\ op'.file = op.file
          /\ (op'.flag <=> op.flag) /\ op'.late = op.late \cup {m}
      BY <3>1 DEF AdminTypes, OpTypes, OpRecord
    <3>3. Rows' \subseteq Rows \cup {m} /\ \A x \in Rows \ {m} : path'[x] = path[x]
      BY <1>14 DEF RegisterDiscovered, Rows, AdminTypes, RowTypes
    <3> QED
      BY <2>1, <3>2, <3>3
  <2>2. CASE op.act # "remove" \/ op.pc \notin {"delete", "unlink"}
    <3>1. op'.act = op.act /\ op'.pc = op.pc
      BY <1>14 DEF RegisterDiscovered, AdminTypes, OpTypes, OpRecord
    <3> QED
      BY <1>2, <2>2, <3>1
  <2> QED
    BY <2>1, <2>2
<1> HIDE DEF FileInv
<1>15. ASSUME Begins
       PROVE  FileInv'
  BY <1>13, <1>14, <1>15, BeginsAs
<1> QED
  BY <1>5, <1>6, <1>7, <1>8, <1>9, <1>10, <1>11, <1>12, <1>15, <1>16 DEF AdminNext, OpStep


-----------------------------------------------------------------------------
(* Grants                                                                   *)

\* A step of the operator's action needs one in progress.
LEMMA StepsAreBusy ==
  ASSUME OpStep \/ ActionFails
  PROVE  op # NoOp
BY DEF OpStep, WriteRow, CloseVersions, CreateVersion, ReadPlans, WriteArray,
   Entitle, AfterGrant, MoveDefault, MarkAvailable, ListOthers, EvictOther, LoadDefault,
   DefaultLoaded, RemoveUnload, RemoveStrip, RemoveRevoke, RemoveRow, RemoveFiles,
   ActionStuck, ActionFails, At, NoOp

\* While the operator's action runs alone, nothing else is in progress.
LEMMA AloneStays ==
  ASSUME AdminNext, mode = "alone", op # NoOp => boot.pc = "up" /\ infra = NoCall
  PROVE  op' # NoOp => boot'.pc = "up" /\ infra' = NoCall
<1>1. CASE Begins
  BY <1>1, BeginsLeave DEF MayStart
<1>2. ASSUME op # NoOp, UNCHANGED <<boot, infra>>
      PROVE  op' # NoOp => boot'.pc = "up" /\ infra' = NoCall
  BY <1>2
<1>3. CASE OpStep \/ ActionFails
  <2>1. UNCHANGED <<boot, infra>>
    BY <1>3 DEF OpStep, WriteRow, CloseVersions, CreateVersion, ReadPlans, WriteArray,
       Entitle, AfterGrant, MoveDefault, MarkAvailable, ListOthers, EvictOther, LoadDefault,
       DefaultLoaded, RemoveUnload, RemoveStrip, RemoveRevoke, RemoveRow, RemoveFiles,
       ActionStuck, ActionFails
  <2>2. op # NoOp
    BY <1>3, StepsAreBusy
  <2> QED
    BY <1>2, <2>1, <2>2
<1>4. CASE InfraAnswers
  BY <1>4 DEF InfraAnswers
<1>5. CASE Crash
  BY <1>5 DEF Crash
<1>6. CASE BootFails \/ Boots
  <2>1. op' = op /\ boot.pc # "up"
    BY <1>6 DEF BootFails, Boots, BootListens, BootLists, BootReconciles, BootFindsDefault,
       BootChecks, BootUnloads, BootMarks, BootMarksDefault, BootLoadsDefault, BootUnchanged, BootStep
  <2> QED
    BY <2>1
<1>7. CASE PriceLookup \/ PriceReadRow \/ PriceCreate
  BY <1>7 DEF PriceLookup, PriceReadRow, PriceCreate
<1>8. ASSUME NEW m \in Slugs, ColleagueRemoves(m) \/ ProcessExits(m)
      PROVE  op' # NoOp => boot'.pc = "up" /\ infra' = NoCall
  BY <1>8 DEF ColleagueRemoves, ProcessExits
<1>9. ASSUME NEW m \in Slugs, NEW act \in {"load", "unload"}, InfraCall(act, m)
      PROVE  op' # NoOp => boot'.pc = "up" /\ infra' = NoCall
  BY <1>9 DEF InfraCall, MayStart
<1> QED
  BY <1>1, <1>3, <1>4, <1>5, <1>6, <1>7, <1>8, <1>9 DEF AdminNext

\* Each step of a grant or a removal leaves the grants as its phase says.
LEMMA GrantsStay ==
  ASSUME AdminTypes, GrantInv, AdminNext
  PROVE  GrantInv'
<1> SUFFICES ASSUME mode = "alone"
             PROVE  /\ op' # NoOp => boot'.pc = "up" /\ infra' = NoCall
                    /\ broken' = 0 => GrantPhase'
  BY ModeStays DEF GrantInv
<1>1. op' # NoOp => boot'.pc = "up" /\ infra' = NoCall
  BY AloneStays DEF GrantInv
<1>2. ASSUME broken' = 0
      PROVE  GrantPhase'
  <2>1. broken = 0
    <3>1. CASE ActionFails \/ BootFails
      BY <1>2, <3>1 DEF ActionFails, BootFails, AdminTypes, CountTypes
    <3>2. CASE Begins
      BY <1>2, <3>2, BeginsLeave
    <3>3. CASE OpStep
      BY <1>2, <3>3 DEF OpStep, WriteRow, CloseVersions, CreateVersion, ReadPlans, WriteArray,
         Entitle, AfterGrant, MoveDefault, MarkAvailable, ListOthers, EvictOther, LoadDefault,
         DefaultLoaded, RemoveUnload, RemoveStrip, RemoveRevoke, RemoveRow, RemoveFiles,
         ActionStuck
    <3>4. CASE InfraAnswers \/ Crash \/ Boots \/ PriceLookup \/ PriceReadRow \/ PriceCreate
      BY <1>2, <3>4 DEF InfraAnswers, Crash, Boots, BootListens, BootLists,
         BootReconciles, BootFindsDefault, BootChecks, BootUnloads, BootMarks, BootMarksDefault, BootLoadsDefault,
         BootUnchanged, PriceLookup, PriceReadRow, PriceCreate
    <3>5. ASSUME NEW m \in Slugs, ColleagueRemoves(m) \/ ProcessExits(m)
          PROVE  broken = 0
      BY <1>2, <3>5 DEF ColleagueRemoves, ProcessExits, BootUnchanged
    <3>6. ASSUME NEW m \in Slugs, NEW act \in {"load", "unload"}, InfraCall(act, m)
          PROVE  broken = 0
      BY <1>2, <3>6 DEF InfraCall
    <3> QED
      BY <3>1, <3>2, <3>3, <3>4, <3>5, <3>6 DEF AdminNext
  <2>2. GrantPhase /\ (op # NoOp => boot.pc = "up")
    BY <2>1 DEF GrantInv
  <2>3. ASSUME UNCHANGED <<op, dflt, allowed, entitled>>
        PROVE  GrantPhase'
    BY <2>2, <2>3 DEF GrantPhase, Agreed, DefaultBut
  <2>4. ASSUME Agreed, UNCHANGED <<dflt, allowed, entitled>>,
               \/ op' = NoOp
               \/ op'.act \in {"local", "edit"} /\ op'.pc \in {"row", "close", "version"}
               \/ op'.act = "remote" /\ op'.pc \in {"keyrow", "row", "version", "plans"}
               \/ op'.act \in {"grant", "remove"} /\ op'.pc \in {"unload", "plans", "unlink"}
               \/ op'.act = "default" /\ op'.pc \in {"default", "avail", "list", "evict", "loading"}
        PROVE  GrantPhase'
    BY <2>4 DEF GrantPhase, Agreed, DefaultBut, NoOp
  <2>5. ASSUME NEW m \in Slugs, NEW act \in Acts, NEW pc \in Steps, NEW f \in Files,
               NEW p \in Prices \cup {0}, NEW flag \in BOOLEAN,
               Begin(act, m, pc, f, p, flag), Started(act, m, pc, f, p, flag)
        PROVE  GrantPhase'
    <3>1. Agreed /\ UNCHANGED <<dflt, allowed, entitled>> /\ op'.act = act /\ op'.pc = pc
      BY <2>2, <2>5 DEF Begin, GrantPhase, NoOp, registry, grants
    <3> QED
      BY <2>4, <2>5, <3>1 DEF Started, Acts
  <2> DEFINE Grants == <<dflt, allowed, entitled>>
  <2>6. CASE WriteRow \/ CloseVersions \/ CreateVersion
    <3>1. op.act \in {"local", "edit", "remote"} /\ Agreed /\ UNCHANGED Grants
      BY <2>2, <2>6 DEF WriteRow, CloseVersions, CreateVersion, GrantPhase, AdminTypes, OpTypes,
         StepOf, OpRecord, Acts, registry, grants, At
    <3>2. \/ op' = NoOp
          \/ op'.act = op.act /\ (op.act # "remote" => op'.pc \in {"close", "version"})
             /\ (op.act = "remote" => op'.pc \in {"version", "plans"})
      BY <2>6, <3>1, StepFields DEF WriteRow, CloseVersions, CreateVersion, Goto, Done, At, AdminTypes,
         OpTypes, OpRecord
    <3> QED
      BY <2>4, <3>1, <3>2
  <2>7. CASE ReadPlans
    <3>1. op.act \in {"remote", "grant", "default", "remove"} /\ op.pc = "plans" /\ op.m \in Slugs
      BY <2>7 DEF ReadPlans, AdminTypes, OpTypes, StepOf, OpRecord, Acts
    <3>2. /\ UNCHANGED Grants /\ op'.act = op.act /\ op'.m = op.m /\ op'.seen = allowed
          /\ op'.pc = IF op.act = "remove" THEN "strip"
                      ELSE IF op.m \in allowed THEN "granted" ELSE "array"
      BY <2>7 DEF ReadPlans, AdminTypes, OpTypes, OpRecord, registry, grants
    <3> QED
      BY <2>2, <3>1, <3>2 DEF GrantPhase, Agreed, DefaultBut
  <2>8. CASE WriteArray \/ Entitle
    <3>1. op.act \in {"remote", "grant", "default"} /\ op.m \in Slugs
      BY <2>8 DEF WriteArray, Entitle, AdminTypes, OpTypes, StepOf, OpRecord, Acts
    <3>2. CASE WriteArray
      <4>1. /\ dflt' = dflt /\ entitled' = entitled /\ allowed' = op.seen \cup {op.m}
            /\ op'.act = op.act /\ op'.pc = "entitle" /\ op'.m = op.m /\ op.pc = "array"
        BY <3>2, StepFields DEF WriteArray, Goto, registry
      <4> QED
        BY <2>2, <3>1, <4>1 DEF GrantPhase, Agreed, DefaultBut
    <3>3. CASE Entitle
      <4>1. /\ dflt' = dflt /\ allowed' = allowed /\ entitled' = entitled \cup {op.m}
            /\ op'.act = op.act /\ op'.pc = "granted" /\ op'.m = op.m /\ op.pc = "entitle"
        BY <3>3, StepFields DEF Entitle, Goto, registry
      <4> QED
        BY <2>2, <3>1, <4>1 DEF GrantPhase, Agreed, DefaultBut
    <3> QED
      BY <2>8, <3>2, <3>3
  <2>9. CASE AfterGrant
    <3>1. /\ op.act \in {"remote", "grant", "default"} /\ op.pc = "granted"
          /\ (op.flag => op.act = "remote")
      BY <2>9 DEF AfterGrant, AdminTypes, OpTypes, StepOf, OpRecord, Acts
    <3>2. /\ UNCHANGED Grants /\ (op' # NoOp => op'.act = op.act /\ op'.m = op.m)
          /\ op' = NoOp \/ op'.pc \in {"avail", "list"} \/ (op'.pc = "default" /\ op.act = "remote")
      BY <2>9, <3>1, StepFields DEF AfterGrant, Goto, Done, registry, grants
    <3> QED
      BY <2>2, <3>1, <3>2 DEF GrantPhase, Agreed, DefaultBut, NoOp
  <2>10. CASE MoveDefault
    <3>1. /\ op.act \in {"remote", "default"} /\ op.pc = "default" /\ op.m \in Slugs
      BY <2>10 DEF MoveDefault, AdminTypes, OpTypes, StepOf, OpRecord, Acts
    <3>2. /\ UNCHANGED <<allowed, entitled>>
          /\ dflt' = IF op.m \in Rows THEN op.m ELSE dflt
          /\ \/ op' = NoOp /\ (op.act = "default" => dflt' = dflt)
             \/ op.act = "default" /\ op'.act = "default" /\ op'.pc = "plans" /\ op'.m = op.m
                /\ dflt' = op.m
      BY <2>10, <3>1, StepFields DEF MoveDefault, Goto, Done, grants
    <3> QED
      BY <2>2, <3>1, <3>2 DEF GrantPhase, Agreed, DefaultBut, NoOp
  <2>11. CASE MarkAvailable \/ ListOthers \/ EvictOther \/ LoadDefault \/ DefaultLoaded
    <3>1. Agreed /\ UNCHANGED Grants
      BY <2>2, <2>11 DEF MarkAvailable, ListOthers, EvictOther, LoadDefault, DefaultLoaded, At,
         GrantPhase, registry, grants
    <3>2. op' = NoOp \/ (op'.act = "default" /\ op'.pc \in {"list", "evict", "loading"})
      <4>1. op.act = "default" /\ op \in OpRecord
        BY <2>11 DEF MarkAvailable, ListOthers, EvictOther, LoadDefault, DefaultLoaded, At,
           AdminTypes, OpTypes
      <4>2. CASE MarkAvailable \/ DefaultLoaded
        BY <2>11, <4>1, <4>2 DEF MarkAvailable, DefaultLoaded, Goto, Done, OpRecord
      <4>3. CASE ListOthers \/ LoadDefault
        BY <4>1, <4>3 DEF ListOthers, LoadDefault, OpRecord
      <4>4. CASE EvictOther
        BY <4>1, <4>4 DEF EvictOther, At, OpRecord
      <4> QED
        BY <2>11, <4>2, <4>3, <4>4
    <3> QED
      BY <2>4, <3>1, <3>2
  <2>12. CASE RemoveUnload
    <3>1. Agreed /\ UNCHANGED Grants /\ op'.act = "remove" /\ op'.pc = "plans"
      BY <2>2, <2>12 DEF RemoveUnload, At, GrantPhase, grants, AdminTypes, OpTypes, OpRecord
    <3> QED
      BY <2>4, <3>1
  <2>13. CASE RemoveStrip
    <3>1. /\ dflt' = dflt /\ entitled' = entitled /\ op'.act = "remove" /\ op'.pc = "revoke"
          /\ op'.m = op.m /\ op.pc = "strip"
          /\ allowed' = IF op.m \in op.seen THEN op.seen \ {op.m} ELSE allowed
      BY <2>13, StepFields DEF RemoveStrip, At, Goto, registry
    <3> QED
      BY <2>2, <3>1 DEF GrantPhase, Agreed, DefaultBut
  <2>14. CASE RemoveRevoke
    <3>1. /\ dflt' = dflt /\ allowed' = allowed /\ op'.act = "remove" /\ op'.pc = "delete"
          /\ op'.m = op.m /\ op.pc = "revoke" /\ entitled' = entitled \ {op.m}
      BY <2>14 DEF RemoveRevoke, At, registry, AdminTypes, OpTypes, OpRecord
    <3> QED
      BY <2>2, <3>1 DEF GrantPhase, Agreed, DefaultBut
  <2>15. CASE RemoveRow
    <3>1. /\ UNCHANGED <<allowed, entitled>> /\ op.pc = "delete"
          /\ dflt' = IF dflt = op.m THEN NoModel ELSE dflt
          /\ op' = NoOp \/ (op'.act = "remove" /\ op'.pc = "unlink")
      BY <2>15, StepFields DEF RemoveRow, At, Goto, Done, grants
    <3> QED
      BY <2>2, <3>1 DEF GrantPhase, Agreed, DefaultBut, NoOp
  <2>16. CASE RemoveFiles \/ ActionStuck
    <3>1. UNCHANGED Grants /\ op' = NoOp
          /\ \/ op.pc \in {"unlink", "row", "unload", "plans", "strip", "revoke", "list", "evict",
                           "loading"}
             \/ op.pc = "delete" /\ op.m \notin Rows
          /\ (op.pc \notin {"delete", "unlink"} => op.pc = "row" \/ boot.pc = "down")
      BY <2>2, <2>16 DEF RemoveFiles, ActionStuck, At, Done, registry, grants, AdminTypes, OpTypes, StepOf
    <3>2. op # NoOp /\ dflt \in Rows \cup {NoModel}
      BY <2>16, StepsAreBusy DEF OpStep, AdminTypes, RowTypes
    <3>3. Agreed
      BY <2>2, <3>1, <3>2 DEF GrantPhase, Agreed, DefaultBut
    <3> QED
      BY <2>4, <3>1, <3>3
  <2>17. CASE InfraAnswers \/ Crash \/ BootFails \/ Boots \/ PriceLookup \/ PriceReadRow \/ PriceCreate
    BY <2>3, <2>17 DEF InfraAnswers, Crash, BootFails, Boots, BootListens, BootLists,
       BootReconciles, BootFindsDefault, BootChecks, BootUnloads, BootMarks, BootMarksDefault, BootLoadsDefault,
       BootUnchanged, PriceLookup, PriceReadRow, PriceCreate, registry, grants
  <2>18. ASSUME NEW m \in Slugs, ColleagueRemoves(m) \/ ProcessExits(m)
         PROVE  GrantPhase'
    BY <2>18 DEF ColleagueRemoves, ProcessExits
  <2>19. ASSUME NEW m \in Slugs, NEW act \in {"load", "unload"}, InfraCall(act, m)
         PROVE  GrantPhase'
    BY <2>3, <2>19 DEF InfraCall, registry, grants
  <2>20. ASSUME NEW m \in Slugs, NEW f \in Paths, RegisterDiscovered(m, f)
         PROVE  GrantPhase'
    <3>1. op' = op
      BY <2>20 DEF RegisterDiscovered, NoOp
    <3> QED
      BY <2>3, <2>20, <3>1 DEF RegisterDiscovered, grants
  <2>21. CASE ActionFails
    BY <1>2, <2>1, <2>21 DEF ActionFails
  <2> QED
    BY <2>5, <2>6, <2>7, <2>8, <2>9, <2>10, <2>11, <2>12, <2>13, <2>14, <2>15, <2>16, <2>17,
       <2>18, <2>19, <2>20, <2>21, BeginsAs DEF AdminNext, OpStep
<1> QED
  BY <1>1, <1>2


-----------------------------------------------------------------------------
(* Registry and pool                                                        *)

\* Whoever else writes ends the quiet.
LEMMA QuietSteps ==
  ASSUME AdminNext, MatchInv, quiet'
  PROVE  Crash \/ (quiet /\ (Boots \/ \E m \in Slugs : ProcessExits(m)))
         \/ (quiet /\ UNCHANGED <<survives, kind, status, path, live, op, infra, boot>>)
<1>1. ASSUME quiet
      PROVE  op = NoOp /\ infra = NoCall
  BY <1>1 DEF MatchInv
<1>2. CASE OpStep \/ ActionFails
  <2>1. op # NoOp
    BY <1>2, StepsAreBusy
  <2>2. quiet' = quiet
    BY <1>2 DEF OpStep, WriteRow, CloseVersions, CreateVersion, ReadPlans, WriteArray,
       Entitle, AfterGrant, MoveDefault, MarkAvailable, ListOthers, EvictOther, LoadDefault,
       DefaultLoaded, RemoveUnload, RemoveStrip, RemoveRevoke, RemoveRow, RemoveFiles,
       ActionStuck, ActionFails
  <2> QED
    BY <1>1, <2>1, <2>2
<1>3. CASE Begins
  BY <1>3, BeginsLeave
<1>4. CASE InfraAnswers
  BY <1>1, <1>4 DEF InfraAnswers
<1>5. CASE BootFails
  BY <1>5 DEF BootFails
<1>6. CASE Boots
  <2>1. quiet' = quiet
    BY <1>6 DEF Boots, BootListens, BootLists, BootReconciles, BootFindsDefault, BootChecks, BootUnloads, BootMarks,
       BootMarksDefault, BootLoadsDefault, BootUnchanged
  <2> QED
    BY <1>6, <2>1
<1>7. ASSUME NEW m \in Slugs, ProcessExits(m)
      PROVE  quiet /\ \E x \in Slugs : ProcessExits(x)
  BY <1>7 DEF ProcessExits, BootUnchanged
<1>8. ASSUME NEW m \in Slugs, ColleagueRemoves(m)
      PROVE  FALSE
  BY <1>8 DEF ColleagueRemoves
<1>9. ASSUME NEW m \in Slugs, NEW act \in {"load", "unload"}, InfraCall(act, m)
      PROVE  FALSE
  BY <1>9 DEF InfraCall
<1>10. CASE PriceLookup \/ PriceReadRow \/ PriceCreate
  BY <1>10 DEF PriceLookup, PriceReadRow, PriceCreate, registry
<1> QED
  BY <1>2, <1>3, <1>4, <1>5, <1>6, <1>7, <1>8, <1>9, <1>10 DEF AdminNext

\* Start-up brings registry and pool together and nobody quiet takes them apart.
LEMMA PoolMatchStays ==
  ASSUME AdminTypes, MatchInv, AdminNext
  PROVE  MatchInv'
<1> SUFFICES ASSUME quiet'
             PROVE  MatchInv'
  BY DEF MatchInv
<1> USE DEF Match, MatchBut, Warming
<1>1. CASE Crash
  <2>1. op' = NoOp /\ infra' = NoCall /\ boot' = [NoBoot EXCEPT !.pc = "down"]
        /\ (~survives' => live' = {})
    BY <1>1 DEF Crash
  <2> QED
    BY <2>1 DEF MatchInv, NoBoot
<1>2. CASE quiet /\ UNCHANGED <<survives, kind, status, path, live, op, infra, boot>>
  BY <1>2 DEF MatchInv, Rows, Remote, FileOf
<1>3. ASSUME quiet
      PROVE  /\ op = NoOp /\ infra = NoCall
             /\ boot.pc \in {"find", "evict", "unload", "warming", "up"} => Match
             /\ boot.pc = "mark" => MatchBut(boot.victim)
             /\ boot.pc = "reconcile" =>
                  \A m \in Rows : kind[m] = "LOCAL" => (m \in boot.seen <=> m \in live)
             /\ boot.pc # "up" /\ ~survives => live = {}
             /\ boot.pc \in Warming => boot.m \in Rows /\ boot.file = FileOf(boot.m)
             /\ boot.pc = "warming" => ~Remote(boot.m) /\ boot.m \notin live
  BY <1>3 DEF MatchInv
<1>4. ASSUME quiet, UNCHANGED <<survives, kind, path, op, infra>>,
             boot' = NoBoot, Match'
      PROVE  MatchInv'
  BY <1>3, <1>4 DEF MatchInv, NoBoot
<1>5. ASSUME NEW m \in Slugs, quiet, ProcessExits(m)
      PROVE  MatchInv'
  <2>1. boot.pc = "up" /\ Match
    BY <1>3, <1>5 DEF ProcessExits, MatchInv
  <2>2. /\ UNCHANGED <<survives, kind, path, op, infra, boot>> /\ live' = live \ {m}
        /\ status' = IF m \in Rows THEN [status EXCEPT ![m] = "ERROR"] ELSE status
    BY <1>5 DEF ProcessExits, BootUnchanged
  <2>3. Match'
    BY <2>1, <2>2 DEF Rows, AdminTypes, RowTypes
  <2> QED
    BY <1>3, <1>5, <2>1, <2>2, <2>3 DEF MatchInv
<1>6. CASE quiet /\ Boots
  <2>0. quiet /\ UNCHANGED <<survives, kind, path, op, infra>> /\ Rows' = Rows
    BY <1>6 DEF Boots, BootListens, BootLists, BootReconciles, BootFindsDefault, BootChecks, BootUnloads, BootMarks,
       BootMarksDefault, BootLoadsDefault, BootUnchanged, Rows
  <2>1. CASE BootListens
    <3>1. boot'.pc = "list" /\ live' = live /\ boot.pc # "up"
      BY <2>1 DEF BootListens, BootStep, AdminTypes, BootTypes
    <3> QED
      BY <1>3, <2>0, <3>1 DEF MatchInv
  <2>2. CASE BootLists
    <3>1. boot'.pc = "reconcile" /\ live' = live /\ boot.pc # "up" /\ boot'.seen = EngineModels
      BY <2>2 DEF BootLists, AdminTypes, BootTypes
    <3>2. \A m \in Rows : kind[m] = "LOCAL" => (m \in EngineModels <=> m \in live)
      BY DEF EngineModels, Remote
    <3> QED
      BY <1>3, <2>0, <3>1, <3>2 DEF MatchInv
  <2>3. CASE BootReconciles
    <3>1. boot'.pc = "find" /\ live' = live /\ boot.pc = "reconcile"
      BY <2>3 DEF BootReconciles, BootStep, AdminTypes, BootTypes
    <3>2. \A m \in Rows : kind[m] = "LOCAL" => (status'[m] = "LOADED" <=> m \in boot.seen)
      BY <2>3 DEF BootReconciles, Rows
    <3> QED
      BY <1>3, <2>0, <3>1, <3>2 DEF MatchInv
  <2>4. CASE BootFindsDefault
    <3>1. boot.pc = "find" /\ UNCHANGED <<live, status>> /\ Match
      BY <1>3, <2>0, <2>4 DEF BootFindsDefault
    <3>2. CASE boot' = NoBoot
      BY <1>4, <2>0, <3>1, <3>2
    <3>3. CASE dflt # NoModel
               /\ boot' = [NoBoot EXCEPT !.pc = "evict", !.seen = EngineModels \ {dflt},
                                         !.m = dflt, !.file = FileOf(dflt)]
      <4>1. dflt \in Rows /\ boot'.m = dflt /\ boot'.pc = "evict" /\ boot'.file = FileOf(dflt)
        BY <3>3 DEF AdminTypes, RowTypes, NoBoot
      <4>2. (boot.file = FileOf(boot.m))'
        BY <2>0, <4>1 DEF FileOf, Remote
      <4> QED
        BY <1>3, <2>0, <3>1, <4>1, <4>2 DEF MatchInv
    <3> QED
      BY <2>4, <3>2, <3>3 DEF BootFindsDefault
  <2>5. ASSUME boot.pc \in {"evict", "unload", "mark"}, boot'.pc \in {"evict", "unload", "mark"},
               boot'.m = boot.m, boot'.file = boot.file, live' \subseteq live,
               boot'.pc \in {"evict", "unload"} => Match',
               boot'.pc = "mark" => (MatchBut(boot.victim))'
        PROVE  MatchInv'
    <3>1. (boot.file = FileOf(boot.m))'
      BY <1>3, <2>0, <2>5 DEF FileOf, Remote
    <3> QED
      BY <1>3, <2>0, <2>5, <3>1 DEF MatchInv
  <2>8. CASE BootChecks
    <3>1. boot.pc = "evict" /\ boot'.pc \in {"evict", "unload"} /\ UNCHANGED <<live, status>>
          /\ boot'.m = boot.m /\ boot'.file = boot.file
      BY <2>8 DEF BootChecks, AdminTypes, BootTypes
    <3> QED
      BY <1>3, <2>0, <2>5, <3>1
  <2>9. CASE BootUnloads
    <3>1. PICK ok \in BOOLEAN :
            /\ boot' = [boot EXCEPT !.pc = IF ok THEN "mark" ELSE "evict"]
            /\ live' = IF ok THEN Unloaded(boot.victim) ELSE live
            /\ status' = IF ok /\ Remote(boot.victim) THEN Inactive(boot.victim) ELSE status
      BY <2>9 DEF BootUnloads
    <3>2. boot.pc = "unload" /\ boot'.m = boot.m /\ boot'.file = boot.file
          /\ boot'.victim = boot.victim /\ boot'.pc = (IF ok THEN "mark" ELSE "evict")
      BY <2>9, <3>1 DEF BootUnloads, AdminTypes, BootTypes
    <3>3. live' \subseteq live
      BY <3>1 DEF Unloaded
    <3>4. ~ok => Match'
      BY <1>3, <2>0, <3>1, <3>2
    <3>5. ok => (MatchBut(boot.victim))'
      BY <1>3, <2>0, <3>1, <3>2 DEF Unloaded, Inactive, Remote, Rows, AdminTypes, RowTypes
    <3> QED
      BY <2>5, <3>2, <3>3, <3>4, <3>5
  <2>10. CASE BootMarks
    <3>1. boot.pc = "mark" /\ boot'.pc = "evict" /\ boot'.m = boot.m /\ boot'.file = boot.file
          /\ live' = live /\ status' = Inactive(boot.victim)
      BY <2>10 DEF BootMarks, BootStep, AdminTypes, BootTypes
    <3>2. Match'
      BY <1>3, <2>0, <3>1 DEF Inactive, Rows, AdminTypes, RowTypes
    <3> QED
      BY <2>5, <3>1, <3>2
  <2>6. CASE BootMarksDefault
    <3>1. boot.pc = "evict" /\ live' = live /\ boot.m \in Rows /\ boot.m \in Slugs
          /\ boot.file = FileOf(boot.m) /\ Match
      BY <1>3, <2>0, <2>6 DEF BootMarksDefault, Rows
    <3>2. CASE Remote(boot.m) \/ boot.m \in EngineModels
      <4>1. status' = [status EXCEPT ![boot.m] = "LOADED"] /\ boot' = NoBoot
        BY <2>6, <3>1, <3>2 DEF BootMarksDefault
      <4>2. Remote(boot.m) \/ boot.m \in live
        BY <3>2 DEF EngineModels
      <4>3. Match'
        BY <2>0, <3>1, <4>1, <4>2 DEF Rows, Remote, AdminTypes, RowTypes
      <4> QED
        BY <1>4, <2>0, <4>1, <4>3
    <3>3. CASE ~(Remote(boot.m) \/ boot.m \in EngineModels)
      <4>1. status' = status /\ boot'.pc = "warming" /\ boot'.m = boot.m /\ boot'.file = boot.file
        BY <2>6, <3>1, <3>3 DEF BootMarksDefault, AdminTypes, BootTypes
      <4>2. boot.m \notin live
        BY <3>3 DEF EngineModels
      <4>3. (boot.file = FileOf(boot.m))' /\ (~Remote(boot.m))'
        BY <2>0, <3>1, <3>3, <4>1 DEF FileOf, Remote
      <4> QED
        BY <1>3, <2>0, <3>1, <4>1, <4>2, <4>3 DEF MatchInv
    <3> QED
      BY <3>2, <3>3
  <2>7. CASE BootLoadsDefault
    <3>1. /\ boot.pc = "warming" /\ boot' = NoBoot /\ boot.m \in Rows /\ Match
          /\ boot.file = FileOf(boot.m) /\ ~Remote(boot.m) /\ boot.m \notin live
      BY <1>3, <2>0, <2>7 DEF BootLoadsDefault
    <3>2. boot.m \in Slugs /\ kind[boot.m] = "LOCAL" /\ boot.file \in Paths /\ boot.file # NoPath
      BY <3>1, NamesAssumption DEF FileOf, Remote, Rows, AdminTypes, RowTypes, Kinds
    <3>3. PICK ok \in BOOLEAN :
            /\ live' = IF ok THEN live \cup {boot.m} ELSE live
            /\ status' = [status EXCEPT ![boot.m] = IF ok THEN "LOADED" ELSE "ERROR"]
      BY <2>7, <3>1, <3>2 DEF BootLoadsDefault, LoadAnswers
    <3>4. Match'
      BY <2>0, <3>1, <3>2, <3>3 DEF Rows, AdminTypes, RowTypes
    <3> QED
      BY <1>4, <2>0, <3>1, <3>4
  <2> QED
    BY <1>6, <2>1, <2>2, <2>3, <2>4, <2>6, <2>7, <2>8, <2>9, <2>10 DEF Boots
<1> QED
  BY <1>1, <1>2, <1>5, <1>6, QuietSteps


-----------------------------------------------------------------------------
(* Prices                                                                   *)

\* A version that is inserted is open from its time on, the others stay as they are.
LEMMA VersionInserted ==
  ASSUME NEW t, NEW p, versions' = InsertVersion(t, p), t \notin DOMAIN versions
  PROVE  /\ DOMAIN versions' = DOMAIN versions \cup {t} /\ Active' = Active \cup {t}
         /\ versions'[t].price = p /\ \A u \in Active : versions'[u].price = versions[u].price
<1>1. /\ DOMAIN versions' = DOMAIN versions \cup {t}
      /\ versions'[t] = [price |-> p, open |-> TRUE]
      /\ \A u \in DOMAIN versions : versions'[u] = versions[u]
  BY DEF InsertVersion
<1>2. versions'[t].open /\ versions'[t].price = p
  BY <1>1
<1>3. Active' = Active \cup {t}
  BY <1>1, <1>2 DEF Active
<1> QED
  BY <1>1, <1>2, <1>3 DEF Active

\* What the steps that price nothing leave alone.
LEMMA PriceSteps ==
  ASSUME AdminNext, AdminTypes, Priceable, mode = "pricing"
  PROVE  \/ UNCHANGED <<kind, price, op, clock, versions, chat>>
         \/ \E m \in Slugs, act \in {"local", "edit"}, f \in Files, p \in Prices :
              Begin(act, m, "row", f, p, FALSE) /\ (act = "local" => m = Priced) /\ m \in Slugs
              /\ (act = "edit" => m \in Rows)
         \/ WriteRow \/ CloseVersions \/ CreateVersion
         \/ PriceLookup \/ PriceReadRow \/ PriceCreate
<1>1. op.act \in {"none", "local", "edit"} /\ StepOf(op.act, op.pc)
  BY DEF Priceable, AdminTypes, OpTypes
<1>2. ~(\/ ReadPlans \/ WriteArray \/ Entitle \/ AfterGrant \/ MoveDefault
        \/ MarkAvailable \/ ListOthers \/ EvictOther \/ LoadDefault \/ DefaultLoaded
        \/ RemoveUnload \/ RemoveStrip \/ RemoveRevoke \/ RemoveRow \/ RemoveFiles \/ ActionFails)
  BY <1>1 DEF StepOf, ReadPlans, WriteArray, Entitle, AfterGrant, MoveDefault, MarkAvailable,
     ListOthers, EvictOther, LoadDefault, DefaultLoaded, RemoveUnload, RemoveStrip, RemoveRevoke,
     RemoveRow, RemoveFiles, ActionFails, At
<1>3. ~ActionStuck
  BY <1>1 DEF ActionStuck, Priceable, NoOp
<1>4. CASE InfraAnswers \/ BootFails \/ Boots
  BY <1>4 DEF InfraAnswers, BootFails, Boots, BootListens, BootLists, BootReconciles,
     BootFindsDefault, BootChecks, BootUnloads, BootMarks, BootMarksDefault, BootLoadsDefault, BootUnchanged, registry,
     pricing
<1>5. ~Crash /\ \A m \in Slugs : ~ProcessExits(m) /\ ~ColleagueRemoves(m)
      /\ \A act \in {"load", "unload"} : ~InfraCall(act, m)
  BY DEF Crash, ProcessExits, ColleagueRemoves, InfraCall
<1>6. CASE Begins
  <2>1. \A m \in Slugs, f \in Paths : ~RegisterDiscovered(m, f)
    BY DEF RegisterDiscovered
  <2>2. PICK m \in Slugs, act \in Acts, pc \in Steps, f \in Files, p \in Prices \cup {0},
             flag \in BOOLEAN : Begin(act, m, pc, f, p, flag) /\ Started(act, m, pc, f, p, flag)
    BY <1>6, <2>1, BeginsAs
  <2>3. act \in {"local", "edit"} /\ pc = "row" /\ p \in Prices /\ flag = FALSE
        /\ (act = "local" => m = Priced) /\ (act = "edit" => m \in Rows)
    BY <2>2 DEF Started
  <2> QED
    BY <2>2, <2>3
<1> QED
  BY <1>2, <1>3, <1>4, <1>5, <1>6 DEF AdminNext, OpStep

\* A price that was looked up too early never becomes the active one.
LEMMA PricesStay ==
  ASSUME AdminTypes, PriceInv, AdminNext
  PROVE  PriceInv'
<1>0. mode' = mode
  BY ModeStays
<1>1. CASE mode # "pricing"
  <2>1. chat'.pc = "idle"
    <3>1. chat.pc = "idle"
      BY <1>1 DEF PriceInv
    <3>2. CASE Begins
      BY <3>1, <3>2, BeginsLeave
    <3>3. CASE OpStep \/ ActionFails
      BY <3>1, <3>3 DEF OpStep, WriteRow, CloseVersions, CreateVersion, ReadPlans, WriteArray,
         Entitle, AfterGrant, MoveDefault, MarkAvailable, ListOthers, EvictOther, LoadDefault,
         DefaultLoaded, RemoveUnload, RemoveStrip, RemoveRevoke, RemoveRow, RemoveFiles,
         ActionStuck, ActionFails, pricing
    <3>4. CASE InfraAnswers \/ Crash \/ BootFails \/ Boots
      BY <3>1, <3>4 DEF InfraAnswers, Crash, BootFails, Boots, BootListens, BootLists,
         BootReconciles, BootFindsDefault, BootChecks, BootUnloads, BootMarks, BootMarksDefault, BootLoadsDefault,
         BootUnchanged, pricing
    <3>5. CASE PriceLookup \/ PriceReadRow \/ PriceCreate
      BY <1>1, <3>1, <3>5 DEF PriceLookup, PriceReadRow, PriceCreate
    <3>6. ASSUME NEW m \in Slugs, ColleagueRemoves(m) \/ ProcessExits(m)
          PROVE  chat'.pc = "idle"
      BY <3>1, <3>6 DEF ColleagueRemoves, ProcessExits, BootUnchanged, pricing
    <3>7. ASSUME NEW m \in Slugs, NEW act \in {"load", "unload"}, InfraCall(act, m)
          PROVE  chat'.pc = "idle"
      BY <3>1, <3>7 DEF InfraCall, pricing
    <3> QED
      BY <3>2, <3>3, <3>4, <3>5, <3>6, <3>7 DEF AdminNext
  <2> QED
    BY <1>0, <1>1, <2>1 DEF PriceInv
<1> SUFFICES ASSUME mode = "pricing"
             PROVE  Priceable' /\ Timed' /\ Current'
  BY <1>0, <1>1 DEF PriceInv
<1>2. Priceable /\ Timed /\ Current
  BY DEF PriceInv
<1>3. /\ clock \in Nat /\ Priced \in Slugs
      /\ DOMAIN versions \subseteq 0..clock /\ Active \subseteq DOMAIN versions
      /\ (chat.pc # "idle" => chat.now \in Nat /\ chat.now <= clock)
      /\ (Backdates => op.was \in Nat /\ op.was <= clock)
  <2>1. clock \in Nat
    BY DEF AdminTypes, CountTypes
  <2>2. Priced \in Slugs
    BY <1>2 DEF Priceable, Rows
  <2> QED
    BY <1>2, <2>1, <2>2 DEF Timed, Active
<1>4. CASE UNCHANGED <<kind, price, op, clock, versions, chat>>
  BY <1>2, <1>4 DEF Priceable, Timed, Current, Overtaken, Pending, Backdates, Active, Rows
<1>5. ASSUME UNCHANGED <<kind, price>>, NEW act \in {"local", "edit"}, NEW p \in Prices, op = NoOp,
             op'.act = act, op'.m = Priced, op'.pc = "row", op'.was = price[Priced],
             UNCHANGED <<clock, versions, chat>>
      PROVE  Priceable' /\ Timed' /\ Current'
  <2>1. ~Pending /\ ~Pending' /\ ~Backdates /\ ~Backdates' /\ Active' = Active /\ Rows' = Rows
    BY <1>5 DEF Pending, Backdates, NoOp, Active, Rows
  <2>2. Priceable'
    BY <1>2, <1>5, <2>1 DEF Priceable
  <2>3. Timed'
    BY <1>2, <1>5, <2>1 DEF Timed
  <2>4. Current'
    BY <1>2, <1>5, <2>1 DEF Current, Overtaken
  <2> QED
    BY <2>2, <2>3, <2>4
<1>6. ASSUME NEW m \in Slugs, NEW act \in {"local", "edit"}, NEW f \in Files, NEW p \in Prices,
             Begin(act, m, "row", f, p, FALSE), act = "local" => m = Priced,
             act = "edit" => m \in Rows
      PROVE  Priceable' /\ Timed' /\ Current'
  <2>1. m = Priced
    BY <1>2, <1>6 DEF Priceable
  <2> QED
    BY <1>5, <1>6, <2>1 DEF Begin, NoOp, registry, pricing
<1>7. CASE WriteRow
  <2>1. op.act \in {"local", "edit"} /\ op.m = Priced /\ op.pc = "row"
    BY <1>2, <1>7 DEF WriteRow, Priceable, NoOp, AdminTypes, OpTypes, StepOf
  <2>2. UNCHANGED <<clock, versions, chat>> /\ price'[Priced] = op.price
    BY <1>3, <1>7, <2>1 DEF WriteRow, pricing, AdminTypes, RowTypes
  <2>3. Rows' = Rows
    BY <1>2, <1>3, <1>7, <2>1 DEF WriteRow, Rows, Priceable, AdminTypes, RowTypes, Kinds
  <2>4. Active' = Active /\ ~Pending /\ ~Backdates
    BY <2>1, <2>2 DEF Active, Pending, Backdates
  <2>5. CASE op.act = "edit" /\ op.price = op.was
    <3>1. op' = NoOp /\ price'[Priced] = price[Priced]
      BY <1>2, <1>7, <2>1, <2>2, <2>5 DEF WriteRow, Done, Priceable
    <3>2. ~Pending' /\ ~Backdates'
      BY <3>1 DEF NoOp, Pending, Backdates
    <3>3. Priceable'
      BY <1>2, <2>3, <3>1, <3>2 DEF Priceable, NoOp
    <3>4. Timed'
      BY <1>2, <2>2, <3>2 DEF Timed
    <3>5. Current'
      BY <1>2, <2>2, <2>4, <3>1, <3>2 DEF Current, Overtaken
    <3> QED
      BY <3>3, <3>4, <3>5
  <2>6. CASE ~(op.act = "edit" /\ op.price = op.was)
    <3>1. op'.act = op.act /\ op'.pc = (IF op.act = "edit" THEN "close" ELSE "version")
          /\ op'.m = op.m /\ op'.price = op.price
      BY <1>7, <2>6, StepFields DEF WriteRow, Goto
    <3>2. Pending' /\ ~Backdates'
      BY <2>1, <3>1 DEF Pending, Backdates
    <3>3. Priceable'
      BY <1>2, <2>1, <2>2, <2>3, <3>1 DEF Priceable
    <3>4. Timed'
      BY <1>2, <2>2, <3>2 DEF Timed
    <3>5. Current'
      BY <3>2 DEF Current, Overtaken
    <3> QED
      BY <3>3, <3>4, <3>5
  <2> QED
    BY <2>5, <2>6
<1>8. CASE CloseVersions
  <2>1. op.act = "edit" /\ op.pc = "close" /\ clock' = clock + 1 /\ UNCHANGED <<kind, price, chat>>
    BY <1>8 DEF CloseVersions, At, Tick, registry
  <2>2. op'.act = "edit" /\ op'.pc = "version" /\ op'.m = op.m /\ op'.price = op.price
        /\ op'.was = clock + 1
    BY <1>8, <2>1 DEF CloseVersions, AdminTypes, OpTypes, OpRecord
  <2>3. DOMAIN versions' = DOMAIN versions /\ Active' = {}
    <3>1. /\ DOMAIN versions' = DOMAIN versions
          /\ \A t \in DOMAIN versions : versions'[t] = [versions[t] EXCEPT !.open = FALSE]
      BY <1>8 DEF CloseVersions
    <3>2. \A t \in DOMAIN versions : ~versions'[t].open
      BY <3>1 DEF AdminTypes, VersionTypes
    <3> QED
      BY <3>1, <3>2 DEF Active
  <2>4. Backdates' /\ Pending' /\ Pending /\ Rows' = Rows
    BY <2>1, <2>2 DEF Backdates, Pending, Rows
  <2>5. Priceable'
    BY <1>2, <2>1, <2>2, <2>4 DEF Priceable, NoOp
  <2>6. Timed'
    BY <1>2, <1>3, <2>1, <2>2, <2>3 DEF Timed
  <2>7. ~(Backdates' /\ op'.was < chat'.now) \/ chat.pc = "idle"
    BY <1>3, <2>1, <2>2
  <2>8. Current'
    BY <2>1, <2>3, <2>4, <2>7 DEF Current, Overtaken
  <2> QED
    BY <2>5, <2>6, <2>8
<1>9. CASE CreateVersion
  <2>1. /\ op.act \in {"local", "edit"} /\ op.pc = "version" /\ Pending /\ op' = NoOp
        /\ UNCHANGED <<kind, price, chat>>
        /\ clock' = (IF op.act = "edit" THEN clock ELSE clock + 1)
    BY <1>2, <1>9 DEF CreateVersion, Priceable, Pending, Done, Tick, registry, AdminTypes, OpTypes,
       StepOf
  <2> DEFINE t == IF op.act = "edit" THEN op.was ELSE clock'
  <2>2. versions' = InsertVersion(t, op.price)
    BY <1>9 DEF CreateVersion
  <2>3. t \in Nat /\ t <= clock' /\ clock' \in Nat /\ clock <= clock' /\ t \notin DOMAIN versions
        /\ (op.act # "edit" => t > clock)
        /\ (chat.pc # "idle" => t # chat.now)
        /\ (op.act = "edit" => Backdates /\ t = op.was)
    <3>1. CASE op.act = "edit"
      BY <1>2, <1>3, <2>1, <3>1 DEF Timed, Backdates
    <3>2. CASE op.act # "edit"
      BY <1>3, <2>1, <3>2
    <3> QED
      BY <3>1, <3>2
  <2> HIDE DEF t
  <2>4. /\ DOMAIN versions' = DOMAIN versions \cup {t} /\ Active' = Active \cup {t}
        /\ versions'[t].price = op.price /\ \A u \in Active : versions'[u].price = versions[u].price
    BY <2>2, <2>3, VersionInserted
  <2>5. ~Pending' /\ ~Backdates' /\ Rows' = Rows /\ op.price = price[Priced]
    BY <1>2, <2>1 DEF Pending, Backdates, NoOp, Rows, Priceable
  <2>6. Priceable'
    BY <1>2, <2>1, <2>5 DEF Priceable, NoOp
  <2>7. Timed'
    BY <1>2, <1>3, <2>1, <2>3, <2>4, <2>5 DEF Timed
  <2>8. ASSUME NEW u \in Active', \A v \in Active' : v <= u
        PROVE  versions'[u].price = price[Priced]
    <3>1. CASE u = t
      BY <2>4, <2>5, <3>1
    <3>2. CASE u # t
      <4>1. u \in Active /\ t <= u /\ u \in Nat /\ u <= clock
        BY <1>3, <2>4, <2>8, <3>2
      <4>2. op.act = "edit" /\ u > op.was /\ Backdates
        BY <2>1, <2>3, <3>2, <4>1
      <4> QED
        BY <1>2, <2>4, <4>1, <4>2 DEF Current
    <3> QED
      BY <3>1, <3>2
  <2>9. ASSUME chat.pc = "priced", chat.price # price[Priced]
        PROVE  \E u \in Active' : u > chat.now
    <3>1. Overtaken /\ chat.now \in Nat /\ chat.now <= clock
      BY <1>2, <1>3, <2>9 DEF Current
    <3>2. CASE op.act = "edit"
      <4>1. t > chat.now
        BY <2>3, <2>9, <3>1, <3>2 DEF Overtaken
      <4> QED
        BY <2>4, <4>1
    <3>3. CASE op.act # "edit"
      BY <1>3, <2>3, <2>4, <3>1, <3>3
    <3> QED
      BY <3>2, <3>3
  <2>10. Current'
    BY <2>1, <2>5, <2>8, <2>9 DEF Current, Overtaken
  <2> QED
    BY <2>6, <2>7, <2>10
<1>10. CASE PriceLookup
  <2>1. UNCHANGED <<kind, price, op, versions>> /\ clock' = clock + 1
    BY <1>10 DEF PriceLookup, Tick, registry
  <2>2. chat'.pc = "idle" \/ (chat'.pc = "found_none" /\ chat'.now = clock + 1)
    BY <1>10, <2>1 DEF PriceLookup, NoChat
  <2>3. Active' = Active /\ Rows' = Rows /\ (Pending' <=> Pending) /\ (Backdates' <=> Backdates)
    BY <2>1 DEF Active, Rows, Pending, Backdates
  <2>4. Priceable'
    BY <1>2, <2>1, <2>3 DEF Priceable
  <2>5. Timed'
    BY <1>2, <1>3, <2>1, <2>2, <2>3 DEF Timed
  <2>6. Current'
    BY <1>2, <2>1, <2>2, <2>3 DEF Current
  <2> QED
    BY <2>4, <2>5, <2>6
<1>11. CASE PriceReadRow
  <2>1. UNCHANGED <<kind, price, op, versions, clock>>
    BY <1>11 DEF PriceReadRow, registry
  <2>2. chat.pc # "idle" /\ chat'.now = chat.now /\ chat'.price = price[Priced]
    BY <1>11 DEF PriceReadRow, AdminTypes, VersionTypes
  <2>3. Active' = Active /\ Rows' = Rows /\ (Pending' <=> Pending) /\ (Backdates' <=> Backdates)
    BY <2>1 DEF Active, Rows, Pending, Backdates
  <2>4. Priceable'
    BY <1>2, <2>1, <2>3 DEF Priceable
  <2>5. Timed'
    BY <1>2, <2>1, <2>2, <2>3 DEF Timed
  <2>6. Current'
    BY <1>2, <2>1, <2>2, <2>3 DEF Current
  <2> QED
    BY <2>4, <2>5, <2>6
<1>12. CASE PriceCreate
  <2>1. UNCHANGED <<kind, price, op, clock>> /\ chat.pc = "priced" /\ chat'.pc = "idle"
    BY <1>12 DEF PriceCreate, NoChat, registry
  <2> DEFINE t == chat.now
  <2>2. t \in Nat /\ t <= clock /\ t \notin DOMAIN versions /\ (Backdates => op.was # t)
    BY <1>2, <1>3, <2>1 DEF Timed
  <2>3. versions' = InsertVersion(t, chat.price)
    BY <1>12 DEF PriceCreate
  <2> HIDE DEF t
  <2>4. /\ DOMAIN versions' = DOMAIN versions \cup {t} /\ Active' = Active \cup {t}
        /\ versions'[t].price = chat.price /\ \A u \in Active : versions'[u].price = versions[u].price
    BY <2>2, <2>3, VersionInserted
  <2>5. Rows' = Rows /\ (Pending' <=> Pending) /\ (Backdates' <=> Backdates)
    BY <2>1 DEF Rows, Pending, Backdates
  <2>6. Priceable'
    BY <1>2, <2>1, <2>5 DEF Priceable
  <2>7. Timed'
    BY <1>2, <1>3, <2>1, <2>2, <2>4, <2>5 DEF Timed
  <2>8. chat.price # price[Priced] =>
          /\ ~(Backdates /\ op.was < t) /\ (Pending \/ \E u \in Active : u > t)
    BY <1>2, <2>1 DEF Current, Overtaken, t
  <2>9. Backdates => \A u \in Active' : u > op.was => versions'[u].price = price[Priced]
    BY <1>2, <2>4, <2>8 DEF Current
  <2>10. ASSUME ~Pending, NEW u \in Active', \A v \in Active' : v <= u
         PROVE  versions'[u].price = price[Priced]
    <3>1. CASE u = t
      <4>1. \A v \in Active : ~(v > t)
        BY <1>3, <2>2, <2>4, <2>10, <3>1
      <4> QED
        BY <2>4, <2>8, <2>10, <3>1, <4>1
    <3>2. CASE u # t
      BY <1>2, <2>4, <2>10, <3>2 DEF Current
    <3> QED
      BY <3>1, <3>2
  <2>11. Current'
    BY <2>1, <2>5, <2>9, <2>10 DEF Current
  <2> QED
    BY <2>6, <2>7, <2>11
<1> QED
  BY <1>2, <1>4, <1>6, <1>7, <1>8, <1>9, <1>10, <1>11, <1>12, PriceSteps


-----------------------------------------------------------------------------
(* The panels and the initial states                                        *)

\* The administration leaves the browser's panels alone.
LEMMA PanelsUntouched ==
  ASSUME AdminNext
  PROVE  UNCHANGED panelVars
<1>1. CASE Begins
  BY <1>1, BeginsLeave
<1>2. CASE OpStep \/ ActionFails
  BY <1>2 DEF OpStep, WriteRow, CloseVersions, CreateVersion, ReadPlans, WriteArray,
     Entitle, AfterGrant, MoveDefault, MarkAvailable, ListOthers, EvictOther, LoadDefault,
     DefaultLoaded, RemoveUnload, RemoveStrip, RemoveRevoke, RemoveRow, RemoveFiles,
     ActionStuck, ActionFails
<1>3. CASE InfraAnswers \/ Crash \/ BootFails \/ Boots \/ PriceLookup \/ PriceReadRow \/ PriceCreate
  BY <1>3 DEF InfraAnswers, Crash, BootFails, Boots, BootListens, BootLists,
     BootReconciles, BootFindsDefault, BootChecks, BootUnloads, BootMarks, BootMarksDefault, BootLoadsDefault,
     BootUnchanged, PriceLookup, PriceReadRow, PriceCreate
<1>4. ASSUME NEW m \in Slugs, ColleagueRemoves(m) \/ ProcessExits(m)
      PROVE  UNCHANGED panelVars
  BY <1>4 DEF ColleagueRemoves, ProcessExits, BootUnchanged
<1>5. ASSUME NEW m \in Slugs, NEW act \in {"load", "unload"}, InfraCall(act, m)
      PROVE  UNCHANGED panelVars
  BY <1>5 DEF InfraCall
<1> QED
  BY <1>1, <1>2, <1>3, <1>4, <1>5 DEF AdminNext

\* The two panels keep their types.
LEMMA PanelsStayTyped ==
  ASSUME PanelTypeOK, PanelNext
  PROVE  PanelTypeOK'
<1> USE PanelBoundsAssumption DEF PanelTypeOK
<1>1. CASE \E m \in PoolModels : RunLoad(m) \/ RunUnload(m)
  <2>1. PICK m \in PoolModels : RunLoad(m) \/ RunUnload(m)
    BY <1>1
  <2> QED
    BY <2>1 DEF RunLoad, RunUnload, Click, hubVars
<1>2. ASSUME NEW m \in PoolModels, ActionAnswers(m)
      PROVE  PanelTypeOK'
  <2>1. PICK ok \in BOOLEAN :
          /\ pool' = IF ~ok THEN pool
                     ELSE IF req[m] = "load" THEN pool \cup {m} ELSE pool \ {m}
          /\ job' = [job EXCEPT ![m] = IF ok THEN "done" ELSE "none"]
          /\ timer' = IF ok THEN timer \cup {m} ELSE timer
          /\ polls' = polls \cup {pool'}
    BY <1>2 DEF ActionAnswers
  <2>2. pool' \subseteq PoolModels /\ timer' \subseteq PoolModels
    BY <2>1
  <2>3. polls' \subseteq SUBSET PoolModels
    BY <2>1, <2>2
  <2>4. job' \in [PoolModels -> {"none", "load", "unload", "done"}]
    BY <2>1
  <2>5. req' \in [PoolModels -> {"none", "load", "unload"}]
        /\ UNCHANGED <<panel, clicks, exits, view, hubVars>>
    BY <1>2 DEF ActionAnswers
  <2> QED
    BY <2>2, <2>3, <2>4, <2>5 DEF hubVars
<1>3. ASSUME NEW m \in PoolModels, TimerRemoves(m) \/ ProcessDies(m)
      PROVE  PanelTypeOK'
  BY <1>3 DEF TimerRemoves, ProcessDies, hubVars
<1>4. CASE PollPool \/ PollMisses
  BY <1>4 DEF PollPool, PollMisses, hubVars
<1>5. ASSUME NEW s \in SUBSET PoolModels, PollArrives(s) \/ PollLost(s)
      PROVE  PanelTypeOK'
  BY <1>5 DEF PollArrives, PollLost, hubVars
<1>6. CASE SearchModels \/ SearchEnds
  BY <1>6 DEF SearchModels, SearchEnds, Click, poolPanelVars
<1>7. CASE DownloadBundle
  BY <1>7 DEF DownloadBundle, Click, poolPanelVars
<1>11. CASE BundleQueued
  <2>1. starting' \in [repo: Repos \cup {NoRepo}, owner: Repos \cup {NoRepo}]
    BY <1>11 DEF BundleQueued, NoBundle
  <2>2. real' \in Statuses /\ answers' \subseteq Statuses
    BY <1>11 DEF BundleQueued, Statuses
  <2>3. UNCHANGED <<panel, clicks, exits, pool, view, job, req, timer, polls, query, selected,
                    files, listing, shown>>
    BY <1>11 DEF BundleQueued, poolPanelVars
  <2> QED
    BY <2>1, <2>2, <2>3
<1>8. CASE CancelDownload \/ RetryDownload
  <2>1. clicks' \in 0..MaxClicks
    BY <1>8 DEF CancelDownload, RetryDownload, Click
  <2>3. real' \in Statuses /\ answers' \subseteq Statuses
    BY <1>8 DEF CancelDownload, RetryDownload, Statuses
  <2>2. UNCHANGED <<panel, exits, pool, view, job, req, timer, polls, query, selected,
                    files, listing, starting, shown>>
    BY <1>8 DEF CancelDownload, RetryDownload, poolPanelVars
  <2> QED
    BY <2>1, <2>2, <2>3
<1>12. CASE DownloadEnds \/ RefreshDownloads
  BY <1>12 DEF DownloadEnds, RefreshDownloads, Statuses, poolPanelVars
<1>9. ASSUME NEW r \in Repos, SelectModel(r) \/ FilesArrive(r)
      PROVE  PanelTypeOK'
  BY <1>9 DEF SelectModel, FilesArrive, Click, poolPanelVars
<1>10. ASSUME NEW s \in Statuses, StatusArrives(s) \/ StatusLost(s)
       PROVE  PanelTypeOK'
  BY <1>10 DEF StatusArrives, StatusLost, poolPanelVars
<1> QED
  BY <1>1, <1>2, <1>3, <1>4, <1>5, <1>6, <1>7, <1>8, <1>9, <1>10, <1>11, <1>12
     DEF PanelNext

\* The seeded registry agrees with itself.
LEMMA RegistryStarts ==
  ASSUME RegistryInit
  PROVE  RegistryInv
<1> USE BoundsAssumption, NamesAssumption, PanelBoundsAssumption
<1>1. PanelTypeOK
  BY DEF RegistryInit, PanelInit, PanelTypeOK, NoBundle, Statuses
<1>2. PICK m \in Slugs, p \in Paths, other \in {"NONE", "REMOTE"} :
         /\ mode \in {"pricing", "panels"} => other = "NONE" /\ m = CHOOSE x \in Slugs : TRUE
         /\ kind = [x \in Slugs |-> IF x = m THEN "LOCAL" ELSE other]
         /\ path = [x \in Slugs |-> IF x = m THEN p ELSE NoPath]
         /\ status = [x \in Slugs |-> IF x # m /\ other = "REMOTE" THEN "LOADED" ELSE "INACTIVE"]
         /\ keyed = IF other = "REMOTE" THEN Slugs \ {m} ELSE {}
         /\ allowed = Rows /\ entitled = Rows
         /\ dflt \in {NoModel} \cup Rows
  BY DEF RegistryInit
<1>3. /\ price = [x \in Slugs |-> CHOOSE q \in Prices : TRUE]
      /\ disk = Paths /\ live = {} /\ op = NoOp /\ infra = NoCall /\ boot = NoBoot
      /\ quiet = FALSE /\ broken = 0 /\ count = [ops |-> 0, crashes |-> 0]
      /\ clock = 0 /\ versions = [t \in {} |-> NoChat] /\ chat = NoChat
  BY DEF RegistryInit
<1>4. Rows = IF other = "NONE" THEN {m} ELSE Slugs
  BY <1>2 DEF Rows
<1>5. RowTypes
  <2>1. (CHOOSE q \in Prices : TRUE) \in Prices
    OBVIOUS
  <2> QED
    BY <1>2, <1>3, <1>4, <2>1 DEF RowTypes, Kinds, Files
<1>6. GrantTypes /\ PoolTypes
  BY <1>2, <1>3 DEF GrantTypes, PoolTypes, Rows
<1>7. OpTypes
  BY <1>3 DEF OpTypes, OpRecord, NoOp, StepOf, Acts, Steps, Files, Kinds
<1>8. CallTypes /\ BootTypes
  BY <1>3 DEF CallTypes, BootTypes, NoCall, NoBoot, Files, Kinds, Warming
<1>9. CountTypes
  <2>1. mode \in {"alone", "busy", "pricing", "panels"} /\ survives \in BOOLEAN
    BY DEF RegistryInit
  <2>2. broken \in 0..MaxFaults /\ clock \in 0..MaxClock
    BY <1>3
  <2>4. quiet \in BOOLEAN
    BY <1>3, Zenon
  <2>3. count \in [ops : 0..MaxOps, crashes : 0..MaxCrashes]
    BY <1>3
  <2> QED
    BY <2>1, <2>2, <2>3, <2>4 DEF CountTypes
<1>10. VersionTypes
  BY <1>3 DEF VersionTypes, NoChat
<1>11. GrantInv
  BY <1>2, <1>3 DEF GrantInv, GrantPhase, Agreed, DefaultBut, NoOp
<1>12. KeyInv
  BY <1>2, <1>3, <1>4 DEF KeyInv, RemoteHasKey, Rows, Remote, NoOp
<1>13. MatchInv /\ FileInv
  BY <1>3 DEF MatchInv, FileInv, NoOp
<1>14. PriceInv
  <2>1. chat.pc = "idle" /\ Active = {} /\ DOMAIN versions = {} /\ op.act = "none" /\ op.pc = "idle"
    BY <1>3 DEF NoChat, NoOp, Active
  <2>2. mode = "pricing" => Rows = {Priced}
    BY <1>2, <1>4 DEF Priced
  <2> QED
    BY <1>3, <2>1, <2>2 DEF PriceInv, Priceable, Timed, Current, Pending, Backdates
<1> QED
  BY <1>1, <1>5, <1>6, <1>7, <1>8, <1>9, <1>10, <1>11, <1>12, <1>13, <1>14
     DEF RegistryInv, AdminTypes


-----------------------------------------------------------------------------
(* The theorems                                                             *)

\* Every step of the registry, the pool, the operator and the panels keeps it.
LEMMA RegistryInvInductive ==
  ASSUME RegistryInv, [RegistryNext]_registryVars
  PROVE  RegistryInv'
<1>1. CASE AdminNext
  <2>1. PanelTypeOK'
    BY <1>1, PanelsUntouched DEF PanelTypeOK, RegistryInv, panelVars
  <2>2. AdminTypes' /\ KeyInv' /\ FileInv' /\ GrantInv' /\ MatchInv' /\ PriceInv'
    BY <1>1, AdminStaysTyped, KeysStay, FilesStay, GrantsStay, PoolMatchStays, PricesStay
       DEF RegistryInv
  <2> QED
    BY <2>1, <2>2 DEF RegistryInv
<1>2. ASSUME UNCHANGED adminVars
      PROVE  (AdminTypes /\ KeyInv /\ FileInv /\ GrantInv /\ MatchInv /\ PriceInv)'
  <2>1. /\ UNCHANGED <<mode, survives, kind, status, path, price, dflt, keyed, allowed, entitled,
                       disk, live, op, infra, boot, quiet, broken, count, clock, versions, chat>>
        /\ Rows' = Rows /\ Active' = Active
    BY <1>2 DEF adminVars, Rows, Active
  <2>2. AdminTypes'
    BY <2>1 DEF RegistryInv, AdminTypes, RowTypes, GrantTypes, PoolTypes, OpTypes, CallTypes,
       BootTypes, CountTypes, VersionTypes
  <2>3. KeyInv' /\ FileInv'
    BY <2>1 DEF RegistryInv, KeyInv, RemoteHasKey, Remote, FileInv
  <2>4. GrantInv'
    BY <2>1 DEF RegistryInv, GrantInv, GrantPhase, Agreed, DefaultBut
  <2>5. MatchInv'
    BY <2>1 DEF RegistryInv, MatchInv, Match, MatchBut, FileOf, Remote
  <2>6. PriceInv'
    BY <2>1 DEF RegistryInv, PriceInv, Priceable, Timed, Current, Overtaken, Pending, Backdates
  <2> QED
    BY <2>2, <2>3, <2>4, <2>5, <2>6
<1>3. CASE PanelNext /\ UNCHANGED adminVars
  BY <1>2, <1>3, PanelsStayTyped DEF RegistryInv
<1>4. CASE UNCHANGED registryVars
  <2>1. UNCHANGED adminVars /\ UNCHANGED panelVars
    BY <1>4 DEF registryVars
  <2>2. PanelTypeOK'
    BY <2>1 DEF PanelTypeOK, RegistryInv, panelVars
  <2> QED
    BY <1>2, <2>1, <2>2 DEF RegistryInv
<1> QED
  BY <1>1, <1>3, <1>4 DEF RegistryNext

\* So it holds in every state the registry can reach.
LEMMA RegistryInvariant == RegistrySpec => []RegistryInv
<1>1. RegistryInit => RegistryInv
  BY RegistryStarts
<1>2. RegistryInv /\ [RegistryNext]_registryVars => RegistryInv'
  BY RegistryInvInductive
<1> QED
  BY <1>1, <1>2, PTL DEF RegistrySpec

\* Of times that are natural numbers up to a bound there is a latest one.
LEMMA LatestTime ==
  ASSUME NEW bound \in Nat, NEW T, T \subseteq 0..bound, T # {}
  PROVE  \E t \in T : \A u \in T : u <= t
<1> DEFINE Back == {bound - t : t \in T}
<1>1. Back \subseteq Nat /\ Back # {}
  <2>1. \A t \in T : bound - t \in Nat
    OBVIOUS
  <2>2. PICK t \in T : TRUE
    OBVIOUS
  <2>3. bound - t \in Back
    BY <2>2
  <2> QED
    BY <2>1, <2>3
<1>2. \A t \in T : bound - t \in Back
  OBVIOUS
<1>3. \A k \in Back : \E t \in T : k = bound - t
  OBVIOUS
<1> HIDE DEF Back
<1>4. PICK k \in Back : \A l \in Back : k <= l
  BY <1>1, LeastNatural
<1>5. PICK t \in T : k = bound - t
  BY <1>3, <1>4
<1>6. \A u \in T : u <= t
  BY <1>2, <1>4, <1>5
<1> QED
  BY <1>6

\* The records of a model agree whatever the models, files and prices are:
\* models/actions.ts, routes/internal.ts and the start-up of engine/index.ts.
THEOREM RegistryStaysAgreed == RegistrySpec => []RegistryAgrees
<1>1. ASSUME RegistryInv
      PROVE  RegistryAgrees
  <2>1. GrantsAgree
    BY <1>1 DEF RegistryInv, GrantInv, GrantPhase, GrantsAgree, Agreed, DefaultBut, NoOp
  <2>2. RemoteHasKey
    BY <1>1 DEF RegistryInv, KeyInv
  <2>3. RegistryMatchesPool
    BY <1>1 DEF RegistryInv, MatchInv, Match, RegistryMatchesPool
  <2>4. /\ kind \in [Slugs -> {"NONE", "LOCAL", "REMOTE"}]
        /\ status \in [Slugs -> {"INACTIVE", "LOADED", "ERROR"}]
        /\ path \in [Slugs -> Paths \cup {NoPath}] /\ price \in [Slugs -> Prices]
        /\ dflt \in Rows \cup {NoModel} /\ keyed \subseteq Rows
    BY <1>1 DEF RegistryInv, AdminTypes, RowTypes, Kinds, Files
  <2>5. /\ allowed \subseteq Slugs /\ entitled \subseteq Slugs /\ disk \subseteq Paths
        /\ live \subseteq Slugs
        /\ op.m \in Slugs \cup {NoModel} /\ infra.m \in Slugs \cup {NoModel}
        /\ boot.pc \in {"up", "down", "list", "reconcile", "find", "evict", "unload", "mark",
                       "warming"}
    BY <1>1 DEF RegistryInv, AdminTypes, GrantTypes, PoolTypes, OpTypes, OpRecord, CallTypes,
       BootTypes
  <2>6. PanelTypeOK /\ CountTypes /\ VersionTypes
    BY <1>1 DEF RegistryInv, AdminTypes
  <2>7. RegistryTypeOK
    BY <2>4, <2>5, <2>6 DEF RegistryTypeOK, CountTypes, VersionTypes
  <2> QED
    BY <2>1, <2>2, <2>3, <2>7 DEF RegistryAgrees
<1> QED
  BY <1>1, RegistryInvariant, PTL

\* A chat request that creates the first price version beside an edit of the
\* price never brings an older price back (lib/pricing.ts, models/actions.ts).
THEOREM PriceStaysLatest == RegistrySpec => []ActivePriceIsLatest
<1>1. ASSUME RegistryInv
      PROVE  ActivePriceIsLatest
  <2> SUFFICES ASSUME mode = "pricing", op = NoOp, Active # {}
               PROVE  ActivePrice = price[Priced]
    BY DEF ActivePriceIsLatest
  <2>1. clock \in Nat /\ Active \subseteq 0..clock
    BY <1>1 DEF RegistryInv, AdminTypes, CountTypes, PriceInv, Timed, Active
  <2> DEFINE last == CHOOSE t \in Active : \A u \in Active : u <= t
  <2>2. last \in Active /\ \A u \in Active : u <= last
    BY <2>1, LatestTime
  <2> HIDE DEF last
  <2>3. versions[last].price = price[Priced]
    BY <1>1, <2>2 DEF RegistryInv, PriceInv, Current, Pending, NoOp
  <2> QED
    BY <2>3 DEF ActivePrice, last
<1> QED
  BY <1>1, RegistryInvariant, PTL

\* No step takes from another model what it needs: not the platform's default, not
\* a file another row names, not the status of a remote row (models/actions.ts:478-487,
\* internal.ts:533-548, engine/index.ts:126-150).
THEOREM OthersStaySpared == RegistrySpec => StepsSpareOthers
<1> DEFINE Spares == DefaultKept /\ SharedFilesKept /\ StartupLeavesRemotes
<1>1. ASSUME UNCHANGED adminVars
      PROVE  Spares
  BY <1>1 DEF adminVars, DefaultKept, SharedFilesKept, StartupLeavesRemotes
<1>2. ASSUME RegistryInv, AdminNext
      PROVE  DefaultKept
  <2>1. CASE UNCHANGED dflt
    BY <2>1 DEF DefaultKept
  <2>2. CASE MoveDefault
    BY <1>2, <2>2, NamesAssumption DEF MoveDefault, DefaultKept, Rows
  <2>3. CASE RemoveRow
    <3>1. op.m \in Slugs /\ kind'[op.m] = "NONE"
      BY <1>2, <2>3 DEF RemoveRow, At, RegistryInv, AdminTypes, OpTypes, RowTypes
    <3> QED
      BY <2>3, <3>1 DEF RemoveRow, DefaultKept, Rows
  <2>4. ASSUME NEW m \in Slugs, ColleagueRemoves(m)
        PROVE  DefaultKept
    <3>1. kind'[m] = "NONE"
      BY <1>2, <2>4 DEF ColleagueRemoves, RegistryInv, AdminTypes, RowTypes
    <3> QED
      BY <2>4, <3>1 DEF ColleagueRemoves, DefaultKept, Rows
  <2>5. CASE Begins
    BY <2>1, <2>5, BeginsLeave DEF registry
  <2>6. CASE OpStep \/ ActionFails
    BY <2>1, <2>2, <2>3, <2>6 DEF OpStep, WriteRow, CloseVersions, CreateVersion, ReadPlans,
       WriteArray, Entitle, AfterGrant, MarkAvailable, ListOthers, EvictOther, LoadDefault,
       DefaultLoaded, RemoveUnload, RemoveStrip, RemoveRevoke, RemoveFiles, ActionStuck,
       ActionFails, registry
  <2>7. CASE InfraAnswers \/ Crash \/ BootFails \/ Boots \/ PriceLookup \/ PriceReadRow \/ PriceCreate
    BY <2>1, <2>7 DEF InfraAnswers, Crash, BootFails, Boots, BootListens, BootLists,
       BootReconciles, BootFindsDefault, BootChecks, BootUnloads, BootMarks, BootMarksDefault, BootLoadsDefault,
       BootUnchanged, PriceLookup, PriceReadRow, PriceCreate, registry
  <2>8. ASSUME NEW m \in Slugs, ProcessExits(m)
        PROVE  DefaultKept
    BY <2>1, <2>8 DEF ProcessExits, BootUnchanged
  <2>9. ASSUME NEW m \in Slugs, NEW act \in {"load", "unload"}, InfraCall(act, m)
        PROVE  DefaultKept
    BY <2>1, <2>9 DEF InfraCall, registry
  <2> QED
    BY <1>2, <2>4, <2>5, <2>6, <2>7, <2>8, <2>9 DEF AdminNext
<1>3. ASSUME RegistryInv, AdminNext
      PROVE  SharedFilesKept
  <2>1. CASE UNCHANGED disk
    BY <2>1 DEF SharedFilesKept
  <2>2. CASE RemoveFiles
    <3>1. disk \ disk' \subseteq {op.file} /\ Rows' = Rows /\ path' = path
          /\ op.act = "remove" /\ op.pc = "unlink"
      BY <2>2 DEF RemoveFiles, At, registry, Rows
    <3> QED
      BY <1>3, <3>1 DEF SharedFilesKept, RegistryInv, FileInv
  <2>3. ASSUME NEW m \in Slugs, ColleagueRemoves(m)
        PROVE  SharedFilesKept
    <3>1. /\ disk' = IF Sharers(m, path[m]) = {} THEN disk \ {path[m]} ELSE disk
          /\ Rows' = Rows \ {m} /\ \A x \in Rows \ {m} : path'[x] = path[x]
      BY <1>3, <2>3 DEF ColleagueRemoves, Rows, RegistryInv, AdminTypes, RowTypes
    <3> QED
      BY <3>1 DEF Sharers, SharedFilesKept
  <2>4. CASE Begins
    BY <2>1, <2>4, BeginsLeave
  <2>5. CASE OpStep \/ ActionFails
    BY <2>1, <2>2, <2>5 DEF OpStep, WriteRow, CloseVersions, CreateVersion, ReadPlans,
       WriteArray, Entitle, AfterGrant, MoveDefault, MarkAvailable, ListOthers, EvictOther,
       LoadDefault, DefaultLoaded, RemoveUnload, RemoveStrip, RemoveRevoke, RemoveRow,
       ActionStuck, ActionFails
  <2>6. CASE InfraAnswers \/ Crash \/ BootFails \/ Boots \/ PriceLookup \/ PriceReadRow \/ PriceCreate
    BY <2>1, <2>6 DEF InfraAnswers, Crash, BootFails, Boots, BootListens, BootLists,
       BootReconciles, BootFindsDefault, BootChecks, BootUnloads, BootMarks, BootMarksDefault, BootLoadsDefault,
       BootUnchanged, PriceLookup, PriceReadRow, PriceCreate
  <2>7. ASSUME NEW m \in Slugs, ProcessExits(m)
        PROVE  SharedFilesKept
    BY <2>1, <2>7 DEF ProcessExits, BootUnchanged
  <2>8. ASSUME NEW m \in Slugs, NEW act \in {"load", "unload"}, InfraCall(act, m)
        PROVE  SharedFilesKept
    BY <2>1, <2>8 DEF InfraCall
  <2> QED
    BY <1>3, <2>3, <2>4, <2>5, <2>6, <2>7, <2>8 DEF AdminNext
<1>4. ASSUME RegistryInv, AdminNext
      PROVE  StartupLeavesRemotes
  <2>1. CASE UNCHANGED boot \/ UNCHANGED status
    BY <2>1 DEF StartupLeavesRemotes
  <2>2. CASE BootReconciles
    BY <2>2 DEF BootReconciles, StartupLeavesRemotes, Rows, Remote
  <2>3. CASE BootUnloads \/ BootMarks
    <3>1. boot.pc \in {"unload", "mark"} /\ (status' = status \/ status' = Inactive(boot.victim))
      BY <2>3 DEF BootUnloads, BootMarks, BootStep
    <3>2. boot.kin # "REMOTE" /\ \A x \in Rows \ {boot.victim} : status'[x] = status[x]
      BY <1>4, <3>1 DEF Inactive, Rows, RegistryInv, AdminTypes, RowTypes, BootTypes
    <3> QED
      BY <3>2 DEF StartupLeavesRemotes
  <2>4. CASE BootMarksDefault \/ BootLoadsDefault
    <3>1. \A x \in Rows \ {boot.m} : status'[x] = status[x]
      BY <1>4, <2>4 DEF BootMarksDefault, BootLoadsDefault, LoadAnswers, Rows, RegistryInv,
         AdminTypes, RowTypes
    <3> QED
      BY <3>1 DEF StartupLeavesRemotes
  <2>5. CASE BootListens \/ BootLists \/ BootFindsDefault \/ BootChecks \/ Crash \/ BootFails
    BY <2>1, <2>5 DEF BootListens, BootLists, BootFindsDefault, BootChecks, Crash, BootFails, registry
  <2>6. CASE Begins
    BY <2>1, <2>6, BeginsLeave
  <2>7. CASE OpStep \/ ActionFails
    BY <2>1, <2>7 DEF OpStep, WriteRow, CloseVersions, CreateVersion, ReadPlans,
       WriteArray, Entitle, AfterGrant, MoveDefault, MarkAvailable, ListOthers, EvictOther,
       LoadDefault, DefaultLoaded, RemoveUnload, RemoveStrip, RemoveRevoke, RemoveRow,
       RemoveFiles, ActionStuck, ActionFails
  <2>8. CASE InfraAnswers \/ PriceLookup \/ PriceReadRow \/ PriceCreate
    BY <2>1, <2>8 DEF InfraAnswers, PriceLookup, PriceReadRow, PriceCreate
  <2>9. ASSUME NEW m \in Slugs, ProcessExits(m) \/ ColleagueRemoves(m)
        PROVE  StartupLeavesRemotes
    BY <2>1, <2>9 DEF ProcessExits, ColleagueRemoves
  <2>10. ASSUME NEW m \in Slugs, NEW act \in {"load", "unload"}, InfraCall(act, m)
         PROVE  StartupLeavesRemotes
    BY <2>1, <2>10 DEF InfraCall
  <2> QED
    BY <1>4, <2>2, <2>3, <2>4, <2>5, <2>6, <2>7, <2>8, <2>9, <2>10 DEF AdminNext, Boots
<1>5. ASSUME RegistryInv, [RegistryNext]_registryVars
      PROVE  [Spares]_registryVars
  <2>1. CASE AdminNext
    BY <1>2, <1>3, <1>4, <1>5, <2>1
  <2>2. CASE PanelNext /\ UNCHANGED adminVars
    BY <1>1, <2>2
  <2> QED
    BY <1>5, <2>1, <2>2 DEF RegistryNext
<1> HIDE DEF Spares
<1>6. RegistrySpec => [][Spares]_registryVars
  BY <1>5, RegistryInvariant, PTL DEF RegistrySpec
<1> QED
  BY <1>6 DEF StepsSpareOthers, Spares

\* What a model's bar shows goes with what is in flight, and a removal timer runs
\* for answered jobs only.
BarsAgree ==
  /\ PanelTypeOK /\ InFlightIsShown
  /\ \A m \in timer : job[m] = "done" /\ req[m] = "none"

\* No click, answer or timer takes the bar of a request in flight.
LEMMA BarsStayAgreed ==
  ASSUME BarsAgree, [RegistryNext]_registryVars
  PROVE  BarsAgree'
<1>1. ASSUME UNCHANGED <<req, job, timer>>
      PROVE  (InFlightIsShown /\ \A m \in timer : job[m] = "done" /\ req[m] = "none")'
  BY <1>1 DEF BarsAgree, InFlightIsShown
<1>2. CASE UNCHANGED panelVars
  BY <1>1, <1>2 DEF BarsAgree, PanelTypeOK, panelVars
<1>3. CASE PanelNext
  <2>1. ASSUME NEW m \in PoolModels,
               RunLoad(m) \/ RunUnload(m) \/ ActionAnswers(m) \/ TimerRemoves(m)
        PROVE  (InFlightIsShown /\ \A x \in timer : job[x] = "done" /\ req[x] = "none")'
    <3>1. CASE RunLoad(m) \/ RunUnload(m)
      BY <3>1 DEF RunLoad, RunUnload, BarsAgree, PanelTypeOK, InFlightIsShown
    <3>2. CASE ActionAnswers(m)
      BY <3>2 DEF ActionAnswers, BarsAgree, PanelTypeOK, InFlightIsShown
    <3>3. CASE TimerRemoves(m)
      BY <3>3 DEF TimerRemoves, BarsAgree, PanelTypeOK, InFlightIsShown
    <3> QED
      BY <2>1, <3>1, <3>2, <3>3
  <2>2. ASSUME NEW m \in PoolModels, ProcessDies(m)
        PROVE  UNCHANGED <<req, job, timer>>
    BY <2>2 DEF ProcessDies
  <2>3. ASSUME NEW s, PollArrives(s) \/ PollLost(s) \/ StatusArrives(s) \/ StatusLost(s)
        PROVE  UNCHANGED <<req, job, timer>>
    BY <2>3 DEF PollArrives, PollLost, StatusArrives, StatusLost, poolPanelVars
  <2>4. ASSUME NEW r, SelectModel(r) \/ FilesArrive(r)
        PROVE  UNCHANGED <<req, job, timer>>
    BY <2>4 DEF SelectModel, FilesArrive, poolPanelVars
  <2>5. ASSUME \/ PollPool \/ PollMisses \/ SearchModels \/ SearchEnds \/ DownloadBundle
               \/ BundleQueued \/ CancelDownload \/ RetryDownload \/ DownloadEnds \/ RefreshDownloads
        PROVE  UNCHANGED <<req, job, timer>>
    BY <2>5 DEF PollPool, PollMisses, SearchModels, SearchEnds, DownloadBundle, BundleQueued,
       CancelDownload, RetryDownload, DownloadEnds, RefreshDownloads, poolPanelVars
  <2>6. (InFlightIsShown /\ \A m \in timer : job[m] = "done" /\ req[m] = "none")'
    <3> DEFINE Kept == (InFlightIsShown /\ \A m \in timer : job[m] = "done" /\ req[m] = "none")'
    <3>1. ASSUME NEW m \in PoolModels, ProcessDies(m)
          PROVE  Kept
      BY <1>1, <2>2, <3>1
    <3>2. ASSUME NEW s, PollArrives(s) \/ PollLost(s) \/ StatusArrives(s) \/ StatusLost(s)
          PROVE  Kept
      BY <1>1, <2>3, <3>2
    <3>3. ASSUME NEW r, SelectModel(r) \/ FilesArrive(r)
          PROVE  Kept
      BY <1>1, <2>4, <3>3
    <3>4. ASSUME NEW m \in PoolModels,
                 RunLoad(m) \/ RunUnload(m) \/ ActionAnswers(m) \/ TimerRemoves(m)
          PROVE  Kept
      BY <2>1, <3>4
    <3>5. ASSUME \/ PollPool \/ PollMisses \/ SearchModels \/ SearchEnds \/ DownloadBundle
                 \/ BundleQueued \/ CancelDownload \/ RetryDownload \/ DownloadEnds
                 \/ RefreshDownloads
          PROVE  Kept
      BY <1>1, <2>5, <3>5
    <3> HIDE DEF Kept
    <3>6. Kept
      BY <1>3, <3>1, <3>2, <3>3, <3>4, <3>5 DEF PanelNext
    <3> QED
      BY <3>6 DEF Kept
  <2> QED
    BY <1>3, <2>6, PanelsStayTyped DEF BarsAgree
<1> QED
  BY <1>2, <1>3, PanelsUntouched DEF RegistryNext, registryVars

\* While a load or an eject is in flight its bar is on screen: the timer of an
\* earlier job never takes it away (ModelPoolControls.tsx:153-203).
THEOREM InFlightStaysShown == RegistrySpec => []InFlightIsShown
<1>1. RegistryInit => BarsAgree
  <2> SUFFICES ASSUME RegistryInit
               PROVE  BarsAgree
    OBVIOUS
  <2>1. PanelTypeOK
    BY RegistryStarts DEF RegistryInv
  <2>2. req = [m \in PoolModels |-> "none"] /\ timer = {}
    BY DEF RegistryInit, PanelInit
  <2> QED
    BY <2>1, <2>2 DEF BarsAgree, InFlightIsShown
<1>2. BarsAgree /\ [RegistryNext]_registryVars => BarsAgree'
  BY BarsStayAgreed
<1>3. BarsAgree => InFlightIsShown
  BY DEF BarsAgree
<1> QED
  BY <1>1, <1>2, <1>3, PTL DEF RegistrySpec
=============================================================================

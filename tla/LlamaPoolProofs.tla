-------------------------- MODULE LlamaPoolProofs ---------------------------
(***************************************************************************)
(* Proofs about LlamaPool, for any models, budget and number of callers,    *)
(* and about HubDownloads, for any jobs, shards, slots and attempts.        *)
(*                                                                          *)
(* No property of the pool is inductive.  ChildrenAccounted needs that a    *)
(* load which has not spawned yet finds no instance in the map, which is    *)
(* what the lock is for; RunsOnlyWhenReady needs that what the map holds    *)
(* outside a start-up has passed its health check, and that nobody holds an *)
(* instance that does not exist yet; the counts need that and the types of  *)
(* the order in which models were used.                                     *)
(*                                                                          *)
(* For the downloads the invariant has to hold inside a pass of             *)
(* pumpDownloadQueue too, so its parts are operators of the queue, the      *)
(* controllers and the runners.  That no download is forgotten needs that a *)
(* runner which registers does not count, since its job may be active       *)
(* again; that a final file is verified needs that the jobs which are to    *)
(* fetch a missing shard are one, active and listed, which is what the      *)
(* guard of startHuggingFaceDownload sees to.                               *)
(***************************************************************************)
EXTENDS LlamaPool, HubDownloads, FiniteSums, SequenceTheorems

Numbers == Ids \cup {NoInstance}

\* The types the argument needs.
PoolTypes ==
  /\ current \in [Models -> Numbers]
  /\ spawned \in [Models -> Numbers]
  /\ child \in [Instances -> {"none", "up", "term", "kill", "dead"}]
  /\ ready \in [Instances -> {"none", "pending", "ok", "failed"}]
  /\ loader \in [Models -> LoadSteps]
  /\ caller \in [Callers -> [at : CallerSteps, inst : Models \X Numbers]]

\* The map holds the newest incarnation or none.
MapHoldsNewest == \A m \in Models : current[m] \in {NoInstance, spawned[m]}

BeforeSpawn == {"stat", "reservations", "evicting", "port"}
Starting == {"health", "answered"}

\* The lock: a load that has not spawned finds the map empty.
LockedOut ==
  \A m \in Models : loader[m] \in BeforeSpawn => current[m] = NoInstance

\* A load in its start-up has spawned an instance that is still pending.
StartingIsPending ==
  \A m \in Models : loader[m] \in Starting
                      => spawned[m] # 0 /\ ready[Newest(m)] = "pending"

\* Outside a start-up, what the map holds has passed its health check.
MapHoldsReady ==
  \A m \in Models : m \in Resident /\ loader[m] \notin Starting
                      => ready[Current(m)] = "ok"

\* Nobody runs on, or waits for, an instance that does not exist.
HeldExists ==
  \A c \in Callers : caller[c].at \in {"running", "awaitReady"}
                       => /\ caller[c].inst[2] # NoInstance
                          /\ caller[c].inst[2] <= spawned[caller[c].inst[1]]

PoolInv == /\ PoolTypes /\ MapHoldsNewest /\ LockedOut /\ StartingIsPending
           /\ MapHoldsReady /\ HeldExists
           /\ ChildrenAccounted /\ RunsOnlyWhenReady

-----------------------------------------------------------------------------
(* The definitions that every step needs. *)
USE DEF Numbers, Resident, Current, Newest, NoInstance, LoadSteps, CallerSteps,
        Instances, Ids, BeforeSpawn, Starting

\* The facts about the map and the loads, without those about callers.
MapFacts == MapHoldsNewest /\ LockedOut /\ StartingIsPending /\ MapHoldsReady

\* The invariant holds of the empty pool.
LEMMA PoolInvInit == Init => PoolInv
BY SetsAssumption
DEF Init, NoVictim, PoolInv, PoolTypes, MapHoldsNewest, LockedOut,
    StartingIsPending, MapHoldsReady, HeldExists, ChildrenAccounted,
    RunsOnlyWhenReady

\* kill() keeps the type of the table of processes.
LEMMA TerminatedType ==
  ASSUME PoolTypes, NEW inst
  PROVE  /\ Terminated(inst) \in [Instances -> {"none", "up", "term", "kill", "dead"}]
         /\ \A i \in Instances : Terminated(inst)[i] = "up"
                                  => child[i] = "up" /\ i # inst
BY DEF PoolTypes, Terminated

\* unloadModel up to its first await takes an instance out of the map and
\* signals it: what remains is still accounted for.
LEMMA UnloadStartMap ==
  ASSUME PoolTypes, ChildrenAccounted, NEW x, UnloadStart(x)
  PROVE  /\ current' \in [Models -> Numbers]
         /\ child' \in [Instances -> {"none", "up", "term", "kill", "dead"}]
         /\ \A m \in Models : current'[m] \in {current[m], NoInstance}
         /\ ChildrenAccounted'
<1>1. CASE x \in Resident
  <2>1. /\ current' = [current EXCEPT ![x] = NoInstance]
        /\ child' = Terminated(Current(x))
    BY <1>1 DEF UnloadStart
  <2>2. child' \in [Instances -> {"none", "up", "term", "kill", "dead"}]
    BY <2>1, TerminatedType
  <2>3. /\ current' \in [Models -> Numbers]
        /\ \A m \in Models : current'[m] \in {current[m], NoInstance}
    BY <2>1 DEF PoolTypes
  <2>4. ASSUME NEW i \in Instances, child'[i] = "up"
        PROVE  <<i[1], current'[i[1]]>> = i
    <3>1. child[i] = "up" /\ i # Current(x)
      BY <2>1, <2>4, TerminatedType
    <3>2. <<i[1], current[i[1]]>> = i
      BY <3>1 DEF ChildrenAccounted
    <3>3. i[1] # x
      BY <3>1, <3>2
    <3> QED BY <2>1, <3>2, <3>3 DEF PoolTypes
  <2> QED BY <2>2, <2>3, <2>4 DEF ChildrenAccounted
<1>2. CASE x \notin Resident
  BY <1>2 DEF UnloadStart, PoolTypes, ChildrenAccounted
<1> QED BY <1>1, <1>2

\* ensureLoaded finds the instance.
LEMMA EnsureResidentStep ==
  ASSUME PoolInv, NEW c \in Callers, NEW m \in Models, EnsureResident(c, m)
  PROVE  PoolInv'
<1>1. PoolTypes'
  BY DEF PoolInv, PoolTypes, MapHoldsNewest, EnsureResident, Run
<1>2. MapFacts'
  BY DEF PoolInv, PoolTypes, MapFacts, MapHoldsNewest, LockedOut,
         StartingIsPending, MapHoldsReady, EnsureResident, Run
<1>3. HeldExists'
  <2> SUFFICES ASSUME NEW d \in Callers,
                      caller'[d].at \in {"running", "awaitReady"}
               PROVE  /\ caller'[d].inst[2] # NoInstance
                      /\ caller'[d].inst[2] <= spawned'[caller'[d].inst[1]]
    BY DEF HeldExists
  <2> QED BY DEF PoolInv, PoolTypes, MapHoldsNewest, HeldExists, EnsureResident, Run
<1>4. ChildrenAccounted'
  BY DEF PoolInv, PoolTypes, MapHoldsNewest, LockedOut, ChildrenAccounted,
         EnsureResident, Run
<1>5. RunsOnlyWhenReady'
  BY SMTT(20) DEF PoolInv, PoolTypes, HeldExists, MapHoldsReady, StartingIsPending,
         RunsOnlyWhenReady, EnsureResident, Run
<1> QED BY <1>1, <1>2, <1>3, <1>4, <1>5 DEF PoolInv, MapFacts

\* ensureLoaded does not.
LEMMA EnsureAbsentStep ==
  ASSUME PoolInv, NEW c \in Callers, NEW m \in Models, EnsureAbsent(c, m)
  PROVE  PoolInv'
<1>1. PoolTypes'
  BY DEF PoolInv, PoolTypes, MapHoldsNewest, EnsureAbsent
<1>2. MapFacts'
  BY DEF PoolInv, PoolTypes, MapFacts, MapHoldsNewest, LockedOut,
         StartingIsPending, MapHoldsReady, EnsureAbsent
<1>3. HeldExists'
  BY DEF PoolInv, PoolTypes, MapHoldsNewest, StartingIsPending, HeldExists,
         EnsureAbsent
<1>4. ChildrenAccounted'
  BY DEF PoolInv, PoolTypes, MapHoldsNewest, LockedOut, ChildrenAccounted,
         EnsureAbsent
<1>5. RunsOnlyWhenReady'
  BY DEF PoolInv, PoolTypes, HeldExists, MapHoldsReady, StartingIsPending,
         RunsOnlyWhenReady, EnsureAbsent
<1> QED BY <1>1, <1>2, <1>3, <1>4, <1>5 DEF PoolInv, MapFacts

\* loadModel behind its lock: only a model outside its start-up is run on.
LEMMA LoadModelStep ==
  ASSUME PoolInv, NEW c \in Callers, LoadModel(c)
  PROVE  PoolInv'
<1>1. PoolTypes'
  BY DEF PoolInv, PoolTypes, MapHoldsNewest, LoadModel, Run, JoinLoad, LoaderAt
<1>2. MapFacts'
  BY DEF PoolInv, PoolTypes, MapFacts, MapHoldsNewest, LockedOut,
         StartingIsPending, MapHoldsReady, LoadModel, Run, JoinLoad, LoaderAt
<1>3. HeldExists'
  <2> DEFINE m == caller[c].inst[1]
  <2>1. m \in Models /\ spawned[m] \in Numbers /\ current[m] \in {0, spawned[m]}
    BY DEF PoolInv, PoolTypes, MapHoldsNewest
  <2>2. /\ UNCHANGED spawned
        /\ \/ caller' = [caller EXCEPT ![c].at = "awaitLoad"]
           \/ /\ current[m] # NoInstance
              /\ caller' = [d \in Callers |->
                             IF d \in {c} THEN [at |-> "running",
                                               inst |-> <<m, current[m]>>]
                                          ELSE caller[d]]
    BY DEF LoadModel, Run, JoinLoad
  <2>3. ASSUME NEW d \in Callers, caller'[d].at \in {"running", "awaitReady"}
        PROVE  /\ caller'[d].inst[2] # NoInstance
               /\ caller'[d].inst[2] <= spawned'[caller'[d].inst[1]]
    <3>1. CASE caller'[d] = caller[d]
      BY <2>2, <2>3, <3>1 DEF PoolInv, HeldExists
    <3>2. CASE caller'[d] # caller[d]
      <4>1. caller'[d].inst = <<m, current[m]>> /\ current[m] # NoInstance
        BY <2>2, <2>3, <3>2 DEF PoolInv, PoolTypes
      <4> QED BY <2>1, <2>2, <4>1
    <3> QED BY <3>1, <3>2
  <2> QED BY <2>3 DEF HeldExists
<1>4. ChildrenAccounted'
  BY DEF PoolInv, PoolTypes, MapHoldsNewest, LockedOut, ChildrenAccounted,
         LoadModel, Run, JoinLoad, LoaderAt
<1>5. RunsOnlyWhenReady'
  <2> DEFINE m == caller[c].inst[1]
  <2>1. m \in Models /\ UNCHANGED ready
    BY DEF PoolInv, PoolTypes, LoadModel
  <2>2. \/ caller' = [caller EXCEPT ![c].at = "awaitLoad"]
        \/ /\ current[m] # NoInstance /\ loader[m] = "none"
           /\ caller' = [d \in Callers |->
                          IF d \in {c} THEN [at |-> "running",
                                            inst |-> <<m, current[m]>>]
                                       ELSE caller[d]]
    BY DEF LoadModel, Run, JoinLoad
  <2> HIDE DEF m
  <2>3. current[m] # NoInstance /\ loader[m] = "none"
          => ready[<<m, current[m]>>] = "ok"
    BY <2>1 DEF PoolInv, MapHoldsReady
  <2>4. \A d \in Callers : \/ caller'[d] = caller[d]
                           \/ caller'[d].at = "awaitLoad"
                           \/ ready[caller'[d].inst] = "ok"
    BY <2>2, <2>3, SMTT(20) DEF PoolInv, PoolTypes
  <2> QED BY <2>1, <2>4 DEF PoolInv, RunsOnlyWhenReady
<1> QED BY <1>1, <1>2, <1>3, <1>4, <1>5 DEF PoolInv, MapFacts

\* The end of a generation.
LEMMA CompleteStep ==
  ASSUME PoolInv, NEW c \in Callers, Complete(c)
  PROVE  PoolInv'
<1>1. PoolTypes'
  <2>1. caller' \in [Callers -> [at : CallerSteps, inst : Models \X Numbers]]
    BY DEF PoolInv, PoolTypes, Complete
  <2> QED BY <2>1 DEF PoolInv, PoolTypes, Complete
<1>2. MapFacts'
  BY DEF PoolInv, PoolTypes, MapFacts, MapHoldsNewest, LockedOut,
         StartingIsPending, MapHoldsReady, Complete
<1>3. HeldExists'
  <2>1. /\ UNCHANGED spawned
        /\ \A d \in Callers : \/ caller'[d] = caller[d]
                              \/ caller'[d].at \in {"served", "error"}
    BY DEF PoolInv, PoolTypes, Complete
  <2> QED BY <2>1 DEF PoolInv, HeldExists
<1>4. ChildrenAccounted'
  BY DEF PoolInv, PoolTypes, MapHoldsNewest, LockedOut, ChildrenAccounted,
         Complete
<1>5. RunsOnlyWhenReady'
  <2>1. /\ UNCHANGED ready
        /\ \A d \in Callers : \/ caller'[d] = caller[d]
                              \/ caller'[d].at \in {"served", "error"}
    BY DEF PoolInv, PoolTypes, Complete
  <2> QED BY <2>1 DEF PoolInv, RunsOnlyWhenReady
<1> QED BY <1>1, <1>2, <1>3, <1>4, <1>5 DEF PoolInv, MapFacts

\* The weights are there, or the load ends.
LEMMA StatStep ==
  ASSUME PoolInv, NEW m \in Models, Stat(m)
  PROVE  PoolInv'
<1>1. PoolTypes'
  <2>1. caller' \in [Callers -> [at : CallerSteps, inst : Models \X Numbers]]
    BY DEF PoolInv, PoolTypes, Stat, AbortLoad, Throw
  <2>2. loader' \in [Models -> LoadSteps]
    BY DEF PoolInv, PoolTypes, Stat, AbortLoad, LoadEnds, LoaderAt
  <2> QED BY <2>1, <2>2 DEF PoolInv, PoolTypes, Stat, AbortLoad
<1>2. MapFacts'
  BY DEF PoolInv, PoolTypes, MapFacts, MapHoldsNewest, LockedOut,
         StartingIsPending, MapHoldsReady, Stat, AbortLoad, LoadEnds, Throw,
         LoaderAt
<1>3. HeldExists'
  BY DEF PoolInv, PoolTypes, MapHoldsNewest, StartingIsPending, HeldExists,
         Stat, AbortLoad, LoadEnds, Throw, LoaderAt
<1>4. ChildrenAccounted'
  BY DEF PoolInv, PoolTypes, MapHoldsNewest, LockedOut, ChildrenAccounted,
         Stat, AbortLoad, LoadEnds, Throw, LoaderAt
<1>5. RunsOnlyWhenReady'
  BY DEF PoolInv, PoolTypes, HeldExists, MapHoldsReady, StartingIsPending,
         RunsOnlyWhenReady, Stat, AbortLoad, LoadEnds, Throw, LoaderAt
<1> QED BY <1>1, <1>2, <1>3, <1>4, <1>5 DEF PoolInv, MapFacts

\* A load that throws before it has spawned leaves the map alone.
LEMMA AbortStep ==
  ASSUME PoolInv, NEW m \in Models, loader[m] \in BeforeSpawn, AbortLoad(m),
         UNCHANGED <<spawned, ready>>
  PROVE  PoolInv'
<1>1. PoolTypes'
  BY DEF PoolInv, PoolTypes, MapHoldsNewest, AbortLoad, LoadEnds, Throw
<1>2. MapFacts'
  BY DEF PoolInv, PoolTypes, MapFacts, MapHoldsNewest, LockedOut,
         StartingIsPending, MapHoldsReady, AbortLoad, LoadEnds, Throw
<1>3. HeldExists'
  BY DEF PoolInv, PoolTypes, MapHoldsNewest, StartingIsPending, HeldExists,
         AbortLoad, LoadEnds, Throw
<1>4. ChildrenAccounted'
  BY DEF PoolInv, PoolTypes, MapHoldsNewest, LockedOut, ChildrenAccounted,
         AbortLoad, LoadEnds, Throw
<1>5. RunsOnlyWhenReady'
  BY DEF PoolInv, PoolTypes, HeldExists, MapHoldsReady, StartingIsPending,
         RunsOnlyWhenReady, AbortLoad, LoadEnds, Throw
<1> QED BY <1>1, <1>2, <1>3, <1>4, <1>5 DEF PoolInv, MapFacts

\* unloadModel, with the loads where they were or one of them evicting.
LEMMA UnloadStep ==
  ASSUME PoolInv, NEW x, UnloadStart(x), UNCHANGED <<spawned, ready, caller>>,
         loader' \in [Models -> LoadSteps],
         \A m \in Models : \/ loader'[m] = loader[m]
                           \/ /\ loader[m] \in BeforeSpawn
                              /\ loader'[m] \in BeforeSpawn
  PROVE  PoolInv'
<1>1. /\ current' \in [Models -> Numbers]
      /\ child' \in [Instances -> {"none", "up", "term", "kill", "dead"}]
      /\ \A m \in Models : current'[m] \in {current[m], NoInstance}
      /\ ChildrenAccounted'
  BY UnloadStartMap DEF PoolInv
<1>2. PoolTypes'
  BY <1>1 DEF PoolInv, PoolTypes
<1>3. MapHoldsNewest' /\ LockedOut'
  BY <1>1 DEF PoolInv, PoolTypes, MapHoldsNewest, LockedOut
<1>4. StartingIsPending'
  BY DEF PoolInv, PoolTypes, StartingIsPending
<1>5. MapHoldsReady'
  BY <1>1 DEF PoolInv, PoolTypes, MapHoldsReady, LockedOut
<1>6. HeldExists' /\ RunsOnlyWhenReady'
  BY DEF PoolInv, HeldExists, RunsOnlyWhenReady
<1> QED BY <1>1, <1>2, <1>3, <1>4, <1>5, <1>6 DEF PoolInv

\* The eviction loop at its head.
LEMMA EvictStep ==
  ASSUME PoolInv, NEW m \in Models, NEW order, NEW left, EvictNext(m, order, left),
         loader[m] \in {"reservations", "evicting"},
         UNCHANGED <<spawned, ready>>
  PROVE  PoolInv'
<1>1. CASE AbortLoad(m)
  BY <1>1, AbortStep
<1>2. CASE /\ UnloadStart(Oldest(order, left)) /\ UNCHANGED caller
           /\ loader' = [loader EXCEPT ![m] = "evicting"]
  <2>1. /\ loader' \in [Models -> LoadSteps]
        /\ \A n \in Models : \/ loader'[n] = loader[n]
                             \/ /\ loader[n] \in BeforeSpawn
                                /\ loader'[n] \in BeforeSpawn
    BY <1>2 DEF PoolInv, PoolTypes
  <2> QED BY <1>2, <2>1, UnloadStep
<1>3. CASE /\ loader' = [loader EXCEPT ![m] = "port"]
           /\ UNCHANGED <<current, child, caller>>
  BY <1>3 DEF PoolInv, PoolTypes, MapHoldsNewest, LockedOut, StartingIsPending,
              MapHoldsReady, HeldExists, ChildrenAccounted, RunsOnlyWhenReady
<1> QED BY <1>1, <1>2, <1>3 DEF EvictNext, LoaderAt

\* The process starts: the lock has kept the map empty for it.
LEMMA SpawnStep ==
  ASSUME PoolInv, NEW m \in Models, Spawn(m)
  PROVE  PoolInv'
<1>1. CASE AbortLoad(m) /\ UNCHANGED <<spawned, ready>>
  BY <1>1, AbortStep DEF Spawn
<1>2. CASE ~(AbortLoad(m) /\ UNCHANGED <<spawned, ready>>)
  <2> DEFINE inst == <<m, spawned[m] + 1>>
  <2>1. /\ loader[m] = "port" /\ spawned[m] < MaxSpawns
        /\ spawned' = [spawned EXCEPT ![m] = @ + 1]
        /\ child' = [child EXCEPT ![inst] = "up"]
        /\ ready' = [ready EXCEPT ![inst] = "pending"]
        /\ current' = [current EXCEPT ![m] = spawned[m] + 1]
        /\ loader' = [loader EXCEPT ![m] = "health"]
        /\ UNCHANGED caller
    BY <1>2 DEF Spawn, LoaderAt
  <2>2. spawned[m] + 1 \in Ids /\ inst \in Instances
    BY <2>1, SetsAssumption DEF PoolInv, PoolTypes
  <2> HIDE DEF inst
  <2>3. PoolTypes'
    BY <2>1, <2>2 DEF PoolInv, PoolTypes
  <2>4. MapFacts'
    <3>1. \A n \in Models : n # m => /\ <<n, spawned[n]>> # inst
                                    /\ <<n, current[n]>> # inst
      BY DEF inst
    <3>2. /\ ready'[inst] = "pending" /\ inst = <<m, spawned'[m]>>
          /\ spawned'[m] # 0
      BY <2>1, <2>2 DEF PoolInv, PoolTypes, inst
    <3>3. MapHoldsNewest' /\ LockedOut'
      BY <2>1, <2>2 DEF PoolInv, PoolTypes, MapHoldsNewest, LockedOut
    <3>4. StartingIsPending'
      BY <2>1, <3>1, <3>2 DEF PoolInv, PoolTypes, StartingIsPending
    <3>5. MapHoldsReady'
      BY <2>1, <3>1 DEF PoolInv, PoolTypes, MapHoldsReady
    <3> QED BY <3>3, <3>4, <3>5 DEF MapFacts
  <2>5. HeldExists'
    <3>1. \A n \in Models : spawned[n] <= spawned'[n] /\ spawned[n] \in Nat
                            /\ spawned'[n] \in Nat
      BY <2>1, <2>2, SetsAssumption DEF PoolInv, PoolTypes
    <3>2. ASSUME NEW d \in Callers,
                 caller[d].at \in {"running", "awaitReady"}
          PROVE  /\ caller[d].inst[2] # NoInstance
                 /\ caller[d].inst[2] <= spawned'[caller[d].inst[1]]
      <4>1. caller[d].inst[1] \in Models /\ caller[d].inst[2] \in Nat
        BY SetsAssumption DEF PoolInv, PoolTypes
      <4> QED BY <3>1, <3>2, <4>1 DEF PoolInv, HeldExists
    <3> QED BY <2>1, <3>2 DEF HeldExists
  <2>6. ChildrenAccounted'
    <3> SUFFICES ASSUME NEW i \in Instances, child'[i] = "up"
                 PROVE  <<i[1], current'[i[1]]>> = i
      BY DEF ChildrenAccounted
    <3>1. CASE i = inst
      BY <2>1, <3>1 DEF PoolInv, PoolTypes, inst
    <3>2. CASE i # inst
      <4>1. child[i] = "up" /\ <<i[1], current[i[1]]>> = i
        BY <2>1, <2>2, <3>2 DEF PoolInv, PoolTypes, ChildrenAccounted
      <4>2. i[1] # m
        BY <2>1, <4>1 DEF PoolInv, LockedOut
      <4> QED BY <2>1, <4>1, <4>2 DEF PoolInv, PoolTypes
    <3> QED BY <3>1, <3>2
  <2>7. RunsOnlyWhenReady'
    <3> SUFFICES ASSUME NEW d \in Callers, caller[d].at = "running"
                 PROVE  ready'[caller[d].inst] = "ok"
      BY <2>1 DEF RunsOnlyWhenReady
    <3>1. ready[caller[d].inst] = "ok"
      BY DEF PoolInv, RunsOnlyWhenReady
    <3>2. caller[d].inst # inst
      <4>1. caller[d].inst[1] = m => caller[d].inst[2] <= spawned[m]
        BY DEF PoolInv, HeldExists
      <4>2. spawned[m] \in Nat
        BY SetsAssumption DEF PoolInv, PoolTypes
      <4> QED BY <4>1, <4>2 DEF inst
    <3> QED BY <2>1, <3>1, <3>2 DEF PoolInv, PoolTypes
  <2> QED BY <2>3, <2>4, <2>5, <2>6, <2>7 DEF PoolInv, MapFacts
<1> QED BY <1>1, <1>2

\* The health check is answered.
LEMMA HealthAnswerStep ==
  ASSUME PoolInv, NEW m \in Models, HealthAnswer(m)
  PROVE  PoolInv'
<1>1. PoolTypes'
  BY DEF PoolInv, PoolTypes, MapHoldsNewest, HealthAnswer, LoaderAt
<1>2. MapFacts'
  BY DEF PoolInv, PoolTypes, MapFacts, MapHoldsNewest, LockedOut,
         StartingIsPending, MapHoldsReady, HealthAnswer, LoaderAt
<1>3. HeldExists'
  BY DEF PoolInv, PoolTypes, MapHoldsNewest, StartingIsPending, HeldExists,
         HealthAnswer, LoaderAt
<1>4. ChildrenAccounted'
  BY DEF PoolInv, PoolTypes, MapHoldsNewest, LockedOut, ChildrenAccounted,
         HealthAnswer, LoaderAt
<1>5. RunsOnlyWhenReady'
  BY DEF PoolInv, PoolTypes, HeldExists, MapHoldsReady, StartingIsPending,
         RunsOnlyWhenReady, HealthAnswer, LoaderAt
<1> QED BY <1>1, <1>2, <1>3, <1>4, <1>5 DEF PoolInv, MapFacts

\* The start-up succeeds.
LEMMA HealthOkStep ==
  ASSUME PoolInv, NEW m \in Models, HealthOk(m)
  PROVE  PoolInv'
<1>1. PoolTypes'
  BY DEF PoolInv, PoolTypes, MapHoldsNewest, HealthOk, LoaderAt, Run,
         AwaitingReady
<1>2. MapFacts'
  BY DEF PoolInv, PoolTypes, MapFacts, MapHoldsNewest, LockedOut,
         StartingIsPending, MapHoldsReady, HealthOk, LoaderAt, Run,
         AwaitingReady
<1>3. HeldExists'
  BY DEF PoolInv, PoolTypes, MapHoldsNewest, StartingIsPending, HeldExists,
         HealthOk, LoaderAt, Run, AwaitingReady
<1>4. ChildrenAccounted'
  BY DEF PoolInv, PoolTypes, MapHoldsNewest, LockedOut, ChildrenAccounted,
         HealthOk, LoaderAt, Run, AwaitingReady
<1>5. RunsOnlyWhenReady'
  BY DEF PoolInv, PoolTypes, HeldExists, MapHoldsReady, StartingIsPending,
         RunsOnlyWhenReady, HealthOk, LoaderAt, Run, AwaitingReady
<1> QED BY <1>1, <1>2, <1>3, <1>4, <1>5 DEF PoolInv, MapFacts

\* The start-up fails: nobody runs on an instance still pending.
LEMMA HealthFailStep ==
  ASSUME PoolInv, NEW m \in Models, HealthFail(m)
  PROVE  PoolInv'
<1>1. PoolTypes'
  <2>1. child' \in [Instances -> {"none", "up", "term", "kill", "dead"}]
    BY TerminatedType DEF PoolInv, HealthFail
  <2>2. caller' \in [Callers -> [at : CallerSteps, inst : Models \X Numbers]]
    BY DEF PoolInv, PoolTypes, HealthFail, Throw
  <2> QED BY <2>1, <2>2 DEF PoolInv, PoolTypes, HealthFail, LoaderAt
<1>2. MapFacts'
  BY DEF PoolInv, PoolTypes, MapFacts, MapHoldsNewest, LockedOut,
         StartingIsPending, MapHoldsReady, HealthFail, LoaderAt, Throw,
         AwaitingReady, Terminated
<1>3. HeldExists'
  BY DEF PoolInv, PoolTypes, MapHoldsNewest, StartingIsPending, HeldExists,
         HealthFail, LoaderAt, Throw, AwaitingReady, Terminated
<1>4. ChildrenAccounted'
  <2> SUFFICES ASSUME NEW i \in Instances, child'[i] = "up"
               PROVE  <<i[1], current'[i[1]]>> = i
    BY DEF ChildrenAccounted
  <2>1. child[i] = "up" /\ i # <<m, spawned[m]>>
    BY TerminatedType DEF PoolInv, HealthFail
  <2>2. <<i[1], current[i[1]]>> = i
    BY <2>1 DEF PoolInv, ChildrenAccounted
  <2>3. i[1] # m
    <3>1. i[2] \in Ids
      OBVIOUS
    <3> QED BY <2>1, <2>2, <3>1 DEF PoolInv, MapHoldsNewest
  <2> QED BY <2>2, <2>3 DEF PoolInv, PoolTypes, HealthFail
<1>5. RunsOnlyWhenReady'
  BY DEF PoolInv, PoolTypes, HeldExists, MapHoldsReady, StartingIsPending,
         RunsOnlyWhenReady, HealthFail, LoaderAt, Throw, AwaitingReady,
         Terminated
<1> QED BY <1>1, <1>2, <1>3, <1>4, <1>5 DEF PoolInv, MapFacts

\* The load settles: those who waited for it run on what the map holds.
LEMMA LoadSettlesStep ==
  ASSUME PoolInv, NEW m \in Models, LoadSettles(m)
  PROVE  PoolInv'
<1> DEFINE C == AwaitingLoad(m)
<1>1. /\ loader[m] \in {"marking", "failing"}
      /\ loader' = [loader EXCEPT ![m] = "none"]
      /\ UNCHANGED <<current, spawned, child, ready>>
  BY DEF LoadSettles, LoadEnds
<1>2. \/ caller' = [d \in Callers |-> IF d \in C
                                      THEN [caller[d] EXCEPT !.at = "error"]
                                      ELSE caller[d]]
      \/ /\ current[m] # NoInstance
         /\ caller' = [d \in Callers |-> IF d \in C
                                         THEN [at |-> "running",
                                               inst |-> <<m, current[m]>>]
                                         ELSE caller[d]]
  BY DEF LoadSettles, RunOnCurrent, Run, Throw
<1> HIDE DEF C
<1>3. current[m] # NoInstance => /\ ready[<<m, current[m]>>] = "ok"
                                 /\ current[m] = spawned[m]
                                 /\ spawned[m] \in Nat
  BY <1>1, SetsAssumption DEF PoolInv, PoolTypes, MapHoldsReady, MapHoldsNewest
<1>4. PoolTypes'
  <2>1. caller' \in [Callers -> [at : CallerSteps, inst : Models \X Numbers]]
    BY <1>2, SMTT(20) DEF PoolInv, PoolTypes
  <2> QED BY <1>1, <2>1 DEF PoolInv, PoolTypes
<1>5. MapFacts' /\ ChildrenAccounted'
  BY <1>1 DEF PoolInv, PoolTypes, MapFacts, MapHoldsNewest, LockedOut,
              StartingIsPending, MapHoldsReady, ChildrenAccounted
<1>6. \A d \in Callers : \/ caller'[d] = caller[d]
                         \/ caller'[d].at = "error"
                         \/ /\ current[m] # NoInstance
                            /\ caller'[d].inst = <<m, current[m]>>
  BY <1>2 DEF PoolInv, PoolTypes
<1>7. HeldExists'
  <2> SUFFICES ASSUME NEW d \in Callers,
                      caller'[d].at \in {"running", "awaitReady"}
               PROVE  /\ caller'[d].inst[2] # NoInstance
                      /\ caller'[d].inst[2] <= spawned'[caller'[d].inst[1]]
    BY DEF HeldExists
  <2> QED BY <1>1, <1>3, <1>6 DEF PoolInv, HeldExists
<1>8. RunsOnlyWhenReady'
  BY <1>1, <1>3, <1>6 DEF PoolInv, RunsOnlyWhenReady
<1> QED BY <1>4, <1>5, <1>7, <1>8 DEF PoolInv, MapFacts

\* unloadModel returns.
LEMMA FinishUnloadStep ==
  ASSUME PoolInv, NEW i \in Instances, FinishUnload(i)
  PROVE  PoolInv'
<1>1. PoolTypes'
  BY DEF PoolInv, PoolTypes, MapHoldsNewest, FinishUnload
<1>2. MapFacts'
  BY DEF PoolInv, PoolTypes, MapFacts, MapHoldsNewest, LockedOut,
         StartingIsPending, MapHoldsReady, FinishUnload
<1>3. HeldExists'
  BY DEF PoolInv, PoolTypes, MapHoldsNewest, StartingIsPending, HeldExists,
         FinishUnload
<1>4. ChildrenAccounted'
  BY DEF PoolInv, PoolTypes, MapHoldsNewest, LockedOut, ChildrenAccounted,
         FinishUnload
<1>5. RunsOnlyWhenReady'
  BY DEF PoolInv, PoolTypes, HeldExists, MapHoldsReady, StartingIsPending,
         RunsOnlyWhenReady, FinishUnload
<1> QED BY <1>1, <1>2, <1>3, <1>4, <1>5 DEF PoolInv, MapFacts

\* A process exits by itself.
LEMMA ChildExitStep ==
  ASSUME PoolInv, NEW i \in Instances, ChildExit(i)
  PROVE  PoolInv'
<1>1. PoolTypes'
  BY DEF PoolInv, PoolTypes, MapHoldsNewest, ChildExit
<1>2. MapFacts'
  BY DEF PoolInv, PoolTypes, MapFacts, MapHoldsNewest, LockedOut,
         StartingIsPending, MapHoldsReady, ChildExit
<1>3. HeldExists'
  BY DEF PoolInv, PoolTypes, MapHoldsNewest, StartingIsPending, HeldExists,
         ChildExit
<1>4. ChildrenAccounted'
  BY DEF PoolInv, PoolTypes, MapHoldsNewest, LockedOut, ChildrenAccounted,
         ChildExit
<1>5. RunsOnlyWhenReady'
  BY DEF PoolInv, PoolTypes, HeldExists, MapHoldsReady, StartingIsPending,
         RunsOnlyWhenReady, ChildExit
<1> QED BY <1>1, <1>2, <1>3, <1>4, <1>5 DEF PoolInv, MapFacts

\* PoolInv is inductive.
LEMMA PoolInvStep == PoolInv /\ [Next]_vars => PoolInv'
<1> SUFFICES ASSUME PoolInv, [Next]_vars PROVE PoolInv'
  OBVIOUS
<1>1. ASSUME NEW c \in Callers, CallerStep(c) PROVE PoolInv'
  BY <1>1, LoadModelStep, CompleteStep DEF CallerStep
<1>2. ASSUME NEW c \in Callers, NEW m \in Models,
             EnsureResident(c, m) \/ EnsureAbsent(c, m)
      PROVE  PoolInv'
  BY <1>2, EnsureResidentStep, EnsureAbsentStep
<1>3. ASSUME NEW m \in Models, LoaderStep(m) PROVE PoolInv'
  <2>1. CASE ReadReservations(m)
    <3> PICK leases \in SUBSET Leased : EvictNext(m, lru, Candidates(leases))
      BY <2>1 DEF ReadReservations
    <3> QED BY <2>1, EvictStep DEF ReadReservations
  <2>2. CASE EvictionDone(m)
    BY <2>2, EvictStep DEF EvictionDone
  <2> QED BY <1>3, <2>1, <2>2, StatStep, SpawnStep, HealthAnswerStep,
             HealthOkStep, HealthFailStep, LoadSettlesStep DEF LoaderStep
<1>4. ASSUME NEW m \in Models, UnloadModel(m) PROVE PoolInv'
  BY <1>4, UnloadStep DEF UnloadModel, PoolInv, PoolTypes
<1>5. ASSUME NEW i \in Instances, FinishUnload(i) \/ ChildExit(i)
      PROVE  PoolInv'
  BY <1>5, FinishUnloadStep, ChildExitStep
<1>6. CASE UNCHANGED vars
  BY <1>6 DEF vars, PoolInv, PoolTypes, MapHoldsNewest, LockedOut,
              StartingIsPending, MapHoldsReady, HeldExists, ChildrenAccounted,
              RunsOnlyWhenReady
<1> QED BY <1>1, <1>2, <1>3, <1>4, <1>5, <1>6 DEF Next

\* The inductive invariant holds in every reachable state.
THEOREM PoolInvariant == Spec => []PoolInv
BY PoolInvInit, PoolInvStep, PTL DEF Spec

\* The pool never loses a process: whatever is loaded, evicted or unloaded
\* concurrently, a process nobody has signalled is the one in the map.
THEOREM NoProcessLost == Spec => []ChildrenAccounted
<1>1. PoolInv => ChildrenAccounted
  BY DEF PoolInv
<1> QED BY <1>1, PoolInvariant, PTL

\* No generation is ever sent to a server that has not passed its health check.
THEOREM NoRequestBeforeHealth == Spec => []RunsOnlyWhenReady
<1>1. PoolInv => RunsOnlyWhenReady
  BY DEF PoolInv
<1> QED BY <1>1, PoolInvariant, PTL

-----------------------------------------------------------------------------
(* The order of the models by their last use. *)

Orders == SetToSeqs(Models)

\* An order of last use is a function from places to models without repetition.
LEMMA OrderIsFunction ==
  ASSUME NEW f
  PROVE  f \in Orders <=>
           /\ f \in [1 .. Cardinality(Models) -> Models]
           /\ \A i, j \in 1 .. Cardinality(Models) : i # j => f[i] # f[j]
BY DEF Orders, SetToSeqs

\* There are finitely many models, and at least one.
LEMMA CountModels == Cardinality(Models) \in Nat /\ Cardinality(Models) > 0
<1>1. IsFiniteSet(Models) /\ Models # {}
  BY SetsAssumption
<1>2. Cardinality(Models) \in Nat /\ Cardinality(Models) # 0
  BY <1>1, FS_CardinalityType, FS_EmptySet
<1> QED BY <1>2

\* Every model has its place in the order.
LEMMA PlaceFound ==
  ASSUME NEW f \in Orders, NEW m \in Models
  PROVE  /\ DOMAIN f = 1 .. Cardinality(Models)
         /\ Place(f, m) \in 1 .. Cardinality(Models)
         /\ f[Place(f, m)] = m
<1> DEFINE n == Cardinality(Models)
           D == 1 .. n
           R == Models \ {m}
<1>1. f \in [D -> Models] /\ \A i, j \in D : i # j => f[i] # f[j]
  BY OrderIsFunction
<1>2. \E i \in D : f[i] = m
  <2> SUFFICES ASSUME \A i \in D : f[i] # m PROVE FALSE
    OBVIOUS
  <2>1. f \in [D -> R]
    BY <1>1
  <2>2. IsFiniteSet(D) /\ Cardinality(D) = n
    <3>1. n \in Nat
      BY CountModels
    <3> QED BY <3>1, FS_Interval
  <2>3. IsFiniteSet(R) /\ Cardinality(R) = n - 1
    BY SetsAssumption, FS_RemoveElement
  <2>4. Cardinality(R) < Cardinality(D)
    BY <2>2, <2>3, CountModels
  <2> HIDE DEF D, R
  <2>5. \E x, y \in D : x # y /\ f[x] = f[y]
    BY <2>1, <2>2, <2>3, <2>4, FS_PigeonHole
  <2> QED BY <1>1, <2>5
<1>3. DOMAIN f = D
  BY <1>1
<1> QED BY <1>2, <1>3 DEF Place

\* A model used now moves to the end, and nothing else changes places.
LEMMA MovedLast ==
  ASSUME lru \in Orders, NEW m \in Models
  PROVE  LoadedNow(m) \in Orders
<1> DEFINE n == Cardinality(Models)
           p == Place(lru, m)
           g == LoadedNow(m)
<1>1. n \in Nat /\ p \in 1 .. n /\ lru[p] = m /\ DOMAIN lru = 1 .. n
  BY CountModels, PlaceFound
<1>2. /\ lru \in [1 .. n -> Models]
      /\ \A i, j \in 1 .. n : i # j => lru[i] # lru[j]
  BY OrderIsFunction
<1>3. g = [i \in 1 .. n |-> IF i < p THEN lru[i]
                            ELSE IF i + 1 \in 1 .. n THEN lru[i + 1] ELSE m]
  BY <1>1 DEF LoadedNow
<1> HIDE DEF n, p, g
<1>4. ASSUME NEW i \in 1 .. n
      PROVE  /\ i < p => g[i] = lru[i]
             /\ i >= p /\ i < n => g[i] = lru[i + 1] /\ i + 1 \in 1 .. n
             /\ i = n /\ i >= p => g[i] = lru[p]
  BY <1>1, <1>3
<1>5. g \in [1 .. n -> Models]
  BY <1>1, <1>2, <1>3
<1>6. ASSUME NEW i \in 1 .. n, NEW j \in 1 .. n, i < j PROVE g[i] # g[j]
  <2>1. i \in Int /\ j \in Int /\ p \in Int /\ n \in Int /\ i < n /\ j <= n /\ 1 <= i
    BY <1>1, <1>6
  <2>2. CASE j < p
    BY <1>2, <1>4, <1>6, <2>1, <2>2
  <2>3. CASE i < p /\ j >= p /\ j < n
    <3>1. g[i] = lru[i] /\ g[j] = lru[j + 1] /\ j + 1 \in 1 .. n /\ i # j + 1
      BY <1>4, <1>6, <2>1, <2>3
    <3> QED BY <1>2, <3>1
  <2>4. CASE i < p /\ j >= p /\ j = n
    <3>1. g[i] = lru[i] /\ g[j] = lru[p] /\ i # p
      BY <1>4, <1>6, <2>1, <2>4
    <3> QED BY <1>1, <1>2, <3>1
  <2>5. CASE i >= p /\ j < n
    <3>1. g[i] = lru[i + 1] /\ g[j] = lru[j + 1] /\ i + 1 \in 1 .. n
          /\ j + 1 \in 1 .. n /\ i + 1 # j + 1
      BY <1>4, <1>6, <2>1, <2>5
    <3> QED BY <1>2, <3>1
  <2>6. CASE i >= p /\ j = n
    <3>1. g[i] = lru[i + 1] /\ g[j] = lru[p] /\ i + 1 \in 1 .. n /\ i + 1 # p
      BY <1>4, <1>6, <2>1, <2>6
    <3> QED BY <1>1, <1>2, <3>1
  <2> QED BY <1>6, <2>1, <2>2, <2>3, <2>4, <2>5, <2>6
<1>7. ASSUME NEW i \in 1 .. n, NEW j \in 1 .. n, i # j PROVE g[i] # g[j]
  BY <1>1, <1>6, <1>7
<1> QED BY <1>5, <1>7, OrderIsFunction DEF n, g

\* The first of some models in the order is one of them.
LEMMA OldestIsOne ==
  ASSUME NEW f \in Orders, NEW S \in SUBSET Models, S # {}
  PROVE  Oldest(f, S) \in S
<1> DEFINE N == {Place(f, x) : x \in S}
<1>1. N \subseteq Nat /\ N # {}
  BY PlaceFound, CountModels
<1> HIDE DEF N
<1>2. PICK k \in N : \A l \in N : k <= l
  BY <1>1, LeastNatural
<1>3. PICK x \in S : \A y \in S : Place(f, x) <= Place(f, y)
  BY <1>2 DEF N
<1> QED BY <1>3 DEF Oldest

\* The order the pool starts with is one.
LEMMA SomeOrder == SetToSeq(Models) \in Orders
<1> DEFINE D == 1 .. Cardinality(Models)
<1>1. ExistsBijection(D, Models)
  BY SetsAssumption, FS_CardinalityType
<1>3. PICK f \in [D -> Models] : IsInjective(f)
  BY <1>1, Zenon DEF ExistsBijection, Bijection, Injection
<1>4. SetToSeq(Models) \in [D -> Models] /\ IsInjective(SetToSeq(Models))
  BY <1>3, Zenon DEF SetToSeq
<1> QED BY <1>4, OrderIsFunction DEF IsInjective

-----------------------------------------------------------------------------
(* The counters of generations. *)

RunningOn(i) == {c \in Callers : caller[c].at = "running" /\ caller[c].inst = i}

\* The rest of the pool's types.
OtherTypes ==
  /\ active \in [Instances -> Nat]
  /\ lru \in Orders
  /\ evict \in [Models -> [order  : Orders,
                           left   : SUBSET Models,
                           victim : Models \X Numbers]]
  /\ unloading \subseteq Instances
  /\ registry \in [Models -> {"INACTIVE", "LOADED", "ERROR"}]
  /\ unloads \in 0 .. MaxUnloads

CountInv == PoolInv /\ OtherTypes /\ ActiveIsRunning

\* No more generations run on an instance than there are callers.
LEMMA RunningFinite ==
  ASSUME NEW i
  PROVE  /\ IsFiniteSet(RunningOn(i)) /\ Cardinality(RunningOn(i)) \in Nat
         /\ Cardinality(RunningOn(i)) <= Cardinality(Callers)
         /\ Cardinality(Callers) \in Nat
<1>1. IsFiniteSet(Callers) /\ RunningOn(i) \in SUBSET Callers
  BY SetsAssumption DEF RunningOn
<1> QED BY <1>1, FS_Subset, FS_CardinalityType

\* Callers that were not running start on one instance.
LEMMA RunCounts ==
  ASSUME CountInv, NEW C \in SUBSET Callers, NEW inst \in Instances, Run(C, inst),
         \A c \in C : caller[c].at # "running"
  PROVE  ActiveIsRunning' /\ active' \in [Instances -> Nat] /\ lru' \in Orders
<1>1. IsFiniteSet(C) /\ Cardinality(C) \in Nat
  BY SetsAssumption, FS_Subset, FS_CardinalityType
<1>2. /\ active \in [Instances -> Nat] /\ lru \in Orders
      /\ caller \in [Callers -> [at : CallerSteps, inst : Models \X Numbers]]
      /\ \A i \in Instances : active[i] = Cardinality(RunningOn(i))
  BY DEF CountInv, PoolInv, PoolTypes, OtherTypes, ActiveIsRunning, RunningOn
<1>3. active' = [active EXCEPT ![inst] = @ + Cardinality(C)]
  BY DEF Run
<1>4. active' \in [Instances -> Nat]
  BY <1>1, <1>2, <1>3
<1>5. \A c \in Callers : caller'[c] = IF c \in C THEN [at |-> "running", inst |-> inst]
                                      ELSE caller[c]
  BY DEF Run
<1>6. ASSUME NEW i \in Instances PROVE active'[i] = Cardinality(RunningOn(i)')
  <2>1. CASE i = inst
    <3>1. RunningOn(i)' = RunningOn(i) \cup C /\ RunningOn(i) \cap C = {}
      BY <1>5, <2>1 DEF RunningOn
    <3>2. Cardinality(RunningOn(i) \cup C) = Cardinality(RunningOn(i)) + Cardinality(C)
      <4>1. Cardinality(RunningOn(i) \cap C) = 0
        BY <3>1, FS_EmptySet
      <4>2. IsFiniteSet(RunningOn(i)) /\ Cardinality(RunningOn(i)) \in Nat
        BY RunningFinite
      <4>3. Cardinality(RunningOn(i) \cup C) = Cardinality(RunningOn(i))
              + Cardinality(C) - Cardinality(RunningOn(i) \cap C)
        BY <1>1, <4>2, FS_Union
      <4> QED BY <1>1, <4>1, <4>2, <4>3
    <3>3. active'[i] = active[i] + Cardinality(C)
      BY <1>2, <1>3, <2>1
    <3> QED BY <1>2, <3>1, <3>2, <3>3
  <2>2. CASE i # inst
    <3>1. RunningOn(i)' = RunningOn(i)
      BY <1>5, <2>2 DEF RunningOn
    <3> QED BY <1>2, <1>3, <2>2, <3>1
  <2> QED BY <2>1, <2>2
<1>7. ActiveIsRunning'
  BY <1>6 DEF ActiveIsRunning, RunningOn
<1>8. lru' \in Orders
  <2>1. lru' = lru \/ lru' = LoadedNow(inst[1])
    BY DEF Run, Touched
  <2> QED BY <1>2, <2>1, MovedLast
<1> QED BY <1>4, <1>7, <1>8

\* Nobody who was running, or is running now, has moved.
LEMMA SameCounts ==
  ASSUME CountInv, UNCHANGED active,
         \A c \in Callers : \/ caller'[c] = caller[c]
                            \/ caller[c].at # "running" /\ caller'[c].at # "running"
  PROVE  ActiveIsRunning'
<1>1. \A i : RunningOn(i)' = RunningOn(i)
  BY DEF RunningOn
<1>2. \A i \in Instances : active'[i] = Cardinality(RunningOn(i)')
  BY <1>1 DEF CountInv, ActiveIsRunning, RunningOn
<1> QED BY <1>2 DEF ActiveIsRunning, RunningOn

\* Callers that wait leave with an exception.
LEMMA ThrowCounts ==
  ASSUME CountInv, NEW C, Throw(C), \A c \in C : caller[c].at # "running"
  PROVE  /\ ActiveIsRunning' /\ UNCHANGED <<active, lru>>
<1>1. \A c \in Callers : \/ caller'[c] = caller[c]
                         \/ caller[c].at # "running" /\ caller'[c].at # "running"
  BY DEF Throw, CountInv, PoolInv, PoolTypes
<1>2. UNCHANGED <<active, lru>>
  BY DEF Throw
<1> QED BY <1>1, <1>2, SameCounts

\* The finally block of a generation takes exactly one off.
LEMMA CompleteCounts ==
  ASSUME CountInv, NEW c \in Callers, Complete(c)
  PROVE  ActiveIsRunning' /\ active' \in [Instances -> Nat] /\ lru' \in Orders
<1> DEFINE inst == caller[c].inst
<1>1. /\ active \in [Instances -> Nat] /\ lru \in Orders
      /\ caller \in [Callers -> [at : CallerSteps, inst : Models \X Numbers]]
      /\ \A i \in Instances : active[i] = Cardinality(RunningOn(i))
  BY DEF CountInv, PoolInv, PoolTypes, OtherTypes, ActiveIsRunning, RunningOn
<1>2. caller[c].at = "running"
  BY DEF Complete
<1>3. inst \in Instances
  <2>1. inst \in Models \X Numbers
    BY <1>1
  <2>2. inst[2] # NoInstance
    BY <1>2 DEF CountInv, PoolInv, HeldExists
  <2> QED BY <2>1, <2>2
<1>4. active' = [active EXCEPT ![inst] = IF @ > 0 THEN @ - 1 ELSE 0]
  BY DEF Complete
<1>5. \A d \in Callers : IF d = c THEN caller'[d].at # "running" ELSE caller'[d] = caller[d]
  BY <1>1 DEF Complete
<1>6. lru' = lru \/ lru' = LoadedNow(inst[1])
  BY DEF Complete, Touched
<1>7. c \in RunningOn(inst)
  BY <1>2 DEF RunningOn
<1> HIDE DEF inst
<1>8. lru' \in Orders
  BY <1>1, <1>3, <1>6, MovedLast
<1>9. active' \in [Instances -> Nat]
  BY <1>1, <1>3, <1>4
<1>10. \A i \in Instances : RunningOn(i)' = IF i = inst THEN RunningOn(i) \ {c}
                                           ELSE RunningOn(i)
  <2>1. ASSUME NEW i \in Instances PROVE RunningOn(i)' = RunningOn(i) \ {c}
    BY <1>5 DEF RunningOn
  <2>2. ASSUME NEW i \in Instances, i # inst PROVE c \notin RunningOn(i)
    BY <2>2 DEF RunningOn, inst
  <2> QED BY <2>1, <2>2
<1>11. /\ Cardinality(RunningOn(inst) \ {c}) = Cardinality(RunningOn(inst)) - 1
       /\ Cardinality(RunningOn(inst)) \in Nat /\ Cardinality(RunningOn(inst)) > 0
  <2>1. IsFiniteSet(RunningOn(inst)) /\ Cardinality(RunningOn(inst)) \in Nat
    BY RunningFinite
  <2>2. Cardinality(RunningOn(inst) \ {c}) = Cardinality(RunningOn(inst)) - 1
    BY <1>7, <2>1, FS_RemoveElement
  <2>3. Cardinality(RunningOn(inst)) # 0
    BY <1>7, <2>1, FS_EmptySet
  <2> QED BY <2>1, <2>2, <2>3
<1>12. \A i \in Instances : active'[i] = Cardinality(RunningOn(i)')
  <2> SUFFICES ASSUME NEW i \in Instances PROVE active'[i] = Cardinality(RunningOn(i)')
    OBVIOUS
  <2>1. CASE i = inst
    <3>1. active'[i] = active[i] - 1
      BY <1>1, <1>3, <1>4, <1>11, <2>1
    <3> QED BY <1>1, <1>10, <1>11, <2>1, <3>1
  <2>2. CASE i # inst
    BY <1>1, <1>3, <1>4, <1>10, <2>2
  <2> QED BY <2>1, <2>2
<1> QED BY <1>8, <1>9, <1>12 DEF ActiveIsRunning, RunningOn

\* unloadModel keeps the types of what it writes.
LEMMA UnloadTypes ==
  ASSUME CountInv, NEW x \in Models, UnloadStart(x)
  PROVE  /\ unloading' \subseteq Instances
         /\ registry' \in [Models -> {"INACTIVE", "LOADED", "ERROR"}]
<1>1. /\ current[x] \in Numbers /\ unloading \subseteq Instances
      /\ registry \in [Models -> {"INACTIVE", "LOADED", "ERROR"}]
  BY DEF CountInv, PoolInv, PoolTypes, OtherTypes
<1>2. CASE x \in Resident
  BY <1>1, <1>2 DEF UnloadStart
<1>3. CASE x \notin Resident
  BY <1>1, <1>3 DEF UnloadStart, SetRegistryStatus
<1> QED BY <1>2, <1>3

NewEviction == [order : Orders, left : SUBSET Models, victim : Models \X Numbers]

\* No eviction is an eviction state.
LEMMA NoEvictionType == NoEviction \in NewEviction
<1>1. NoVictim \in Models \X Numbers
  BY SetsAssumption DEF NoVictim
<1> QED BY <1>1, SomeOrder DEF NoEviction, NewEviction

\* A load that fails counts and discounts no generation.
LEMMA AbortCounts ==
  ASSUME CountInv, NEW m \in Models, AbortLoad(m), UNCHANGED unloads
  PROVE  OtherTypes' /\ ActiveIsRunning'
<1>1. ActiveIsRunning' /\ UNCHANGED <<active, lru>>
  BY ThrowCounts DEF AbortLoad, AwaitingLoad
<1>2. evict' = [evict EXCEPT ![m] = NoEviction] /\ UNCHANGED <<unloading, registry>>
  BY DEF AbortLoad, LoadEnds
<1>3. evict' \in [Models -> NewEviction]
  BY <1>2, NoEvictionType DEF CountInv, OtherTypes, NewEviction
<1>4. OtherTypes'
  BY <1>1, <1>2, <1>3 DEF CountInv, OtherTypes, NewEviction
<1> QED BY <1>1, <1>4

\* A step of the eviction counts and discounts no generation.
LEMMA EvictCounts ==
  ASSUME CountInv, NEW m \in Models, NEW order \in Orders, NEW left \in SUBSET Models,
         EvictNext(m, order, left), UNCHANGED unloads
  PROVE  OtherTypes' /\ ActiveIsRunning'
<1> DEFINE x == Oldest(order, left)
<1>0. OtherTypes /\ current \in [Models -> Numbers]
  BY DEF CountInv, PoolInv, PoolTypes
<1>1. CASE AbortLoad(m)
  BY <1>1, AbortCounts
<1>2. CASE /\ left # {} /\ UnloadStart(x)
           /\ evict' = [evict EXCEPT ![m] = [order |-> order, left |-> left \ {x},
                                            victim |-> Current(x)]]
           /\ UNCHANGED <<active, lru, caller>>
  <2>1. x \in left
    BY <1>2, OldestIsOne
  <2> HIDE DEF x
  <2>2. x \in Models
    BY <2>1
  <2>3. [order |-> order, left |-> left \ {x}, victim |-> Current(x)] \in NewEviction
    BY <1>0, <2>2 DEF NewEviction
  <2>4. evict' \in [Models -> NewEviction]
    BY <1>0, <1>2, <2>3 DEF OtherTypes, NewEviction
  <2>5. /\ unloading' \subseteq Instances
        /\ registry' \in [Models -> {"INACTIVE", "LOADED", "ERROR"}]
    BY <1>2, <2>2, UnloadTypes
  <2>6. OtherTypes'
    BY <1>0, <1>2, <2>4, <2>5 DEF OtherTypes, NewEviction
  <2>7. ActiveIsRunning'
    BY <1>2, SameCounts
  <2> QED BY <2>6, <2>7
<1>3. CASE UNCHANGED <<evict, unloading, registry, active, lru, caller>>
  BY <1>0, <1>3, SameCounts DEF OtherTypes
<1> QED BY <1>1, <1>2, <1>3 DEF EvictNext, LoaderAt

\* A caller raises activeRequests as it starts and lowers it as it ends.
LEMMA CallerCounts ==
  ASSUME CountInv, NEW c \in Callers,
         CallerStep(c) \/ \E m \in Models : EnsureResident(c, m) \/ EnsureAbsent(c, m)
  PROVE  OtherTypes' /\ ActiveIsRunning'
<1>0. /\ OtherTypes /\ current \in [Models -> Numbers]
      /\ caller \in [Callers -> [at : CallerSteps, inst : Models \X Numbers]]
  BY DEF CountInv, PoolInv, PoolTypes
<1>1. CASE Complete(c)
  <2>1. UNCHANGED <<evict, unloading, registry, unloads>>
    BY <1>1 DEF Complete
  <2> QED BY <1>0, <1>1, <2>1, CompleteCounts DEF OtherTypes
<1>2. ASSUME NEW m \in Models, m \in Resident, Run({c}, Current(m)),
             caller[c].at # "running", UNCHANGED <<evict, unloading, registry, unloads>>
      PROVE  OtherTypes' /\ ActiveIsRunning'
  <2>1. Current(m) \in Instances /\ {c} \in SUBSET Callers
    BY <1>0, <1>2
  <2>2. ActiveIsRunning' /\ active' \in [Instances -> Nat] /\ lru' \in Orders
    BY <1>2, <2>1, RunCounts
  <2> QED BY <1>0, <1>2, <2>2 DEF OtherTypes
<1>3. ASSUME caller[c].at # "running", caller'[c].at # "running",
             \A d \in Callers \ {c} : caller'[d] = caller[d],
             UNCHANGED <<active, lru, evict, unloading, registry, unloads>>
      PROVE  OtherTypes' /\ ActiveIsRunning'
  <2>1. ActiveIsRunning'
    BY <1>3, SameCounts
  <2> QED BY <1>0, <1>3, <2>1 DEF OtherTypes
<1>4. CASE LoadModel(c)
  <2> DEFINE m == caller[c].inst[1]
  <2>1. m \in Models /\ caller[c].at = "lookup" /\ UNCHANGED <<unloading, registry, unloads>>
    BY <1>0, <1>4 DEF LoadModel
  <2>2. \/ m \in Resident /\ Run({c}, Current(m)) /\ UNCHANGED evict
        \/ JoinLoad(c) /\ UNCHANGED <<active, lru, evict>>
    BY <1>4 DEF LoadModel, LoaderAt
  <2>3. JoinLoad(c) => /\ caller'[c].at # "running"
                       /\ \A d \in Callers \ {c} : caller'[d] = caller[d]
    BY <1>0 DEF JoinLoad
  <2> HIDE DEF m
  <2> QED BY <1>2, <1>3, <2>1, <2>2, <2>3
<1>5. ASSUME NEW m \in Models, EnsureResident(c, m) PROVE OtherTypes' /\ ActiveIsRunning'
  <2>1. /\ caller[c].at # "running" /\ m \in Resident
        /\ UNCHANGED <<evict, unloading, registry, unloads>>
        /\ \/ Run({c}, Current(m))
           \/ /\ caller' = [caller EXCEPT ![c] = [at |-> "awaitReady", inst |-> Current(m)]]
              /\ UNCHANGED <<active, lru>>
    BY <1>5 DEF EnsureResident
  <2>2. CASE Run({c}, Current(m))
    BY <1>2, <2>1, <2>2
  <2>3. CASE /\ caller' = [caller EXCEPT ![c] = [at |-> "awaitReady", inst |-> Current(m)]]
             /\ UNCHANGED <<active, lru>>
    <3>1. caller'[c].at # "running" /\ \A d \in Callers \ {c} : caller'[d] = caller[d]
      BY <1>0, <2>3
    <3> QED BY <1>3, <2>1, <2>3, <3>1
  <2> QED BY <2>1, <2>2, <2>3
<1>6. ASSUME NEW m \in Models, EnsureAbsent(c, m) PROVE OtherTypes' /\ ActiveIsRunning'
  <2>1. caller'[c].at # "running" /\ \A d \in Callers \ {c} : caller'[d] = caller[d]
    BY <1>0, <1>6 DEF EnsureAbsent
  <2> QED BY <1>3, <1>6, <2>1 DEF EnsureAbsent
<1> QED BY <1>1, <1>4, <1>5, <1>6 DEF CallerStep

\* A load starts an instance without generations and moves no count of another.
LEMMA LoaderCounts ==
  ASSUME CountInv, NEW m \in Models, LoaderStep(m)
  PROVE  OtherTypes' /\ ActiveIsRunning'
<1>0. /\ OtherTypes /\ current \in [Models -> Numbers]
      /\ caller \in [Callers -> [at : CallerSteps, inst : Models \X Numbers]]
  BY DEF CountInv, PoolInv, PoolTypes
<1>1. ASSUME UNCHANGED <<active, caller, unloading, registry, unloads, evict>>, lru' \in Orders
      PROVE  OtherTypes' /\ ActiveIsRunning'
  BY <1>0, <1>1, SameCounts DEF OtherTypes
<1>2. CASE Stat(m)
  BY <1>0, <1>1, <1>2, AbortCounts DEF Stat, LoaderAt, OtherTypes
<1>3. CASE ReadReservations(m)
  <2>1. PICK leases \in SUBSET Leased : EvictNext(m, lru, Candidates(leases))
    BY <1>3 DEF ReadReservations
  <2>2. lru \in Orders /\ Candidates(leases) \in SUBSET Models /\ UNCHANGED unloads
    BY <1>0, <1>3 DEF OtherTypes, Candidates, ReadReservations
  <2> QED BY <2>1, <2>2, EvictCounts
<1>4. CASE EvictionDone(m)
  <2>1. evict[m].order \in Orders /\ evict[m].left \in SUBSET Models
    BY <1>0 DEF OtherTypes
  <2> QED BY <1>4, <2>1, EvictCounts DEF EvictionDone
<1>5. CASE Spawn(m)
  <2>1. CASE AbortLoad(m)
    BY <1>5, <2>1, AbortCounts DEF Spawn
  <2>2. CASE ~AbortLoad(m)
    <3>1. /\ UNCHANGED <<active, caller, unloading, registry, unloads, evict>>
          /\ lru' = LoadedNow(m)
      BY <1>5, <2>2 DEF Spawn, LoaderAt
    <3>2. lru' \in Orders
      BY <1>0, <3>1, MovedLast DEF OtherTypes
    <3> QED BY <1>1, <3>1, <3>2
  <2> QED BY <2>1, <2>2
<1>6. CASE HealthAnswer(m)
  BY <1>0, <1>1, <1>6 DEF HealthAnswer, LoaderAt, OtherTypes
<1>7. CASE HealthOk(m)
  <2>1. Newest(m) \in Instances
    BY <1>7 DEF HealthOk, CountInv, PoolInv, PoolTypes, StartingIsPending
  <2>2. /\ AwaitingReady(Newest(m)) \in SUBSET Callers
        /\ \A c \in AwaitingReady(Newest(m)) : caller[c].at # "running"
    BY DEF AwaitingReady
  <2>3. /\ Run(AwaitingReady(Newest(m)), Newest(m)) /\ UNCHANGED <<evict, unloading, unloads>>
        /\ registry' = [registry EXCEPT ![m] = "LOADED"]
    BY <1>7 DEF HealthOk, LoaderAt, SetRegistryStatus
  <2>4. ActiveIsRunning' /\ active' \in [Instances -> Nat] /\ lru' \in Orders
    BY <2>1, <2>2, <2>3, RunCounts
  <2> QED BY <1>0, <2>3, <2>4 DEF OtherTypes
<1>8. CASE HealthFail(m)
  <2>1. /\ Throw(AwaitingReady(Newest(m))) /\ UNCHANGED <<evict, unloading, unloads>>
        /\ registry' = [registry EXCEPT ![m] = "ERROR"]
    BY <1>8 DEF HealthFail, LoaderAt, SetRegistryStatus
  <2>2. ActiveIsRunning' /\ UNCHANGED <<active, lru>>
    BY <2>1, ThrowCounts DEF AwaitingReady
  <2> QED BY <1>0, <2>1, <2>2 DEF OtherTypes
<1>9. CASE LoadSettles(m)
  <2>1. /\ UNCHANGED <<unloading, registry, unloads>>
        /\ evict' = [evict EXCEPT ![m] = NoEviction]
        /\ \/ m \in Resident /\ Run(AwaitingLoad(m), Current(m))
           \/ Throw(AwaitingLoad(m))
    BY <1>9 DEF LoadSettles, LoadEnds, RunOnCurrent
  <2>2. /\ AwaitingLoad(m) \in SUBSET Callers
        /\ \A c \in AwaitingLoad(m) : caller[c].at # "running"
    BY DEF AwaitingLoad
  <2>3. evict' \in [Models -> NewEviction]
    BY <1>0, <2>1, NoEvictionType DEF OtherTypes, NewEviction
  <2>4. ActiveIsRunning' /\ active' \in [Instances -> Nat] /\ lru' \in Orders
    <3>1. CASE m \in Resident /\ Run(AwaitingLoad(m), Current(m))
      <4>1. Current(m) \in Instances
        BY <1>0, <3>1
      <4> QED BY <2>2, <3>1, <4>1, RunCounts
    <3>2. CASE Throw(AwaitingLoad(m))
      BY <1>0, <2>2, <3>2, ThrowCounts DEF OtherTypes
    <3> QED BY <2>1, <3>1, <3>2
  <2> QED BY <1>0, <2>1, <2>3, <2>4 DEF OtherTypes, NewEviction
<1> QED BY <1>2, <1>3, <1>4, <1>5, <1>6, <1>7, <1>8, <1>9 DEF LoaderStep

\* The counts stay exact in every step.
LEMMA CountInvStep == CountInv /\ [Next]_vars => CountInv'
<1> SUFFICES ASSUME CountInv, [Next]_vars PROVE OtherTypes' /\ ActiveIsRunning'
  BY PoolInvStep DEF CountInv
<1>0. OtherTypes /\ MaxUnloads \in Nat
  BY SetsAssumption DEF CountInv
<1>1. ASSUME NEW m \in Models, UnloadModel(m) PROVE OtherTypes' /\ ActiveIsRunning'
  <2>1. /\ unloading' \subseteq Instances
        /\ registry' \in [Models -> {"INACTIVE", "LOADED", "ERROR"}]
    BY <1>1, UnloadTypes DEF UnloadModel
  <2>2. unloads' \in 0 .. MaxUnloads
    BY <1>0, <1>1 DEF UnloadModel, OtherTypes
  <2>3. ActiveIsRunning'
    BY <1>1, SameCounts DEF UnloadModel
  <2> QED BY <1>0, <1>1, <2>1, <2>2, <2>3 DEF UnloadModel, OtherTypes
<1>2. ASSUME NEW i \in Instances, FinishUnload(i) \/ ChildExit(i)
      PROVE  OtherTypes' /\ ActiveIsRunning'
  <2>1. ActiveIsRunning'
    BY <1>2, SameCounts DEF FinishUnload, ChildExit
  <2> QED BY <1>0, <1>2, <2>1 DEF OtherTypes, FinishUnload, ChildExit, SetRegistryStatus
<1>3. CASE UNCHANGED vars
  BY <1>0, <1>3, SameCounts DEF vars, OtherTypes
<1> QED BY <1>1, <1>2, <1>3, CallerCounts, LoaderCounts DEF Next

\* The pool's bookkeeping is exact: activeRequests of an instance is the number
\* of generations running on it, after every load, eviction, failure, time-out
\* and exit, so that an idle model is never taken for a busy one or a busy one
\* for idle at the moment the candidates for eviction are chosen.
THEOREM PoolCountsExact == Spec => []CountsAreExact
<1>1. Init => CountInv
  <2> SUFFICES ASSUME Init PROVE CountInv
    OBVIOUS
  <2>1. PoolInv
    BY PoolInvInit
  <2>2. OtherTypes
    BY SomeOrder, NoEvictionType, SetsAssumption DEF Init, OtherTypes, NewEviction
  <2>3. ASSUME NEW i \in Instances PROVE active[i] = Cardinality(RunningOn(i))
    <3>1. RunningOn(i) = {}
      BY DEF Init, RunningOn
    <3> QED BY <3>1, FS_EmptySet DEF Init
  <2> QED BY <2>1, <2>2, <2>3 DEF CountInv, ActiveIsRunning, RunningOn
<1>2. CountInv => CountsAreExact
  <2> SUFFICES ASSUME CountInv PROVE TypeOK
    BY DEF CountInv, CountsAreExact
  <2>1. PoolTypes /\ OtherTypes
    BY DEF CountInv, PoolInv
  <2>2. active \in [Instances -> 0 .. Cardinality(Callers)]
    <3>1. \A i \in Instances : active[i] = Cardinality(RunningOn(i))
      BY DEF CountInv, ActiveIsRunning, RunningOn
    <3>2. \A i \in Instances : active[i] \in 0 .. Cardinality(Callers)
      BY <3>1, RunningFinite
    <3> QED BY <2>1, <3>2 DEF OtherTypes
  <2> QED BY <2>1, <2>2 DEF TypeOK, PoolTypes, OtherTypes, Orders
<1> QED BY <1>1, <1>2, CountInvStep, PTL DEF Spec

-----------------------------------------------------------------------------
(* The downloads that fill the pool's registry.                             *)

\* The jobs that hold a slot.
Holders(ctl) == {j \in Jobs : ctl[j] # 0}
InQueue(q, j) == \E i \in DOMAIN q : q[i] = j

(* The invariant speaks of a queue, a map of controllers and a set of runners *)
(* as they are between the steps of a pass of pumpDownloadQueue too: what has *)
(* to hold when the pass starts is the same without NoIdleSlot.               *)

\* Ids were given out by startDownload.
Known(q, ls, us, run, sv) ==
  /\ ls \subseteq us /\ DOMAIN sv \subseteq us
  /\ \A j \in Jobs : InQueue(q, j) \/ RunnersOf(run, j) # {} => j \in us

\* The controllers name runners and are not too many.
PumpFrom(q, ctl, run) ==
  /\ q \in Seq(Jobs) /\ ctl \in [Jobs -> Nat]
  /\ IsFiniteSet(DOMAIN run) /\ DOMAIN run \subseteq Jobs \X (Nat \ {0})
  /\ Cardinality(Holders(ctl)) <= MaxConcurrent
  /\ \A j \in Jobs : ctl[j] # 0 => <<j, ctl[j]>> \in DOMAIN run

\* A runner waits for another attempt only while there is one.
RunnerRecord == [at : RunnerSteps, attempt : 1 .. MaxAttempts, aborted : BOOLEAN, checks : BOOLEAN]
RunnersOK(run) ==
  \A r \in DOMAIN run : /\ run[r] \in RunnerRecord
                        /\ run[r].at = "backoff" => run[r].attempt < MaxAttempts

\* A runner that registers has left its job: another one is needed, or a place in
\* the queue, if the job is active again.
Attended(q, ls, st, run) ==
  \A j \in ls : st[j] \in Active =>
    \/ \E r \in RunnersOf(run, j) : run[r].at # "register"
    \/ st[j] = "queued" /\ InQueue(q, j)

\* Without retries a job is in the queue once or has one runner, which holds its slot.
Single(q, ctl, run) ==
  /\ \A a, b \in DOMAIN q : q[a] = q[b] => a = b
  /\ \A r \in DOMAIN run : ctl[r[1]] = r[2]
  /\ \A j \in Jobs : InQueue(q, j) => RunnersOf(run, j) = {}

\* Jobs that are to fetch their shard: waiting, or with a runner that is not aborted.
Claims(q, run, j) ==
  InQueue(q, j) \/ \E r \in RunnersOf(run, j) : ~run[r].aborted

\* What the place of runner r says of the files. Between its look at them and the
\* last byte it has the shard to itself, but for aborted runners that leave it alone;
\* the hash is compared with a whole file, or one that another runner has renamed.
FilesOf(r, run, pt, fn) ==
  LET f == Shard(r)
      moved == pt[f] = "none" /\ fn[f] = "good"
  IN  /\ run[r].at \in {"response", "body"} => run[r].checks
      /\ run[r].at \in {"response", "body"} /\ ~run[r].aborted =>
           /\ fn[f] = "none" /\ pt[f] \notin Full
           /\ run[r].at = "body" => pt[f] = "partial"
      /\ run[r].at = "hash" => pt[f] \in Full \/ moved
      /\ run[r].at = "rename" => pt[f] = "good" \/ moved
      /\ run[r].at = "register" => fn[f] = "good"

\* Every final file is good; of the jobs that are to fetch a shard that is not there
\* yet there is one, active and listed.
Filed(q, ls, st, run, hk, pt, fn) ==
  /\ \A f \in Shards : fn[f] \in {"none", "good"}
  /\ \A j \in Jobs : InQueue(q, j) \/ RunnersOf(run, j) # {} => j \in hk
  /\ \A r \in DOMAIN run : FilesOf(r, run, pt, fn)
  /\ \A j \in Jobs : Claims(q, run, j) /\ fn[FileOf[j]] # "good" =>
       /\ j \in ls /\ st[j] \in Active
       /\ \A i \in Jobs \ {j} : Claims(q, run, i) => FileOf[i] # FileOf[j]

Mid(q, ls, us, st, ctl, run, hk, pt, fn, sv, rt, rs) ==
  /\ PumpFrom(q, ctl, run) /\ RunnersOK(run)
  /\ Known(q, ls, us, run, sv)
  /\ Attended(q, ls, st, run)
  /\ rt = 0 => Single(q, ctl, run)
  /\ rt = 0 /\ rs = 0 => Filed(q, ls, st, run, hk, pt, fn)

PlainTypes ==
  /\ listed \subseteq Jobs /\ used \subseteq Jobs /\ status \in [Jobs -> Statuses]
  /\ hashKnown \subseteq Jobs
  /\ part \in [Shards -> Contents] /\ final \in [Shards -> Contents]
  /\ registered \in BOOLEAN
  /\ DOMAIN saved \subseteq Jobs /\ \A j \in DOMAIN saved : saved[j] \in Statuses
  /\ retries \in 0 .. MaxDisturbances /\ restarts \in 0 .. MaxDisturbances

HubInv ==
  /\ PlainTypes /\ NoIdleSlot
  /\ Mid(queue, listed, used, status, controller, runner, hashKnown, part, final, saved,
         retries, restarts)

-----------------------------------------------------------------------------
(* Starting runners.                                                        *)

\* There is a number for a new runner.
LEMMA NextNumberIsNew ==
  ASSUME NEW run, IsFiniteSet(DOMAIN run), NEW j
  PROVE  /\ NextNumber(run, j) \in Nat \ {0}
         /\ <<j, NextNumber(run, j)>> \notin DOMAIN run
<1> DEFINE own == RunnersOf(run, j)
           n == Cardinality(own)
           New(k) == <<j, k>> \notin DOMAIN run
<1>1. IsFiniteSet(own) /\ n \in Nat
  <2>1. own \in SUBSET DOMAIN run
    BY DEF RunnersOf
  <2> QED
    BY <2>1, FS_Subset, FS_CardinalityType
<1>2. \E k \in 1 .. n + 1 : New(k)
  <2> SUFFICES ASSUME \A k \in 1 .. n + 1 : <<j, k>> \in DOMAIN run PROVE FALSE
    OBVIOUS
  <2> DEFINE f == [k \in 1 .. n + 1 |-> <<j, k>>]
  <2>1. \A k \in 1 .. n + 1 : <<j, k>> \in own
    BY DEF RunnersOf
  <2>2. f \in [1 .. n + 1 -> own]
    BY <2>1
  <2>3. \A a, b \in 1 .. n + 1 : f[a] = f[b] => a = b
    OBVIOUS
  <2> HIDE DEF f, own, n
  <2>4. f \in Injection(1 .. n + 1, own)
    BY <2>2, <2>3 DEF Injection, IsInjective
  <2>5. Cardinality(1 .. n + 1) <= Cardinality(own)
    BY <1>1, <2>4, FS_Injection
  <2>6. Cardinality(1 .. n + 1) = n + 1
    BY <1>1, FS_Interval
  <2> QED
    BY <1>1, <2>5, <2>6 DEF n
<1>3. NextNumber(run, j) = CHOOSE k \in 1 .. n + 1 : New(k)
  BY DEF NextNumber
<1>4. NextNumber(run, j) \in 1 .. n + 1 /\ New(NextNumber(run, j))
  BY <1>2, <1>3
<1> QED
  BY <1>1, <1>4

\* A slot taken.
LEMMA HoldersOf ==
  ASSUME NEW ctl \in [Jobs -> Nat], NEW j \in Jobs, NEW k \in Nat
  PROVE  LET c == [ctl EXCEPT ![j] = k]
         IN  /\ IsFiniteSet(Holders(ctl)) /\ Cardinality(Holders(ctl)) \in Nat
             /\ k # 0 => Cardinality(Holders(c)) <= Cardinality(Holders(ctl)) + 1
             /\ Cardinality(Holders(ctl)) <= Cardinality(Holders(c)) \/ k = 0
             /\ k = 0 => Cardinality(Holders(c)) <= Cardinality(Holders(ctl))
<1> DEFINE c == [ctl EXCEPT ![j] = k]
           S == Holders(ctl)
           T == Holders(c)
<1>1. S \in SUBSET Jobs /\ T \in SUBSET Jobs /\ IsFiniteSet(Jobs)
  BY JobsAssumption DEF Holders
<1>2. /\ IsFiniteSet(S) /\ IsFiniteSet(T) /\ Cardinality(S) \in Nat /\ Cardinality(T) \in Nat
  BY <1>1, FS_Subset, FS_CardinalityType
<1>3. k # 0 => T = S \cup {j}
  BY DEF Holders
<1>4. k = 0 => T \in SUBSET S
  BY DEF Holders
<1> HIDE DEF S, T
<1>5. Cardinality(S \cup {j}) = IF j \in S THEN Cardinality(S) ELSE Cardinality(S) + 1
  BY <1>2, FS_AddElement
<1>6. k = 0 => Cardinality(T) <= Cardinality(S)
  BY <1>2, <1>4, FS_Subset
<1>7. k # 0 => Cardinality(T) <= Cardinality(S) + 1 /\ Cardinality(S) <= Cardinality(T)
  BY <1>2, <1>3, <1>5
<1> QED
  BY <1>2, <1>6, <1>7, Zenon DEF S, T

\* What has happened after n ids.
Among(q, n, j) == \E i \in 1 .. n : q[i] = j
PumpSlots(acc) ==
  /\ PumpFrom(acc.rest, acc.controller, acc.runner)
  /\ acc.rest # <<>> => Cardinality(Holders(acc.controller)) = MaxConcurrent
PumpStarts(acc, q, n, ls, st, run) ==
  /\ DOMAIN run \subseteq DOMAIN acc.runner
  /\ \A r \in DOMAIN run : acc.runner[r] = run[r]
  /\ \A r \in DOMAIN acc.runner \ DOMAIN run :
       acc.runner[r] = NewRunner /\ r[1] \in ls /\ st[r[1]] = "queued" /\ Among(q, n, r[1])
PumpKeeps(acc, q, n, ls, st, run) ==
  /\ \A j \in Jobs : InQueue(acc.rest, j) => Among(q, n, j)
  /\ \A j \in Jobs : Among(q, n, j) /\ j \in ls /\ st[j] = "queued" =>
       InQueue(acc.rest, j) \/ \E r \in DOMAIN acc.runner \ DOMAIN run : r[1] = j
PumpSingle(acc, q, n) ==
  /\ Single(acc.rest, acc.controller, acc.runner)
  /\ \A i \in n + 1 .. Len(q) : RunnersOf(acc.runner, q[i]) = {}

PumpInv(acc, q, n, ls, st, ctl, run) ==
  /\ PumpSlots(acc)
  /\ PumpStarts(acc, q, n, ls, st, run)
  /\ PumpKeeps(acc, q, n, ls, st, run)
  /\ Single(q, ctl, run) => PumpSingle(acc, q, n)

\* An id added at the end of a queue.
LEMMA Appended ==
  ASSUME NEW q \in Seq(Jobs), NEW j \in Jobs
  PROVE  /\ Append(q, j) \in Seq(Jobs) /\ Append(q, j) # <<>>
         /\ DOMAIN q = 1 .. Len(q) /\ Len(q) \in Nat
         /\ DOMAIN Append(q, j) = 1 .. Len(q) + 1
         /\ \A i \in 1 .. Len(q) : Append(q, j)[i] = q[i]
         /\ Append(q, j)[Len(q) + 1] = j
         /\ \A i \in Jobs : InQueue(Append(q, j), i) <=> InQueue(q, i) \/ i = j
<1> DEFINE p == Append(q, j)
           n == Len(q)
<1>1. /\ p \in Seq(Jobs) /\ p # <<>> /\ n \in Nat /\ DOMAIN q = 1 .. n /\ Len(p) = n + 1
      /\ \A i \in 1 .. n : p[i] = q[i]
      /\ p[n + 1] = j
  BY AppendProperties, LenProperties
<1>2. DOMAIN p = 1 .. n + 1
  BY <1>1, LenProperties
<1> HIDE DEF p, n
<1>3. \A i \in 1 .. n + 1 : i \in 1 .. n \/ i = n + 1
  BY <1>1
<1>4. \A i \in 1 .. n : i \in 1 .. n + 1
  BY <1>1
<1>5. n + 1 \in 1 .. n + 1
  BY <1>1
<1>6. \A i \in Jobs : InQueue(p, i) <=> InQueue(q, i) \/ i = j
  BY <1>1, <1>2, <1>3, <1>4, <1>5 DEF InQueue
<1> QED
  BY <1>1, <1>2, <1>6 DEF p, n

\* One more id: there is no slot and the id stays, or it is skipped, or its job starts.
LEMMA PumpKeptStep ==
  ASSUME NEW q \in Seq(Jobs), NEW n \in 0 .. Len(q) - 1, NEW ls, NEW st, NEW ctl, NEW run,
         NEW acc, PumpInv(acc, q, n, ls, st, ctl, run),
         Cardinality(Holders(acc.controller)) >= MaxConcurrent,
         NEW nxt, nxt = [rest |-> Append(acc.rest, q[n + 1]), controller |-> acc.controller,
                         runner |-> acc.runner]
  PROVE  PumpInv(nxt, q, n + 1, ls, st, ctl, run)
<1> DEFINE j == q[n + 1]
           p == acc.rest
<1>1. n \in Nat /\ n + 1 \in 1 .. Len(q) /\ Len(q) \in Nat /\ DOMAIN q = 1 .. Len(q)
  BY LenProperties
<1>2. j \in Jobs
  BY <1>1, ElementOfSeq
<1>3. /\ nxt.rest = Append(p, j) /\ nxt.controller = acc.controller /\ nxt.runner = acc.runner
  OBVIOUS
<1>4. p \in Seq(Jobs) /\ PumpFrom(p, acc.controller, acc.runner)
  BY DEF PumpInv, PumpSlots, PumpFrom
<1>5. /\ Append(p, j) \in Seq(Jobs)
      /\ DOMAIN p = 1 .. Len(p) /\ Len(p) \in Nat /\ DOMAIN Append(p, j) = 1 .. Len(p) + 1
      /\ \A i \in 1 .. Len(p) : Append(p, j)[i] = p[i]
      /\ Append(p, j)[Len(p) + 1] = j
      /\ \A i \in Jobs : InQueue(Append(p, j), i) <=> InQueue(p, i) \/ i = j
  BY <1>2, <1>4, Appended
<1>6. \A i \in Jobs : Among(q, n + 1, i) <=> Among(q, n, i) \/ i = j
  <2>1. \A a \in 1 .. n + 1 : a \in 1 .. n \/ a = n + 1
    BY <1>1
  <2>2. \A a \in 1 .. n : a \in 1 .. n + 1
    BY <1>1
  <2>3. n + 1 \in 1 .. n + 1
    BY <1>1
  <2> QED
    BY <2>1, <2>2, <2>3 DEF Among
<1>7. PumpSlots(nxt)
  <2>1. Cardinality(Holders(acc.controller)) \in Nat
    BY <1>2, <1>4, HoldersOf DEF PumpFrom
  <2>2. Cardinality(Holders(acc.controller)) = MaxConcurrent
    BY <1>4, <2>1, BoundsAssumption DEF PumpFrom
  <2> QED
    BY <1>3, <1>4, <1>5, <2>2 DEF PumpSlots, PumpFrom
<1> HIDE DEF p, j
<1>8. PumpStarts(nxt, q, n + 1, ls, st, run)
  <2>1. PumpStarts(acc, q, n, ls, st, run)
    BY DEF PumpInv
  <2>2. \A r \in DOMAIN acc.runner : r[1] \in Jobs
    BY <1>4 DEF PumpFrom
  <2> QED
    BY <1>3, <1>6, <2>1, <2>2 DEF PumpStarts
<1>9. PumpKeeps(nxt, q, n + 1, ls, st, run)
  <2>1. PumpKeeps(acc, q, n, ls, st, run)
    BY DEF PumpInv
  <2> QED
    BY <1>3, <1>5, <1>6, <2>1 DEF PumpKeeps, p
<1>10. ASSUME Single(q, ctl, run) PROVE PumpSingle(nxt, q, n + 1)
  <2>1. PumpSingle(acc, q, n) /\ PumpKeeps(acc, q, n, ls, st, run)
    BY <1>10 DEF PumpInv
  <2>2. RunnersOf(acc.runner, j) = {} /\ \A i \in n + 2 .. Len(q) : RunnersOf(acc.runner, q[i]) = {}
    <3>1. n + 1 \in n + 1 .. Len(q) /\ \A i \in n + 2 .. Len(q) : i \in n + 1 .. Len(q)
      BY <1>1
    <3> QED
      BY <2>1, <3>1 DEF PumpSingle, j
  <2>3. ~InQueue(p, j)
    <3>1. ~Among(q, n, j)
      <4>1. \A i \in 1 .. n : i \in DOMAIN q /\ i # n + 1 /\ n + 1 \in DOMAIN q
        BY <1>1
      <4> QED
        BY <1>10, <4>1 DEF Among, Single, j
    <3> QED
      BY <1>2, <2>1, <3>1 DEF PumpKeeps, p
  <2>4. \A a, b \in DOMAIN Append(p, j) : Append(p, j)[a] = Append(p, j)[b] => a = b
    <3>1. \A a \in 1 .. Len(p) + 1 : a \in 1 .. Len(p) \/ a = Len(p) + 1
      BY <1>5
    <3>2. \A a, b \in 1 .. Len(p) : p[a] = p[b] => a = b
      BY <1>5, <2>1 DEF PumpSingle, Single, p
    <3>3. \A a \in 1 .. Len(p) : p[a] # j
      BY <1>5, <2>3 DEF InQueue
    <3> QED
      BY <1>5, <3>1, <3>2, <3>3
  <2>5. Single(Append(p, j), acc.controller, acc.runner)
    BY <1>5, <2>1, <2>2, <2>4 DEF PumpSingle, Single, p
  <2>6. n + 1 + 1 = n + 2
    BY <1>1
  <2> QED
    BY <1>3, <2>2, <2>5, <2>6 DEF PumpSingle, p
<1> QED
  BY <1>7, <1>8, <1>9, <1>10 DEF PumpInv

\* A job that is gone or no longer queued: its id is dropped.
LEMMA PumpSkipStep ==
  ASSUME NEW q \in Seq(Jobs), NEW n \in 0 .. Len(q) - 1, NEW ls, NEW st, NEW ctl, NEW run,
         NEW acc, PumpInv(acc, q, n, ls, st, ctl, run),
         q[n + 1] \notin ls \/ st[q[n + 1]] # "queued"
  PROVE  PumpInv(acc, q, n + 1, ls, st, ctl, run)
<1>1. n \in Nat /\ n + 1 \in 1 .. Len(q) /\ Len(q) \in Nat
  BY LenProperties
<1>2. \A i \in Jobs : /\ Among(q, n, i) => Among(q, n + 1, i)
                      /\ Among(q, n + 1, i) => Among(q, n, i) \/ i = q[n + 1]
  <2>1. \A a \in 1 .. n + 1 : a \in 1 .. n \/ a = n + 1
    BY <1>1
  <2>2. \A a \in 1 .. n : a \in 1 .. n + 1
    BY <1>1
  <2> QED
    BY <2>1, <2>2 DEF Among
<1>3. \A r \in DOMAIN acc.runner : r[1] \in Jobs
  BY DEF PumpInv, PumpSlots, PumpFrom
<1>4. PumpStarts(acc, q, n + 1, ls, st, run)
  BY <1>2, <1>3 DEF PumpInv, PumpStarts
<1>5. PumpKeeps(acc, q, n + 1, ls, st, run)
  BY <1>2 DEF PumpInv, PumpKeeps
<1>6. ASSUME Single(q, ctl, run) PROVE PumpSingle(acc, q, n + 1)
  <2>1. \A i \in n + 1 + 1 .. Len(q) : i \in n + 1 .. Len(q)
    BY <1>1
  <2> QED
    BY <1>6, <2>1 DEF PumpInv, PumpSingle
<1> QED
  BY <1>4, <1>5, <1>6 DEF PumpInv

\* A queued job and a free slot: a runner starts.
LEMMA PumpStartStep ==
  ASSUME NEW q \in Seq(Jobs), NEW n \in 0 .. Len(q) - 1, NEW ls, NEW st, NEW ctl, NEW run,
         NEW acc, PumpInv(acc, q, n, ls, st, ctl, run),
         ~(Cardinality(Holders(acc.controller)) >= MaxConcurrent),
         q[n + 1] \in ls, st[q[n + 1]] = "queued",
         NEW k, k = NextNumber(acc.runner, q[n + 1]),
         NEW nxt, nxt = [rest |-> acc.rest,
                         controller |-> [acc.controller EXCEPT ![q[n + 1]] = k],
                         runner |-> AddRunner(acc.runner, <<q[n + 1], k>>)]
  PROVE  PumpInv(nxt, q, n + 1, ls, st, ctl, run)
<1> DEFINE j == q[n + 1]
           s == <<j, k>>
           c == acc.controller
<1>1. n \in Nat /\ n + 1 \in 1 .. Len(q) /\ Len(q) \in Nat /\ DOMAIN q = 1 .. Len(q)
  BY LenProperties
<1>2. j \in Jobs
  BY <1>1, ElementOfSeq
<1>3. /\ nxt.rest = acc.rest /\ nxt.controller = [c EXCEPT ![j] = k]
      /\ nxt.runner = AddRunner(acc.runner, s)
  OBVIOUS
<1>4. PumpFrom(acc.rest, c, acc.runner) /\ c \in [Jobs -> Nat] /\ IsFiniteSet(DOMAIN acc.runner)
      /\ DOMAIN acc.runner \subseteq Jobs \X (Nat \ {0})
  BY DEF PumpInv, PumpSlots, PumpFrom
<1>5. k \in Nat \ {0} /\ s \notin DOMAIN acc.runner
  BY <1>4, NextNumberIsNew
<1>6. /\ DOMAIN nxt.runner = DOMAIN acc.runner \cup {s}
      /\ nxt.runner[s] = NewRunner
      /\ \A r \in DOMAIN acc.runner : nxt.runner[r] = acc.runner[r]
  BY <1>3, <1>5 DEF AddRunner
<1>7. s \in Jobs \X (Nat \ {0}) /\ s[1] = j /\ s[2] = k
  BY <1>2, <1>5
<1>8. Cardinality(Holders(c)) \in Nat /\ Cardinality(Holders([c EXCEPT ![j] = k])) <= Cardinality(Holders(c)) + 1
  BY <1>2, <1>4, <1>5, HoldersOf
<1>9. /\ [c EXCEPT ![j] = k] \in [Jobs -> Nat] /\ [c EXCEPT ![j] = k][j] = k
      /\ \A i \in Jobs \ {j} : [c EXCEPT ![j] = k][i] = c[i]
  BY <1>2, <1>4, <1>5
<1> DEFINE d == [c EXCEPT ![j] = k]
<1> HIDE DEF j, s, c, d
<1>10. nxt.controller = d /\ d \in [Jobs -> Nat] /\ d[j] = k /\ \A i \in Jobs \ {j} : d[i] = c[i]
  BY <1>3, <1>9 DEF d
<1>11. \A i \in Jobs : /\ Among(q, n, i) => Among(q, n + 1, i)
                       /\ Among(q, n + 1, i) => Among(q, n, i) \/ i = j
                       /\ Among(q, n + 1, j)
  <2>1. \A a \in 1 .. n + 1 : a \in 1 .. n \/ a = n + 1
    BY <1>1
  <2>2. \A a \in 1 .. n : a \in 1 .. n + 1
    BY <1>1
  <2>3. n + 1 \in 1 .. n + 1
    BY <1>1
  <2> QED
    BY <2>1, <2>2, <2>3 DEF Among, j
<1>12. PumpSlots(nxt)
  <2>1. acc.rest = <<>> /\ Cardinality(Holders(d)) <= MaxConcurrent
    <3>1. acc.rest # <<>> => Cardinality(Holders(c)) = MaxConcurrent
      BY DEF PumpInv, PumpSlots, c
    <3>2. ~(Cardinality(Holders(c)) >= MaxConcurrent)
      BY DEF c
    <3>3. Cardinality(Holders(d)) <= Cardinality(Holders(c)) + 1 /\ Cardinality(Holders(d)) \in Nat
      BY <1>2, <1>8, <1>10, HoldersOf DEF d
    <3> QED
      BY <1>8, <3>1, <3>2, <3>3, BoundsAssumption
  <2>2. IsFiniteSet(DOMAIN acc.runner \cup {s})
    BY <1>4, FS_AddElement
  <2>3. \A i \in Jobs : d[i] # 0 => <<i, d[i]>> \in DOMAIN acc.runner \cup {s}
    <3>1. \A i \in Jobs : c[i] # 0 => <<i, c[i]>> \in DOMAIN acc.runner
      BY <1>4 DEF PumpFrom
    <3> QED
      BY <1>10, <3>1 DEF s
  <2>4. acc.rest \in Seq(Jobs)
    BY <1>4 DEF PumpFrom
  <2> QED
    BY <1>3, <1>4, <1>6, <1>7, <1>10, <2>1, <2>2, <2>3, <2>4 DEF PumpSlots, PumpFrom
<1>13. PumpStarts(nxt, q, n + 1, ls, st, run)
  <2>1. PumpStarts(acc, q, n, ls, st, run)
    BY DEF PumpInv
  <2>2. \A r \in DOMAIN acc.runner : r[1] \in Jobs
    BY <1>4
  <2>3. j \in ls /\ st[j] = "queued"
    BY DEF j
  <2> QED
    BY <1>2, <1>6, <1>7, <1>11, <2>1, <2>2, <2>3 DEF PumpStarts
<1>14. PumpKeeps(nxt, q, n + 1, ls, st, run)
  <2>1. PumpKeeps(acc, q, n, ls, st, run)
    BY DEF PumpInv
  <2>2. s \notin DOMAIN run
    BY <1>5 DEF PumpInv, PumpStarts
  <2> QED
    BY <1>3, <1>6, <1>7, <1>11, <2>1, <2>2 DEF PumpKeeps
<1>15. ASSUME Single(q, ctl, run) PROVE PumpSingle(nxt, q, n + 1)
  <2>1. PumpSingle(acc, q, n) /\ PumpKeeps(acc, q, n, ls, st, run)
    BY <1>15 DEF PumpInv
  <2>2. ~Among(q, n, j) /\ \A i \in n + 2 .. Len(q) : q[i] # j
    <3>1. \A i \in 1 .. n : i \in DOMAIN q /\ i # n + 1 /\ n + 1 \in DOMAIN q
      BY <1>1
    <3>2. \A i \in n + 2 .. Len(q) : i \in DOMAIN q /\ i # n + 1 /\ n + 1 \in DOMAIN q
      BY <1>1
    <3> QED
      BY <1>15, <3>1, <3>2 DEF Among, Single, j
  <2>3. \A i \in Jobs \ {j} : RunnersOf(nxt.runner, i) = RunnersOf(acc.runner, i)
    BY <1>6, <1>7 DEF RunnersOf
  <2>4. RunnersOf(acc.runner, j) = {}
    <3>1. n + 1 \in n + 1 .. Len(q)
      BY <1>1
    <3> QED
      BY <2>1, <3>1 DEF PumpSingle, j
  <2>5. \A r \in DOMAIN nxt.runner : d[r[1]] = r[2]
    <3>1. \A r \in DOMAIN acc.runner : r[1] \in Jobs \ {j} /\ c[r[1]] = r[2]
      BY <1>4, <2>1, <2>4 DEF PumpSingle, Single, RunnersOf, c
    <3> QED
      BY <1>6, <1>7, <1>10, <3>1
  <2>6. \A i \in Jobs : InQueue(acc.rest, i) => i # j
    BY <2>1, <2>2 DEF PumpKeeps
  <2>7. Single(acc.rest, d, nxt.runner)
    BY <2>1, <2>3, <2>5, <2>6 DEF PumpSingle, Single
  <2>8. \A i \in n + 1 + 1 .. Len(q) : RunnersOf(nxt.runner, q[i]) = {}
    <3>1. \A i \in n + 1 + 1 .. Len(q) : i \in n + 1 .. Len(q) /\ i \in n + 2 .. Len(q) /\ i \in 1 .. Len(q)
      BY <1>1
    <3>2. \A i \in 1 .. Len(q) : q[i] \in Jobs
      BY ElementOfSeq
    <3> QED
      BY <2>1, <2>2, <2>3, <3>1, <3>2 DEF PumpSingle
  <2> QED
    BY <1>3, <1>10, <2>7, <2>8 DEF PumpSingle
<1> QED
  BY <1>12, <1>13, <1>14, <1>15 DEF PumpInv

\* One pass of the loop, whatever it finds.
LEMMA PumpStep ==
  ASSUME NEW q \in Seq(Jobs), NEW n \in 0 .. Len(q) - 1, NEW ls, NEW st, NEW ctl, NEW run,
         NEW acc, PumpInv(acc, q, n, ls, st, ctl, run)
  PROVE  PumpInv(PumpOne(ls, st, acc, q[n + 1]), q, n + 1, ls, st, ctl, run)
<1> DEFINE j == q[n + 1]
<1>1. CASE Cardinality(Holders(acc.controller)) >= MaxConcurrent
  <2>1. PumpOne(ls, st, acc, j) = [rest |-> Append(acc.rest, j), controller |-> acc.controller,
                                   runner |-> acc.runner]
    BY <1>1 DEF PumpOne, Holders
  <2> QED
    BY <1>1, <2>1, PumpKeptStep
<1>2. CASE /\ ~(Cardinality(Holders(acc.controller)) >= MaxConcurrent)
           /\ j \notin ls \/ st[j] # "queued"
  <2>1. PumpOne(ls, st, acc, j) = acc
    BY <1>2 DEF PumpOne, Holders
  <2> QED
    BY <1>2, <2>1, PumpSkipStep
<1>3. CASE /\ ~(Cardinality(Holders(acc.controller)) >= MaxConcurrent)
           /\ j \in ls /\ st[j] = "queued"
  <2> DEFINE k == NextNumber(acc.runner, j)
  <2>1. PumpOne(ls, st, acc, j) = [rest |-> acc.rest,
                                   controller |-> [acc.controller EXCEPT ![j] = k],
                                   runner |-> AddRunner(acc.runner, <<j, k>>)]
    BY <1>3 DEF PumpOne, Holders
  <2> HIDE DEF k
  <2> QED
    BY <1>3, <2>1, PumpStartStep DEF k
<1> QED
  BY <1>1, <1>2, <1>3

\* The loop, id by id.
LoopOver(g, q, m, ls, st, ctl, run) ==
  g = [n \in 0 .. m |->
         IF n = 0 THEN [rest |-> <<>>, controller |-> ctl, runner |-> run]
         ELSE PumpOne(ls, st, g[n - 1], q[n])]

\* The loop of pumpDownloadQueue is defined for a queue of any length.
LEMMA LoopRuns ==
  ASSUME NEW q, NEW ls, NEW st, NEW ctl, NEW run, NEW m \in Nat
  PROVE  \E g : LoopOver(g, q, m, ls, st, ctl, run)
<1> DEFINE base == [rest |-> <<>>, controller |-> ctl, runner |-> run]
           Pass(g, n) == LoopOver(g, q, n, ls, st, ctl, run)
           P == {n \in Nat : \E g : Pass(g, n)}
<1>1. 0 \in P
  <2> DEFINE g == [n \in 0 .. 0 |-> base]
  <2>1. Pass(g, 0)
    BY DEF LoopOver
  <2> QED
    BY <2>1
<1>2. ASSUME NEW n \in Nat, n \in P PROVE n + 1 \in P
  <2>1. PICK g : Pass(g, n)
    BY <1>2
  <2> DEFINE last == PumpOne(ls, st, g[n], q[n + 1])
             h == [i \in 0 .. n + 1 |-> IF i = n + 1 THEN last ELSE g[i]]
  <2>2. \A i \in 0 .. n : g[i] = IF i = 0 THEN base ELSE PumpOne(ls, st, g[i - 1], q[i])
    BY <2>1 DEF LoopOver
  <2>3. /\ \A i \in 0 .. n : i \in 0 .. n + 1 /\ i # n + 1
        /\ \A i \in 0 .. n + 1 : i = n + 1 \/ i \in 0 .. n
        /\ \A i \in 0 .. n : i # 0 => i - 1 \in 0 .. n
        /\ n + 1 \in 0 .. n + 1 /\ (n + 1) - 1 = n /\ n \in 0 .. n /\ n + 1 # 0
    OBVIOUS
  <2>4. h[n + 1] = last /\ \A i \in 0 .. n : h[i] = g[i]
    BY <2>3
  <2>5. \A i \in 0 .. n + 1 : h[i] = IF i = 0 THEN base ELSE PumpOne(ls, st, h[i - 1], q[i])
    <3> SUFFICES ASSUME NEW i \in 0 .. n + 1
                 PROVE  h[i] = IF i = 0 THEN base ELSE PumpOne(ls, st, h[i - 1], q[i])
      OBVIOUS
    <3>1. CASE i = n + 1
      <4>1. h[n] = g[n]
        BY <2>3, <2>4
      <4> QED
        BY <2>3, <2>4, <3>1, <4>1
    <3>2. CASE i \in 0 .. n /\ i = 0
      BY <2>2, <2>4, <3>2
    <3>3. CASE i \in 0 .. n /\ i # 0
      <4>1. h[i - 1] = g[i - 1]
        BY <2>3, <2>4, <3>3
      <4> QED
        BY <2>2, <2>4, <3>3, <4>1
    <3> QED
      BY <2>3, <3>1, <3>2, <3>3
  <2>6. Pass(h, n + 1)
    BY <2>5 DEF LoopOver
  <2> QED
    BY <2>6
<1> HIDE DEF P
<1>3. Nat \subseteq P
  BY <1>1, <1>2, SetOfNatInduction
<1> QED
  BY <1>3 DEF P

\* What pumpDownloadQueue leaves.
LEMMA PumpedOK ==
  ASSUME NEW q, NEW ls, NEW st, NEW ctl, NEW run, PumpFrom(q, ctl, run)
  PROVE  PumpInv(Pumped(q, ls, st, ctl, run), q, Len(q), ls, st, ctl, run)
<1> DEFINE m == Len(q)
           base == [rest |-> <<>>, controller |-> ctl, runner |-> run]
           g == CHOOSE f : LoopOver(f, q, m, ls, st, ctl, run)
<1>1. q \in Seq(Jobs) /\ m \in Nat /\ DOMAIN q = 1 .. m
  BY LenProperties DEF PumpFrom
<1>2. LoopOver(g, q, m, ls, st, ctl, run)
  BY <1>1, LoopRuns
<1>3. Pumped(q, ls, st, ctl, run) = g[m]
  BY DEF Pumped, LoopOver
<1> HIDE DEF g
<1>4. /\ g[0] = base
      /\ \A n \in 0 .. m - 1 : g[n + 1] = PumpOne(ls, st, g[n], q[n + 1])
  <2>1. \A n \in 0 .. m : g[n] = IF n = 0 THEN base ELSE PumpOne(ls, st, g[n - 1], q[n])
    BY <1>2 DEF LoopOver
  <2>2. 0 \in 0 .. m /\ \A n \in 0 .. m - 1 : n + 1 \in 0 .. m /\ n + 1 # 0 /\ (n + 1) - 1 = n
    BY <1>1
  <2>3. g[0] = base
    BY <2>1, <2>2
  <2>4. ASSUME NEW n \in 0 .. m - 1 PROVE g[n + 1] = PumpOne(ls, st, g[n], q[n + 1])
    <3>1. g[n + 1] = PumpOne(ls, st, g[(n + 1) - 1], q[n + 1])
      BY <2>1, <2>2
    <3> QED
      BY <2>2, <3>1
  <2> QED
    BY <2>3, <2>4
<1>5. PumpInv(base, q, 0, ls, st, ctl, run)
  <2>1. base.rest = <<>> /\ base.controller = ctl /\ base.runner = run
    OBVIOUS
  <2>2. DOMAIN <<>> = {} /\ \A j : ~InQueue(<<>>, j)
    BY DEF InQueue
  <2>3. \A j : ~Among(q, 0, j)
    BY DEF Among
  <2>4. PumpSlots(base)
    BY <2>1 DEF PumpSlots, PumpFrom
  <2>5. PumpStarts(base, q, 0, ls, st, run)
    BY <2>1 DEF PumpStarts
  <2>6. PumpKeeps(base, q, 0, ls, st, run)
    BY <2>1, <2>2, <2>3 DEF PumpKeeps
  <2>7. ASSUME Single(q, ctl, run) PROVE PumpSingle(base, q, 0)
    <3>1. \A i \in 0 + 1 .. m : q[i] \in Jobs /\ InQueue(q, q[i])
      BY <1>1, ElementOfSeq DEF InQueue
    <3> QED
      BY <2>1, <2>2, <2>7, <3>1 DEF PumpSingle, Single
  <2> QED
    BY <2>4, <2>5, <2>6, <2>7 DEF PumpInv
<1> DEFINE P == {n \in Nat : n <= m => PumpInv(g[n], q, n, ls, st, ctl, run)}
<1>6. 0 \in P
  BY <1>4, <1>5
<1>7. ASSUME NEW n \in Nat, n \in P PROVE n + 1 \in P
  <2>1. n + 1 <= m => n \in 0 .. m - 1 /\ n <= m
    BY <1>1
  <2> QED
    BY <1>1, <1>4, <1>7, <2>1, PumpStep
<1> HIDE DEF P
<1>8. Nat \subseteq P
  BY <1>6, <1>7, SetOfNatInduction
<1> QED
  BY <1>1, <1>3, <1>8 DEF P

\* The same, of the queue, the controllers and the runners the pass leaves.
Result(q, ls, st, ctl, run, p, c, u) ==
  /\ PumpFrom(p, c, u) /\ (p # <<>> => Cardinality(Holders(c)) = MaxConcurrent)
  /\ DOMAIN run \subseteq DOMAIN u /\ \A r \in DOMAIN run : u[r] = run[r]
  /\ \A r \in DOMAIN u \ DOMAIN run :
       u[r] = NewRunner /\ r[1] \in ls /\ st[r[1]] = "queued" /\ InQueue(q, r[1])
  /\ \A j \in Jobs : InQueue(p, j) => InQueue(q, j)
  /\ \A j \in Jobs : InQueue(q, j) /\ j \in ls /\ st[j] = "queued" =>
       InQueue(p, j) \/ \E r \in DOMAIN u \ DOMAIN run : r[1] = j
  /\ Single(q, ctl, run) => Single(p, c, u)

\* What a call of pumpDownloadQueue leaves behind.
LEMMA PumpGives ==
  ASSUME NEW q, NEW ls, NEW st, NEW ctl, NEW run, PumpFrom(q, ctl, run),
         Pump(q, ls, st, ctl, run)
  PROVE  Result(q, ls, st, ctl, run, queue', controller', runner')
<1> DEFINE acc == Pumped(q, ls, st, ctl, run)
<1>1. PumpInv(acc, q, Len(q), ls, st, ctl, run)
  BY PumpedOK
<1>2. queue' = acc.rest /\ controller' = acc.controller /\ runner' = acc.runner
  BY DEF Pump
<1>3. \A j : Among(q, Len(q), j) <=> InQueue(q, j)
  <2>1. DOMAIN q = 1 .. Len(q)
    BY LenProperties DEF PumpFrom
  <2> QED
    BY <2>1 DEF Among, InQueue
<1> HIDE DEF acc
<1> QED
  BY <1>1, <1>2, <1>3 DEF Result, PumpInv, PumpSlots, PumpStarts, PumpKeeps, PumpSingle

\* A pass keeps what holds when it starts.
LEMMA PumpLands ==
  ASSUME NEW q, NEW ls, NEW us, NEW st, NEW ctl, NEW run, NEW hk, NEW pt, NEW fn, NEW sv,
         NEW rt, NEW rs, Mid(q, ls, us, st, ctl, run, hk, pt, fn, sv, rt, rs),
         ls \subseteq Jobs, NEW p, NEW c, NEW u, Result(q, ls, st, ctl, run, p, c, u)
  PROVE  Mid(p, ls, us, st, c, u, hk, pt, fn, sv, rt, rs)
<1>1. /\ NewRunner \in RunnerRecord /\ NewRunner.at = "files" /\ ~NewRunner.aborted
  BY BoundsAssumption DEF NewRunner, RunnerRecord, RunnerSteps
<1>2. RunnersOK(u)
  BY <1>1 DEF Mid, RunnersOK, Result
<1>3. \A j \in Jobs : /\ RunnersOf(run, j) \subseteq RunnersOf(u, j)
                      /\ RunnersOf(u, j) # {} => RunnersOf(run, j) # {} \/ InQueue(q, j)
  BY DEF Result, RunnersOf
<1>4. Known(p, ls, us, u, sv)
  BY <1>3 DEF Mid, Known, Result
<1>5. Attended(p, ls, st, u)
  <2> SUFFICES ASSUME NEW j \in ls, st[j] \in Active
               PROVE  \/ \E r \in RunnersOf(u, j) : u[r].at # "register"
                      \/ st[j] = "queued" /\ InQueue(p, j)
    BY DEF Attended
  <2>1. CASE \E r \in RunnersOf(run, j) : run[r].at # "register"
    BY <2>1 DEF Result, RunnersOf
  <2>2. CASE st[j] = "queued" /\ InQueue(q, j)
    <3>1. InQueue(p, j) \/ \E r \in DOMAIN u \ DOMAIN run : r[1] = j
      BY <2>2 DEF Result
    <3> QED
      BY <1>1, <2>2, <3>1 DEF Result, RunnersOf
  <2> QED
    BY <2>1, <2>2 DEF Mid, Attended
<1>6. \A j \in Jobs : Claims(p, u, j) => Claims(q, run, j)
  BY <1>1 DEF Claims, Result, RunnersOf
<1>7. ASSUME Filed(q, ls, st, run, hk, pt, fn) PROVE Filed(p, ls, st, u, hk, pt, fn)
  <2>1. \A r \in DOMAIN u : FilesOf(r, u, pt, fn)
    <3>1. ASSUME NEW r \in DOMAIN run PROVE FilesOf(r, u, pt, fn)
      <4>1. u[r] = run[r] /\ FilesOf(r, run, pt, fn)
        BY <1>7, <3>1 DEF Result, Filed
      <4> QED
        BY <4>1 DEF FilesOf
    <3>2. ASSUME NEW r \in DOMAIN u \ DOMAIN run PROVE FilesOf(r, u, pt, fn)
      <4>1. u[r].at = "files"
        BY <1>1, <3>2 DEF Result
      <4> QED
        BY <4>1 DEF FilesOf
    <3> QED
      BY <3>1, <3>2
  <2>2. \A j \in Jobs : InQueue(p, j) \/ RunnersOf(u, j) # {} => j \in hk
    BY <1>3, <1>7 DEF Filed, Result
  <2>3. \A j \in Jobs : Claims(p, u, j) /\ fn[FileOf[j]] # "good" =>
          /\ j \in ls /\ st[j] \in Active
          /\ \A i \in Jobs \ {j} : Claims(p, u, i) => FileOf[i] # FileOf[j]
    BY <1>6, <1>7 DEF Filed
  <2> QED
    BY <1>7, <2>1, <2>2, <2>3 DEF Filed
<1>8. PumpFrom(p, c, u) /\ (rt = 0 => Single(p, c, u))
  BY DEF Mid, Result
<1> QED
  BY <1>2, <1>4, <1>5, <1>7, <1>8 DEF Mid

\* The queue without the first occurrence of an id.
LEMMA Removed ==
  ASSUME NEW q \in Seq(Jobs), NEW j \in Jobs
  PROVE  LET p == RemoveFirst(q, j)
         IN  /\ p \in Seq(Jobs) /\ (p # <<>> => q # <<>>)
             /\ \A i \in Jobs : InQueue(p, i) => InQueue(q, i)
             /\ \A i \in Jobs \ {j} : InQueue(q, i) => InQueue(p, i)
             /\ (\A a, b \in DOMAIN q : q[a] = q[b] => a = b) =>
                  /\ \A a, b \in DOMAIN p : p[a] = p[b] => a = b
                  /\ ~InQueue(p, j)
<1> DEFINE n == Len(q)
           p == RemoveFirst(q, j)
<1>1. n \in Nat /\ DOMAIN q = 1 .. n /\ \A i \in 1 .. n : q[i] \in Jobs
  BY LenProperties, ElementOfSeq
<1>2. CASE ~(\E i \in 1 .. n : q[i] = j)
  <2>1. p = q
    BY <1>2 DEF RemoveFirst
  <2> QED
    BY <1>1, <1>2, <2>1 DEF InQueue
<1>3. CASE \E i \in 1 .. n : q[i] = j
  <2> DEFINE I == {i \in 1 .. n : q[i] = j}
             m == SelectInSeq(q, LAMBDA v : v = j)
             x == SubSeq(q, 1, m - 1)
             y == SubSeq(q, m + 1, n)
  <2>1. m = Min(I)
    BY <1>3 DEF SelectInSeq
  <2>2. I # {} /\ I \subseteq Nat
    BY <1>1, <1>3
  <2>3. Min(I) \in I
    <3> HIDE DEF I
    <3>1. \E a \in I : \A b \in I : a <= b
      BY <2>2, LeastNatural
    <3> QED
      BY <3>1 DEF Min
  <2>4. m \in 1 .. n /\ q[m] = j
    BY <2>1, <2>3
  <2>5. p = x \o y
    BY <1>3 DEF RemoveFirst, RemoveAt
  <2> HIDE DEF m, I, p, n
  <2>6. /\ x \in Seq(Jobs) /\ Len(x) = m - 1 /\ \A i \in 1 .. m - 1 : x[i] = q[i]
    <3>1. m - 1 \in Int /\ 1 \in Int /\ \A i \in 1 .. m - 1 : q[i] \in Jobs
      BY <1>1, <2>4
    <3>2. /\ x \in Seq(Jobs) /\ Len(x) = IF 1 <= m - 1 THEN m - 1 - 1 + 1 ELSE 0
          /\ \A i \in 1 .. m - 1 - 1 + 1 : x[i] = q[1 + i - 1]
      BY <3>1, SubSeqProperties
    <3>3. /\ (IF 1 <= m - 1 THEN m - 1 - 1 + 1 ELSE 0) = m - 1 /\ m - 1 - 1 + 1 = m - 1
          /\ \A i \in 1 .. m - 1 : 1 + i - 1 = i
      BY <1>1, <2>4
    <3> QED
      BY <3>2, <3>3
  <2>7. /\ y \in Seq(Jobs) /\ Len(y) = n - m /\ \A i \in 1 .. n - m : y[i] = q[m + i]
    <3>1. n \in Int /\ m + 1 \in Int /\ \A i \in m + 1 .. n : q[i] \in Jobs
      BY <1>1, <2>4
    <3>2. /\ y \in Seq(Jobs) /\ Len(y) = IF m + 1 <= n THEN n - (m + 1) + 1 ELSE 0
          /\ \A i \in 1 .. n - (m + 1) + 1 : y[i] = q[m + 1 + i - 1]
      BY <3>1, SubSeqProperties
    <3>3. /\ (IF m + 1 <= n THEN n - (m + 1) + 1 ELSE 0) = n - m /\ n - (m + 1) + 1 = n - m
          /\ \A i \in 1 .. n - m : m + 1 + i - 1 = m + i
      BY <1>1, <2>4
    <3> QED
      BY <3>2, <3>3
  <2> HIDE DEF x, y
  <2>8. /\ p \in Seq(Jobs) /\ Len(p) = (m - 1) + (n - m)
        /\ \A i \in 1 .. (m - 1) + (n - m) : p[i] = IF i <= m - 1 THEN x[i] ELSE y[i - (m - 1)]
    <3>1. /\ x \o y \in Seq(Jobs) /\ Len(x \o y) = Len(x) + Len(y)
          /\ \A i \in 1 .. Len(x) + Len(y) :
               (x \o y)[i] = IF i <= Len(x) THEN x[i] ELSE y[i - Len(x)]
      BY <2>6, <2>7, ConcatProperties
    <3> QED
      BY <2>5, <2>6, <2>7, <3>1
  <2>9. DOMAIN p = 1 .. n - 1 /\ (m - 1) + (n - m) = n - 1
    BY <1>1, <2>4, <2>8, LenProperties
  <2>10. \A i \in DOMAIN p : p[i] = q[IF i < m THEN i ELSE i + 1]
    <3> SUFFICES ASSUME NEW i \in 1 .. n - 1 PROVE p[i] = q[IF i < m THEN i ELSE i + 1]
      BY <2>9
    <3>1. p[i] = IF i <= m - 1 THEN x[i] ELSE y[i - (m - 1)]
      BY <2>8, <2>9
    <3>2. CASE i < m
      <4>1. i <= m - 1 /\ i \in 1 .. m - 1
        BY <2>4, <3>2
      <4> QED
        BY <2>6, <3>1, <3>2, <4>1
    <3>3. CASE ~(i < m)
      <4>1. ~(i <= m - 1) /\ i - (m - 1) \in 1 .. n - m /\ m + (i - (m - 1)) = i + 1
        BY <1>1, <2>4, <3>3
      <4> QED
        BY <2>7, <3>1, <3>3, <4>1
    <3> QED
      BY <3>2, <3>3
  <2> DEFINE t == [i \in 1 .. n - 1 |-> IF i < m THEN i ELSE i + 1]
  <2>11. /\ \A i \in 1 .. n - 1 : t[i] \in 1 .. n /\ t[i] # m
         /\ \A a, b \in 1 .. n - 1 : t[a] = t[b] => a = b
         /\ \A a \in 1 .. n : a # m => \E i \in 1 .. n - 1 : t[i] = a
    <3>1. \A i \in 1 .. n - 1 : t[i] \in 1 .. n /\ t[i] # m
      BY <1>1, <2>4
    <3>2. \A a, b \in 1 .. n - 1 : t[a] = t[b] => a = b
      BY <1>1, <2>4
    <3>3. ASSUME NEW a \in 1 .. n, a # m PROVE \E i \in 1 .. n - 1 : t[i] = a
      <4>1. CASE a < m
        <5>1. a \in 1 .. n - 1 /\ t[a] = a
          BY <1>1, <2>4, <4>1
        <5> QED
          BY <5>1
      <4>2. CASE ~(a < m)
        <5>1. a - 1 \in 1 .. n - 1 /\ ~(a - 1 < m) /\ (a - 1) + 1 = a
          BY <1>1, <2>4, <3>3, <4>2
        <5>2. t[a - 1] = a
          BY <5>1
        <5> QED
          BY <5>1, <5>2
      <4> QED
        BY <4>1, <4>2
    <3> QED
      BY <3>1, <3>2, <3>3
  <2>12. \A i \in 1 .. n - 1 : p[i] = q[t[i]]
    BY <2>9, <2>10
  <2> HIDE DEF t
  <2>13. \A i \in Jobs : InQueue(p, i) => InQueue(q, i)
    BY <1>1, <2>9, <2>11, <2>12 DEF InQueue
  <2>14. \A i \in Jobs \ {j} : InQueue(q, i) => InQueue(p, i)
    <3> SUFFICES ASSUME NEW i \in Jobs \ {j}, NEW a \in 1 .. n, q[a] = i PROVE InQueue(p, i)
      BY <1>1 DEF InQueue
    <3>1. a # m
      BY <2>4
    <3>2. PICK b \in 1 .. n - 1 : t[b] = a
      BY <2>11, <3>1
    <3>3. b \in DOMAIN p /\ p[b] = i
      BY <2>9, <2>12, <3>2
    <3> QED
      BY <3>3 DEF InQueue
  <2>15. ASSUME \A a, b \in DOMAIN q : q[a] = q[b] => a = b
         PROVE  (\A a, b \in DOMAIN p : p[a] = p[b] => a = b) /\ ~InQueue(p, j)
    <3>1. \A a, b \in 1 .. n : q[a] = q[b] => a = b
      BY <1>1, <2>15
    <3>2. \A a, b \in 1 .. n - 1 : p[a] = p[b] => a = b
      BY <2>11, <2>12, <3>1
    <3>3. \A a \in 1 .. n - 1 : p[a] # j
      BY <2>4, <2>11, <2>12, <3>1
    <3> QED
      BY <2>9, <3>2, <3>3 DEF InQueue
  <2>16. q # <<>>
    BY <1>1, <2>4
  <2> QED
    BY <2>8, <2>13, <2>14, <2>15, <2>16 DEF p
<1> QED
  BY <1>2, <1>3

\* The ids to resume after a restart, each once.
LEMMA Resumed ==
  ASSUME NEW S \in SUBSET Jobs
  PROVE  LET p == SetToSeq(S)
         IN  /\ p \in Seq(Jobs)
             /\ \A j \in Jobs : InQueue(p, j) <=> j \in S
             /\ \A a, b \in DOMAIN p : p[a] = p[b] => a = b
<1> DEFINE n == Cardinality(S)
           p == SetToSeq(S)
           F == [1 .. n -> S]
<1>1. IsFiniteSet(S) /\ n \in Nat /\ ExistsBijection(1 .. n, S)
  BY JobsAssumption, FS_Subset, FS_CardinalityType
<1>2. \E f \in F : IsInjective(f)
  BY <1>1 DEF ExistsBijection, Bijection, Injection
<1>3. p \in F /\ IsInjective(p)
  BY <1>2 DEF SetToSeq
<1> HIDE DEF n, p
<1>4. p \in [1 .. n -> S] /\ p \in Injection(1 .. n, S)
  BY <1>3 DEF Injection
<1>5. Cardinality(1 .. n) = Cardinality(S)
  BY <1>1, FS_Interval DEF n
<1>6. p \in Surjection(1 .. n, S)
  BY <1>1, <1>4, <1>5, FS_Injection
<1>7. \A j \in S : \E i \in 1 .. n : p[i] = j
  BY <1>6 DEF Surjection
<1>8. p \in Seq(Jobs)
  <2>1. p \in [1 .. n -> Jobs]
    BY <1>4
  <2> QED
    BY <1>1, <2>1, IsASeq
<1>9. \A a, b \in DOMAIN p : p[a] = p[b] => a = b
  BY <1>3, <1>4 DEF IsInjective
<1> QED
  BY <1>4, <1>7, <1>8, <1>9 DEF InQueue, p

-----------------------------------------------------------------------------
(* Steps.                                                                   *)

\* A step that ends in a pass of pumpDownloadQueue.
LEMMA PumpEnds ==
  ASSUME PlainTypes', NEW q, NEW ctl, NEW run, Pump(q, listed', status', ctl, run),
         Mid(q, listed', used', status', ctl, run, hashKnown', part', final', saved',
             retries', restarts')
  PROVE  HubInv'
<1>1. PumpFrom(q, ctl, run)
  BY DEF Mid
<1>2. Result(q, listed', status', ctl, run, queue', controller', runner')
  BY <1>1, PumpGives
<1>3. listed' \subseteq Jobs
  BY DEF PlainTypes
<1>4. Mid(queue', listed', used', status', controller', runner', hashKnown', part', final',
          saved', retries', restarts')
  BY <1>2, <1>3, PumpLands
<1>5. NoIdleSlot'
  BY <1>2 DEF Result, NoIdleSlot, Holders
<1> QED
  BY <1>4, <1>5 DEF HubInv

\* What the step of a runner leaves of jobs and list, and may do to the files.
Frame == UNCHANGED <<listed, used, retries, saved, restarts>>
DiskTypes ==
  part' \in [Shards -> Contents] /\ final' \in [Shards -> Contents] /\ registered' \in BOOLEAN
DiskStep(r) ==
  retries = 0 /\ restarts = 0 =>
    /\ \A f \in Shards : /\ final'[f] \in {"none", "good"}
                         /\ final[f] = "good" => final'[f] = "good"
    /\ \A o \in DOMAIN runner \ {r} : FilesOf(o, runner, part', final')

\* A step that leaves the files alone.
LEMMA DiskSame ==
  ASSUME HubInv, part' = part, final' = final, registered' \in BOOLEAN, NEW r
  PROVE  DiskTypes /\ DiskStep(r)
<1>1. DiskTypes
  BY DEF HubInv, PlainTypes, DiskTypes
<1>2. DiskStep(r)
  BY DEF HubInv, Mid, Filed, DiskStep
<1> QED
  BY <1>1, <1>2

\* A runner goes on, with x for its job's status.
LEMMA MoveKeeps ==
  ASSUME HubInv, NEW r \in DOMAIN runner, Frame, UNCHANGED <<queue, controller>>,
         NEW v \in RunnerRecord, runner' = [runner EXCEPT ![r] = v],
         v.aborted = runner[r].aborted, v.at = "backoff" => v.attempt < MaxAttempts,
         NEW x \in Statuses, status' = [status EXCEPT ![r[1]] = x],
         v.at # "register" \/ x \notin Active,
         hashKnown \subseteq hashKnown', hashKnown' \subseteq Jobs, DiskTypes, DiskStep(r),
         retries = 0 /\ restarts = 0 =>
           /\ FilesOf(r, runner', part', final')
           /\ ~runner[r].aborted /\ final'[Shard(r)] # "good" => x \in Active
  PROVE  HubInv'
<1>1. /\ PumpFrom(queue, controller, runner) /\ RunnersOK(runner)
      /\ Known(queue, listed, used, runner, saved) /\ Attended(queue, listed, status, runner)
      /\ retries = 0 => Single(queue, controller, runner)
      /\ retries = 0 /\ restarts = 0 =>
           Filed(queue, listed, status, runner, hashKnown, part, final)
      /\ PlainTypes /\ NoIdleSlot
  BY DEF HubInv, Mid
<1>2. r[1] \in Jobs /\ \A o \in DOMAIN runner : o[1] \in Jobs
  BY <1>1 DEF PumpFrom
<1>3. DOMAIN runner' = DOMAIN runner /\ runner'[r] = v
      /\ \A o \in DOMAIN runner \ {r} : runner'[o] = runner[o]
  OBVIOUS
<1>4. /\ status' \in [Jobs -> Statuses] /\ status'[r[1]] = x
      /\ \A j \in Jobs \ {r[1]} : status'[j] = status[j]
  BY <1>1, <1>2 DEF PlainTypes
<1>5. \A j : RunnersOf(runner', j) = RunnersOf(runner, j)
  BY <1>3 DEF RunnersOf
<1>6. PlainTypes'
  BY <1>1, <1>4 DEF PlainTypes, Frame, DiskTypes
<1>7. PumpFrom(queue, controller, runner') /\ RunnersOK(runner')
  BY <1>1, <1>3 DEF PumpFrom, RunnersOK
<1>8. Known(queue, listed, used, runner', saved)
  BY <1>1, <1>5 DEF Known
<1>9. Attended(queue, listed, status', runner')
  <2> SUFFICES ASSUME NEW j \in listed, status'[j] \in Active
               PROVE  \/ \E o \in RunnersOf(runner', j) : runner'[o].at # "register"
                      \/ status'[j] = "queued" /\ InQueue(queue, j)
    BY DEF Attended
  <2>1. j \in Jobs
    BY <1>1 DEF PlainTypes
  <2>2. CASE j = r[1]
    BY <1>3, <1>4, <1>5, <2>2 DEF RunnersOf
  <2>3. CASE j # r[1]
    <3>1. \A o \in RunnersOf(runner, j) : o # r /\ o \in DOMAIN runner
      BY <2>3 DEF RunnersOf
    <3>2. status'[j] = status[j]
      BY <1>4, <2>1, <2>3
    <3>3. CASE \E o \in RunnersOf(runner, j) : runner[o].at # "register"
      <4>1. PICK o \in RunnersOf(runner, j) : runner[o].at # "register"
        BY <3>3
      <4>2. runner'[o] = runner[o] /\ o \in RunnersOf(runner', j)
        BY <1>3, <1>5, <3>1, <4>1
      <4> QED
        BY <4>1, <4>2
    <3> QED
      BY <1>1, <3>2, <3>3 DEF Attended
  <2> QED
    BY <2>2, <2>3
<1>10. retries = 0 => Single(queue, controller, runner')
  BY <1>1, <1>3, <1>5 DEF Single
<1>11. ASSUME retries = 0, restarts = 0
       PROVE  Filed(queue, listed, status', runner', hashKnown', part', final')
  <2>1. Filed(queue, listed, status, runner, hashKnown, part, final)
    BY <1>1, <1>11
  <2>2. \A j \in Jobs : Claims(queue, runner', j) <=> Claims(queue, runner, j)
    <3>1. \A o \in DOMAIN runner : runner'[o].aborted = runner[o].aborted
      BY <1>3
    <3> QED
      BY <1>5, <3>1 DEF Claims, RunnersOf
  <2>3. \A o \in DOMAIN runner' : FilesOf(o, runner', part', final')
    <3>1. ASSUME NEW o \in DOMAIN runner, o # r PROVE FilesOf(o, runner', part', final')
      <4>1. FilesOf(o, runner, part', final') /\ runner'[o] = runner[o]
        BY <1>3, <1>11, <3>1 DEF DiskStep
      <4> QED
        BY <4>1 DEF FilesOf
    <3> QED
      BY <1>3, <1>11, <3>1
  <2>4. \A j \in Jobs : Claims(queue, runner, j) /\ final'[FileOf[j]] # "good" =>
          /\ j \in listed /\ status'[j] \in Active
          /\ \A i \in Jobs \ {j} : Claims(queue, runner, i) => FileOf[i] # FileOf[j]
    <3> SUFFICES ASSUME NEW j \in Jobs, Claims(queue, runner, j), final'[FileOf[j]] # "good"
                 PROVE  /\ j \in listed /\ status'[j] \in Active
                        /\ \A i \in Jobs \ {j} : Claims(queue, runner, i) => FileOf[i] # FileOf[j]
      OBVIOUS
    <3>1. FileOf[j] \in Shards
      BY JobsAssumption
    <3>2. final[FileOf[j]] # "good"
      BY <1>11, <3>1 DEF DiskStep
    <3>3. /\ j \in listed /\ status[j] \in Active
          /\ \A i \in Jobs \ {j} : Claims(queue, runner, i) => FileOf[i] # FileOf[j]
      BY <2>1, <3>2 DEF Filed
    <3>4. CASE j = r[1]
      <4>1. ~InQueue(queue, j) /\ \A o \in RunnersOf(runner, j) : o = r
        <5>1. Single(queue, controller, runner)
          BY <1>1, <1>11
        <5>2. r \in RunnersOf(runner, j)
          BY <3>4 DEF RunnersOf
        <5>3. ~InQueue(queue, j)
          BY <5>1, <5>2 DEF Single
        <5>4. ASSUME NEW o \in RunnersOf(runner, j) PROVE o = r
          <6>1. o \in DOMAIN runner /\ o[1] = r[1] /\ o[2] = r[2]
            BY <3>4, <5>1 DEF RunnersOf, Single
          <6>2. o \in Jobs \X (Nat \ {0}) /\ r \in Jobs \X (Nat \ {0})
            BY <1>1, <6>1 DEF PumpFrom
          <6> QED
            BY <6>1, <6>2
        <5> QED
          BY <5>3, <5>4
      <4>2. ~runner[r].aborted
        BY <4>1 DEF Claims
      <4> QED
        BY <1>4, <1>11, <3>3, <3>4, <4>2 DEF Shard
    <3>5. CASE j # r[1]
      BY <1>4, <3>3, <3>5
    <3> QED
      BY <3>4, <3>5
  <2>5. \A f \in Shards : final'[f] \in {"none", "good"}
    BY <1>11 DEF DiskStep
  <2>6. \A j \in Jobs : InQueue(queue, j) \/ RunnersOf(runner', j) # {} => j \in hashKnown'
    BY <1>5, <2>1 DEF Filed
  <2> QED
    BY <2>2, <2>3, <2>4, <2>5, <2>6 DEF Filed
<1>12. NoIdleSlot'
  BY <1>1 DEF NoIdleSlot
<1>13. Mid(queue', listed', used', status', controller', runner', hashKnown', part', final',
           saved', retries', restarts')
  BY <1>7, <1>8, <1>9, <1>10, <1>11 DEF Mid, Frame
<1> QED
  BY <1>6, <1>12, <1>13 DEF HubInv

\* A runner leaves runDownload.
LEMMA FinishKeeps ==
  ASSUME HubInv, NEW r \in DOMAIN runner, Frame, NEW x \in Statuses, Finish(r, x),
         x \notin Active \/ (runner[r].at = "register" /\ x = status[r[1]]),
         DiskTypes, DiskStep(r)
  PROVE  HubInv'
<1>1. /\ PumpFrom(queue, controller, runner) /\ RunnersOK(runner)
      /\ Known(queue, listed, used, runner, saved) /\ Attended(queue, listed, status, runner)
      /\ retries = 0 => Single(queue, controller, runner)
      /\ retries = 0 /\ restarts = 0 =>
           Filed(queue, listed, status, runner, hashKnown, part, final)
      /\ PlainTypes
  BY DEF HubInv, Mid
<1>2. r[1] \in Jobs /\ \A o \in DOMAIN runner : o[1] \in Jobs
  BY <1>1 DEF PumpFrom
<1>3. PICK c : c = [controller EXCEPT ![r[1]] = 0]
  OBVIOUS
<1>4. PICK u : u = Restrict(runner, DOMAIN runner \ {r})
  OBVIOUS
<1>5. /\ status' = [status EXCEPT ![r[1]] = x] /\ hashKnown' = hashKnown \ {r[1]}
      /\ Pump(queue, listed', status', c, u)
  BY <1>3, <1>4 DEF Finish, Frame
<1>6. /\ DOMAIN u = DOMAIN runner \ {r} /\ \A o \in DOMAIN u : u[o] = runner[o]
  BY <1>4 DEF Restrict
<1>7. /\ c \in [Jobs -> Nat] /\ c[r[1]] = 0 /\ \A j \in Jobs \ {r[1]} : c[j] = controller[j]
  BY <1>1, <1>2, <1>3 DEF PumpFrom
<1>8. /\ status' \in [Jobs -> Statuses] /\ status'[r[1]] = x
      /\ \A j \in Jobs \ {r[1]} : status'[j] = status[j]
  BY <1>1, <1>2, <1>5 DEF PlainTypes
<1>9. \A j : RunnersOf(u, j) = RunnersOf(runner, j) \ {r}
  BY <1>6 DEF RunnersOf
<1>10. PlainTypes'
  BY <1>1, <1>5, <1>8 DEF PlainTypes, Frame, DiskTypes
<1>11. PumpFrom(queue, c, u)
  <2>1. IsFiniteSet(DOMAIN runner \ {r})
    BY <1>1, FS_RemoveElement DEF PumpFrom
  <2>2. Cardinality(Holders(c)) <= Cardinality(Holders(controller))
        /\ Cardinality(Holders(controller)) \in Nat
    BY <1>1, <1>2, <1>3, HoldersOf DEF PumpFrom
  <2>3. Cardinality(Holders(c)) \in Nat
    BY <1>2, <1>7, HoldersOf
  <2>4. Cardinality(Holders(c)) <= MaxConcurrent
    BY <1>1, <2>2, <2>3, BoundsAssumption DEF PumpFrom
  <2>5. \A j \in Jobs : c[j] # 0 => <<j, c[j]>> \in DOMAIN u
    <3> SUFFICES ASSUME NEW j \in Jobs, c[j] # 0 PROVE <<j, c[j]>> \in DOMAIN runner \ {r}
      BY <1>6
    <3>1. j # r[1] /\ c[j] = controller[j]
      BY <1>7
    <3>2. <<j, c[j]>> \in DOMAIN runner
      BY <1>1, <3>1 DEF PumpFrom
    <3> QED
      BY <3>1, <3>2
  <2> QED
    BY <1>1, <1>6, <1>7, <2>1, <2>4, <2>5 DEF PumpFrom
<1>12. RunnersOK(u)
  BY <1>1, <1>6 DEF RunnersOK
<1>13. Known(queue, listed, used, u, saved)
  BY <1>1, <1>9 DEF Known
<1>14. Attended(queue, listed, status', u)
  <2> SUFFICES ASSUME NEW j \in listed, status'[j] \in Active
               PROVE  \/ \E o \in RunnersOf(u, j) : u[o].at # "register"
                      \/ status'[j] = "queued" /\ InQueue(queue, j)
    BY DEF Attended
  <2>1. j \in Jobs
    BY <1>1 DEF PlainTypes
  <2>2. status'[j] = status[j] /\ (j = r[1] => runner[r].at = "register")
    BY <1>8, <2>1
  <2>3. CASE status[j] = "queued" /\ InQueue(queue, j)
    BY <2>2, <2>3
  <2>4. CASE \E o \in RunnersOf(runner, j) : runner[o].at # "register"
    <3>1. PICK o \in RunnersOf(runner, j) : runner[o].at # "register"
      BY <2>4
    <3>2. o # r
      BY <2>2, <3>1 DEF RunnersOf
    <3>3. o \in RunnersOf(u, j) /\ u[o] = runner[o]
      BY <1>6, <1>9, <3>2 DEF RunnersOf
    <3> QED
      BY <3>1, <3>3
  <2> QED
    BY <1>1, <2>2, <2>3, <2>4 DEF Attended
<1>15. ASSUME retries = 0
       PROVE  /\ Single(queue, c, u)
              /\ RunnersOf(u, r[1]) = {} /\ ~InQueue(queue, r[1])
  <2>1. Single(queue, controller, runner)
    BY <1>1, <1>15
  <2>2. ~InQueue(queue, r[1])
    BY <1>2, <2>1 DEF Single, RunnersOf
  <2>3. \A o \in DOMAIN runner : o # r => o[1] # r[1]
    <3>1. \A o \in DOMAIN runner : o \in Jobs \X (Nat \ {0})
      BY <1>1 DEF PumpFrom
    <3>2. \A o \in DOMAIN runner : o[1] = r[1] => o[2] = r[2]
      BY <2>1 DEF Single
    <3> QED
      BY <3>1, <3>2
  <2>4. RunnersOf(u, r[1]) = {}
    BY <1>6, <2>3 DEF RunnersOf
  <2>5. \A o \in DOMAIN u : c[o[1]] = o[2]
    BY <1>2, <1>6, <1>7, <2>1, <2>3 DEF Single
  <2>6. \A j \in Jobs : InQueue(queue, j) => RunnersOf(u, j) = {}
    BY <1>9, <2>1 DEF Single
  <2>7. \A a, b \in DOMAIN queue : queue[a] = queue[b] => a = b
    BY <2>1 DEF Single
  <2> QED
    BY <2>2, <2>4, <2>5, <2>6, <2>7 DEF Single
<1>16. ASSUME retries = 0, restarts = 0
       PROVE  Filed(queue, listed, status', u, hashKnown', part', final')
  <2>1. Filed(queue, listed, status, runner, hashKnown, part, final)
    BY <1>1, <1>16
  <2>2. RunnersOf(u, r[1]) = {} /\ ~InQueue(queue, r[1])
    BY <1>15, <1>16
  <2>3. \A j \in Jobs : Claims(queue, u, j) => Claims(queue, runner, j) /\ j # r[1]
    <3>1. \A o \in DOMAIN u : u[o].aborted = runner[o].aborted
      BY <1>6
    <3> QED
      BY <1>9, <2>2, <3>1 DEF Claims, RunnersOf
  <2>4. \A o \in DOMAIN u : FilesOf(o, u, part', final')
    <3> SUFFICES ASSUME NEW o \in DOMAIN u PROVE FilesOf(o, u, part', final')
      OBVIOUS
    <3>1. FilesOf(o, runner, part', final') /\ u[o] = runner[o]
      BY <1>6, <1>16 DEF DiskStep
    <3> QED
      BY <3>1 DEF FilesOf
  <2>5. \A f \in Shards : final'[f] \in {"none", "good"}
    BY <1>16 DEF DiskStep
  <2>6. \A j \in Jobs : final'[FileOf[j]] # "good" => final[FileOf[j]] # "good"
    BY <1>16, JobsAssumption DEF DiskStep
  <2>7. \A j \in Jobs : InQueue(queue, j) \/ RunnersOf(u, j) # {} => j \in hashKnown'
    BY <1>5, <1>9, <2>1, <2>2 DEF Filed
  <2>8. \A j \in Jobs : Claims(queue, u, j) /\ final'[FileOf[j]] # "good" =>
          /\ j \in listed /\ status'[j] \in Active
          /\ \A i \in Jobs \ {j} : Claims(queue, u, i) => FileOf[i] # FileOf[j]
    BY <1>8, <2>1, <2>3, <2>6 DEF Filed
  <2> QED
    BY <2>4, <2>5, <2>7, <2>8 DEF Filed
<1>17. Mid(queue, listed', used', status', c, u, hashKnown', part', final', saved', retries',
           restarts')
  BY <1>11, <1>12, <1>13, <1>14, <1>15, <1>16 DEF Mid, Frame
<1> QED
  BY <1>5, <1>10, <1>17, PumpEnds

\* A runner that is not aborted has an active job while its shard is missing, and
\* nobody else is to fetch the shard.
LEMMA RunnerClaims ==
  ASSUME HubInv, retries = 0, restarts = 0, NEW r \in DOMAIN runner, ~runner[r].aborted,
         final[Shard(r)] # "good"
  PROVE  /\ status[r[1]] \in Active
         /\ \A o \in DOMAIN runner \ {r} : Shard(o) = Shard(r) => runner[o].aborted
<1>1. /\ PumpFrom(queue, controller, runner) /\ Single(queue, controller, runner)
      /\ Filed(queue, listed, status, runner, hashKnown, part, final) /\ RunnersOK(runner)
  BY DEF HubInv, Mid
<1>2. \A o \in DOMAIN runner : o \in Jobs \X (Nat \ {0}) /\ o[1] \in Jobs
  BY <1>1 DEF PumpFrom
<1>3. \A o \in DOMAIN runner : ~runner[o].aborted => Claims(queue, runner, o[1])
  BY DEF Claims, RunnersOf
<1>4. /\ status[r[1]] \in Active
      /\ \A i \in Jobs \ {r[1]} : Claims(queue, runner, i) => FileOf[i] # FileOf[r[1]]
  BY <1>1, <1>2, <1>3 DEF Filed, Shard
<1>5. \A o \in DOMAIN runner \ {r} : o[1] # r[1]
  <2>1. \A o \in DOMAIN runner : o[1] = r[1] => o[2] = r[2]
    BY <1>1 DEF Single
  <2> QED
    BY <1>2, <2>1
<1>6. \A o \in DOMAIN runner \ {r} : Shard(o) = Shard(r) => runner[o].aborted
  BY <1>2, <1>3, <1>4, <1>5 DEF Shard
<1> QED
  BY <1>4, <1>6

\* What is known of runner r and of the files, for the cases below.
LEMMA RunnerFacts ==
  ASSUME HubInv, NEW r \in DOMAIN runner
  PROVE  /\ runner[r] \in RunnerRecord /\ r[1] \in Jobs /\ Shard(r) \in Shards
         /\ runner[r].at = "backoff" => runner[r].attempt < MaxAttempts
         /\ status[r[1]] \in Statuses
         /\ hashKnown \subseteq Jobs /\ registered \in BOOLEAN
         /\ part \in [Shards -> Contents] /\ final \in [Shards -> Contents]
         /\ retries = 0 /\ restarts = 0 =>
              /\ \A f \in Shards : final[f] \in {"none", "good"}
              /\ r[1] \in hashKnown /\ FilesOf(r, runner, part, final)
<1>1. /\ PumpFrom(queue, controller, runner) /\ RunnersOK(runner) /\ PlainTypes
      /\ retries = 0 /\ restarts = 0 =>
           Filed(queue, listed, status, runner, hashKnown, part, final)
  BY DEF HubInv, Mid
<1>2. r[1] \in Jobs
  BY <1>1 DEF PumpFrom
<1>3. Shard(r) \in Shards
  BY <1>2, JobsAssumption DEF Shard
<1>4. r \in RunnersOf(runner, r[1])
  BY DEF RunnersOf
<1>5. retries = 0 /\ restarts = 0 =>
        /\ \A f \in Shards : final[f] \in {"none", "good"}
        /\ r[1] \in hashKnown /\ FilesOf(r, runner, part, final)
  BY <1>1, <1>2, <1>4 DEF Filed
<1> QED
  BY <1>1, <1>2, <1>3, <1>5 DEF RunnersOK, PlainTypes

\* Go changes the place of the runner and nothing else.
LEMMA GoMoves ==
  ASSUME HubInv, NEW r \in DOMAIN runner, NEW s \in RunnerSteps, Go(r, s)
  PROVE  \E v \in RunnerRecord :
           /\ runner' = [runner EXCEPT ![r] = v] /\ v.at = s
           /\ v.attempt = runner[r].attempt /\ v.aborted = runner[r].aborted
           /\ v.checks = runner[r].checks
<1>1. runner[r] \in RunnerRecord
  BY RunnerFacts
<1>2. PICK v : v = [runner[r] EXCEPT !.at = s]
  OBVIOUS
<1>3. v \in RunnerRecord /\ v.at = s /\ v.attempt = runner[r].attempt
      /\ v.aborted = runner[r].aborted /\ v.checks = runner[r].checks
  BY <1>1, <1>2 DEF RunnerRecord
<1>4. runner' = [runner EXCEPT ![r] = v]
  BY <1>2 DEF Go
<1> QED
  BY <1>3, <1>4

\* A runner meets an error, with the files as they were.
LEMMA CatchKeeps ==
  ASSUME HubInv, NEW r \in DOMAIN runner, Frame, NEW again \in BOOLEAN, Catch(r, again),
         part' = part, final' = final, registered' \in BOOLEAN
  PROVE  HubInv'
<1>1. DiskTypes /\ DiskStep(r)
  BY DiskSame
<1>2. {"cancelled", "failed", "queued"} \subseteq Statuses /\ "queued" \in Active
      /\ "cancelled" \notin Active /\ "failed" \notin Active
  BY DEF Statuses, Active
<1>3. CASE Finish(r, "cancelled")
  BY <1>1, <1>2, <1>3, FinishKeeps
<1>4. CASE Finish(r, "failed")
  BY <1>1, <1>2, <1>4, FinishKeeps
<1>5. CASE /\ runner[r].attempt < MaxAttempts
           /\ status' = [status EXCEPT ![r[1]] = "queued"]
           /\ Go(r, "backoff") /\ UNCHANGED hashKnown
  <2>1. PICK v \in RunnerRecord : /\ runner' = [runner EXCEPT ![r] = v] /\ v.at = "backoff"
                                  /\ v.attempt = runner[r].attempt /\ v.aborted = runner[r].aborted
    BY <1>5, GoMoves DEF RunnerSteps
  <2>2. FilesOf(r, runner', part', final')
    <3>1. runner'[r].at = "backoff"
      BY <2>1
    <3> QED
      BY <3>1 DEF FilesOf
  <2>3. hashKnown' \subseteq Jobs /\ UNCHANGED <<queue, controller>>
    BY <1>5, RunnerFacts DEF Go
  <2> QED
    BY <1>1, <1>2, <1>5, <2>1, <2>2, <2>3, MoveKeeps
<1> QED
  BY <1>3, <1>4, <1>5 DEF Catch

\* A runner has its shard under the final name.
LEMMA CompleteKeeps ==
  ASSUME HubInv, NEW r \in DOMAIN runner, Frame, CompleteDownload(r), DiskTypes, DiskStep(r),
         retries = 0 /\ restarts = 0 => final'[Shard(r)] = "good"
  PROVE  HubInv'
<1>1. "completed" \in Statuses /\ "completed" \notin Active
  BY DEF Statuses, Active
<1>2. CASE Finish(r, "completed")
  BY <1>1, <1>2, FinishKeeps
<1>3. CASE /\ status' = [status EXCEPT ![r[1]] = "completed"]
           /\ Go(r, "register") /\ UNCHANGED hashKnown
  <2>1. PICK v \in RunnerRecord : /\ runner' = [runner EXCEPT ![r] = v] /\ v.at = "register"
                                  /\ v.aborted = runner[r].aborted
    BY <1>3, GoMoves DEF RunnerSteps
  <2>2. retries = 0 /\ restarts = 0 => FilesOf(r, runner', part', final')
    <3>1. runner'[r].at = "register"
      BY <2>1
    <3> QED
      BY <3>1 DEF FilesOf
  <2>3. hashKnown' \subseteq Jobs /\ UNCHANGED <<queue, controller>>
    BY <1>3, RunnerFacts DEF Go
  <2> QED
    BY <1>1, <1>3, <2>1, <2>2, <2>3, MoveKeeps
<1> QED
  BY <1>2, <1>3 DEF CompleteDownload

\* A runner has counted all bytes of the .part file.
LEMMA ReceivedKeeps ==
  ASSUME HubInv, NEW r \in DOMAIN runner, Frame, NEW h \in BOOLEAN, Received(r, h),
         DiskTypes, DiskStep(r), retries = 0 /\ restarts = 0 => h /\ part'[Shard(r)] \in Full
  PROVE  HubInv'
<1>1. "verifying" \in Statuses /\ "verifying" \in Active /\ {"hash", "rename"} \subseteq RunnerSteps
  BY DEF Statuses, Active, RunnerSteps
<1>2. hashKnown' \subseteq Jobs /\ hashKnown' = hashKnown /\ UNCHANGED <<queue, controller>>
      /\ status[r[1]] \in Statuses
  BY RunnerFacts DEF Go, Received
<1>3. CASE h
  <2>1. status' = [status EXCEPT ![r[1]] = "verifying"] /\ Go(r, "hash")
    BY <1>3 DEF Received
  <2>2. PICK v \in RunnerRecord : /\ runner' = [runner EXCEPT ![r] = v] /\ v.at = "hash"
                                  /\ v.aborted = runner[r].aborted
    BY <1>1, <2>1, GoMoves
  <2>3. retries = 0 /\ restarts = 0 => FilesOf(r, runner', part', final')
    <3>1. runner'[r].at = "hash"
      BY <2>2
    <3> QED
      BY <3>1 DEF FilesOf
  <2> QED
    BY <1>1, <1>2, <2>1, <2>2, <2>3, MoveKeeps
<1>4. CASE ~h
  <2>1. status' = status /\ Go(r, "rename") /\ ~(retries = 0 /\ restarts = 0)
    BY <1>4 DEF Received
  <2>2. PICK v \in RunnerRecord : /\ runner' = [runner EXCEPT ![r] = v] /\ v.at = "rename"
                                  /\ v.aborted = runner[r].aborted
    BY <1>1, <2>1, GoMoves
  <2>3. status' = [status EXCEPT ![r[1]] = status[r[1]]]
    BY <2>1 DEF HubInv, PlainTypes
  <2> QED
    BY <1>2, <2>1, <2>2, <2>3, MoveKeeps
<1> QED
  BY <1>3, <1>4

\* Between its answer from the Hub and the last byte a runner may write to the .part
\* file of its shard: no other runner relies on it.
LEMMA OnlyWriter ==
  ASSUME HubInv, retries = 0, restarts = 0, NEW r \in DOMAIN runner, ~runner[r].aborted,
         runner[r].at \in {"response", "body"},
         NEW pt, \A f \in Shards \ {Shard(r)} : pt[f] = part[f]
  PROVE  \A o \in DOMAIN runner \ {r} : FilesOf(o, runner, pt, final)
<1>1. final[Shard(r)] = "none" /\ part[Shard(r)] \notin Full
  BY RunnerFacts DEF FilesOf
<1>2. \A o \in DOMAIN runner \ {r} : Shard(o) = Shard(r) => runner[o].aborted
  BY <1>1, RunnerClaims
<1> SUFFICES ASSUME NEW o \in DOMAIN runner \ {r} PROVE FilesOf(o, runner, pt, final)
  OBVIOUS
<1>3. FilesOf(o, runner, part, final) /\ Shard(o) \in Shards
  BY RunnerFacts
<1>4. CASE Shard(o) # Shard(r)
  <2>1. pt[Shard(o)] = part[Shard(o)]
    BY <1>3, <1>4
  <2> QED
    BY <1>3, <2>1 DEF FilesOf
<1>5. CASE Shard(o) = Shard(r)
  <2>1. runner[o].aborted /\ runner[o].at \notin {"hash", "rename", "register"}
    BY <1>1, <1>2, <1>3, <1>5 DEF FilesOf, Full
  <2> QED
    BY <1>3, <2>1 DEF FilesOf
<1> QED
  BY <1>4, <1>5

\* The files on disk decide: done, to be hashed, or to be fetched.
LEMMA InspectFilesKeeps ==
  ASSUME HubInv, NEW r \in DOMAIN runner, InspectFiles(r)
  PROVE  HubInv'
<1>1. Frame /\ UNCHANGED <<part, final, registered>>
  BY DEF InspectFiles, Frame, diskVars
<1>2. /\ runner[r] \in RunnerRecord /\ r[1] \in Jobs /\ Shard(r) \in Shards
      /\ status[r[1]] \in Statuses /\ hashKnown \subseteq Jobs /\ registered' \in BOOLEAN
      /\ retries = 0 /\ restarts = 0 =>
           r[1] \in hashKnown /\ \A f \in Shards : final[f] \in {"none", "good"}
  BY <1>1, RunnerFacts
<1>3. DiskTypes /\ DiskStep(r)
  BY <1>1, <1>2, DiskSame
<1>4. PICK h \in (IF r[1] \in hashKnown THEN {TRUE} ELSE BOOLEAN) :
        \/ /\ final[Shard(r)] \in Full
           /\ CompleteDownload(r)
        \/ /\ final[Shard(r)] \notin Full /\ part[Shard(r)] \in Full
           /\ Received(r, h)
        \/ /\ final[Shard(r)] \notin Full /\ part[Shard(r)] \notin Full
           /\ runner' = [runner EXCEPT ![r].at = "response", ![r].checks = h]
           /\ UNCHANGED <<queue, controller>>
           /\ hashKnown' = IF h THEN hashKnown \cup {r[1]} ELSE hashKnown
           /\ UNCHANGED status
        \/ Catch(r, FALSE)
  BY DEF InspectFiles
<1>5. h \in BOOLEAN /\ (retries = 0 /\ restarts = 0 => h)
  BY <1>2, <1>4
<1>6. CASE final[Shard(r)] \in Full /\ CompleteDownload(r)
  <2>1. retries = 0 /\ restarts = 0 => final'[Shard(r)] = "good"
    BY <1>1, <1>2, <1>6 DEF Full
  <2> QED
    BY <1>1, <1>3, <1>6, <2>1, CompleteKeeps
<1>7. CASE part[Shard(r)] \in Full /\ Received(r, h)
  BY <1>1, <1>3, <1>5, <1>7, ReceivedKeeps
<1>8. CASE /\ final[Shard(r)] \notin Full /\ part[Shard(r)] \notin Full
           /\ runner' = [runner EXCEPT ![r].at = "response", ![r].checks = h]
           /\ UNCHANGED <<queue, controller>>
           /\ hashKnown' = IF h THEN hashKnown \cup {r[1]} ELSE hashKnown
           /\ UNCHANGED status
  <2>1. PICK v : v = [runner[r] EXCEPT !.at = "response", !.checks = h]
    OBVIOUS
  <2>2. v \in RunnerRecord /\ v.at = "response" /\ v.aborted = runner[r].aborted /\ v.checks = h
    BY <1>2, <1>5, <2>1 DEF RunnerRecord, RunnerSteps
  <2>3. runner' = [runner EXCEPT ![r] = v]
    BY <1>8, <2>1
  <2>4. ASSUME retries = 0, restarts = 0
        PROVE  /\ FilesOf(r, runner', part', final')
               /\ ~runner[r].aborted => status[r[1]] \in Active
    <3>1. runner'[r] = v /\ v.checks
      BY <1>5, <2>2, <2>3, <2>4
    <3>2. final[Shard(r)] = "none"
      BY <1>2, <1>8, <2>4 DEF Full
    <3>3. FilesOf(r, runner', part', final')
      BY <1>1, <1>8, <2>2, <3>1, <3>2 DEF FilesOf
    <3> QED
      BY <2>4, <3>2, <3>3, RunnerClaims
  <2>5. status' = [status EXCEPT ![r[1]] = status[r[1]]]
    BY <1>8 DEF HubInv, PlainTypes
  <2>6. hashKnown \subseteq hashKnown' /\ hashKnown' \subseteq Jobs
    BY <1>2, <1>8
  <2> QED
    BY <1>1, <1>2, <1>3, <1>8, <2>2, <2>3, <2>4, <2>5, <2>6, MoveKeeps
<1>9. CASE Catch(r, FALSE)
  BY <1>1, <1>2, <1>9, CatchKeeps
<1> QED
  BY <1>4, <1>6, <1>7, <1>8, <1>9

\* The Hub answers and the .part file is opened.
LEMMA ResponseKeeps ==
  ASSUME HubInv, NEW r \in DOMAIN runner, Response(r)
  PROVE  HubInv'
<1>1. Frame /\ UNCHANGED <<final, registered>> /\ runner[r].at = "response"
  BY DEF Response, Frame
<1>2. /\ Shard(r) \in Shards /\ hashKnown \subseteq Jobs /\ registered' \in BOOLEAN
      /\ part \in [Shards -> Contents] /\ final \in [Shards -> Contents]
      /\ retries = 0 /\ restarts = 0 =>
           /\ FilesOf(r, runner, part, final)
           /\ \A f \in Shards : final[f] \in {"none", "good"}
  BY <1>1, RunnerFacts
<1>3. CASE (\E retryable \in BOOLEAN : Catch(r, retryable)) /\ UNCHANGED part
  BY <1>1, <1>2, <1>3, CatchKeeps
<1>4. CASE /\ ~runner[r].aborted
           /\ status' = [status EXCEPT ![r[1]] = "downloading"]
           /\ part' = [part EXCEPT ![Shard(r)] = "partial"]
           /\ Go(r, "body")
           /\ UNCHANGED hashKnown
  <2>1. PICK v \in RunnerRecord : /\ runner' = [runner EXCEPT ![r] = v] /\ v.at = "body"
                                  /\ v.aborted = runner[r].aborted /\ v.checks = runner[r].checks
    BY <1>4, GoMoves DEF RunnerSteps
  <2>2. /\ part'[Shard(r)] = "partial" /\ \A f \in Shards \ {Shard(r)} : part'[f] = part[f]
        /\ DiskTypes
    BY <1>1, <1>2, <1>4 DEF DiskTypes, Contents
  <2>3. DiskStep(r)
    BY <1>1, <1>2, <1>4, <2>2, OnlyWriter DEF DiskStep
  <2>4. ASSUME retries = 0, restarts = 0 PROVE FilesOf(r, runner', part', final')
    <3>1. runner[r].checks /\ final[Shard(r)] = "none"
      BY <1>1, <1>2, <1>4, <2>4 DEF FilesOf
    <3>2. runner'[r] = v
      BY <2>1
    <3> QED
      BY <1>1, <2>1, <2>2, <3>1, <3>2 DEF FilesOf, Full
  <2>5. "downloading" \in Statuses /\ "downloading" \in Active
    BY DEF Statuses, Active
  <2>6. UNCHANGED <<queue, controller>>
    BY <1>4 DEF Go
  <2> QED
    BY <1>1, <1>2, <1>4, <2>1, <2>2, <2>3, <2>4, <2>5, <2>6, MoveKeeps
<1> QED
  BY <1>3, <1>4 DEF Response

\* The stream ends; nobody has renamed the .part file under a transfer that counts.
LEMMA BodyKeeps ==
  ASSUME HubInv, NEW r \in DOMAIN runner, Body(r)
  PROVE  HubInv'
<1>1. Frame /\ UNCHANGED registered /\ runner[r].at = "body"
  BY DEF Body, Frame
<1>2. /\ Shard(r) \in Shards /\ runner[r].checks \in BOOLEAN /\ registered' \in BOOLEAN
      /\ part \in [Shards -> Contents] /\ final \in [Shards -> Contents]
      /\ retries = 0 /\ restarts = 0 =>
           /\ FilesOf(r, runner, part, final)
           /\ \A f \in Shards : final[f] \in {"none", "good"}
  BY <1>1, RunnerFacts DEF RunnerRecord
<1>3. CASE (\E retryable \in BOOLEAN : Catch(r, retryable)) /\ UNCHANGED <<part, final>>
  BY <1>1, <1>2, <1>3, CatchKeeps
<1>4. CASE /\ ~runner[r].aborted /\ part[Shard(r)] # "none"
           /\ \E d \in Delivered(r) : part' = [part EXCEPT ![Shard(r)] = d]
           /\ Received(r, runner[r].checks)
           /\ UNCHANGED final
  <2>1. PICK d \in Full : part' = [part EXCEPT ![Shard(r)] = d]
    BY <1>4 DEF Delivered, Full
  <2>2. /\ part'[Shard(r)] \in Full /\ \A f \in Shards \ {Shard(r)} : part'[f] = part[f]
        /\ DiskTypes
    BY <1>1, <1>2, <1>4, <2>1 DEF DiskTypes, Contents, Full
  <2>3. DiskStep(r)
    BY <1>1, <1>2, <1>4, <2>2, OnlyWriter DEF DiskStep
  <2>4. retries = 0 /\ restarts = 0 => runner[r].checks
    BY <1>1, <1>2 DEF FilesOf
  <2> QED
    BY <1>1, <1>2, <1>4, <2>2, <2>3, <2>4, ReceivedKeeps
<1>5. CASE /\ ~runner[r].aborted /\ part[Shard(r)] = "none"
           /\ final' = [final EXCEPT ![Shard(r)] = "bad"]
           /\ Received(r, runner[r].checks)
           /\ UNCHANGED part
  <2>1. ~(retries = 0 /\ restarts = 0)
    BY <1>1, <1>2, <1>5 DEF FilesOf
  <2>2. DiskTypes /\ DiskStep(r)
    BY <1>1, <1>2, <1>5, <2>1 DEF DiskTypes, DiskStep, Contents
  <2> QED
    BY <1>1, <1>2, <1>5, <2>1, <2>2, ReceivedKeeps
<1> QED
  BY <1>3, <1>4, <1>5 DEF Body

\* The hash is compared.
LEMMA HashKeeps ==
  ASSUME HubInv, NEW r \in DOMAIN runner, Hash(r)
  PROVE  HubInv'
<1>1. Frame /\ UNCHANGED <<part, final, registered>> /\ runner[r].at = "hash"
  BY DEF Hash, Frame, diskVars
<1>2. /\ status[r[1]] \in Statuses /\ hashKnown \subseteq Jobs /\ registered' \in BOOLEAN
  BY <1>1, RunnerFacts
<1>3. CASE Catch(r, FALSE)
  BY <1>1, <1>2, <1>3, CatchKeeps
<1>4. CASE part[Shard(r)] = "good" /\ Go(r, "rename") /\ UNCHANGED <<status, hashKnown>>
  <2>1. PICK v \in RunnerRecord : /\ runner' = [runner EXCEPT ![r] = v] /\ v.at = "rename"
                                  /\ v.aborted = runner[r].aborted
    BY <1>4, GoMoves DEF RunnerSteps
  <2>2. DiskTypes /\ DiskStep(r)
    BY <1>1, <1>2, DiskSame
  <2>3. FilesOf(r, runner', part', final')
    <3>1. runner'[r].at = "rename"
      BY <2>1
    <3> QED
      BY <1>1, <1>4, <3>1 DEF FilesOf
  <2>4. status' = [status EXCEPT ![r[1]] = status[r[1]]]
    BY <1>4 DEF HubInv, PlainTypes
  <2>5. retries = 0 /\ restarts = 0 =>
          (~runner[r].aborted /\ final'[Shard(r)] # "good" => status[r[1]] \in Active)
    BY <1>1, RunnerClaims
  <2>6. UNCHANGED <<queue, controller>>
    BY <1>4 DEF Go
  <2> QED
    BY <1>1, <1>2, <1>4, <2>1, <2>2, <2>3, <2>4, <2>5, <2>6, MoveKeeps
<1> QED
  BY <1>3, <1>4 DEF Hash

\* The final name; who hashes or renames the same shard finds it good.
LEMMA RenameKeeps ==
  ASSUME HubInv, NEW r \in DOMAIN runner, Rename(r)
  PROVE  HubInv'
<1>1. Frame /\ UNCHANGED registered /\ runner[r].at = "rename"
  BY DEF Rename, Frame
<1>2. /\ Shard(r) \in Shards /\ registered' \in BOOLEAN
      /\ part \in [Shards -> Contents] /\ final \in [Shards -> Contents]
      /\ retries = 0 /\ restarts = 0 =>
           /\ FilesOf(r, runner, part, final)
           /\ \A f \in Shards : final[f] \in {"none", "good"}
  BY <1>1, RunnerFacts
<1>3. CASE Catch(r, FALSE) /\ UNCHANGED <<part, final>>
  BY <1>1, <1>2, <1>3, CatchKeeps
<1>4. CASE /\ part[Shard(r)] # "none"
           /\ final' = [final EXCEPT ![Shard(r)] = part[Shard(r)]]
           /\ part' = [part EXCEPT ![Shard(r)] = "none"]
           /\ CompleteDownload(r)
  <2>1. /\ part'[Shard(r)] = "none" /\ final'[Shard(r)] = part[Shard(r)]
        /\ \A f \in Shards \ {Shard(r)} : part'[f] = part[f] /\ final'[f] = final[f]
        /\ DiskTypes
    BY <1>1, <1>2, <1>4 DEF DiskTypes, Contents
  <2>2. ASSUME retries = 0, restarts = 0 PROVE part[Shard(r)] = "good"
    BY <1>1, <1>2, <1>4, <2>2 DEF FilesOf
  <2>3. ASSUME retries = 0, restarts = 0, NEW o \in DOMAIN runner \ {r}
        PROVE  FilesOf(o, runner, part', final')
    <3>1. FilesOf(o, runner, part, final) /\ Shard(o) \in Shards
      BY <2>3, RunnerFacts
    <3>2. CASE Shard(o) # Shard(r)
      <4>1. part'[Shard(o)] = part[Shard(o)] /\ final'[Shard(o)] = final[Shard(o)]
        BY <2>1, <3>1, <3>2
      <4> QED
        BY <3>1, <4>1 DEF FilesOf
    <3>3. CASE Shard(o) = Shard(r)
      <4>1. part'[Shard(o)] = "none" /\ final'[Shard(o)] = "good" /\ part[Shard(o)] = "good"
        BY <2>1, <2>2, <2>3, <3>3
      <4> QED
        BY <3>1, <4>1 DEF FilesOf, Full
    <3> QED
      BY <3>2, <3>3
  <2>4. DiskStep(r)
    <3>1. ASSUME retries = 0, restarts = 0, NEW f \in Shards
          PROVE  final'[f] \in {"none", "good"} /\ (final[f] = "good" => final'[f] = "good")
      BY <1>2, <2>1, <2>2, <3>1
    <3> QED
      BY <2>3, <3>1 DEF DiskStep
  <2> QED
    BY <1>1, <1>4, <2>1, <2>2, <2>4, CompleteKeeps
<1> QED
  BY <1>3, <1>4 DEF Rename

\* The end of completeDownload.
LEMMA RegisterKeeps ==
  ASSUME HubInv, NEW r \in DOMAIN runner, Register(r)
  PROVE  HubInv'
<1>1. Frame /\ UNCHANGED <<part, final>> /\ runner[r].at = "register"
  BY DEF Register, Frame
<1>2. status[r[1]] \in Statuses /\ registered \in BOOLEAN
  BY RunnerFacts
<1>3. CASE (\E retryable \in BOOLEAN : Catch(r, retryable)) /\ UNCHANGED registered
  BY <1>1, <1>2, <1>3, CatchKeeps
<1>4. CASE registered' = (registered \/ final[FirstShard] # "none") /\ Finish(r, status[r[1]])
  <2>1. registered' \in BOOLEAN
    BY <1>2, <1>4
  <2>2. DiskTypes /\ DiskStep(r)
    BY <1>1, <2>1, DiskSame
  <2> QED
    BY <1>1, <1>2, <1>4, <2>2, FinishKeeps
<1> QED
  BY <1>3, <1>4 DEF Register

\* The next attempt.
LEMMA BackoffKeeps ==
  ASSUME HubInv, NEW r \in DOMAIN runner, Backoff(r)
  PROVE  HubInv'
<1>1. Frame /\ UNCHANGED <<part, final, registered>> /\ runner[r].at = "backoff"
  BY DEF Backoff, Frame, diskVars
<1>2. /\ runner[r] \in RunnerRecord /\ status[r[1]] \in Statuses /\ hashKnown \subseteq Jobs
      /\ runner[r].attempt < MaxAttempts /\ registered' \in BOOLEAN
  BY <1>1, RunnerFacts
<1>3. DiskTypes /\ DiskStep(r)
  BY <1>1, <1>2, DiskSame
<1>4. CASE Finish(r, "cancelled")
  <2>1. "cancelled" \in Statuses /\ "cancelled" \notin Active
    BY DEF Statuses, Active
  <2> QED
    BY <1>1, <1>3, <1>4, <2>1, FinishKeeps
<1>5. CASE /\ runner' = [runner EXCEPT ![r].at = "files", ![r].attempt = @ + 1]
           /\ UNCHANGED <<queue, controller, status, hashKnown>>
  <2>1. PICK v : v = [runner[r] EXCEPT !.at = "files", !.attempt = @ + 1]
    OBVIOUS
  <2>2. runner[r].attempt + 1 \in 1 .. MaxAttempts
    <3>1. runner[r].attempt \in 1 .. MaxAttempts
      BY <1>2 DEF RunnerRecord
    <3> QED
      BY <1>2, <3>1, BoundsAssumption
  <2>3. v \in RunnerRecord /\ v.at = "files" /\ v.aborted = runner[r].aborted
    BY <1>2, <2>1, <2>2 DEF RunnerRecord, RunnerSteps
  <2>4. runner' = [runner EXCEPT ![r] = v]
    BY <1>5, <2>1
  <2>5. FilesOf(r, runner', part', final')
    <3>1. runner'[r].at = "files"
      BY <2>3, <2>4
    <3> QED
      BY <3>1 DEF FilesOf
  <2>6. status' = [status EXCEPT ![r[1]] = status[r[1]]]
    BY <1>5 DEF HubInv, PlainTypes
  <2>7. retries = 0 /\ restarts = 0 =>
          (~runner[r].aborted /\ final'[Shard(r)] # "good" => status[r[1]] \in Active)
    BY <1>1, RunnerClaims
  <2> QED
    BY <1>1, <1>2, <1>3, <1>5, <2>3, <2>4, <2>5, <2>6, <2>7, MoveKeeps
<1> QED
  BY <1>4, <1>5 DEF Backoff

\* The parts of the invariant, for the commands below.
LEMMA InvParts ==
  ASSUME HubInv
  PROVE  /\ PlainTypes /\ NoIdleSlot
         /\ PumpFrom(queue, controller, runner) /\ RunnersOK(runner)
         /\ Known(queue, listed, used, runner, saved)
         /\ Attended(queue, listed, status, runner)
         /\ retries = 0 => Single(queue, controller, runner)
         /\ retries = 0 /\ restarts = 0 =>
              Filed(queue, listed, status, runner, hashKnown, part, final)
BY DEF HubInv, Mid

\* A start: the id is new, and no other job is to fetch the shard.
LEMMA StartKeeps ==
  ASSUME HubInv, NEW j \in Jobs, StartDownload(j)
  PROVE  HubInv'
<1>1. /\ PlainTypes /\ PumpFrom(queue, controller, runner) /\ RunnersOK(runner)
      /\ Known(queue, listed, used, runner, saved)
      /\ Attended(queue, listed, status, runner)
      /\ retries = 0 => Single(queue, controller, runner)
      /\ retries = 0 /\ restarts = 0 =>
           Filed(queue, listed, status, runner, hashKnown, part, final)
  BY InvParts
<1>2. /\ j \notin used /\ \A i \in listed : FileOf[i] = FileOf[j] => status[i] = "completed"
      /\ used' = used \cup {j} /\ listed' = listed \cup {j} /\ hashKnown' = hashKnown \cup {j}
      /\ status' = [status EXCEPT ![j] = "queued"]
      /\ part' = part /\ final' = final /\ registered' = registered /\ saved' = saved
      /\ retries' = retries /\ restarts' = restarts
  BY DEF StartDownload, diskVars
<1>3. PICK q : q = Append(queue, j)
  OBVIOUS
<1>4. Pump(q, listed', status', controller, runner)
  BY <1>3 DEF StartDownload
<1>5. queue \in Seq(Jobs)
  BY <1>1 DEF PumpFrom
<1>6. /\ q \in Seq(Jobs)
      /\ DOMAIN queue = 1 .. Len(queue) /\ Len(queue) \in Nat
      /\ DOMAIN q = 1 .. Len(queue) + 1
      /\ \A i \in 1 .. Len(queue) : q[i] = queue[i]
      /\ q[Len(queue) + 1] = j
      /\ \A i \in Jobs : InQueue(q, i) <=> InQueue(queue, i) \/ i = j
  BY <1>3, <1>5, Appended
<1>7. "queued" \in Statuses /\ "queued" \in Active /\ "completed" \notin Active
  BY DEF Statuses, Active
<1>8. /\ status' \in [Jobs -> Statuses] /\ status'[j] = "queued"
      /\ \A i \in Jobs \ {j} : status'[i] = status[i]
  BY <1>1, <1>2, <1>7 DEF PlainTypes
<1>9. PlainTypes'
  BY <1>1, <1>2, <1>8 DEF PlainTypes
<1>10. PumpFrom(q, controller, runner)
  BY <1>1, <1>6 DEF PumpFrom
<1>11. Known(q, listed', used', runner, saved')
  BY <1>1, <1>2, <1>6 DEF Known
<1>12. listed \subseteq Jobs
  BY <1>1 DEF PlainTypes
<1>13. Attended(q, listed', status', runner)
  BY <1>1, <1>2, <1>6, <1>8, <1>12 DEF Attended
<1>14. ~InQueue(queue, j) /\ RunnersOf(runner, j) = {}
  BY <1>1, <1>2 DEF Known
<1>15. ASSUME retries = 0 PROVE Single(q, controller, runner)
  <2>1. Single(queue, controller, runner)
    BY <1>1, <1>15
  <2>2. \A a, b \in DOMAIN q : q[a] = q[b] => a = b
    <3> DEFINE n == Len(queue)
    <3> HIDE DEF n
    <3>1. /\ DOMAIN queue = 1 .. n /\ DOMAIN q = 1 .. n + 1 /\ n \in Nat
          /\ \A i \in 1 .. n : q[i] = queue[i]
          /\ q[n + 1] = j
      BY <1>6 DEF n
    <3>2. \A a \in 1 .. n + 1 : a \in 1 .. n \/ a = n + 1
      BY <3>1
    <3>3. \A a \in 1 .. n : q[a] # j
      BY <1>14, <3>1 DEF InQueue
    <3>4. \A a, b \in 1 .. n : q[a] = q[b] => a = b
      BY <2>1, <3>1 DEF Single
    <3> QED
      BY <3>1, <3>2, <3>3, <3>4
  <2> QED
    BY <1>6, <1>14, <2>1, <2>2 DEF Single
<1>16. ASSUME retries = 0, restarts = 0
       PROVE  Filed(q, listed', status', runner, hashKnown', part', final')
  <2>1. Filed(queue, listed, status, runner, hashKnown, part, final)
    BY <1>1, <1>16
  <2>2. \A i \in Jobs : Claims(q, runner, i) <=> Claims(queue, runner, i) \/ i = j
    BY <1>6 DEF Claims
  <2>3. \A i \in Jobs : Claims(queue, runner, i) => i # j
    BY <1>14 DEF Claims
  <2>4. \A i \in Jobs : Claims(queue, runner, i) /\ final[FileOf[i]] # "good" =>
          /\ i \in listed /\ status[i] \in Active
          /\ \A o \in Jobs \ {i} : Claims(queue, runner, o) => FileOf[o] # FileOf[i]
    BY <2>1 DEF Filed
  <2>5. \A i \in Jobs : Claims(queue, runner, i) /\ final[FileOf[i]] # "good" =>
          FileOf[i] # FileOf[j]
    BY <1>2, <1>7, <2>4
  <2>6. ASSUME NEW i \in Jobs, Claims(q, runner, i), final[FileOf[i]] # "good"
        PROVE  /\ i \in listed' /\ status'[i] \in Active
               /\ \A o \in Jobs \ {i} : Claims(q, runner, o) => FileOf[o] # FileOf[i]
    <3>1. CASE i = j
      <4>1. \A o \in Jobs \ {i} : Claims(q, runner, o) => FileOf[o] # FileOf[i]
        BY <2>2, <2>5, <2>6, <3>1
      <4> QED
        BY <1>2, <1>7, <1>8, <3>1, <4>1
    <3>2. CASE i # j
      <4>1. Claims(queue, runner, i)
        BY <2>2, <2>6, <3>2
      <4>2. \A o \in Jobs \ {i} : Claims(q, runner, o) => FileOf[o] # FileOf[i]
        BY <2>2, <2>4, <2>5, <2>6, <4>1
      <4>3. i \in listed /\ status[i] \in Active
        BY <2>4, <2>6, <4>1
      <4> QED
        BY <1>2, <1>8, <3>2, <4>2, <4>3
    <3> QED
      BY <3>1, <3>2
  <2>7. \A i \in Jobs : InQueue(q, i) \/ RunnersOf(runner, i) # {} => i \in hashKnown'
    BY <1>2, <1>6, <2>1 DEF Filed
  <2>8. \A o \in DOMAIN runner : FilesOf(o, runner, part', final')
    BY <1>2, <2>1 DEF Filed
  <2>9. \A f \in Shards : final'[f] \in {"none", "good"}
    BY <1>2, <2>1 DEF Filed
  <2> QED
    BY <1>2, <2>6, <2>7, <2>8, <2>9 DEF Filed
<1>17. Mid(q, listed', used', status', controller, runner, hashKnown', part', final', saved',
           retries', restarts')
  BY <1>1, <1>2, <1>10, <1>11, <1>13, <1>15, <1>16 DEF Mid
<1> QED
  BY <1>4, <1>9, <1>17, PumpEnds

\* A retry: the job may get a second runner.
LEMMA RetryKeeps ==
  ASSUME HubInv, NEW j \in Jobs, RetryDownload(j)
  PROVE  HubInv'
<1>1. /\ PlainTypes /\ PumpFrom(queue, controller, runner) /\ RunnersOK(runner)
      /\ Known(queue, listed, used, runner, saved)
      /\ Attended(queue, listed, status, runner)
  BY InvParts
<1>2. /\ j \in listed /\ used' = used /\ listed' = listed /\ hashKnown' = hashKnown
      /\ status' = [status EXCEPT ![j] = "queued"]
      /\ part' = part /\ final' = final /\ registered' = registered /\ saved' = saved
      /\ retries' = retries + 1 /\ restarts' = restarts /\ MayDisturb
  BY DEF RetryDownload, diskVars
<1>3. PICK q : q = Append(queue, j)
  OBVIOUS
<1>4. Pump(q, listed', status', controller, runner)
  BY <1>2, <1>3 DEF RetryDownload
<1>5. queue \in Seq(Jobs)
  BY <1>1 DEF PumpFrom
<1>6. /\ q \in Seq(Jobs)
      /\ \A i \in Jobs : InQueue(q, i) <=> InQueue(queue, i) \/ i = j
  BY <1>3, <1>5, Appended
<1>7. "queued" \in Statuses
  BY DEF Statuses, Active
<1>8. /\ status' \in [Jobs -> Statuses] /\ status'[j] = "queued"
      /\ \A i \in Jobs \ {j} : status'[i] = status[i]
  BY <1>1, <1>2, <1>7 DEF PlainTypes
<1>9. retries' # 0 /\ retries' \in 0 .. MaxDisturbances
  <2>1. retries \in 0 .. MaxDisturbances /\ restarts \in 0 .. MaxDisturbances
    BY <1>1 DEF PlainTypes
  <2> QED
    BY <1>2, <2>1, BoundsAssumption DEF MayDisturb
<1>10. PlainTypes'
  BY <1>1, <1>2, <1>8, <1>9 DEF PlainTypes
<1>11. PumpFrom(q, controller, runner)
  BY <1>1, <1>6 DEF PumpFrom
<1>12. Known(q, listed', used', runner, saved')
  BY <1>1, <1>2, <1>6 DEF Known
<1>13. listed \subseteq Jobs
  BY <1>1 DEF PlainTypes
<1>14. Attended(q, listed', status', runner)
  BY <1>1, <1>2, <1>6, <1>8, <1>13 DEF Attended
<1>15. Mid(q, listed', used', status', controller, runner, hashKnown', part', final', saved',
           retries', restarts')
  BY <1>1, <1>9, <1>11, <1>12, <1>14 DEF Mid
<1> QED
  BY <1>4, <1>10, <1>15, PumpEnds

\* A cancel: the signal of the runner, or the place in the queue.
LEMMA CancelKeeps ==
  ASSUME HubInv, NEW j \in Jobs, CancelDownload(j)
  PROVE  HubInv'
<1>1. /\ PlainTypes /\ NoIdleSlot /\ PumpFrom(queue, controller, runner) /\ RunnersOK(runner)
      /\ Known(queue, listed, used, runner, saved)
      /\ Attended(queue, listed, status, runner)
      /\ retries = 0 => Single(queue, controller, runner)
      /\ retries = 0 /\ restarts = 0 =>
           Filed(queue, listed, status, runner, hashKnown, part, final)
  BY InvParts
<1>2. /\ used' = used /\ listed' = listed /\ hashKnown' = hashKnown /\ controller' = controller
      /\ status' = [status EXCEPT ![j] = "cancelled"]
      /\ part' = part /\ final' = final /\ registered' = registered /\ saved' = saved
      /\ retries' = retries /\ restarts' = restarts
  BY DEF CancelDownload, diskVars
<1>3. "cancelled" \in Statuses /\ "cancelled" \notin Active
  BY DEF Statuses, Active
<1>4. /\ status' \in [Jobs -> Statuses] /\ status'[j] = "cancelled"
      /\ \A i \in Jobs \ {j} : status'[i] = status[i]
  BY <1>1, <1>2, <1>3 DEF PlainTypes
<1>5. PlainTypes'
  BY <1>1, <1>2, <1>4 DEF PlainTypes
<1>6. listed \subseteq Jobs /\ queue \in Seq(Jobs) /\ DOMAIN runner \subseteq Jobs \X (Nat \ {0})
  BY <1>1 DEF PlainTypes, PumpFrom
<1>7. CASE /\ controller[j] # 0
           /\ runner' = [runner EXCEPT ![<<j, controller[j]>>].aborted = TRUE]
           /\ UNCHANGED queue
  <2> DEFINE r == <<j, controller[j]>>
  <2>1. r \in DOMAIN runner /\ runner[r] \in RunnerRecord
    BY <1>1, <1>7 DEF PumpFrom, RunnersOK
  <2>2. PICK v : v = [runner[r] EXCEPT !.aborted = TRUE]
    OBVIOUS
  <2>3. v \in RunnerRecord /\ v.at = runner[r].at /\ v.attempt = runner[r].attempt
        /\ v.checks = runner[r].checks /\ v.aborted
    BY <2>1, <2>2 DEF RunnerRecord
  <2>4. runner' = [runner EXCEPT ![r] = v]
    BY <1>7, <2>2
  <2>5. r[1] = j /\ r[2] = controller[j]
    OBVIOUS
  <2> HIDE DEF r
  <2>6. DOMAIN runner' = DOMAIN runner /\ runner'[r] = v
        /\ \A o \in DOMAIN runner \ {r} : runner'[o] = runner[o]
    BY <2>1, <2>4
  <2>7. \A i : RunnersOf(runner', i) = RunnersOf(runner, i)
    BY <2>6 DEF RunnersOf
  <2>8. PumpFrom(queue, controller, runner') /\ RunnersOK(runner')
    BY <1>1, <2>1, <2>3, <2>6 DEF PumpFrom, RunnersOK
  <2>9. Known(queue, listed, used, runner', saved)
    BY <1>1, <2>7 DEF Known
  <2>10. Attended(queue, listed, status', runner')
    <3> SUFFICES ASSUME NEW i \in listed, status'[i] \in Active
                 PROVE  \/ \E o \in RunnersOf(runner', i) : runner'[o].at # "register"
                        \/ status'[i] = "queued" /\ InQueue(queue, i)
      BY DEF Attended
    <3>1. i \in Jobs /\ i # j /\ status'[i] = status[i]
      BY <1>3, <1>4, <1>6
    <3>2. CASE \E o \in RunnersOf(runner, i) : runner[o].at # "register"
      <4>1. PICK o \in RunnersOf(runner, i) : runner[o].at # "register"
        BY <3>2
      <4>2. o \in DOMAIN runner \ {r}
        BY <2>5, <3>1 DEF RunnersOf
      <4> QED
        BY <2>6, <2>7, <4>1, <4>2
    <3> QED
      BY <1>1, <3>1, <3>2 DEF Attended
  <2>11. retries = 0 => Single(queue, controller, runner')
    BY <1>1, <2>6, <2>7 DEF Single
  <2>12. ASSUME retries = 0, restarts = 0
         PROVE  Filed(queue, listed, status', runner', hashKnown, part, final)
    <3>1. /\ Single(queue, controller, runner)
          /\ Filed(queue, listed, status, runner, hashKnown, part, final)
      BY <1>1, <2>12
    <3>2. \A o \in RunnersOf(runner, j) : o = r
      <4>1. \A o \in RunnersOf(runner, j) : o \in Jobs \X (Nat \ {0}) /\ o[1] = j /\ o[2] = controller[j]
        BY <1>6, <3>1 DEF RunnersOf, Single
      <4> QED
        BY <4>1 DEF r
    <3>3. ~InQueue(queue, j)
      <4>1. r \in RunnersOf(runner, j)
        BY <2>1, <2>5 DEF RunnersOf
      <4> QED
        BY <3>1, <4>1 DEF Single
    <3>4. ASSUME NEW i \in Jobs, Claims(queue, runner', i)
          PROVE  Claims(queue, runner, i) /\ i # j
      <4>1. CASE InQueue(queue, i)
        BY <3>3, <4>1 DEF Claims
      <4>2. CASE \E o \in RunnersOf(runner', i) : ~runner'[o].aborted
        <5>1. PICK o \in RunnersOf(runner, i) : ~runner'[o].aborted
          BY <2>7, <4>2
        <5>2. o # r
          BY <2>3, <2>6, <5>1
        <5>3. o \in DOMAIN runner /\ runner'[o] = runner[o]
          BY <2>6, <5>1, <5>2 DEF RunnersOf
        <5> QED
          BY <3>2, <5>1, <5>2, <5>3 DEF Claims
      <4> QED
        BY <3>4, <4>1, <4>2 DEF Claims
    <3>5. ASSUME NEW o \in DOMAIN runner' PROVE FilesOf(o, runner', part, final)
      <4>1. FilesOf(o, runner, part, final)
        BY <2>6, <3>1 DEF Filed
      <4>2. CASE o = r
        BY <2>3, <2>6, <4>1, <4>2 DEF FilesOf
      <4>3. CASE o # r
        BY <2>6, <4>1, <4>3 DEF FilesOf
      <4> QED
        BY <4>2, <4>3
    <3>6. \A i \in Jobs : Claims(queue, runner', i) /\ final[FileOf[i]] # "good" =>
            /\ i \in listed /\ status'[i] \in Active
            /\ \A o \in Jobs \ {i} : Claims(queue, runner', o) => FileOf[o] # FileOf[i]
      BY <1>4, <3>1, <3>4 DEF Filed
    <3>7. \A i \in Jobs : InQueue(queue, i) \/ RunnersOf(runner', i) # {} => i \in hashKnown
      BY <2>7, <3>1 DEF Filed
    <3>8. \A f \in Shards : final[f] \in {"none", "good"}
      BY <3>1 DEF Filed
    <3> QED
      BY <3>5, <3>6, <3>7, <3>8 DEF Filed
  <2>13. Mid(queue', listed', used', status', controller', runner', hashKnown', part', final',
             saved', retries', restarts')
    BY <1>2, <1>7, <2>8, <2>9, <2>10, <2>11, <2>12 DEF Mid
  <2>14. NoIdleSlot'
    BY <1>1, <1>2, <1>7 DEF NoIdleSlot
  <2> QED
    BY <1>5, <2>13, <2>14 DEF HubInv
<1>8. CASE /\ controller[j] = 0
           /\ queue' = RemoveFirst(queue, j)
           /\ UNCHANGED runner
  <2>1. PICK p : p = RemoveFirst(queue, j)
    OBVIOUS
  <2>2. /\ p \in Seq(Jobs) /\ (p # <<>> => queue # <<>>)
        /\ \A i \in Jobs : InQueue(p, i) => InQueue(queue, i)
        /\ \A i \in Jobs \ {j} : InQueue(queue, i) => InQueue(p, i)
        /\ (\A a, b \in DOMAIN queue : queue[a] = queue[b] => a = b) =>
             /\ \A a, b \in DOMAIN p : p[a] = p[b] => a = b
             /\ ~InQueue(p, j)
    BY <1>6, <2>1, Removed
  <2>3. queue' = p /\ runner' = runner
    BY <1>8, <2>1
  <2>4. PumpFrom(p, controller, runner)
    BY <1>1, <2>2 DEF PumpFrom
  <2>5. Known(p, listed, used, runner, saved)
    BY <1>1, <2>2 DEF Known
  <2>6. Attended(p, listed, status', runner)
    <3> SUFFICES ASSUME NEW i \in listed, status'[i] \in Active
                 PROVE  \/ \E o \in RunnersOf(runner, i) : runner[o].at # "register"
                        \/ status'[i] = "queued" /\ InQueue(p, i)
      BY DEF Attended
    <3>1. i \in Jobs /\ i # j /\ status'[i] = status[i]
      BY <1>3, <1>4, <1>6
    <3> QED
      BY <1>1, <2>2, <3>1 DEF Attended
  <2>7. retries = 0 => Single(p, controller, runner)
    BY <1>1, <2>2 DEF Single
  <2>8. ASSUME retries = 0, restarts = 0
        PROVE  Filed(p, listed, status', runner, hashKnown, part, final)
    <3>1. /\ Single(queue, controller, runner)
          /\ Filed(queue, listed, status, runner, hashKnown, part, final)
      BY <1>1, <2>8
    <3>2. RunnersOf(runner, j) = {}
      <4>1. \A o \in RunnersOf(runner, j) : o \in Jobs \X (Nat \ {0}) /\ o[2] = controller[j]
        BY <1>6, <3>1 DEF RunnersOf, Single
      <4> QED
        BY <1>8, <4>1
    <3>3. \A i \in Jobs : Claims(p, runner, i) => Claims(queue, runner, i) /\ i # j
      BY <2>2, <3>1, <3>2 DEF Claims, Single
    <3>4. \A i \in Jobs : Claims(p, runner, i) /\ final[FileOf[i]] # "good" =>
            /\ i \in listed /\ status'[i] \in Active
            /\ \A o \in Jobs \ {i} : Claims(p, runner, o) => FileOf[o] # FileOf[i]
      BY <1>4, <3>1, <3>3 DEF Filed
    <3>5. \A i \in Jobs : InQueue(p, i) \/ RunnersOf(runner, i) # {} => i \in hashKnown
      BY <2>2, <3>1 DEF Filed
    <3> QED
      BY <3>1, <3>4, <3>5 DEF Filed
  <2>9. Mid(queue', listed', used', status', controller', runner', hashKnown', part', final',
            saved', retries', restarts')
    BY <1>1, <1>2, <2>3, <2>4, <2>5, <2>6, <2>7, <2>8 DEF Mid
  <2>10. NoIdleSlot'
    BY <1>1, <1>2, <2>2, <2>3 DEF NoIdleSlot
  <2> QED
    BY <1>5, <2>9, <2>10 DEF HubInv
<1> QED
  BY <1>7, <1>8 DEF CancelDownload

\* Only a job that is over is removed.
LEMMA RemoveKeeps ==
  ASSUME HubInv, NEW j \in Jobs, RemoveDownload(j)
  PROVE  HubInv'
<1>1. /\ PlainTypes /\ NoIdleSlot /\ PumpFrom(queue, controller, runner) /\ RunnersOK(runner)
      /\ Known(queue, listed, used, runner, saved)
      /\ Attended(queue, listed, status, runner)
      /\ retries = 0 => Single(queue, controller, runner)
      /\ retries = 0 /\ restarts = 0 =>
           Filed(queue, listed, status, runner, hashKnown, part, final)
  BY InvParts
<1>2. /\ status[j] \notin Active /\ listed' = listed \ {j} /\ used' = used /\ status' = status
      /\ queue' = queue /\ controller' = controller /\ hashKnown' = hashKnown
      /\ retries' = retries /\ runner' = runner /\ part' = part /\ final' = final
      /\ registered' = registered /\ saved' = saved /\ restarts' = restarts
  BY DEF RemoveDownload, diskVars
<1>3. PlainTypes' /\ NoIdleSlot'
  BY <1>1, <1>2 DEF PlainTypes, NoIdleSlot
<1>4. Known(queue, listed', used, runner, saved) /\ Attended(queue, listed', status, runner)
  BY <1>1, <1>2 DEF Known, Attended
<1>5. retries = 0 /\ restarts = 0 =>
        Filed(queue, listed', status, runner, hashKnown, part, final)
  BY <1>1, <1>2 DEF Filed
<1>6. Mid(queue', listed', used', status', controller', runner', hashKnown', part', final',
          saved', retries', restarts')
  BY <1>1, <1>2, <1>4, <1>5 DEF Mid
<1> QED
  BY <1>3, <1>6 DEF HubInv

\* The list is written.
LEMMA PersistKeeps ==
  ASSUME HubInv, Persist
  PROVE  HubInv'
<1>1. /\ PlainTypes /\ NoIdleSlot /\ PumpFrom(queue, controller, runner) /\ RunnersOK(runner)
      /\ Known(queue, listed, used, runner, saved)
      /\ Attended(queue, listed, status, runner)
      /\ retries = 0 => Single(queue, controller, runner)
      /\ retries = 0 /\ restarts = 0 =>
           Filed(queue, listed, status, runner, hashKnown, part, final)
  BY InvParts
<1>2. /\ saved' = [j \in listed |-> status[j]] /\ listed' = listed /\ used' = used
      /\ status' = status /\ queue' = queue /\ controller' = controller
      /\ hashKnown' = hashKnown /\ retries' = retries /\ runner' = runner /\ part' = part
      /\ final' = final /\ registered' = registered /\ restarts' = restarts
  BY DEF Persist, jobVars, diskVars
<1>3. DOMAIN saved' = listed /\ \A j \in listed : saved'[j] \in Statuses
  BY <1>1, <1>2 DEF PlainTypes
<1>4. PlainTypes' /\ NoIdleSlot'
  BY <1>1, <1>2, <1>3 DEF PlainTypes, NoIdleSlot
<1>5. Known(queue, listed, used, runner, saved')
  BY <1>1, <1>3 DEF Known
<1>6. Mid(queue', listed', used', status', controller', runner', hashKnown', part', final',
          saved', retries', restarts')
  BY <1>1, <1>2, <1>5 DEF Mid
<1> QED
  BY <1>4, <1>6 DEF HubInv

\* A restart: the saved jobs that were active are queued again, once each.
LEMMA RestartKeeps ==
  ASSUME HubInv, Restart
  PROVE  HubInv'
<1>1. PlainTypes /\ Known(queue, listed, used, runner, saved)
  BY InvParts
<1>2. /\ MayDisturb /\ restarts' = restarts + 1 /\ listed' = DOMAIN saved
      /\ status' = [j \in Jobs |->
                      IF j \notin DOMAIN saved THEN status[j]
                      ELSE IF saved[j] \in Active THEN "queued" ELSE saved[j]]
      /\ hashKnown' = {} /\ used' = used /\ retries' = retries /\ part' = part
      /\ final' = final /\ registered' = registered /\ saved' = saved
  BY DEF Restart, diskVars
<1>3. PICK S : S = {j \in DOMAIN saved : saved[j] \in Active}
  OBVIOUS
<1>4. PICK q : q = SetToSeq(S)
  OBVIOUS
<1>5. PICK c : c = [j \in Jobs |-> 0]
  OBVIOUS
<1>6. PICK u : u = [r \in {} |-> NewRunner]
  OBVIOUS
<1>7. Pump(q, listed', status', c, u)
  BY <1>3, <1>4, <1>5, <1>6 DEF Restart
<1>8. DOMAIN saved \subseteq Jobs /\ \A j \in DOMAIN saved : saved[j] \in Statuses
  BY <1>1 DEF PlainTypes
<1>9. S \in SUBSET Jobs
  BY <1>3, <1>8
<1>10. /\ q \in Seq(Jobs) /\ \A j \in Jobs : InQueue(q, j) <=> j \in S
       /\ \A a, b \in DOMAIN q : q[a] = q[b] => a = b
  BY <1>4, <1>9, Resumed
<1>11. restarts' # 0 /\ restarts' \in 0 .. MaxDisturbances
  <2>1. retries \in 0 .. MaxDisturbances /\ restarts \in 0 .. MaxDisturbances
    BY <1>1 DEF PlainTypes
  <2> QED
    BY <1>2, <2>1, BoundsAssumption DEF MayDisturb
<1>12. status' \in [Jobs -> Statuses]
  <2>1. "queued" \in Statuses /\ status \in [Jobs -> Statuses]
    BY <1>1 DEF PlainTypes, Statuses, Active
  <2> QED
    BY <1>2, <1>8, <2>1
<1>13. PlainTypes'
  BY <1>1, <1>2, <1>8, <1>11, <1>12 DEF PlainTypes
<1>14. DOMAIN u = {}
  BY <1>6
<1>15. PumpFrom(q, c, u)
  <2>1. Holders(c) = {}
    BY <1>5 DEF Holders
  <2>2. Cardinality(Holders(c)) = 0 /\ IsFiniteSet(DOMAIN u)
    BY <1>14, <2>1, FS_EmptySet
  <2>3. c \in [Jobs -> Nat] /\ \A j \in Jobs : c[j] = 0
    BY <1>5
  <2>4. Cardinality(Holders(c)) <= MaxConcurrent
    BY <2>2, BoundsAssumption
  <2> QED
    BY <1>10, <1>14, <2>2, <2>3, <2>4 DEF PumpFrom
<1>16. RunnersOK(u) /\ \A j : RunnersOf(u, j) = {}
  BY <1>14 DEF RunnersOK, RunnersOf
<1>17. Known(q, listed', used', u, saved')
  BY <1>1, <1>2, <1>3, <1>10, <1>16 DEF Known
<1>18. Attended(q, listed', status', u)
  <2> SUFFICES ASSUME NEW j \in DOMAIN saved, status'[j] \in Active
               PROVE  status'[j] = "queued" /\ InQueue(q, j)
    BY <1>2 DEF Attended
  <2>1. j \in Jobs
    BY <1>8
  <2>2. status'[j] = IF saved[j] \in Active THEN "queued" ELSE saved[j]
    BY <1>2, <2>1
  <2> QED
    BY <1>3, <1>10, <2>1, <2>2
<1>19. Single(q, c, u)
  BY <1>10, <1>14, <1>16 DEF Single
<1>20. Mid(q, listed', used', status', c, u, hashKnown', part', final', saved', retries',
           restarts')
  BY <1>11, <1>15, <1>16, <1>17, <1>18, <1>19 DEF Mid
<1> QED
  BY <1>7, <1>13, <1>20, PumpEnds

\* The invariant holds at first.
LEMMA HubInvInit == HubInit => HubInv
<1> SUFFICES ASSUME HubInit PROVE HubInv
  OBVIOUS
<1>1. "completed" \in Statuses /\ "none" \in Contents
  BY DEF Statuses, Contents
<1>2. PlainTypes
  <2>1. retries \in 0 .. MaxDisturbances /\ restarts \in 0 .. MaxDisturbances
    BY BoundsAssumption DEF HubInit
  <2>2. status \in [Jobs -> Statuses]
    BY <1>1 DEF HubInit
  <2>3. part \in [Shards -> Contents] /\ final \in [Shards -> Contents]
    BY <1>1 DEF HubInit
  <2>4. DOMAIN saved = {}
    BY DEF HubInit
  <2>5. listed = {} /\ used = {} /\ hashKnown = {} /\ registered \in BOOLEAN
    BY DEF HubInit
  <2> QED
    BY <2>1, <2>2, <2>3, <2>4, <2>5 DEF PlainTypes
<1>3. queue = <<>> /\ DOMAIN queue = {} /\ DOMAIN runner = {} /\ listed = {} /\ DOMAIN saved = {}
      /\ controller \in [Jobs -> Nat] /\ \A j \in Jobs : controller[j] = 0
  BY DEF HubInit
<1>4. Holders(controller) = {}
  BY <1>3 DEF Holders
<1>5. Cardinality(Holders(controller)) <= MaxConcurrent /\ IsFiniteSet(DOMAIN runner)
  BY <1>3, <1>4, FS_EmptySet, BoundsAssumption
<1>6. queue \in Seq(Jobs)
  BY <1>3
<1>7. PumpFrom(queue, controller, runner)
  BY <1>3, <1>5, <1>6 DEF PumpFrom
<1>8. RunnersOK(runner) /\ Known(queue, listed, used, runner, saved)
      /\ Attended(queue, listed, status, runner) /\ Single(queue, controller, runner)
  BY <1>3 DEF RunnersOK, Known, Attended, Single, InQueue, RunnersOf
<1>9. \A f \in Shards : final[f] = "none"
  BY DEF HubInit
<1>10. Filed(queue, listed, status, runner, hashKnown, part, final)
  BY <1>3, <1>9 DEF Filed, InQueue, RunnersOf, Claims
<1>11. NoIdleSlot
  BY <1>3 DEF NoIdleSlot
<1> QED
  BY <1>2, <1>7, <1>8, <1>10, <1>11 DEF HubInv, Mid

\* Every step keeps it.
LEMMA HubInvStep == HubInv /\ [HubNext]_hubVars => HubInv'
<1> SUFFICES ASSUME HubInv, [HubNext]_hubVars PROVE HubInv'
  OBVIOUS
<1>1. ASSUME NEW j \in Jobs, \/ StartDownload(j) \/ RetryDownload(j)
                             \/ CancelDownload(j) \/ RemoveDownload(j)
      PROVE  HubInv'
  BY <1>1, StartKeeps, RetryKeeps, CancelKeeps, RemoveKeeps
<1>2. ASSUME NEW r \in DOMAIN runner, RunnerStep(r) PROVE HubInv'
  BY <1>2, InspectFilesKeeps, ResponseKeeps, BodyKeeps, HashKeeps, RenameKeeps,
     RegisterKeeps, BackoffKeeps DEF RunnerStep
<1>3. CASE Persist
  BY <1>3, PersistKeeps
<1>4. CASE Restart
  BY <1>4, RestartKeeps
<1>5. CASE UNCHANGED hubVars
  <2>1. UNCHANGED <<listed, used, status, queue, controller, hashKnown, retries, runner, part,
                    final, registered, saved, restarts>>
    BY <1>5 DEF hubVars, jobVars, diskVars
  <2>2. PlainTypes' /\ NoIdleSlot'
    BY <2>1, InvParts DEF PlainTypes, NoIdleSlot
  <2>3. Mid(queue', listed', used', status', controller', runner', hashKnown', part', final',
            saved', retries', restarts')
    BY <2>1 DEF HubInv
  <2> QED
    BY <2>2, <2>3 DEF HubInv
<1> QED
  BY <1>1, <1>2, <1>3, <1>4, <1>5 DEF HubNext

\* A job that is in the queue is contained in it.
LEMMA QueuedIsContained ==
  ASSUME NEW q \in Seq(Jobs), NEW j, InQueue(q, j)
  PROVE  Contains(q, j)
<1>1. DOMAIN q = 1 .. Len(q)
  BY LenProperties
<1> QED
  BY <1>1 DEF InQueue, Contains

\* What it says of active downloads.
LEMMA HubInvAttends == HubInv => ActiveIsAttended
<1> SUFFICES ASSUME HubInv, NEW j \in listed, status[j] \in Active
             PROVE  Contains(queue, j) \/ RunnersOf(runner, j) # {}
  BY DEF ActiveIsAttended
<1>1. Attended(queue, listed, status, runner) /\ queue \in Seq(Jobs)
  BY InvParts DEF PumpFrom
<1> QED
  BY <1>1, QueuedIsContained DEF Attended

\* Without retries every runner holds the slot of its job.
LEMMA HubInvLimits == HubInv => SlotsUsedExactly
<1> SUFFICES ASSUME HubInv PROVE SlotsUsedExactly
  OBVIOUS
<1>1. /\ PlainTypes /\ NoIdleSlot /\ PumpFrom(queue, controller, runner) /\ RunnersOK(runner)
      /\ retries = 0 => Single(queue, controller, runner)
  BY InvParts
<1>2. HubTypeOK
  BY <1>1 DEF PlainTypes, PumpFrom, RunnersOK, RunnerRecord, HubTypeOK
<1>3. ASSUME retries = 0 PROVE Cardinality(DOMAIN runner) <= MaxConcurrent
  <2> DEFINE R == DOMAIN runner
             H == Holders(controller)
             f == [r \in R |-> r[1]]
  <2>1. \A r \in R : r \in Jobs \X (Nat \ {0}) /\ controller[r[1]] = r[2]
    BY <1>1, <1>3 DEF PumpFrom, Single
  <2>2. \A r \in R : r[1] \in H
    BY <2>1 DEF Holders
  <2>3. \A r, o \in R : r[1] = o[1] => r = o
    BY <2>1
  <2>4. f \in [R -> H] /\ \A r, o \in R : f[r] = f[o] => r = o
    BY <2>2, <2>3
  <2>5. H \in SUBSET Jobs
    BY DEF Holders
  <2>6. IsFiniteSet(H)
    BY <2>5, JobsAssumption, FS_Subset
  <2>7. Cardinality(H) <= MaxConcurrent /\ IsFiniteSet(R)
    BY <1>1 DEF PumpFrom
  <2> HIDE DEF f, H, R
  <2>8. f \in Injection(R, H)
    BY <2>4 DEF Injection, IsInjective
  <2>9. Cardinality(R) <= Cardinality(H)
    BY <2>6, <2>8, FS_Injection
  <2>10. Cardinality(R) \in Nat /\ Cardinality(H) \in Nat
    BY <2>6, <2>7, FS_CardinalityType
  <2>11. Cardinality(R) <= MaxConcurrent
    BY <2>7, <2>9, <2>10, BoundsAssumption
  <2> QED
    BY <2>11 DEF R
<1> QED
  BY <1>1, <1>2, <1>3 DEF SlotsUsedExactly, WithinLimit

\* What it says of the final files.
LEMMA HubInvVerifies == HubInv => FinalIsVerified
<1> SUFFICES ASSUME HubInv, retries = 0, restarts = 0
             PROVE  \A f \in Shards : final[f] \in {"none", "good"}
  BY DEF FinalIsVerified
<1> QED
  BY InvParts DEF Filed

\* A download shown as active is in the queue or has a runner: in whatever order jobs
\* are started, cancelled, retried and removed, runners fail, wait and finish, and the
\* gateway restarts, pumpDownloadQueue and the finally block of runDownload lose none.
THEOREM DownloadsStayAttended == HubSpec => []ActiveIsAttended
<1>1. HubInv => ActiveIsAttended
  BY HubInvAttends
<1> QED
  BY HubInvInit, HubInvStep, <1>1, PTL DEF HubSpec

\* Every slot of HF_MAX_CONCURRENT_DOWNLOADS is taken while a job waits, and, until
\* the administrator retries one, no more calls of runDownload run than there are slots.
THEOREM SlotsStayUsed == HubSpec => []SlotsUsedExactly
<1>1. HubInv => SlotsUsedExactly
  BY HubInvLimits
<1> QED
  BY HubInvInit, HubInvStep, <1>1, PTL DEF HubSpec

\* While the hash is remembered no file takes its final name unverified, though several
\* jobs may be for one shard and a transfer may deliver wrong bytes (verifyDownloadedFile).
THEOREM FinalStaysVerified == HubSpec => []FinalIsVerified
<1>1. HubInv => FinalIsVerified
  BY HubInvVerifies
<1> QED
  BY HubInvInit, HubInvStep, <1>1, PTL DEF HubSpec
=============================================================================

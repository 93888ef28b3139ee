----------------------------- MODULE LlamaPool ------------------------------
(***************************************************************************)
(* The gateway's pool of llama-server processes (engine/llamaServer.ts):    *)
(* loading on demand behind a per-model lock, eviction for the RAM budget,  *)
(* unloading, children that exit by themselves, and the status the model    *)
(* registry (table HostedModel) shows for each model.                       *)
(*                                                                          *)
(* JavaScript runs to the next await, so one action is what happens between *)
(* two awaits, with the continuations that a settled promise releases.  A   *)
(* registry update takes effect when it is issued.                          *)
(***************************************************************************)
EXTENDS Integers, Sequences, FiniteSets, FiniteSetsExt, SequencesExt

CONSTANTS
  Models,
  Ram,          \* [Models -> MB]: estimate from the size of the weights
  Budget,       \* TOTAL_RAM_BUDGET_MB
  Protected,    \* MODELFORGE_PROTECTED_MODELS
  Leased,       \* models that non-preemptible reservations may name
  Callers,      \* generations, one each
  MaxUnloads,   \* bound: unloads by an administrator, a warm-up or a shutdown
  MaxSpawns     \* bound: processes started per model; a caller starts at most
                \* one load, so the number of callers never binds

ASSUME RamAssumption == Ram \in [Models -> Nat \ {0}] /\ Budget \in Nat
ASSUME SetsAssumption == /\ IsFiniteSet(Models) /\ Models # {}
                         /\ IsFiniteSet(Callers)
                         /\ Protected \subseteq Models
                         /\ Leased \subseteq Models
                         /\ MaxUnloads \in Nat /\ MaxSpawns \in Nat

Ids == 1 .. MaxSpawns
Instances == Models \X Ids
NoInstance == 0

LoadSteps == {"none", "stat", "reservations", "evicting", "port", "health",
              "answered", "marking", "failing"}
CallerSteps == {"idle", "lookup", "awaitReady", "awaitLoad", "running",
                "served", "error"}

VARIABLES
  current,    \* instances: the incarnation in the map, or NoInstance
  spawned,    \* incarnations spawned so far
  child,      \* each incarnation's process: up, sent SIGTERM or SIGKILL, dead
  ready,      \* its "ready" promise
  active,     \* its activeRequests
  lru,        \* models by lastUsedAt, oldest first
  loader,     \* the load in progress per model (the lock is held if not "none")
  evict,      \* its eviction loop: the order and the candidates left when they
              \* were chosen, and the one being unloaded
  unloading,  \* incarnations that an unloadModel call is waiting to see exit
  registry,   \* HostedModel.status
  caller,     \* where each caller is, and the instance it holds
  unloads     \* unloads so far

vars == <<current, spawned, child, ready, active, lru, loader, evict,
          unloading, registry, caller, unloads>>

TypeOK ==
  /\ current \in [Models -> Ids \cup {NoInstance}]
  /\ spawned \in [Models -> Ids \cup {0}]
  /\ child \in [Instances -> {"none", "up", "term", "kill", "dead"}]
  /\ ready \in [Instances -> {"none", "pending", "ok", "failed"}]
  /\ active \in [Instances -> 0 .. Cardinality(Callers)]
  /\ lru \in SetToSeqs(Models)
  /\ loader \in [Models -> LoadSteps]
  /\ evict \in [Models -> [order  : SetToSeqs(Models),
                           left   : SUBSET Models,
                           victim : Models \X (Ids \cup {NoInstance})]]
  /\ unloading \subseteq Instances
  /\ registry \in [Models -> {"INACTIVE", "LOADED", "ERROR"}]
  /\ caller \in [Callers -> [at   : CallerSteps,
                             inst : Models \X (Ids \cup {NoInstance})]]
  /\ unloads \in 0 .. MaxUnloads

NoVictim == <<CHOOSE m \in Models : TRUE, NoInstance>>
NoEviction == [order |-> SetToSeq(Models), left |-> {}, victim |-> NoVictim]

Init ==
  /\ current = [m \in Models |-> NoInstance]
  /\ spawned = [m \in Models |-> 0]
  /\ child = [i \in Instances |-> "none"]
  /\ ready = [i \in Instances |-> "none"]
  /\ active = [i \in Instances |-> 0]
  /\ lru = SetToSeq(Models)
  /\ loader = [m \in Models |-> "none"]
  /\ evict = [m \in Models |-> NoEviction]
  /\ unloading = {}
  /\ registry = [m \in Models |-> "INACTIVE"]
  /\ caller = [c \in Callers |-> [at |-> "idle", inst |-> NoVictim]]
  /\ unloads = 0

-----------------------------------------------------------------------------
(* Shared pieces. *)

Resident == {m \in Models : current[m] # NoInstance}
Current(m) == <<m, current[m]>>
\* The instance that the load in progress of m has spawned.
Newest(m) == <<m, spawned[m]>>

UsedRamMb == MapThenSumSet(LAMBDA m : Ram[m], Resident)
Fits(m) == UsedRamMb + Ram[m] <= Budget

Place(order, m) == CHOOSE i \in DOMAIN order : order[i] = m
\* lastUsedAt of m is now: it moves behind all others.
LoadedNow(m) ==
  [i \in DOMAIN lru |-> IF i < Place(lru, m) THEN lru[i]
                        ELSE IF i + 1 \in DOMAIN lru THEN lru[i + 1] ELSE m]
\* lastUsedAt is a field of the instance: a detached one orders nothing.
Touched(inst) == IF Current(inst[1]) = inst THEN LoadedNow(inst[1]) ELSE lru

SetRegistryStatus(m, s) == registry' = [registry EXCEPT ![m] = s]
LoaderAt(m, s) == loader' = [loader EXCEPT ![m] = s] /\ UNCHANGED evict
LoadEnds(m) == /\ loader' = [loader EXCEPT ![m] = "none"]
               /\ evict' = [evict EXCEPT ![m] = NoEviction]
\* kill() without an argument sends SIGTERM; a process signalled before or
\* gone stays what it is.
Terminated(inst) ==
  IF child[inst] = "up" THEN [child EXCEPT ![inst] = "term"] ELSE child

AwaitingReady(inst) ==
  {c \in Callers : caller[c].at = "awaitReady" /\ caller[c].inst = inst}
AwaitingLoad(m) ==
  {c \in Callers : caller[c].at = "awaitLoad" /\ caller[c].inst[1] = m}

\* The callers in C leave ensureLoaded with inst and start to generate.
Run(C, inst) ==
  /\ caller' = [c \in Callers |->
                  IF c \in C THEN [at |-> "running", inst |-> inst]
                             ELSE caller[c]]
  /\ active' = [active EXCEPT ![inst] = @ + Cardinality(C)]
  /\ lru' = IF C = {} THEN lru ELSE Touched(inst)

\* The callers in C leave with an exception.
Throw(C) ==
  /\ caller' = [c \in Callers |->
                  IF c \in C THEN [caller[c] EXCEPT !.at = "error"]
                             ELSE caller[c]]
  /\ UNCHANGED <<active, lru>>

\* instances.get after loadModel: gone again is an error.
RunOnCurrent(C, m) ==
  IF m \in Resident THEN Run(C, Current(m)) ELSE Throw(C)

\* The load of m throws before it has spawned anything.
AbortLoad(m) ==
  /\ LoadEnds(m)
  /\ Throw(AwaitingLoad(m))
  /\ UNCHANGED <<current, child, unloading, registry>>

\* unloadModel up to its first await.
UnloadStart(m) ==
  IF m \in Resident
  THEN /\ current' = [current EXCEPT ![m] = NoInstance]
       /\ child' = Terminated(Current(m))
       /\ unloading' = unloading \cup {Current(m)}
       /\ UNCHANGED registry
  ELSE /\ SetRegistryStatus(m, "INACTIVE")
       /\ UNCHANGED <<current, child, unloading>>

-----------------------------------------------------------------------------
(* Callers: ensureLoaded and generateStream. *)

\* The instance is there: wait for it, or run at once when it is ready.
EnsureResident(c, m) ==
  /\ caller[c].at = "idle" /\ m \in Resident
  /\ \/ /\ ready[Current(m)] = "ok"
        /\ Run({c}, Current(m))
     \/ /\ ready[Current(m)] = "pending"
        /\ caller' = [caller EXCEPT ![c] = [at |-> "awaitReady",
                                            inst |-> Current(m)]]
        /\ UNCHANGED <<active, lru>>
  /\ UNCHANGED <<current, spawned, child, ready, loader, evict, unloading,
                 registry, unloads>>

\* It is not: read the model's row.
EnsureAbsent(c, m) ==
  /\ caller[c].at = "idle" /\ m \notin Resident
  /\ caller' = [caller EXCEPT ![c] = [at |-> "lookup",
                                      inst |-> <<m, NoInstance>>]]
  /\ UNCHANGED <<current, spawned, child, ready, active, lru, loader,
                 evict, unloading, registry, unloads>>

JoinLoad(c) == caller' = [caller EXCEPT ![c].at = "awaitLoad"]

\* MUTANT: no look at the lock: a load in progress counts as loaded.
LoadModelNoLock(c) ==
  LET m == caller[c].inst[1] IN
  /\ caller[c].at = "lookup"
  /\ \/ /\ m \in Resident
        /\ Run({c}, Current(m))
        /\ UNCHANGED <<loader, evict>>
     \/ /\ m \notin Resident
        /\ JoinLoad(c)
        /\ LoaderAt(m, "stat")
        /\ UNCHANGED <<active, lru>>
  /\ UNCHANGED <<current, spawned, child, ready, unloading, registry, unloads>>

\* loadModel with its lock: join the load in progress, find the model already
\* there, or start a load.
LoadModel(c) ==
  LET m == caller[c].inst[1] IN
  /\ caller[c].at = "lookup"
  /\ \/ /\ loader[m] # "none"
        /\ JoinLoad(c)
        /\ UNCHANGED <<active, lru, loader, evict>>
     \/ /\ loader[m] = "none" /\ m \in Resident
        /\ Run({c}, Current(m))
        /\ UNCHANGED <<loader, evict>>
     \/ /\ loader[m] = "none" /\ m \notin Resident
        /\ JoinLoad(c)
        /\ LoaderAt(m, "stat")
        /\ UNCHANGED <<active, lru>>
  /\ UNCHANGED <<current, spawned, child, ready, unloading, registry, unloads>>

\* MUTANT: the decrement only after an answer, not in a finally block.
CompleteNoFinally(c) ==
  LET inst == caller[c].inst IN
  /\ caller[c].at = "running"
  /\ \/ /\ child[inst] \in {"up", "term"}
        /\ caller' = [caller EXCEPT ![c].at = "served"]
        /\ active' = [active EXCEPT ![inst] = IF @ > 0 THEN @ - 1 ELSE 0]
     \/ /\ caller' = [caller EXCEPT ![c].at = "error"]
        /\ UNCHANGED active
  /\ lru' = Touched(inst)
  /\ UNCHANGED <<current, spawned, child, ready, loader, evict, unloading,
                 registry, unloads>>

\* The generation ends: answered while the process lives, or cut off by an
\* error, the client or the deadline.  The finally block runs in any case.
Complete(c) ==
  LET inst == caller[c].inst IN
  /\ caller[c].at = "running"
  /\ \/ /\ child[inst] \in {"up", "term"}
        /\ caller' = [caller EXCEPT ![c].at = "served"]
     \/ caller' = [caller EXCEPT ![c].at = "error"]
  /\ active' = [active EXCEPT ![inst] = IF @ > 0 THEN @ - 1 ELSE 0]
  /\ lru' = Touched(inst)
  /\ UNCHANGED <<current, spawned, child, ready, loader, evict, unloading,
                 registry, unloads>>

-----------------------------------------------------------------------------
(* The load in progress: loadModelUnlocked and evictForBudget. *)

\* The weights' size is known, or they are missing.
Stat(m) ==
  /\ loader[m] = "stat"
  /\ \/ AbortLoad(m)
     \/ /\ LoaderAt(m, IF Fits(m) THEN "port" ELSE "reservations")
        /\ UNCHANGED <<current, child, unloading, registry, active, lru,
                       caller>>
  /\ UNCHANGED <<spawned, ready, unloads>>

\* The model of a nonempty set that comes first in the order.
Oldest(order, S) == CHOOSE x \in S : \A y \in S : Place(order, x) <= Place(order, y)

\* The eviction loop at its head, with the candidates left to try.
EvictNext(m, order, left) ==
  \/ /\ Fits(m)
     /\ LoaderAt(m, "port")
     /\ UNCHANGED <<current, child, unloading, registry, active, lru, caller>>
  \/ LET x == Oldest(order, left) IN
     /\ ~Fits(m) /\ left # {}
     /\ UnloadStart(x)
     /\ loader' = [loader EXCEPT ![m] = "evicting"]
     /\ evict' = [evict EXCEPT ![m] = [order  |-> order,
                                      left   |-> left \ {x},
                                      victim |-> Current(x)]]
     /\ UNCHANGED <<active, lru, caller>>
  \/ ~Fits(m) /\ left = {} /\ AbortLoad(m)

Candidates(leases) ==
  {x \in Resident \ (Protected \cup leases) : active[Current(x)] = 0}

\* The reservations in force are known (or unreadable, and taken as none); the
\* candidates are fixed for the whole loop.
ReadReservations(m) ==
  /\ loader[m] = "reservations"
  /\ \E leases \in SUBSET Leased : EvictNext(m, lru, Candidates(leases))
  /\ UNCHANGED <<spawned, ready, unloads>>

\* unloadModel of the victim has returned.
EvictionDone(m) ==
  /\ loader[m] = "evicting" /\ evict[m].victim \notin unloading
  /\ EvictNext(m, evict[m].order, evict[m].left)
  /\ UNCHANGED <<spawned, ready, unloads>>

\* A port is found and the process started, or no port is free.
Spawn(m) ==
  /\ loader[m] = "port"
  /\ \/ AbortLoad(m) /\ UNCHANGED <<spawned, ready>>
     \/ LET inst == <<m, spawned[m] + 1>> IN
        /\ spawned[m] < MaxSpawns
        /\ spawned' = [spawned EXCEPT ![m] = @ + 1]
        /\ child' = [child EXCEPT ![inst] = "up"]
        /\ ready' = [ready EXCEPT ![inst] = "pending"]
        /\ current' = [current EXCEPT ![m] = inst[2]]
        /\ lru' = LoadedNow(m)
        /\ LoaderAt(m, "health")
        /\ UNCHANGED <<active, unloading, registry, caller>>
  /\ UNCHANGED unloads

\* /health answers; the body is still to be read.
HealthAnswer(m) ==
  /\ loader[m] = "health" /\ child[Newest(m)] \in {"up", "term"}
  /\ LoaderAt(m, "answered")
  /\ UNCHANGED <<current, spawned, child, ready, active, lru, unloading,
                 registry, caller, unloads>>

\* waitForHealth returns, without another look at the process or the map.
HealthOk(m) ==
  /\ loader[m] = "answered"
  /\ ready' = [ready EXCEPT ![Newest(m)] = "ok"]
  /\ SetRegistryStatus(m, "LOADED")
  /\ LoaderAt(m, "marking")
  /\ Run(AwaitingReady(Newest(m)), Newest(m))
  /\ UNCHANGED <<current, spawned, child, unloading, unloads>>

\* MUTANT: the catch block leaves the process running.
HealthFailNoKill(m) ==
  /\ loader[m] = "health"
  /\ ready' = [ready EXCEPT ![Newest(m)] = "failed"]
  /\ current' = [current EXCEPT ![m] = NoInstance]
  /\ SetRegistryStatus(m, "ERROR")
  /\ LoaderAt(m, "failing")
  /\ Throw(AwaitingReady(Newest(m)))
  /\ UNCHANGED <<spawned, child, unloading, unloads>>

\* waitForHealth throws: the process is gone, or the start-up time is over.
HealthFail(m) ==
  /\ loader[m] = "health"
  /\ ready' = [ready EXCEPT ![Newest(m)] = "failed"]
  /\ child' = Terminated(Newest(m))
  /\ current' = [current EXCEPT ![m] = NoInstance]
  /\ SetRegistryStatus(m, "ERROR")
  /\ LoaderAt(m, "failing")
  /\ Throw(AwaitingReady(Newest(m)))
  /\ UNCHANGED <<spawned, unloading, unloads>>

\* The registry is written: the load settles and releases the lock.
LoadSettles(m) ==
  /\ loader[m] \in {"marking", "failing"}
  /\ LoadEnds(m)
  /\ IF loader[m] = "marking" THEN RunOnCurrent(AwaitingLoad(m), m)
                                 ELSE Throw(AwaitingLoad(m))
  /\ UNCHANGED <<current, spawned, child, ready, unloading, registry, unloads>>

-----------------------------------------------------------------------------
(* Unloading, and children that exit. *)

\* unloadModel called from outside the pool, whatever the model is doing.
UnloadModel(m) ==
  /\ unloads < MaxUnloads
  /\ unloads' = unloads + 1
  /\ UnloadStart(m)
  /\ UNCHANGED <<spawned, ready, active, lru, loader, evict, caller>>

\* MUTANT: wait for the exit, with no time-out and no SIGKILL.
FinishUnloadOnExit(inst) ==
  /\ inst \in unloading
  /\ child[inst] = "dead" /\ UNCHANGED child
  /\ unloading' = unloading \ {inst}
  /\ SetRegistryStatus(inst[1], "INACTIVE")
  /\ UNCHANGED <<current, spawned, ready, active, lru, loader, evict,
                 caller, unloads>>

\* The child has exited, or five seconds are over and it is sent SIGKILL.
FinishUnload(inst) ==
  /\ inst \in unloading
  /\ \/ child[inst] = "dead" /\ UNCHANGED child
     \/ child[inst] # "dead" /\ child' = [child EXCEPT ![inst] = "kill"]
  /\ unloading' = unloading \ {inst}
  /\ SetRegistryStatus(inst[1], "INACTIVE")
  /\ UNCHANGED <<current, spawned, ready, active, lru, loader, evict,
                 caller, unloads>>

\* The exit handler: an instance still in the map is removed.
ChildExit(inst) ==
  /\ child[inst] \in {"up", "term", "kill"}
  /\ child' = [child EXCEPT ![inst] = "dead"]
  /\ IF current[inst[1]] = inst[2]
     THEN /\ current' = [current EXCEPT ![inst[1]] = NoInstance]
          /\ SetRegistryStatus(inst[1], "ERROR")
     ELSE UNCHANGED <<current, registry>>
  /\ UNCHANGED <<spawned, ready, active, lru, loader, evict, unloading,
                 caller, unloads>>

-----------------------------------------------------------------------------
LoaderStep(m) ==
  \/ Stat(m) \/ ReadReservations(m) \/ EvictionDone(m) \/ Spawn(m)
  \/ HealthAnswer(m) \/ HealthOk(m) \/ HealthFail(m) \/ LoadSettles(m)

CallerStep(c) == LoadModel(c) \/ Complete(c)

Next ==
  \/ \E c \in Callers : CallerStep(c)
  \/ \E c \in Callers, m \in Models : EnsureResident(c, m) \/ EnsureAbsent(c, m)
  \/ \E m \in Models : LoaderStep(m) \/ UnloadModel(m)
  \/ \E i \in Instances : FinishUnload(i) \/ ChildExit(i)

Spec == Init /\ [][Next]_vars

\* Every await of the pool has a deadline of its own: start-up, generation and
\* unload time-outs; queries and stat return or throw.
Fairness ==
  /\ \A m \in Models : WF_vars(LoaderStep(m))
  /\ \A c \in Callers : WF_vars(CallerStep(c))
  /\ \A i \in Instances : WF_vars(FinishUnload(i))

FairSpec == Spec /\ Fairness

-----------------------------------------------------------------------------
(* Properties. *)

\* The pool never loses a process: one that nobody has signalled is the
\* instance the map holds, so its RAM is counted and shutdownAll stops it.
ChildrenAccounted ==
  \A i \in Instances : child[i] = "up" => Current(i[1]) = i

\* A generation only runs on an instance whose health check has succeeded: the
\* load lock keeps the "already loaded" shortcut away from one still starting.
RunsOnlyWhenReady ==
  \A c \in Callers : caller[c].at = "running" => ready[caller[c].inst] = "ok"

\* activeRequests counts the generations on the instance, after failures,
\* time-outs and evictions under way too.
ActiveIsRunning ==
  \A i \in Instances :
    active[i] = Cardinality({c \in Callers : /\ caller[c].at = "running"
                                             /\ caller[c].inst = i})

\* The pool's bookkeeping keeps its types and its counters are exact.
CountsAreExact == TypeOK /\ ActiveIsRunning

\* Every generation that asks for a model ends, whatever the processes do.
EveryCallerEnds ==
  \A c \in Callers :
    caller[c].at # "idle" ~> caller[c].at \in {"served", "error"}

-----------------------------------------------------------------------------
(* Statements of the documentation that the code does not keep. *)

\* llamaServer.ts:155: eviction stops "idle models".  The candidates are chosen
\* once and unloaded one after the other, so a later one may have been given a
\* request meanwhile.
EvictsOnlyIdle ==
  [][\A m \in Models :
       /\ loader'[m] = "evicting" /\ evict'[m] # evict[m]
       /\ evict'[m].victim \in Instances
       => active[evict'[m].victim] = 0]_vars

\* docs/ARCHITECTURE.md: TOTAL_RAM_BUDGET_MB is the pool's "RAM ceiling".  A
\* model is counted once it is in the map, so two loads pass the check together.
WithinBudget == UsedRamMb <= Budget
=============================================================================

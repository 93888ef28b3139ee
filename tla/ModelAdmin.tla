----------------------------- MODULE ModelAdmin ------------------------------
(***************************************************************************)
(* The registry of hosted models and everything that writes it:            *)
(*   - the server actions of the models page                               *)
(*     (apps/web/app/(admin)/admin/models/actions.ts), run by one operator;*)
(*   - the gateway's engine routes (routes/internal.ts:357-559) and the    *)
(*     engine facade behind them (engine/index.ts);                        *)
(*   - the gateway's start-up, which reconciles the registry with the pool *)
(*     and warms the platform default (gateway index.ts:68-94);            *)
(*   - a second client of the routes, the infrastructure page;             *)
(*   - a chat request that looks up the active price (lib/pricing.ts).     *)
(* Each awaited database write or gateway call is a step; an action may be *)
(* cut short between two of them. AdminPanels models the browser side.     *)
(***************************************************************************)
EXTENDS AdminPanels

CONSTANTS Slugs,       \* names of models
          Paths,       \* GGUF files of the weights directory, each under one spelling
          Prices,      \* prices of a model
          EnvKey,      \* a provider key is set in the gateway's environment
          MaxOps,      \* bound: operator actions
          MaxFaults,   \* bound: actions cut short
          MaxCrashes,  \* bound: gateway restarts
          MaxClock     \* bound: time stamps taken

ASSUME BoundsAssumption ==
    /\ MaxOps \in Nat /\ MaxFaults \in Nat /\ MaxCrashes \in Nat /\ MaxClock \in Nat
    /\ EnvKey \in BOOLEAN /\ Prices # {}

NoModel == "no_model"
NoPath == "no_path"

ASSUME NamesAssumption == NoModel \notin Slugs /\ NoPath \notin Paths

VARIABLES
    mode,     \* "alone", "busy", "pricing" or "panels" (chosen once)
    survives, \* the pool outlives the gateway (gRPC backend)
    kind,     \* providerKind of the row, "NONE" without a row
    status,   \* registry status
    path,     \* weightsPath
    price,    \* price columns of the row
    dflt,     \* the row with isPlatformDefault
    keyed,    \* rows with a stored provider credential
    allowed,  \* allowedModelIds of the plan
    entitled, \* PlanModelEntitlement rows of the plan
    disk,     \* GGUF files on disk
    live,     \* models resident in the local pool
    op,       \* the operator's action in progress
    infra,    \* the infrastructure page's call in progress
    boot,     \* start-up in progress
    quiet,    \* nobody else has written since the gateway went down
    broken,   \* some action was cut short
    count,    \* [ops, crashes]: what happened so far
    clock,    \* time stamps taken
    versions, \* pricing versions of the priced model, by effectiveFrom
    chat      \* the price look-up in progress

registry == <<kind, status, path, price, dflt, keyed>>
grants == <<allowed, entitled>>
pricing == <<clock, versions, chat>>
adminVars == <<mode, survives, kind, status, path, price, dflt, keyed, allowed, entitled,
               disk, live, op, infra, boot, quiet, broken, count, clock, versions, chat>>
registryVars == <<adminVars, panelVars>>

NoOp == [act |-> "none", m |-> NoModel, pc |-> "idle", file |-> NoPath, price |-> 0,
         flag |-> FALSE, seen |-> {}, was |-> 0, kin |-> "NONE", late |-> {}]
NoCall == [act |-> "none", m |-> NoModel, file |-> NoPath]
NoBoot == [pc |-> "up", seen |-> {}, m |-> NoModel, file |-> NoPath,
           victim |-> NoModel, kin |-> "NONE"]
NoChat == [pc |-> "idle", now |-> 0, price |-> 0]

Rows == {m \in Slugs : kind[m] # "NONE"}
Remote(m) == kind[m] = "REMOTE"

RegistryTypeOK ==
    /\ PanelTypeOK
    /\ mode \in {"alone", "busy", "pricing", "panels"} /\ survives \in BOOLEAN
    /\ kind \in [Slugs -> {"NONE", "LOCAL", "REMOTE"}]
    /\ status \in [Slugs -> {"INACTIVE", "LOADED", "ERROR"}]
    /\ path \in [Slugs -> Paths \union {NoPath}]
    /\ price \in [Slugs -> Prices]
    /\ dflt \in Rows \union {NoModel}
    /\ keyed \subseteq Rows /\ allowed \subseteq Slugs /\ entitled \subseteq Slugs
    /\ disk \subseteq Paths /\ live \subseteq Slugs
    /\ op.m \in Slugs \union {NoModel} /\ infra.m \in Slugs \union {NoModel}
    /\ boot.pc \in {"up", "down", "list", "reconcile", "find", "evict", "unload", "mark",
                   "warming"}
    /\ quiet \in BOOLEAN /\ broken \in 0..MaxFaults
    /\ count \in [ops: 0..MaxOps, crashes: 0..MaxCrashes]
    /\ clock \in 0..MaxClock
    /\ DOMAIN versions \subseteq 0..MaxClock
    /\ \A t \in DOMAIN versions : versions[t] \in [price: Prices, open: BOOLEAN]
    /\ chat \in [pc: {"idle", "found_none", "priced"}, now: 0..MaxClock,
                 price: Prices \union {0}]

RegistryInit ==
    /\ \/ mode \in {"alone", "busy", "pricing"} /\ panel = "none"
          /\ clicks = 0 /\ exits = 0 /\ pool = {} /\ view = {} /\ timer = {} /\ polls = {}
          /\ job = [m \in PoolModels |-> "none"] /\ req = [m \in PoolModels |-> "none"]
          /\ query = "idle"
          /\ selected = NoRepo /\ files = NoRepo /\ listing = {} /\ starting = NoBundle
          /\ real = "absent" /\ shown = "absent" /\ answers = {}
       \/ mode = "panels" /\ PanelInit
    /\ survives \in IF mode \in {"alone", "busy"} THEN BOOLEAN ELSE {FALSE}
    \* a local model, seeded and granted, and room for a second row
    /\ \E m \in Slugs, p \in Paths, other \in {"NONE", "REMOTE"} :
         /\ mode \in {"pricing", "panels"} => other = "NONE" /\ m = CHOOSE x \in Slugs : TRUE
         /\ kind = [x \in Slugs |-> IF x = m THEN "LOCAL" ELSE other]
         /\ path = [x \in Slugs |-> IF x = m THEN p ELSE NoPath]
         /\ status = [x \in Slugs |-> IF x # m /\ other = "REMOTE" THEN "LOADED" ELSE "INACTIVE"]
         /\ keyed = IF other = "REMOTE" THEN Slugs \ {m} ELSE {}
         /\ allowed = Rows /\ entitled = Rows
         /\ dflt \in {NoModel} \union Rows
    /\ price = [m \in Slugs |-> CHOOSE p \in Prices : TRUE]
    /\ disk = Paths /\ live = {}
    /\ op = NoOp /\ infra = NoCall /\ boot = NoBoot
    /\ quiet = FALSE /\ broken = 0 /\ count = [ops |-> 0, crashes |-> 0]
    /\ clock = 0 /\ versions = [t \in {} |-> NoChat] /\ chat = NoChat

\* One action less when others run beside them.
OpBudget == IF mode = "busy" THEN MaxOps - 1 ELSE MaxOps

\* In mode "alone" one thing happens at a time.
MayStart ==
    /\ mode \in {"alone", "busy", "pricing"}
    /\ mode = "alone" => /\ op = NoOp /\ infra = NoCall
                         /\ boot.pc = "up"

-----------------------------------------------------------------------------
(* The operator's actions. Begin* is the click, up to the first await that *)
(* changes something; Step* are shared by the actions that perform them.   *)

Begin(act, m, pc, file, p, flag) ==
    /\ MayStart /\ op = NoOp /\ count.ops < OpBudget
    /\ op' = [NoOp EXCEPT !.act = act, !.m = m, !.pc = pc, !.file = file, !.price = p,
                          !.flag = flag, !.was = price[m], !.kin = kind[m]]
    /\ count' = [count EXCEPT !.ops = @ + 1]
    /\ quiet' = FALSE
    /\ UNCHANGED <<mode, survives, registry, grants, disk, live, infra, boot, broken,
                   pricing, panelVars>>

\* What the page offers. It is drawn again after each action; beside other
\* writers the operator may still look at an older one.
Fresh == mode = "alone"
EditOffered(m) == m \in Rows
GrantOffered(m) == m \in Rows /\ (Fresh => m \notin allowed)
DefaultOffered(m) == Fresh => m # dflt
RemoveOffered(m) == Fresh => m \in Rows
RegisterOffered(f) == Fresh => \A m \in Rows : path[m] # f

\* upsertModelAction: any path the form holds; WriteRow and CreateVersion follow.
BeginUpsertModel(m, f, p) == Begin("local", m, "row", f, p, FALSE)

\* upsertRemoteModelAction: refused without a key, a stored one or the
\* environment's; `flag` is makeDefault.
BeginUpsertRemote(m, key, p, def) ==
    /\ key \/ m \in keyed \/ EnvKey
    /\ Begin("remote", m, IF key \/ m \in keyed THEN "keyrow" ELSE "row", NoPath, p, def)

\* updateModelPropertiesAction: the row is read first.
BeginEdit(m, f, p) ==
    /\ EditOffered(m)
    /\ Begin("edit", m, "row", IF Remote(m) THEN NoPath ELSE f, p, FALSE)

BeginGrant(m) == GrantOffered(m) /\ Begin("grant", m, "plans", NoPath, 0, FALSE)

\* setPlatformDefaultModelAction: unknown models are refused.
BeginSetDefault(m) ==
    DefaultOffered(m) /\ m \in Rows /\ Begin("default", m, "default", NoPath, 0, FALSE)

\* removeModelAction, to the gateway's DELETE: unknown models get 404.
BeginRemove(m) ==
    RemoveOffered(m) /\ m \in Rows /\ Begin("remove", m, "unload", NoPath, 0, FALSE)

Goto(pc) == op' = [op EXCEPT !.pc = pc]
At(act, pc) == op.act = act /\ op.pc = pc
Done == op' = NoOp

\* hostedModel.upsert of the two forms and hostedModel.update of the edit. The
\* local form leaves the status of an existing row alone; the edit of a row that
\* is gone throws.
WriteRow ==
    /\ op.pc \in {"row", "keyrow"} /\ op.act \in {"local", "remote", "edit"}
    /\ op.act = "edit" => op.m \in Rows
    /\ kind' = [kind EXCEPT ![op.m] = CASE op.act = "local" -> "LOCAL"
                                        [] op.act = "remote" -> "REMOTE"
                                        [] OTHER -> @]
    /\ status' = [status EXCEPT ![op.m] = CASE op.act = "remote" -> "LOADED"
                                            [] op.act = "local" /\ kind[op.m] = "NONE" -> "INACTIVE"
                                            [] OTHER -> @]
    /\ path' = [path EXCEPT ![op.m] = IF op.act = "edit" /\ op.kin = "REMOTE" THEN @ ELSE op.file]
    /\ price' = [price EXCEPT ![op.m] = op.price]
    /\ keyed' = IF op.pc = "keyrow" THEN keyed \union {op.m} ELSE keyed
    /\ IF op.act = "edit" /\ op.price = op.was THEN Done
       ELSE Goto(IF op.act = "edit" THEN "close" ELSE "version")
    /\ UNCHANGED <<mode, survives, dflt, grants, disk, live, infra, boot, quiet, broken,
                   count, pricing, panelVars>>

\* pricingVersion.updateMany of the edit: `now` is taken and open versions end.
Tick ==
    /\ mode = "pricing" => clock < MaxClock
    /\ clock' = IF mode = "pricing" THEN clock + 1 ELSE clock

CloseVersions ==
    /\ At("edit", "close")
    /\ Tick
    /\ versions' = [t \in DOMAIN versions |-> [versions[t] EXCEPT !.open = FALSE]]
    /\ op' = [op EXCEPT !.pc = "version", !.was = clock']
    /\ UNCHANGED <<mode, survives, registry, grants, disk, live, infra, boot, quiet,
                   broken, count, chat, panelVars>>

\* A new version of price p that is effective from t; no two take the same time.
InsertVersion(t, p) ==
    [u \in DOMAIN versions \union {t} |->
        IF u = t THEN [price |-> p, open |-> TRUE] ELSE versions[u]]

\* pricingVersion.create: the forms leave older versions open and take
\* the default effectiveFrom; the edit passes the `now` it closed them with.
CreateVersion ==
    /\ op.pc = "version"
    /\ IF op.act = "edit" THEN clock' = clock ELSE Tick
    /\ versions' = IF mode # "pricing" THEN versions
                   ELSE InsertVersion(IF op.act = "edit" THEN op.was ELSE clock', op.price)
    /\ IF op.act = "remote" THEN Goto("plans") ELSE Done
    /\ UNCHANGED <<mode, survives, registry, grants, disk, live, infra, boot, quiet,
                   broken, count, chat, panelVars>>

\* plan.findMany: the array is read now and written back whole later.
ReadPlans ==
    /\ op.pc = "plans"
    /\ op' = [op EXCEPT !.seen = allowed,
                        !.pc = IF op.act = "remove" THEN "strip"
                               ELSE IF op.m \in allowed THEN "granted" ELSE "array"]
    /\ UNCHANGED <<mode, survives, registry, grants, disk, live, infra, boot, quiet,
                   broken, count, pricing, panelVars>>

\* Promise.all over the plans that lack the model: array, then entitlement.
WriteArray ==
    /\ op.pc = "array"
    /\ allowed' = op.seen \union {op.m} /\ Goto("entitle")
    /\ UNCHANGED <<mode, survives, registry, entitled, disk, live, infra, boot, quiet,
                   broken, count, pricing, panelVars>>

Entitle ==
    /\ op.pc = "entitle"
    /\ entitled' = entitled \union {op.m} /\ Goto("granted")
    /\ UNCHANGED <<mode, survives, registry, allowed, disk, live, infra, boot, quiet,
                   broken, count, pricing, panelVars>>

\* What follows the grant: nothing, makeDefault, or the warm load.
AfterGrant ==
    /\ op.pc = "granted"
    /\ IF op.act = "default" THEN Goto(IF op.kin = "REMOTE" THEN "avail" ELSE "list")
       ELSE IF op.flag THEN Goto("default") ELSE Done
    /\ UNCHANGED <<mode, survives, registry, grants, disk, live, infra, boot, quiet,
                   broken, count, pricing, panelVars>>

\* The transaction that moves the default; without the row it rolls back and
\* the action throws.
MoveDefault ==
    /\ op.pc = "default"
    /\ dflt' = IF op.m \in Rows THEN op.m ELSE dflt
    /\ IF op.act = "default" /\ op.m \in Rows THEN Goto("plans") ELSE Done
    /\ broken' = broken
    /\ UNCHANGED <<mode, survives, kind, status, path, price, keyed, grants, disk, live,
                   infra, boot, quiet, count, pricing, panelVars>>

\* A remote default is marked available by its row id.
MarkAvailable ==
    /\ At("default", "avail")
    /\ status' = IF op.m \in Rows THEN [status EXCEPT ![op.m] = "LOADED"] ELSE status
    /\ IF op.m \in Rows THEN Goto("list") ELSE Done
    /\ UNCHANGED <<mode, survives, kind, path, price, dflt, keyed, grants, disk, live,
                   infra, boot, quiet, broken, count, pricing, panelVars>>

\* GET /engine/models: the local pool and the remotes marked LOADED.
EngineModels == live \union {m \in Rows : Remote(m) /\ status[m] = "LOADED"}

ListOthers ==
    /\ At("default", "list") /\ boot.pc # "down"
    /\ op' = [op EXCEPT !.pc = "evict", !.seen = EngineModels \ {op.m}]
    /\ UNCHANGED <<mode, survives, registry, grants, disk, live, infra, boot, quiet,
                   broken, count, pricing, panelVars>>

\* unloadModel: a remote row is only marked; a local model leaves the pool.
Unloaded(m) == IF Remote(m) THEN live ELSE live \ {m}
Inactive(m) == IF m \in Rows THEN [status EXCEPT ![m] = "INACTIVE"] ELSE status

\* POST unload of one other model, best effort; a local default is then loaded.
EvictOther ==
    /\ At("default", "evict") /\ boot.pc # "down"
    /\ op.seen # {}
    /\ \E m \in op.seen, ok \in BOOLEAN :
         /\ op' = [op EXCEPT !.seen = @ \ {m}]
         /\ live' = IF ok THEN Unloaded(m) ELSE live
         /\ status' = IF ok THEN Inactive(m) ELSE status
    /\ UNCHANGED <<mode, survives, kind, path, price, dflt, keyed, grants, disk, infra,
                   boot, quiet, broken, count, pricing, panelVars>>

\* What the load route reads: the row's file, none for a remote row.
FileOf(m) == IF Remote(m) THEN NoPath ELSE path[m]

LoadDefault ==
    /\ At("default", "evict") /\ op.seen = {}
    /\ op' = IF op.kin = "REMOTE" \/ op.m \notin Rows THEN NoOp
             ELSE [op EXCEPT !.pc = "loading", !.file = FileOf(op.m)]
    /\ UNCHANGED <<mode, survives, registry, grants, disk, live, infra, boot, quiet,
                   broken, count, pricing, panelVars>>

-----------------------------------------------------------------------------
(* The gateway's routes                                                    *)

\* loadModel answers: a remote row is marked, a local model joins the pool when
\* its file is there and the process comes up. A row deleted meanwhile makes the
\* status write throw; the process stays.
LoadAnswers(m, f) ==
    \E ok \in BOOLEAN :
      /\ ok <=> (f = NoPath \/ (ok /\ f \in disk))
      /\ live' = IF ok /\ f # NoPath THEN live \union {m} ELSE live
      /\ status' = IF m \notin Rows THEN status
                   ELSE [status EXCEPT ![m] = IF ok THEN "LOADED" ELSE "ERROR"]

DefaultLoaded ==
    /\ At("default", "loading") /\ boot.pc # "down"
    /\ LoadAnswers(op.m, op.file) /\ Done
    /\ UNCHANGED <<mode, survives, kind, path, price, dflt, keyed, grants, disk, infra,
                   boot, quiet, broken, count, pricing, panelVars>>

\* POST /engine/models/register: one upsert, after the file was found on disk;
\* an existing row keeps its kind and its status. In mode "busy" another client may
\* call it beside the operator's action; a removal that has counted the rows on its
\* path does not see the row (`late`).
RegisterDiscovered(m, f) ==
    /\ MayStart /\ (mode = "busy" \/ op = NoOp)
    /\ count.ops < OpBudget /\ mode # "pricing"
    /\ RegisterOffered(f) /\ f \in disk /\ boot.pc # "down"
    /\ kind' = [kind EXCEPT ![m] = IF @ = "NONE" THEN "LOCAL" ELSE @]
    /\ status' = [status EXCEPT ![m] = IF kind[m] = "NONE" THEN "INACTIVE" ELSE @]
    /\ path' = [path EXCEPT ![m] = f]
    /\ price' = [price EXCEPT ![m] = CHOOSE p \in Prices : TRUE]
    /\ op' = IF op.pc \in {"delete", "unlink"} THEN [op EXCEPT !.late = @ \union {m}] ELSE op
    /\ count' = [count EXCEPT !.ops = @ + 1] /\ quiet' = FALSE
    /\ UNCHANGED <<mode, survives, dflt, keyed, grants, disk, live, infra, boot,
                   broken, pricing, panelVars>>

\* DELETE: the runtime is ejected first, then the plans are read.
RemoveUnload ==
    /\ At("remove", "unload") /\ boot.pc # "down"
    /\ live' = Unloaded(op.m) /\ status' = Inactive(op.m)
    /\ op' = [op EXCEPT !.pc = "plans", !.file = path[op.m]]
    /\ UNCHANGED <<mode, survives, kind, path, price, dflt, keyed, grants, disk, infra,
                   boot, quiet, broken, count, pricing, panelVars>>

RemoveStrip ==
    /\ At("remove", "strip") /\ boot.pc # "down"
    /\ allowed' = IF op.m \in op.seen THEN op.seen \ {op.m} ELSE allowed
    /\ Goto("revoke")
    /\ UNCHANGED <<mode, survives, registry, entitled, disk, live, infra, boot, quiet,
                   broken, count, pricing, panelVars>>

\* planModelEntitlement.deleteMany, then the count of the other rows whose path is the
\* same string. Another spelling of the path, or another shard of a sharded file, is a
\* different string: Paths holds the strings, and no two of them are one file.
Sharers(m, f) == {x \in Rows \ {m} : path[x] = f}

\* The count is taken over rows that are LOADED only.
LoadedSharers(m, f) == {x \in Rows \ {m} : path[x] = f /\ status[x] = "LOADED"}

RemoveRevokeLoaded ==
    /\ At("remove", "revoke") /\ boot.pc # "down"
    /\ entitled' = entitled \ {op.m}
    /\ op' = [op EXCEPT !.pc = "delete", !.flag = LoadedSharers(op.m, op.file) = {}]
    /\ UNCHANGED <<mode, survives, registry, allowed, disk, live, infra, boot, quiet,
                   broken, count, pricing, panelVars>>

RemoveRevoke ==
    /\ At("remove", "revoke") /\ boot.pc # "down"
    /\ entitled' = entitled \ {op.m}
    /\ op' = [op EXCEPT !.pc = "delete", !.flag = Sharers(op.m, op.file) = {}]
    /\ UNCHANGED <<mode, survives, registry, allowed, disk, live, infra, boot, quiet,
                   broken, count, pricing, panelVars>>

\* The row goes, and with it the default flag and its pricing versions.
RemoveRow ==
    /\ At("remove", "delete") /\ boot.pc # "down" /\ op.m \in Rows
    /\ kind' = [kind EXCEPT ![op.m] = "NONE"]
    /\ status' = [status EXCEPT ![op.m] = "INACTIVE"]
    /\ path' = [path EXCEPT ![op.m] = NoPath]
    /\ dflt' = IF dflt = op.m THEN NoModel ELSE dflt
    /\ keyed' = keyed \ {op.m}
    /\ IF op.flag THEN Goto("unlink") ELSE Done
    /\ UNCHANGED <<mode, survives, price, grants, disk, live, infra, boot, quiet, broken,
                   count, pricing, panelVars>>

\* deleteRegisteredWeights; a failure is only reported.
RemoveFiles ==
    /\ At("remove", "unlink") /\ boot.pc # "down"
    /\ \E ok \in BOOLEAN : disk' = IF ok THEN disk \ {op.file} ELSE disk
    /\ Done
    /\ UNCHANGED <<mode, survives, registry, grants, live, infra, boot, quiet, broken,
                   count, pricing, panelVars>>

\* Another operator's DELETE, run to its end between two of our steps.
ColleagueRemoves(m) ==
    /\ mode = "busy" /\ m \in Rows /\ boot.pc # "down" /\ count.ops < OpBudget
    /\ count' = [count EXCEPT !.ops = @ + 1] /\ quiet' = FALSE
    /\ live' = Unloaded(m)
    /\ allowed' = allowed \ {m} /\ entitled' = entitled \ {m}
    /\ disk' = IF Sharers(m, path[m]) = {} THEN disk \ {path[m]} ELSE disk
    /\ kind' = [kind EXCEPT ![m] = "NONE"] /\ status' = [status EXCEPT ![m] = "INACTIVE"]
    /\ path' = [path EXCEPT ![m] = NoPath]
    /\ dflt' = IF dflt = m THEN NoModel ELSE dflt
    /\ keyed' = keyed \ {m}
    /\ UNCHANGED <<mode, survives, price, op, infra, boot, broken, pricing, panelVars>>

\* A database or gateway error between two awaits ends the action.
ActionFails ==
    /\ op # NoOp /\ broken < MaxFaults /\ mode \in {"alone", "busy"}
    /\ Done /\ broken' = broken + 1
    /\ UNCHANGED <<mode, survives, registry, grants, disk, live, infra, boot, quiet,
                   count, pricing, panelVars>>

\* A step of the action can no longer succeed: the row it edits or deletes or the
\* gateway it calls is gone. It ends the same way.
ActionStuck ==
    /\ op # NoOp
    /\ \/ op.act = "edit" /\ op.pc = "row" /\ op.m \notin Rows
       \/ op.act = "remove" /\ op.pc = "delete" /\ op.m \notin Rows
       \/ boot.pc = "down" /\ \/ op.act = "remove"
                              \/ op.act = "default" /\ op.pc \in {"list", "evict", "loading"}
    /\ Done
    /\ UNCHANGED <<mode, survives, registry, grants, disk, live, infra, boot, quiet,
                   broken, count, pricing, panelVars>>

\* loadModelAction and unloadModelAction of the infrastructure page.
InfraCall(act, m) ==
    /\ MayStart /\ infra = NoCall /\ mode \in {"alone", "busy"} /\ boot.pc # "down"
    /\ count.ops < OpBudget /\ count' = [count EXCEPT !.ops = @ + 1]
    /\ m \in Rows
    /\ infra' = [act |-> act, m |-> m, file |-> FileOf(m)] /\ quiet' = FALSE
    /\ UNCHANGED <<mode, survives, registry, grants, disk, live, op, boot, broken,
                   pricing, panelVars>>

InfraAnswers ==
    /\ infra # NoCall /\ boot.pc # "down"
    /\ \/ infra.act = "load" /\ LoadAnswers(infra.m, infra.file)
       \/ infra.act = "unload" /\ live' = Unloaded(infra.m) /\ status' = Inactive(infra.m)
    /\ infra' = NoCall
    /\ UNCHANGED <<mode, survives, kind, path, price, dflt, keyed, grants, disk, op, boot,
                   quiet, broken, count, pricing, panelVars>>

-----------------------------------------------------------------------------
(* Restart and start-up                                                    *)

Crash ==
    /\ mode \in {"alone", "busy"} /\ count.crashes < MaxCrashes
    /\ mode = "alone" => op = NoOp
    /\ count' = [count EXCEPT !.crashes = @ + 1]
    /\ live' = IF survives THEN live ELSE {}
    /\ boot' = [NoBoot EXCEPT !.pc = "down"]
    /\ infra' = NoCall /\ quiet' = (op = NoOp)
    /\ UNCHANGED <<mode, survives, registry, grants, disk, op, broken, pricing, panelVars>>

BootStep(from, to) == boot.pc = from /\ boot' = [boot EXCEPT !.pc = to]
BootUnchanged == UNCHANGED <<mode, survives, kind, path, price, dflt, keyed, grants, disk,
                             op, infra, quiet, broken, count, pricing, panelVars>>

\* listen() precedes the bootstrap: calls are served from here on.
BootListens == BootStep("down", "list") /\ UNCHANGED <<live, status>> /\ BootUnchanged

\* reconcileModelRegistry: the list, then one transaction of two updates.
BootLists ==
    /\ boot.pc = "list"
    /\ boot' = [boot EXCEPT !.pc = "reconcile", !.seen = EngineModels]
    /\ UNCHANGED <<live, status>> /\ BootUnchanged

\* The second update of the transaction is missing.
BootReconcilesHalf ==
    /\ BootStep("reconcile", "find")
    /\ status' = [m \in Slugs |->
                    IF kind[m] = "LOCAL" /\ m \notin boot.seen /\ status[m] = "LOADED"
                    THEN "INACTIVE" ELSE status[m]]
    /\ UNCHANGED live /\ BootUnchanged

BootReconciles ==
    /\ BootStep("reconcile", "find")
    /\ status' = [m \in Slugs |->
                    CASE kind[m] # "LOCAL" -> status[m]
                      [] kind[m] = "LOCAL" /\ m \in boot.seen -> "LOADED"
                      [] kind[m] = "LOCAL" /\ m \notin boot.seen ->
                           IF status[m] = "LOADED" THEN "INACTIVE" ELSE status[m]]
    /\ UNCHANGED live /\ BootUnchanged

\* warmPlatformDefaultModel: no default, nothing to do; otherwise unloadAllExcept
\* lists the pool.
BootFindsDefault ==
    /\ boot.pc = "find"
    /\ boot' = IF dflt = NoModel THEN NoBoot
               ELSE [NoBoot EXCEPT !.pc = "evict", !.seen = EngineModels \ {dflt},
                                   !.m = dflt, !.file = FileOf(dflt)]
    /\ UNCHANGED <<live, status>> /\ BootUnchanged

\* unloadAllExcept asks of each listed model whether its row is remote; `kin` is the
\* answer. A remote one is skipped.
BootChecks ==
    /\ boot.pc = "evict"
    /\ \E m \in boot.seen :
         boot' = [boot EXCEPT !.seen = @ \ {m}, !.victim = m, !.kin = kind[m],
                              !.pc = IF Remote(m) THEN "evict" ELSE "unload"]
    /\ UNCHANGED <<live, status>> /\ BootUnchanged

\* The awaited unloadModel, which reads the row's kind itself; a failure is skipped.
BootUnloads ==
    /\ boot.pc = "unload"
    /\ \E ok \in BOOLEAN :
         /\ boot' = [boot EXCEPT !.pc = IF ok THEN "mark" ELSE "evict"]
         /\ live' = IF ok THEN Unloaded(boot.victim) ELSE live
         /\ status' = IF ok /\ Remote(boot.victim) THEN Inactive(boot.victim) ELSE status
    /\ BootUnchanged

\* The updateMany after it, whatever the row has become.
BootMarks ==
    /\ BootStep("mark", "evict")
    /\ status' = Inactive(boot.victim)
    /\ UNCHANGED live /\ BootUnchanged

\* A remote default is marked, a resident one too, another is loaded. A row
\* deleted meanwhile makes the write throw and ends the bootstrap.
BootMarksDefault ==
    /\ boot.pc = "evict" /\ boot.seen = {}
    /\ LET marks == boot.m \in Rows /\ (Remote(boot.m) \/ boot.m \in EngineModels)
       IN  /\ status' = IF marks THEN [status EXCEPT ![boot.m] = "LOADED"] ELSE status
           /\ boot' = IF boot.m \in Rows /\ ~marks THEN [boot EXCEPT !.pc = "warming"] ELSE NoBoot
    /\ UNCHANGED live /\ BootUnchanged

BootLoadsDefault ==
    /\ boot.pc = "warming" /\ boot' = NoBoot
    /\ LoadAnswers(boot.m, boot.file)
    /\ BootUnchanged

\* The bootstrap is one try: an error leaves the rest of it undone. The status write
\* after an unload has a try of its own.
BootFails ==
    /\ boot.pc \in {"list", "reconcile", "find", "evict", "mark"} /\ broken < MaxFaults
    /\ boot' = IF boot.pc = "mark" THEN [boot EXCEPT !.pc = "evict"] ELSE NoBoot
    /\ broken' = broken + 1 /\ quiet' = FALSE
    /\ UNCHANGED <<mode, survives, registry, grants, disk, live, op, infra, count,
                   pricing, panelVars>>

\* A resident llama-server dies; its exit handler writes ERROR (external).
ProcessExits(m) ==
    /\ mode = "busy" /\ ~survives /\ m \in live /\ boot.pc # "down"
    /\ live' = live \ {m}
    /\ status' = IF m \in Rows THEN [status EXCEPT ![m] = "ERROR"] ELSE status
    /\ UNCHANGED boot /\ BootUnchanged

-----------------------------------------------------------------------------
(* getActivePricingVersion of a chat request                               *)

Active == {t \in DOMAIN versions : versions[t].open}
ActivePrice == versions[CHOOSE t \in Active : \A u \in Active : u <= t].price
Priced == CHOOSE m \in Slugs : TRUE

\* `now`, and findFirst over the versions open at that time.
PriceLookup ==
    /\ mode = "pricing" /\ chat = NoChat /\ clock < MaxClock
    /\ Tick
    /\ chat' = IF Active # {} THEN NoChat
               ELSE [pc |-> "found_none", now |-> clock', price |-> 0]
    /\ UNCHANGED <<mode, survives, registry, grants, disk, live, op, infra, boot, quiet,
                   broken, count, versions, panelVars>>

\* findUniqueOrThrow of the row.
PriceReadRow ==
    /\ chat.pc = "found_none"
    /\ chat' = [chat EXCEPT !.pc = "priced", !.price = price[Priced]]
    /\ UNCHANGED <<mode, survives, registry, grants, disk, live, op, infra, boot, quiet,
                   broken, count, clock, versions, panelVars>>

\* effectiveFrom left to the database's default.
PriceCreateLate ==
    /\ chat.pc = "priced"
    /\ versions' = InsertVersion(clock, chat.price)
    /\ chat' = NoChat
    /\ UNCHANGED <<mode, survives, registry, grants, disk, live, op, infra, boot, quiet,
                   broken, count, clock, panelVars>>

\* The first version is created, effective from the `now` of the look-up.
PriceCreate ==
    /\ chat.pc = "priced"
    /\ versions' = InsertVersion(chat.now, chat.price)
    /\ chat' = NoChat
    /\ UNCHANGED <<mode, survives, registry, grants, disk, live, op, infra, boot, quiet,
                   broken, count, clock, panelVars>>

-----------------------------------------------------------------------------
\* Prices vary in mode "pricing" only.
OfferedPrices == IF mode = "pricing" THEN Prices ELSE {CHOOSE p \in Prices : TRUE}

Begins ==
    \E m \in Slugs :
      \/ \E f \in Paths, p \in OfferedPrices :
           \/ BeginUpsertModel(m, f, p) /\ (mode = "pricing" => m = Priced)
           \/ BeginEdit(m, f, p)
      \/ \E key, def \in BOOLEAN, p \in OfferedPrices :
           mode # "pricing" /\ BeginUpsertRemote(m, key, p, def)
      \/ mode # "pricing" /\ (BeginGrant(m) \/ BeginSetDefault(m) \/ BeginRemove(m))
      \/ \E f \in Paths : RegisterDiscovered(m, f)

OpStep ==
    \/ WriteRow \/ CloseVersions \/ CreateVersion
    \/ ReadPlans \/ WriteArray \/ Entitle \/ AfterGrant
    \/ MoveDefault \/ MarkAvailable \/ ListOthers \/ EvictOther \/ LoadDefault
    \/ DefaultLoaded
    \/ RemoveUnload \/ RemoveStrip \/ RemoveRevoke \/ RemoveRow \/ RemoveFiles
    \/ ActionStuck

Boots ==
    \/ BootListens \/ BootLists \/ BootReconciles \/ BootFindsDefault \/ BootChecks
    \/ BootUnloads \/ BootMarks \/ BootMarksDefault \/ BootLoadsDefault

AdminNext ==
    \/ Begins \/ OpStep \/ ActionFails
    \/ \E m \in Slugs, act \in {"load", "unload"} : InfraCall(act, m)
    \/ InfraAnswers
    \/ Crash \/ Boots \/ BootFails
    \/ \E m \in Slugs : ProcessExits(m) \/ ColleagueRemoves(m)
    \/ PriceLookup \/ PriceReadRow \/ PriceCreate

RegistryNext == AdminNext \/ (PanelNext /\ UNCHANGED adminVars)

RegistrySpec == RegistryInit /\ [][RegistryNext]_registryVars /\ PanelFairness

-----------------------------------------------------------------------------
(* Properties                                                              *)

\* models/actions.ts:478-487: moving the platform default is one transaction, so
\* whatever happens to the row meanwhile the platform never loses the default it
\* had, except by the removal of that very model.
DefaultKept == dflt # NoModel /\ dflt' = NoModel => dflt \notin Rows'

\* models/actions.ts:156-184 and 489-504: unless an action was cut short, the
\* default is in the plans' arrays, which `auto` routing requires, and the
\* arrays and the entitlement rows say the same.
GrantsAgree ==
    mode = "alone" /\ broken = 0 /\ op = NoOp =>
      (dflt # NoModel => dflt \in allowed) /\ allowed = entitled

\* internal.ts:533-548: the rows on a path are counted before the row is deleted, and
\* the file goes two awaits after the count. A removal deletes no file that a row names,
\* other than a row that took the path after that count.
SharedFilesKept ==
    \A f \in disk \ disk' : \A m \in Rows' : path'[m] = f => m \in op.late

\* models/actions.ts:77-124: every remote row has a stored credential or the
\* environment's key, through registrations, edits and removals.
RemoteHasKey == \A m \in Rows : Remote(m) => m \in keyed \/ EnvKey

\* engine/index.ts:126-150 "Remotes are left alone": start-up changes the status of no
\* remote model but the default it warms and a row that was made remote after start-up
\* had found it not to be, while it awaited the model's unload.
StartupLeavesRemotes ==
    boot' # boot =>
      \A m \in Rows \ {boot.m} : Remote(m) /\ status'[m] # status[m] =>
        m = boot.victim /\ boot.kin # "REMOTE"

\* engine/index.ts:100-124: after a restart during which nobody else wrote, a
\* local model is LOADED in the registry exactly when it is in the pool.
RegistryMatchesPool ==
    quiet /\ boot.pc = "up" =>
      \A m \in Rows : kind[m] = "LOCAL" => (status[m] = "LOADED" <=> m \in live)

\* lib/pricing.ts:3-24 against models/actions.ts:378-394: a chat request that
\* creates the first version while the operator changes the price never makes an
\* older price the active one.
ActivePriceIsLatest ==
    mode = "pricing" /\ op = NoOp /\ Active # {} => ActivePrice = price[Priced]

\* A step takes from another model what it needs only where the code's check is already
\* behind it: the platform keeps its default, a removal keeps the files that were shared
\* when it counted, start-up leaves alone the rows it found remote (models/actions.ts,
\* routes/internal.ts, engine/index.ts).
StepsSpareOthers == [][DefaultKept /\ SharedFilesKept /\ StartupLeavesRemotes]_registryVars

\* The records of a model agree after every action of the models page and every
\* restart: plan arrays and entitlements, remote rows and their keys, registry
\* and pool (models/actions.ts, engine/index.ts); all state keeps its types.
RegistryAgrees == RegistryTypeOK /\ GrantsAgree /\ RemoteHasKey /\ RegistryMatchesPool
=============================================================================

---------------------------- MODULE HubDownloads ----------------------------
(***************************************************************************)
(* The gateway's manager of Hugging Face downloads (lib/huggingFace.ts):    *)
(* jobs, their queue, the abort controllers that limit how many run, the    *)
(* attempts of runDownload, the .part and final files, and registration of  *)
(* the bundle in the model registry.  All files are shards of one bundle.   *)
(*                                                                          *)
(* One action is what happens between two awaits.  A job may have several   *)
(* runners (calls of runDownload) at once; the map of controllers holds     *)
(* only the last one's.  A runner is <<job, n>>, n telling the runners of a *)
(* job apart.                                                               *)
(***************************************************************************)
EXTENDS Integers, Sequences, FiniteSets, SequencesExt

CONSTANTS
  Jobs,           \* ids that downloads may get
  Shards,         \* the shards
  FileOf,         \* [Jobs -> Shards]
  FirstShard,     \* the shard that scanWeights reports
  MaxConcurrent,  \* HF_MAX_CONCURRENT_DOWNLOADS
  MaxAttempts,    \* MAX_DOWNLOAD_ATTEMPTS
  MaxDisturbances, \* bound: retries by the administrator and restarts of the
                   \* gateway, together
  Corrupts        \* whether a transfer may deliver wrong bytes

ASSUME JobsAssumption ==
  /\ IsFiniteSet(Jobs) /\ IsFiniteSet(Shards)
  /\ FileOf \in [Jobs -> Shards] /\ FirstShard \in Shards
ASSUME BoundsAssumption ==
  /\ MaxConcurrent \in Nat \ {0} /\ MaxAttempts \in Nat \ {0}
  /\ MaxDisturbances \in Nat /\ Corrupts \in BOOLEAN

Active == {"queued", "downloading", "verifying"}
Statuses == Active \cup {"completed", "cancelled", "failed"}

RunnerSteps == {"files", "response", "body", "hash", "rename", "register",
                "backoff"}
Contents == {"none", "partial", "good", "bad"}
Full == {"good", "bad"}

VARIABLES
  listed,      \* activeDownloads: ids in the map
  used,        \* ids ever given out
  status,      \* state.status
  queue,       \* queuedDownloadIds
  controller,  \* controllers: the runner whose controller the map holds, or 0
  runner,      \* the runners: where each is, its attempt, its controller's
               \* signal and whether the attempt has a hash to compare with
  hashKnown,   \* expectedHashes
  part,        \* <file>.part
  final,       \* <file>
  registered,  \* the bundle has a row in HostedModel
  saved,       \* .modelforge-hf-downloads.json
  retries,     \* retries so far
  restarts     \* restarts so far

jobVars == <<listed, used, status, queue, controller, hashKnown, retries>>
diskVars == <<part, final, registered>>
hubVars == <<jobVars, runner, diskVars, saved, restarts>>

HubTypeOK ==
  /\ listed \subseteq Jobs /\ used \subseteq Jobs
  /\ status \in [Jobs -> Statuses]
  /\ queue \in Seq(Jobs)
  /\ controller \in [Jobs -> Nat]
  /\ IsFiniteSet(DOMAIN runner) /\ DOMAIN runner \subseteq Jobs \X (Nat \ {0})
  /\ \A r \in DOMAIN runner :
       runner[r] \in [at : RunnerSteps, attempt : 1 .. MaxAttempts,
                     aborted : BOOLEAN, checks : BOOLEAN]
  /\ hashKnown \subseteq Jobs
  /\ part \in [Shards -> Contents] /\ final \in [Shards -> Contents]
  /\ registered \in BOOLEAN
  /\ DOMAIN saved \subseteq Jobs
  /\ \A j \in DOMAIN saved : saved[j] \in Statuses
  /\ retries \in 0 .. MaxDisturbances
  /\ restarts \in 0 .. MaxDisturbances

\* runDownload is called, with a new controller.
NewRunner == [at |-> "files", attempt |-> 1, aborted |-> FALSE, checks |-> FALSE]

HubInit ==
  /\ listed = {} /\ used = {}
  /\ status = [j \in Jobs |-> "completed"]   \* of no meaning until used
  /\ queue = <<>>
  /\ controller = [j \in Jobs |-> 0]
  /\ runner = [r \in {} |-> NewRunner]
  /\ hashKnown = {}
  /\ part = [f \in Shards |-> "none"] /\ final = [f \in Shards |-> "none"]
  /\ registered = FALSE
  /\ saved = [j \in {} |-> "queued"]
  /\ retries = 0
  /\ restarts = 0

-----------------------------------------------------------------------------
(* Shared pieces. *)

Shard(r) == FileOf[r[1]]

\* downloadWasCancelled
Cancelled(r) == runner[r].aborted \/ status[r[1]] = "cancelled"

\* The bound on retries and restarts is not used up.
MayDisturb == retries + restarts < MaxDisturbances

\* The runners of j, and a number none of them has.
RunnersOf(run, j) == {r \in DOMAIN run : r[1] = j}
NextNumber(run, j) ==
  CHOOSE k \in 1 .. Cardinality(RunnersOf(run, j)) + 1 : <<j, k>> \notin DOMAIN run

\* A new runner of j.
AddRunner(run, r) ==
  [q \in DOMAIN run \cup {r} |-> IF q = r THEN NewRunner ELSE run[q]]

\* MUTANT: one runner too many.
PumpOneMore(ls, st, acc, j) ==
  IF Cardinality({i \in Jobs : acc.controller[i] # 0}) > MaxConcurrent
  THEN [rest |-> Append(acc.rest, j), controller |-> acc.controller, runner |-> acc.runner]
  ELSE IF j \notin ls \/ st[j] # "queued" THEN acc
  ELSE LET k == NextNumber(acc.runner, j) IN
       [rest       |-> acc.rest,
        controller |-> [acc.controller EXCEPT ![j] = k],
        runner     |-> AddRunner(acc.runner, <<j, k>>)]

\* One pass of the loop of pumpDownloadQueue, for the id at the head of the
\* queue: kept when no slot is free, skipped when the job is gone or no longer
\* queued, started otherwise.
PumpOne(ls, st, acc, j) ==
  IF Cardinality({i \in Jobs : acc.controller[i] # 0}) >= MaxConcurrent
  THEN [rest |-> Append(acc.rest, j), controller |-> acc.controller, runner |-> acc.runner]
  ELSE IF j \notin ls \/ st[j] # "queued" THEN acc
  ELSE LET k == NextNumber(acc.runner, j) IN
       [rest       |-> acc.rest,
        controller |-> [acc.controller EXCEPT ![j] = k],
        runner     |-> AddRunner(acc.runner, <<j, k>>)]

\* pumpDownloadQueue over queue q, with the other maps as they are at the call.
Pumped(q, ls, st, ctl, run) ==
  LET loop[n \in 0 .. Len(q)] ==
        IF n = 0 THEN [rest |-> <<>>, controller |-> ctl, runner |-> run]
        ELSE PumpOne(ls, st, loop[n - 1], q[n])
  IN loop[Len(q)]

Pump(q, ls, st, ctl, run) ==
  LET end == Pumped(q, ls, st, ctl, run)
  IN /\ queue' = end.rest
     /\ controller' = end.controller
     /\ runner' = end.runner

\* MUTANT: the finally block frees the slot and does not pump the queue.
FinishNoPump(r, s) ==
  /\ status' = [status EXCEPT ![r[1]] = s]
  /\ hashKnown' = hashKnown \ {r[1]}
  /\ controller' = [controller EXCEPT ![r[1]] = 0]
  /\ runner' = Restrict(runner, DOMAIN runner \ {r})
  /\ UNCHANGED queue

\* Runner r leaves runDownload with status s: the finally block.
Finish(r, s) ==
  /\ status' = [status EXCEPT ![r[1]] = s]
  /\ hashKnown' = hashKnown \ {r[1]}
  /\ Pump(queue, listed, status', [controller EXCEPT ![r[1]] = 0],
          Restrict(runner, DOMAIN runner \ {r}))

\* Runner r goes to step s and leaves the queue alone.
Go(r, s) ==
  /\ runner' = [runner EXCEPT ![r].at = s]
  /\ UNCHANGED <<queue, controller>>

\* MUTANT: back to "queued" without an entry in the queue or a timer.
CatchDropsJob(r, retryable) ==
  IF Cancelled(r) THEN Finish(r, "cancelled")
  ELSE Finish(r, IF retryable /\ runner[r].attempt < MaxAttempts
                 THEN "queued" ELSE "failed")

\* The catch block of runDownload.
Catch(r, retryable) ==
  IF Cancelled(r) THEN Finish(r, "cancelled")
  ELSE IF retryable /\ runner[r].attempt < MaxAttempts
       THEN /\ status' = [status EXCEPT ![r[1]] = "queued"]
            /\ Go(r, "backoff")
            /\ UNCHANGED hashKnown
       ELSE Finish(r, "failed")

\* completeDownload up to its first await.
CompleteDownload(r) ==
  IF \E j \in listed : j # r[1] /\ status[j] \in Active
  THEN Finish(r, "completed")
  ELSE /\ status' = [status EXCEPT ![r[1]] = "completed"]
       /\ Go(r, "register")
       /\ UNCHANGED hashKnown

\* All bytes of the .part file are there: compare the hash, or rename.
Received(r, h) ==
  /\ status' = IF h THEN [status EXCEPT ![r[1]] = "verifying"] ELSE status
  /\ Go(r, IF h THEN "hash" ELSE "rename")
  /\ UNCHANGED hashKnown

-----------------------------------------------------------------------------
(* The administrator's commands. *)

StartDownload(j) ==
  /\ j \notin used
  /\ \A i \in listed : FileOf[i] = FileOf[j] => status[i] = "completed"
  /\ used' = used \cup {j} /\ listed' = listed \cup {j}
  /\ status' = [status EXCEPT ![j] = "queued"]
  /\ hashKnown' = hashKnown \cup {j}
  /\ Pump(Append(queue, j), listed', status', controller, runner)
  /\ UNCHANGED <<diskVars, saved, retries, restarts>>

RetryDownload(j) ==
  /\ j \in listed /\ status[j] \notin Active
  /\ MayDisturb
  /\ retries' = retries + 1
  /\ status' = [status EXCEPT ![j] = "queued"]
  /\ Pump(Append(queue, j), listed, status', controller, runner)
  /\ UNCHANGED <<listed, used, hashKnown, diskVars, saved,
                 restarts>>

CancelDownload(j) ==
  /\ j \in listed /\ status[j] \in Active
  /\ status' = [status EXCEPT ![j] = "cancelled"]
  /\ IF controller[j] # 0
     THEN /\ runner' = [runner EXCEPT ![<<j, controller[j]>>].aborted = TRUE]
          /\ UNCHANGED queue
     ELSE /\ queue' = RemoveFirst(queue, j)
          /\ UNCHANGED runner
  /\ UNCHANGED <<listed, used, controller, hashKnown, retries, diskVars, saved,
                 restarts>>

RemoveDownload(j) ==
  /\ j \in listed /\ status[j] \notin Active
  /\ listed' = listed \ {j}
  /\ UNCHANGED <<used, status, queue, controller, hashKnown, retries,
                 runner, diskVars, saved, restarts>>

-----------------------------------------------------------------------------
(* A runner: runDownload and transferOnce. *)

\* The hash to compare with (looked up again when it is not remembered; an
\* unreachable Hub means none), then the files on disk decide.
InspectFiles(r) ==
  LET f == Shard(r) IN
  /\ runner[r].at = "files"
  /\ \E h \in (IF r[1] \in hashKnown THEN {TRUE} ELSE BOOLEAN) :
       /\ \/ /\ final[f] \in Full
             /\ CompleteDownload(r)
          \/ /\ final[f] \notin Full /\ part[f] \in Full
             /\ Received(r, h)
          \/ /\ final[f] \notin Full /\ part[f] \notin Full
             /\ runner' = [runner EXCEPT ![r].at = "response", ![r].checks = h]
             /\ UNCHANGED <<queue, controller>>
             /\ hashKnown' = IF h THEN hashKnown \cup {r[1]} ELSE hashKnown
             /\ UNCHANGED status
          \/ Catch(r, FALSE)     \* no directory, or no disk space
  /\ UNCHANGED <<listed, used, retries, diskVars, saved, restarts>>

\* The Hub answers, and the .part file is opened: created, or appended to.
Response(r) ==
  LET f == Shard(r) IN
  /\ runner[r].at = "response"
  /\ \/ /\ ~runner[r].aborted
        /\ status' = [status EXCEPT ![r[1]] = "downloading"]
        /\ part' = [part EXCEPT ![f] = "partial"]
        /\ Go(r, "body")
        /\ UNCHANGED hashKnown
     \/ /\ \E retryable \in BOOLEAN : Catch(r, retryable)
        /\ UNCHANGED part
  /\ UNCHANGED <<listed, used, retries, final, registered,
                 saved, restarts>>

\* Another runner writes to the same .part file.
Shared(r) ==
  \E o \in DOMAIN runner \ {r} : runner[o].at = "body" /\ Shard(o) = Shard(r)

\* What the file holds when r has counted all its bytes.
Delivered(r) ==
  {"good"} \cup (IF Corrupts \/ Shared(r) THEN {"bad"} ELSE {})

\* The stream ends: complete, or broken off.  A .part that another runner has
\* renamed meanwhile is the final file, and that is what was written to.
Body(r) ==
  LET f == Shard(r) IN
  /\ runner[r].at = "body"
  /\ \/ /\ ~runner[r].aborted /\ part[f] # "none"
        /\ \E d \in Delivered(r) : part' = [part EXCEPT ![f] = d]
        /\ Received(r, runner[r].checks)
        /\ UNCHANGED final
     \/ /\ ~runner[r].aborted /\ part[f] = "none"
        /\ final' = [final EXCEPT ![f] = "bad"]
        /\ Received(r, runner[r].checks)
        /\ UNCHANGED part
     \/ /\ \E retryable \in BOOLEAN : Catch(r, retryable)
        /\ UNCHANGED <<part, final>>
  /\ UNCHANGED <<listed, used, retries, registered, saved,
                 restarts>>

\* MUTANT: the digest is computed but not compared.
HashIgnored(r) ==
  /\ runner[r].at = "hash"
  /\ Go(r, "rename")
  /\ UNCHANGED <<status, hashKnown, listed, used, retries,
                 diskVars, saved, restarts>>

\* verifyDownloadedFile: a mismatch is no reason to try again by itself.
Hash(r) ==
  /\ runner[r].at = "hash"
  /\ \/ /\ part[Shard(r)] = "good"
        /\ Go(r, "rename")
        /\ UNCHANGED <<status, hashKnown>>
     \/ part[Shard(r)] # "good" /\ Catch(r, FALSE)
  /\ UNCHANGED <<listed, used, retries, diskVars, saved,
                 restarts>>

\* The .part file takes its final name, with no further look at the signal.
Rename(r) ==
  LET f == Shard(r) IN
  /\ runner[r].at = "rename"
  /\ \/ /\ part[f] # "none"
        /\ final' = [final EXCEPT ![f] = part[f]]
        /\ part' = [part EXCEPT ![f] = "none"]
        /\ CompleteDownload(r)
     \/ /\ part[f] = "none"
        /\ Catch(r, FALSE)
        /\ UNCHANGED <<part, final>>
  /\ UNCHANGED <<listed, used, retries, registered, saved,
                 restarts>>

\* The rest of completeDownload: the bundle is registered when scanWeights
\* finds its first shard; the database may fail.
Register(r) ==
  /\ runner[r].at = "register"
  /\ \/ /\ registered' = (registered \/ final[FirstShard] # "none")
        /\ Finish(r, status[r[1]])
     \/ /\ \E retryable \in BOOLEAN : Catch(r, retryable)
        /\ UNCHANGED registered
  /\ UNCHANGED <<listed, used, retries, part, final, saved,
                 restarts>>

\* The wait is over: the next attempt, unless cancelled.
Backoff(r) ==
  /\ runner[r].at = "backoff"
  /\ \/ /\ Cancelled(r)
        /\ Finish(r, "cancelled")
     \/ /\ ~Cancelled(r)
        /\ runner' = [runner EXCEPT ![r].at = "files", ![r].attempt = @ + 1]
        /\ UNCHANGED <<queue, controller, status, hashKnown>>
  /\ UNCHANGED <<listed, used, retries, diskVars, saved,
                 restarts>>

-----------------------------------------------------------------------------
(* Persistence and restarts. *)

\* The debounced write of the list.  It is read by a restart only, so the model
\* writes it while one is still to come.
Persist ==
  /\ MayDisturb
  /\ saved # [j \in listed |-> status[j]]
  /\ saved' = [j \in listed |-> status[j]]
  /\ UNCHANGED <<jobVars, runner, diskVars, restarts>>

\* The gateway dies and comes back with restoreHuggingFaceDownloads.
Restart ==
  /\ MayDisturb
  /\ restarts' = restarts + 1
  /\ listed' = DOMAIN saved
  /\ status' = [j \in Jobs |->
                  IF j \notin DOMAIN saved THEN status[j]
                  ELSE IF saved[j] \in Active THEN "queued" ELSE saved[j]]
  /\ hashKnown' = {}
  /\ Pump(SetToSeq({j \in DOMAIN saved : saved[j] \in Active}),
          listed', status', [j \in Jobs |-> 0], [r \in {} |-> NewRunner])
  /\ UNCHANGED <<used, retries, diskVars, saved>>

-----------------------------------------------------------------------------
RunnerStep(r) ==
  /\ r \in DOMAIN runner
  /\ \/ InspectFiles(r) \/ Response(r) \/ Body(r) \/ Hash(r) \/ Rename(r)
     \/ Register(r) \/ Backoff(r)

HubNext ==
  \/ \E j \in Jobs : \/ StartDownload(j) \/ RetryDownload(j)
                   \/ CancelDownload(j) \/ RemoveDownload(j)
  \/ \E r \in DOMAIN runner : RunnerStep(r)
  \/ Persist
  \/ Restart

HubSpec == HubInit /\ [][HubNext]_hubVars

\* Fetches, files and timers return or throw.  A job is queued once by its start
\* and once by each retry or restart, which bounds its runners.
FairHubSpec ==
  HubSpec /\ \A r \in Jobs \X (1 .. (1 + MaxDisturbances)) : WF_hubVars(RunnerStep(r))

-----------------------------------------------------------------------------
(* Properties. *)

\* A download that is shown as active has somebody to move it on: it is in the
\* queue, or a runner works on it (pumpDownloadQueue, runDownload).
ActiveIsAttended ==
  \A j \in listed : status[j] \in Active =>
    \/ Contains(queue, j)
    \/ RunnersOf(runner, j) # {}

\* No slot lies idle: while downloads wait in the queue, every slot is taken.
NoIdleSlot ==
  queue # <<>> => Cardinality({j \in Jobs : controller[j] # 0}) = MaxConcurrent

\* No more transfers run than HF_MAX_CONCURRENT_DOWNLOADS, through cancels,
\* failures and a restart. A retry may break it: cancelled and retried, a job
\* gets a second runner while the first still holds its slot.
WithinLimit ==
  retries = 0 =>
    Cardinality(DOMAIN runner) <= MaxConcurrent

\* The slots of HF_MAX_CONCURRENT_DOWNLOADS are all used and never exceeded, and
\* jobs, queue and files keep their types.
SlotsUsedExactly == HubTypeOK /\ WithinLimit /\ NoIdleSlot

\* A shard under its final name has the bytes the Hub's hash stands for, as long
\* as the hash is remembered: a retry and a restart look it up again, and go on
\* without it when the Hub cannot be reached.
FinalIsVerified ==
  retries = 0 /\ restarts = 0 => \A f \in Shards : final[f] \in {"none", "good"}

\* A download that is queued or running ends, by itself or cancelled.
EveryDownloadSettles ==
  \A j \in Jobs : j \in listed /\ status[j] \in Active
                    ~> j \notin listed \/ status[j] \notin Active

-----------------------------------------------------------------------------
(* A statement of the code that it does not keep. *)

\* huggingFace.ts:656 says that the registry "never advertises an incomplete
\* bundle".  completeDownload waits for active shards only: one that has failed
\* or been cancelled does not hold registration back.
RegistersOnlyComplete ==
  [][registered' /\ ~registered =>
       \A j \in used : status[j] \in {"failed", "cancelled"}
                          => final[FileOf[j]] \in Full]_hubVars
=============================================================================

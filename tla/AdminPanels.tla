----------------------------- MODULE AdminPanels -----------------------------
(***************************************************************************)
(* Two operator panels of the control plane, as the browser runs them.     *)
(*   - The pool panel (components/admin/ModelPoolControls.tsx): one load   *)
(*     or eject per model at a time, a progress bar that outlives the      *)
(*     answer by a timer, and a poll of the resident models.               *)
(*   - The Hub browser (components/admin/HuggingFaceBrowser.tsx): the      *)
(*     search, the file list of a repository, the download buttons and the *)
(*     poll of the download list.                                          *)
(* Every fetch is a request whose answer is fixed when the server handles  *)
(* it and applied when it arrives, in any order.                           *)
(***************************************************************************)
EXTENDS Integers, FiniteSets

CONSTANTS PoolModels,   \* models the pool panel lists
          Repos,        \* Hugging Face repositories
          MaxClicks,    \* bound: clicks of the operator
          MaxExits      \* bound: processes that die and polls that miss the gateway

ASSUME PanelBoundsAssumption == MaxClicks \in Nat /\ MaxExits \in Nat

VARIABLES
    panel,    \* which panel is open: "pool" or "hub" (chosen once)
    clicks,   \* operator clicks so far
    exits,    \* processes that died and polls that missed so far
    \* pool panel
    pool,     \* the models really resident
    view,     \* `resident`: what the last applied poll said
    job,      \* jobs[modelId]: "none", "load", "unload" or "done"
    req,      \* the server action in flight for a model, or "none"
    timer,    \* models whose 700 ms removal timer runs
    polls,    \* answers of /api/admin/engine on their way
    \* hub browser
    query,    \* "idle", "searching" or "found"
    selected, \* selectedModel
    files,    \* the repository whose files are shown
    listing,  \* repositories whose file list is on its way
    starting, \* startingBundle: the repository and path owner being queued
    real,     \* status of the download on the gateway
    shown,    \* its status in `downloads`
    answers   \* answers of action=status on their way

poolPanelVars == <<pool, view, job, req, timer, polls>>
hubVars == <<query, selected, files, listing, starting, real, shown, answers>>
panelVars == <<panel, clicks, exits, pool, view, job, req, timer, polls,
               query, selected, files, listing, starting, real, shown, answers>>

NoRepo == "no_repo"
NoBundle == [repo |-> NoRepo, owner |-> NoRepo]
Statuses == {"absent", "active", "final"}

PanelTypeOK ==
    /\ panel \in {"pool", "hub", "none"}
    /\ clicks \in 0..MaxClicks /\ exits \in 0..MaxExits
    /\ pool \subseteq PoolModels /\ view \subseteq PoolModels /\ timer \subseteq PoolModels
    /\ job \in [PoolModels -> {"none", "load", "unload", "done"}]
    /\ req \in [PoolModels -> {"none", "load", "unload"}]
    /\ polls \subseteq SUBSET PoolModels
    /\ query \in {"idle", "searching", "found"}
    /\ selected \in Repos \union {NoRepo} /\ files \in Repos \union {NoRepo}
    /\ listing \subseteq Repos
    /\ starting \in [repo: Repos \union {NoRepo}, owner: Repos \union {NoRepo}]
    /\ real \in Statuses /\ shown \in Statuses /\ answers \subseteq Statuses

PanelInit ==
    /\ panel \in {"pool", "hub"}
    /\ clicks = 0 /\ exits = 0
    /\ pool \in SUBSET PoolModels /\ view = pool
    /\ job = [m \in PoolModels |-> "none"] /\ req = [m \in PoolModels |-> "none"]
    /\ timer = {} /\ polls = {}
    /\ query = "idle"
    /\ selected = NoRepo /\ files = NoRepo /\ listing = {} /\ starting = NoBundle
    /\ real = "absent" /\ shown = "absent" /\ answers = {}

Click == clicks < MaxClicks /\ clicks' = clicks + 1

-----------------------------------------------------------------------------
(* The pool panel                                                          *)

\* Load: offered when the polled list lacks the model and no job is shown.
RunLoad(m) ==
    /\ panel = "pool" /\ Click
    /\ job[m] = "none" /\ m \notin view
    /\ job' = [job EXCEPT ![m] = "load"] /\ req' = [req EXCEPT ![m] = "load"]
    /\ UNCHANGED <<panel, exits, pool, view, timer, polls, hubVars>>

\* Eject, after the confirmation dialog: same guard, offered when resident.
RunUnload(m) ==
    /\ panel = "pool" /\ Click
    /\ job[m] = "none" /\ m \in view
    /\ job' = [job EXCEPT ![m] = "unload"] /\ req' = [req EXCEPT ![m] = "unload"]
    /\ UNCHANGED <<panel, exits, pool, view, timer, polls, hubVars>>

\* The server action answers; success fills the bar and starts its removal
\* timer, failure clears it at once. A poll is sent either way.
ActionAnswers(m) ==
    /\ req[m] # "none"
    /\ \E ok \in BOOLEAN :
         /\ pool' = IF ~ok THEN pool
                    ELSE IF req[m] = "load" THEN pool \union {m} ELSE pool \ {m}
         /\ job' = [job EXCEPT ![m] = IF ok THEN "done" ELSE "none"]
         /\ timer' = IF ok THEN timer \union {m} ELSE timer
         /\ polls' = polls \union {pool'}
    /\ req' = [req EXCEPT ![m] = "none"]
    /\ UNCHANGED <<panel, clicks, exits, view, hubVars>>

\* finishJob's timer removes the entry of the model, whatever it is by then.
TimerRemoves(m) ==
    /\ m \in timer
    /\ timer' = timer \ {m} /\ job' = [job EXCEPT ![m] = "none"]
    /\ UNCHANGED <<panel, clicks, exits, pool, view, req, polls, hubVars>>

\* An interval that only runs while a job is shown.
PollPoolWhileBusy ==
    /\ panel = "pool" /\ pool \notin polls
    /\ \E m \in PoolModels : job[m] # "none"
    /\ polls' = polls \union {pool}
    /\ UNCHANGED <<panel, clicks, exits, pool, view, job, req, timer, hubVars>>

\* The interval fires: the answer holds the pool as the server saw it.
PollPool ==
    /\ panel = "pool" /\ pool \notin polls
    /\ polls' = polls \union {pool}
    /\ UNCHANGED <<panel, clicks, exits, pool, view, job, req, timer, hubVars>>

\* The route answers an empty list when the gateway cannot be reached.
PollMisses ==
    /\ panel = "pool" /\ exits < MaxExits
    /\ exits' = exits + 1 /\ polls' = polls \union {{}}
    /\ UNCHANGED <<panel, clicks, pool, view, job, req, timer, hubVars>>

PollArrives(s) ==
    /\ s \in polls
    /\ polls' = polls \ {s} /\ view' = s
    /\ UNCHANGED <<panel, clicks, exits, pool, job, req, timer, hubVars>>

\* `if (!response.ok) return`, or the catch: a poll that says nothing.
PollLost(s) ==
    /\ s \in polls
    /\ polls' = polls \ {s}
    /\ UNCHANGED <<panel, clicks, exits, pool, view, job, req, timer, hubVars>>

\* A resident process dies by itself (external).
ProcessDies(m) ==
    /\ panel = "pool" /\ exits < MaxExits /\ m \in pool
    /\ exits' = exits + 1 /\ pool' = pool \ {m}
    /\ UNCHANGED <<panel, clicks, view, job, req, timer, polls, hubVars>>

-----------------------------------------------------------------------------
(* The Hub browser                                                         *)

\* searchModels clears the selection and fetches; the button is disabled while
\* a search is out.
SearchModels ==
    /\ panel = "hub" /\ Click /\ query # "searching"
    /\ query' = "searching" /\ selected' = NoRepo /\ files' = NoRepo
    /\ UNCHANGED <<panel, exits, poolPanelVars, listing, starting, real, shown, answers>>

\* The search answers or fails.
SearchEnds ==
    /\ query = "searching"
    /\ query' \in {"idle", "found"}
    /\ UNCHANGED <<panel, clicks, exits, poolPanelVars, selected, files, listing, starting,
                   real, shown, answers>>

\* selectModel: nothing aborts the list of the repository chosen before.
SelectModel(r) ==
    /\ panel = "hub" /\ Click /\ query = "found"
    /\ selected' = r /\ files' = NoRepo /\ listing' = listing \union {r}
    /\ UNCHANGED <<panel, exits, poolPanelVars, query, starting, real, shown, answers>>

FilesArrive(r) ==
    /\ r \in listing
    /\ listing' = listing \ {r}
    /\ \E ok \in BOOLEAN : files' = IF ok THEN r ELSE files
    /\ UNCHANGED <<panel, clicks, exits, poolPanelVars, query, selected, starting, real,
                   shown, answers>>

\* downloadBundle: one POST after the other, with the repository selected and
\* the files shown when the button was pressed.
DownloadBundle ==
    /\ panel = "hub" /\ Click
    /\ selected # NoRepo /\ files # NoRepo /\ starting = NoBundle
    /\ starting' = [repo |-> selected, owner |-> files]
    /\ UNCHANGED <<panel, exits, poolPanelVars, query, selected, files, listing, real,
                   shown, answers>>

\* The POSTs end: queued and refreshed, or refused. A path the repository does
\* not have is refused by the gateway.
BundleQueued ==
    /\ starting # NoBundle
    /\ \E ok \in BOOLEAN :
         /\ ok => starting.repo = starting.owner
         /\ real' = IF ok THEN "active" ELSE real
         /\ answers' = IF ok THEN answers \union {"active"} ELSE answers
    /\ starting' = NoBundle
    /\ UNCHANGED <<panel, clicks, exits, poolPanelVars, query, selected, files, listing,
                   shown>>

\* Cancel and retry, each followed by a refresh.
CancelDownload ==
    /\ panel = "hub" /\ Click /\ shown = "active"
    /\ real' = "final" /\ answers' = answers \union {"final"}
    /\ UNCHANGED <<panel, exits, poolPanelVars, query, selected, files, listing, starting,
                   shown>>

RetryDownload ==
    /\ panel = "hub" /\ Click /\ shown = "final"
    /\ real' = "active" /\ answers' = answers \union {"active"}
    /\ UNCHANGED <<panel, exits, poolPanelVars, query, selected, files, listing, starting,
                   shown>>

\* The gateway ends the download (external).
DownloadEnds ==
    /\ real = "active" /\ real' = "final"
    /\ UNCHANGED <<panel, clicks, exits, poolPanelVars, query, selected, files, listing,
                   starting, shown, answers>>

\* refreshDownloads, sent by the interval that runs while hasActive.
RefreshDownloads ==
    /\ panel = "hub" /\ shown = "active" /\ real \notin answers
    /\ answers' = answers \union {real}
    /\ UNCHANGED <<panel, clicks, exits, poolPanelVars, query, selected, files, listing,
                   starting, real, shown>>

\* The answer is applied. The effect depends on hasActive: each time it changes
\* the list is fetched once more.
StatusArrives(s) ==
    /\ s \in answers
    /\ shown' = s
    /\ answers' = (answers \ {s})
                  \union (IF (s = "active") # (shown = "active") THEN {real} ELSE {})
    /\ UNCHANGED <<panel, clicks, exits, poolPanelVars, query, selected, files, listing,
                   starting, real>>

\* The catch of refreshDownloads: polling is best effort.
StatusLost(s) ==
    /\ s \in answers
    /\ answers' = answers \ {s}
    /\ UNCHANGED <<panel, clicks, exits, poolPanelVars, query, selected, files, listing,
                   starting, real, shown>>

-----------------------------------------------------------------------------
PanelNext ==
    \/ \E m \in PoolModels :
         \/ RunLoad(m) \/ RunUnload(m) \/ ActionAnswers(m) \/ TimerRemoves(m)
         \/ ProcessDies(m)
    \/ PollPool \/ PollMisses
    \/ \E s \in SUBSET PoolModels : PollArrives(s) \/ PollLost(s)
    \/ SearchModels \/ SearchEnds \/ DownloadBundle \/ BundleQueued \/ CancelDownload
    \/ RetryDownload \/ DownloadEnds \/ RefreshDownloads
    \/ \E r \in Repos : SelectModel(r) \/ FilesArrive(r)
    \/ \E s \in Statuses : StatusArrives(s) \/ StatusLost(s)

(***************************************************************************)
(* Timers and intervals keep firing and every fetch gets an answer or an   *)
(* error; nothing makes the operator click or a process die.               *)
(***************************************************************************)
PanelFairness ==
    /\ \A m \in PoolModels : WF_panelVars(ActionAnswers(m)) /\ WF_panelVars(TimerRemoves(m))
    /\ WF_panelVars(PollPool)
    /\ \A s \in SUBSET PoolModels : SF_panelVars(PollArrives(s))
    /\ WF_panelVars(BundleQueued) /\ WF_panelVars(DownloadEnds)
    /\ WF_panelVars(RefreshDownloads)
    /\ \A s \in Statuses : SF_panelVars(StatusArrives(s))

-----------------------------------------------------------------------------
(* Properties                                                              *)

\* ModelPoolControls.tsx:153-203: while a load or an eject is in flight its bar
\* is on screen - the removal timer of an earlier job never takes it away.
InFlightIsShown == \A m \in PoolModels : req[m] # "none" => job[m] = req[m]

\* ModelPoolControls.tsx:88-107: polls overtake one another, yet once nobody
\* clicks and no process dies the panel comes to show the pool as it is.
PoolViewSettles == panel = "pool" => <>[](view = pool)

\* HuggingFaceBrowser.tsx:141-181: a download shown as running is in the end
\* shown as it is, although answers arrive out of order and polling stops.
DownloadViewSettles == panel = "hub" => <>[](shown = "active" => real = "active")

\* Out-of-order answers and timers never mislead the operator for good
\* (ModelPoolControls.tsx, HuggingFaceBrowser.tsx): what is in flight stays on
\* screen, and both panels come to show the truth.
PanelsSettle == []InFlightIsShown /\ PoolViewSettles /\ DownloadViewSettles
=============================================================================

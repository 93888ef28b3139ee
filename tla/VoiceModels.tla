----------------------------- MODULE VoiceModels -----------------------------
(***************************************************************************)
(* Which speech model transcribes: operators install or activate one from     *)
(* the infra page (VoiceSttControls.tsx), the gateway runs at most one install *)
(* (lib/voice/modelJobs.ts) and keeps the choice in data/voice/runtime.json    *)
(* (runtimeConfig.ts), requests read that file (lib/voice/index.ts).            *)
(*                                                                           *)
(* The file is written in place: opening it empties it, the text follows, and  *)
(* two writes may overlap, fail half-way or be cut short by a restart. A text   *)
(* shorter than what another writer has put there leaves that writer's tail    *)
(* behind. A reader of anything but one whole text falls back to the            *)
(* environment's default.                                                      *)
(***************************************************************************)
EXTENDS Integers, FiniteSets

CONSTANTS
  Panels,      \* open infra pages
  Uploads,     \* voice requests
  Selections,  \* provider and model pairs of the catalog
  Default,     \* the environment's choice
  Remote,      \* the Hugging Face Space selections, nothing to download
  TextLen,     \* the length of the file for each selection
  MaxJobs,     \* bound on installs
  MaxChoices,  \* bound on what operators ask for
  MaxRestarts, \* bound on gateway restarts
  NoText, Garbled, NoSelection

ASSUME VoiceModelsAssumption ==
  /\ Default \in Selections /\ Remote \subseteq Selections
  /\ TextLen \in [Selections -> Nat \ {0}]
  /\ {NoText, Garbled, NoSelection} \cap Selections = {} /\ NoText # Garbled
  /\ MaxJobs \in Nat /\ MaxChoices \in Nat /\ MaxRestarts \in Nat

Jobs == 1 .. MaxJobs
NoJob == 0

VARIABLES
  file,     \* runtime.json: its text and length
  job,      \* VoiceModelJob by id
  active,   \* activeInstallId
  cached,   \* selections whose weights are on disk
  panel,    \* each page: where it is, the selection it acts on, the job it polls
  voice,    \* each request: before, after reading the file, with its provider
  choices, restarts,
  last,     \* history: the selection of the last write that succeeded
  torn,     \* history: a write overlapped another one, failed or was cut short
  forced    \* history: selections activated though they were not installed

modelVars == <<file, job, active, cached, panel, voice, choices, restarts, last, torn, forced>>

NoFile == [text |-> NoText, len |-> 0]
NewVoice == [at |-> "new", read |-> NoSelection]
FreeJob == [at |-> "none", sel |-> NoSelection, activates |-> TRUE]
\* Both ends of a job, and the steps of the running one.
JobSteps == {"none", "preload", "open", "store", "succeeded", "failed", "lost"}
Running(j) == job[j].at \in {"preload", "open", "store"}
Installing == active # NoJob /\ Running(active)
IdlePanel == [at |-> "idle", sel |-> NoSelection, job |-> NoJob]
PanelSteps == {"idle", "open", "store", "install", "poll"}

ModelTypeOK ==
  /\ file \in [text : Selections \cup {NoText, Garbled}, len : Nat]
  /\ job \in [Jobs -> [at : JobSteps, sel : Selections \cup {NoSelection}, activates : BOOLEAN]]
  /\ cached \subseteq Selections
  /\ active \in Jobs \cup {NoJob}
  /\ panel \in [Panels -> [at : PanelSteps, sel : Selections \cup {NoSelection}, job : Jobs \cup {NoJob}]]
  /\ voice \in [Uploads -> [at : {"new", "resolved", "ready"}, read : Selections \cup {NoSelection}]]
  /\ choices \in 0 .. MaxChoices /\ restarts \in 0 .. MaxRestarts
  /\ last \in Selections \cup {NoText} /\ torn \in BOOLEAN /\ forced \subseteq Selections

ModelInit ==
  /\ file = NoFile
  /\ job = [j \in Jobs |-> FreeJob] /\ active = NoJob /\ cached = {}
  /\ panel = [p \in Panels |-> IdlePanel]
  /\ voice = [r \in Uploads |-> NewVoice]
  /\ choices = 0 /\ restarts = 0
  /\ last = NoText /\ torn = FALSE /\ forced = {}

-----------------------------------------------------------------------------
(* The file *)

\* Writers between opening the file and storing the text.
Writers == {<<"panel", p>> : p \in {q \in Panels : panel[q].at = "store"}}
           \cup {<<"job", j>> : j \in {i \in Jobs : job[i].at = "store"}}

\* A mutant: the file is opened without emptying it.
OpensForUpdate ==
  /\ torn' = (Writers # {})
  /\ UNCHANGED file

\* writeVoiceRuntimeConfig, first half. A write that begins alone leaves no
\* trace of what was torn before.
OpensFile ==
  /\ file' = [text |-> NoText, len |-> 0]
  /\ torn' = (Writers # {})

StoresText(s) ==
  /\ file' = IF TextLen[s] >= file.len THEN [text |-> s, len |-> TextLen[s]]
             ELSE [file EXCEPT !.text = Garbled]
  /\ last' = s

\* The disk fails after the file was emptied: nothing, or a part, is stored.
StoreBreaks(s) ==
  /\ \E k \in 0 .. TextLen[s] - 1 :
       file' = IF k = 0 THEN file
               ELSE [text |-> Garbled, len |-> IF k > file.len THEN k ELSE file.len]
  /\ torn' = TRUE

\* readVoiceRuntimeConfig: anything but a whole text reads as no choice.
Readable == file.text \in Selections

\* resolveActiveSttSelection
ReadSelection == IF Readable THEN file.text ELSE Default

-----------------------------------------------------------------------------
(* Requests *)

\* resolveVoiceEnv awaits the file ...
Resolves(r) ==
  /\ voice[r].at = "new"
  /\ voice' = [voice EXCEPT ![r].at = "resolved", ![r].read = ReadSelection]
  /\ UNCHANGED <<file, job, active, cached, panel, choices, restarts, last, torn, forced>>

\* ... and createSttProvider runs after it. The provider it caches is keyed by
\* every setting that can differ, so that it stands for what was read.
CreatesProvider(r) ==
  /\ voice[r].at = "resolved"
  /\ voice' = [voice EXCEPT ![r].at = "ready"]
  /\ UNCHANGED <<file, job, active, cached, panel, choices, restarts, last, torn, forced>>

-----------------------------------------------------------------------------
(* Operators *)

\* The page offers to activate what is on disk or remote.
Offered(s) == s \in cached \cup Remote

\* An operator acts on a page that is not busy, or by the API behind it, which
\* activates any model of the catalog.
Chooses(p, kind, s) ==
  /\ panel[p].at = "idle" /\ choices < MaxChoices
  /\ choices' = choices + 1
  /\ panel' = [panel EXCEPT ![p] = [at |-> IF kind = "activate" THEN "open" ELSE "install",
                                    sel |-> s, job |-> NoJob]]
  /\ forced' = IF kind = "activate" /\ ~Offered(s) THEN forced \cup {s} ELSE forced
  /\ UNCHANGED <<file, job, active, cached, voice, restarts, last, torn>>

\* POST /internal/voice/models/activate
ActivateOpens(p) ==
  /\ panel[p].at = "open"
  /\ OpensFile
  /\ panel' = [panel EXCEPT ![p].at = "store"]
  /\ UNCHANGED <<job, active, cached, voice, choices, restarts, last, forced>>

ActivateStores(p) ==
  /\ panel[p].at = "store"
  /\ StoresText(panel[p].sel)
  /\ panel' = [panel EXCEPT ![p] = IdlePanel]
  /\ UNCHANGED <<job, active, cached, voice, choices, restarts, torn, forced>>

\* It answers 500 when the directory or the file cannot be written.
ActivateFails(p) ==
  /\ \/ panel[p].at = "open" /\ UNCHANGED <<file, torn>>
     \/ panel[p].at = "store" /\ StoreBreaks(panel[p].sel)
  /\ panel' = [panel EXCEPT ![p] = IdlePanel]
  /\ UNCHANGED <<job, active, cached, voice, choices, restarts, last, forced>>

\* startSttModelInstall: the check and the new job are one step.
InstallStarts(p, act) ==
  /\ panel[p].at = "install"
  /\ ~Installing
  /\ \E j \in Jobs :
       /\ job[j].at = "none" /\ \A i \in 1 .. j - 1 : job[i].at # "none"
       /\ job' = [job EXCEPT ![j] = [at |-> IF panel[p].sel \notin Remote THEN "preload"
                                            ELSE IF act THEN "open" ELSE "succeeded",
                                     sel |-> panel[p].sel, activates |-> act]]
       /\ active' = IF panel[p].sel \in Remote /\ ~act THEN NoJob ELSE j
       /\ panel' = [panel EXCEPT ![p].at = "poll", ![p].job = j]
  /\ UNCHANGED <<file, cached, voice, choices, restarts, last, torn, forced>>

\* It is refused while another install runs.
InstallRefused(p) ==
  /\ panel[p].at = "install"
  /\ Installing
  /\ panel' = [panel EXCEPT ![p] = IdlePanel]
  /\ UNCHANGED <<file, job, active, cached, voice, choices, restarts, last, torn, forced>>

\* The try, catch and finally around a job.
JobEnds(j, how) ==
  /\ job' = [job EXCEPT ![j].at = how]
  /\ active' = IF active = j THEN NoJob ELSE active

PreloadSucceeds(j) ==
  /\ job[j].at = "preload"
  /\ IF job[j].activates THEN job' = [job EXCEPT ![j].at = "open"] /\ UNCHANGED active
     ELSE JobEnds(j, "succeeded")
  /\ cached' = cached \cup {job[j].sel}
  /\ UNCHANGED <<file, panel, voice, choices, restarts, last, torn, forced>>

\* The script fails or its hour is over.
PreloadFails(j) ==
  /\ job[j].at = "preload"
  /\ JobEnds(j, "failed")
  /\ UNCHANGED <<file, panel, cached, voice, choices, restarts, last, torn, forced>>

JobOpens(j) ==
  /\ job[j].at = "open"
  /\ OpensFile
  /\ job' = [job EXCEPT ![j].at = "store"]
  /\ UNCHANGED <<active, cached, panel, voice, choices, restarts, last, forced>>

\* The store and the end of the job.
JobStores(j) ==
  /\ job[j].at = "store"
  /\ StoresText(job[j].sel)
  /\ JobEnds(j, "succeeded")
  /\ UNCHANGED <<cached, panel, voice, choices, restarts, torn, forced>>

\* The catch block: the job has failed, whatever it has made of the file.
JobStoreFails(j) ==
  /\ \/ job[j].at = "open" /\ UNCHANGED <<file, torn>>
     \/ job[j].at = "store" /\ StoreBreaks(job[j].sel)
  /\ JobEnds(j, "failed")
  /\ UNCHANGED <<cached, panel, voice, choices, restarts, last, forced>>

\* The page asks every 2.5 seconds. An error, such as an unknown job, is
\* ignored; an ended job frees the page.
PollEnds(p) ==
  /\ panel[p].at = "poll" /\ job[panel[p].job].at \in {"succeeded", "failed"}
  /\ panel' = [panel EXCEPT ![p] = IdlePanel]
  /\ UNCHANGED <<file, job, active, cached, voice, choices, restarts, last, torn, forced>>

\* A page opened anew polls the install it is told of, if any.
Reloads(p) ==
  /\ panel[p].at \in {"idle", "poll"}
  /\ panel' = [panel EXCEPT ![p] =
       IF active # NoJob THEN [IdlePanel EXCEPT !.at = "poll", !.job = active] ELSE IdlePanel]
  /\ UNCHANGED <<file, job, active, cached, voice, choices, restarts, last, torn, forced>>

\* The gateway restarts: the jobs and the requests in progress are gone, a file
\* that was open stays empty, a page that waits for an answer gets an error, one
\* that polls goes on.
GatewayRestarts ==
  /\ restarts < MaxRestarts
  /\ restarts' = restarts + 1
  /\ torn' = (torn \/ Writers # {})
  /\ job' = [j \in Jobs |-> IF job[j] = FreeJob THEN FreeJob ELSE [FreeJob EXCEPT !.at = "lost"]]
  /\ active' = NoJob
  /\ panel' = [p \in Panels |-> IF panel[p].at = "poll" THEN panel[p] ELSE IdlePanel]
  /\ voice' = [r \in Uploads |-> IF voice[r].at = "resolved" THEN NewVoice ELSE voice[r]]
  /\ UNCHANGED <<file, cached, choices, last, forced>>

Operator(p) ==
  \/ \E kind \in {"activate", "install"}, s \in Selections : Chooses(p, kind, s)
  \/ ActivateOpens(p) \/ ActivateStores(p) \/ ActivateFails(p)
  \/ (\E act \in BOOLEAN : InstallStarts(p, act)) \/ InstallRefused(p)
  \/ PollEnds(p) \/ Reloads(p)

Install(j) == PreloadSucceeds(j) \/ PreloadFails(j) \/ JobOpens(j) \/ JobStores(j) \/ JobStoreFails(j)

Voice(r) == Resolves(r) \/ CreatesProvider(r)

-----------------------------------------------------------------------------
(* Properties *)

\* Once no write is under way the file holds the text of the last one that
\* succeeded, however writes of operators and installs overlapped or failed
\* before: what an overlap, a full disk or a restart tears is mended by the next
\* write that runs alone and succeeds.
SelectionHeals == ~torn /\ Writers = {} => file.text = last

\* The selection that requests read names weights that are on disk, or a
\* remote Space: an install selects only what it has loaded. The one way around is
\* to activate a model that is not installed, which the API does not refuse.
SelectionIsInstalled ==
  file.text \in Selections => file.text \in cached \cup Remote \cup forced

\* Two installs never run at once: they would load two models and race for the
\* selection.
OneInstall == Cardinality({j \in Jobs : Running(j)}) <= 1

\* A page that polls an install the gateway knows is freed when it ends.
PanelFreed ==
  \A p \in Panels :
    panel[p].at = "poll" ~> panel[p].at # "poll" \/ job[panel[p].job].at = "lost"

\* The selection survives concurrent writers, failing disks, installs, restarts and
\* readers (runtimeConfig.ts, modelJobs.ts, voice/index.ts): the file comes back to
\* the last write that succeeded alone, names a model that can be used or that was
\* forced, and one install runs at a time.
SelectionIsSound == SelectionHeals /\ SelectionIsInstalled /\ OneInstall
=============================================================================

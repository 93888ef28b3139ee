----------------------------- MODULE VoiceProofs -----------------------------
(***************************************************************************)
(* Theorems about the voice pipeline and the choice of its speech model,    *)
(* for every set of uploads, operators, workers, selections and turns, and  *)
(* any number of installs and restarts.                                     *)
(***************************************************************************)
EXTENDS VoicePipeline, FiniteSums

-----------------------------------------------------------------------------
(* The speech model.  Uploads touch this state only when they resolve their *)
(* provider; administration touches nothing else.                           *)

\* Unless a write was torn the file has one writer at most: it is empty while
\* that one holds it open, and otherwise has the text of the last write.
FileInv ==
  ~torn => /\ \A u, v \in Writers : u = v
           /\ Writers # {} => file = NoFile
           /\ Writers = {} => file.text = last

\* Who is about to write a selection writes one that can be used, or was forced.
Usable(s) == s \in Selections /\ s \in cached \cup Remote \cup forced

ChosenInv ==
  /\ file.text \in Selections => Usable(file.text)
  /\ \A p \in Panels : /\ panel[p].at \in {"open", "store"} => Usable(panel[p].sel)
                       /\ panel[p].at = "install" => panel[p].sel \in Selections
  /\ \A j \in Jobs : /\ job[j].at \in {"open", "store"} => Usable(job[j].sel)
                     /\ job[j].at = "preload" => job[j].sel \in Selections

\* The running install is the one activeInstallId names.
InstallInv == \A j \in Jobs : Running(j) => active = j

ModelInv == ModelTypeOK /\ FileInv /\ ChosenInv /\ InstallInv

-----------------------------------------------------------------------------
(* Uploads: what is true of each one between two steps.                     *)

BeforeUse == {"new", "admitted", "swept", "gemini", "sent"}
InUse == {"generate", "generated", "delete"}

\* The file at Gemini is used from "generate" until its delete is tried.
RemoteInv(r) ==
  /\ st[r] \in BeforeUse => ~ref[r]
  /\ ref[r] /\ st[r] \notin InUse => remote[r] = "gone" \/ lostDel[r]

\* An answer is the last thing that happens, and what it says was true then.
AnswerInv(r) ==
  /\ status[r] # "none" => st[r] = "answered"
  /\ status[r] \in {"200", "upstream"} => charged[r] = Len(Charges) /\ ~opened[r]
  /\ status[r] = "refused" => charged[r] = 0 /\ stored[r] = "no"

\* Charges are opened one after the other, and none before admission.
ChargeInv(r) ==
  /\ st[r] = "new" => charged[r] = 0 /\ stored[r] = "no"
  /\ charged[r] <= Len(Charges)
  /\ opened[r] => charged[r] < Len(Charges)

\* Workers have turns below the shared index, and different ones.
WorkerInv(r) ==
  /\ st[r] = "turns" => clips[r]
  /\ \A t \in results[r] : t < nextTurn[r]
  /\ \A w \in Workers :
       /\ worker[r][w].at \in {"cut", "asr"} => st[r] = "turns"
       /\ worker[r][w].at \in {"idle", "end"} <=> worker[r][w].turn = NoTurn
       /\ worker[r][w].turn < nextTurn[r]
       /\ worker[r][w].turn # NoTurn =>
            /\ worker[r][w].turn \notin results[r]
            /\ \A v \in Workers \ {w} : worker[r][v].turn # worker[r][w].turn

UploadInv(r) == RemoteInv(r) /\ AnswerInv(r) /\ ChargeInv(r) /\ WorkerInv(r)

PipeInv == PipeTypeOK /\ \A r \in Uploads : UploadInv(r)

VoiceInv == ModelInv /\ PipeInv

-----------------------------------------------------------------------------
(* The file and its writers.                                                *)

\* Opening the file: the only writer, or a torn write.
LEMMA OpenKeepsFile ==
  ASSUME NEW u, OpensFile, Writers' = Writers \cup {u}
  PROVE  FileInv'
  BY DEF OpensFile, FileInv, NoFile

\* Storing the text: without tearing the writer was alone and the file empty.
LEMMA StoreKeepsFile ==
  ASSUME FileInv, NEW u \in Writers, NEW s \in Selections, StoresText(s),
         Writers' = Writers \ {u}, UNCHANGED torn
  PROVE  FileInv'
<1>1. SUFFICES ASSUME ~torn PROVE Writers' = {} /\ file'.text = last'
  BY <1>1 DEF FileInv
<1>2. Writers = {u} /\ file = NoFile
  BY <1>1 DEF FileInv
<1>3. file.len = 0 /\ TextLen[s] \in Nat
  BY <1>2, VoiceModelsAssumption DEF NoFile
<1> QED
  BY <1>2, <1>3 DEF StoresText

\* A write that fails half-way leaves the file torn.
LEMMA BreakKeepsFile == ASSUME NEW s, StoreBreaks(s) PROVE FileInv'
  BY DEF StoreBreaks, FileInv

\* One that fails before has changed nothing, and had not opened the file.
LEMMA BreakType ==
  ASSUME ModelTypeOK, NEW s \in Selections, StoreBreaks(s)
  PROVE  /\ file' \in [text : Selections \cup {NoText, Garbled}, len : Nat]
         /\ torn' \in BOOLEAN /\ (file' = file \/ file'.text = Garbled)
<1>1. PICK k \in 0 .. TextLen[s] - 1 :
        file' = IF k = 0 THEN file
                ELSE [text |-> Garbled, len |-> IF k > file.len THEN k ELSE file.len]
  BY DEF StoreBreaks
<1>2. k \in Nat /\ file.len \in Nat
  BY VoiceModelsAssumption DEF ModelTypeOK
<1>3. torn' \in BOOLEAN
  BY DEF StoreBreaks
<1> QED
  BY <1>1, <1>2, <1>3 DEF ModelTypeOK

\* Who else moves, the file's state is left alone.
LEMMA OthersKeepFile ==
  ASSUME FileInv, Writers' = Writers, UNCHANGED <<file, last, torn>>
  PROVE  FileInv'
  BY DEF FileInv

\* The file keeps its type.
LEMMA FileType ==
  ASSUME ModelTypeOK
  PROVE  /\ OpensFile => /\ file' \in [text : Selections \cup {NoText, Garbled}, len : Nat]
                         /\ torn' \in BOOLEAN
         /\ \A s \in Selections : StoresText(s) =>
              /\ file' \in [text : Selections \cup {NoText, Garbled}, len : Nat]
              /\ last' \in Selections /\ file'.text \in {s, Garbled}
<1>1. OpensFile => file' \in [text : Selections \cup {NoText, Garbled}, len : Nat]
  BY DEF OpensFile
<1>2. OpensFile => torn' \in BOOLEAN
  BY DEF OpensFile
<1>3. ASSUME NEW s \in Selections, StoresText(s)
      PROVE  /\ file' \in [text : Selections \cup {NoText, Garbled}, len : Nat]
             /\ last' \in Selections /\ file'.text \in {s, Garbled}
  <2>1. TextLen[s] \in Nat
    BY VoiceModelsAssumption
  <2> QED
    BY <1>3, <2>1 DEF StoresText, ModelTypeOK
<1> QED
  BY <1>1, <1>2, <1>3
-----------------------------------------------------------------------------
(* The steps of operators, installs, requests and restarts.                 *)

PanelState == [at : PanelSteps, sel : Selections \cup {NoSelection}, job : Jobs \cup {NoJob}]
JobState == [at : JobSteps, sel : Selections \cup {NoSelection}, activates : BOOLEAN]
VoiceState == [at : {"new", "resolved", "ready"}, read : Selections \cup {NoSelection}]

\* Requests read the file and change nothing in it.
LEMMA RequestSteps ==
  ASSUME ModelInv, NEW r \in Uploads, Voice(r)
  PROVE  ModelInv'
<1>1. UNCHANGED <<file, job, active, cached, panel, choices, restarts, last, torn, forced>>
  BY DEF Voice, Resolves, CreatesProvider
<1>2. voice' \in [Uploads -> VoiceState]
  <2>1. ReadSelection \in Selections
    BY VoiceModelsAssumption DEF ReadSelection, Readable
  <2> QED
    BY <2>1 DEF Voice, Resolves, CreatesProvider, ModelInv, ModelTypeOK, VoiceState
<1>3. ModelTypeOK'
  BY <1>1, <1>2 DEF ModelInv, ModelTypeOK, VoiceState
<1> QED
  BY <1>1, <1>3 DEF ModelInv, FileInv, ChosenInv, InstallInv, Usable, Writers, Running

\* A page moves, and neither opens nor closes the file.
LEMMA PageSteps ==
  ASSUME ModelInv, NEW p \in Panels, NEW q,
         q \in PanelState,
         panel' = [panel EXCEPT ![p] = q],
         panel[p].at # "store", q.at # "store",
         q.at = "open" => q.sel \in Selections /\ q.sel \in cached \cup Remote \cup forced',
         q.at = "install" => q.sel \in Selections,
         choices' \in 0 .. MaxChoices, forced \subseteq forced', forced' \subseteq Selections,
         UNCHANGED <<file, job, active, cached, voice, restarts, last, torn>>
  PROVE  ModelInv'
<1>1. panel' \in [Panels -> PanelState]
  BY DEF ModelInv, ModelTypeOK, PanelState
<1>2. ModelTypeOK'
  BY <1>1 DEF ModelInv, ModelTypeOK, PanelState
<1>3. Writers' = Writers
  <2>1. {x \in Panels : panel'[x].at = "store"} = {x \in Panels : panel[x].at = "store"}
    BY DEF ModelInv, ModelTypeOK
  <2> QED
    BY <2>1 DEF Writers
<1>4. FileInv'
  BY <1>3, OthersKeepFile DEF ModelInv
<1>5. ChosenInv'
  BY DEF ModelInv, ModelTypeOK, ChosenInv, Usable
<1>6. InstallInv'
  BY DEF ModelInv, InstallInv, Running
<1> QED
  BY <1>2, <1>4, <1>5, <1>6 DEF ModelInv

\* The buttons, a refused install, and polling.
LEMMA OperatorIdles ==
  ASSUME ModelInv, NEW p \in Panels,
         \/ \E kind \in {"activate", "install"}, s \in Selections : Chooses(p, kind, s)
         \/ InstallRefused(p) \/ PollEnds(p) \/ Reloads(p)
  PROVE  ModelInv'
<1>0. /\ choices \in 0 .. MaxChoices /\ active \in Jobs \cup {NoJob} /\ MaxChoices \in Nat
      /\ forced \subseteq Selections
  BY VoiceModelsAssumption DEF ModelInv, ModelTypeOK
<1>i. IdlePanel \in PanelState
  BY DEF IdlePanel, PanelState, PanelSteps
<1>1. ASSUME NEW kind \in {"activate", "install"}, NEW s \in Selections, Chooses(p, kind, s)
      PROVE  ModelInv'
  <2> DEFINE q == [at |-> IF kind = "activate" THEN "open" ELSE "install", sel |-> s, job |-> NoJob]
  <2>1. q \in PanelState
    BY DEF PanelState, PanelSteps
  <2>2. q.at = "open" => q.sel \in Selections /\ q.sel \in cached \cup Remote \cup forced'
    BY <1>1 DEF Chooses, Offered
  <2>3. panel[p].at # "store" /\ q.at # "store" /\ (q.at = "install" => q.sel \in Selections)
    BY <1>1 DEF Chooses, Offered
  <2>4. /\ panel' = [panel EXCEPT ![p] = q] /\ forced \subseteq forced' /\ forced' \subseteq Selections
        /\ UNCHANGED <<file, job, active, cached, voice, restarts, last, torn>>
    BY <1>0, <1>1 DEF Chooses, Offered
  <2>5. choices' \in 0 .. MaxChoices
    BY <1>0, <1>1 DEF Chooses, Offered
  <2> HIDE DEF q
  <2> QED
    BY <2>1, <2>2, <2>3, <2>4, <2>5, PageSteps
<1>2. CASE InstallRefused(p) \/ PollEnds(p)
  <2>1. /\ panel' = [panel EXCEPT ![p] = IdlePanel]
        /\ UNCHANGED <<file, job, active, cached, voice, choices, restarts, last, torn, forced>>
        /\ panel[p].at # "store"
    BY <1>2 DEF InstallRefused, PollEnds
  <2>2. IdlePanel.at = "idle"
    BY DEF IdlePanel
  <2> QED
    BY <1>0, <1>i, <2>1, <2>2, PageSteps
<1>3. CASE Reloads(p)
  <2>1. /\ UNCHANGED <<file, job, active, cached, voice, choices, restarts, last, torn, forced>>
        /\ panel[p].at # "store"
    BY <1>3 DEF Reloads
  <2>2. CASE active = NoJob
    <3>1. panel' = [panel EXCEPT ![p] = IdlePanel] /\ IdlePanel.at = "idle"
      BY <1>3, <2>2 DEF Reloads, IdlePanel
    <3> QED
      BY <1>0, <1>i, <2>1, <3>1, PageSteps
  <2>3. CASE active # NoJob
    <3> DEFINE q == [IdlePanel EXCEPT !.at = "poll", !.job = active]
    <3>1. panel' = [panel EXCEPT ![p] = q]
      BY <1>3, <2>3 DEF Reloads
    <3>2. q.at = "poll" /\ q \in PanelState
      BY <1>0 DEF IdlePanel, PanelState, PanelSteps
    <3> HIDE DEF q
    <3> QED
      BY <1>0, <2>1, <3>1, <3>2, PageSteps
  <2> QED
    BY <2>2, <2>3
<1> QED
  BY <1>1, <1>2, <1>3
\* POST /internal/voice/models/activate, from opening the file to the answer.
LEMMA ActivateSteps ==
  ASSUME ModelInv, NEW p \in Panels, ActivateOpens(p) \/ ActivateStores(p) \/ ActivateFails(p)
  PROVE  ModelInv'
<1>t. panel \in [Panels -> PanelState]
  BY DEF ModelInv, ModelTypeOK, PanelState
<1>i. IdlePanel \in PanelState
  BY DEF IdlePanel, PanelState, PanelSteps
<1>1. CASE ActivateOpens(p)
  <2>1. /\ panel' = [panel EXCEPT ![p].at = "store"] /\ panel[p].at = "open" /\ OpensFile
        /\ UNCHANGED <<job, active, cached, voice, choices, restarts, last, forced>>
    BY <1>1 DEF ActivateOpens
  <2>2. panel' \in [Panels -> PanelState]
    BY <1>t, <2>1 DEF PanelState, PanelSteps
  <2>3. ModelTypeOK'
    BY <2>1, <2>2, FileType DEF ModelInv, ModelTypeOK, PanelState
  <2>4. Writers' = Writers \cup {<<"panel", p>>}
    <3>1. {x \in Panels : panel'[x].at = "store"} = {x \in Panels : panel[x].at = "store"} \cup {p}
      BY <1>t, <2>1 DEF PanelState
    <3> QED
      BY <2>1, <3>1 DEF Writers
  <2>5. FileInv'
    BY <2>1, <2>4, OpenKeepsFile
  <2>6. ChosenInv'
    <3>1. file'.text = NoText /\ NoText \notin Selections
      BY <2>1, VoiceModelsAssumption DEF OpensFile
    <3>2. Usable(panel[p].sel)
      BY <2>1 DEF ModelInv, ChosenInv
    <3> QED
      BY <1>t, <2>1, <3>1, <3>2 DEF ModelInv, ChosenInv, Usable, PanelState
  <2>7. InstallInv'
    BY <2>1 DEF ModelInv, InstallInv, Running
  <2> QED
    BY <2>3, <2>5, <2>6, <2>7 DEF ModelInv
<1>2. CASE ActivateStores(p)
  <2>1. /\ panel' = [panel EXCEPT ![p] = IdlePanel] /\ panel[p].at = "store"
        /\ StoresText(panel[p].sel)
        /\ UNCHANGED <<job, active, cached, voice, choices, restarts, torn, forced>>
    BY <1>2 DEF ActivateStores
  <2>2. panel' \in [Panels -> PanelState] /\ IdlePanel.at = "idle"
    BY <1>t, <1>i, <2>1 DEF IdlePanel
  <2>3. Usable(panel[p].sel) /\ panel[p].sel \in Selections
    BY <2>1 DEF ModelInv, ChosenInv, Usable
  <2>4. ModelTypeOK'
    BY <2>1, <2>2, <2>3, FileType DEF ModelInv, ModelTypeOK, PanelState
  <2>5. <<"panel", p>> \in Writers /\ Writers' = Writers \ {<<"panel", p>>}
    <3>1. {x \in Panels : panel'[x].at = "store"} = {x \in Panels : panel[x].at = "store"} \ {p}
      BY <1>t, <2>1, <2>2 DEF PanelState
    <3> QED
      BY <2>1, <3>1 DEF Writers
  <2>6. FileInv'
    BY <2>1, <2>3, <2>5, StoreKeepsFile DEF ModelInv
  <2>7. ChosenInv'
    <3>1. file'.text \in {panel[p].sel, Garbled} /\ Garbled \notin Selections
      BY <2>1, <2>3, FileType, VoiceModelsAssumption DEF ModelInv
    <3> QED
      BY <1>t, <2>1, <2>2, <2>3, <3>1 DEF ModelInv, ChosenInv, Usable, PanelState
  <2>8. InstallInv'
    BY <2>1 DEF ModelInv, InstallInv, Running
  <2> QED
    BY <2>4, <2>6, <2>7, <2>8 DEF ModelInv
<1>3. CASE ActivateFails(p)
  <2>1. /\ panel' = [panel EXCEPT ![p] = IdlePanel] /\ IdlePanel.at = "idle"
        /\ UNCHANGED <<job, active, cached, voice, choices, restarts, last, forced>>
        /\ \/ panel[p].at = "open" /\ UNCHANGED <<file, torn>>
           \/ panel[p].at = "store" /\ StoreBreaks(panel[p].sel) /\ panel[p].sel \in Selections
    BY <1>3 DEF ActivateFails, IdlePanel, ModelInv, ChosenInv, Usable
  <2>2. panel' \in [Panels -> PanelState]
    BY <1>t, <1>i, <2>1
  <2>3. /\ file' \in [text : Selections \cup {NoText, Garbled}, len : Nat] /\ torn' \in BOOLEAN
        /\ file' = file \/ file'.text = Garbled
    <3>1. file \in [text : Selections \cup {NoText, Garbled}, len : Nat] /\ torn \in BOOLEAN
      BY DEF ModelInv, ModelTypeOK
    <3> QED
      BY <2>1, <3>1, BreakType DEF ModelInv
  <2>4. ModelTypeOK'
    BY <2>1, <2>2, <2>3 DEF ModelInv, ModelTypeOK, PanelState
  <2>5. FileInv'
    <3>1. CASE panel[p].at = "open" /\ UNCHANGED <<file, torn>>
      <4>1. {x \in Panels : panel'[x].at = "store"} = {x \in Panels : panel[x].at = "store"}
        BY <1>t, <2>1, <3>1 DEF PanelState
      <4>2. Writers' = Writers
        BY <2>1, <4>1 DEF Writers
      <4> QED
        BY <2>1, <3>1, <4>2, OthersKeepFile DEF ModelInv
    <3> QED
      BY <2>1, <3>1, BreakKeepsFile
  <2>6. ChosenInv'
    BY <1>t, <2>1, <2>3, VoiceModelsAssumption DEF ModelInv, ChosenInv, Usable, PanelState
  <2>7. InstallInv'
    BY <2>1 DEF ModelInv, InstallInv, Running
  <2> QED
    BY <2>4, <2>5, <2>6, <2>7 DEF ModelInv
<1> QED
  BY <1>1, <1>2, <1>3

\* startSttModelInstall: it starts only when none is running.
LEMMA InstallStep ==
  ASSUME ModelInv, NEW p \in Panels, NEW act \in BOOLEAN, InstallStarts(p, act)
  PROVE  ModelInv'
<1>t. panel \in [Panels -> PanelState] /\ job \in [Jobs -> JobState] /\ active \in Jobs \cup {NoJob}
  BY DEF ModelInv, ModelTypeOK, PanelState, JobState
<1> DEFINE first == IF panel[p].sel \notin Remote THEN "preload"
                    ELSE IF act THEN "open" ELSE "succeeded"
           new == [at |-> first, sel |-> panel[p].sel, activates |-> act]
<1>1. PICK j \in Jobs :
        /\ job[j].at = "none" /\ job' = [job EXCEPT ![j] = new]
        /\ active' = IF panel[p].sel \in Remote /\ ~act THEN NoJob ELSE j
        /\ panel' = [panel EXCEPT ![p].at = "poll", ![p].job = j]
  BY DEF InstallStarts
<1>2. /\ panel[p].at = "install" /\ ~Installing /\ panel[p].sel \in Selections
      /\ UNCHANGED <<file, cached, voice, choices, restarts, last, torn, forced>>
  BY DEF InstallStarts, ModelInv, ChosenInv
<1>3. \A i \in Jobs : ~Running(i)
  BY <1>2 DEF Installing, ModelInv, InstallInv, Jobs, NoJob
<1>4. new \in JobState /\ new.at = first /\ new.sel = panel[p].sel
  BY <1>2 DEF JobState, JobSteps
<1>5. job' \in [Jobs -> JobState] /\ panel' \in [Panels -> PanelState] /\ active' \in Jobs \cup {NoJob}
  <2>1. job' \in [Jobs -> JobState]
    BY <1>t, <1>1, <1>4
  <2>2. panel' \in [Panels -> PanelState]
    BY <1>t, <1>1 DEF PanelState, PanelSteps
  <2> QED
    BY <1>1, <2>1, <2>2
<1>6. ModelTypeOK'
  BY <1>2, <1>5 DEF ModelInv, ModelTypeOK, PanelState, JobState
<1>7. Writers' = Writers
  <2>1. {x \in Panels : panel'[x].at = "store"} = {x \in Panels : panel[x].at = "store"}
    BY <1>t, <1>1, <1>2 DEF PanelState
  <2>2. {x \in Jobs : job'[x].at = "store"} = {x \in Jobs : job[x].at = "store"}
    BY <1>t, <1>1, <1>4
  <2> QED
    BY <2>1, <2>2 DEF Writers
<1>8. FileInv'
  BY <1>2, <1>7, OthersKeepFile DEF ModelInv
<1>9. ChosenInv'
  <2>1. \A x \in Panels : /\ panel'[x].at \in {"open", "store"} => Usable(panel'[x].sel)
                          /\ panel'[x].at = "install" => panel'[x].sel \in Selections
    BY <1>t, <1>1 DEF ModelInv, ChosenInv, PanelState
  <2>2. first = "open" => Usable(panel[p].sel)
    BY <1>2 DEF Usable
  <2>3. \A x \in Jobs : /\ job'[x].at \in {"open", "store"} => Usable(job'[x].sel)
                        /\ job'[x].at = "preload" => job'[x].sel \in Selections
    BY <1>t, <1>1, <1>2, <1>4, <2>2 DEF ModelInv, ChosenInv
  <2> HIDE DEF new, first
  <2> QED
    BY <1>2, <2>1, <2>3 DEF ModelInv, ChosenInv, Usable
<1>10. InstallInv'
  <2>1. \A i \in Jobs \ {j} : job'[i] = job[i]
    BY <1>t, <1>1
  <2>2. job'[j].at \in {"preload", "open"} => active' = j
    BY <1>t, <1>1, <1>4
  <2>3. job'[j].at \in {"preload", "open", "succeeded"}
    BY <1>t, <1>1, <1>4
  <2> QED
    BY <1>3, <2>1, <2>2, <2>3 DEF InstallInv, Running
<1> QED
  BY <1>6, <1>8, <1>9, <1>10 DEF ModelInv
\* The end of an install frees activeInstallId.
LEMMA JobEndsFrees ==
  ASSUME ModelInv, NEW j \in Jobs, Running(j), NEW how \in {"succeeded", "failed"}, JobEnds(j, how)
  PROVE  /\ job' \in [Jobs -> JobState] /\ active' \in Jobs \cup {NoJob} /\ InstallInv'
         /\ job'[j].at = how /\ \A i \in Jobs \ {j} : job'[i] = job[i]
<1>t. job \in [Jobs -> JobState] /\ active \in Jobs \cup {NoJob}
  BY DEF ModelInv, ModelTypeOK, JobState
<1>1. job' = [job EXCEPT ![j].at = how] /\ active' = IF active = j THEN NoJob ELSE active
  BY DEF JobEnds
<1>2. job' \in [Jobs -> JobState]
  BY <1>t, <1>1 DEF JobState, JobSteps
<1>3. job'[j].at = how /\ \A i \in Jobs \ {j} : job'[i] = job[i]
  BY <1>t, <1>1 DEF JobState
<1>4. \A i \in Jobs : Running(i) => i = j
  BY DEF ModelInv, InstallInv
<1>5. InstallInv'
  BY <1>3, <1>4 DEF InstallInv, Running
<1> QED
  BY <1>t, <1>1, <1>2, <1>3, <1>5

\* The preload ends: the weights are cached, or the job fails.
LEMMA PreloadSteps ==
  ASSUME ModelInv, NEW j \in Jobs, PreloadSucceeds(j) \/ PreloadFails(j)
  PROVE  ModelInv'
<1>t. job \in [Jobs -> JobState] /\ active \in Jobs \cup {NoJob} /\ cached \subseteq Selections
  BY DEF ModelInv, ModelTypeOK, JobState
<1>1. /\ job[j].at = "preload" /\ Running(j) /\ job[j].sel \in Selections
      /\ UNCHANGED <<file, panel, voice, choices, restarts, last, torn, forced>>
  BY DEF PreloadSucceeds, PreloadFails, Running, ModelInv, ChosenInv
<1>2. /\ cached' \subseteq Selections /\ cached \subseteq cached'
      /\ job' \in [Jobs -> JobState] /\ active' \in Jobs \cup {NoJob} /\ InstallInv'
      /\ job'[j].at \in {"open", "succeeded", "failed"}
      /\ job'[j].at = "open" => job'[j].sel \in Selections /\ job'[j].sel \in cached'
      /\ \A i \in Jobs \ {j} : job'[i] = job[i]
  <2>1. CASE PreloadSucceeds(j) /\ job[j].activates
    <3>1. /\ job' = [job EXCEPT ![j].at = "open"] /\ UNCHANGED active
          /\ cached' = cached \cup {job[j].sel}
      BY <2>1 DEF PreloadSucceeds
    <3>2. job' \in [Jobs -> JobState]
      BY <1>t, <3>1 DEF JobState, JobSteps
    <3>3. /\ job'[j].at = "open" /\ job'[j].sel = job[j].sel
          /\ \A i \in Jobs \ {j} : job'[i] = job[i]
      BY <1>t, <3>1 DEF JobState
    <3>4. InstallInv'
      BY <1>1, <3>1, <3>3 DEF ModelInv, InstallInv, Running
    <3> QED
      BY <1>t, <1>1, <3>1, <3>2, <3>3, <3>4
  <2>2. CASE PreloadSucceeds(j) /\ ~job[j].activates
    <3>1. JobEnds(j, "succeeded") /\ cached' = cached \cup {job[j].sel}
      BY <2>2 DEF PreloadSucceeds
    <3> QED
      BY <1>t, <1>1, <3>1, JobEndsFrees
  <2>3. CASE PreloadFails(j)
    <3>1. JobEnds(j, "failed") /\ UNCHANGED cached
      BY <2>3 DEF PreloadFails
    <3> QED
      BY <1>t, <1>1, <3>1, JobEndsFrees
  <2> QED
    BY <2>1, <2>2, <2>3
<1>3. ModelTypeOK'
  BY <1>1, <1>2 DEF ModelInv, ModelTypeOK, JobState
<1>4. Writers' = Writers
  <2>1. {x \in Jobs : job'[x].at = "store"} = {x \in Jobs : job[x].at = "store"}
    BY <1>1, <1>2
  <2> QED
    BY <1>1, <2>1 DEF Writers
<1>5. FileInv'
  BY <1>1, <1>4, OthersKeepFile DEF ModelInv
<1>6. ChosenInv'
  <2>1. \A s : Usable(s) => s \in Selections /\ s \in cached' \cup Remote \cup forced
    BY <1>2 DEF Usable
  <2>2. \A x \in Jobs : /\ job'[x].at \in {"open", "store"} =>
                             job'[x].sel \in Selections /\ job'[x].sel \in cached' \cup Remote \cup forced
                        /\ job'[x].at = "preload" => job'[x].sel \in Selections
    BY <1>2, <2>1 DEF ModelInv, ChosenInv
  <2> QED
    BY <1>1, <2>1, <2>2 DEF ModelInv, ChosenInv, Usable
<1> QED
  BY <1>1, <1>2, <1>3, <1>5, <1>6 DEF ModelInv

\* An install writes its selection, and ends.
LEMMA JobWrites ==
  ASSUME ModelInv, NEW j \in Jobs, JobOpens(j) \/ JobStores(j) \/ JobStoreFails(j)
  PROVE  ModelInv'
<1>t. job \in [Jobs -> JobState]
  BY DEF ModelInv, ModelTypeOK, JobState
<1>1. CASE JobOpens(j)
  <2>1. /\ job' = [job EXCEPT ![j].at = "store"] /\ job[j].at = "open" /\ OpensFile
        /\ UNCHANGED <<active, cached, panel, voice, choices, restarts, last, forced>>
    BY <1>1 DEF JobOpens
  <2>2. job' \in [Jobs -> JobState]
    BY <1>t, <2>1 DEF JobState, JobSteps
  <2>3. ModelTypeOK'
    BY <2>1, <2>2, FileType DEF ModelInv, ModelTypeOK, JobState
  <2>4. Writers' = Writers \cup {<<"job", j>>}
    <3>1. {x \in Jobs : job'[x].at = "store"} = {x \in Jobs : job[x].at = "store"} \cup {j}
      BY <1>t, <2>1 DEF JobState
    <3> QED
      BY <2>1, <3>1 DEF Writers
  <2>5. FileInv'
    BY <2>1, <2>4, OpenKeepsFile
  <2>6. ChosenInv'
    <3>1. file'.text = NoText /\ NoText \notin Selections
      BY <2>1, VoiceModelsAssumption DEF OpensFile
    <3>2. Usable(job[j].sel)
      BY <2>1 DEF ModelInv, ChosenInv
    <3> QED
      BY <1>t, <2>1, <3>1, <3>2 DEF ModelInv, ChosenInv, Usable, JobState
  <2>7. InstallInv'
    BY <1>t, <2>1 DEF ModelInv, InstallInv, Running, JobState
  <2> QED
    BY <2>3, <2>5, <2>6, <2>7 DEF ModelInv
<1>2. CASE JobStores(j)
  <2>1. /\ JobEnds(j, "succeeded") /\ job[j].at = "store" /\ Running(j)
        /\ StoresText(job[j].sel)
        /\ UNCHANGED <<cached, panel, voice, choices, restarts, torn, forced>>
    BY <1>2 DEF JobStores, Running
  <2>2. /\ job' \in [Jobs -> JobState] /\ active' \in Jobs \cup {NoJob} /\ InstallInv'
        /\ job'[j].at = "succeeded" /\ \A i \in Jobs \ {j} : job'[i] = job[i]
    BY <2>1, JobEndsFrees
  <2>3. Usable(job[j].sel) /\ job[j].sel \in Selections
    BY <2>1 DEF ModelInv, ChosenInv, Usable
  <2>4. ModelTypeOK'
    BY <2>1, <2>2, <2>3, FileType DEF ModelInv, ModelTypeOK, JobState
  <2>5. <<"job", j>> \in Writers /\ Writers' = Writers \ {<<"job", j>>}
    <3>1. {x \in Jobs : job'[x].at = "store"} = {x \in Jobs : job[x].at = "store"} \ {j}
      BY <2>1, <2>2
    <3> QED
      BY <2>1, <3>1 DEF Writers
  <2>6. FileInv'
    BY <2>1, <2>3, <2>5, StoreKeepsFile DEF ModelInv
  <2>7. ChosenInv'
    <3>1. file'.text \in {job[j].sel, Garbled} /\ Garbled \notin Selections
      BY <2>1, <2>3, FileType, VoiceModelsAssumption DEF ModelInv
    <3>2. \A x \in Jobs : job'[x].at \in {"open", "store", "preload"} => job'[x] = job[x]
      BY <2>2
    <3> QED
      BY <2>1, <2>3, <3>1, <3>2 DEF ModelInv, ChosenInv, Usable
  <2> QED
    BY <2>2, <2>4, <2>6, <2>7 DEF ModelInv
<1>3. CASE JobStoreFails(j)
  <2>1. /\ JobEnds(j, "failed") /\ Running(j)
        /\ UNCHANGED <<cached, panel, voice, choices, restarts, last, forced>>
        /\ \/ job[j].at = "open" /\ UNCHANGED <<file, torn>>
           \/ job[j].at = "store" /\ StoreBreaks(job[j].sel) /\ job[j].sel \in Selections
    BY <1>3 DEF JobStoreFails, Running, ModelInv, ChosenInv, Usable
  <2>2. /\ job' \in [Jobs -> JobState] /\ active' \in Jobs \cup {NoJob} /\ InstallInv'
        /\ job'[j].at = "failed" /\ \A i \in Jobs \ {j} : job'[i] = job[i]
    BY <2>1, JobEndsFrees
  <2>3. /\ file' \in [text : Selections \cup {NoText, Garbled}, len : Nat] /\ torn' \in BOOLEAN
        /\ file' = file \/ file'.text = Garbled
    <3>1. file \in [text : Selections \cup {NoText, Garbled}, len : Nat] /\ torn \in BOOLEAN
      BY DEF ModelInv, ModelTypeOK
    <3> QED
      BY <2>1, <3>1, BreakType DEF ModelInv
  <2>4. ModelTypeOK'
    BY <2>1, <2>2, <2>3 DEF ModelInv, ModelTypeOK, JobState
  <2>5. FileInv'
    <3>1. CASE job[j].at = "open" /\ UNCHANGED <<file, torn>>
      <4>1. {x \in Jobs : job'[x].at = "store"} = {x \in Jobs : job[x].at = "store"}
        BY <2>2, <3>1
      <4>2. Writers' = Writers
        BY <2>1, <4>1 DEF Writers
      <4> QED
        BY <2>1, <3>1, <4>2, OthersKeepFile DEF ModelInv
    <3> QED
      BY <2>1, <3>1, BreakKeepsFile
  <2>6. ChosenInv'
    <3>1. \A x \in Jobs : job'[x].at \in {"open", "store", "preload"} => job'[x] = job[x]
      BY <2>2
    <3> QED
      BY <2>1, <2>3, <3>1, VoiceModelsAssumption DEF ModelInv, ChosenInv, Usable
  <2> QED
    BY <2>2, <2>4, <2>5, <2>6 DEF ModelInv
<1> QED
  BY <1>1, <1>2, <1>3
\* A restart forgets who was writing: a file left open stays torn.
LEMMA RestartStep ==
  ASSUME ModelInv, GatewayRestarts
  PROVE  ModelInv'
<1>t. /\ job \in [Jobs -> JobState] /\ panel \in [Panels -> PanelState]
      /\ voice \in [Uploads -> VoiceState] /\ restarts \in 0 .. MaxRestarts /\ MaxRestarts \in Nat
  BY VoiceModelsAssumption DEF ModelInv, ModelTypeOK, PanelState, JobState, VoiceState
<1> DEFINE lost == [FreeJob EXCEPT !.at = "lost"]
<1>1. /\ FreeJob \in JobState /\ lost \in JobState /\ IdlePanel \in PanelState
      /\ NewVoice \in VoiceState
      /\ FreeJob.at = "none" /\ lost.at = "lost" /\ IdlePanel.at = "idle" /\ NewVoice.at = "new"
  BY DEF FreeJob, JobState, JobSteps, IdlePanel, PanelState, PanelSteps, NewVoice, VoiceState
<1>2. /\ restarts' = restarts + 1 /\ restarts < MaxRestarts
      /\ torn' = (torn \/ Writers # {})
      /\ job' = [j \in Jobs |-> IF job[j] = FreeJob THEN FreeJob ELSE lost]
      /\ active' = NoJob
      /\ panel' = [p \in Panels |-> IF panel[p].at = "poll" THEN panel[p] ELSE IdlePanel]
      /\ voice' = [r \in Uploads |-> IF voice[r].at = "resolved" THEN NewVoice ELSE voice[r]]
      /\ UNCHANGED <<file, cached, choices, last, forced>>
  BY DEF GatewayRestarts
<1> HIDE DEF lost
<1>3. /\ job' \in [Jobs -> JobState] /\ \A j \in Jobs : job'[j].at \in {"none", "lost"}
  BY <1>t, <1>1, <1>2
<1>4. /\ panel' \in [Panels -> PanelState] /\ \A p \in Panels : panel'[p].at \in {"poll", "idle"}
  BY <1>t, <1>1, <1>2
<1>5. voice' \in [Uploads -> VoiceState]
  BY <1>t, <1>1, <1>2
<1>6. restarts' \in 0 .. MaxRestarts
  BY <1>t, <1>2
<1>7. torn' \in BOOLEAN /\ (torn' <=> torn \/ Writers # {})
  BY <1>2 DEF ModelInv, ModelTypeOK
<1>8. ModelTypeOK'
  BY <1>2, <1>3, <1>4, <1>5, <1>6, <1>7
  DEF ModelInv, ModelTypeOK, PanelState, JobState, VoiceState
<1>9. Writers' = {}
  BY <1>3, <1>4 DEF Writers
<1>10. FileInv'
  BY <1>2, <1>7, <1>9 DEF ModelInv, FileInv
<1>11. ChosenInv' /\ InstallInv'
  BY <1>2, <1>3, <1>4 DEF ModelInv, ChosenInv, Usable, InstallInv, Running
<1> QED
  BY <1>5, <1>8, <1>10, <1>11 DEF ModelInv

\* Every step of the voice system keeps the invariant of the speech model.
LEMMA ModelInvStep == ModelInv /\ [Next]_vars => ModelInv'
<1> SUFFICES ASSUME ModelInv, [Next]_vars PROVE ModelInv'
  OBVIOUS
<1>1. CASE UNCHANGED modelVars
  BY <1>1 DEF modelVars, ModelInv, ModelTypeOK, FileInv, ChosenInv, Usable, InstallInv, Running,
              Writers
<1>2. ASSUME NEW r \in Uploads, Upload(r) \/ Refuses(r) PROVE UNCHANGED modelVars \/ Voice(r)
  <2>1. CASE Refuses(r)
    BY <2>1 DEF Refuses, constVars
  <2>2. CASE Admits(r) \/ Sweeps(r) \/ Stores(r) \/ Begins(r)
    BY <2>2 DEF Admits, Sweeps, Stores, Begins, constVars
  <2>3. CASE Selects(r)
    BY <2>3 DEF Selects, Voice
  <2>4. CASE Diarizes(r)
    BY <2>4 DEF Diarizes, LocalDiarizes, CloudMedia, CloudPuts, CloudSubmits, CloudSucceeds,
                CloudRuns, DiarizeFails, TurnsFound, DiarizeGoes, constVars
  <2>5. CASE PerTurn(r)
    BY <2>5 DEF PerTurn, Takes, Cuts, Hears, TurnSkipped, WorkerEnds, Joins, constVars
  <2>6. CASE WholeFile(r)
    BY <2>6 DEF WholeFile, ScriptHears, SpaceUploads, SpaceJoins, SpaceHears, FileFails, FileGoes,
                constVars
  <2>7. CASE Gemini(r)
    BY <2>7 DEF Gemini, SendsInline, UploadsRemote, RemotePending, RemoteUsed, Generates,
                GeminiFails, Deletes, GeminiGoes, constVars
  <2>8. CASE Bills(r)
    BY <2>8 DEF Bills, OpensCharge, Meters, AnswersTranscript, Throws, AnswersError, constVars
  <2> QED
    BY <1>2, <2>1, <2>2, <2>3, <2>4, <2>5, <2>6, <2>7, <2>8 DEF Upload
<1>3. ASSUME NEW p \in Panels, Operator(p) PROVE ModelInv'
  BY <1>3, OperatorIdles, ActivateSteps, InstallStep DEF Operator
<1>4. ASSUME NEW j \in Jobs, Install(j) PROVE ModelInv'
  BY <1>4, PreloadSteps, JobWrites DEF Install
<1> QED
  BY <1>1, <1>2, <1>3, <1>4, RequestSteps, RestartStep DEF Next, Administration, vars

\* At the start nobody writes the selection.
LEMMA ModelInvInit == Init => ModelInv
<1> SUFFICES ASSUME ModelInit PROVE ModelInv
  BY DEF Init
<1>1. ModelTypeOK
  <2>1. /\ FreeJob \in JobState /\ IdlePanel \in PanelState /\ NewVoice \in VoiceState
        /\ NoFile \in [text : Selections \cup {NoText, Garbled}, len : Nat]
    BY DEF FreeJob, JobState, JobSteps, IdlePanel, PanelState, PanelSteps, NewVoice, VoiceState,
           NoFile
  <2>2. /\ job \in [Jobs -> JobState] /\ panel \in [Panels -> PanelState]
        /\ voice \in [Uploads -> VoiceState]
    BY <2>1 DEF ModelInit
  <2>3. file \in [text : Selections \cup {NoText, Garbled}, len : Nat]
    BY <2>1 DEF ModelInit
  <2>4. /\ active \in Jobs \cup {NoJob} /\ cached \subseteq Selections
        /\ choices \in 0 .. MaxChoices /\ restarts \in 0 .. MaxRestarts
        /\ last \in Selections \cup {NoText} /\ forced \subseteq Selections
    BY VoiceModelsAssumption DEF ModelInit
  <2>5. torn \in BOOLEAN
    BY DEF ModelInit
  <2> QED
    BY <2>2, <2>3, <2>4, <2>5 DEF ModelTypeOK, JobState, PanelState, VoiceState
<1>2. Writers = {}
  BY DEF ModelInit, Writers, FreeJob, IdlePanel
<1>3. FileInv
  BY <1>2 DEF ModelInit, FileInv, NoFile
<1>4. ChosenInv
  BY VoiceModelsAssumption DEF ModelInit, ChosenInv, NoFile, FreeJob, IdlePanel
<1>5. InstallInv
  BY DEF ModelInit, InstallInv, Running, FreeJob
<1> QED
  BY <1>1, <1>3, <1>4, <1>5 DEF ModelInv

\* runtimeConfig.ts, modelJobs.ts, internal.ts: for any number of operators,
\* installs, restarts and failed writes the selection comes back to the last write
\* that succeeded alone, names a model that can be used or was activated without
\* being installed, and one install runs at a time.
THEOREM SelectionStaysSound == Spec => []SelectionIsSound
<1>1. ModelInv => SelectionIsSound
  <2> SUFFICES ASSUME ModelInv PROVE SelectionIsSound
    OBVIOUS
  <2>1. SelectionHeals
    BY DEF ModelInv, FileInv, SelectionHeals
  <2>2. SelectionIsInstalled
    BY DEF ModelInv, ChosenInv, Usable, SelectionIsInstalled
  <2>3. OneInstall
    <3>1. {j \in Jobs : Running(j)} \subseteq {active}
      BY DEF ModelInv, InstallInv
    <3>2. IsFiniteSet({active}) /\ Cardinality({active}) = 1
      BY FS_Singleton
    <3> QED
      BY <3>1, <3>2, SubsetIsSmaller DEF OneInstall
  <2> QED
    BY <2>1, <2>2, <2>3 DEF ModelInv, SelectionIsSound
<1> QED
  BY <1>1, ModelInvInit, ModelInvStep, PTL DEF Spec
-----------------------------------------------------------------------------
(* Uploads.                                                                 *)

\* What an upload owes is fixed by the configuration.
LEMMA ChargesFixed ==
  /\ Len(Charges) \in 0 .. 2
  /\ UNCHANGED config => Len(Charges)' = Len(Charges)
<1>1. Len(Charges) \in 0 .. 2
  <2>1. /\ Len(GeminiCharges) = 1 /\ Len(<<"stt", "diarize">>) = 2 /\ Len(<<"stt">>) = 1
        /\ Len(<<>>) = 0
    BY DEF GeminiCharges
  <2> QED
    BY <2>1 DEF Charges, LocalCharges
<1> QED
  BY <1>1 DEF Charges, LocalCharges

PhaseType == [Uploads -> Phases]
StoredType == [Uploads -> {"no", "yes", "gone"}]

\* An upload goes from one phase to another; the sweep may take stored audio away.
LEMMA MoveStep ==
  ASSUME PipeInv, NEW r \in Uploads, NEW s, NEW t \in Phases, Goes(r, s, t),
         s \notin {"turns", "answered"}, t \notin {"new", "turns", "answered"},
         t \in BeforeUse => s \in BeforeUse,
         s \in InUse => t \in InUse,
         window' \in 0 .. Rate,
         stored' \in StoredType,
         \A q \in Uploads \ {r} : stored[q] = "no" => stored'[q] = "no",
         UNCHANGED <<config, focus, polls, perTurnVars, remote, ref, lostDel, billVars, status>>
  PROVE  PipeInv'
<1>t. st \in PhaseType /\ stored \in StoredType
  BY DEF PipeInv, PipeTypeOK, PhaseType, StoredType
<1>1. st' = [st EXCEPT ![r] = t] /\ st[r] = s
  BY DEF Goes
<1>2. st' \in PhaseType
  BY <1>t, <1>1 DEF PhaseType
<1>3. PipeTypeOK'
  BY <1>2 DEF PipeInv, PipeTypeOK, PhaseType, StoredType, perTurnVars, billVars
<1>4. Len(Charges)' = Len(Charges)
  BY ChargesFixed
<1>5. ASSUME NEW q \in Uploads PROVE UploadInv(q)'
  <2>0. UploadInv(q)
    BY DEF PipeInv
  <2>1. CASE q # r
    <3>1. st'[q] = st[q]
      BY <1>t, <1>1, <2>1 DEF PhaseType
    <3> QED
      BY <2>0, <2>1, <3>1, <1>4 DEF UploadInv, RemoteInv, AnswerInv, ChargeInv, WorkerInv,
                                    perTurnVars, billVars
  <2>2. CASE q = r
    <3>1. st'[q] = t /\ st[q] = s
      BY <1>t, <1>1, <2>2 DEF PhaseType
    <3>2. RemoteInv(q)'
      BY <2>0, <3>1 DEF UploadInv, RemoteInv
    <3>3. AnswerInv(q)' /\ ChargeInv(q)'
      BY <2>0, <3>1, <1>4 DEF UploadInv, AnswerInv, ChargeInv, billVars
    <3>4. WorkerInv(q)'
      BY <2>0, <3>1 DEF UploadInv, WorkerInv, perTurnVars
    <3> QED
      BY <3>2, <3>3, <3>4 DEF UploadInv
  <2> QED
    BY <2>1, <2>2
<1> QED
  BY <1>3, <1>5 DEF PipeInv
\* Admission, the sweep, storing, and every step that only changes the phase.
LEMMA Moves ==
  ASSUME PipeInv, NEW r \in Uploads,
         \/ Admits(r) \/ Sweeps(r) \/ Stores(r) \/ Begins(r) \/ CloudMedia(r) \/ CloudPuts(r)
         \/ CloudSubmits(r) \/ DiarizeFails(r) \/ WholeFile(r) \/ SendsInline(r) \/ Generates(r)
         \/ GeminiFails(r) \/ Throws(r)
  PROVE  PipeInv'
<1>t. /\ window \in 0 .. Rate /\ stored \in StoredType /\ Rate \in Nat \ {0}
      /\ config \in Configs
  BY VoicePipelineAssumption DEF PipeInv, PipeTypeOK, StoredType
<1>0. ASSUME NEW s, NEW t \in Phases, Goes(r, s, t),
             s \notin {"turns", "answered"}, t \notin {"new", "turns", "answered"},
             t \in BeforeUse => s \in BeforeUse, s \in InUse => t \in InUse,
             UNCHANGED <<config, focus, admitVars, perTurnVars, remoteVars, billVars, status>>
      PROVE  PipeInv'
  <2>1. /\ window' \in 0 .. Rate /\ stored' \in StoredType
        /\ \A q \in Uploads \ {r} : stored[q] = "no" => stored'[q] = "no"
    BY <1>t, <1>0 DEF admitVars
  <2>2. UNCHANGED <<config, focus, polls, perTurnVars, remote, ref, lostDel, billVars, status>>
    BY <1>0 DEF remoteVars
  <2> QED
    BY <1>0, <2>1, <2>2, MoveStep
<1>1. CASE Admits(r)
  <2>1. Goes(r, "new", "admitted") /\ window' \in 0 .. Rate
    BY <1>t, <1>1 DEF Admits
  <2>2. UNCHANGED <<config, focus, stored, polls, perTurnVars, remote, ref, lostDel, billVars, status>>
    BY <1>1 DEF Admits, constVars, remoteVars
  <2> QED
    BY <1>t, <2>1, <2>2, MoveStep DEF Phases, BeforeUse, InUse
<1>2. CASE Sweeps(r)
  <2>1. Goes(r, "admitted", "swept")
    BY <1>2 DEF Sweeps
  <2>2. PICK old \in SUBSET {q \in Uploads : stored[q] = "yes"} :
          stored' = [q \in Uploads |-> IF q \in old THEN "gone" ELSE stored[q]]
    BY <1>2 DEF Sweeps
  <2>3. stored' \in StoredType /\ \A q \in Uploads : stored[q] = "no" => stored'[q] = "no"
    BY <1>t, <2>2 DEF StoredType
  <2>4. UNCHANGED <<config, focus, window, polls, perTurnVars, remote, ref, lostDel, billVars, status>>
    BY <1>2 DEF Sweeps, constVars, remoteVars
  <2> QED
    BY <1>t, <2>1, <2>3, <2>4, MoveStep DEF Phases, BeforeUse, InUse
<1>3. CASE Stores(r)
  <2>1. PICK t \in {"gemini", "stored"} : Goes(r, "swept", t)
    BY <1>3 DEF Stores
  <2>2. /\ stored' \in StoredType
        /\ \A q \in Uploads \ {r} : stored[q] = "no" => stored'[q] = "no"
    BY <1>t, <1>3 DEF Stores, StoredType
  <2>3. UNCHANGED <<config, focus, window, polls, perTurnVars, remote, ref, lostDel, billVars, status>>
    BY <1>3 DEF Stores, constVars, remoteVars
  <2> QED
    BY <1>t, <2>1, <2>2, <2>3, MoveStep DEF Phases, BeforeUse, InUse
<1>4. CASE Begins(r)
  <2>1. PICK t \in {"file", "diarize"} : Goes(r, "stored", t)
    BY <1>4 DEF Begins
  <2>2. UNCHANGED <<config, focus, admitVars, perTurnVars, remoteVars, billVars, status>>
    BY <1>4 DEF Begins, constVars
  <2> QED
    BY <1>0, <2>1, <2>2 DEF Phases, BeforeUse, InUse
<1>5. CASE CloudMedia(r) \/ CloudPuts(r) \/ CloudSubmits(r) \/ DiarizeFails(r)
  <2>1. PICK s \in {"diarize", "media", "put", "submitted"}, t \in {"media", "put", "submitted", "file"} :
          DiarizeGoes(r, s, t)
    BY <1>5 DEF CloudMedia, CloudPuts, CloudSubmits, DiarizeFails
  <2>2. /\ Goes(r, s, t)
        /\ UNCHANGED <<config, focus, admitVars, perTurnVars, remoteVars, billVars, status>>
    BY <2>1 DEF DiarizeGoes, constVars
  <2> QED
    BY <1>0, <2>1, <2>2 DEF Phases, BeforeUse, InUse
<1>6. CASE WholeFile(r)
  <2>1. PICK s \in {"file", "spaceUploaded", "spaceQueued"},
             t \in {"spaceUploaded", "spaceQueued", "transcribed", "failing"} : FileGoes(r, s, t)
    BY <1>6 DEF WholeFile, ScriptHears, SpaceUploads, SpaceJoins, SpaceHears, FileFails
  <2>2. /\ Goes(r, s, t)
        /\ UNCHANGED <<config, focus, admitVars, perTurnVars, remoteVars, billVars, status>>
    BY <2>1 DEF FileGoes, constVars
  <2> QED
    BY <1>0, <2>1, <2>2 DEF Phases, BeforeUse, InUse
<1>7. CASE SendsInline(r) \/ Generates(r) \/ GeminiFails(r)
  <2>1. /\ \/ GeminiGoes(r, "gemini", "generate") \/ GeminiGoes(r, "generate", "generated")
           \/ GeminiGoes(r, "gemini", "failing") \/ GeminiGoes(r, "sent", "failing")
           \/ GeminiGoes(r, "generate", "delete")
        /\ UNCHANGED remoteVars
    BY <1>7 DEF SendsInline, Generates, GeminiFails
  <2>2. PICK x \in {<<"gemini", "generate">>, <<"generate", "generated">>, <<"gemini", "failing">>,
                    <<"sent", "failing">>, <<"generate", "delete">>} :
          Goes(r, x[1], x[2])
    BY <2>1 DEF GeminiGoes
  <2>3. UNCHANGED <<config, focus, admitVars, perTurnVars, remoteVars, billVars, status>>
    BY <2>1 DEF GeminiGoes, constVars
  <2> QED
    BY <1>0, <2>2, <2>3 DEF Phases, BeforeUse, InUse
<1>8. CASE Throws(r)
  <2>1. PICK s \in {"swept", "transcribed", "diarize", "stored"} : Goes(r, s, "failing")
    BY <1>8 DEF Throws
  <2>2. UNCHANGED <<config, focus, admitVars, perTurnVars, remoteVars, billVars, status>>
    BY <1>8 DEF Throws, constVars
  <2> QED
    BY <1>0, <2>1, <2>2 DEF Phases, BeforeUse, InUse
<1> QED
  BY <1>1, <1>2, <1>3, <1>4, <1>5, <1>6, <1>7, <1>8
\* A step that touches nothing of an upload keeps what is true of it.
LEMMA OthersKept ==
  ASSUME NEW q \in Uploads, UploadInv(q), UNCHANGED config,
         st'[q] = st[q], stored'[q] = stored[q], nextTurn'[q] = nextTurn[q],
         worker'[q] = worker[q], results'[q] = results[q], clips'[q] = clips[q],
         remote'[q] = remote[q], ref'[q] = ref[q], opened'[q] = opened[q],
         charged'[q] = charged[q], status'[q] = status[q], lostDel'[q] = lostDel[q]
  PROVE  UploadInv(q)'
<1>1. Len(Charges)' = Len(Charges)
  BY ChargesFixed
<1>2. RemoteInv(q)'
  BY DEF UploadInv, RemoteInv
<1>3. AnswerInv(q)' /\ ChargeInv(q)'
  BY <1>1 DEF UploadInv, AnswerInv, ChargeInv
<1>4. WorkerInv(q)'
  BY DEF UploadInv, WorkerInv
<1> QED
  BY <1>2, <1>3, <1>4 DEF UploadInv

\* Polls of a remote job change nothing else.
LEMMA PollSteps ==
  ASSUME PipeInv, NEW r \in Uploads, CloudRuns(r) \/ RemotePending(r)
  PROVE  PipeInv'
<1>1. /\ polls[r] < MaxPolls /\ polls' = [polls EXCEPT ![r] = @ + 1]
      /\ UNCHANGED <<config, focus, st, window, stored, nextTurn, worker, results, clips, remote,
                     ref, lostDel, opened, charged, status>>
  BY DEF CloudRuns, RemotePending, constVars, admitVars, perTurnVars, billVars
<1>2. polls' \in [Uploads -> 0 .. MaxPolls]
  <2>1. polls \in [Uploads -> 0 .. MaxPolls] /\ MaxPolls \in Nat
    BY VoicePipelineAssumption DEF PipeInv, PipeTypeOK
  <2> QED
    BY <1>1, <2>1
<1>3. PipeTypeOK'
  BY <1>1, <1>2 DEF PipeInv, PipeTypeOK
<1>4. \A q \in Uploads : UploadInv(q)'
  BY <1>1, OthersKept DEF PipeInv
<1> QED
  BY <1>3, <1>4 DEF PipeInv

\* Diarization found turns: with the per-turn mode the clip directory is made.
LEMMA TurnsFoundStep ==
  ASSUME PipeInv, NEW r \in Uploads, LocalDiarizes(r) \/ CloudSucceeds(r)
  PROVE  PipeInv'
<1>t. st \in PhaseType /\ clips \in [Uploads -> BOOLEAN] /\ config.perTurn \in BOOLEAN
  BY VoicePipelineAssumption DEF PipeInv, PipeTypeOK, PhaseType
<1>1. /\ st[r] \in {"diarize", "submitted"}
      /\ st' = [st EXCEPT ![r] = IF config.perTurn THEN "turns" ELSE "file"]
      /\ clips' = [clips EXCEPT ![r] = config.perTurn]
      /\ UNCHANGED <<config, focus, window, stored, polls, nextTurn, worker, results, remote, ref,
                     lostDel, opened, charged, status>>
  BY DEF LocalDiarizes, CloudSucceeds, TurnsFound, At, constVars, admitVars, billVars
<1>2. st' \in PhaseType
  BY <1>t, <1>1 DEF PhaseType, Phases
<1>3. clips' \in [Uploads -> BOOLEAN]
  BY <1>t, <1>1
<1>4. PipeTypeOK'
  BY <1>1, <1>2, <1>3 DEF PipeInv, PipeTypeOK, PhaseType
<1>5. \A q \in Uploads \ {r} : st'[q] = st[q] /\ clips'[q] = clips[q]
  BY <1>t, <1>1 DEF PhaseType
<1>6. \A q \in Uploads \ {r} : UploadInv(q)'
  BY <1>1, <1>5, OthersKept DEF PipeInv
<1>7. UploadInv(r)'
  <2>0. UploadInv(r)
    BY DEF PipeInv
  <2>1. st'[r] \in {"turns", "file"} /\ (st'[r] = "turns" => clips'[r])
    BY <1>t, <1>1 DEF PhaseType
  <2>2. RemoteInv(r)'
    BY <1>1, <2>0, <2>1 DEF UploadInv, RemoteInv, InUse, BeforeUse
  <2>3. AnswerInv(r)' /\ ChargeInv(r)'
    BY <1>1, <2>0, <2>1, ChargesFixed DEF UploadInv, AnswerInv, ChargeInv
  <2>4. WorkerInv(r)'
    BY <1>1, <2>0, <2>1 DEF UploadInv, WorkerInv
  <2> QED
    BY <2>2, <2>3, <2>4 DEF UploadInv
<1> QED
  BY <1>4, <1>6, <1>7 DEF PipeInv

WorkerState == [at : {"idle", "cut", "asr", "end"}, turn : Turns \cup {NoTurn}]

\* The workers of transcribePerTurn.
LEMMA WorkerSteps ==
  ASSUME PipeInv, NEW r \in Uploads, NEW w \in Workers,
         Takes(r, w) \/ Cuts(r, w) \/ Hears(r, w) \/ TurnSkipped(r, w) \/ WorkerEnds(r, w)
  PROVE  PipeInv'
<1>t. /\ worker \in [Uploads -> [Workers -> WorkerState]]
      /\ nextTurn \in [Uploads -> 1 .. NTurns + 1] /\ results \in [Uploads -> SUBSET Turns]
      /\ NTurns \in Nat
  BY VoicePipelineAssumption DEF PipeInv, PipeTypeOK, WorkerState
<1>0. UploadInv(r)
  BY DEF PipeInv
<1>1. /\ st[r] = "turns"
      /\ UNCHANGED <<config, focus, st, window, stored, polls, clips, remote, ref, lostDel, opened,
                     charged, status>>
  BY DEF Takes, Cuts, Hears, TurnSkipped, WorkerEnds, WorkerGoes, At, constVars, admitVars,
         remoteVars, billVars
<1>i. IdleWorker \in WorkerState /\ IdleWorker.at = "idle" /\ IdleWorker.turn = NoTurn
  BY DEF IdleWorker, WorkerState
<1>2. PICK x \in WorkerState : worker' = [worker EXCEPT ![r][w] = x]
  <2>1. CASE Takes(r, w)
    <3>0. nextTurn[r] \in 1 .. NTurns + 1 /\ nextTurn[r] <= NTurns
      BY <1>t, <2>1 DEF Takes
    <3>1. nextTurn[r] \in Turns
      BY <1>t, <3>0 DEF Turns
    <3>2. [at |-> "cut", turn |-> nextTurn[r]] \in WorkerState
      BY <3>1 DEF WorkerState
    <3> QED
      BY <2>1, <3>2 DEF Takes, WorkerGoes
  <2>2. CASE Cuts(r, w)
    <3>0. worker[r][w] \in WorkerState
      BY <1>t
    <3>1. [worker[r][w] EXCEPT !.at = "asr"] \in WorkerState
      BY <3>0 DEF WorkerState
    <3> QED
      BY <2>2, <3>1 DEF Cuts, WorkerGoes
  <2>3. CASE Hears(r, w) \/ TurnSkipped(r, w)
    BY <1>i, <2>3 DEF Hears, TurnSkipped, WorkerGoes
  <2>4. CASE WorkerEnds(r, w)
    <3>1. [at |-> "end", turn |-> NoTurn] \in WorkerState
      BY DEF WorkerState
    <3> QED
      BY <2>4, <3>1 DEF WorkerEnds, WorkerGoes
  <2> QED
    BY <2>1, <2>2, <2>3, <2>4
<1>3. /\ worker' \in [Uploads -> [Workers -> WorkerState]]
      /\ \A q \in Uploads \ {r} : worker'[q] = worker[q]
      /\ \A v \in Workers \ {w} : worker'[r][v] = worker[r][v]
      /\ worker'[r][w] = x
  BY <1>t, <1>2
<1>4. /\ nextTurn' \in [Uploads -> 1 .. NTurns + 1] /\ nextTurn'[r] >= nextTurn[r]
      /\ \A q \in Uploads \ {r} : nextTurn'[q] = nextTurn[q]
  <2>1. CASE Takes(r, w)
    <3>1. /\ nextTurn[r] \in 1 .. NTurns + 1 /\ nextTurn[r] <= NTurns
          /\ nextTurn' = [nextTurn EXCEPT ![r] = @ + 1]
      BY <1>t, <2>1 DEF Takes
    <3> QED
      BY <1>t, <3>1
  <2>2. CASE ~Takes(r, w)
    <3>1. UNCHANGED nextTurn /\ nextTurn[r] \in Int
      BY <1>t, <2>2 DEF Cuts, Hears, TurnSkipped, WorkerEnds
    <3> QED
      BY <1>t, <3>1
  <2> QED
    BY <2>1, <2>2
<1>5. /\ results' \in [Uploads -> SUBSET Turns]
      /\ \A q \in Uploads \ {r} : results'[q] = results[q]
  <2>1. worker[r][w].turn # NoTurn => worker[r][w].turn \in Turns
    BY <1>t DEF WorkerState
  <2>2. CASE Hears(r, w)
    <3>1. worker[r][w].turn \in Turns
      BY <1>0, <2>1, <2>2 DEF Hears, WorkerGoes, UploadInv, WorkerInv
    <3> QED
      BY <1>t, <2>2, <3>1 DEF Hears
  <2>3. CASE ~Hears(r, w)
    BY <1>t, <2>3 DEF Takes, Cuts, TurnSkipped, WorkerEnds
  <2> QED
    BY <2>2, <2>3
<1>6. PipeTypeOK'
  BY <1>1, <1>3, <1>4, <1>5 DEF PipeInv, PipeTypeOK, WorkerState
<1>7. \A q \in Uploads \ {r} : UploadInv(q)'
  BY <1>1, <1>3, <1>4, <1>5, OthersKept DEF PipeInv
<1>8. WorkerInv(r)'
  <2>w. WorkerInv(r) /\ worker[r][w] \in WorkerState
    BY <1>0, <1>t DEF UploadInv
  <2>n. /\ nextTurn[r] \in Nat \ {0} /\ nextTurn'[r] \in Nat \ {0} /\ NoTurn = 0
        /\ \A v \in Workers : worker[r][v].turn \in Nat
    <3>1. /\ nextTurn[r] \in 1 .. NTurns + 1 /\ nextTurn'[r] \in 1 .. NTurns + 1
          /\ \A v \in Workers : worker[r][v] \in WorkerState
      BY <1>t, <1>4
    <3> QED
      BY <1>t, <3>1 DEF WorkerState, Turns, NoTurn
  <2>r. results[r] \subseteq Nat
    BY <1>t DEF Turns
  <2>o. \A v \in Workers :
          /\ worker[r][v].turn < nextTurn[r]
          /\ worker[r][v].at \in {"idle", "end"} <=> worker[r][v].turn = NoTurn
          /\ worker[r][v].turn # NoTurn =>
               /\ worker[r][v].turn \notin results[r]
               /\ \A u \in Workers \ {v} : worker[r][u].turn # worker[r][v].turn
    BY <2>w DEF WorkerInv
  <2>d. \A t \in results[r] : t < nextTurn[r]
    BY <2>w DEF WorkerInv
  \* What the step does: the worker's new turn, the index, and the slots filled.
  <2>a. /\ x.at \in {"idle", "end"} <=> x.turn = NoTurn
        /\ \/ x.turn = nextTurn[r] /\ nextTurn'[r] = nextTurn[r] + 1 /\ results'[r] = results[r]
           \/ /\ x.turn \in {worker[r][w].turn, NoTurn} /\ nextTurn'[r] = nextTurn[r]
              /\ results'[r] = results[r]
           \/ /\ x.turn = NoTurn /\ nextTurn'[r] = nextTurn[r] /\ worker[r][w].turn # NoTurn
              /\ results'[r] = results[r] \cup {worker[r][w].turn}
    <3>0. x = worker'[r][w]
      BY <1>3
    <3>1. CASE Takes(r, w)
      <4>1. /\ worker'[r][w] = [at |-> "cut", turn |-> nextTurn[r]]
            /\ nextTurn'[r] = nextTurn[r] + 1 /\ UNCHANGED results
        BY <1>t, <3>1 DEF Takes, WorkerGoes
      <4>2. x.at = "cut" /\ x.turn = nextTurn[r]
        BY <3>0, <4>1
      <4> QED
        BY <4>1, <4>2, <2>n
    <3>2. CASE Cuts(r, w)
      <4>1. worker'[r][w] = [worker[r][w] EXCEPT !.at = "asr"] /\ worker[r][w].at = "cut"
        BY <1>t, <3>2 DEF Cuts, WorkerGoes
      <4>2. x.at = "asr" /\ x.turn = worker[r][w].turn
        BY <2>w, <3>0, <4>1 DEF WorkerState
      <4>3. UNCHANGED <<nextTurn, results>>
        BY <3>2 DEF Cuts
      <4> QED
        BY <4>1, <4>2, <4>3, <2>o
    <3>3. CASE Hears(r, w)
      <4>1. /\ worker'[r][w] = IdleWorker /\ worker[r][w].at = "asr" /\ UNCHANGED nextTurn
            /\ results'[r] = results[r] \cup {worker[r][w].turn}
        BY <1>t, <3>3 DEF Hears, WorkerGoes
      <4>2. worker[r][w].turn # NoTurn
        BY <4>1, <2>o
      <4> QED
        BY <3>0, <4>1, <4>2, <1>i
    <3>4. CASE TurnSkipped(r, w)
      <4>1. worker'[r][w] = IdleWorker /\ UNCHANGED <<nextTurn, results>>
        BY <1>t, <3>4 DEF TurnSkipped, WorkerGoes
      <4> QED
        BY <3>0, <4>1, <1>i
    <3>5. CASE WorkerEnds(r, w)
      <4>1. /\ worker'[r][w] = [at |-> "end", turn |-> NoTurn]
            /\ UNCHANGED <<nextTurn, results>>
        BY <1>t, <3>5 DEF WorkerEnds, WorkerGoes
      <4>2. x.at = "end" /\ x.turn = NoTurn
        BY <3>0, <4>1
      <4> QED
        BY <4>1, <4>2
    <3> QED
      BY <3>1, <3>2, <3>3, <3>4, <3>5
  <2>1. /\ x.turn < nextTurn'[r]
        /\ \A t \in results'[r] : t < nextTurn'[r]
    BY <2>a, <2>n, <2>r, <2>o, <2>d
  <2>2. x.turn # NoTurn => x.turn \notin results'[r]
    BY <2>a, <2>n, <2>r, <2>o, <2>d
  <2>3. \A v \in Workers \ {w} : worker[r][v].turn # NoTurn =>
          worker[r][v].turn \notin results'[r] /\ worker[r][v].turn # x.turn
    BY <2>a, <2>n, <2>o
  <2>4. st'[r] = "turns" /\ clips'[r]
    BY <1>1, <2>w DEF WorkerInv
  <2>5. ASSUME NEW v \in Workers
        PROVE  /\ worker'[r][v].at \in {"idle", "end"} <=> worker'[r][v].turn = NoTurn
               /\ worker'[r][v].turn < nextTurn'[r]
               /\ worker'[r][v].turn # NoTurn =>
                    /\ worker'[r][v].turn \notin results'[r]
                    /\ \A u \in Workers \ {v} : worker'[r][u].turn # worker'[r][v].turn
    <3>1. CASE v = w
      <4>1. worker'[r][v] = x
        BY <1>3, <3>1
      <4>2. x.turn # NoTurn => \A u \in Workers \ {w} : worker[r][u].turn # x.turn
        BY <2>3
      <4>3. x.turn # NoTurn => \A u \in Workers \ {v} : worker'[r][u].turn # x.turn
        BY <4>2, <3>1, <1>3
      <4> QED
        BY <4>1, <4>3, <2>a, <2>1, <2>2
    <3>2. CASE v # w
      <4>1. worker'[r][v] = worker[r][v]
        BY <1>3, <3>2
      <4>2. worker[r][v].turn < nextTurn'[r]
        BY <2>a, <2>n, <2>o
      <4>3. worker[r][v].turn # NoTurn =>
              \A u \in Workers \ {v} : worker'[r][u].turn # worker[r][v].turn
        <5> SUFFICES ASSUME worker[r][v].turn # NoTurn, NEW u \in Workers \ {v}
                     PROVE  worker'[r][u].turn # worker[r][v].turn
          OBVIOUS
        <5>1. CASE u = w
          BY <5>1, <1>3, <2>3, <3>2
        <5>2. CASE u # w
          BY <5>2, <1>3, <2>o
        <5> QED
          BY <5>1, <5>2
      <4> QED
        BY <4>1, <4>2, <4>3, <2>3, <2>o, <3>2
    <3> QED
      BY <3>1, <3>2
  <2> QED
    BY <2>1, <2>4, <2>5 DEF WorkerInv
<1>9. UploadInv(r)'
  <2>1. RemoteInv(r)'
    BY <1>0, <1>1 DEF UploadInv, RemoteInv
  <2>2. AnswerInv(r)' /\ ChargeInv(r)'
    BY <1>0, <1>1, ChargesFixed DEF UploadInv, AnswerInv, ChargeInv
  <2> QED
    BY <1>8, <2>1, <2>2 DEF UploadInv
<1> QED
  BY <1>6, <1>7, <1>9 DEF PipeInv
\* All workers have ended: none cuts or transcribes when the directory goes.
LEMMA JoinStep ==
  ASSUME PipeInv, NEW r \in Uploads, Joins(r)
  PROVE  PipeInv'
<1>t. st \in PhaseType /\ clips \in [Uploads -> BOOLEAN]
  BY DEF PipeInv, PipeTypeOK, PhaseType
<1>1. /\ st[r] = "turns" /\ \A w \in Workers : worker[r][w].at = "end"
      /\ st' = [st EXCEPT ![r] = IF results[r] = {} THEN "file" ELSE "transcribed"]
      /\ clips' = [clips EXCEPT ![r] = FALSE]
      /\ UNCHANGED <<config, focus, window, stored, polls, nextTurn, worker, results, remote, ref,
                     lostDel, opened, charged, status>>
  BY DEF Joins, At, constVars, admitVars, remoteVars, billVars
<1>2. st' \in PhaseType /\ clips' \in [Uploads -> BOOLEAN]
  BY <1>t, <1>1 DEF PhaseType, Phases
<1>3. PipeTypeOK'
  BY <1>1, <1>2 DEF PipeInv, PipeTypeOK, PhaseType
<1>4. \A q \in Uploads \ {r} : st'[q] = st[q] /\ clips'[q] = clips[q]
  BY <1>t, <1>1 DEF PhaseType
<1>5. \A q \in Uploads \ {r} : UploadInv(q)'
  BY <1>1, <1>4, OthersKept DEF PipeInv
<1>6. UploadInv(r)'
  <2>0. UploadInv(r)
    BY DEF PipeInv
  <2>1. st'[r] \in {"file", "transcribed"}
    BY <1>t, <1>1 DEF PhaseType
  <2>2. RemoteInv(r)'
    BY <1>1, <2>0, <2>1 DEF UploadInv, RemoteInv, InUse, BeforeUse
  <2>3. AnswerInv(r)' /\ ChargeInv(r)'
    BY <1>1, <2>0, <2>1, ChargesFixed DEF UploadInv, AnswerInv, ChargeInv
  <2>4. WorkerInv(r)'
    BY <1>1, <2>0, <2>1 DEF UploadInv, WorkerInv
  <2> QED
    BY <2>2, <2>3, <2>4 DEF UploadInv
<1> QED
  BY <1>3, <1>5, <1>6 DEF PipeInv

\* The file at Gemini is uploaded, used, and deleted: the steps that change it.
LEMMA RemoteSteps ==
  ASSUME PipeInv, NEW r \in Uploads, UploadsRemote(r) \/ RemoteUsed(r) \/ Deletes(r)
  PROVE  PipeInv'
<1>t. /\ st \in PhaseType /\ remote \in [Uploads -> {"none", "there", "gone"}]
      /\ ref \in [Uploads -> BOOLEAN] /\ lostDel \in [Uploads -> BOOLEAN]
  BY DEF PipeInv, PipeTypeOK, PhaseType
<1>0. UploadInv(r)
  BY DEF PipeInv
<1>1. /\ st' \in PhaseType /\ \A q \in Uploads \ {r} : st'[q] = st[q]
      /\ UNCHANGED <<config, focus, window, stored, polls, nextTurn, worker, results, clips,
                     opened, charged, status>>
  <2>1. PICK t \in Phases, s \in Phases : Goes(r, s, t)
    BY DEF UploadsRemote, RemoteUsed, Deletes, GeminiGoes, Phases
  <2>2. st' \in PhaseType /\ \A q \in Uploads \ {r} : st'[q] = st[q]
    BY <1>t, <2>1 DEF Goes, PhaseType
  <2>3. UNCHANGED <<config, focus, window, stored, polls, nextTurn, worker, results, clips,
                    opened, charged, status>>
    BY DEF UploadsRemote, RemoteUsed, Deletes, Deleted, GeminiGoes, constVars, admitVars,
           perTurnVars, billVars, remoteVars
  <2> QED
    BY <2>2, <2>3
<1>2. /\ remote' \in [Uploads -> {"none", "there", "gone"}]
      /\ ref' \in [Uploads -> BOOLEAN] /\ lostDel' \in [Uploads -> BOOLEAN]
      /\ \A q \in Uploads \ {r} :
           remote'[q] = remote[q] /\ ref'[q] = ref[q] /\ lostDel'[q] = lostDel[q]
      /\ st[r] \notin {"new", "turns", "answered"} /\ st'[r] \notin {"new", "turns", "answered"}
      /\ RemoteInv(r)'
  <2>1. CASE UploadsRemote(r)
    <3>1. /\ st[r] = "gemini" /\ st'[r] = "sent" /\ remote' = [remote EXCEPT ![r] = "there"]
          /\ UNCHANGED <<ref, lostDel>>
      BY <1>t, <2>1 DEF UploadsRemote, GeminiGoes, Goes, PhaseType
    <3>2. ~ref[r]
      BY <1>0, <3>1 DEF UploadInv, RemoteInv, BeforeUse
    <3>3. RemoteInv(r)'
      BY <3>1, <3>2 DEF RemoteInv
    <3> QED
      BY <1>t, <3>1, <3>3
  <2>2. CASE RemoteUsed(r)
    <3>1. /\ st[r] = "sent" /\ st'[r] = "generate" /\ ref' = [ref EXCEPT ![r] = TRUE]
          /\ UNCHANGED <<remote, lostDel>>
      BY <1>t, <2>2 DEF RemoteUsed, GeminiGoes, Goes, PhaseType
    <3>2. RemoteInv(r)'
      BY <3>1 DEF RemoteInv, InUse, BeforeUse
    <3> QED
      BY <1>t, <3>1, <3>2
  <2>3. CASE Deletes(r)
    <3>1. /\ st[r] \in {"generated", "delete"} /\ st'[r] \in {"transcribed", "failing"}
          /\ Deleted(r)
      BY <1>t, <2>3 DEF Deletes, GeminiGoes, Goes, PhaseType
    <3>2. CASE ref[r]
      <4>1. PICK ok \in BOOLEAN : /\ remote' = [remote EXCEPT ![r] = IF ok THEN "gone" ELSE @]
                                  /\ lostDel' = [lostDel EXCEPT ![r] = ~ok]
                                  /\ UNCHANGED ref
        BY <3>1, <3>2 DEF Deleted
      <4>2. remote'[r] = "gone" \/ lostDel'[r]
        BY <1>t, <4>1
      <4>3. RemoteInv(r)'
        BY <3>1, <4>2 DEF RemoteInv, BeforeUse
      <4>4. /\ remote' \in [Uploads -> {"none", "there", "gone"}]
            /\ \A q \in Uploads \ {r} : remote'[q] = remote[q]
        BY <1>t, <4>1
      <4>5. lostDel' \in [Uploads -> BOOLEAN] /\ \A q \in Uploads \ {r} : lostDel'[q] = lostDel[q]
        BY <1>t, <4>1
      <4> QED
        BY <1>t, <3>1, <4>1, <4>3, <4>4, <4>5
    <3>3. CASE ~ref[r]
      <4>1. UNCHANGED <<remote, ref, lostDel>>
        BY <3>1, <3>3 DEF Deleted, remoteVars
      <4>2. RemoteInv(r)'
        BY <3>3, <4>1 DEF RemoteInv
      <4> QED
        BY <1>t, <3>1, <4>1, <4>2
    <3> QED
      BY <3>2, <3>3
  <2> QED
    BY <2>1, <2>2, <2>3
<1>3. PipeTypeOK'
  BY <1>1, <1>2 DEF PipeInv, PipeTypeOK, PhaseType
<1>4. \A q \in Uploads \ {r} : UploadInv(q)'
  BY <1>1, <1>2, OthersKept DEF PipeInv
<1>5. AnswerInv(r)' /\ ChargeInv(r)'
  BY <1>0, <1>1, <1>2, ChargesFixed DEF UploadInv, AnswerInv, ChargeInv
<1>6. WorkerInv(r)'
  BY <1>0, <1>1, <1>2 DEF UploadInv, WorkerInv
<1> QED
  BY <1>2, <1>3, <1>4, <1>5, <1>6 DEF PipeInv, UploadInv

\* Charges are opened and metered one at a time, up to what is owed.
LEMMA ChargeSteps ==
  ASSUME PipeInv, NEW r \in Uploads, OpensCharge(r) \/ Meters(r)
  PROVE  PipeInv'
<1>t. opened \in [Uploads -> BOOLEAN] /\ charged \in [Uploads -> 0 .. 2] /\ Len(Charges) \in 0 .. 2
  BY ChargesFixed DEF PipeInv, PipeTypeOK
<1>0. UploadInv(r)
  BY DEF PipeInv
<1>1. /\ st[r] = "transcribed"
      /\ UNCHANGED <<config, focus, st, window, stored, polls, nextTurn, worker, results, clips,
                     remote, ref, lostDel, status>>
  BY DEF OpensCharge, Meters, At, constVars, admitVars, perTurnVars, remoteVars
<1>2. /\ opened' \in [Uploads -> BOOLEAN] /\ charged' \in [Uploads -> 0 .. 2]
      /\ \A q \in Uploads \ {r} : opened'[q] = opened[q] /\ charged'[q] = charged[q]
      /\ charged'[r] <= Len(Charges) /\ (opened'[r] => charged'[r] < Len(Charges))
  <2>1. CASE OpensCharge(r)
    <3>1. /\ opened' = [opened EXCEPT ![r] = TRUE] /\ UNCHANGED charged
          /\ charged[r] < Len(Charges) /\ charged[r] \in 0 .. 2
      BY <1>t, <2>1 DEF OpensCharge
    <3> QED
      BY <1>t, <3>1
  <2>2. CASE Meters(r)
    <3>1. /\ opened' = [opened EXCEPT ![r] = FALSE] /\ charged' = [charged EXCEPT ![r] = @ + 1]
          /\ opened[r]
      BY <2>2 DEF Meters
    <3>2. charged[r] < Len(Charges) /\ charged[r] \in 0 .. 2
      BY <1>t, <1>0, <3>1 DEF UploadInv, ChargeInv
    <3>3. charged' \in [Uploads -> 0 .. 2] /\ charged'[r] = charged[r] + 1
      <4>0. \A a, b \in 0 .. 2 : a < b => a + 1 \in 0 .. 2
        OBVIOUS
      <4>1. charged[r] + 1 \in 0 .. 2
        BY <1>t, <3>2, <4>0
      <4> QED
        BY <1>t, <3>1, <4>1
    <3>4. /\ opened' \in [Uploads -> BOOLEAN] /\ ~opened'[r]
          /\ \A q \in Uploads \ {r} : opened'[q] = opened[q] /\ charged'[q] = charged[q]
      BY <1>t, <3>1
    <3> QED
      BY <1>t, <3>2, <3>3, <3>4
  <2> QED
    BY <2>1, <2>2
<1>3. PipeTypeOK'
  BY <1>1, <1>2 DEF PipeInv, PipeTypeOK
<1>4. \A q \in Uploads \ {r} : UploadInv(q)'
  BY <1>1, <1>2, OthersKept DEF PipeInv
<1>5. RemoteInv(r)' /\ WorkerInv(r)'
  BY <1>0, <1>1 DEF UploadInv, RemoteInv, WorkerInv
<1>6. status'[r] = "none"
  <2>1. status[r] \in {"none", "200", "500", "refused", "upstream"}
    BY DEF PipeInv, PipeTypeOK
  <2> QED
    BY <1>0, <1>1, <2>1 DEF UploadInv, AnswerInv
<1>7. AnswerInv(r)' /\ ChargeInv(r)'
  BY <1>1, <1>2, <1>6, ChargesFixed DEF AnswerInv, ChargeInv
<1> QED
  BY <1>3, <1>4, <1>5, <1>7 DEF PipeInv, UploadInv
\* An answer ends an upload: with the transcript metered, after a failure, or
\* at the door.
LEMMA AnswerSteps ==
  ASSUME PipeInv, NEW r \in Uploads, AnswersTranscript(r) \/ AnswersError(r) \/ Refuses(r)
  PROVE  PipeInv'
<1>t. /\ st \in PhaseType /\ status \in [Uploads -> {"none", "200", "500", "refused", "upstream"}]
      /\ Len(Charges) \in 0 .. 2
  BY ChargesFixed DEF PipeInv, PipeTypeOK, PhaseType
<1>0. UploadInv(r)
  BY DEF PipeInv
<1>1. PICK code \in {"200", "500", "refused", "upstream"} :
        /\ Answers(r, code)
        /\ code \in {"200", "upstream"} => Metered(r)
        /\ code = "refused" => st[r] = "new"
        /\ st[r] \in {"new", "failing", "transcribed"}
  BY DEF AnswersTranscript, AnswersError, Refuses, Metered, At
<1>2. UNCHANGED <<config, focus, window, stored, polls, nextTurn, worker, results, clips, remote,
                  ref, lostDel, opened, charged>>
  BY DEF AnswersTranscript, AnswersError, Refuses, constVars, admitVars, perTurnVars, remoteVars,
         billVars
<1>3. /\ st' \in PhaseType /\ st'[r] = "answered" /\ \A q \in Uploads \ {r} : st'[q] = st[q]
      /\ status' \in [Uploads -> {"none", "200", "500", "refused", "upstream"}]
      /\ status'[r] = code /\ \A q \in Uploads \ {r} : status'[q] = status[q]
  BY <1>t, <1>1 DEF Answers, PhaseType, Phases
<1>4. PipeTypeOK'
  BY <1>2, <1>3 DEF PipeInv, PipeTypeOK, PhaseType
<1>5. \A q \in Uploads \ {r} : UploadInv(q)'
  BY <1>2, <1>3, OthersKept DEF PipeInv
<1>6. RemoteInv(r)'
  BY <1>0, <1>1, <1>2, <1>3 DEF UploadInv, RemoteInv, BeforeUse, InUse
<1>7. WorkerInv(r)'
  BY <1>0, <1>1, <1>2, <1>3 DEF UploadInv, WorkerInv
<1>8. Len(Charges)' = Len(Charges)
  BY <1>2, ChargesFixed
<1>9. AnswerInv(r)'
  <2>1. code \in {"200", "upstream"} => charged[r] = Len(Charges) /\ ~opened[r]
    BY <1>1 DEF Metered
  <2>2. code = "refused" => charged[r] = 0 /\ stored[r] = "no"
    BY <1>0, <1>1 DEF UploadInv, ChargeInv
  <2> QED
    BY <1>2, <1>3, <1>8, <2>1, <2>2 DEF AnswerInv
<1>10. ChargeInv(r)'
  BY <1>0, <1>2, <1>3, <1>8 DEF UploadInv, ChargeInv
<1> QED
  BY <1>4, <1>5, <1>6, <1>7, <1>9, <1>10 DEF PipeInv, UploadInv

\* Every step keeps the invariant of the uploads.
LEMMA PipeInvStep == PipeInv /\ [Next]_vars => PipeInv'
<1> SUFFICES ASSUME PipeInv, [Next]_vars PROVE PipeInv'
  OBVIOUS
<1>1. CASE UNCHANGED pipeVars
  <2>1. UNCHANGED <<config, focus, st, window, stored, polls, nextTurn, worker, results, clips,
                    remote, ref, opened, charged, status, lostDel>>
    BY <1>1 DEF pipeVars
  <2>2. PipeTypeOK'
    BY <2>1 DEF PipeInv, PipeTypeOK
  <2>3. \A q \in Uploads : UploadInv(q)'
    BY <2>1, OthersKept DEF PipeInv
  <2> QED
    BY <2>2, <2>3 DEF PipeInv
<1>2. CASE Administration \/ UNCHANGED vars
  BY <1>1, <1>2 DEF Administration, vars
<1>3. ASSUME NEW r \in Uploads, Upload(r) PROVE PipeInv'
  <2>1. CASE Admits(r) \/ Sweeps(r) \/ Stores(r) \/ Begins(r)
    BY <2>1, Moves
  <2>2. CASE Selects(r)
    BY <1>1, <2>2 DEF Selects
  <2>3. CASE Diarizes(r)
    BY <2>3, Moves, TurnsFoundStep, PollSteps DEF Diarizes
  <2>4. CASE PerTurn(r)
    BY <2>4, WorkerSteps, JoinStep DEF PerTurn
  <2>5. CASE WholeFile(r)
    BY <2>5, Moves
  <2>6. CASE Gemini(r)
    BY <2>6, Moves, RemoteSteps, PollSteps DEF Gemini
  <2>7. CASE Bills(r)
    BY <2>7, Moves, ChargeSteps, AnswerSteps DEF Bills
  <2> QED
    BY <1>3, <2>1, <2>2, <2>3, <2>4, <2>5, <2>6, <2>7 DEF Upload
<1> QED
  BY <1>2, <1>3, AnswerSteps DEF Next

\* At the start no upload has a worker, a remote file or a charge.
LEMMA PipeInvInit == Init => PipeInv
<1> SUFFICES ASSUME PipeInit PROVE PipeInv
  BY DEF Init
<1>t. NTurns \in Nat /\ Rate \in Nat \ {0} /\ MaxPolls \in Nat
  BY VoicePipelineAssumption
<1>w. IdleWorker \in WorkerState /\ IdleWorker.at = "idle" /\ IdleWorker.turn = NoTurn
  BY DEF IdleWorker, WorkerState
<1>1. /\ config \in Configs /\ focus \in {"models", "uploads"} /\ window \in 0 .. Rate
  BY <1>t DEF PipeInit
<1>2. st \in PhaseType /\ \A r \in Uploads : st[r] \in {"stored", "new"}
  BY DEF PipeInit, PhaseType, Phases
<1>3. /\ stored \in StoredType /\ polls \in [Uploads -> 0 .. MaxPolls]
      /\ nextTurn \in [Uploads -> 1 .. NTurns + 1] /\ results \in [Uploads -> SUBSET Turns]
  BY <1>t DEF PipeInit, StoredType
<1>4. worker \in [Uploads -> [Workers -> WorkerState]]
  BY <1>w DEF PipeInit
<1>5. /\ remote \in [Uploads -> {"none", "there", "gone"}]
      /\ charged \in [Uploads -> 0 .. 2]
      /\ status \in [Uploads -> {"none", "200", "500", "refused", "upstream"}]
  BY DEF PipeInit
<1>6. /\ clips \in [Uploads -> BOOLEAN] /\ ref \in [Uploads -> BOOLEAN]
      /\ opened \in [Uploads -> BOOLEAN] /\ lostDel \in [Uploads -> BOOLEAN]
  BY DEF PipeInit
<1>7. PipeTypeOK
  BY <1>1, <1>2, <1>3, <1>4, <1>5, <1>6 DEF PipeTypeOK, PhaseType, StoredType, WorkerState
<1>8. ASSUME NEW r \in Uploads PROVE UploadInv(r)
  <2>1. /\ stored[r] = "no" /\ nextTurn[r] = 1 /\ results[r] = {}
        /\ \A w \in Workers : worker[r][w] = IdleWorker
    BY DEF PipeInit
  <2>2. ~ref[r] /\ ~opened[r] /\ charged[r] = 0 /\ status[r] = "none"
    BY DEF PipeInit
  <2>3. RemoteInv(r)
    BY <2>2 DEF RemoteInv
  <2>4. AnswerInv(r) /\ ChargeInv(r)
    BY <2>1, <2>2, ChargesFixed DEF AnswerInv, ChargeInv
  <2>5. WorkerInv(r)
    BY <1>2, <1>w, <2>1 DEF WorkerInv, NoTurn
  <2> QED
    BY <2>3, <2>4, <2>5 DEF UploadInv
<1> QED
  BY <1>7, <1>8 DEF PipeInv

\* diarize.ts, transcribePerTurn: for any number of uploads, workers and turns
\* no turn is transcribed twice, and the clip directory is there as long as a
\* worker uses it.
THEOREM TurnsStayWhole == Spec => []TurnsAreWhole
<1>1. ModelInv /\ PipeInv => TurnsAreWhole
  <2> SUFFICES ASSUME ModelInv, PipeInv PROVE TurnsAreWhole
    OBVIOUS
  <2>1. TypeOK
    BY DEF ModelInv, PipeInv, TypeOK
  <2>2. EachTurnOnce
    BY DEF PipeInv, UploadInv, WorkerInv, EachTurnOnce
  <2>3. ClipsOutliveWorkers
    BY DEF PipeInv, UploadInv, WorkerInv, ClipsOutliveWorkers
  <2> QED
    BY <2>1, <2>2, <2>3 DEF TurnsAreWhole
<1> QED
  BY <1>1, ModelInvInit, ModelInvStep, PipeInvInit, PipeInvStep, PTL DEF Spec

\* v1.ts and geminiAudio.ts: on every path to an answer, with every failure in
\* between, what a transcript owes is metered, a refused upload owes nothing,
\* and the file at Gemini is deleted or its delete has failed.
THEOREM AnswersCloseUploads == Spec => []AnswerClosesUpload
<1>1. PipeInv => AnswerClosesUpload
  <2> SUFFICES ASSUME PipeInv PROVE AnswerClosesUpload
    OBVIOUS
  <2>1. AnsweredIsCharged
    BY DEF PipeInv, UploadInv, AnswerInv, AnsweredIsCharged
  <2>2. RemoteFileGone
    BY DEF PipeInv, UploadInv, RemoteInv, InUse, RemoteFileGone, At
  <2> QED
    BY <2>1, <2>2 DEF AnswerClosesUpload
<1> QED
  BY <1>1, PipeInvInit, PipeInvStep, PTL DEF Spec
=============================================================================

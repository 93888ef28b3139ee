---------------------------- MODULE VoicePipeline ----------------------------
(***************************************************************************)
(* A voice upload from admission to answer: POST /v1/voice/analyze (v1.ts),    *)
(* POST /v1/anusandhan/voice/transcribe (anusandhan.ts) and what they call     *)
(* under lib/voice. The audio goes to Gemini as a whole, or is diarized         *)
(* locally or in the cloud, cut into turns that concurrent workers transcribe,  *)
(* or transcribed as one file by a local script or a Hugging Face Space. Then   *)
(* the usage is metered, an analysis may be asked for, and the answer is sent.  *)
(***************************************************************************)
EXTENDS VoiceModels, Sequences

CONSTANTS
  Configs,   \* environment and request parameters considered
  NTurns,    \* diarized turns of an upload
  Workers,   \* per-turn ASR workers
  Rate,      \* VOICE_RATE_LIMIT_PER_HOUR
  MaxPolls   \* polls before a remote file or job is given up

ASSUME VoicePipelineAssumption ==
  /\ Configs \subseteq [route : {"v1", "anusandhan"}, pipeline : {"local", "gemini"},
                        diarize : {"off", "local", "cloud"}, perTurn : BOOLEAN,
                        space : BOOLEAN, large : BOOLEAN, ask : BOOLEAN]
  /\ NTurns \in Nat /\ Rate \in Nat \ {0} /\ MaxPolls \in Nat

Turns == 1 .. NTurns
NoTurn == 0

VARIABLES
  config,
  focus,    \* "models": operators act and requests stop once they have their
            \* provider; "uploads": requests run to their end
  st,       \* where each upload is
  window,   \* voiceWindow: uploads counted in the current hour
  stored,   \* the audio file in the upload directory
  polls,    \* polls of a remote file or job
  nextTurn, \* transcribePerTurn's shared index
  worker,   \* each worker: what it does and its turn
  results,  \* the slots that got a text
  clips,    \* whether the clip directory exists
  remote,   \* the file at Gemini: none, there, gone
  ref,      \* fileRef is set
  opened,   \* an inference request of this upload is open
  charged,  \* how many of the charges owed are metered
  status,   \* the answer
  lostDel   \* history: the delete of the remote file failed

pipeVars == <<config, focus, st, window, stored, polls, nextTurn, worker, results, clips,
              remote, ref, opened, charged, status, lostDel>>
vars == <<modelVars, pipeVars>>

\* What an upload owes. Diarization is charged when it is enabled, also if it
\* failed and the plain transcript was used.
GeminiCharges == <<"gemini">>
LocalCharges == IF config.diarize # "off" THEN <<"stt", "diarize">> ELSE <<"stt">>
\* The Anusandhan route meters nothing for local transcription.
Charges ==
  IF config.pipeline = "gemini" THEN GeminiCharges
  ELSE IF config.route = "anusandhan" THEN <<>> ELSE LocalCharges

Phases == {"new", "admitted", "swept", "stored", "diarize", "media", "put", "submitted", "turns",
           "file", "spaceUploaded", "spaceQueued", "gemini", "sent", "generate", "generated",
           "delete", "transcribed", "failing", "answered"}
IdleWorker == [at |-> "idle", turn |-> NoTurn]

PipeTypeOK ==
  /\ config \in Configs /\ focus \in {"models", "uploads"}
  /\ st \in [Uploads -> Phases]
  /\ window \in 0 .. Rate
  /\ stored \in [Uploads -> {"no", "yes", "gone"}]
  /\ polls \in [Uploads -> 0 .. MaxPolls]
  /\ nextTurn \in [Uploads -> 1 .. NTurns + 1]
  /\ worker \in [Uploads -> [Workers -> [at : {"idle", "cut", "asr", "end"}, turn : Turns \cup {NoTurn}]]]
  /\ results \in [Uploads -> SUBSET Turns]
  /\ clips \in [Uploads -> BOOLEAN]
  /\ remote \in [Uploads -> {"none", "there", "gone"}]
  /\ ref \in [Uploads -> BOOLEAN]
  /\ opened \in [Uploads -> BOOLEAN]
  /\ charged \in [Uploads -> 0 .. 2]
  /\ status \in [Uploads -> {"none", "200", "500", "refused", "upstream"}]
  /\ lostDel \in [Uploads -> BOOLEAN]

PipeInit ==
  /\ config \in Configs /\ focus \in {"models", "uploads"}
  /\ focus = "models" => config.route = "v1" /\ config.pipeline = "local" /\ config.diarize = "off"
  /\ st = [r \in Uploads |-> IF focus = "models" THEN "stored" ELSE "new"]
  /\ window = 0
  /\ stored = [r \in Uploads |-> "no"]
  /\ polls = [r \in Uploads |-> 0]
  /\ nextTurn = [r \in Uploads |-> 1]
  /\ worker = [r \in Uploads |-> [w \in Workers |-> IdleWorker]]
  /\ results = [r \in Uploads |-> {}]
  /\ clips = [r \in Uploads |-> FALSE]
  /\ remote = [r \in Uploads |-> "none"]
  /\ ref = [r \in Uploads |-> FALSE]
  /\ opened = [r \in Uploads |-> FALSE]
  /\ charged = [r \in Uploads |-> 0]
  /\ status = [r \in Uploads |-> "none"]
  /\ lostDel = [r \in Uploads |-> FALSE]

At(r, s) == st[r] = s
Goes(r, s, t) == st[r] = s /\ st' = [st EXCEPT ![r] = t]
Audio(r) == stored[r] = "yes"

constVars == <<modelVars, config, focus>>
perTurnVars == <<nextTurn, worker, results, clips>>
remoteVars == <<polls, remote, ref, lostDel>>
billVars == <<opened, charged>>
admitVars == <<window, stored>>

\* The answer is sent once; a thrown error is answered with 500.
Answers(r, code) ==
  /\ st' = [st EXCEPT ![r] = "answered"]
  /\ status' = [status EXCEPT ![r] = code]

-----------------------------------------------------------------------------
(* Admission and storage *)

\* Voice disabled, no audio, too large, unsupported type; or the hour is full.
Refuses(r) ==
  /\ At(r, "new") /\ Answers(r, "refused")
  /\ UNCHANGED <<constVars, admitVars, perTurnVars, remoteVars, billVars>>

\* The hour's counter goes up, or a new hour begins with this upload.
Admits(r) ==
  /\ Goes(r, "new", "admitted")
  /\ \/ window < Rate /\ window' = window + 1
     \/ window > 0 /\ window' = 1
  /\ UNCHANGED <<constVars, stored, perTurnVars, remoteVars, billVars, status>>

\* cleanupOldVoiceUploads deletes what is older than the retention time, also
\* if it is still being transcribed.
Sweeps(r) ==
  /\ Goes(r, "admitted", "swept")
  /\ \E old \in SUBSET {q \in Uploads : stored[q] = "yes"} :
       stored' = [q \in Uploads |-> IF q \in old THEN "gone" ELSE stored[q]]
  /\ UNCHANGED <<constVars, window, perTurnVars, remoteVars, billVars, status>>

Stores(r) ==
  /\ Goes(r, "swept", IF config.pipeline = "gemini" THEN "gemini" ELSE "stored")
  /\ stored' = [stored EXCEPT ![r] = "yes"]
  /\ UNCHANGED <<constVars, window, perTurnVars, remoteVars, billVars, status>>

\* The file says which model, the provider is built, and transcription begins.
Selects(r) ==
  /\ At(r, "stored") /\ voice[r].at # "ready"
  /\ Resolves(r) \/ CreatesProvider(r)
  /\ UNCHANGED pipeVars

Begins(r) ==
  /\ voice[r].at = "ready" /\ focus = "uploads"
  /\ Goes(r, "stored", IF config.diarize = "off" THEN "file" ELSE "diarize")
  /\ UNCHANGED <<constVars, admitVars, perTurnVars, remoteVars, billVars, status>>

-----------------------------------------------------------------------------
(* Diarization *)

DiarizeGoes(r, s, t) ==
  /\ Goes(r, s, t)
  /\ UNCHANGED <<constVars, admitVars, perTurnVars, remoteVars, billVars, status>>

\* Turns were found: the per-turn mode makes the clip directory.
TurnsFound(r) ==
  /\ st' = [st EXCEPT ![r] = IF config.perTurn THEN "turns" ELSE "file"]
  /\ clips' = [clips EXCEPT ![r] = config.perTurn]
  /\ UNCHANGED <<constVars, admitVars, nextTurn, worker, results, remote, ref, lostDel,
                 billVars, status>>

LocalDiarizes(r) ==
  /\ At(r, "diarize") /\ config.diarize = "local" /\ Audio(r)
  /\ TurnsFound(r)
  /\ UNCHANGED polls

\* The cloud service: a media slot, the bytes, a job, and polls.
CloudMedia(r) == config.diarize = "cloud" /\ DiarizeGoes(r, "diarize", "media")
CloudPuts(r) == Audio(r) /\ DiarizeGoes(r, "media", "put")
CloudSubmits(r) == DiarizeGoes(r, "put", "submitted")

CloudSucceeds(r) ==
  /\ At(r, "submitted") /\ TurnsFound(r)
  /\ UNCHANGED polls

CloudRuns(r) ==
  /\ At(r, "submitted") /\ polls[r] < MaxPolls
  /\ polls' = [polls EXCEPT ![r] = @ + 1]
  /\ UNCHANGED <<constVars, st, admitVars, perTurnVars, remote, ref, lostDel, billVars, status>>

\* A failure of diarization, or no turns, leaves the plain transcript.
DiarizeFails(r) ==
  \E s \in {"diarize", "media", "put", "submitted"} : DiarizeGoes(r, s, "file")

Diarizes(r) ==
  \/ LocalDiarizes(r) \/ CloudMedia(r) \/ CloudPuts(r) \/ CloudSubmits(r)
  \/ CloudSucceeds(r) \/ CloudRuns(r) \/ DiarizeFails(r)

-----------------------------------------------------------------------------
(* Per-turn transcription *)

WorkerGoes(r, w, s, t) ==
  /\ At(r, "turns") /\ worker[r][w].at = s
  /\ worker' = [worker EXCEPT ![r][w] = t]

\* A worker takes the next turn; no await lies between the read and the
\* increment of the index.
Takes(r, w) ==
  /\ nextTurn[r] <= NTurns
  /\ WorkerGoes(r, w, "idle", [at |-> "cut", turn |-> nextTurn[r]])
  /\ nextTurn' = [nextTurn EXCEPT ![r] = @ + 1]
  /\ UNCHANGED <<constVars, st, admitVars, results, clips, remoteVars, billVars, status>>

Cuts(r, w) ==
  /\ Audio(r)
  /\ WorkerGoes(r, w, "cut", [worker[r][w] EXCEPT !.at = "asr"])
  /\ UNCHANGED <<constVars, st, admitVars, nextTurn, results, clips, remoteVars, billVars, status>>

\* The text goes to the slot of its turn.
Hears(r, w) ==
  /\ WorkerGoes(r, w, "asr", IdleWorker)
  /\ results' = [results EXCEPT ![r] = @ \cup {worker[r][w].turn}]
  /\ UNCHANGED <<constVars, st, admitVars, nextTurn, clips, remoteVars, billVars, status>>

\* A mutant: an error of one turn ends the whole call, and with it the
\* directory.
TurnThrows(r, w) ==
  /\ \/ WorkerGoes(r, w, "cut", IdleWorker)
     \/ WorkerGoes(r, w, "asr", IdleWorker)
  /\ st' = [st EXCEPT ![r] = "failing"] /\ clips' = [clips EXCEPT ![r] = FALSE]
  /\ UNCHANGED <<constVars, admitVars, nextTurn, results, remoteVars, billVars, status>>

\* A cut or a transcription that fails, or hears nothing, skips the turn.
TurnSkipped(r, w) ==
  /\ \/ WorkerGoes(r, w, "cut", IdleWorker)
     \/ WorkerGoes(r, w, "asr", IdleWorker)
  /\ UNCHANGED <<constVars, st, admitVars, nextTurn, results, clips, remoteVars, billVars, status>>

WorkerEnds(r, w) ==
  /\ nextTurn[r] > NTurns
  /\ WorkerGoes(r, w, "idle", [at |-> "end", turn |-> NoTurn])
  /\ UNCHANGED <<constVars, st, admitVars, nextTurn, results, clips, remoteVars, billVars, status>>

\* All workers ended: the directory goes and the slots filled are the transcript;
\* without any the whole file is transcribed and merged into the turns.
Joins(r) ==
  /\ At(r, "turns") /\ \A w \in Workers : worker[r][w].at = "end"
  /\ clips' = [clips EXCEPT ![r] = FALSE]
  /\ st' = [st EXCEPT ![r] = IF results[r] = {} THEN "file" ELSE "transcribed"]
  /\ UNCHANGED <<constVars, admitVars, nextTurn, worker, results, remoteVars, billVars, status>>

PerTurn(r) ==
  \/ \E w \in Workers : Takes(r, w) \/ Cuts(r, w) \/ Hears(r, w) \/ TurnSkipped(r, w) \/ WorkerEnds(r, w)
  \/ Joins(r)

-----------------------------------------------------------------------------
(* Transcription of the whole file *)

FileGoes(r, s, t) ==
  /\ Goes(r, s, t)
  /\ UNCHANGED <<constVars, admitVars, perTurnVars, remoteVars, billVars, status>>

ScriptHears(r) == ~config.space /\ Audio(r) /\ FileGoes(r, "file", "transcribed")
SpaceUploads(r) == config.space /\ Audio(r) /\ FileGoes(r, "file", "spaceUploaded")
SpaceJoins(r) == FileGoes(r, "spaceUploaded", "spaceQueued")
SpaceHears(r) == FileGoes(r, "spaceQueued", "transcribed")

\* The script, a call or an empty transcript throws.
FileFails(r) ==
  \E s \in {"file", "spaceUploaded", "spaceQueued"} : FileGoes(r, s, "failing")

WholeFile(r) == ScriptHears(r) \/ SpaceUploads(r) \/ SpaceJoins(r) \/ SpaceHears(r) \/ FileFails(r)

-----------------------------------------------------------------------------
(* Gemini *)

GeminiGoes(r, s, t) ==
  /\ Goes(r, s, t)
  /\ UNCHANGED <<constVars, admitVars, perTurnVars, billVars, status>>

\* Small audio goes inline; large audio is uploaded first.
SendsInline(r) == ~config.large /\ GeminiGoes(r, "gemini", "generate") /\ UNCHANGED remoteVars

UploadsRemote(r) ==
  /\ config.large /\ GeminiGoes(r, "gemini", "sent")
  /\ remote' = [remote EXCEPT ![r] = "there"]
  /\ UNCHANGED <<polls, ref, lostDel>>

\* A mutant: the polls are not counted.
RemotePendingForever(r) ==
  /\ At(r, "sent")
  /\ polls' = [polls EXCEPT ![r] = (@ + 1) % (MaxPolls + 1)]
  /\ UNCHANGED <<constVars, st, admitVars, perTurnVars, remote, ref, lostDel, billVars, status>>

\* The file is being processed; it is used when it is active, or when the
\* polls are used up.
RemotePending(r) ==
  /\ At(r, "sent") /\ polls[r] < MaxPolls
  /\ polls' = [polls EXCEPT ![r] = @ + 1]
  /\ UNCHANGED <<constVars, st, admitVars, perTurnVars, remote, ref, lostDel, billVars, status>>

RemoteUsed(r) ==
  /\ GeminiGoes(r, "sent", "generate")
  /\ ref' = [ref EXCEPT ![r] = TRUE]
  /\ UNCHANGED <<polls, remote, lostDel>>

Generates(r) == GeminiGoes(r, "generate", "generated") /\ UNCHANGED remoteVars

\* Authentication, the upload, processing or the call fails.
GeminiFails(r) ==
  /\ \/ GeminiGoes(r, "gemini", "failing") \/ GeminiGoes(r, "sent", "failing")
     \/ GeminiGoes(r, "generate", "delete")
  /\ UNCHANGED remoteVars

Deleted(r) ==
  IF ref[r]
  THEN \E ok \in BOOLEAN :
         /\ remote' = [remote EXCEPT ![r] = IF ok THEN "gone" ELSE @]
         /\ lostDel' = [lostDel EXCEPT ![r] = ~ok]
         /\ UNCHANGED <<polls, ref>>
  ELSE UNCHANGED remoteVars

\* A mutant: the delete follows only a good answer.
DeletesAfterSuccess(r) ==
  \/ GeminiGoes(r, "generated", "transcribed") /\ Deleted(r)
  \/ GeminiGoes(r, "delete", "failing") /\ UNCHANGED remoteVars

\* The finally block: the delete is tried once, its failure ignored.
Deletes(r) ==
  /\ \/ GeminiGoes(r, "generated", "transcribed")
     \/ GeminiGoes(r, "delete", "failing")
  /\ Deleted(r)

Gemini(r) ==
  \/ SendsInline(r) \/ UploadsRemote(r) \/ RemotePending(r) \/ RemoteUsed(r)
  \/ Generates(r) \/ GeminiFails(r) \/ Deletes(r)

-----------------------------------------------------------------------------
(* Metering and the answer *)

\* createInferenceRequest and startAttempt for the next charge ...
OpensCharge(r) ==
  /\ At(r, "transcribed") /\ ~opened[r] /\ charged[r] < Len(Charges)
  /\ opened' = [opened EXCEPT ![r] = TRUE]
  /\ UNCHANGED <<constVars, st, admitVars, perTurnVars, remoteVars, charged, status>>

\* ... and finalizeAndMeter.
Meters(r) ==
  /\ At(r, "transcribed") /\ opened[r]
  /\ opened' = [opened EXCEPT ![r] = FALSE]
  /\ charged' = [charged EXCEPT ![r] = @ + 1]
  /\ UNCHANGED <<constVars, st, admitVars, perTurnVars, remoteVars, status>>

Metered(r) == At(r, "transcribed") /\ ~opened[r] /\ charged[r] = Len(Charges)
\* Gemini analyses in its one call; otherwise the gateway asks its own chat
\* route, whose refusal is passed on.
AsksChat == config.ask /\ config.pipeline = "local" /\ config.route = "v1"

AnswersTranscript(r) ==
  /\ Metered(r)
  /\ \/ Answers(r, "200")
     \/ AsksChat /\ Answers(r, "upstream")
  /\ UNCHANGED <<constVars, admitVars, perTurnVars, remoteVars, billVars>>

\* Anything before or around the metering throws: storing, the script that is
\* missing, the clip directory, the database, the analysis model.
Throws(r) ==
  /\ \/ Goes(r, "swept", "failing") \/ Goes(r, "transcribed", "failing")
     \/ config.perTurn /\ Goes(r, "diarize", "failing")
     \/ At(r, "stored") /\ voice[r].at = "ready" /\ focus = "uploads" /\ Goes(r, "stored", "failing")
  /\ UNCHANGED <<constVars, admitVars, perTurnVars, remoteVars, billVars, status>>

AnswersError(r) ==
  /\ At(r, "failing") /\ Answers(r, "500")
  /\ UNCHANGED <<constVars, admitVars, perTurnVars, remoteVars, billVars>>

Bills(r) == OpensCharge(r) \/ Meters(r) \/ AnswersTranscript(r) \/ Throws(r) \/ AnswersError(r)

Upload(r) ==
  \/ Admits(r) \/ Sweeps(r) \/ Stores(r) \/ Selects(r) \/ Begins(r)
  \/ Diarizes(r) \/ PerTurn(r) \/ WholeFile(r) \/ Gemini(r) \/ Bills(r)

-----------------------------------------------------------------------------

Init == ModelInit /\ PipeInit

Administration ==
  /\ focus = "models"
  /\ (\E p \in Panels : Operator(p)) \/ (\E j \in Jobs : Install(j)) \/ GatewayRestarts
  /\ UNCHANGED pipeVars

Next ==
  \/ \E r \in Uploads : Upload(r) \/ Refuses(r)
  \/ Administration

Spec == Init /\ [][Next]_vars

\* Scripts and calls return, with a result or an error; pages poll.
FairSpec ==
  /\ Spec
  /\ \A r \in Uploads : WF_vars(Upload(r) \/ Refuses(r))
  /\ \A p \in Panels : WF_vars(focus = "models" /\ PollEnds(p) /\ UNCHANGED pipeVars)
  /\ \A j \in Jobs : WF_vars(focus = "models" /\ Install(j) /\ UNCHANGED pipeVars)

-----------------------------------------------------------------------------
(* Properties *)

TypeOK == ModelTypeOK /\ PipeTypeOK

\* The clip directory is there as long as a worker cuts or transcribes in it,
\* whatever happens to the turns of the other workers.
ClipsOutliveWorkers ==
  \A r \in Uploads, w \in Workers : worker[r][w].at \in {"cut", "asr"} => clips[r]

\* Workers share the index of the next turn and no turn is transcribed twice:
\* two workers never have the same one, nor one that is done.
EachTurnOnce ==
  \A r \in Uploads, w \in Workers :
    worker[r][w].turn # NoTurn =>
      /\ worker[r][w].turn \notin results[r]
      /\ \A v \in Workers \ {w} : worker[r][v].turn # worker[r][w].turn

\* A transcript is sent only when everything it owes is metered, and an upload
\* refused at the door owes nothing; an upload that fails later keeps the
\* charges it got that far.
AnsweredIsCharged ==
  \A r \in Uploads :
    /\ status[r] \in {"200", "upstream"} => charged[r] = Len(Charges) /\ ~opened[r]
    /\ status[r] = "refused" => charged[r] = 0 /\ stored[r] = "no"

\* A file uploaded to Gemini and ready for use is deleted before the answer,
\* on every path, unless the delete itself fails.
RemoteFileGone ==
  \A r \in Uploads : At(r, "answered") /\ ref[r] => remote[r] = "gone" \/ lostDel[r]

\* Every upload is answered: no poll loop, worker or fallback keeps it for
\* ever, even when the sweep deletes its audio half way.
EveryUploadIsAnswered ==
  \A r \in Uploads : focus = "uploads" ~> At(r, "answered")

\* The workers of transcribePerTurn share an index and a directory: no turn is
\* transcribed twice, and the clips are there until the last worker has ended
\* (diarize.ts:330-390); all state keeps its types.
TurnsAreWhole == TypeOK /\ EachTurnOnce /\ ClipsOutliveWorkers

\* An answer leaves nothing open (v1.ts:361-420, geminiAudio.ts): what the upload
\* owes is metered, and the audio at Gemini is deleted or its delete has failed.
AnswerClosesUpload == AnsweredIsCharged /\ RemoteFileGone

\* Nobody waits for ever: every upload is answered, and a page is freed when the
\* install it polls ends.
EveryoneIsAnswered == EveryUploadIsAnswered /\ PanelFreed
=============================================================================

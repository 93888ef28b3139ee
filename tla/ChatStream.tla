----------------------------- MODULE ChatStream ------------------------------
(***************************************************************************)
(* One streamed chat turn from the browser to the engine and back:         *)
(*   - the chat console's hook (apps/web/components/chat/useChatStream.ts),*)
(*     with the voice upload that writes the same message list;            *)
(*   - the control plane's proxy (apps/web/app/api/chat/route.ts);         *)
(*   - the streaming half of POST /v1/chat/completions                     *)
(*     (apps/gateway/src/routes/v1.ts:805-1176), with its listener for a   *)
(*     client that goes away;                                              *)
(*   - the engine adapters: llama-server forwards each delta, a remote     *)
(*     provider's are accumulated and sent as one (remoteOpenAi.ts).       *)
(* Text is counted in deltas: those the adapter received, which are all of *)
(* the answer or what came of it before the engine's stream ended early.   *)
(* A network read may end in the middle of an event. MeteredChat models    *)
(* what settling a turn does to the ledger; here it is one step that       *)
(* succeeds or throws.                                                     *)
(***************************************************************************)
EXTENDS Integers, FiniteSets, Sequences, FiniteSetsExt

CONSTANTS Turns,     \* number of turns
          MaxDeltas, \* bound: deltas of each turn's answer
          MaxStops,  \* bound: turns the user stops
          MaxVoice   \* bound: voice uploads

ASSUME StreamAssumption ==
    /\ Turns \in Nat \ {0} /\ MaxDeltas \in [1..Turns -> Nat]
    /\ MaxStops \in Nat /\ MaxVoice \in Nat

Turn == 1..Turns
Backends == {"llama", "remote"}

VARIABLES
    backend,   \* the adapter that answers (chosen once)
    \* browser
    turn,      \* turns sent so far
    streaming, \* `streaming`
    abort,     \* abortRef.current: the turn its controller belongs to, or 0
    messages,  \* the message list: turns, and 0 for a voice transcript
    rendered,  \* the list of the last render, which the callbacks close over
    bubble,    \* content and finish reason of each turn's answer
    half,      \* the buffer holds the first part of the next event
    stopped,   \* turns whose controller was aborted
    voice,     \* voice uploads in flight
    uploads,   \* voice uploads the user will still make
    \* gateway, per turn
    place,        \* where the handler stands
    heard,     \* the abort signal has fired
    noticed,   \* the close of the connection has been delivered
    produced,  \* deltas the adapter has received
    handed,    \* the adapter has handed over its final chunk
    charged,   \* turns settled
    pipe       \* events on their way to the browser

browser == <<turn, streaming, abort, messages, rendered, bubble, half, stopped, voice,
             uploads>>
gateway == <<place, heard, noticed, produced, handed, charged, pipe>>
streamVars == <<backend, turn, streaming, abort, messages, rendered, bubble, half, stopped,
          voice, uploads, place, heard, noticed, produced, handed, charged, pipe>>

Delta(n) == [kind |-> "delta", n |-> n]
Finish == [kind |-> "finish", n |-> 0]
DoneEvent == [kind |-> "done", n |-> 0]
ErrorEvent == [kind |-> "error", n |-> 0]
Refusal == [kind |-> "refusal", n |-> 0]   \* a status with a JSON body, no stream
Pending == [len |-> 0, fin |-> "none", settled |-> FALSE]

StreamTypeOK ==
    /\ backend \in Backends
    /\ turn \in 0..Turns /\ streaming \in BOOLEAN /\ abort \in 0..Turns
    /\ \A i \in DOMAIN messages : messages[i] \in 0..Turns
    /\ bubble \in [Turn -> [len: Nat, fin: {"none", "stop", "stopped", "error"},
                            settled: BOOLEAN]]
    /\ half \in [Turn -> BOOLEAN] /\ stopped \subseteq Turn /\ heard \subseteq Turn
    /\ noticed \subseteq Turn /\ charged \subseteq Turn /\ handed \subseteq Turn
    /\ voice \in 0..MaxVoice /\ uploads \in 0..MaxVoice
    /\ place \in [Turn -> {"none", "proxy", "admit", "stream", "settle", "close", "catch", "done"}]
    /\ \A t \in Turn : produced[t] \in 0..MaxDeltas[t]

\* Uploads and the adapter do not meet: the upload is played with one of them.
StreamInit ==
    /\ backend \in Backends
    /\ turn = 0 /\ streaming = FALSE /\ abort = 0
    /\ messages = <<>> /\ rendered = <<>>
    /\ bubble = [t \in Turn |-> Pending] /\ half = [t \in Turn |-> FALSE]
    /\ stopped = {} /\ voice = 0
    /\ uploads \in 0..MaxVoice /\ (backend = "llama" => uploads = 0)
    /\ place = [t \in Turn |-> "none"] /\ heard = {} /\ noticed = {}
    /\ produced = [t \in Turn |-> 0] /\ handed = {} /\ charged = {}
    /\ pipe = [t \in Turn |-> <<>>]

-----------------------------------------------------------------------------
(* The browser                                                             *)

\* send: the history is the rendered list and replaces the list; the click
\* handler's updates are rendered before the next event.
Send ==
    /\ turn < Turns /\ ~streaming
    /\ turn' = turn + 1 /\ streaming' = TRUE /\ abort' = turn'
    /\ messages' = Append(rendered, turn') /\ rendered' = messages'
    /\ place' = [place EXCEPT ![turn'] = "proxy"]
    /\ UNCHANGED <<backend, bubble, half, stopped, voice, uploads, heard, noticed,
                   produced, handed, charged, pipe>>

\* Updates made outside an event handler are rendered later.
Render ==
    /\ rendered # messages /\ rendered' = messages
    /\ UNCHANGED <<backend, turn, streaming, abort, messages, bubble, half, stopped,
                   voice, uploads, gateway>>

\* stop: abort the controller of the turn in progress; its fetch or read rejects.
Stop ==
    /\ abort # 0 /\ abort \notin stopped /\ Cardinality(stopped) < MaxStops
    /\ stopped' = stopped \union {abort}
    /\ bubble' = bubble
    /\ UNCHANGED <<backend, turn, streaming, abort, messages, rendered, half, voice,
                   uploads, gateway>>

\* catch and finally of send.
Settles(t, fin) ==
    /\ bubble' = [bubble EXCEPT ![t].fin = fin, ![t].settled = TRUE]
    /\ streaming' = FALSE /\ abort' = 0
    /\ pipe' = [pipe EXCEPT ![t] = <<>>] /\ half' = [half EXCEPT ![t] = FALSE]

StopSettles(t) ==
    /\ t \in stopped /\ ~bubble[t].settled
    /\ Settles(t, "stopped")
    /\ UNCHANGED <<backend, turn, messages, rendered, stopped, voice, uploads,
                   place, heard, noticed, produced, handed, charged>>

\* What the loop over the lines does with the complete events of a read: up to
\* the first error or [DONE], deltas are appended and a finish reason is kept.
EndsTurn(e) == e.kind \in {"error", "done", "refusal"}
Upto(evs) == IF \E i \in DOMAIN evs : EndsTurn(evs[i])
             THEN SubSeq(evs, 1, CHOOSE i \in DOMAIN evs :
                                   EndsTurn(evs[i]) /\ \A j \in 1..i - 1 : ~EndsTurn(evs[j]))
             ELSE evs
Length(evs) == LET size == [i \in DOMAIN evs |-> evs[i].n]
               IN  MapThenSumSet(LAMBDA i : size[i], DOMAIN evs)
Has(evs, k) == \E i \in DOMAIN evs : evs[i].kind = k

Absorb(b, evs) ==
    LET used == Upto(evs)
        fin == IF Has(used, "error") \/ Has(used, "refusal") THEN "error"
               ELSE IF Has(used, "finish") THEN "stop" ELSE b.fin
    IN  [len |-> b.len + Length(used), fin |-> fin,
         settled |-> \E i \in DOMAIN used : EndsTurn(used[i])]

\* The events a read completes: the line in the buffer is joined with it.
Completed(t, n) == SubSeq(pipe[t], 1, n)

\* reader.read(): n complete events and perhaps the first part of the next.
Read(t) ==
    /\ t \notin stopped /\ ~bubble[t].settled /\ pipe[t] # <<>>
    /\ \E n \in 0..Len(pipe[t]), h \in BOOLEAN :
         /\ n > 0 \/ (h /\ ~half[t])
         /\ h => n < Len(pipe[t])
         /\ bubble' = [bubble EXCEPT ![t] = Absorb(@, Completed(t, n))]
         /\ half' = [half EXCEPT ![t] = h /\ ~bubble'[t].settled]
         /\ pipe' = [pipe EXCEPT ![t] = IF bubble'[t].settled THEN <<>>
                                        ELSE SubSeq(@, n + 1, Len(@))]
    /\ streaming' = ~bubble'[t].settled
    /\ abort' = IF bubble'[t].settled THEN 0 ELSE abort
    /\ UNCHANGED <<backend, turn, messages, rendered, stopped, voice, uploads, place, heard,
                   noticed, produced, handed, charged>>

\* New chat: offered when nothing streams.
Reset ==
    /\ messages # <<>> /\ ~streaming /\ turn < Turns
    /\ messages' = <<>> /\ rendered' = <<>>
    /\ UNCHANGED <<backend, turn, streaming, abort, bubble, half, stopped, voice, uploads,
                   gateway>>

\* analyzeVoice: refused while a turn streams; nothing stops a turn from
\* starting while the upload is out.
VoiceStart ==
    /\ uploads > 0 /\ voice = 0 /\ ~streaming
    /\ voice' = 1 /\ uploads' = uploads - 1
    /\ UNCHANGED <<backend, turn, streaming, abort, messages, rendered, bubble, half,
                   stopped, gateway>>

\* The transcript is appended to whatever the list is by then; a failure adds
\* nothing.
VoiceEnds ==
    /\ voice > 0 /\ voice' = voice - 1
    /\ \E ok \in BOOLEAN : messages' = IF ok THEN Append(messages, 0) ELSE messages
    /\ UNCHANGED <<backend, turn, streaming, abort, rendered, bubble, half, stopped,
                   uploads, gateway>>

-----------------------------------------------------------------------------
(* Proxy and gateway                                                       *)

\* What is written for a turn that is over in the browser reaches nobody.
Writes(t, evs) ==
    pipe' = IF bubble[t].settled \/ t \in stopped THEN pipe
            ELSE [pipe EXCEPT ![t] = @ \o evs]
At(t, p) == place[t] = p
Goes(t, p) == place' = [place EXCEPT ![t] = p]

\* The proxy: the dashboard key, then the gateway with the browser's signal. A
\* turn stopped before never reaches the gateway; a failure is a JSON error.
Proxy(t) ==
    /\ At(t, "proxy")
    /\ \E p \in {"admit", "done"} :
         /\ t \in stopped => p = "done"
         /\ Goes(t, p)
         /\ IF p = "done" THEN Writes(t, <<Refusal>>) ELSE UNCHANGED pipe
    /\ UNCHANGED <<backend, browser, heard, noticed, produced, handed, charged>>

\* Checks, routing and retrieval: refused with a status and a JSON body, or the
\* listener is attached, the headers leave and the engine starts.
Admit(t) ==
    /\ At(t, "admit")
    /\ \E p \in {"stream", "done"} :
         /\ Goes(t, p)
         /\ Writes(t, IF p = "done" THEN <<Refusal>> ELSE <<Delta(0)>>)
    /\ UNCHANGED <<backend, browser, heard, noticed, produced, handed, charged>>

\* The close of the connection reaches the gateway: heard while the listener is
\* attached, lost before and after.
CloseArrives(t) ==
    /\ t \in stopped \ noticed /\ place[t] \notin {"proxy", "done"}
    /\ noticed' = noticed \union {t}
    /\ heard' = IF place[t] \in {"stream", "settle", "close"} THEN heard \union {t} ELSE heard
    /\ UNCHANGED <<backend, browser, place, produced, handed, charged, pipe>>

\* A delta: llama-server's is written at once, a remote provider's accumulated. One
\* that was read before the abort is heard is still handled.
EngineDelta(t) ==
    /\ At(t, "stream") /\ produced[t] < MaxDeltas[t]
    /\ produced' = [produced EXCEPT ![t] = @ + 1]
    /\ IF backend = "llama" THEN Writes(t, <<Delta(1)>>) ELSE UNCHANGED pipe
    /\ UNCHANGED <<backend, browser, place, heard, noticed, handed, charged>>

\* Mutant: each delta replaces what was accumulated.
AssembledLast(t) == IF backend = "remote" /\ produced[t] > 0 THEN <<Delta(1)>> ELSE <<>>

\* What a remote provider accumulated goes out as one delta.
Assembled(t) == IF backend = "remote" THEN <<Delta(produced[t])>> ELSE <<>>

\* The engine's stream ends: after its finish reason, early without one, or after an
\* error event, which the adapters do not look for. They take "stop" unless they were
\* told otherwise and hand over the same final chunk. A stream that had ended before
\* the abort is heard is still handled.
EngineFinal(t) ==
    /\ At(t, "stream")
    /\ handed' = handed \union {t}
    /\ Writes(t, Assembled(t) \o <<Finish>>)
    /\ Goes(t, "settle")
    /\ UNCHANGED <<backend, browser, heard, noticed, produced, charged>>

\* The engine throws.
EngineFails(t) ==
    /\ At(t, "stream") /\ Goes(t, "catch")
    /\ UNCHANGED <<backend, browser, heard, noticed, produced, handed, charged, pipe>>

\* Mutant: an aborted generation leaves the loop and is settled.
AbortSettled(t) ==
    /\ At(t, "stream") /\ t \in heard /\ Goes(t, "settle")
    /\ UNCHANGED <<backend, browser, heard, noticed, produced, handed, charged, pipe>>

\* AbortSignal.any: the client's abort makes the engine's read throw.
Aborted(t) ==
    /\ At(t, "stream") /\ t \in heard /\ Goes(t, "catch")
    /\ UNCHANGED <<backend, browser, heard, noticed, produced, handed, charged, pipe>>

\* Mutant: no deadline while deltas have come.
DeadlineUntilFirst(t) ==
    /\ At(t, "stream") /\ produced[t] = 0 /\ Goes(t, "catch")
    /\ UNCHANGED <<backend, browser, heard, noticed, produced, handed, charged, pipe>>

\* AbortSignal.timeout(INFERENCE_TIMEOUT_MS).
Deadline(t) ==
    /\ At(t, "stream") /\ Goes(t, "catch")
    /\ UNCHANGED <<backend, browser, heard, noticed, produced, handed, charged, pipe>>

\* finalizeAndMeter: settled, or an error is thrown.
Settle(t) ==
    /\ At(t, "settle")
    /\ \E ok \in BOOLEAN : /\ charged' = IF ok THEN charged \union {t} ELSE charged
                           /\ Goes(t, IF ok THEN "close" ELSE "catch")
    /\ pipe' = pipe
    /\ UNCHANGED <<backend, browser, heard, noticed, produced, handed>>

\* completeCoreTrace, then [DONE] and the end of the response.
Close(t) ==
    /\ At(t, "close")
    /\ Goes(t, "done") /\ Writes(t, <<DoneEvent>>)
    /\ UNCHANGED <<backend, browser, heard, noticed, produced, handed, charged>>

\* The trace's last write throws after the turn is settled.
CloseFails(t) ==
    /\ At(t, "close") /\ Goes(t, "catch")
    /\ UNCHANGED <<backend, browser, heard, noticed, produced, handed, charged, pipe>>

\* catch: release, mark FAILED, and tell the client on the open stream.
Catch(t) ==
    /\ At(t, "catch")
    /\ Goes(t, "done") /\ Writes(t, <<ErrorEvent, DoneEvent>>)
    /\ UNCHANGED <<backend, browser, heard, noticed, produced, handed, charged>>

-----------------------------------------------------------------------------
StreamNext ==
    \/ Send \/ Render \/ Stop \/ Reset \/ VoiceStart \/ VoiceEnds
    \/ \E t \in Turn :
         \/ StopSettles(t) \/ Read(t) \/ Proxy(t) \/ Admit(t) \/ CloseArrives(t)
         \/ EngineDelta(t) \/ EngineFinal(t) \/ EngineFails(t) \/ Aborted(t)
         \/ Deadline(t) \/ Settle(t) \/ Close(t) \/ CloseFails(t) \/ Catch(t)

(***************************************************************************)
(* The browser's and the gateway's tasks run, the network delivers, and    *)
(* timers fire. The engine is not assumed to produce anything.             *)
(***************************************************************************)
StreamFairness ==
    \A t \in Turn :
      /\ WF_streamVars(StopSettles(t)) /\ WF_streamVars(Read(t)) /\ WF_streamVars(Proxy(t))
      /\ WF_streamVars(Admit(t)) /\ WF_streamVars(CloseArrives(t)) /\ WF_streamVars(Aborted(t))
      /\ WF_streamVars(Deadline(t)) /\ WF_streamVars(Settle(t)) /\ WF_streamVars(Close(t)) /\ WF_streamVars(Catch(t))

StreamSpec == StreamInit /\ [][StreamNext]_streamVars

FairStreamSpec == StreamSpec /\ StreamFairness

-----------------------------------------------------------------------------
(* Properties                                                              *)

\* useChatStream.ts:228-277 against v1.ts:944-988: an answer the console shows as
\* complete is every delta the adapter received, however the stream was cut into
\* reads, and less than complete it is never more than that.
ShownIsProduced ==
    \A t \in Turn : /\ bubble[t].len <= produced[t]
                    /\ bubble[t].settled /\ bubble[t].fin = "stop"
                          => bubble[t].len = produced[t]

\* v1.ts:1078-1108: an answer that ends on screen without error or stop has been
\* settled: [DONE] is written after finalizeAndMeter.
FinishedIsSettled ==
    \A t \in Turn : bubble[t].settled /\ bubble[t].fin = "stop" => t \in charged

\* v1.ts:944-1098: the text of a settled turn is on screen or on its way there, every
\* delta that the adapter received, unless the user has stopped the turn - also when
\* the trace's last write fails after the settlement and the turn ends with an error.
\* A generation that threw, timed out or was aborted is never settled. (Whether the
\* engine had finished its answer the adapters cannot tell.)
SettledIsDelivered ==
    \A t \in charged :
      /\ t \in handed
      /\ t \notin stopped => bubble[t].len + Length(pipe[t]) = produced[t]

\* useChatStream.ts:102, 278-301: once the turn is over in the console - stopped,
\* failed or complete - nothing that still arrives changes its answer.
OverIsOver == [][\A t \in Turn : bubble[t].settled => bubble'[t] = bubble[t]]_streamVars

\* useChatStream.ts:138-150: a voice transcript that arrives while a turn runs
\* never removes the turn from the list; the turn that streams is always in it.
TurnKept == streaming => \E i \in DOMAIN messages : messages[i] = turn

\* engine deadline (llamaServer.ts:474-478, remoteOpenAi.ts:172-175): every turn
\* ends in the console although the engine may hang, and frees the input.
TurnEnds == streaming ~> ~streaming

\* Every handler the gateway started ends, also when its client went away before
\* the listener was attached.
HandlerEnds == \A t \in Turn : place[t] = "admit" ~> place[t] = "done"

\* The console shows what was received: all of it when it shows the answer as
\* complete, a prefix otherwise, and the turn that streams is in the list (useChatStream.ts); all state keeps
\* its types.
ConsoleIsTrue == StreamTypeOK /\ ShownIsProduced /\ TurnKept

\* Settlement and answer agree in both directions (v1.ts:944-1123): what ends well on
\* screen is settled, and what is settled is delivered in full.
SettlementMatchesAnswer == FinishedIsSettled /\ SettledIsDelivered

\* Every turn and every handler ends although the engine may hang, and a turn that
\* is over stays as it was (useChatStream.ts:102, llamaServer.ts:474-478).
TurnsEnd == TurnEnds /\ HandlerEnds /\ OverIsOver
=============================================================================

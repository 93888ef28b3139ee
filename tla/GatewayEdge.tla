---------------------------- MODULE GatewayEdge -----------------------------
(***************************************************************************)
(* The request path of the gateway around the chat handler: a request is    *)
(* admitted (module Admission), claims a Core Inspector session (module      *)
(* CoreTrace), is charged, closes its recorder and is answered; meanwhile    *)
(* the key's owner arms and cancels captures, counters and cache entries     *)
(* expire, and the gateway may have just restarted.                          *)
(***************************************************************************)
EXTENDS Admission, CoreTrace

CONSTANT InFlight  \* the sets of requests a "captures" behaviour may start with
ASSUME InFlightAssumption == /\ InFlight \subseteq SUBSET Callers /\ Callers \subseteq Requests
                             /\ None \notin Requests

VARIABLES
  phase,  \* of the chat handler: "new", "claiming" or "running"
  focus   \* what happens around the requests in this behaviour

\* The two surroundings a behaviour is explored in: "limits" lets counters,
\* windows, cache and key change while no capture is armed, "captures" lets the
\* customer use the inspector while a gateway that has just started handles some
\* requests, which came with other keys of the same customer.
Focuses == {"limits", "captures"}

edgeVars == <<admissionVars, traceVars, phase, focus>>

TypeOK == AdmissionTypeOK /\ TraceTypeOK
          /\ phase \in [Requests -> {"new", "claiming", "running"}]
          /\ focus \in Focuses

InHandler(S) == [r \in Requests |-> IF r \in S THEN "handler" ELSE "refused"]

Init ==
  /\ phase = [r \in Requests |-> "new"]
  /\ TraceInit
  /\ \/ focus = "limits" /\ AdmissionInit /\ session[1] = "none"
     \/ /\ focus = "captures"
        /\ redisEnabled = FALSE
        /\ \E S \in InFlight : at = InHandler(S)
        /\ kind = [r \in Requests |-> "chat"]
        /\ slot = {} /\ conc = 0 /\ rpmCount = 0 /\ voiceCount = 0
        /\ concKey = "absent" /\ lost = {} /\ leaked = {} /\ unset = FALSE
        /\ expiries = 0
        /\ used = 0 /\ cache = NoCache /\ cacheTtl = FALSE
        /\ figure = [r \in Requests |-> 0]
        /\ charged = {} /\ job = [r \in Requests |-> "none"]

Enter(r, p, q) == phase[r] = p /\ phase' = [phase EXCEPT ![r] = q]

\* The chat handler begins by looking for a trace to claim.
LookUpTrace(r) ==
  /\ r \in Callers /\ at[r] = "handler" /\ kind[r] # "voice"
  /\ Enter(r, "new", "claiming")
  /\ ClaimLooksUp(r) /\ claim'[r] # None
  /\ UNCHANGED admissionVars

ClaimTrace(r) ==
  /\ Enter(r, "claiming", "running")
  /\ ClaimCoreTrace(r)
  /\ UNCHANGED admissionVars

\* The chat handler runs once its claim is settled, which without a trace id it
\* is at once; the voice route claims nothing.
MayRun(r) ==
  kind[r] = "voice" \/ phase[r] = "running" \/ (phase[r] = "new" /\ armed = None)

RunHandler(r) ==
  /\ MayRun(r)
  /\ \/ focus = "limits" /\ Charge(r)
     \/ EndUncharged(r)
  /\ phase' = [phase EXCEPT ![r] = "running"]
  /\ UNCHANGED traceVars

\* completeCoreTrace or coreTrace.fail, before the answer is sent.
CloseTrace(r) ==
  /\ at[r] = "closing" /\ r \in Callers /\ recorder[r] # None
  /\ RecorderCloses(r)
  /\ UNCHANGED <<admissionVars, phase>>

Admit(r) ==
  /\ Middleware(r)
  /\ at[r] = "closing" /\ r \in Callers => recorder[r] = None
  /\ UNCHANGED <<traceVars, phase>>

HandleRequest(r) ==
  Admit(r) \/ LookUpTrace(r) \/ ClaimTrace(r) \/ RunHandler(r) \/ CloseTrace(r)

Surroundings ==
  \/ /\ focus = "limits"
     /\ Environment \/ \E r \in Requests : Disconnect(r)
     /\ UNCHANGED <<traceVars, phase>>
  \/ /\ focus = "captures"
     /\ ControlPlane \/ Hydration \/ Panel \/ Passing
     /\ UNCHANGED <<admissionVars, phase>>

Next ==
  /\ Surroundings \/ \E r \in Requests : HandleRequest(r)
  /\ UNCHANGED focus

Spec == Init /\ [][Next]_edgeVars

-----------------------------------------------------------------------------

\* A capture ends with the request it recorded: once the request is answered
\* its session shows an outcome, whatever the cancel action, another arm or a
\* full quota did meanwhile, or the database refused that very write: then the
\* session stays as it was, CAPTURING for good if nobody had cancelled it.
CaptureEndsWithRequest ==
  \A r \in Requests, s \in Sessions :
    captured[s] = r /\ at[r] = "done" => session[s] \in Terminal \cup
      (IF s \in unwritten THEN {"CAPTURING"} ELSE {})

\* State keeps its types, and panel, map and sessions agree on a capture (lib/coreTrace.ts,
\* core-inspector/actions.ts): it records one request, is over once that request
\* is answered unless the write of its outcome failed, and the panel shows it as
\* over only when it is.
CapturesAreSound == TypeOK /\ OneShot /\ CaptureEndsWithRequest /\ PanelEndIsReal
=============================================================================

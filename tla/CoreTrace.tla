----------------------------- MODULE CoreTrace ------------------------------
(***************************************************************************)
(* The Core Inspector of one customer: trace sessions in the database, the  *)
(* gateway's map of armed sessions (lib/coreTrace.ts), the control plane's   *)
(* arm and cancel actions, and the inspector panel that polls the session it *)
(* shows.  Requests claim a session; the recorder writes its outcome.        *)
(***************************************************************************)
EXTENDS Integers, FiniteSets

CONSTANTS
  Callers,      \* requests that may claim a trace
  MaxSessions,  \* bound: sessions created
  MaxPolls      \* bound: refreshes of the panel under way at once

ASSUME TraceBounds == MaxSessions \in Nat \ {0} /\ MaxPolls \in Nat

Sessions == 1 .. MaxSessions
None == 0
Terminal == {"COMPLETED", "FAILED", "CANCELLED", "EXPIRED"}
Statuses == {"ARMED", "CAPTURING"} \cup Terminal
View == [id : Sessions \cup {None}, status : Statuses \cup {"OFF"}]

VARIABLES
  session,     \* status of each CoreTraceSession row, "none" before it exists
  expired,     \* sessions whose expiresAt has passed
  armed,       \* armedByCustomer entry
  hydrating,   \* what the starting gateway has read, {} once hydrated
  starting,    \* hydrateArmedCoreTraces has not finished
  claim,       \* the trace id a request is claiming
  recorder,    \* the session a request's recorder writes to
  captured,    \* the request a session has recorded (requestId)
  unwritten,   \* sessions whose outcome the database did not take
  arming,      \* the arm action: "idle", "create", "post", or "undo"
  cancelling,  \* the session the cancel action works on, and how far it is
  panel,       \* trace shown by the inspector
  polls        \* refreshes on their way: a question ("OFF") or its answer

traceVars == <<session, expired, armed, hydrating, starting, claim,
               recorder, captured, unwritten, arming, cancelling, panel, polls>>

TraceTypeOK ==
  /\ session \in [Sessions -> Statuses \cup {"none"}]
  /\ expired \subseteq Sessions
  /\ armed \in Sessions \cup {None}
  /\ hydrating \subseteq Sessions /\ starting \in BOOLEAN
  /\ claim \in [Callers -> Sessions \cup {None}]
  /\ recorder \in [Callers -> Sessions \cup {None}]
  /\ captured \in [Sessions -> Callers \cup {None}]
  /\ unwritten \subseteq Sessions
  /\ arming \in {"idle", "create", "post", "undo"}
  /\ cancelling \in [id : Sessions \cup {None}, step : {"idle", "disarm", "update"}]
  /\ panel \in View
  /\ polls \subseteq View

NoCancel == [id |-> None, step |-> "idle"]

\* The gateway has just started: its map is empty, it listens before it has
\* hydrated, and the database may hold a session armed before the restart.
TraceInit ==
  /\ \E was \in {"none", "ARMED"} :
       /\ session = [s \in Sessions |-> IF s = 1 THEN was ELSE "none"]
       /\ panel = [id |-> IF was = "ARMED" THEN 1 ELSE None,
                   status |-> IF was = "ARMED" THEN "ARMED" ELSE "OFF"]
  /\ expired = {} /\ armed = None
  /\ hydrating = {} /\ starting = TRUE
  /\ claim = [r \in Callers |-> None]
  /\ recorder = [r \in Callers |-> None]
  /\ captured = [s \in Sessions |-> None] /\ unwritten = {}
  /\ arming = "idle" /\ cancelling = NoCancel
  /\ polls = {}

Created == {s \in Sessions : session[s] # "none"}
Newest == Cardinality(Created)
Live(s) == session[s] = "ARMED" /\ s \notin expired

-----------------------------------------------------------------------------
(* Arming and cancelling: server actions of the control plane. *)

\* The panel offers "Capture next call" unless it shows ARMED or CAPTURING.
\* Every session of the customer still ARMED is cancelled first.
ArmCancelsOthers ==
  /\ arming = "idle" /\ panel.status \notin {"ARMED", "CAPTURING"}
  /\ Newest < MaxSessions
  /\ arming' = "create"
  /\ session' = [s \in Sessions |-> IF session[s] = "ARMED" THEN "CANCELLED" ELSE session[s]]
  /\ UNCHANGED <<expired, armed, hydrating, starting, claim, recorder,
                 captured, unwritten, cancelling, panel, polls>>

ArmCreates ==
  /\ arming = "create" /\ arming' = "post"
  /\ session' = [session EXCEPT ![Newest + 1] = "ARMED"]
  /\ UNCHANGED <<expired, armed, hydrating, starting, claim, recorder,
                 captured, unwritten, cancelling, panel, polls>>

\* The gateway arms the session if it is still live, and the panel shows it; on
\* any failure of the call the action cancels the session and shows an error.
ArmPosts ==
  /\ arming = "post"
  /\ \/ /\ Live(Newest)
        /\ arming' = "idle"
        /\ armed' = Newest
        /\ panel' = [id |-> Newest, status |-> "ARMED"]
     \/ arming' = "undo" /\ armed' \in {armed} \cup {s \in {Newest} : Live(s)} /\ UNCHANGED panel
  /\ UNCHANGED <<session, expired, hydrating, starting, claim,
                 recorder, captured, unwritten, cancelling, polls>>

ArmUndone ==
  /\ arming = "undo" /\ arming' = "idle"
  /\ session' = [session EXCEPT ![Newest] = "CANCELLED"]
  /\ UNCHANGED <<expired, armed, hydrating, starting, claim, recorder,
                 captured, unwritten, cancelling, panel, polls>>

\* "Deactivate" is offered while the panel shows ARMED; the action looks the
\* session up among the armed ones.
CancelFinds ==
  /\ cancelling = NoCancel /\ panel.status = "ARMED"
  /\ session[panel.id] = "ARMED"
  /\ cancelling' = [id |-> panel.id, step |-> "disarm"]
  /\ UNCHANGED <<session, expired, armed, hydrating, starting, claim,
                 recorder, captured, unwritten, arming, panel, polls>>

DisarmCoreTrace(s) == armed' = IF armed = s THEN None ELSE armed

\* The DELETE to the gateway; its failure is ignored.
CancelDisarms ==
  /\ cancelling.step = "disarm"
  /\ cancelling' = [cancelling EXCEPT !.step = "update"]
  /\ DisarmCoreTrace(cancelling.id) \/ UNCHANGED armed
  /\ UNCHANGED <<session, expired, hydrating, starting, claim,
                 recorder, captured, unwritten, arming, panel, polls>>

\* Mutant: a session claimed in between is left alone, and the panel not told.
CancelUpdatesArmed ==
  /\ cancelling.step = "update"
  /\ session' = [session EXCEPT ![cancelling.id] = IF @ = "ARMED" THEN "CANCELLED" ELSE @]
  /\ panel' = [id |-> cancelling.id, status |-> "CANCELLED"]
  /\ cancelling' = NoCancel
  /\ UNCHANGED <<expired, armed, hydrating, starting, claim, recorder,
                 captured, unwritten, arming, polls>>

\* The update is not conditional on the status it found.
CancelUpdates ==
  /\ cancelling.step = "update"
  /\ session' = [session EXCEPT ![cancelling.id] = "CANCELLED"]
  /\ panel' = [id |-> cancelling.id, status |-> "CANCELLED"]
  /\ cancelling' = NoCancel
  /\ UNCHANGED <<expired, armed, hydrating, starting, claim, recorder,
                 captured, unwritten, arming, polls>>

\* Ten minutes pass before the session is claimed or cancelled; later its
\* expiresAt is not looked at.
SessionExpires(s) ==
  /\ session[s] = "ARMED" /\ s \notin expired
  /\ expired' = expired \cup {s}
  /\ UNCHANGED <<session, armed, hydrating, starting, claim, recorder,
                 captured, unwritten, arming, cancelling, panel, polls>>

-----------------------------------------------------------------------------
(* Claiming and recording, in the gateway. *)

\* The id comes from the request's metadata, if it names one, or from the map.
ClaimLooksUp(r) ==
  /\ claim' \in {[claim EXCEPT ![r] = s] : s \in {armed} \cup Created}
  /\ UNCHANGED <<session, expired, armed, hydrating, starting,
                 recorder, captured, unwritten, arming, cancelling, panel, polls>>

\* The conditional updateMany; a failed one counts as no claim.
ClaimCoreTrace(r) ==
  LET s == claim[r] IN
  /\ s # None
  /\ \/ /\ Live(s)
        /\ session' = [session EXCEPT ![s] = "CAPTURING"]
        /\ captured' = [captured EXCEPT ![s] = r]
        /\ recorder' = [recorder EXCEPT ![r] = s]
     \/ UNCHANGED <<session, captured, recorder>>
  /\ DisarmCoreTrace(s)
  /\ claim' = [claim EXCEPT ![r] = None]
  /\ UNCHANGED <<expired, hydrating, starting, unwritten, arming, cancelling,
                 panel, polls>>

\* complete or fail: the first of them closes the recorder and writes the
\* outcome, whatever the row's status is now; a failed write is only logged.
RecorderCloses(r) ==
  LET s == recorder[r] IN
  /\ recorder' = [recorder EXCEPT ![r] = None]
  /\ \/ s = None /\ UNCHANGED <<session, unwritten>>
     \/ /\ s # None
        /\ \E o \in {"COMPLETED", "FAILED"} : session' = [session EXCEPT ![s] = o]
        /\ UNCHANGED unwritten
     \/ /\ s # None
        /\ unwritten' = unwritten \cup {s}
        /\ UNCHANGED session
  /\ UNCHANGED <<expired, armed, hydrating, starting, claim, captured,
                 arming, cancelling, panel, polls>>

\* Overdue sessions are marked, the live ones read ...
HydrateReads ==
  /\ starting /\ hydrating = {}
  /\ session' = [s \in Sessions |-> IF session[s] = "ARMED" /\ s \in expired
                                    THEN "EXPIRED" ELSE session[s]]
  /\ hydrating' = {s \in Sessions : Live(s)}
  /\ starting' = (hydrating' # {})
  /\ armed' = IF hydrating' = {} THEN None ELSE armed
  /\ UNCHANGED <<expired, claim, recorder, captured, unwritten, arming,
                 cancelling, panel, polls>>

\* ... and the map is replaced by the oldest of them.
HydrateApplies ==
  /\ hydrating # {}
  /\ armed' = CHOOSE s \in hydrating : \A t \in hydrating : s <= t
  /\ hydrating' = {} /\ starting' = FALSE
  /\ UNCHANGED <<session, expired, claim, recorder, captured, unwritten, arming,
                 cancelling, panel, polls>>

-----------------------------------------------------------------------------
(* The panel. *)

\* The status the API reports: an overdue ARMED session reads as EXPIRED.
EffectiveStatus(s) == IF session[s] = "ARMED" /\ s \in expired THEN "EXPIRED" ELSE session[s]

\* Every 700 ms while the trace shown is not terminal, whether or not the
\* previous refresh has been answered.
PanelPolls ==
  /\ panel.id # None /\ panel.status \notin Terminal
  /\ Cardinality(polls) < MaxPolls
  /\ polls' = polls \cup {[id |-> panel.id, status |-> "OFF"]}
  /\ UNCHANGED <<session, expired, armed, hydrating, starting, claim,
                 recorder, captured, unwritten, arming, cancelling, panel>>

\* GET /api/core-inspector/[id].
ApiAnswers(q) ==
  /\ q \in polls /\ q.status = "OFF"
  /\ polls' = (polls \ {q}) \cup {[q EXCEPT !.status = EffectiveStatus(q.id)]}
  /\ UNCHANGED <<session, expired, armed, hydrating, starting, claim,
                 recorder, captured, unwritten, arming, cancelling, panel>>

\* Answers arrive in any order; each replaces what is shown.
PanelRefreshes(v) ==
  /\ v \in polls /\ v.status # "OFF"
  /\ polls' = polls \ {v}
  /\ panel' = v
  /\ UNCHANGED <<session, expired, armed, hydrating, starting, claim,
                 recorder, captured, unwritten, arming, cancelling>>

ControlPlane == ArmCancelsOthers \/ ArmCreates \/ ArmPosts \/ ArmUndone
                \/ CancelFinds \/ CancelDisarms \/ CancelUpdates
Hydration == HydrateReads \/ HydrateApplies
Panel == PanelPolls \/ \E v \in polls : ApiAnswers(v) \/ PanelRefreshes(v)
Passing == \E s \in Sessions : SessionExpires(s)

-----------------------------------------------------------------------------

\* A capture is one-shot: a session records one request and no other, however
\* many requests carry or find its id at once, and a request has one recorder.
OneShot ==
  /\ \A s \in Sessions : captured[s] = None
       => session[s] # "CAPTURING" /\ \A r \in Callers : recorder[r] # s
  /\ \A r \in Callers : recorder[r] # None => captured[recorder[r]] = r

\* When the panel shows that a capture is over it is over, although answers
\* may be late, of an earlier capture, or from before a claim that the cancel
\* action did not see.
PanelEndIsReal ==
  panel.status \in Terminal => EffectiveStatus(panel.id) \in Terminal
=============================================================================

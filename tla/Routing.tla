------------------------------- MODULE Routing -------------------------------
(***************************************************************************)
(* Which model answers a request: resolveModelForRequest                   *)
(* (lib/policyRouter.ts) and evaluateRoutingPolicy                         *)
(* (packages/platform/src/policy.ts).  The catalogue, the policy bound to  *)
(* the key and the platform default are three reads; an administrator may  *)
(* change each of them in between.                                         *)
(***************************************************************************)
EXTENDS Integers, FiniteSets, Sequences

CONSTANTS Models,    \* model slugs; their order is localeCompare's
          Catalogue, \* [cost, quality, latency] of each model
          MaxEdits,  \* bound: an administrator's changes during a request
          Policies   \* routing policy documents, [maxCost, minQuality, maxLatency,
                     \* preferred, fallback]; each limit may be NoLimit
ASSUME RoutingAssumption ==
  /\ Models \subseteq Nat \ {0} /\ IsFiniteSet(Models) /\ MaxEdits \in Nat
  /\ \A m \in Models : Catalogue[m] \in [cost: Nat, quality: Nat, latency: Nat]

VARIABLES
  entitled,   \* allowedModelIds of the key, read at authentication
  registered, \* models in the registry
  policy,     \* document of the policy in force
  default,    \* the platform default, or AutoModel
  route,      \* the request's routing
  edits       \* an administrator's changes so far
routeVars == <<entitled, registered, policy, default, route, edits>>

AutoModel == 0   \* "auto", and no platform default
NoLimit == -1  \* a limit the document leaves undefined
Unlimited == [maxCost |-> NoLimit, minQuality |-> NoLimit, maxLatency |-> NoLimit,
              preferred |-> <<>>, fallback |-> <<>>]
NoRequest == [pc |-> "none", asked |-> AutoModel, models |-> {}, document |-> Unlimited, to |-> AutoModel]

RoutingTypeOK ==
  /\ entitled \subseteq Models /\ registered \subseteq Models
  /\ default \in registered \union {AutoModel} /\ policy \in Policies \union {Unlimited}
  /\ route.pc \in {"none", "idle", "policy", "default", "routed", "refused"}
  /\ route.models \subseteq Models /\ route.to \in Models \union {AutoModel}

RoutingInit ==
  /\ entitled = {} /\ registered = Models /\ policy = Unlimited /\ default = AutoModel
  /\ route = NoRequest /\ edits = 0

\* What the request meets: its key's models, which may be none, a policy and a
\* default.
RequestArrives ==
  /\ route.pc = "none" /\ route' = [route EXCEPT !.pc = "idle"]
  /\ entitled' \in SUBSET Models
  /\ policy' \in Policies \union {Unlimited} /\ default' \in Models \union {AutoModel}
  /\ UNCHANGED <<registered, edits>>

\* Candidates: the entitled models and the one asked for.
ReadModels ==
  /\ route.pc = "idle"
  /\ \E asked \in Models \union {AutoModel} :
       LET found == registered \intersect (entitled \union {asked})
       IN  route' = [route EXCEPT !.asked = asked, !.models = found,
                                  !.pc = IF found = {} THEN "refused" ELSE "policy"]
  /\ UNCHANGED <<entitled, registered, policy, default, edits>>

\* The binding with the lowest priority number, and its newest version.
ReadPolicy ==
  /\ route.pc = "policy"
  /\ route' = [route EXCEPT !.pc = "default", !.document = policy]
  /\ UNCHANGED <<entitled, registered, policy, default, edits>>

Within(m, d) == /\ d.maxCost = NoLimit \/ Catalogue[m].cost <= d.maxCost
                /\ d.minQuality = NoLimit \/ Catalogue[m].quality >= d.minQuality
                /\ d.maxLatency = NoLimit \/ Catalogue[m].latency <= d.maxLatency
Eligible(ms, d) == {m \in ms : Within(m, d)}

\* firstListedCandidate, as a set of at most one model.
FirstListed(slugs, from) ==
  LET at == {i \in DOMAIN slugs : slugs[i] \in from}
  IN  {slugs[i] : i \in {j \in at : \A k \in at : j <= k}}

\* The comparator of the last resort: cost, quality, latency, then name.
SortsBefore(m, n) ==
  LET a == Catalogue[m]
      b == Catalogue[n]
  IN  \/ a.cost < b.cost
      \/ a.cost = b.cost /\ a.quality > b.quality
      \/ a.cost = b.cost /\ a.quality = b.quality /\ a.latency < b.latency
      \/ a.cost = b.cost /\ a.quality = b.quality /\ a.latency = b.latency /\ m <= n

Best(from) == {m \in from : \A n \in from : SortsBefore(m, n)}

\* The first non-empty of the choices the policy makes in turn.
FirstChoice(choices) ==
  LET some == {i \in DOMAIN choices : choices[i] # {}}
  IN  CHOOSE m \in choices[CHOOSE i \in some : \A j \in some : i <= j] : TRUE

\* Mutant: the default is taken without looking whether the policy allows it.
EvaluateTrustsDefault(asked, ms, d, def) ==
  LET fit == Eligible(ms, d)
  IN  IF fit = {} THEN AutoModel
      ELSE FirstChoice(<< IF asked = AutoModel THEN {def} \ {AutoModel} ELSE {asked} \intersect fit,
                          FirstListed(d.preferred, fit), FirstListed(d.fallback, fit),
                          Best(fit) >>)

\* evaluateRoutingPolicy: AutoModel stands for the errors it throws.
EvaluateRoutingPolicy(asked, ms, d, def) ==
  LET fit == Eligible(ms, d)
  IN  IF fit = {} \/ (asked = AutoModel /\ def # AutoModel /\ def \notin fit) THEN AutoModel
      ELSE FirstChoice(<< IF asked = AutoModel THEN {def} \ {AutoModel} ELSE {asked} \intersect fit,
                          FirstListed(d.preferred, fit), FirstListed(d.fallback, fit),
                          Best(fit) >>)

\* What was asked for and what was chosen must both be the key's.
Admits(to) == route.asked \in entitled \union {AutoModel} /\ to \in entitled

Route ==
  /\ route.pc = "default"
  /\ LET to == EvaluateRoutingPolicy(route.asked, route.models, route.document, default)
     IN  route' = IF to # AutoModel /\ Admits(to) THEN [route EXCEPT !.pc = "routed", !.to = to]
                  ELSE [route EXCEPT !.pc = "refused"]
  /\ UNCHANGED <<entitled, registered, policy, default, edits>>

\* resolveVoiceAnalysisModel: no policy, and no model but the default for "auto".
ResolveVoiceAnalysisModel ==
  /\ route.pc = "idle"
  /\ \E asked \in Models \union {AutoModel} :
       LET to == IF asked = AutoModel THEN default ELSE asked
       IN  route' = IF to \in entitled
                    THEN [route EXCEPT !.pc = "routed", !.asked = asked, !.to = to]
                    ELSE [route EXCEPT !.pc = "refused", !.asked = asked]
  /\ UNCHANGED <<entitled, registered, policy, default, edits>>

\* An administrator between the reads.
Between == /\ route.pc \in {"idle", "policy", "default"}
           /\ edits < MaxEdits /\ edits' = edits + 1

PublishPolicy ==
  /\ Between /\ policy' \in Policies
  /\ UNCHANGED <<entitled, registered, default, route>>

SetDefault ==
  /\ Between /\ default' \in registered
  /\ UNCHANGED <<entitled, registered, policy, route>>

RemoveModel ==
  /\ Between
  /\ \E m \in registered : /\ registered' = registered \ {m}
                           /\ default' = IF default = m THEN AutoModel ELSE default
  /\ UNCHANGED <<entitled, policy, route>>

RoutingNext ==
  RequestArrives \/ ReadModels \/ ReadPolicy \/ Route \/ ResolveVoiceAnalysisModel
  \/ PublishPolicy \/ SetDefault \/ RemoveModel

-----------------------------------------------------------------------------
\* policyRouter.ts:102-111: however registry, policy and default move between the
\* reads, the model that answers is one the key is entitled to.
RoutedIsEntitled == route.pc = "routed" => route.to \in entitled

\* policy.ts:55-103: the model that answers is within the limits of the policy
\* version recorded with the request, also when the default moved after it was read.
RoutedIsWithinPolicy == route.pc = "routed" => Within(route.to, route.document)

\* policy.ts:116-125: a model nobody named is chosen only when no other eligible
\* one is cheaper, or as cheap and better.
UnnamedIsCheapest ==
  route.pc = "routed" =>
    LET d == route.document
    IN  \/ route.to = route.asked \/ route.to = default
        \/ \E i \in DOMAIN d.preferred : d.preferred[i] = route.to
        \/ \E i \in DOMAIN d.fallback : d.fallback[i] = route.to
        \/ \A m \in Eligible(route.models, d) :
             \/ Catalogue[m].cost > Catalogue[route.to].cost
             \/ /\ Catalogue[m].cost = Catalogue[route.to].cost
                /\ Catalogue[m].quality <= Catalogue[route.to].quality

\* The choice is one the key, the recorded policy and the ranking allow although
\* registry, policy and default change between the reads (policyRouter.ts,
\* policy.ts).
RoutedAsAllowed == RoutedIsEntitled /\ RoutedIsWithinPolicy /\ UnnamedIsCheapest
=============================================================================

---------------------------- MODULE PlatformProofs ----------------------------
(***************************************************************************)
(* Theorems about the platform features: routing for every catalogue and    *)
(* set of policies, knowledge bases for every number of customers, bases    *)
(* and documents, passages of texts of any length, jobs started any number  *)
(* of times, and any number of receipts.  The features share no state, so   *)
(* each has an invariant of its own.                                        *)
(***************************************************************************)
EXTENDS Platform, FiniteSums, SequenceTheorems

-----------------------------------------------------------------------------
(* Invariants.                                                              *)

\* Nothing is edited before a request arrives; the document it reads is recorded.
RouteState == [pc : {"none", "idle", "policy", "default", "routed", "refused"},
               asked : Models \cup {AutoModel}, models : SUBSET Models,
               document : Policies \cup {Unlimited}, to : Models \cup {AutoModel}]

RouteInv ==
  /\ RoutingTypeOK /\ route \in RouteState
  /\ route.pc = "none" => registered = Models
  /\ route.pc \in {"none", "idle"} => route.document = Unlimited
  /\ RoutedAsAllowed

\* An ingest writes rows in order, and a document keeps its base.
DocState == [status : {"none", "RUNNING", "SUCCEEDED"}, base : Bases \cup {NoBase}]

IngestInv(d) ==
  /\ ingest[d] \in {"idle", "create"} => doc[d].status = "none" /\ d \notin version
  /\ ingest[d] # "idle" => doc[d].base \in Bases
  /\ ingest[d] = "finish" /\ Exists(d) => d \in version /\ chunks[d] = NChunks

\* A request reads the bases of its own customer, and passages that were ingested.
Passage == Docs \X (1 .. NChunks)
AskState == [pc : {"idle", "bases", "chunks", "answer", "refused", "done"},
             who : Customers \cup {NoBase}, wanted : SUBSET Bases,
             mode : {"passages", "catalog"}, hits : Seq(Passage), bare : SUBSET Bases,
             tokens : Int, prompt : Int]

AskInv ==
  /\ ask \in AskState
  /\ ask.pc \in {"chunks", "answer", "done"} => \A b \in ask.wanted : Owner[b] = ask.who
  /\ ask.pc \in {"idle", "bases", "chunks", "refused"} => ask.hits = <<>> /\ ask.bare = {}
  /\ \A i \in DOMAIN ask.hits : ingest[ask.hits[i][1]] # "idle"

KnowInv ==
  /\ KnowledgeTypeOK /\ doc \in [Docs -> DocState]
  /\ \A d \in Docs : IngestInv(d)
  /\ AskInv
  /\ RetrievalIsSound

\* Blocks are texts; every word before the place of the cut is in a passage.
BlockState == [title : BOOLEAN, text : Seq(BOOLEAN)]
Covered(b, i) == \E p \in passages : p[1] = b /\ p[2] <= i /\ i <= p[3]
Behind(b, i) == b < block \/ (b = block /\ i <= start)

ChunkInv ==
  /\ ChunkingTypeOK
  /\ blocks \in Seq(BlockState) /\ start \in Nat /\ passages \subseteq Nat \X Nat \X Nat
  /\ chunking = "idle" => passages = {} /\ block = 0
  /\ chunking # "idle" => block >= 1 /\ limit >= 1 /\ overlap < limit
  /\ chunking = "done" => block > Len(blocks)
  /\ \A b \in DOMAIN blocks : ~blocks[b].title =>
       \A i \in DOMAIN blocks[b].text :
         ~blocks[b].text[i] /\ Behind(b, i) => Covered(b, i)
  /\ PassageFits

\* The rollup's place: the customers left, and what the credit rests on.
Outcomes == {"none", "RUNNING", "SUCCEEDED", "FAILED"}
CallState == [window : Nat, status : Outcomes, latency : Nat]
RollupState == [pc : {"idle", "window", "find", "create"}, seen : SUBSET (Calls \X Outcomes \X Nat),
                todo : Seq(Tenants \cup {Platform}), window : 0 .. Windows]
Verdicts == {"none", "HEALTHY", "AT_RISK", "BREACHED"}

RollupInv ==
  /\ rollup.pc # "idle" => rollup.todo # <<>> /\ rollup.window # 0
  /\ rollup.pc \in {"find", "create"} =>
       /\ Head(rollup.todo) \in Tenants
       /\ row[Head(rollup.todo)][rollup.window] = "BREACHED"
  /\ rollup.pc = "create" => credit[Head(rollup.todo)][rollup.window] = 0

SloInv ==
  /\ window \in 1 .. Windows /\ call \in [Calls -> CallState] /\ rollup \in RollupState
  /\ row \in [Tenants -> [1 .. Windows -> Verdicts]]
  /\ overall \in [1 .. Windows -> Nat] /\ credit \in [Tenants -> [1 .. Windows -> Nat]]
  /\ RollupInv
  /\ OneCreditPerWindow /\ OnePlatformRow

\* The run being made has one result per case so far.
EvalState == [pc : {"idle", "case"}, next : Nat, passed : Nat]
RunState == [status : {"RUNNING", "SUCCEEDED"}, results : Nat, passed : Nat]

EvalInv ==
  /\ eval \in EvalState /\ runs \in Seq(RunState)
  /\ eval.pc = "case" =>
       /\ runs # <<>> /\ eval.next \in 1 .. Cases + 1
       /\ runs[Len(runs)].status = "RUNNING" /\ runs[Len(runs)].results = eval.next - 1
       /\ eval.passed <= eval.next - 1
  /\ EvalIsComplete

\* What a graph request has done at each stage.
GraphInv ==
  /\ graph \in {"idle", "run", "stats", "record", "meter", "reply", "answered", "failed"}
  /\ graph \in {"record", "meter", "reply", "answered"} => cypher # "none"
  /\ graph \in {"reply", "answered"} => Cardinality(metered) = 1

JobsInv == SloInv /\ EvalInv /\ GraphInv /\ starts \in 0 .. MaxRuns

\* A job knows a receipt that is stored, and one about to link its own has
\* stored it.
JobState == [pc : {"idle", "previous", "sign", "store", "link", "end"}, previous : Nat,
             issued : Nat]
ReceiptState == [request : Paid, previous : Nat, issued : Nat, keys : {PayloadKeys},
                 signature : {CanonicalStringify(PayloadKeys)}]

ReceiptInv ==
  /\ ReceiptsTypeOK /\ job \in [Deliveries -> JobState] /\ receipts \in Seq(ReceiptState)
  /\ \A x \in Deliveries : job[x].pc = "link" => Has(x[1])
  /\ OneReceipt /\ LinkedHasReceipt /\ ChainLeadsBack
-----------------------------------------------------------------------------
(* Routing.                                                                 *)

\* The comparator of the last resort is a total order on the models.
LEMMA SortsBeforeOrder ==
  /\ \A m, n \in Models : SortsBefore(m, n) \/ SortsBefore(n, m)
  /\ \A m, n, o \in Models : SortsBefore(m, n) /\ SortsBefore(n, o) => SortsBefore(m, o)
<1>1. \A m \in Models : /\ m \in Nat /\ Catalogue[m].cost \in Nat
                        /\ Catalogue[m].quality \in Nat /\ Catalogue[m].latency \in Nat
  BY RoutingAssumption
<1>2. \A m, n \in Models : SortsBefore(m, n) \/ SortsBefore(n, m)
  BY <1>1 DEF SortsBefore
<1>3. \A m, n, o \in Models : SortsBefore(m, n) /\ SortsBefore(n, o) => SortsBefore(m, o)
  BY <1>1 DEF SortsBefore
<1> QED
  BY <1>2, <1>3

\* So some model is the best of any that are eligible.
LEMMA BestExists ==
  ASSUME NEW from \in SUBSET Models, from # {}
  PROVE  Best(from) # {}
<1> DEFINE P == {S \in SUBSET Models : S # {} => Best(S) # {}}
<1>1. {} \in P
  OBVIOUS
<1>2. ASSUME NEW S \in SUBSET Models, NEW x \in Models, S \in P, x \notin S
      PROVE  S \cup {x} \in P
  <2>1. CASE S = {}
    <3>1. x \in Best(S \cup {x})
      BY <2>1, SortsBeforeOrder DEF Best
    <3> QED
      BY <3>1
  <2>2. CASE S # {}
    <3>1. PICK b \in S : \A n \in S : SortsBefore(b, n)
      BY <1>2, <2>2 DEF Best
    <3>2. CASE SortsBefore(b, x)
      <4>1. b \in Best(S \cup {x})
        BY <3>1, <3>2 DEF Best
      <4> QED
        BY <4>1
    <3>3. CASE ~SortsBefore(b, x)
      <4>1. SortsBefore(x, b) /\ SortsBefore(x, x)
        BY <3>3, SortsBeforeOrder
      <4>2. \A n \in S : SortsBefore(x, n)
        BY <3>1, <4>1, SortsBeforeOrder
      <4>3. x \in Best(S \cup {x})
        BY <4>1, <4>2 DEF Best
      <4> QED
        BY <4>3
    <3> QED
      BY <3>2, <3>3
  <2> QED
    BY <2>1, <2>2
<1> HIDE DEF P
<1>i. \A S \in SUBSET Models, x \in Models : S \in P /\ x \notin S => S \cup {x} \in P
  BY <1>2
<1>f. IsFiniteSet(Models)
  BY RoutingAssumption
<1>3. \A S \in SUBSET Models : S \in P
  BY <1>1, <1>i, <1>f, SubsetInduction
<1> QED
  BY <1>3 DEF P

\* Of four choices the first that is not empty is taken.
LEMMA FirstChoiceIsOne ==
  ASSUME NEW a, NEW b, NEW c, NEW d, d # {}
  PROVE  LET m == FirstChoice(<<a, b, c, d>>)
         IN  m \in a \/ m \in b \/ m \in c \/ m \in d
<1> DEFINE choices == <<a, b, c, d>>
           some == {i \in DOMAIN choices : choices[i] # {}}
<1>1. some \subseteq 1 .. 4 /\ 4 \in some
  OBVIOUS
<1>2. PICK k \in some : \A j \in some : k <= j
  <2>1. some \subseteq Nat /\ some # {}
    BY <1>1
  <2> HIDE DEF some
  <2> QED
    BY <2>1, LeastNatural
<1> DEFINE at == CHOOSE i \in some : \A j \in some : i <= j
<1>3. at \in some
  BY <1>2
<1>4. FirstChoice(choices) = CHOOSE m \in choices[at] : TRUE
  BY DEF FirstChoice
<1>5. at \in 1 .. 4 /\ choices[at] # {}
  BY <1>1, <1>3
<1>6. FirstChoice(choices) \in choices[at]
  <2> HIDE DEF at, choices
  <2> QED
    BY <1>4, <1>5
<1>7. choices[at] \in {a, b, c, d}
  <2> HIDE DEF at
  <2>1. at \in {1, 2, 3, 4}
    BY <1>5
  <2> QED
    BY <2>1
<1> QED
  BY <1>6, <1>7

\* What evaluateRoutingPolicy returns is eligible, and named or the best.
LEMMA PolicyChoice ==
  ASSUME NEW asked \in Models \cup {AutoModel}, NEW ms \in SUBSET Models, NEW d,
         NEW def \in Models \cup {AutoModel}, NEW to,
         to = EvaluateRoutingPolicy(asked, ms, d, def), to # AutoModel
  PROVE  /\ to \in ms /\ Within(to, d)
         /\ \/ to = asked \/ to = def
            \/ \E i \in DOMAIN d.preferred : d.preferred[i] = to
            \/ \E i \in DOMAIN d.fallback : d.fallback[i] = to
            \/ to \in Best(Eligible(ms, d))
<1> DEFINE fit == Eligible(ms, d)
           named == IF asked = AutoModel THEN {def} \ {AutoModel} ELSE {asked} \intersect fit
<1>0. fit \subseteq Models
  BY DEF Eligible
<1>1. /\ fit # {} /\ ~(asked = AutoModel /\ def # AutoModel /\ def \notin fit)
      /\ to = FirstChoice(<<named, FirstListed(d.preferred, fit), FirstListed(d.fallback, fit),
                            Best(fit)>>)
  BY DEF EvaluateRoutingPolicy
<1>2. named \subseteq fit /\ named \subseteq {asked, def}
  BY <1>1
<1>3. \A slugs : \A m \in FirstListed(slugs, fit) : m \in fit /\ \E i \in DOMAIN slugs : slugs[i] = m
  BY DEF FirstListed
<1>4. Best(fit) # {} /\ Best(fit) \subseteq fit
  <2>1. Best(fit) \subseteq fit
    BY DEF Best
  <2> QED
    BY <1>0, <1>1, <2>1, BestExists
<1> HIDE DEF named
<1>5. \/ to \in named \/ to \in FirstListed(d.preferred, fit)
      \/ to \in FirstListed(d.fallback, fit) \/ to \in Best(fit)
  BY <1>1, <1>4, FirstChoiceIsOne
<1>6. to \in fit
  BY <1>2, <1>3, <1>4, <1>5
<1>7. to \in ms /\ Within(to, d)
  BY <1>6 DEF Eligible
<1> QED
  BY <1>2, <1>3, <1>5, <1>7
\* The steps of routing that decide nothing yet.
LEMMA RoutingReads ==
  ASSUME RouteInv,
         \/ RequestArrives \/ ReadModels \/ ReadPolicy \/ PublishPolicy \/ SetDefault
         \/ RemoveModel
  PROVE  RouteInv'
<1>t. /\ entitled \subseteq Models /\ registered \subseteq Models /\ route \in RouteState
      /\ default \in registered \cup {AutoModel} /\ policy \in Policies \cup {Unlimited}
  BY DEF RouteInv, RoutingTypeOK
<1>0. ASSUME route'.pc # "routed" PROVE RoutedAsAllowed'
  BY <1>0 DEF RoutedAsAllowed, RoutedIsEntitled, RoutedIsWithinPolicy, UnnamedIsCheapest
<1>2. CASE RequestArrives
  <2>1. /\ registered = Models /\ UNCHANGED registered /\ entitled' \subseteq Models
        /\ route.document = Unlimited /\ route' = [route EXCEPT !.pc = "idle"]
        /\ policy' \in Policies \cup {Unlimited} /\ default' \in Models \cup {AutoModel}
    BY <1>2 DEF RequestArrives, RouteInv
  <2>2. route' \in RouteState /\ route'.pc = "idle" /\ route'.document = Unlimited
    BY <1>t, <2>1 DEF RouteState
  <2>3. RoutedAsAllowed'
    BY <1>0, <2>2
  <2> QED
    BY <2>1, <2>2, <2>3 DEF RouteInv, RoutingTypeOK, RouteState
<1>3. CASE ReadModels
  <2>1. PICK asked \in Models \cup {AutoModel}, to \in {"refused", "policy"},
             found \in SUBSET Models :
          route' = [route EXCEPT !.asked = asked, !.models = found, !.pc = to]
    BY <1>t, <1>3 DEF ReadModels
  <2>2. route' \in RouteState /\ route'.pc = to
    BY <1>t, <2>1 DEF RouteState
  <2>3. UNCHANGED <<entitled, registered, policy, default>>
    BY <1>3 DEF ReadModels
  <2>4. RoutedAsAllowed'
    BY <1>0, <2>2
  <2> QED
    BY <1>t, <2>2, <2>3, <2>4 DEF RouteInv, RoutingTypeOK, RouteState
<1>4. CASE ReadPolicy
  <2>1. /\ route' = [route EXCEPT !.pc = "default", !.document = policy] /\ route.pc = "policy"
        /\ UNCHANGED <<entitled, registered, policy, default>>
    BY <1>4 DEF ReadPolicy
  <2>2. route' \in RouteState /\ route'.pc = "default"
    BY <1>t, <2>1 DEF RouteState
  <2>3. RoutedAsAllowed'
    BY <1>0, <2>1, <2>2 DEF RouteInv
  <2> QED
    BY <1>t, <2>1, <2>2, <2>3 DEF RouteInv, RoutingTypeOK, RouteState
<1>5. CASE PublishPolicy \/ SetDefault \/ RemoveModel
  <2>1. /\ UNCHANGED <<route, entitled>> /\ route.pc \in {"idle", "policy", "default"}
        /\ registered' \subseteq Models /\ default' \in registered' \cup {AutoModel}
        /\ policy' \in Policies \cup {Unlimited}
    BY <1>t, <1>5 DEF PublishPolicy, SetDefault, RemoveModel, Between
  <2>2. route' \in RouteState /\ RoutedAsAllowed'
    BY <1>t, <1>0, <2>1
  <2> QED
    BY <1>t, <2>1, <2>2 DEF RouteInv, RoutingTypeOK, RouteState
<1> QED
  BY <1>2, <1>3, <1>4, <1>5

\* The decision of a chat request: the policy's choice if the key admits it.
LEMMA RouteStep == ASSUME RouteInv, Route PROVE RouteInv'
<1>t. /\ entitled \subseteq Models /\ registered \subseteq Models /\ route \in RouteState
      /\ default \in registered \cup {AutoModel} /\ policy \in Policies \cup {Unlimited}
  BY DEF RouteInv, RoutingTypeOK
<1> DEFINE to == EvaluateRoutingPolicy(route.asked, route.models, route.document, default)
<1>1. /\ route.pc = "default" /\ UNCHANGED <<entitled, registered, policy, default>>
      /\ route' = IF to # AutoModel /\ Admits(to) THEN [route EXCEPT !.pc = "routed", !.to = to]
                  ELSE [route EXCEPT !.pc = "refused"]
  BY DEF Route
<1>3. to # AutoModel =>
        /\ to \in route.models /\ Within(to, route.document)
        /\ \/ to = route.asked \/ to = default
           \/ \E i \in DOMAIN route.document.preferred : route.document.preferred[i] = to
           \/ \E i \in DOMAIN route.document.fallback : route.document.fallback[i] = to
           \/ to \in Best(Eligible(route.models, route.document))
  <2>1. /\ route.asked \in Models \cup {AutoModel} /\ route.models \in SUBSET Models
        /\ default \in Models \cup {AutoModel}
    BY <1>t DEF RouteState
  <2> QED
    BY <2>1, PolicyChoice
<1> HIDE DEF to
<1>4. CASE to # AutoModel /\ Admits(to)
  <2>1. to \in entitled /\ to \in Models
    BY <1>t, <1>4 DEF Admits
  <2>2. /\ route' \in RouteState /\ route'.pc = "routed" /\ route'.to = to
        /\ route'.asked = route.asked /\ route'.models = route.models
        /\ route'.document = route.document
    BY <1>t, <1>1, <1>4, <2>1 DEF RouteState
  <2>3. RoutedIsEntitled' /\ RoutedIsWithinPolicy'
    BY <1>1, <1>3, <1>4, <2>1, <2>2 DEF RoutedIsEntitled, RoutedIsWithinPolicy, Within
  <2>4. to \in Best(Eligible(route.models, route.document)) =>
          \A m \in Eligible(route.models, route.document) :
            \/ Catalogue[m].cost > Catalogue[to].cost
            \/ /\ Catalogue[m].cost = Catalogue[to].cost
               /\ Catalogue[m].quality <= Catalogue[to].quality
    <3> SUFFICES ASSUME to \in Best(Eligible(route.models, route.document)),
                        NEW m \in Eligible(route.models, route.document)
                 PROVE  \/ Catalogue[m].cost > Catalogue[to].cost
                        \/ /\ Catalogue[m].cost = Catalogue[to].cost
                           /\ Catalogue[m].quality <= Catalogue[to].quality
      OBVIOUS
    <3>1. m \in Models
      BY <1>t DEF Eligible, RouteState
    <3>2. SortsBefore(to, m)
      BY DEF Best
    <3>3. \A n \in {m, to} : Catalogue[n].cost \in Nat /\ Catalogue[n].quality \in Nat
      BY <2>1, <3>1, RoutingAssumption
    <3> QED
      BY <3>2, <3>3 DEF SortsBefore
  <2>5. UnnamedIsCheapest'
    BY <1>1, <1>3, <1>4, <2>2, <2>4 DEF UnnamedIsCheapest, Eligible, Within
  <2>6. RoutingTypeOK'
    BY <1>t, <1>1, <2>2 DEF RoutingTypeOK, RouteState
  <2> QED
    BY <1>1, <2>2, <2>3, <2>5, <2>6 DEF RouteInv, RoutedAsAllowed
<1>5. CASE ~(to # AutoModel /\ Admits(to))
  <2>1. route' \in RouteState /\ route'.pc = "refused"
    BY <1>t, <1>1, <1>5 DEF RouteState
  <2>2. RoutedAsAllowed'
    BY <2>1 DEF RoutedAsAllowed, RoutedIsEntitled, RoutedIsWithinPolicy, UnnamedIsCheapest
  <2> QED
    BY <1>t, <1>1, <2>1, <2>2 DEF RouteInv, RoutingTypeOK, RouteState
<1> QED
  BY <1>4, <1>5

\* The decision for the analysis of a voice upload: no policy is read.
LEMMA VoiceRouteStep == ASSUME RouteInv, ResolveVoiceAnalysisModel PROVE RouteInv'
<1>t. /\ entitled \subseteq Models /\ registered \subseteq Models /\ route \in RouteState
      /\ default \in registered \cup {AutoModel} /\ policy \in Policies \cup {Unlimited}
  BY DEF RouteInv, RoutingTypeOK
<1>1. /\ route.pc = "idle" /\ route.document = Unlimited
      /\ UNCHANGED <<entitled, registered, policy, default>>
  BY DEF ResolveVoiceAnalysisModel, RouteInv
<1>2. PICK asked \in Models \cup {AutoModel}, to \in Models \cup {AutoModel} :
        /\ to \in {asked, default}
        /\ route' = IF to \in entitled THEN [route EXCEPT !.pc = "routed", !.asked = asked, !.to = to]
                    ELSE [route EXCEPT !.pc = "refused", !.asked = asked]
  BY <1>t DEF ResolveVoiceAnalysisModel
<1>3. CASE to \in entitled
  <2>1. /\ route' \in RouteState /\ route'.pc = "routed" /\ route'.to = to
        /\ route'.asked = asked /\ route'.document = Unlimited
    BY <1>t, <1>1, <1>2, <1>3 DEF RouteState
  <2>2. Within(to, Unlimited)
    BY DEF Within, Unlimited
  <2>3. RoutedAsAllowed'
    BY <1>1, <1>2, <1>3, <2>1, <2>2
    DEF RoutedAsAllowed, RoutedIsEntitled, RoutedIsWithinPolicy, UnnamedIsCheapest, Within
  <2> QED
    BY <1>t, <1>1, <2>1, <2>3 DEF RouteInv, RoutingTypeOK, RouteState
<1>4. CASE to \notin entitled
  <2>1. route' \in RouteState /\ route'.pc = "refused"
    BY <1>t, <1>2, <1>4 DEF RouteState
  <2>2. RoutedAsAllowed'
    BY <2>1 DEF RoutedAsAllowed, RoutedIsEntitled, RoutedIsWithinPolicy, UnnamedIsCheapest
  <2> QED
    BY <1>t, <1>1, <2>1, <2>2 DEF RouteInv, RoutingTypeOK, RouteState
<1> QED
  BY <1>3, <1>4

\* Routing starts with a policy and no decision.
LEMMA RouteInvInit == RoutingInit => RouteInv
<1> SUFFICES ASSUME RoutingInit PROVE RouteInv
  OBVIOUS
<1>1. NoRequest \in RouteState /\ NoRequest.pc = "none" /\ NoRequest.document = Unlimited
  BY DEF NoRequest, RouteState
<1>2. RoutingTypeOK
  BY <1>1 DEF RoutingInit, RoutingTypeOK, RouteState
<1>3. RoutedAsAllowed
  BY <1>1 DEF RoutingInit, RoutedAsAllowed, RoutedIsEntitled, RoutedIsWithinPolicy,
              UnnamedIsCheapest
<1> QED
  BY <1>1, <1>2, <1>3 DEF RoutingInit, RouteInv
-----------------------------------------------------------------------------
(* The graph routes.                                                        *)

\* A graph query keeps its own invariant and touches no other job.
LEMMA GraphStep ==
  ASSUME GraphInv, GraphNext
  PROVE  GraphInv' /\ UNCHANGED <<sloVars, evalVars, starts>>
<1>0. UNCHANGED <<sloVars, evalVars, starts>>
  BY DEF GraphNext, GraphQuery, GraphStats, RunCypher, Neo4jStoreStats, RecordCall, MeterCall,
         GraphReply, GraphFails, GraphGoes
<1>1. CASE GraphQuery \/ GraphStats \/ GraphFails
  BY <1>1 DEF GraphInv, GraphQuery, GraphStats, GraphFails, GraphGoes
<1>2. CASE RunCypher \/ Neo4jStoreStats
  BY <1>2 DEF GraphInv, RunCypher, Neo4jStoreStats, GraphGoes
<1>3. CASE RecordCall \/ GraphReply
  BY <1>3 DEF GraphInv, RecordCall, GraphReply, GraphGoes
<1>4. CASE MeterCall
  <2>1. PICK u \in Units : metered' = {u}
    BY <1>4 DEF MeterCall
  <2>2. Cardinality(metered') = 1
    BY <2>1, FS_Singleton
  <2> QED
    BY <1>4, <2>2 DEF GraphInv, MeterCall, GraphGoes
<1> QED
  BY <1>0, <1>1, <1>2, <1>3, <1>4 DEF GraphNext

-----------------------------------------------------------------------------
(* Evaluation suites.                                                       *)

\* An evaluation keeps its own invariant and touches no other job.
LEMMA EvalStep ==
  ASSUME EvalInv, EvalNext, starts \in 0 .. MaxRuns
  PROVE  EvalInv' /\ starts' \in 0 .. MaxRuns /\ UNCHANGED <<sloVars, graphVars>>
<1>0. /\ UNCHANGED <<sloVars, graphVars>> /\ eval \in EvalState /\ runs \in Seq(RunState)
      /\ MaxRuns \in Nat /\ Cases \in Nat
  BY JobsAssumption DEF EvalInv, EvalNext, EvalStarts, EvalCase, EvalFinishes, EvalCrashes
<1>l. Len(runs) \in Nat /\ DOMAIN runs = 1 .. Len(runs) /\ \A i \in DOMAIN runs : runs[i] \in RunState
  BY <1>0, LenProperties, ElementOfSeq
<1>n. runs # <<>> => Len(runs) \in 1 .. Len(runs)
  BY <1>0, <1>l, EmptySeq
<1>1. CASE EvalStarts
  <2> DEFINE new == [status |-> "RUNNING", results |-> 0, passed |-> 0]
  <2>1. new \in RunState /\ new.status = "RUNNING" /\ new.results = 0
    BY DEF RunState
  <2>2. /\ runs' = Append(runs, new) /\ eval' = [pc |-> "case", next |-> 1, passed |-> 0]
        /\ starts' \in 0 .. MaxRuns
    BY <1>0, <1>1 DEF EvalStarts
  <2> HIDE DEF new
  <2>3. /\ runs' \in Seq(RunState) /\ runs' # <<>> /\ Len(runs') = Len(runs) + 1
        /\ \A i \in 1 .. Len(runs) : runs'[i] = runs[i]
        /\ runs'[Len(runs) + 1] = new
    BY <1>0, <2>1, <2>2, AppendProperties
  <2>4. DOMAIN runs' = 1 .. Len(runs')
    BY <2>3, LenProperties
  <2>5. EvalIsComplete'
    BY <1>l, <2>1, <2>3, <2>4 DEF EvalInv, EvalIsComplete
  <2>6. eval' \in EvalState
    BY <2>2 DEF EvalState
  <2>7. 1 \in 1 .. Cases + 1 /\ 0 <= 1 - 1 /\ 0 = 1 - 1
    BY <1>0
  <2> QED
    BY <1>0, <1>l, <2>1, <2>2, <2>3, <2>5, <2>6, <2>7 DEF EvalInv
<1>2. CASE EvalCase
  <2>1. PICK ok \in {0, 1} :
          /\ eval' = [eval EXCEPT !.next = @ + 1, !.passed = @ + ok]
          /\ runs' = [runs EXCEPT ![Len(runs)].results = @ + 1]
    BY <1>2 DEF EvalCase
  <2>2. eval.pc = "case" /\ eval.next <= Cases /\ UNCHANGED starts
    BY <1>2 DEF EvalCase
  <2> DEFINE n == Len(runs)
             new == [runs[n] EXCEPT !.results = @ + 1]
  <2>3. /\ runs # <<>> /\ eval.next \in 1 .. Cases + 1 /\ runs[n].status = "RUNNING"
        /\ runs[n].results = eval.next - 1 /\ eval.passed <= eval.next - 1
    BY <2>2 DEF EvalInv
  <2>4. n \in 1 .. Len(runs) /\ runs[n] \in RunState
    BY <1>l, <1>n, <2>3
  <2>5. new \in RunState /\ new.status = "RUNNING" /\ new.results = runs[n].results + 1
    BY <2>3, <2>4 DEF RunState
  <2>6. runs' = [runs EXCEPT ![n] = new]
    BY <2>1
  <2> HIDE DEF new, n
  <2>7. /\ runs' \in Seq(RunState) /\ Len(runs') = Len(runs)
        /\ \A j \in 1 .. Len(runs) : runs'[j] = IF j = n THEN new ELSE runs[j]
    BY <1>0, <2>4, <2>5, <2>6, ExceptSeq
  <2>8. DOMAIN runs' = 1 .. Len(runs')
    BY <2>7, LenProperties
  <2>9. EvalIsComplete'
    BY <1>l, <2>5, <2>7, <2>8 DEF EvalInv, EvalIsComplete
  <2>11. eval.next \in Nat /\ eval.passed \in Nat /\ eval.next + 1 \in Nat /\ eval.passed + ok \in Nat
    BY <1>0, <2>1 DEF EvalState
  <2>10. /\ eval' \in EvalState /\ eval'.pc = "case" /\ eval'.next = eval.next + 1
         /\ eval'.passed = eval.passed + ok
    BY <1>0, <2>1, <2>2, <2>11 DEF EvalState
  <2>12. /\ eval'.next \in 1 .. Cases + 1 /\ eval'.passed <= eval'.next - 1
         /\ runs[n].results + 1 = eval'.next - 1
    <3>1. ok \in {0, 1} /\ ok <= 1
      OBVIOUS
    <3>2. eval'.next \in 1 .. Cases + 1
      BY <1>0, <2>2, <2>10, <2>11
    <3>3. eval'.passed <= eval'.next - 1
      BY <2>3, <2>10, <2>11, <3>1
    <3>4. runs[n].results + 1 = eval'.next - 1
      BY <2>3, <2>10, <2>11
    <3> QED
      BY <3>2, <3>3, <3>4
  <2>13. runs' # <<>> /\ runs'[Len(runs')] = new
    <3>1. Len(runs') \in 1 .. Len(runs') /\ Len(runs') = n
      BY <2>4, <2>7 DEF n
    <3> QED
      BY <2>4, <2>7, <3>1, EmptySeq
  <2> QED
    BY <1>0, <2>2, <2>5, <2>7, <2>9, <2>10, <2>12, <2>13 DEF EvalInv
<1>3. CASE EvalFinishes
  <2>1. /\ eval.pc = "case" /\ eval.next > Cases /\ eval' = NoEval /\ UNCHANGED starts
        /\ runs' = [runs EXCEPT ![Len(runs)].status = "SUCCEEDED",
                                ![Len(runs)].passed = eval.passed]
    BY <1>3 DEF EvalFinishes
  <2> DEFINE n == Len(runs)
             new == [runs[n] EXCEPT !.status = "SUCCEEDED", !.passed = eval.passed]
  <2>2. /\ runs # <<>> /\ eval.next \in 1 .. Cases + 1
        /\ runs[n].results = eval.next - 1 /\ eval.passed <= eval.next - 1
    BY <2>1 DEF EvalInv
  <2>3. n \in 1 .. Len(runs) /\ runs[n] \in RunState /\ eval.passed \in Nat
    BY <1>0, <1>l, <1>n, <2>2 DEF EvalState
  <2>4. new \in RunState /\ new.results = runs[n].results /\ new.passed = eval.passed
    BY <2>3 DEF RunState
  <2>5. runs' = [runs EXCEPT ![n] = new]
    BY <2>1, <2>3
  <2> HIDE DEF new, n
  <2>6. new.results = Cases /\ new.passed <= new.results
    <3>0. \A k \in 1 .. Cases + 1 : k > Cases => k - 1 = Cases
      BY <1>0
    <3>1. eval.next - 1 = Cases
      BY <2>1, <2>2, <3>0
    <3> QED
      BY <2>2, <2>4, <3>1
  <2>7. /\ runs' \in Seq(RunState) /\ Len(runs') = Len(runs)
        /\ \A j \in 1 .. Len(runs) : runs'[j] = IF j = n THEN new ELSE runs[j]
    BY <1>0, <2>3, <2>4, <2>5, ExceptSeq
  <2>8. DOMAIN runs' = 1 .. Len(runs')
    BY <2>7, LenProperties
  <2>9. EvalIsComplete'
    BY <1>l, <2>6, <2>7, <2>8 DEF EvalInv, EvalIsComplete
  <2>10. eval' \in EvalState /\ eval'.pc = "idle"
    BY <2>1 DEF NoEval, EvalState
  <2> QED
    BY <1>0, <2>1, <2>7, <2>9, <2>10 DEF EvalInv
<1>4. CASE EvalCrashes
  <2>1. eval' = NoEval /\ UNCHANGED <<runs, starts>>
    BY <1>4 DEF EvalCrashes
  <2>2. eval' \in EvalState /\ eval'.pc = "idle"
    BY <2>1 DEF NoEval, EvalState
  <2>3. EvalIsComplete'
    BY <2>1 DEF EvalInv, EvalIsComplete
  <2> QED
    BY <1>0, <2>1, <2>2, <2>3 DEF EvalInv
<1> QED
  BY <1>0, <1>1, <1>2, <1>3, <1>4 DEF EvalNext
-----------------------------------------------------------------------------
(* SLO windows and credits.                                                 *)

\* The place of the rollup after a row: the next customer, unless a breach is
\* to be credited first.
LEMMA ThenState ==
  ASSUME SloInv, rollup.pc # "idle", NEW status
  PROVE  /\ Then(status) \in RollupState /\ Then(status).window = rollup.window
         /\ status = "BREACHED" => /\ Then(status).pc = "find"
                                   /\ Then(status).todo = rollup.todo
         /\ status # "BREACHED" => /\ Then(status).pc \in {"idle", "window"}
                                   /\ Then(status).pc = "window" => Then(status).todo # <<>>
<1>1. rollup \in RollupState /\ rollup.todo # <<>> /\ rollup.todo \in Seq(Tenants \cup {Platform})
  BY DEF SloInv, RollupInv, RollupState
<1>2. /\ Tail(rollup.todo) \in Seq(Tenants \cup {Platform})
      /\ Len(rollup.todo) \in Nat /\ Len(rollup.todo) # 0
      /\ Len(Tail(rollup.todo)) = Len(rollup.todo) - 1
  BY <1>1, HeadTailProperties, LenProperties, EmptySeq
<1>3. Len(rollup.todo) # 1 => Tail(rollup.todo) # <<>>
  <2>1. Len(<<>>) = 0
    OBVIOUS
  <2>2. Len(rollup.todo) # 1 => Len(Tail(rollup.todo)) # 0
    BY <1>2
  <2> QED
    BY <2>1, <2>2
<1>4. CASE status = "BREACHED"
  BY <1>1, <1>4 DEF Then, RollupState
<1>5. CASE status # "BREACHED"
  BY <1>1, <1>2, <1>3, <1>5 DEF Then, RollupState
<1> QED
  BY <1>4, <1>5

\* A window's status is one of the verdicts.
LEMMA VerdictIsOne == ASSUME NEW b PROVE ComputeWindowStatus(b) \in Verdicts
  BY DEF ComputeWindowStatus, Verdicts

\* A rollup takes the calls of the window, the platform first.
LEMMA RollupStartsStep ==
  ASSUME SloInv, starts \in 0 .. MaxRuns, RollupStarts
  PROVE  SloInv' /\ starts' \in 0 .. MaxRuns
<1> DEFINE ours == {x \in Calls : call[x].window = window}
           seen == {<<c, call[c].status, call[c].latency>> : c \in ours}
           served == {CallOf[x[1]] : x \in seen}
<1>1. PICK order \in [1 .. Cardinality(served) -> served] :
        rollup' = [pc |-> "window", seen |-> seen, todo |-> <<Platform>> \o order,
                   window |-> window]
  BY DEF RollupStarts
<1>2. /\ call \in [Calls -> CallState] /\ window \in 1 .. Windows
      /\ CallOf \in [Calls -> Tenants] /\ IsFiniteSet(Calls) /\ Windows \in Nat
      /\ MaxRuns \in Nat
  BY JobsAssumption DEF SloInv
<1>3. \A c \in Calls : call[c].status \in Outcomes /\ call[c].latency \in Nat
  BY <1>2 DEF CallState
<1>4. seen \in SUBSET (Calls \X Outcomes \X Nat) /\ served \subseteq Tenants
  BY <1>2, <1>3
<1>5. IsFiniteSet(ours)
  BY <1>2, FS_Subset
<1>6. IsFiniteSet(served)
  <2> DEFINE f == [c \in ours |-> CallOf[c]]
  <2>1. \A c \in ours : CallOf[c] \in served
    <3> SUFFICES ASSUME NEW c \in ours PROVE CallOf[c] \in served
      OBVIOUS
    <3>1. <<c, call[c].status, call[c].latency>> \in seen
      OBVIOUS
    <3> HIDE DEF seen
    <3> QED
      BY <3>1
  <2>2. \A t \in served : \E c \in ours : CallOf[c] = t
    OBVIOUS
  <2> HIDE DEF ours, served
  <2>3. f \in Surjection(ours, served)
    BY <2>1, <2>2 DEF Surjection
  <2> QED
    BY <1>5, <2>3, FS_Surjection DEF ExistsSurjection
<1>7. Cardinality(served) \in Nat
  BY <1>6, FS_CardinalityType
<1> HIDE DEF seen, served
<1>8. order \in Seq(Tenants \cup {Platform})
  <2>1. order \in [1 .. Cardinality(served) -> Tenants \cup {Platform}]
    BY <1>1, <1>4
  <2> QED
    BY <1>7, <2>1
<1>9. <<Platform>> \in Seq(Tenants \cup {Platform}) /\ Len(<<Platform>>) = 1
  OBVIOUS
<1>10. /\ <<Platform>> \o order \in Seq(Tenants \cup {Platform})
       /\ Len(<<Platform>> \o order) = 1 + Len(order) /\ Len(order) \in Nat
  BY <1>8, <1>9, ConcatProperties, LenProperties
<1>11. <<Platform>> \o order # <<>>
  BY <1>10, EmptySeq
<1> DEFINE todo == <<Platform>> \o order
<1> HIDE DEF todo
<1>12. /\ rollup' \in RollupState /\ rollup'.pc = "window" /\ rollup'.todo # <<>>
       /\ rollup'.window # 0
  <2>1. /\ rollup' = [pc |-> "window", seen |-> seen, todo |-> todo, window |-> window]
        /\ todo \in Seq(Tenants \cup {Platform}) /\ todo # <<>>
    BY <1>1, <1>10, <1>11 DEF todo
  <2>2. window \in 0 .. Windows /\ window # 0
    BY <1>2
  <2> QED
    BY <1>4, <2>1, <2>2 DEF RollupState
<1>13. UNCHANGED <<window, call, row, overall, credit>> /\ starts' \in 0 .. MaxRuns
  BY <1>2 DEF RollupStarts
<1>14. RollupInv'
  BY <1>12 DEF RollupInv
<1> QED
  BY <1>12, <1>13, <1>14 DEF SloInv, OneCreditPerWindow, OnePlatformRow

\* What one step of the rollup's loop writes.
LEMMA RollupLoopStep ==
  ASSUME SloInv, UpsertPlatformWindow \/ UpsertWindow \/ FindCredit \/ CreateCredit
  PROVE  /\ SloInv'
         /\ \A t \in Tenants, w \in 1 .. Windows :
              credit'[t][w] > credit[t][w] => row[t][w] = "BREACHED"
<1>t. /\ window \in 1 .. Windows /\ call \in [Calls -> CallState] /\ rollup \in RollupState
      /\ row \in [Tenants -> [1 .. Windows -> Verdicts]]
      /\ overall \in [1 .. Windows -> Nat] /\ credit \in [Tenants -> [1 .. Windows -> Nat]]
      /\ RollupInv /\ OneCreditPerWindow /\ OnePlatformRow
  BY DEF SloInv
<1> DEFINE t == Head(rollup.todo)
           w == rollup.window
<1>1. /\ rollup.pc # "idle" /\ UNCHANGED <<window, call>> /\ Windows \in Nat
      /\ \/ UpsertPlatformWindow \/ UpsertWindow \/ FindCredit \/ CreateCredit
  BY JobsAssumption DEF UpsertPlatformWindow, UpsertWindow, FindCredit, CreateCredit
<1>2. w \in 1 .. Windows /\ t \in Tenants \cup {Platform}
  <2>1. rollup.todo \in Seq(Tenants \cup {Platform}) /\ rollup.todo # <<>>
    BY <1>t, <1>1 DEF RollupInv, RollupState
  <2>2. w # 0 /\ w \in 0 .. Windows
    BY <1>t, <1>1 DEF RollupInv, RollupState
  <2> QED
    BY <1>1, <2>1, <2>2, HeadTailProperties
<1> HIDE DEF t, w
<1>c. UNCHANGED credit => \A u \in Tenants, x \in 1 .. Windows : ~(credit'[u][x] > credit[u][x])
  <2>1. \A u \in Tenants, x \in 1 .. Windows : credit[u][x] \in Nat
    BY <1>t
  <2> QED
    BY <2>1
<1>3. CASE UpsertPlatformWindow
  <2>1. /\ overall' = [overall EXCEPT ![w] = IF @ = 0 THEN 1 ELSE @]
        /\ rollup' = Then("HEALTHY") /\ UNCHANGED <<row, credit>>
    BY <1>3 DEF UpsertPlatformWindow, PlatformRow, w
  <2>2. overall' \in [1 .. Windows -> Nat] /\ OnePlatformRow'
    <3>1. \A x \in 1 .. Windows : overall[x] \in Nat /\ overall[x] <= 1
      BY <1>t DEF OnePlatformRow
    <3>2. \A x \in 1 .. Windows : overall'[x] \in Nat /\ overall'[x] <= 1
      BY <1>t, <2>1, <3>1
    <3> QED
      BY <1>t, <2>1, <3>2 DEF OnePlatformRow
  <2>3. rollup' \in RollupState /\ RollupInv'
    <3>1. /\ rollup' \in RollupState /\ rollup'.window = w
          /\ rollup'.pc \in {"idle", "window"} /\ (rollup'.pc = "window" => rollup'.todo # <<>>)
      BY <1>1, <2>1, ThenState DEF w
    <3> QED
      BY <1>2, <3>1 DEF RollupInv
  <2> QED
    BY <1>t, <1>1, <1>c, <2>1, <2>2, <2>3 DEF SloInv, OneCreditPerWindow
<1>4. CASE UpsertWindow
  <2> DEFINE status == ComputeWindowStatus(Bucket(t))
  <2>1. /\ row' = [row EXCEPT ![t][w] = status] /\ rollup' = Then(status) /\ t # Platform
        /\ UNCHANGED <<overall, credit>>
    BY <1>4 DEF UpsertWindow, t, w
  <2>2. status \in Verdicts /\ t \in Tenants
    BY <1>2, <2>1, VerdictIsOne
  <2> HIDE DEF status
  <2>3. row' \in [Tenants -> [1 .. Windows -> Verdicts]] /\ row'[t][w] = status
    BY <1>t, <1>2, <2>1, <2>2
  <2>4. rollup' \in RollupState /\ RollupInv'
    <3>1. /\ rollup' \in RollupState /\ rollup'.window = w
          /\ status = "BREACHED" => rollup'.pc = "find" /\ rollup'.todo = rollup.todo
          /\ status # "BREACHED" => /\ rollup'.pc \in {"idle", "window"}
                                    /\ rollup'.pc = "window" => rollup'.todo # <<>>
      BY <1>1, <2>1, ThenState DEF w
    <3>2. rollup.todo # <<>>
      BY <1>t, <1>1 DEF RollupInv
    <3> QED
      BY <1>2, <2>2, <2>3, <3>1, <3>2 DEF RollupInv, t
  <2> QED
    BY <1>t, <1>1, <1>c, <2>1, <2>3, <2>4 DEF SloInv, OneCreditPerWindow, OnePlatformRow
<1>5. CASE FindCredit
  <2>1. /\ UNCHANGED <<row, overall, credit>> /\ rollup.pc = "find"
        /\ \/ credit[t][w] > 0 /\ rollup' = Then("credited")
           \/ ComputeCreditMicros(TRUE) = 0 /\ rollup' = Then("credited")
           \/ ~(credit[t][w] > 0) /\ rollup' = [rollup EXCEPT !.pc = "create"]
    BY <1>5 DEF FindCredit, t, w
  <2>2. rollup' \in RollupState /\ RollupInv'
    <3>1. CASE rollup' = Then("credited")
      <4>1. /\ rollup' \in RollupState /\ rollup'.window = w
            /\ rollup'.pc \in {"idle", "window"} /\ (rollup'.pc = "window" => rollup'.todo # <<>>)
        BY <1>1, <3>1, ThenState DEF w
      <4> QED
        BY <1>2, <4>1 DEF RollupInv
    <3>2. CASE ~(credit[t][w] > 0) /\ rollup' = [rollup EXCEPT !.pc = "create"]
      <4>1. /\ rollup' \in RollupState /\ rollup'.window = rollup.window
            /\ rollup'.todo = rollup.todo /\ rollup'.pc = "create"
        BY <1>t, <3>2 DEF RollupState
      <4>2. /\ rollup.todo # <<>> /\ t \in Tenants /\ row[t][w] = "BREACHED"
        BY <1>t, <2>1 DEF RollupInv, t, w
      <4>3. credit[t][w] = 0
        <5>1. credit[t][w] \in Nat
          BY <1>t, <1>2, <4>2
        <5> QED
          BY <3>2, <5>1
      <4> QED
        BY <1>2, <2>1, <4>1, <4>2, <4>3 DEF RollupInv, t, w
    <3> QED
      BY <2>1, <3>1, <3>2
  <2> QED
    BY <1>t, <1>1, <1>c, <2>1, <2>2 DEF SloInv, OneCreditPerWindow, OnePlatformRow
<1>6. CASE CreateCredit
  <2>1. /\ credit' = [credit EXCEPT ![t][w] = @ + 1] /\ rollup' = Then("credited")
        /\ UNCHANGED <<row, overall>> /\ rollup.pc = "create"
    BY <1>6 DEF CreateCredit, t, w
  <2>2. t \in Tenants /\ row[t][w] = "BREACHED" /\ credit[t][w] = 0
    BY <1>t, <2>1 DEF RollupInv, t, w
  <2>3. /\ credit' \in [Tenants -> [1 .. Windows -> Nat]] /\ credit'[t][w] = 1
        /\ \A u \in Tenants, x \in 1 .. Windows :
             u # t \/ x # w => credit'[u][x] = credit[u][x]
    <3>1. credit' = [credit EXCEPT ![t] = [credit[t] EXCEPT ![w] = 1]]
      BY <1>t, <2>1, <2>2
    <3>2. [credit[t] EXCEPT ![w] = 1] \in [1 .. Windows -> Nat] /\ [credit[t] EXCEPT ![w] = 1][w] = 1
      BY <1>t, <1>2, <2>2
    <3> QED
      BY <1>t, <1>2, <2>2, <3>1, <3>2
  <2>4. \A u \in Tenants, x \in 1 .. Windows :
          /\ credit'[u][x] <= 1
          /\ credit'[u][x] > credit[u][x] => row[u][x] = "BREACHED"
    <3>1. \A u \in Tenants, x \in 1 .. Windows : credit[u][x] \in Nat /\ credit[u][x] <= 1
      BY <1>t DEF OneCreditPerWindow
    <3> QED
      BY <2>2, <2>3, <3>1
  <2>5. rollup' \in RollupState /\ RollupInv'
    <3>1. /\ rollup' \in RollupState /\ rollup'.window = w
          /\ rollup'.pc \in {"idle", "window"} /\ (rollup'.pc = "window" => rollup'.todo # <<>>)
      BY <1>1, <2>1, ThenState DEF w
    <3> QED
      BY <1>2, <3>1 DEF RollupInv
  <2> QED
    BY <1>t, <1>1, <2>1, <2>3, <2>4, <2>5 DEF SloInv, OneCreditPerWindow, OnePlatformRow
<1> QED
  BY <1>1, <1>3, <1>4, <1>5, <1>6

\* A roll-up gives credit for breached windows only and touches no other job.
LEMMA SloStep ==
  ASSUME SloInv, starts \in 0 .. MaxRuns, SloNext
  PROVE  /\ SloInv' /\ starts' \in 0 .. MaxRuns /\ UNCHANGED <<evalVars, graphVars>>
         /\ \A t \in Tenants, w \in 1 .. Windows :
              credit'[t][w] > credit[t][w] => row[t][w] = "BREACHED"
<1>u. UNCHANGED <<evalVars, graphVars>> /\ (UNCHANGED starts \/ RollupStarts)
  BY DEF SloNext, CallStarts, CallEnds, WindowPasses, RollupStarts, UpsertPlatformWindow,
         UpsertWindow, FindCredit, CreateCredit, RollupCrashes
<1>t. /\ window \in 1 .. Windows /\ call \in [Calls -> CallState]
      /\ credit \in [Tenants -> [1 .. Windows -> Nat]] /\ Windows \in Nat /\ LatencyTarget \in Nat
  BY JobsAssumption DEF SloInv
<1>c. UNCHANGED credit => \A u \in Tenants, x \in 1 .. Windows : ~(credit'[u][x] > credit[u][x])
  <2>1. \A u \in Tenants, x \in 1 .. Windows : credit[u][x] \in Nat
    BY <1>t
  <2> QED
    BY <2>1
<1>1. ASSUME UNCHANGED <<rollup, row, overall, credit>>, window' \in 1 .. Windows,
             call' \in [Calls -> CallState]
      PROVE  SloInv'
  BY <1>1 DEF SloInv, RollupInv, OneCreditPerWindow, OnePlatformRow
<1>2. ASSUME NEW c \in Calls, CallStarts(c) PROVE SloInv' /\ UNCHANGED credit
  <2>1. /\ call' = [call EXCEPT ![c] = [window |-> window, status |-> "RUNNING", latency |-> 0]]
        /\ UNCHANGED <<window, rollup, row, overall, credit>>
    BY <1>2 DEF CallStarts
  <2>2. [window |-> window, status |-> "RUNNING", latency |-> 0] \in CallState
    BY <1>t DEF CallState, Outcomes
  <2> QED
    BY <1>1, <1>t, <2>1, <2>2
<1>3. ASSUME NEW c \in Calls, CallEnds(c) PROVE SloInv' /\ UNCHANGED credit
  <2>1. PICK s \in {"SUCCEEDED", "FAILED"}, l \in Nat :
          call' = [call EXCEPT ![c].status = s, ![c].latency = l]
    <3>1. \A l \in {1, LatencyTarget + 1} : l \in Nat
      BY <1>t
    <3> QED
      BY <1>3, <3>1 DEF CallEnds
  <2>2. call[c] \in CallState
    BY <1>t
  <2>3. [call[c] EXCEPT !.status = s, !.latency = l] \in CallState
    BY <2>2 DEF CallState, Outcomes
  <2>4. call' = [call EXCEPT ![c] = [call[c] EXCEPT !.status = s, !.latency = l]]
    BY <1>t, <2>1
  <2>5. UNCHANGED <<window, rollup, row, overall, credit>>
    BY <1>3 DEF CallEnds
  <2> QED
    BY <1>1, <1>t, <2>3, <2>4, <2>5
<1>4. CASE WindowPasses
  <2>1. SloInv' /\ UNCHANGED credit
    BY <1>1, <1>4, <1>t DEF WindowPasses
  <2> QED
    BY <1>4, <1>c, <1>u, <2>1 DEF WindowPasses
<1>5. CASE RollupStarts
  <2>1. UNCHANGED credit
    BY <1>5 DEF RollupStarts
  <2> QED
    BY <1>5, <1>c, <1>u, <2>1, RollupStartsStep
<1>6. CASE RollupCrashes
  <2>1. rollup' = NoRollup /\ UNCHANGED <<window, call, row, overall, credit, starts>>
    BY <1>6 DEF RollupCrashes
  <2>2. rollup' \in RollupState /\ rollup'.pc = "idle"
    BY <1>t, <2>1 DEF NoRollup, RollupState
  <2>3. SloInv'
    BY <2>1, <2>2 DEF SloInv, RollupInv, OneCreditPerWindow, OnePlatformRow
  <2> QED
    BY <1>c, <1>u, <2>1, <2>3
<1>7. CASE UpsertPlatformWindow \/ UpsertWindow \/ FindCredit \/ CreateCredit
  <2>1. UNCHANGED starts
    BY <1>7 DEF UpsertPlatformWindow, UpsertWindow, FindCredit, CreateCredit
  <2> QED
    BY <1>7, <1>u, <2>1, RollupLoopStep
<1>8. CASE \E c \in Calls : CallStarts(c) \/ CallEnds(c)
  <2>1. UNCHANGED starts
    BY <1>8 DEF CallStarts, CallEnds
  <2> QED
    BY <1>2, <1>3, <1>8, <1>c, <1>u, <2>1
<1> QED
  BY <1>4, <1>5, <1>6, <1>7, <1>8 DEF SloNext
\* So no step of any job gives credit without a breach.
LEMMA JobsStep ==
  ASSUME JobsInv, SloNext \/ EvalNext \/ GraphNext
  PROVE  /\ JobsInv'
         /\ \A t \in Tenants, w \in 1 .. Windows :
              credit'[t][w] > credit[t][w] => row[t][w] = "BREACHED"
<1>t. SloInv /\ EvalInv /\ GraphInv /\ starts \in 0 .. MaxRuns
  BY DEF JobsInv
<1>c. UNCHANGED credit => \A u \in Tenants, x \in 1 .. Windows : ~(credit'[u][x] > credit[u][x])
  <2>1. \A u \in Tenants, x \in 1 .. Windows : credit[u][x] \in Nat
    BY <1>t DEF SloInv
  <2> QED
    BY <2>1
<1>s. UNCHANGED sloVars => SloInv' /\ UNCHANGED credit
  BY <1>t DEF sloVars, SloInv, RollupInv, OneCreditPerWindow, OnePlatformRow
<1>e. UNCHANGED evalVars => EvalInv'
  BY <1>t DEF evalVars, EvalInv, EvalIsComplete
<1>g. UNCHANGED graphVars => GraphInv'
  BY <1>t DEF graphVars, GraphInv
<1>1. CASE SloNext
  BY <1>1, <1>t, <1>e, <1>g, SloStep DEF JobsInv
<1>2. CASE EvalNext
  BY <1>2, <1>t, <1>s, <1>g, <1>c, EvalStep DEF JobsInv
<1>3. CASE GraphNext
  BY <1>3, <1>t, <1>s, <1>e, <1>c, GraphStep DEF JobsInv
<1> QED
  BY <1>1, <1>2, <1>3

\* At the start no job has run.
LEMMA JobsInvInit == JobsInit => JobsInv
<1> SUFFICES ASSUME JobsInit PROVE JobsInv
  OBVIOUS
<1>1. SloInv
  <2>1. NoRollup \in RollupState /\ NoRollup.pc = "idle" /\ Windows \in Nat \ {0}
    BY JobsAssumption DEF NoRollup, RollupState
  <2>2. [window |-> 0, status |-> "none", latency |-> 0] \in CallState
    BY DEF CallState, Outcomes
  <2>3. /\ call \in [Calls -> CallState] /\ overall \in [1 .. Windows -> Nat]
        /\ credit \in [Tenants -> [1 .. Windows -> Nat]]
    BY <2>2 DEF JobsInit
  <2>4. row \in [Tenants -> [1 .. Windows -> Verdicts]]
    BY DEF JobsInit, Verdicts
  <2>5. OneCreditPerWindow /\ OnePlatformRow
    BY DEF JobsInit, OneCreditPerWindow, OnePlatformRow
  <2>6. window \in 1 .. Windows /\ rollup \in RollupState /\ rollup.pc = "idle"
    BY <2>1 DEF JobsInit
  <2>7. RollupInv
    BY <2>6 DEF RollupInv
  <2> QED
    BY <2>3, <2>4, <2>5, <2>6, <2>7 DEF SloInv
<1>2. EvalInv
  <2>1. NoEval \in EvalState /\ NoEval.pc = "idle"
    BY DEF NoEval, EvalState
  <2> QED
    BY <2>1 DEF JobsInit, EvalInv, EvalIsComplete
<1>3. GraphInv /\ starts \in 0 .. MaxRuns
  BY JobsAssumption DEF JobsInit, GraphInv
<1> QED
  BY <1>1, <1>2, <1>3 DEF JobsInv

-----------------------------------------------------------------------------
(* Receipts.                                                                *)

\* What a receipt's row holds, and where a stored receipt is found.
LEMMA ReceiptFacts ==
  ASSUME ReceiptInv
  PROVE  /\ Len(receipts) \in Nat /\ DOMAIN receipts = 1 .. Len(receipts)
         /\ \A i \in DOMAIN receipts : receipts[i] \in ReceiptState
         /\ \A x \in Deliveries : /\ job[x] \in JobState /\ x[1] \in Paid
                                  /\ job[x].previous \in 0 .. Len(receipts)
                                  /\ job[x].issued \in 0 .. clock
<1>1. receipts \in Seq(ReceiptState) /\ job \in [Deliveries -> JobState] /\ ReceiptsTypeOK
  BY DEF ReceiptInv
<1>2. /\ Len(receipts) \in Nat /\ DOMAIN receipts = 1 .. Len(receipts)
      /\ \A i \in DOMAIN receipts : receipts[i] \in ReceiptState
  BY <1>1, LenProperties, ElementOfSeq
<1> QED
  BY <1>1, <1>2 DEF ReceiptsTypeOK, Deliveries

\* A job that moves on without storing or linking anything.
LEMMA JobMoves ==
  ASSUME ReceiptInv, NEW x \in Deliveries, NEW to \in JobState,
         job' = [job EXCEPT ![x] = to], to.pc # "link", to.previous \in 0 .. Len(receipts),
         to.issued \in 0 .. clock', clock' \in Nat, clock <= clock',
         key' \in {"none", "active"}, UNCHANGED <<receipts, checks>>,
         linked' \subseteq Paid, \A r \in linked' : Has(r)
  PROVE  ReceiptInv'
<1>1. /\ receipts \in Seq(ReceiptState) /\ job \in [Deliveries -> JobState]
      /\ checks \subseteq Paid \X BOOLEAN /\ OneReceipt /\ ChainLeadsBack
      /\ \A y \in Deliveries : job[y].pc = "link" => Has(y[1])
      /\ clock \in Nat
      /\ \A i \in DOMAIN receipts : receipts[i].request \in Paid
  BY DEF ReceiptInv, ReceiptsTypeOK
<1>2. job' \in [Deliveries -> JobState] /\ \A y \in Deliveries : y # x => job'[y] = job[y]
  BY <1>1
<1>3. job'[x] = to
  BY <1>1
<1>4. \A r : Has(r)' <=> Has(r)
  BY DEF Has
<1>5. \A y \in Deliveries : job'[y].pc = "link" => Has(y[1])'
  BY <1>1, <1>2, <1>3, <1>4
<1>6. \A y \in Deliveries : /\ job'[y] \in JobState /\ job'[y].previous \in 0 .. Len(receipts)
                            /\ job'[y].issued \in 0 .. clock'
  BY <1>1, <1>2, <1>3, ReceiptFacts
<1>7. ReceiptsTypeOK'
  BY <1>1, <1>6 DEF ReceiptsTypeOK, JobState
<1>8. OneReceipt' /\ ChainLeadsBack' /\ LinkedHasReceipt'
  BY <1>1, <1>4 DEF OneReceipt, ChainLeadsBack, LinkedHasReceipt
<1> QED
  BY <1>1, <1>2, <1>5, <1>7, <1>8 DEF ReceiptInv

\* A delivery whose event has no receipt yet appends it to the chain.
LEMMA StoreReceiptStep ==
  ASSUME ReceiptInv, NEW x \in Deliveries, StoreReceipt(x), ~Has(x[1])
  PROVE  ReceiptInv'
<1>1. /\ receipts \in Seq(ReceiptState) /\ job \in [Deliveries -> JobState]
      /\ checks \subseteq Paid \X BOOLEAN /\ OneReceipt /\ ChainLeadsBack /\ LinkedHasReceipt
      /\ \A y \in Deliveries : job[y].pc = "link" => Has(y[1])
      /\ key \in {"none", "active"} /\ clock \in Nat /\ linked \subseteq Paid
  BY DEF ReceiptInv, ReceiptsTypeOK
<1>2. /\ receipts' = Append(receipts, Receipt(x)) /\ UNCHANGED <<clock, key, linked, checks>>
      /\ job' = [job EXCEPT ![x] = [job[x] EXCEPT !.pc = "link"]]
  BY DEF StoreReceipt
<1>3. /\ job[x] \in JobState /\ x[1] \in Paid /\ job[x].previous \in 0 .. Len(receipts)
      /\ Len(receipts) \in Nat /\ job[x].issued \in 0 .. clock
  BY ReceiptFacts
<1>4. /\ Receipt(x) \in ReceiptState /\ Receipt(x).request = x[1]
      /\ Receipt(x).previous = job[x].previous
  <2>1. job[x].previous \in Nat /\ job[x].issued \in Nat
    BY <1>1, <1>3
  <2> QED
    BY <1>3, <2>1 DEF Receipt, ReceiptState
<1>5. /\ receipts' \in Seq(ReceiptState) /\ Len(receipts') = Len(receipts) + 1
      /\ \A i \in 1 .. Len(receipts) : receipts'[i] = receipts[i]
      /\ receipts'[Len(receipts) + 1] = Receipt(x)
  BY <1>1, <1>2, <1>4, AppendProperties
<1>6. DOMAIN receipts' = 1 .. Len(receipts) + 1 /\ DOMAIN receipts = 1 .. Len(receipts)
  BY <1>1, <1>5, LenProperties
<1>7. /\ [job[x] EXCEPT !.pc = "link"] \in JobState
      /\ [job[x] EXCEPT !.pc = "link"].previous = job[x].previous
      /\ [job[x] EXCEPT !.pc = "link"].issued = job[x].issued
  BY <1>3 DEF JobState
<1>8. /\ job' \in [Deliveries -> JobState] /\ job'[x].previous = job[x].previous /\ job'[x].issued = job[x].issued
      /\ \A y \in Deliveries : y # x => job'[y] = job[y]
  BY <1>1, <1>2, <1>7
<1>9. (\A r : Has(r) => Has(r)') /\ Has(x[1])'
  BY <1>3, <1>4, <1>5, <1>6 DEF Has
<1>10. \A y \in Deliveries : job'[y].pc = "link" => Has(y[1])'
  BY <1>1, <1>8, <1>9
<1>11. \A i \in DOMAIN receipts : receipts[i].request # x[1]
  BY DEF Has
<1>12. OneReceipt'
  <2> SUFFICES ASSUME NEW i \in 1 .. Len(receipts) + 1, NEW j \in 1 .. Len(receipts) + 1,
                      receipts'[i].request = receipts'[j].request
               PROVE  i = j
    BY <1>6 DEF OneReceipt
  <2>1. CASE i = Len(receipts) + 1 \/ j = Len(receipts) + 1
    BY <1>3, <1>4, <1>5, <1>6, <1>11, <2>1
  <2>2. CASE i \in 1 .. Len(receipts) /\ j \in 1 .. Len(receipts)
    BY <1>1, <1>5, <1>6, <2>2 DEF OneReceipt
  <2> QED
    BY <1>3, <2>1, <2>2
<1>13. ChainLeadsBack'
  BY <1>1, <1>3, <1>4, <1>5, <1>6 DEF ChainLeadsBack
<1>14. LinkedHasReceipt'
  BY <1>1, <1>2, <1>9 DEF LinkedHasReceipt
<1>15. ReceiptsTypeOK'
  <2>1. \A y \in Deliveries : /\ job'[y] \in JobState /\ job'[y].previous \in 0 .. Len(receipts')
                              /\ job'[y].issued \in 0 .. clock
    BY <1>3, <1>5, <1>8, ReceiptFacts
  <2>2. \A i \in DOMAIN receipts' : receipts'[i].request \in Paid
    BY <1>3, <1>4, <1>5, <1>6 DEF ReceiptInv, ReceiptsTypeOK
  <2> QED
    BY <1>1, <1>2, <2>1, <2>2 DEF ReceiptsTypeOK, JobState
<1> QED
  BY <1>5, <1>8, <1>10, <1>12, <1>13, <1>14, <1>15 DEF ReceiptInv

\* Every step of a delivery keeps the chain.
LEMMA ReceiptsStep == ASSUME ReceiptInv, ReceiptsNext PROVE ReceiptInv'
<1>t. /\ receipts \in Seq(ReceiptState) /\ job \in [Deliveries -> JobState]
      /\ checks \subseteq Paid \X BOOLEAN /\ OneReceipt /\ ChainLeadsBack /\ LinkedHasReceipt
      /\ \A y \in Deliveries : job[y].pc = "link" => Has(y[1])
      /\ key \in {"none", "active"} /\ clock \in Nat /\ linked \subseteq Paid
  BY DEF ReceiptInv, ReceiptsTypeOK
<1>e. /\ Ended \in JobState /\ Ended.pc # "link" /\ Ended.previous \in 0 .. Len(receipts)
      /\ Ended.issued \in 0 .. clock /\ clock <= clock
      /\ \A r \in linked : Has(r)
  BY <1>t, ReceiptFacts DEF Ended, None, JobState, LinkedHasReceipt
<1>1. ASSUME NEW x \in Deliveries, IssueUsageReceipt(x) PROVE ReceiptInv'
  <2>1. /\ job[x] \in JobState /\ job[x].previous \in 0 .. Len(receipts)
        /\ job[x].issued \in 0 .. clock
    BY ReceiptFacts
  <2> DEFINE on == [job[x] EXCEPT !.pc = "previous"]
  <2>2. /\ on \in JobState /\ on.pc # "link" /\ on.previous \in 0 .. Len(receipts)
        /\ on.issued \in 0 .. clock
    BY <2>1 DEF JobState
  <2>3. PICK to \in {Ended, on} : job' = [job EXCEPT ![x] = to]
    BY <1>1 DEF IssueUsageReceipt
  <2>4. UNCHANGED <<clock, key, receipts, linked, checks>>
    BY <1>1 DEF IssueUsageReceipt
  <2> HIDE DEF on
  <2>5. /\ to \in JobState /\ to.pc # "link" /\ to.previous \in 0 .. Len(receipts)
        /\ to.issued \in 0 .. clock
    BY <1>e, <2>2
  <2> QED
    BY <1>t, <1>e, <2>3, <2>4, <2>5, JobMoves
<1>2. ASSUME NEW x \in Deliveries, ReadPrevious(x) PROVE ReceiptInv'
  <2>0. PICK p \in 0 .. Len(receipts) :
          job' = [job EXCEPT ![x] = [pc |-> "sign", previous |-> p, issued |-> 0]]
    <3>1. (IF receipts = <<>> THEN {None} ELSE Newest) \subseteq 0 .. Len(receipts)
      BY ReceiptFacts DEF Newest, None
    <3> HIDE DEF Newest
    <3> QED
      BY <1>2, <3>1 DEF ReadPrevious
  <2> DEFINE on == [pc |-> "sign", previous |-> p, issued |-> 0]
  <2>1. /\ on \in JobState /\ on.pc # "link" /\ on.previous \in 0 .. Len(receipts)
        /\ on.issued \in 0 .. clock
    BY <1>t, ReceiptFacts DEF JobState
  <2>2. job' = [job EXCEPT ![x] = on] /\ UNCHANGED <<clock, key, receipts, linked, checks>>
    BY <1>2, <2>0 DEF ReadPrevious
  <2> HIDE DEF on
  <2> QED
    BY <1>t, <1>e, <2>1, <2>2, JobMoves
<1>3. ASSUME NEW x \in Deliveries, EnsureSigningKey(x) PROVE ReceiptInv'
  <2> DEFINE on == [job[x] EXCEPT !.pc = "store", !.issued = clock']
  <2>0. clock' \in Nat /\ clock <= clock' /\ clock' \in 0 .. clock'
    BY <1>t, <1>3 DEF EnsureSigningKey, Stamps
  <2>1. job[x] \in JobState /\ job[x].previous \in 0 .. Len(receipts)
    BY ReceiptFacts
  <2>2. /\ on \in JobState /\ on.pc # "link" /\ on.previous \in 0 .. Len(receipts)
        /\ on.issued \in 0 .. clock'
    BY <2>0, <2>1 DEF JobState
  <2>3. job' = [job EXCEPT ![x] = on] /\ key' = "active" /\ UNCHANGED <<receipts, linked, checks>>
    BY <1>3 DEF EnsureSigningKey
  <2> HIDE DEF on
  <2> QED
    BY <1>t, <1>e, <2>0, <2>2, <2>3, JobMoves
<1>4. ASSUME NEW x \in Deliveries, StoreReceipt(x) PROVE ReceiptInv'
  <2>1. CASE Has(x[1])
    <3>1. job' = [job EXCEPT ![x] = Ended] /\ UNCHANGED <<clock, key, receipts, linked, checks>>
      BY <1>4, <2>1 DEF StoreReceipt
    <3> QED
      BY <1>t, <1>e, <3>1, JobMoves
  <2> QED
    BY <1>4, <2>1, StoreReceiptStep
<1>5. ASSUME NEW x \in Deliveries, LinkReceipt(x) PROVE ReceiptInv'
  <2>1. /\ job' = [job EXCEPT ![x] = Ended] /\ linked' = linked \cup {x[1]}
        /\ UNCHANGED <<clock, key, receipts, checks>> /\ Has(x[1])
    BY <1>5, <1>t DEF LinkReceipt
  <2>2. linked' \subseteq Paid /\ \A r \in linked' : Has(r)
    BY <1>t, <1>e, <2>1, ReceiptFacts
  <2> QED
    BY <1>t, <1>e, <2>1, <2>2, JobMoves
<1>6. ASSUME NEW x \in Deliveries, JobEnds(x) PROVE ReceiptInv'
  <2>1. job' = [job EXCEPT ![x] = Ended] /\ UNCHANGED <<clock, key, receipts, linked, checks>>
    BY <1>6 DEF JobEnds
  <2> QED
    BY <1>t, <1>e, <2>1, JobMoves
<1>7. ASSUME NEW i \in DOMAIN receipts, VerifyReceipt(i) PROVE ReceiptInv'
  <2>1. PICK ok \in BOOLEAN : checks' = checks \cup {<<receipts[i].request, ok>>}
    BY <1>7 DEF VerifyReceipt
  <2>2. UNCHANGED <<clock, key, job, receipts, linked>>
    BY <1>7 DEF VerifyReceipt
  <2>3. receipts[i].request \in Paid
    BY DEF ReceiptInv, ReceiptsTypeOK
  <2>4. checks' \subseteq Paid \X BOOLEAN
    BY <1>t, <2>1, <2>3
  <2>5. \A r : Has(r)' <=> Has(r)
    BY <2>2 DEF Has
  <2>6. ReceiptsTypeOK'
    BY <2>2, <2>4 DEF ReceiptInv, ReceiptsTypeOK
  <2>7. OneReceipt' /\ ChainLeadsBack' /\ LinkedHasReceipt'
    BY <1>t, <2>2, <2>5 DEF OneReceipt, ChainLeadsBack, LinkedHasReceipt
  <2> QED
    BY <1>t, <2>2, <2>5, <2>6, <2>7 DEF ReceiptInv
<1> QED
  BY <1>1, <1>2, <1>3, <1>4, <1>5, <1>6, <1>7 DEF ReceiptsNext

\* The chain starts empty.
LEMMA ReceiptInvInit == ReceiptsInit => ReceiptInv
<1> SUFFICES ASSUME ReceiptsInit PROVE ReceiptInv
  OBVIOUS
<1>1. NoJob \in JobState /\ NoJob.pc = "idle" /\ NoJob.previous = 0 /\ NoJob.issued = 0
  BY DEF NoJob, None, JobState
<1>2. receipts = <<>> /\ receipts \in Seq(ReceiptState) /\ Len(receipts) = 0 /\ DOMAIN receipts = {}
  BY DEF ReceiptsInit
<1>3. job \in [Deliveries -> JobState] /\ \A x \in Deliveries : job[x] = NoJob
  BY <1>1 DEF ReceiptsInit
<1>4. ReceiptsTypeOK
  <2>1. clock = 0 /\ clock \in Nat
    BY DEF ReceiptsInit
  <2> QED
    BY <1>1, <1>2, <1>3, <2>1 DEF ReceiptsInit, ReceiptsTypeOK
<1>5. OneReceipt /\ ChainLeadsBack /\ LinkedHasReceipt
  BY <1>2 DEF ReceiptsInit, OneReceipt, ChainLeadsBack, LinkedHasReceipt
<1> QED
  BY <1>1, <1>2, <1>3, <1>4, <1>5 DEF ReceiptInv
-----------------------------------------------------------------------------
(* Chunking.                                                                *)

\* A non-empty set of integers of a range has a greatest one.
LEMMA GreatestInRange ==
  ASSUME NEW a \in Int, NEW b \in Int, NEW S \in SUBSET (a .. b), S # {}
  PROVE  \E k \in S : \A l \in S : l <= k
<1> DEFINE N == {b - i : i \in S}
<1>1. N \subseteq Nat /\ N # {}
  OBVIOUS
<1>2. PICK k \in N : \A l \in N : k <= l
  <2> HIDE DEF N
  <2> QED
    BY <1>1, LeastNatural
<1>3. PICK i \in S : k = b - i
  OBVIOUS
<1>4. \A l \in S : l <= i
  <2> SUFFICES ASSUME NEW l \in S PROVE l <= i
    OBVIOUS
  <2>1. b - i <= b - l
    BY <1>2, <1>3
  <2>2. i \in Int /\ l \in Int
    OBVIOUS
  <2> QED
    BY <2>1, <2>2
<1> QED
  BY <1>4

\* And a least one.
LEMMA LeastInRange ==
  ASSUME NEW a \in Int, NEW b \in Int, NEW S \in SUBSET (a .. b), S # {}
  PROVE  \E k \in S : \A l \in S : k <= l
<1> DEFINE N == {i - a : i \in S}
<1>1. N \subseteq Nat /\ N # {}
  OBVIOUS
<1>2. PICK k \in N : \A l \in N : k <= l
  <2> HIDE DEF N
  <2> QED
    BY <1>1, LeastNatural
<1>3. PICK i \in S : k = i - a
  OBVIOUS
<1>4. \A l \in S : i <= l
  <2> SUFFICES ASSUME NEW l \in S PROVE i <= l
    OBVIOUS
  <2>1. i - a <= l - a
    BY <1>2, <1>3
  <2>2. i \in Int /\ l \in Int
    OBVIOUS
  <2> QED
    BY <2>1, <2>2
<1> QED
  BY <1>4

\* A boundary lies in the window that was searched.
LEMMA BoundaryInWindow ==
  ASSUME start \in Nat, NEW end \in Nat
  PROVE  Boundary(end) = -1 \/ Boundary(end) \in 0 .. end - start
<1> DEFINE whites == {i \in start .. end : White(i)}
           found == {i \in whites : i = start \/ ~White(i - 1)}
<1>1. CASE found = {}
  BY <1>1 DEF Boundary
<1>2. CASE found # {}
  <2>1. found \in SUBSET (start .. end)
    OBVIOUS
  <2> DEFINE last == CHOOSE i \in found : \A j \in found : j <= i
  <2>2. Boundary(end) = last - start
    BY <1>2 DEF Boundary
  <2> HIDE DEF found
  <2>3. \E k \in found : \A l \in found : l <= k
    <3>1. start \in Int /\ end \in Int
      OBVIOUS
    <3> QED
      BY <1>2, <2>1, <3>1, GreatestInRange
  <2>4. last \in start .. end
    BY <2>1, <2>3
  <2> HIDE DEF last
  <2> QED
    BY <2>2, <2>4
<1> QED
  BY <1>1, <1>2

\* A passage ends after its start, within the text and within the limit.
LEMMA CutBounds ==
  ASSUME start \in Nat, limit \in Nat \ {0}, Text \in Seq(BOOLEAN), start < Len(Text)
  PROVE  CutAt \in Nat /\ start < CutAt /\ CutAt <= Len(Text) /\ CutAt <= start + limit
<1> DEFINE end == start + limit
           n == Len(Text)
           k == Boundary(end)
<1>1. end \in Nat /\ n \in Nat
  BY LenProperties
<1>2. k = -1 \/ k \in 0 .. end - start
  BY <1>1, BoundaryInWindow
<1>3. CutAt = IF end >= n THEN n ELSE IF k > 0 THEN start + k ELSE end
  BY DEF CutAt
<1> HIDE DEF n, k
<1>4. start < n
  BY DEF n
<1>5. CutAt \in Nat /\ start < CutAt /\ CutAt <= n /\ CutAt <= start + limit
  BY <1>1, <1>2, <1>3, <1>4
<1> QED
  BY <1>5 DEF n

\* A trimmed passage lies in its span and holds every word of it.
LEMMA TrimFacts ==
  ASSUME NEW from \in Nat, NEW to \in Nat
  PROVE  /\ \A p \in Trim(from, to) :
              /\ p \in {block} \X Nat \X Nat
              /\ from + 1 <= p[2] /\ p[2] <= p[3] /\ p[3] <= to
         /\ \A i \in from .. to - 1 : ~White(i) =>
              \E p \in Trim(from, to) : p[2] <= i + 1 /\ i + 1 <= p[3]
<1> DEFINE words == {i \in from .. to - 1 : ~White(i)}
           first == CHOOSE i \in words : \A j \in words : i <= j
           last == CHOOSE i \in words : \A j \in words : j <= i
<1>1. words \in SUBSET (from .. to - 1) /\ from \in Int /\ to - 1 \in Int
  OBVIOUS
<1>2. Trim(from, to) = IF words = {} THEN {} ELSE {<<block, first + 1, last + 1>>}
  BY DEF Trim
<1>3. CASE words = {}
  BY <1>2, <1>3
<1>4. CASE words # {}
  <2>1. \A i \in from .. to - 1 : ~White(i) => i \in words
    OBVIOUS
  <2> HIDE DEF words
  <2>2. first \in words /\ \A j \in words : first <= j
    <3>1. \E k \in words : \A l \in words : k <= l
      BY <1>1, <1>4, LeastInRange
    <3> QED
      BY <3>1
  <2>3. last \in words /\ \A j \in words : j <= last
    <3>1. \E k \in words : \A l \in words : l <= k
      BY <1>1, <1>4, GreatestInRange
    <3> QED
      BY <3>1
  <2> HIDE DEF first, last
  <2> DEFINE p == <<block, first + 1, last + 1>>
  <2>4. Trim(from, to) = {p}
    BY <1>2, <1>4
  <2>5. first \in from .. to - 1 /\ last \in from .. to - 1 /\ first <= last
    BY <1>1, <2>2, <2>3
  <2>6. /\ p \in {block} \X Nat \X Nat
        /\ from + 1 <= p[2] /\ p[2] <= p[3] /\ p[3] <= to
    BY <2>5
  <2>7. \A i \in words : p[2] <= i + 1 /\ i + 1 <= p[3]
    <3>1. \A i \in words : i \in Int
      BY <1>1
    <3> QED
      BY <2>2, <2>3, <2>5, <3>1
  <2> HIDE DEF p
  <2> QED
    BY <2>1, <2>4, <2>6, <2>7
<1> QED
  BY <1>3, <1>4

\* Documents are sequences of blocks.
LEMMA DocumentsAreBlocks == Documents \subseteq Seq(BlockState)
<1>1. ASSUME NEW n \in Nat, NEW t \in Trimmed(n) PROVE t \in Seq(BOOLEAN)
  BY <1>1 DEF Trimmed
<1>2. ASSUME NEW n \in Nat, NEW t \in Trimmed(n), NEW h \in BOOLEAN
      PROVE  [title |-> h, text |-> t] \in BlockState
  BY <1>1, <1>2 DEF BlockState
<1>3. ASSUME NEW n \in 1 .. MaxText, NEW t \in Trimmed(n) PROVE Plain(t) \in Seq(BlockState)
  <2>n. n \in Nat
    BY ChunkingAssumption
  <2>1. [title |-> FALSE, text |-> t] \in BlockState
    BY <1>2, <2>n
  <2> QED
    BY <2>1 DEF Plain
<1>4. ASSUME NEW h \in BOOLEAN, NEW t \in Trimmed(2), NEW u \in Trimmed(3)
      PROVE  <<[title |-> h, text |-> t], [title |-> FALSE, text |-> u]>> \in Seq(BlockState)
  <2>1. [title |-> h, text |-> t] \in BlockState /\ [title |-> FALSE, text |-> u] \in BlockState
    BY <1>2
  <2> QED
    BY <2>1
<1>5. Faq \subseteq Seq(BlockState)
  <2> SUFFICES ASSUME NEW d \in Faq PROVE d \in Seq(BlockState)
    OBVIOUS
  <2>1. PICK h \in BOOLEAN, t \in Trimmed(2), u \in Trimmed(3) :
          d = <<[title |-> h, text |-> t], [title |-> FALSE, text |-> u]>>
    BY DEF Faq
  <2> QED
    BY <1>4, <2>1, Zenon
<1>6. \A n \in 1 .. MaxText : {Plain(t) : t \in Trimmed(n)} \subseteq Seq(BlockState)
  BY <1>3
<1>7. ASSUME NEW d \in Documents PROVE d \in Seq(BlockState)
  <2> DEFINE Plains(n) == {Plain(t) : t \in Trimmed(n)}
  <2>1. d \in Faq \/ \E n \in 1 .. MaxText : d \in Plains(n)
    <3>1. d \in UNION {Plains(n) : n \in 1 .. MaxText} \/ d \in Faq
      BY DEF Documents
    <3> HIDE DEF Plains
    <3> QED
      BY <3>1
  <2> QED
    BY <1>5, <1>6, <2>1, Zenon
<1> QED
  BY <1>7
\* One passage more: every word up to the end of the cut is in a passage.
LEMMA ChunkStepKeeps == ASSUME ChunkInv, ChunkStep PROVE ChunkInv'
<1> DEFINE end == CutAt
           text == blocks[block].text
           n == Len(text)
           cut == Trim(start, end)
<1>t. /\ blocks \in Seq(BlockState) /\ start \in Nat /\ passages \subseteq Nat \X Nat \X Nat
      /\ block \in Nat /\ block >= 1 /\ limit \in 1 .. MaxChars /\ overlap \in 0 .. MaxChars
      /\ overlap < limit /\ ChunkingTypeOK /\ PassageFits /\ MaxChars \in Nat
      /\ block <= Len(blocks) /\ chunking = "running" /\ ~blocks[block].title
      /\ UNCHANGED <<blocks, limit, overlap, chunking>> /\ start < n
  <2>1. chunking = "running" /\ UNCHANGED <<blocks, limit, overlap, chunking>>
        /\ block <= Len(blocks) /\ ~blocks[block].title /\ start < n
    BY DEF ChunkStep, Text
  <2>2. /\ blocks \in Seq(BlockState) /\ start \in Nat /\ passages \subseteq Nat \X Nat \X Nat
        /\ block >= 1 /\ limit >= 1 /\ overlap < limit /\ ChunkingTypeOK /\ PassageFits
    BY <2>1 DEF ChunkInv
  <2>3. Len(blocks) \in Nat /\ MaxChars \in Nat
    BY <2>2, LenProperties, ChunkingAssumption
  <2>4. block \in Nat /\ limit \in 1 .. MaxChars /\ overlap \in 0 .. MaxChars
    BY <2>2, <2>3 DEF ChunkingTypeOK
  <2> QED
    BY <2>1, <2>2, <2>3, <2>4
<1>l. Len(blocks) \in Nat /\ DOMAIN blocks = 1 .. Len(blocks)
  BY <1>t, LenProperties
<1>b. block \in DOMAIN blocks /\ text \in Seq(BOOLEAN) /\ n \in Nat /\ DOMAIN text = 1 .. n
  <2>1. block \in 1 .. Len(blocks)
    BY <1>t, <1>l
  <2>2. blocks[block] \in BlockState
    BY <1>t, <2>1, ElementOfSeq
  <2>3. text \in Seq(BOOLEAN)
    BY <2>2 DEF BlockState
  <2> QED
    BY <1>l, <2>1, <2>3, LenProperties
<1>e. end \in Nat /\ start < end /\ end <= n /\ end <= start + limit
  BY <1>t, <1>b, CutBounds DEF Text
<1>c. /\ \A p \in cut : /\ p \in {block} \X Nat \X Nat
                        /\ start + 1 <= p[2] /\ p[2] <= p[3] /\ p[3] <= end
      /\ \A i \in start .. end - 1 : ~text[i + 1] =>
           \E p \in cut : p[2] <= i + 1 /\ i + 1 <= p[3]
  <2>1. \A i : White(i) = text[i + 1]
    BY DEF White, Text
  <2> QED
    BY <1>t, <1>e, <2>1, TrimFacts
<1>1. /\ passages' = passages \cup cut
      /\ \/ end >= n /\ block' = block + 1 /\ start' = 0
         \/ end < n /\ block' = block /\ start' = Restart(end)
  BY <1>b, <1>e DEF ChunkStep, Cut, Text
<1> HIDE DEF cut, end, text
<1>2. start' \in Nat /\ (end < n => start' <= end) /\ block' \in {block, block + 1}
  BY <1>t, <1>1, <1>e DEF Restart
<1>3. ASSUME NEW c, c = block
      PROVE  \A i \in DOMAIN text : ~text[i] /\ i <= end => Covered(c, i)'
  <2> SUFFICES ASSUME NEW i \in 1 .. n, ~text[i], i <= end PROVE Covered(c, i)'
    BY <1>b
  <2>1. CASE i <= start
    <3>1. Covered(block, i)
      BY <1>t, <1>b, <2>1 DEF ChunkInv, Behind, text
    <3>2. PICK p \in passages : p[1] = block /\ p[2] <= i /\ i <= p[3]
      BY <3>1 DEF Covered
    <3> QED
      BY <1>1, <1>3, <3>2 DEF Covered
  <2>2. CASE i > start
    <3>1. i - 1 \in start .. end - 1 /\ (i - 1) + 1 = i
      BY <1>t, <1>b, <1>e, <2>2
    <3>2. PICK p \in cut : p[2] <= i /\ i <= p[3]
      BY <1>c, <3>1
    <3>3. p[1] = block
      BY <1>c
    <3> QED
      BY <1>1, <1>3, <3>2, <3>3 DEF Covered
  <2> QED
    BY <1>t, <1>b, <2>1, <2>2
<1>4. ASSUME NEW b \in DOMAIN blocks, ~blocks[b].title, NEW i \in DOMAIN blocks[b].text,
             ~blocks[b].text[i], Behind(b, i)'
      PROVE  Covered(b, i)'
  <2>1. b \in Nat /\ i \in Nat /\ i >= 1
    <3>1. blocks[b] \in BlockState
      BY <1>t, <1>l, ElementOfSeq
    <3>2. blocks[b].text \in Seq(BOOLEAN)
      BY <3>1 DEF BlockState
    <3>3. DOMAIN blocks[b].text = 1 .. Len(blocks[b].text) /\ Len(blocks[b].text) \in Nat
      BY <3>2, LenProperties
    <3> QED
      BY <1>l, <1>4, <3>3
  <2>2. b < block' \/ (b = block' /\ i <= start')
    BY <1>4 DEF Behind
  <2>3. b < block \/ (b = block /\ i <= end)
    <3>1. CASE end >= n
      <4>1. block' = block + 1 /\ start' = 0
        BY <1>1, <1>b, <1>e, <3>1
      <4>2. b < block \/ b = block
        BY <1>t, <2>1, <2>2, <4>1
      <4>3. b = block => i <= n
        BY <1>b, <1>4 DEF text
      <4> QED
        BY <1>b, <1>e, <2>1, <3>1, <4>2, <4>3
    <3>2. CASE end < n
      BY <1>1, <1>2, <1>b, <1>e, <2>1, <2>2, <3>2
    <3> QED
      BY <1>b, <1>e, <3>1, <3>2
  <2>4. CASE b < block
    <3>1. Covered(b, i)
      BY <1>4, <2>4 DEF ChunkInv, Behind
    <3> QED
      BY <1>1, <3>1 DEF Covered
  <2>5. CASE b = block /\ i <= end
    BY <1>3, <1>4, <2>5 DEF text
  <2> QED
    BY <2>3, <2>4, <2>5
<1>5. passages' \subseteq Nat \X Nat \X Nat
  BY <1>t, <1>1, <1>c
<1>6. PassageFits'
  <2> SUFFICES ASSUME NEW p \in passages' PROVE p[3] - p[2] + 1 <= limit
    BY <1>t DEF PassageFits
  <2>1. CASE p \in passages
    BY <1>t, <2>1 DEF PassageFits
  <2>2. CASE p \in cut
    <3>1. /\ p[2] \in Nat /\ p[3] \in Nat /\ start + 1 <= p[2] /\ p[3] <= end
      BY <1>c, <2>2
    <3> QED
      BY <1>t, <1>e, <3>1
  <2> QED
    BY <1>1, <2>1, <2>2
<1>7. ChunkingTypeOK'
  <2>1. \A p \in passages' : /\ p[1] \in DOMAIN blocks /\ p[2] \in 1 .. p[3]
                             /\ p[3] <= Len(blocks[p[1]].text)
    <3> SUFFICES ASSUME NEW p \in cut PROVE /\ p[1] \in DOMAIN blocks /\ p[2] \in 1 .. p[3]
                                            /\ p[3] <= Len(blocks[p[1]].text)
      BY <1>t, <1>1 DEF ChunkingTypeOK
    <3>1. /\ p[1] = block /\ p[2] \in Nat /\ p[3] \in Nat /\ start + 1 <= p[2]
          /\ p[2] <= p[3] /\ p[3] <= end
      BY <1>c
    <3>2. p[3] <= n /\ p[2] \in 1 .. p[3]
      BY <1>t, <1>b, <1>e, <3>1
    <3> QED
      BY <1>b, <3>1, <3>2 DEF text
  <2>2. block' \in 0 .. Len(blocks) + 1
    BY <1>t, <1>l, <1>2
  <2> QED
    BY <1>t, <2>1, <2>2 DEF ChunkingTypeOK
<1>8. block' >= 1
  BY <1>t, <1>2
<1> QED
  BY <1>t, <1>2, <1>4, <1>5, <1>6, <1>7, <1>8 DEF ChunkInv
\* A cut and the step back by the overlap lose no word.
LEMMA ChunkingStep == ASSUME ChunkInv, ChunkingNext PROVE ChunkInv'
<1>m. MaxChars \in Nat
  BY ChunkingAssumption
<1>p. \A b \in DOMAIN blocks : \A i \in DOMAIN blocks[b].text : b \in Nat /\ i \in Nat /\ i >= 1
  <2>1. blocks \in Seq(BlockState)
    BY DEF ChunkInv
  <2> SUFFICES ASSUME NEW b \in DOMAIN blocks, NEW i \in DOMAIN blocks[b].text
               PROVE  b \in Nat /\ i \in Nat /\ i >= 1
    OBVIOUS
  <2>2. DOMAIN blocks = 1 .. Len(blocks) /\ Len(blocks) \in Nat
    BY <2>1, LenProperties
  <2>3. blocks[b] \in BlockState
    BY <2>1, <2>2, ElementOfSeq
  <2>4. blocks[b].text \in Seq(BOOLEAN)
    BY <2>3 DEF BlockState
  <2>5. DOMAIN blocks[b].text = 1 .. Len(blocks[b].text) /\ Len(blocks[b].text) \in Nat
    BY <2>4, LenProperties
  <2> QED
    BY <2>2, <2>5
<1>1. CASE PrepareKnowledgeChunks
  <2>1. /\ passages' = {} /\ chunking' = "running" /\ block' = 1 /\ start' = 0
        /\ blocks' \in Seq(BlockState) /\ limit' \in 1 .. MaxChars
    BY <1>1, DocumentsAreBlocks DEF PrepareKnowledgeChunks, ChunkInv
  <2>2. overlap' \in 0 .. MaxChars /\ overlap' < limit'
    <3>1. PICK asked \in 0 .. MaxChars : overlap' = IF asked < limit' THEN asked ELSE limit' - 1
      BY <1>1 DEF PrepareKnowledgeChunks
    <3>2. \A l \in 1 .. MaxChars, a \in 0 .. MaxChars : \A o :
            o = (IF a < l THEN a ELSE l - 1) => o \in 0 .. MaxChars /\ o < l
      BY <1>m
    <3> QED
      BY <2>1, <3>1, <3>2
  <2>3. Len(blocks') \in Nat /\ DOMAIN blocks' = 1 .. Len(blocks')
    BY <2>1, LenProperties
  <2>4. ChunkingTypeOK'
    BY <1>m, <2>1, <2>2, <2>3 DEF ChunkingTypeOK
  <2>5. \A b \in DOMAIN blocks' : \A i \in DOMAIN blocks'[b].text : ~Behind(b, i)'
    <3> SUFFICES ASSUME NEW b \in DOMAIN blocks', NEW i \in DOMAIN blocks'[b].text
                 PROVE  ~Behind(b, i)'
      OBVIOUS
    <3>1. blocks'[b] \in BlockState /\ b \in Nat /\ b >= 1
      BY <2>1, <2>3, ElementOfSeq
    <3>2. blocks'[b].text \in Seq(BOOLEAN)
      BY <3>1 DEF BlockState
    <3>3. DOMAIN blocks'[b].text = 1 .. Len(blocks'[b].text) /\ Len(blocks'[b].text) \in Nat
      BY <3>2, LenProperties
    <3>4. i \in Nat /\ i >= 1
      BY <3>3
    <3> QED
      BY <2>1, <3>1, <3>4 DEF Behind
  <2>6. PassageFits'
    BY <2>1 DEF PassageFits
  <2>7. limit' >= 1 /\ block' >= 1
    BY <1>m, <2>1
  <2> QED
    BY <2>1, <2>2, <2>4, <2>5, <2>6, <2>7 DEF ChunkInv
<1>2. CASE ChunkStep
  BY <1>2, ChunkStepKeeps
<1>3. CASE SkipTitle
  <2>1. /\ chunking = "running" /\ block <= Len(blocks) /\ blocks[block].title
        /\ block' = block + 1 /\ start' = 0
        /\ UNCHANGED <<blocks, limit, overlap, passages, chunking>>
    BY <1>3 DEF SkipTitle
  <2>2. block \in 1 .. Len(blocks) /\ Len(blocks) \in Nat
    <3>1. blocks \in Seq(BlockState) /\ block \in 0 .. Len(blocks) + 1 /\ block >= 1
      BY <2>1 DEF ChunkInv, ChunkingTypeOK
    <3> QED
      BY <2>1, <3>1, LenProperties
  <2>3. block' \in 0 .. Len(blocks) + 1 /\ block' >= 1
    BY <2>1, <2>2
  <2>4. ChunkingTypeOK'
    BY <2>1, <2>3 DEF ChunkInv, ChunkingTypeOK
  <2>5. ASSUME NEW b \in DOMAIN blocks, ~blocks[b].title, NEW i \in DOMAIN blocks[b].text,
               ~blocks[b].text[i], Behind(b, i)'
        PROVE  Covered(b, i)'
    <3>1. b < block + 1 \/ (b = block + 1 /\ i <= 0)
      BY <2>1, <2>5 DEF Behind
    <3>2. b < block \/ b = block
      BY <1>p, <2>2, <3>1
    <3>3. b < block
      BY <2>1, <2>5, <3>2
    <3>4. Covered(b, i)
      BY <2>5, <3>3 DEF ChunkInv, Behind
    <3> QED
      BY <2>1, <3>4 DEF Covered
  <2>6. PassageFits'
    BY <2>1 DEF ChunkInv, PassageFits
  <2> QED
    BY <2>1, <2>3, <2>4, <2>5, <2>6 DEF ChunkInv
<1>4. CASE ChunkingDone
  <2>1. /\ chunking = "running" /\ block > Len(blocks) /\ chunking' = "done"
        /\ UNCHANGED <<blocks, limit, overlap, block, start, passages>>
    BY <1>4 DEF ChunkingDone
  <2>2. ChunkingTypeOK' /\ PassageFits'
    BY <2>1 DEF ChunkInv, ChunkingTypeOK, PassageFits
  <2>3. \A b, i : (Behind(b, i)' <=> Behind(b, i)) /\ (Covered(b, i)' <=> Covered(b, i))
    BY <2>1 DEF Behind, Covered
  <2> QED
    BY <2>1, <2>2, <2>3 DEF ChunkInv
<1> QED
  BY <1>1, <1>2, <1>3, <1>4 DEF ChunkingNext

\* Before the first cut there is no word to keep.
LEMMA ChunkInvInit == ChunkingInit => ChunkInv
<1> SUFFICES ASSUME ChunkingInit PROVE ChunkInv
  OBVIOUS
<1>1. blocks = <<>> /\ blocks \in Seq(BlockState) /\ Len(blocks) = 0 /\ DOMAIN blocks = {}
  BY DEF ChunkingInit
<1>2. ChunkingTypeOK /\ PassageFits
  BY <1>1, ChunkingAssumption DEF ChunkingInit, ChunkingTypeOK, PassageFits
<1> QED
  BY <1>1, <1>2 DEF ChunkingInit, ChunkInv

\* A finished document has every word behind the cut.
LEMMA DoneKeepsWords == ASSUME ChunkInv PROVE EveryWordKept
<1> SUFFICES ASSUME chunking = "done",
                    NEW b \in DOMAIN blocks, ~blocks[b].title,
                    NEW i \in DOMAIN blocks[b].text, ~blocks[b].text[i]
             PROVE  \E p \in passages : p[1] = b /\ p[2] <= i /\ i <= p[3]
  BY DEF EveryWordKept
<1>1. b < block
  <2>1. blocks \in Seq(BlockState) /\ block > Len(blocks) /\ block \in 0 .. Len(blocks) + 1
    BY DEF ChunkInv, ChunkingTypeOK
  <2>2. DOMAIN blocks = 1 .. Len(blocks) /\ Len(blocks) \in Nat
    BY <2>1, LenProperties
  <2> QED
    BY <2>1, <2>2
<1> QED
  BY <1>1 DEF ChunkInv, Behind, Covered
-----------------------------------------------------------------------------
(* Knowledge bases: the operators of retrieval.                             *)

\* The length of any list of passages is a number.
LEMMA CharsIsNat == ASSUME NEW s \in Seq(Passage) PROVE Chars(s) \in Nat
<1> DEFINE length == [i \in DOMAIN s |-> s[i][2]]
<1>1. Len(s) \in Nat /\ DOMAIN s = 1 .. Len(s) /\ NChunks \in Nat
  BY LenProperties, KnowledgeAssumption
<1>2. IsFiniteSet(DOMAIN s)
  BY <1>1, FS_Interval
<1>3. \A i \in DOMAIN s : length[i] \in Nat
  <2> SUFFICES ASSUME NEW i \in DOMAIN s PROVE s[i][2] \in Nat
    OBVIOUS
  <2>1. s[i] \in Passage
    BY <1>1, ElementOfSeq
  <2> QED
    BY <1>1, <2>1 DEF Passage
<1>4. Chars(s) = SumOf(length, DOMAIN s)
  BY Zenon DEF Chars, SumOf
<1> HIDE DEF length
<1>5. SumOf(length, DOMAIN s) \in Nat
  BY <1>2, <1>3, SumOfNats
<1> QED
  BY <1>4, <1>5

\* fitHitsToBudget keeps a prefix, within the budget when it is more than one.
LEMMA FitHits ==
  ASSUME NEW s \in Seq(Passage)
  PROVE  /\ FitHitsToBudget(s) \in Seq(Passage)
         /\ \A i \in DOMAIN FitHitsToBudget(s) : \E j \in DOMAIN s : FitHitsToBudget(s)[i] = s[j]
         /\ Len(FitHitsToBudget(s)) > 1 => Chars(FitHitsToBudget(s)) <= CharBudget
<1> DEFINE m == Len(s)
           Fits(n) == /\ \A i \in 2 .. n : Chars(SubSeq(s, 1, i)) <= CharBudget
                      /\ n = m \/ (n > 0 /\ Chars(SubSeq(s, 1, n + 1)) > CharBudget)
           over == {n \in 1 .. m - 1 : Chars(SubSeq(s, 1, n + 1)) > CharBudget}
           cut == CHOOSE n \in 0 .. m : Fits(n)
<1>1. m \in Nat /\ DOMAIN s = 1 .. m /\ CharBudget \in Nat /\ \A i \in 1 .. m : s[i] \in Passage
  BY LenProperties, ElementOfSeq, KnowledgeAssumption
<1> HIDE DEF m
<1>2. \A n \in 0 .. m : /\ SubSeq(s, 1, n) \in Seq(Passage) /\ Len(SubSeq(s, 1, n)) = n
                        /\ \A i \in 1 .. n : SubSeq(s, 1, n)[i] = s[i]
  <2> SUFFICES ASSUME NEW n \in 0 .. m
               PROVE  /\ SubSeq(s, 1, n) \in Seq(Passage) /\ Len(SubSeq(s, 1, n)) = n
                      /\ \A i \in 1 .. n : SubSeq(s, 1, n)[i] = s[i]
    OBVIOUS
  <2>1. n \in Int /\ 1 \in Int /\ \A i \in 1 .. n : s[i] \in Passage
    BY <1>1
  <2>2. /\ SubSeq(s, 1, n) \in Seq(Passage)
        /\ Len(SubSeq(s, 1, n)) = IF 1 <= n THEN n - 1 + 1 ELSE 0
        /\ \A i \in 1 .. n - 1 + 1 : SubSeq(s, 1, n)[i] = s[1 + i - 1]
    BY <2>1, SubSeqProperties
  <2>3. (IF 1 <= n THEN n - 1 + 1 ELSE 0) = n /\ n - 1 + 1 = n /\ \A i \in 1 .. n : 1 + i - 1 = i
    BY <1>1
  <2> QED
    BY <2>2, <2>3
<1>3. \A n \in 0 .. m : Chars(SubSeq(s, 1, n)) \in Nat
  BY <1>2, CharsIsNat
<1>4. \E n \in 0 .. m : Fits(n)
  <2>1. ASSUME NEW n \in 0 .. m, NEW i \in 2 .. n, i - 1 \notin over
        PROVE  Chars(SubSeq(s, 1, i)) <= CharBudget
    <3>1. i - 1 \in 1 .. m - 1 /\ i - 1 + 1 = i /\ i \in 0 .. m
      BY <1>1
    <3>2. ~(Chars(SubSeq(s, 1, i)) > CharBudget)
      BY <2>1, <3>1
    <3>3. Chars(SubSeq(s, 1, i)) \in Nat
      BY <1>3, <3>1
    <3> QED
      BY <1>1, <3>2, <3>3
  <2>2. CASE over = {}
    <3>1. m \in 0 .. m
      BY <1>1
    <3>2. \A i \in 2 .. m : Chars(SubSeq(s, 1, i)) <= CharBudget
      BY <2>1, <2>2, <3>1
    <3> QED
      BY <3>1, <3>2
  <2>3. CASE over # {}
    <3>1. over \subseteq Nat
      BY <1>1
    <3>2. \A n \in over : n \in 1 .. m - 1 /\ Chars(SubSeq(s, 1, n + 1)) > CharBudget
      OBVIOUS
    <3> HIDE DEF over
    <3>3. PICK k \in over : \A l \in over : k <= l
      BY <2>3, <3>1, LeastNatural
    <3>4. k \in 0 .. m /\ k > 0 /\ Chars(SubSeq(s, 1, k + 1)) > CharBudget
      BY <1>1, <3>2
    <3>5. \A i \in 2 .. k : i - 1 \notin over
      <4> SUFFICES ASSUME NEW i \in 2 .. k, i - 1 \in over PROVE FALSE
        OBVIOUS
      <4>1. k <= i - 1 /\ i <= k /\ i \in Int /\ k \in Int
        BY <3>3, <3>4
      <4> QED
        BY <4>1
    <3>6. \A i \in 2 .. k : Chars(SubSeq(s, 1, i)) <= CharBudget
      BY <2>1, <3>4, <3>5
    <3> QED
      BY <3>4, <3>6
  <2> QED
    BY <2>2, <2>3
<1>5. cut \in 0 .. m /\ Fits(cut)
  <2> HIDE DEF Fits
  <2> QED
    BY <1>4
<1>6. FitHitsToBudget(s) = SubSeq(s, 1, cut)
  BY DEF FitHitsToBudget, m
<1> HIDE DEF cut
<1> DEFINE kept == SubSeq(s, 1, cut)
<1>7. kept \in Seq(Passage) /\ Len(kept) = cut /\ \A i \in 1 .. cut : kept[i] = s[i]
  BY <1>2, <1>5
<1>8. cut > 1 => Chars(kept) <= CharBudget
  <2> SUFFICES ASSUME cut > 1 PROVE Chars(kept) <= CharBudget
    OBVIOUS
  <2>1. cut \in 2 .. cut
    BY <1>1, <1>5
  <2> QED
    BY <1>5, <2>1
<1> HIDE DEF kept, Fits
<1>9. DOMAIN kept = 1 .. cut /\ 1 .. cut \subseteq DOMAIN s
  BY <1>1, <1>5, <1>7, LenProperties
<1> QED
  BY <1>6, <1>7, <1>8, <1>9 DEF kept

\* Every ranked list is of passages that retrieval may read.
LEMMA RankedRows ==
  ASSUME NEW s \in Ranked
  PROVE  s \in Seq(Passage) /\ \A i \in DOMAIN s : s[i] \in Rows
<1> DEFINE Lists(n) == {t \in [1 .. n -> Rows] : \A i, j \in 1 .. n : i # j => t[i] # t[j]}
<1>1. s \in UNION {Lists(n) : n \in 0 .. TopK}
  BY DEF Ranked
<1>2. PICK n \in 0 .. TopK : s \in Lists(n)
  <2> HIDE DEF Lists
  <2> QED
    BY <1>1
<1>3. s \in [1 .. n -> Rows] /\ n \in Nat
  BY <1>2, KnowledgeAssumption
<1>4. Rows \subseteq Passage
  BY DEF Rows, Passage
<1>5. s \in [1 .. n -> Passage] /\ \A i \in DOMAIN s : s[i] \in Rows
  BY <1>3, <1>4
<1> QED
  BY <1>3, <1>5

\* A finite set of passages can be put in a sequence.
LEMMA ListOfSet ==
  ASSUME NEW S \in SUBSET Passage, IsFiniteSet(S)
  PROVE  SetToSeq(S) \in Seq(Passage) /\ \A i \in DOMAIN SetToSeq(S) : SetToSeq(S)[i] \in S
<1>1. Cardinality(S) \in Nat /\ Bijection(1 .. Cardinality(S), S) # {}
  BY FS_CardinalityType DEF ExistsBijection
<1>2. \E f \in [1 .. Cardinality(S) -> S] : IsInjective(f)
  BY <1>1 DEF Bijection, Injection
<1>3. SetToSeq(S) \in [1 .. Cardinality(S) -> S]
  BY <1>2 DEF SetToSeq
<1>4. SetToSeq(S) \in [1 .. Cardinality(S) -> Passage]
  BY <1>3
<1> QED
  BY <1>1, <1>3, <1>4

\* clampMaxTokens: what is allowed fits, or is the minimum.
LEMMA ClampFits ==
  ASSUME NEW prompt \in Int, NEW requested \in Int
  PROVE  /\ ClampMaxTokens(prompt, requested) \in Int
         /\ \/ prompt + ClampMaxTokens(prompt, requested) <= Context
            \/ ClampMaxTokens(prompt, requested) = Floor
<1>1. Context \in Nat /\ Floor \in Nat
  BY KnowledgeAssumption
<1> QED
  BY <1>1 DEF ClampMaxTokens, Least, Most
-----------------------------------------------------------------------------
(* Knowledge bases: ingests and deletes.                                    *)

IngestPlaces == {"idle", "create", "version", "chunks", "finish", "end"}

\* What holds of one document: it is whole when shown, and nothing outlives the
\* row above it.
DocOK(d) ==
  /\ IngestInv(d)
  /\ doc[d].status = "SUCCEEDED" => d \in version /\ chunks[d] = NChunks
  /\ Exists(d) => base[doc[d].base] = "live"
  /\ d \in version => Exists(d)
  /\ chunks[d] > 0 => d \in version

DocsOK == \A d \in Docs : DocOK(d)

KnowTypes ==
  /\ base \in [Bases -> {"none", "live", "gone"}] /\ doc \in [Docs -> DocState]
  /\ version \subseteq Docs /\ chunks \in [Docs -> 0 .. NChunks]
  /\ ingest \in [Docs -> IngestPlaces]

\* The parts of the invariant of knowledge bases.
LEMMA KnowInvParts ==
  KnowInv <=> /\ KnowTypes /\ DocsOK /\ AskInv
              /\ RetrievedIsOwn /\ PassagesWithinBudget /\ AnswerFits
<1>1. KnowTypes /\ ask \in AskState => KnowledgeTypeOK
  BY DEF KnowTypes, DocState, IngestPlaces, AskState, KnowledgeTypeOK
<1>2. KnowledgeTypeOK /\ doc \in [Docs -> DocState] => KnowTypes
  BY DEF KnowTypes, IngestPlaces, KnowledgeTypeOK
<1>3. DocsOK <=> (\A d \in Docs : IngestInv(d)) /\ IngestedIsWhole /\ NoOrphans
  BY DEF DocsOK, DocOK, IngestedIsWhole, NoOrphans
<1>4. KnowTypes => doc \in [Docs -> DocState]
  BY DEF KnowTypes
<1>5. AskInv => ask \in AskState
  BY DEF AskInv
<1> QED
  BY <1>1, <1>2, <1>3, <1>4, <1>5 DEF KnowInv, RetrievalIsSound

\* The rows change and the request does not: a document whose ingest began keeps
\* its base, so what was retrieved stays the customer's.
LEMMA RowsChange ==
  ASSUME KnowInv, UNCHANGED ask, KnowTypes', \A d \in Docs : DocOK(d)',
         \A d \in Docs : ingest[d] # "idle" =>
                           ingest'[d] # "idle" /\ doc'[d].base = doc[d].base
  PROVE  KnowInv'
<1>1. AskInv /\ RetrievedIsOwn /\ PassagesWithinBudget /\ AnswerFits
  BY KnowInvParts
<1>2. \A i \in DOMAIN ask.hits : ask.hits[i][1] \in Docs /\ ingest[ask.hits[i][1]] # "idle"
  <2> SUFFICES ASSUME NEW i \in DOMAIN ask.hits PROVE ask.hits[i][1] \in Docs
    BY <1>1 DEF AskInv
  <2>1. ask.hits \in Seq(Passage)
    BY <1>1 DEF AskInv, AskState
  <2>2. ask.hits[i] \in Passage
    BY <2>1, LenProperties, ElementOfSeq
  <2> QED
    BY <2>2 DEF Passage
<1>3. AskInv'
  BY <1>1, <1>2 DEF AskInv
<1>4. RetrievedIsOwn'
  BY <1>1, <1>2 DEF RetrievedIsOwn
<1>5. PassagesWithinBudget' /\ AnswerFits'
  BY <1>1 DEF PassagesWithinBudget, AnswerFits
<1>6. DocsOK'
  BY DEF DocsOK
<1> QED
  BY <1>3, <1>4, <1>5, <1>6, KnowInvParts, PTL

\* One document's rows change.
LEMMA OneDocChanges ==
  ASSUME KnowInv, UNCHANGED <<base, ask>>, NEW d \in Docs, NEW place \in IngestPlaces \ {"idle"},
         ingest' = [ingest EXCEPT ![d] = place],
         doc' \in [Docs -> DocState], \A e \in Docs \ {d} : doc'[e] = doc[e],
         ingest[d] # "idle" => doc'[d].base = doc[d].base,
         version' \subseteq Docs, \A e \in Docs \ {d} : e \in version' <=> e \in version,
         chunks' \in [Docs -> 0 .. NChunks], \A e \in Docs \ {d} : chunks'[e] = chunks[e],
         DocOK(d)'
  PROVE  KnowInv'
<1>1. KnowTypes /\ \A e \in Docs : DocOK(e)
  BY KnowInvParts DEF DocsOK
<1>2. ingest \in [Docs -> IngestPlaces]
  BY <1>1 DEF KnowTypes
<1>3. /\ ingest' \in [Docs -> IngestPlaces] /\ ingest'[d] = place
      /\ \A e \in Docs \ {d} : ingest'[e] = ingest[e]
  BY <1>2
<1>4. KnowTypes'
  BY <1>1, <1>3 DEF KnowTypes
<1>5. \A e \in Docs : DocOK(e)'
  <2> SUFFICES ASSUME NEW e \in Docs \ {d} PROVE DocOK(e)'
    OBVIOUS
  <2>1. /\ doc'[e] = doc[e] /\ ingest'[e] = ingest[e] /\ chunks'[e] = chunks[e]
        /\ (e \in version' <=> e \in version) /\ base' = base /\ DocOK(e)
    BY <1>1, <1>3
  <2> QED
    BY <2>1 DEF DocOK, IngestInv, Exists
<1>6. \A e \in Docs : ingest[e] # "idle" => ingest'[e] # "idle" /\ doc'[e].base = doc[e].base
  BY <1>3
<1> QED
  BY <1>4, <1>5, <1>6, RowsChange
\* The statements of an ingest.
LEMMA IngestStep ==
  ASSUME KnowInv, NEW d \in Docs, NEW b \in Bases,
         \/ IngestKnowledgeDocument(d, b) \/ CreateDocument(d) \/ CreateVersion(d)
         \/ CreateChunks(d) \/ Succeed(d) \/ IngestFails(d)
  PROVE  KnowInv'
<1>t. /\ base \in [Bases -> {"none", "live", "gone"}] /\ doc \in [Docs -> DocState]
      /\ version \subseteq Docs /\ chunks \in [Docs -> 0 .. NChunks]
      /\ ingest \in [Docs -> IngestPlaces] /\ DocOK(d) /\ NChunks \in Nat \ {0}
  BY KnowInvParts, KnowledgeAssumption DEF KnowTypes, DocsOK
<1>d. doc[d] \in DocState /\ chunks[d] \in 0 .. NChunks /\ NChunks \in 0 .. NChunks
  BY <1>t
<1>1. CASE IngestKnowledgeDocument(d, b)
  <2>1. /\ ingest[d] = "idle" /\ ingest' = [ingest EXCEPT ![d] = "create"]
        /\ doc' = [doc EXCEPT ![d] = [doc[d] EXCEPT !.base = b]]
        /\ UNCHANGED <<base, version, chunks, ask>>
    BY <1>1 DEF IngestKnowledgeDocument
  <2>2. [doc[d] EXCEPT !.base = b] \in DocState /\ [doc[d] EXCEPT !.base = b].status = doc[d].status
        /\ [doc[d] EXCEPT !.base = b].base = b
    BY <1>d DEF DocState
  <2>3. /\ doc' \in [Docs -> DocState] /\ \A e \in Docs \ {d} : doc'[e] = doc[e]
        /\ doc'[d].status = doc[d].status /\ doc'[d].base = b /\ ingest'[d] = "create"
    BY <1>t, <2>1, <2>2
  <2>4. DocOK(d)'
    BY <1>t, <2>1, <2>3 DEF DocOK, IngestInv, Exists
  <2>5. "create" \in IngestPlaces \ {"idle"}
    BY DEF IngestPlaces
  <2> QED
    BY <1>t, <2>1, <2>3, <2>4, <2>5, OneDocChanges
<1>2. CASE CreateDocument(d)
  <2> DEFINE ok == base[doc[d].base] = "live"
             to == IF ok THEN "version" ELSE "end"
             status == IF ok THEN "RUNNING" ELSE "none"
  <2>1. /\ ingest[d] = "create" /\ ingest' = [ingest EXCEPT ![d] = to]
        /\ doc' = [doc EXCEPT ![d] = [doc[d] EXCEPT !.status = status]]
        /\ UNCHANGED <<base, version, chunks, ask>>
    BY <1>2 DEF CreateDocument, Steps
  <2>2. to \in IngestPlaces \ {"idle"} /\ (ok => to = "version" /\ status = "RUNNING")
        /\ (~ok => to = "end" /\ status = "none") /\ status \in {"none", "RUNNING"}
    BY DEF IngestPlaces
  <2> HIDE DEF to, status
  <2>3. [doc[d] EXCEPT !.status = status] \in DocState
        /\ [doc[d] EXCEPT !.status = status].status = status
        /\ [doc[d] EXCEPT !.status = status].base = doc[d].base
    BY <1>d, <2>2 DEF DocState
  <2>4. /\ doc' \in [Docs -> DocState] /\ \A e \in Docs \ {d} : doc'[e] = doc[e]
        /\ doc'[d].status = status /\ doc'[d].base = doc[d].base /\ ingest'[d] = to
    BY <1>t, <2>1, <2>3
  <2>5. DocOK(d)'
    BY <1>t, <2>1, <2>2, <2>4 DEF DocOK, IngestInv, Exists
  <2> QED
    BY <1>t, <2>1, <2>2, <2>4, <2>5, OneDocChanges
<1>3. CASE CreateVersion(d)
  <2> DEFINE to == IF Exists(d) THEN "chunks" ELSE "end"
  <2>1. /\ ingest[d] = "version" /\ ingest' = [ingest EXCEPT ![d] = to]
        /\ version' = IF Exists(d) THEN version \cup {d} ELSE version
        /\ UNCHANGED <<base, doc, chunks, ask>>
    BY <1>3 DEF CreateVersion, Steps
  <2>2. to \in {"chunks", "end"} /\ to \in IngestPlaces \ {"idle"}
    BY DEF IngestPlaces
  <2> HIDE DEF to
  <2>3. /\ version' \subseteq Docs /\ (\A e \in Docs \ {d} : e \in version' <=> e \in version)
        /\ ingest'[d] = to /\ (d \in version' => d \in version \/ Exists(d))
        /\ (d \in version => d \in version')
    BY <1>t, <2>1
  <2>4. DocOK(d)'
    BY <1>t, <2>1, <2>2, <2>3 DEF DocOK, IngestInv, Exists
  <2> QED
    BY <1>t, <2>1, <2>2, <2>3, <2>4, OneDocChanges
<1>4. CASE CreateChunks(d)
  <2> DEFINE to == IF d \in version THEN "finish" ELSE "end"
             stored == IF d \in version THEN NChunks ELSE chunks[d]
  <2>1. /\ ingest[d] = "chunks" /\ ingest' = [ingest EXCEPT ![d] = to]
        /\ chunks' = [chunks EXCEPT ![d] = stored]
        /\ UNCHANGED <<base, doc, version, ask>>
    BY <1>4 DEF CreateChunks, Steps
  <2>2. /\ to \in IngestPlaces \ {"idle"} /\ to \in {"finish", "end"} /\ stored \in 0 .. NChunks
        /\ (to = "finish" => d \in version) /\ (d \in version => stored = NChunks)
        /\ (d \notin version => stored = chunks[d])
    BY <1>d DEF IngestPlaces
  <2> HIDE DEF to, stored
  <2>3. /\ chunks' \in [Docs -> 0 .. NChunks] /\ \A e \in Docs \ {d} : chunks'[e] = chunks[e]
        /\ chunks'[d] = stored /\ ingest'[d] = to
    BY <1>t, <2>1, <2>2
  <2>4. DocOK(d)'
    BY <1>t, <2>1, <2>2, <2>3 DEF DocOK, IngestInv, Exists
  <2> QED
    BY <1>t, <2>1, <2>2, <2>3, <2>4, OneDocChanges
<1>5. CASE Succeed(d)
  <2> DEFINE status == IF Exists(d) THEN "SUCCEEDED" ELSE doc[d].status
  <2>1. /\ ingest[d] = "finish" /\ ingest' = [ingest EXCEPT ![d] = "end"]
        /\ doc' = [doc EXCEPT ![d] = [doc[d] EXCEPT !.status = status]]
        /\ UNCHANGED <<base, version, chunks, ask>>
    BY <1>5, <1>t DEF Succeed, Steps
  <2>2. /\ status \in {"none", "RUNNING", "SUCCEEDED"} /\ (status # "none" <=> Exists(d))
        /\ "end" \in IngestPlaces \ {"idle"}
    BY <1>d DEF IngestPlaces, DocState, Exists
  <2> HIDE DEF status
  <2>3. [doc[d] EXCEPT !.status = status] \in DocState
        /\ [doc[d] EXCEPT !.status = status].status = status
        /\ [doc[d] EXCEPT !.status = status].base = doc[d].base
    BY <1>d, <2>2 DEF DocState
  <2>4. /\ doc' \in [Docs -> DocState] /\ \A e \in Docs \ {d} : doc'[e] = doc[e]
        /\ doc'[d].status = status /\ doc'[d].base = doc[d].base /\ ingest'[d] = "end"
    BY <1>t, <2>1, <2>3
  <2>5. DocOK(d)'
    BY <1>t, <2>1, <2>2, <2>4 DEF DocOK, IngestInv, Exists
  <2> QED
    BY <1>t, <2>1, <2>2, <2>4, <2>5, OneDocChanges
<1>6. CASE IngestFails(d)
  <2>1. /\ ingest[d] # "idle" /\ ingest' = [ingest EXCEPT ![d] = "end"]
        /\ UNCHANGED <<base, doc, version, chunks, ask>>
    BY <1>6 DEF IngestFails
  <2>2. ingest'[d] = "end" /\ "end" \in IngestPlaces \ {"idle"}
    BY <1>t, <2>1 DEF IngestPlaces
  <2>3. DocOK(d)'
    BY <1>t, <2>1, <2>2 DEF DocOK, IngestInv, Exists
  <2> QED
    BY <1>t, <2>1, <2>2, <2>3, OneDocChanges
<1> QED
  BY <1>1, <1>2, <1>3, <1>4, <1>5, <1>6

\* Deletes cascade: all rows of the documents go, and only those.
LEMMA RemovedStep ==
  ASSUME KnowInv, NEW ds \in SUBSET Docs, Removed(ds), UNCHANGED <<ingest, ask>>,
         base' \in [Bases -> {"none", "live", "gone"}],
         \A e \in ds : Exists(e),
         \A e \in Docs \ ds : Exists(e) /\ base[doc[e].base] = "live" => base'[doc[e].base] = "live"
  PROVE  KnowInv'
<1>t. /\ doc \in [Docs -> DocState] /\ version \subseteq Docs
      /\ chunks \in [Docs -> 0 .. NChunks] /\ ingest \in [Docs -> IngestPlaces]
      /\ (\A e \in Docs : DocOK(e)) /\ NChunks \in Nat \ {0}
  BY KnowInvParts, KnowledgeAssumption DEF KnowTypes, DocsOK
<1>1. \A e \in Docs : doc[e] \in DocState /\ chunks[e] \in 0 .. NChunks /\ 0 \in 0 .. NChunks
  BY <1>t
<1>2. \A e \in Docs : /\ [doc[e] EXCEPT !.status = "none"] \in DocState
                      /\ [doc[e] EXCEPT !.status = "none"].status = "none"
                      /\ [doc[e] EXCEPT !.status = "none"].base = doc[e].base
  BY <1>1 DEF DocState
<1>3. /\ doc' \in [Docs -> DocState]
      /\ \A e \in Docs \ ds : doc'[e] = doc[e]
      /\ \A e \in ds : doc'[e].status = "none" /\ doc'[e].base = doc[e].base
  BY <1>1, <1>2 DEF Removed
<1>4. /\ chunks' \in [Docs -> 0 .. NChunks] /\ version' = version \ ds
      /\ \A e \in Docs \ ds : chunks'[e] = chunks[e]
      /\ \A e \in ds : chunks'[e] = 0
  BY <1>1 DEF Removed
<1>5. KnowTypes'
  BY <1>t, <1>3, <1>4 DEF KnowTypes
<1>6. ASSUME NEW e \in ds PROVE DocOK(e)'
  <2>1. ingest[e] # "idle" /\ ingest[e] # "create" /\ doc[e].base \in Bases
    BY <1>t, <1>6 DEF DocOK, IngestInv, Exists
  <2> QED
    BY <1>3, <1>4, <2>1 DEF DocOK, IngestInv, Exists
<1>7. ASSUME NEW e \in Docs \ ds PROVE DocOK(e)'
  <2>1. /\ doc'[e] = doc[e] /\ ingest'[e] = ingest[e] /\ chunks'[e] = chunks[e]
        /\ (e \in version' <=> e \in version) /\ DocOK(e)
    BY <1>t, <1>3, <1>4
  <2> QED
    BY <2>1 DEF DocOK, IngestInv, Exists
<1>8. \A e \in Docs : ingest[e] # "idle" => ingest'[e] # "idle" /\ doc'[e].base = doc[e].base
  BY <1>3
<1> QED
  BY <1>5, <1>6, <1>7, <1>8, RowsChange

\* Creating or deleting a base leaves what others ingest and ask as it was.
LEMMA BaseStep ==
  ASSUME KnowInv, NEW b \in Bases, CreateKnowledgeBase(b) \/ DeleteKnowledgeBase(b)
  PROVE  KnowInv'
<1>t. /\ base \in [Bases -> {"none", "live", "gone"}] /\ doc \in [Docs -> DocState]
      /\ version \subseteq Docs /\ chunks \in [Docs -> 0 .. NChunks]
      /\ ingest \in [Docs -> IngestPlaces] /\ \A e \in Docs : DocOK(e)
  BY KnowInvParts DEF KnowTypes, DocsOK
<1>b. \A e \in Docs : Exists(e) => doc[e].base \in Bases
  BY <1>t DEF DocOK, IngestInv, Exists
<1>1. CASE CreateKnowledgeBase(b)
  <2>1. base' = [base EXCEPT ![b] = "live"] /\ UNCHANGED <<doc, version, chunks, ingest, ask>>
    BY <1>1 DEF CreateKnowledgeBase
  <2>2. base' \in [Bases -> {"none", "live", "gone"}]
        /\ \A x \in Bases : base[x] = "live" => base'[x] = "live"
    BY <1>t, <2>1
  <2>3. KnowTypes'
    BY <1>t, <2>1, <2>2 DEF KnowTypes
  <2>4. ASSUME NEW e \in Docs PROVE DocOK(e)'
    <3>1. DocOK(e) /\ (Exists(e) => doc[e].base \in Bases)
      BY <1>t, <1>b
    <3> QED
      BY <2>1, <2>2, <3>1 DEF DocOK, IngestInv, Exists
  <2> QED
    BY <2>1, <2>3, <2>4, RowsChange
<1>2. CASE DeleteKnowledgeBase(b)
  <2> DEFINE ds == {d \in Docs : Exists(d) /\ doc[d].base = b}
  <2>1. base' = [base EXCEPT ![b] = "gone"] /\ Removed(ds) /\ UNCHANGED <<ingest, ask>>
    BY <1>2 DEF DeleteKnowledgeBase
  <2>2. base' \in [Bases -> {"none", "live", "gone"}]
        /\ \A x \in Bases : x # b => base'[x] = base[x]
    BY <1>t, <2>1
  <2>3. \A e \in Docs \ ds : Exists(e) /\ base[doc[e].base] = "live" => base'[doc[e].base] = "live"
    BY <1>b, <2>2
  <2>4. ds \in SUBSET Docs /\ \A e \in ds : Exists(e)
    OBVIOUS
  <2> HIDE DEF ds
  <2> QED
    BY <2>1, <2>2, <2>3, <2>4, RemovedStep
<1> QED
  BY <1>1, <1>2

\* A deleted document takes its rows along, and no others.
LEMMA DeleteDocumentStep ==
  ASSUME KnowInv, NEW d \in Docs, DeleteKnowledgeDocument(d)
  PROVE  KnowInv'
<1>1. Exists(d) /\ Removed({d}) /\ UNCHANGED <<base, ingest, ask>>
  BY DEF DeleteKnowledgeDocument
<1>2. base' \in [Bases -> {"none", "live", "gone"}]
  BY <1>1, KnowInvParts DEF KnowTypes
<1> QED
  BY <1>1, <1>2, RemovedStep
-----------------------------------------------------------------------------
(* Knowledge bases: retrieval.                                              *)

\* The request moves and the rows do not.
LEMMA AskChanges ==
  ASSUME KnowInv, UNCHANGED <<base, doc, version, chunks, ingest>>, AskInv',
         RetrievedIsOwn', PassagesWithinBudget', AnswerFits'
  PROVE  KnowInv'
<1>1. KnowTypes /\ DocsOK
  BY KnowInvParts
<1>2. KnowTypes'
  BY <1>1 DEF KnowTypes
<1>3. DocsOK'
  BY <1>1 DEF DocsOK, DocOK, IngestInv, Exists
<1> QED
  BY <1>2, <1>3, KnowInvParts, PTL

\* Steps before anything is retrieved.
LEMMA AskBegins ==
  ASSUME KnowInv, RetrieveCustomerKnowledge \/ ReadBases
  PROVE  KnowInv'
<1>t. ask \in AskState /\ AskInv /\ UNCHANGED <<base, doc, version, chunks, ingest>>
  BY KnowInvParts DEF AskInv, RetrieveCustomerKnowledge, ReadBases
<1>1. CASE RetrieveCustomerKnowledge
  <2>1. PICK c \in Customers, w \in SUBSET Bases \ {{}} :
          ask' = [ask EXCEPT !.pc = "bases", !.who = c, !.wanted = w]
    BY <1>1 DEF RetrieveCustomerKnowledge
  <2>2. ask.hits = <<>> /\ ask.bare = {}
    BY <1>1, <1>t DEF AskInv, RetrieveCustomerKnowledge
  <2>3. ask' \in AskState /\ ask'.pc = "bases" /\ ask'.hits = <<>> /\ ask'.bare = {}
    BY <1>t, <2>1, <2>2 DEF AskState
  <2>4. AskInv' /\ RetrievedIsOwn' /\ PassagesWithinBudget' /\ AnswerFits'
    BY <2>3 DEF AskInv, RetrievedIsOwn, PassagesWithinBudget, AnswerFits
  <2> QED
    BY <1>t, <2>4, AskChanges
<1>2. CASE ReadBases
  <2>1. /\ ask.pc = "bases"
        /\ ask' = [ask EXCEPT !.pc = IF OwnBases THEN "chunks" ELSE "refused"]
    BY <1>2 DEF ReadBases
  <2>2. ask.hits = <<>> /\ ask.bare = {} /\ (OwnBases => \A b \in ask.wanted : Owner[b] = ask.who)
    BY <1>t, <2>1 DEF AskInv, OwnBases, Visible
  <2>3. /\ ask' \in AskState /\ ask'.hits = <<>> /\ ask'.who = ask.who /\ ask'.wanted = ask.wanted
        /\ ask'.bare = {}
        /\ \/ ask'.pc = "chunks" /\ OwnBases
           \/ ask'.pc = "refused"
    BY <1>t, <2>1, <2>2 DEF AskState
  <2>4. AskInv' /\ RetrievedIsOwn' /\ PassagesWithinBudget' /\ AnswerFits'
    BY <2>2, <2>3 DEF AskInv, RetrievedIsOwn, PassagesWithinBudget, AnswerFits
  <2> QED
    BY <1>t, <2>4, AskChanges
<1> QED
  BY <1>1, <1>2

\* The passages read are of finished documents of the bases asked for.
LEMMA ReadChunksStep == ASSUME KnowInv, ReadChunks PROVE KnowInv'
<1>t. /\ ask \in AskState /\ AskInv /\ UNCHANGED <<base, doc, version, chunks, ingest>>
      /\ doc \in [Docs -> DocState] /\ (\A d \in Docs : DocOK(d)) /\ ask.pc = "chunks" /\ ask.bare = {}
  BY KnowInvParts DEF AskInv, ReadChunks, KnowTypes, DocsOK
<1>1. PICK s \in Ranked : ask' = [ask EXCEPT !.pc = "answer", !.hits = FitHitsToBudget(s)]
  BY DEF ReadChunks
<1> DEFINE kept == FitHitsToBudget(s)
<1>2. /\ kept \in Seq(Passage) /\ (\A i \in DOMAIN kept : kept[i] \in Rows)
      /\ (Len(kept) > 1 => Chars(kept) <= CharBudget)
  <2>1. s \in Seq(Passage) /\ \A i \in DOMAIN s : s[i] \in Rows
    BY RankedRows
  <2> QED
    BY <2>1, FitHits
<1>3. ask' = [ask EXCEPT !.pc = "answer", !.hits = kept]
  BY <1>1
<1> HIDE DEF kept
<1>4. /\ ask' \in AskState /\ ask'.pc = "answer" /\ ask'.hits = kept
      /\ ask'.who = ask.who /\ ask'.wanted = ask.wanted /\ ask'.bare = {}
  BY <1>t, <1>2, <1>3 DEF AskState
<1>5. \A r \in Rows : /\ r[1] \in Docs /\ doc[r[1]].status = "SUCCEEDED"
                      /\ doc[r[1]].base \in ask.wanted
  BY DEF Rows
<1>6. \A d \in Docs : doc[d].status = "SUCCEEDED" => ingest[d] # "idle"
  BY <1>t DEF DocOK, IngestInv
<1>7. \A b \in ask.wanted : Owner[b] = ask.who
  BY <1>t DEF AskInv
<1>8. AskInv'
  BY <1>t, <1>2, <1>4, <1>5, <1>6, <1>7 DEF AskInv
<1>9. RetrievedIsOwn'
  BY <1>t, <1>2, <1>4, <1>5, <1>7 DEF RetrievedIsOwn
<1>10. PassagesWithinBudget' /\ AnswerFits'
  BY <1>2, <1>4 DEF PassagesWithinBudget, AnswerFits
<1> QED
  BY <1>t, <1>8, <1>9, <1>10, AskChanges

\* The catalogue lists finished documents of the bases asked for.
LEMMA CatalogStep == ASSUME KnowInv, CatalogCustomerKnowledge PROVE KnowInv'
<1>t. /\ ask \in AskState /\ AskInv /\ UNCHANGED <<base, doc, version, chunks, ingest>>
      /\ (\A d \in Docs : DocOK(d)) /\ ask.pc = "bases" /\ ask.hits = <<>> /\ ask.bare = {}
      /\ IsFiniteSet(Docs) /\ NChunks \in Nat \ {0}
  BY KnowInvParts, KnowledgeAssumption DEF AskInv, CatalogCustomerKnowledge, DocsOK
<1> DEFINE listed == UNION {Finished(b) : b \in ask.wanted}
           alone == {b \in ask.wanted : Finished(b) = {}}
           first == {<<d, 1>> : d \in listed}
           list == SetToSeq(first)
<1>1. ask' = IF OwnBases
             THEN [ask EXCEPT !.pc = "answer", !.mode = "catalog", !.bare = alone, !.hits = list]
             ELSE [ask EXCEPT !.pc = "refused"]
  BY DEF CatalogCustomerKnowledge
<1>0. /\ listed \subseteq Docs /\ alone \subseteq ask.wanted
      /\ \A d \in listed : doc[d].status = "SUCCEEDED" /\ doc[d].base \in ask.wanted
  BY DEF Finished
<1> HIDE DEF listed, alone
<1>2. first \in SUBSET Passage
  BY <1>t, <1>0 DEF Passage
<1>3. IsFiniteSet(first)
  <2> DEFINE f == [d \in listed |-> <<d, 1>>]
  <2>1. IsFiniteSet(listed)
    BY <1>t, <1>0, FS_Subset
  <2>2. f \in Surjection(listed, first)
    BY DEF Surjection
  <2> HIDE DEF f, first
  <2> QED
    BY <2>1, <2>2, FS_Surjection
<1>4. \A p \in first : /\ p[1] \in Docs /\ doc[p[1]].status = "SUCCEEDED"
                       /\ doc[p[1]].base \in ask.wanted
  BY <1>0
<1> HIDE DEF first
<1>5. list \in Seq(Passage) /\ \A i \in DOMAIN list : list[i] \in first
  BY <1>2, <1>3, ListOfSet
<1> HIDE DEF list
<1>6. CASE OwnBases
  <2>1. /\ ask' \in AskState /\ ask'.pc = "answer" /\ ask'.hits = list /\ ask'.mode = "catalog"
        /\ ask'.who = ask.who /\ ask'.wanted = ask.wanted /\ ask'.bare = alone
    <3>1. ask.wanted \subseteq Bases
      BY <1>t DEF AskState
    <3> QED
      BY <1>t, <1>0, <1>1, <1>5, <1>6, <3>1 DEF AskState
  <2>2. \A d \in Docs : doc[d].status = "SUCCEEDED" => ingest[d] # "idle"
    BY <1>t DEF DocOK, IngestInv
  <2>3. \A b \in ask.wanted : Owner[b] = ask.who
    BY <1>6 DEF OwnBases, Visible
  <2>4. AskInv'
    BY <1>t, <1>4, <1>5, <2>1, <2>2, <2>3 DEF AskInv
  <2>5. RetrievedIsOwn'
    BY <1>t, <1>0, <1>4, <1>5, <2>1, <2>3 DEF RetrievedIsOwn
  <2>6. PassagesWithinBudget' /\ AnswerFits'
    BY <2>1 DEF PassagesWithinBudget, AnswerFits
  <2> QED
    BY <1>t, <2>4, <2>5, <2>6, AskChanges
<1>7. CASE ~OwnBases
  <2>1. ask' \in AskState /\ ask'.pc = "refused" /\ ask'.hits = <<>> /\ ask'.bare = {}
    BY <1>t, <1>1, <1>7 DEF AskState
  <2>2. AskInv' /\ RetrievedIsOwn' /\ PassagesWithinBudget' /\ AnswerFits'
    BY <2>1 DEF AskInv, RetrievedIsOwn, PassagesWithinBudget, AnswerFits
  <2> QED
    BY <1>t, <2>2, AskChanges
<1> QED
  BY <1>6, <1>7

\* What is applied to the prompt are the passages that were retrieved.
LEMMA ApplyStep == ASSUME KnowInv, ApplyRetrievalContext PROVE KnowInv'
<1>t. /\ ask \in AskState /\ AskInv /\ UNCHANGED <<base, doc, version, chunks, ingest>>
      /\ RetrievedIsOwn /\ PassagesWithinBudget /\ ask.pc = "answer" /\ Context \in Nat
  BY KnowInvParts, KnowledgeAssumption DEF AskInv, ApplyRetrievalContext
<1>1. PICK turns \in 1 .. Context, requested \in 1 .. Context + 1 :
        ask' = [ask EXCEPT !.pc = "done", !.prompt = turns + Chars(ask.hits) + Cardinality(ask.bare),
          !.tokens = ClampMaxTokens(turns + Chars(ask.hits) + Cardinality(ask.bare), requested)]
  BY DEF ApplyRetrievalContext
<1> DEFINE prompt == turns + Chars(ask.hits) + Cardinality(ask.bare)
           tokens == ClampMaxTokens(prompt, requested)
<1>2. prompt \in Int /\ requested \in Int
  <2>1. ask.hits \in Seq(Passage)
    BY <1>t DEF AskState
  <2>2. Chars(ask.hits) \in Nat
    BY <2>1, CharsIsNat
  <2>3. ask.bare \subseteq Bases /\ IsFiniteSet(Bases)
    BY <1>t, KnowledgeAssumption DEF AskState
  <2>4. Cardinality(ask.bare) \in Nat
    BY <2>3, FS_Subset, FS_CardinalityType
  <2> QED
    BY <1>t, <2>2, <2>4
<1>3. ask' = [ask EXCEPT !.pc = "done", !.prompt = prompt, !.tokens = tokens]
  BY <1>1
<1> HIDE DEF prompt
<1>4. tokens \in Int /\ (prompt + tokens <= Context \/ tokens = Floor)
  BY <1>2, ClampFits
<1> HIDE DEF tokens
<1>5. /\ ask' \in AskState /\ ask'.pc = "done" /\ ask'.hits = ask.hits /\ ask'.mode = ask.mode
      /\ ask'.who = ask.who /\ ask'.wanted = ask.wanted /\ ask'.bare = ask.bare
      /\ ask'.prompt = prompt /\ ask'.tokens = tokens
  BY <1>t, <1>2, <1>3, <1>4 DEF AskState
<1>6. AskInv' /\ RetrievedIsOwn' /\ PassagesWithinBudget'
  BY <1>t, <1>5 DEF AskInv, RetrievedIsOwn, PassagesWithinBudget
<1>7. AnswerFits'
  BY <1>4, <1>5 DEF AnswerFits
<1> QED
  BY <1>t, <1>6, <1>7, AskChanges

\* Every step of ingest, deletion and retrieval keeps the invariant.
LEMMA KnowledgeStep == ASSUME KnowInv, KnowledgeNext PROVE KnowInv'
<1>1. CASE \E b \in Bases : CreateKnowledgeBase(b) \/ DeleteKnowledgeBase(b)
  BY <1>1, BaseStep
<1>2. CASE \E d \in Docs, b \in Bases : IngestKnowledgeDocument(d, b)
  BY <1>2, IngestStep
<1>3. ASSUME NEW d \in Docs, \/ CreateDocument(d) \/ CreateVersion(d) \/ CreateChunks(d)
                             \/ Succeed(d) \/ IngestFails(d)
      PROVE  KnowInv'
  <2>1. Bases # {}
    <3>1. DocOK(d) /\ ingest[d] # "idle"
      BY <1>3, KnowInvParts
      DEF DocsOK, CreateDocument, CreateVersion, CreateChunks, Succeed, IngestFails, Steps
    <3> QED
      BY <3>1 DEF DocOK, IngestInv
  <2> QED
    BY <1>3, <2>1, IngestStep
<1>4. CASE \E d \in Docs : DeleteKnowledgeDocument(d)
  BY <1>4, DeleteDocumentStep
<1>5. CASE RetrieveCustomerKnowledge \/ ReadBases
  BY <1>5, AskBegins
<1> QED
  BY <1>1, <1>2, <1>3, <1>4, <1>5, ReadChunksStep, CatalogStep, ApplyStep DEF KnowledgeNext

\* At the start there are no bases and no questions.
LEMMA KnowInvInit == KnowledgeInit => KnowInv
<1> SUFFICES ASSUME KnowledgeInit PROVE KnowInv
  OBVIOUS
<1>1. NoDoc \in DocState /\ NoDoc.status = "none"
  BY DEF NoDoc, DocState
<1>2. NoAsk \in AskState /\ NoAsk.pc = "idle" /\ NoAsk.hits = <<>> /\ NoAsk.bare = {}
  BY DEF NoAsk, AskState
<1>3. KnowTypes
  BY <1>1, KnowledgeAssumption DEF KnowledgeInit, KnowTypes, IngestPlaces
<1>4. DocsOK
  BY <1>1 DEF KnowledgeInit, DocsOK, DocOK, IngestInv, Exists
<1>5. AskInv /\ RetrievedIsOwn /\ PassagesWithinBudget /\ AnswerFits
  BY <1>2 DEF KnowledgeInit, AskInv, RetrievedIsOwn, PassagesWithinBudget, AnswerFits
<1> QED
  BY <1>3, <1>4, <1>5, KnowInvParts
-----------------------------------------------------------------------------
(* The features together.                                                   *)

PlatformInv == RouteInv /\ KnowInv /\ ChunkInv /\ JobsInv /\ ReceiptInv /\ part \in Parts

\* A feature that does not move keeps its invariant.
LEMMA FeaturesRest ==
  /\ RouteInv /\ UNCHANGED routeVars => RouteInv'
  /\ KnowInv /\ UNCHANGED knowVars => KnowInv'
  /\ ChunkInv /\ UNCHANGED chunkVars => ChunkInv'
  /\ JobsInv /\ UNCHANGED jobVars => JobsInv'
  /\ ReceiptInv /\ UNCHANGED receiptVars => ReceiptInv'
<1>1. RouteInv /\ UNCHANGED routeVars => RouteInv'
  BY DEF routeVars, RouteInv, RoutingTypeOK, RoutedAsAllowed, RoutedIsEntitled,
         RoutedIsWithinPolicy, UnnamedIsCheapest
<1>2. ASSUME KnowInv, UNCHANGED knowVars PROVE KnowInv'
  <2>1. UNCHANGED <<base, doc, version, chunks, ingest, ask>>
    BY <1>2 DEF knowVars
  <2>2. AskInv /\ RetrievedIsOwn /\ PassagesWithinBudget /\ AnswerFits
    BY <1>2, KnowInvParts
  <2>3. AskInv' /\ RetrievedIsOwn' /\ PassagesWithinBudget' /\ AnswerFits'
    BY <2>1, <2>2 DEF AskInv, RetrievedIsOwn, PassagesWithinBudget, AnswerFits
  <2> QED
    BY <1>2, <2>1, <2>3, AskChanges
<1>3. ASSUME ChunkInv, UNCHANGED chunkVars PROVE ChunkInv'
  <2>1. UNCHANGED <<blocks, limit, overlap, block, start, passages, chunking>>
    BY <1>3 DEF chunkVars
  <2>2. \A b, i : (Behind(b, i)' <=> Behind(b, i)) /\ (Covered(b, i)' <=> Covered(b, i))
    BY <2>1 DEF Behind, Covered
  <2>3. ChunkingTypeOK' /\ PassageFits'
    BY <1>3, <2>1 DEF ChunkInv, ChunkingTypeOK, PassageFits
  <2> QED
    BY <1>3, <2>1, <2>2, <2>3 DEF ChunkInv
<1>4. ASSUME JobsInv, UNCHANGED jobVars PROVE JobsInv'
  <2>1. UNCHANGED sloVars /\ UNCHANGED evalVars /\ UNCHANGED graphVars /\ UNCHANGED starts
    BY <1>4 DEF jobVars
  <2>2. SloInv'
    BY <1>4, <2>1 DEF JobsInv, sloVars, SloInv, RollupInv, OneCreditPerWindow, OnePlatformRow
  <2>3. EvalInv'
    BY <1>4, <2>1 DEF JobsInv, evalVars, EvalInv, EvalIsComplete
  <2>4. GraphInv'
    BY <1>4, <2>1 DEF JobsInv, graphVars, GraphInv
  <2> QED
    BY <1>4, <2>1, <2>2, <2>3, <2>4 DEF JobsInv
<1>5. ASSUME ReceiptInv, UNCHANGED receiptVars PROVE ReceiptInv'
  <2>1. UNCHANGED <<clock, key, job, receipts, linked, checks>>
    BY <1>5 DEF receiptVars
  <2>2. ReceiptsTypeOK' /\ OneReceipt' /\ ChainLeadsBack'
    BY <1>5, <2>1 DEF ReceiptInv, ReceiptsTypeOK, OneReceipt, ChainLeadsBack
  <2>3. \A r : Has(r)' <=> Has(r)
    BY <2>1 DEF Has
  <2>4. LinkedHasReceipt'
    BY <1>5, <2>1, <2>3 DEF ReceiptInv, LinkedHasReceipt
  <2> QED
    BY <1>5, <2>1, <2>2, <2>3, <2>4 DEF ReceiptInv
<1> QED
  BY <1>1, <1>2, <1>3, <1>4, <1>5

\* Each feature starts in its own invariant.
LEMMA PlatformInvInit == Init => PlatformInv
  BY RouteInvInit, KnowInvInit, ChunkInvInit, JobsInvInit, ReceiptInvInit DEF Init, PlatformInv

\* Routing keeps its invariant.
LEMMA RoutingStep == ASSUME RouteInv, RoutingNext PROVE RouteInv'
  BY RoutingReads, RouteStep, VoiceRouteStep DEF RoutingNext

\* A credit is created for a breach only.
CreditStep ==
  \A t \in Tenants, w \in 1 .. Windows : credit'[t][w] > credit[t][w] => row[t][w] = "BREACHED"

\* A step of one feature keeps the invariants of all.
LEMMA PlatformStep ==
  ASSUME PlatformInv, [Next]_platformVars
  PROVE  PlatformInv' /\ [CreditStep]_jobVars
<1>t. RouteInv /\ KnowInv /\ ChunkInv /\ JobsInv /\ ReceiptInv /\ part \in Parts
  BY DEF PlatformInv
<1>1. CASE RoutingNext /\ UNCHANGED <<knowVars, chunkVars, jobVars, receiptVars, part>>
  BY <1>1, <1>t, RoutingStep, FeaturesRest DEF PlatformInv
<1>2. CASE KnowledgeNext /\ UNCHANGED <<routeVars, chunkVars, jobVars, receiptVars, part>>
  BY <1>2, <1>t, KnowledgeStep, FeaturesRest DEF PlatformInv
<1>3. CASE ChunkingNext /\ UNCHANGED <<routeVars, knowVars, jobVars, receiptVars, part>>
  BY <1>3, <1>t, ChunkingStep, FeaturesRest DEF PlatformInv
<1>4. CASE /\ SloNext \/ EvalNext \/ GraphNext
           /\ UNCHANGED <<routeVars, knowVars, chunkVars, receiptVars, part>>
  BY <1>4, <1>t, JobsStep, FeaturesRest DEF PlatformInv, CreditStep
<1>5. CASE ReceiptsNext /\ UNCHANGED <<routeVars, knowVars, chunkVars, jobVars, part>>
  BY <1>5, <1>t, ReceiptsStep, FeaturesRest DEF PlatformInv
<1>6. CASE UNCHANGED platformVars
  <2>1. UNCHANGED routeVars /\ UNCHANGED knowVars /\ UNCHANGED chunkVars /\ UNCHANGED jobVars
        /\ UNCHANGED receiptVars /\ UNCHANGED part
    BY <1>6 DEF platformVars
  <2> QED
    BY <1>t, <2>1, FeaturesRest DEF PlatformInv
<1> QED
  BY <1>1, <1>2, <1>3, <1>4, <1>5, <1>6 DEF Next

\* So they hold in every reachable state.
LEMMA PlatformInvAlways == Spec => []PlatformInv
<1>1. PlatformInv /\ [Next]_platformVars => PlatformInv'
  BY PlatformStep
<1> QED
  BY <1>1, PlatformInvInit, PTL DEF Spec

\* policyRouter.ts, policy.ts: whatever models, keys, policies and defaults there
\* are, and however they are edited while a request is decided, the model it is
\* routed to is entitled, within the policy that was read, and the best of those
\* left when nobody named it.
THEOREM RoutedStaysAllowed == Spec => []RoutedAsAllowed
<1>1. PlatformInv => RoutedAsAllowed
  BY DEF PlatformInv, RouteInv
<1> QED
  BY <1>1, PlatformInvAlways, PTL

\* modernJobs.ts, knowledge/actions.ts, retrieval.ts: with any number of customers,
\* bases and documents, of ingests that fail at any statement and of deletes that
\* cascade between them, what is put before the model is whole, the customer's own
\* and within the context.
THEOREM RetrievalStaysSound == Spec => []RetrievalIsSound
<1>1. PlatformInv => RetrievalIsSound
  BY DEF PlatformInv, KnowInv
<1> QED
  BY <1>1, PlatformInvAlways, PTL

\* rag.ts:5-30: in a text of any length, cut with any limit and overlap, the
\* passages keep every word and none exceeds the limit.
THEOREM ChunksKeepWords == Spec => [](EveryWordKept /\ PassageFits)
<1>1. PlatformInv => EveryWordKept /\ PassageFits
  BY DoneKeepsWords DEF PlatformInv, ChunkInv
<1> QED
  BY <1>1, PlatformInvAlways, PTL

\* modernJobs.ts:36-141: however often the jobs start, die and start again, a
\* customer is credited once for a window and only for its breach, a window has one
\* platform row, and a finished evaluation counts its own results.
THEOREM JobsStayRerunSafe == Spec => JobsRerunSafely
<1>1. PlatformInv => OneCreditPerWindow /\ OnePlatformRow /\ EvalIsComplete
  BY DEF PlatformInv, JobsInv, SloInv, EvalInv
<1>2. PlatformInv /\ [Next]_platformVars => [CreditStep]_jobVars
  BY PlatformStep
<1>3. Spec => [](OneCreditPerWindow /\ OnePlatformRow /\ EvalIsComplete)
  BY <1>1, PlatformInvAlways, PTL
<1>4. Spec => [][CreditStep]_jobVars
  BY <1>2, PlatformInvAlways, PTL DEF Spec
<1>5. CreditNeedsBreach <=> [][CreditStep]_jobVars
  BY PTL DEF CreditNeedsBreach, CreditStep
<1> QED
  BY <1>3, <1>4, <1>5, PTL DEF JobsRerunSafely

\* receipts.ts, v1.ts:531-639: for any number of requests and deliveries of their
\* jobs, a request has one receipt and names it only once it is stored, receipts
\* name earlier ones, and a graph answer is metered exactly once.
THEOREM WorkStaysAccounted == Spec => []WorkIsAccounted
<1>1. PlatformInv => WorkIsAccounted
  <2> SUFFICES ASSUME PlatformInv PROVE WorkIsAccounted
    OBVIOUS
  <2>1. RoutingTypeOK /\ KnowledgeTypeOK /\ ChunkingTypeOK /\ ReceiptsTypeOK /\ part \in Parts
    BY DEF PlatformInv, RouteInv, KnowInv, ChunkInv, ReceiptInv
  <2>2. JobsTypeOK
    <3>1. \A c \in Calls : call[c] \in CallState
      BY DEF PlatformInv, JobsInv, SloInv
    <3>2. \A c \in Calls : call[c].status \in {"none", "RUNNING", "SUCCEEDED", "FAILED"}
      BY <3>1 DEF CallState, Outcomes
    <3>3. rollup.pc \in {"idle", "window", "find", "create"}
      BY DEF PlatformInv, JobsInv, SloInv, RollupState
    <3>4. \A t \in Tenants, w \in 1 .. Windows :
            row[t][w] \in {"none", "HEALTHY", "AT_RISK", "BREACHED"} /\ credit[t][w] \in Nat
      BY DEF PlatformInv, JobsInv, SloInv, Verdicts
    <3>5. \A i \in DOMAIN runs : runs[i].status \in {"RUNNING", "SUCCEEDED"}
      <4> SUFFICES ASSUME NEW i \in DOMAIN runs PROVE runs[i].status \in {"RUNNING", "SUCCEEDED"}
        OBVIOUS
      <4>1. runs \in Seq(RunState)
        BY DEF PlatformInv, JobsInv, EvalInv
      <4>2. runs[i] \in RunState
        BY <4>1, LenProperties, ElementOfSeq
      <4> QED
        BY <4>2 DEF RunState
    <3> QED
      BY <3>2, <3>3, <3>4, <3>5 DEF PlatformInv, JobsInv, SloInv, GraphInv, JobsTypeOK
  <2>3. OneReceipt /\ LinkedHasReceipt /\ ChainLeadsBack /\ GraphAnsweredIsMetered
    BY DEF PlatformInv, ReceiptInv, JobsInv, GraphInv, GraphAnsweredIsMetered
  <2> QED
    BY <2>1, <2>2, <2>3 DEF WorkIsAccounted, TypeOK
<1> QED
  BY <1>1, PlatformInvAlways, PTL
=============================================================================

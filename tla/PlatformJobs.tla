----------------------------- MODULE PlatformJobs -----------------------------
(***************************************************************************)
(* The platform's jobs and the graph route:                                *)
(*   - the SLO rollup with its service credits and the evaluation suites   *)
(*     (lib/modernJobs.ts, workers/modern-worker.ts): one worker process;  *)
(*     BullMQ gives a job to it again after a crash;                       *)
(*   - GET /v1/graph/stats and POST /v1/graph/query (routes/v1.ts:531-639, *)
(*     lib/neo4j.ts).                                                      *)
(***************************************************************************)
EXTENDS Integers, FiniteSets, Sequences

CONSTANTS Tenants,     \* customers
          Calls,       \* inference requests
          CallOf,      \* the customer of each
          Windows,     \* bound: SLO windows, 1..Windows
          Target,      \* availabilityPct of the definition
          LatencyTarget, \* latencyP95Ms of the definition
          CreditMicros,  \* creditMicros of the definition
          Cases,       \* cases of the evaluation suite
          MaxRuns      \* bound: times a job is started
ASSUME JobsAssumption ==
  /\ CallOf \in [Calls -> Tenants] /\ IsFiniteSet(Calls) /\ Windows \in Nat \ {0}
  /\ Cases \in Nat
  /\ Target \in 0..100 /\ {LatencyTarget, CreditMicros} \subseteq Nat /\ MaxRuns \in Nat

VARIABLES
  window,   \* the window now is in
  call,     \* [window, status, latency] of each request
  rollup,   \* the rollup's place: [pc, seen, todo, who, window]
  row,      \* SloWindow status per customer and window, "none" before it is written
  overall,  \* rows without customer per window
  credit,   \* service credits per customer and window
  eval,     \* the evaluation job: [pc, run, next, passed]
  runs,     \* evaluation runs: [status, results, passed]
  graph,    \* the graph query's place
  cypher,   \* what has been executed: "none", "query" or "stats"
  metered,  \* the units metered for it, none or one number
  starts    \* jobs started
sloVars == <<window, call, rollup, row, overall, credit>>
evalVars == <<eval, runs>>
graphVars == <<graph, cypher, metered>>
jobVars == <<sloVars, evalVars, graphVars, starts>>

Platform == "platform"
NoRollup == [pc |-> "idle", seen |-> {}, todo |-> <<>>, window |-> 0]
NoEval == [pc |-> "idle", next |-> 1, passed |-> 0]

JobsTypeOK ==
  /\ window \in 1..Windows /\ starts \in 0..MaxRuns
  /\ \A c \in Calls : call[c].status \in {"none", "RUNNING", "SUCCEEDED", "FAILED"}
  /\ rollup.pc \in {"idle", "window", "find", "create"}
  /\ \A t \in Tenants, w \in 1..Windows :
       row[t][w] \in {"none", "HEALTHY", "AT_RISK", "BREACHED"} /\ credit[t][w] \in Nat
  /\ \A i \in DOMAIN runs : runs[i].status \in {"RUNNING", "SUCCEEDED"}
  /\ graph \in {"idle", "run", "stats", "record", "meter", "reply", "answered", "failed"}

JobsInit ==
  /\ window = 1 /\ call = [c \in Calls |-> [window |-> 0, status |-> "none", latency |-> 0]]
  /\ rollup = NoRollup
  /\ row = [t \in Tenants |-> [w \in 1..Windows |-> "none"]]
  /\ overall = [w \in 1..Windows |-> 0]
  /\ credit = [t \in Tenants |-> [w \in 1..Windows |-> 0]]
  /\ eval = NoEval /\ runs = <<>>
  /\ graph = "idle" /\ cypher = "none" /\ metered = {} /\ starts = 0

-----------------------------------------------------------------------------
(* SLO windows and credits                                                 *)

CallStarts(c) ==
  /\ call[c].status = "none"
  /\ call' = [call EXCEPT ![c] = [window |-> window, status |-> "RUNNING", latency |-> 0]]
  /\ UNCHANGED <<window, rollup, row, overall, credit, evalVars, graphVars, starts>>

CallEnds(c) ==
  /\ call[c].status = "RUNNING"
  /\ \E s \in {"SUCCEEDED", "FAILED"}, l \in {1, LatencyTarget + 1} :
       call' = [call EXCEPT ![c].status = s, ![c].latency = l]
  /\ UNCHANGED <<window, rollup, row, overall, credit, evalVars, graphVars, starts>>

WindowPasses ==
  /\ window < Windows /\ window' = window + 1
  /\ UNCHANGED <<call, rollup, row, overall, credit, evalVars, graphVars, starts>>

\* rollupSloWindows reads the requests created in the current window, in every
\* status, and then goes through them: all together, then customer by customer.
RollupStarts ==
  /\ rollup.pc = "idle" /\ starts < MaxRuns /\ starts' = starts + 1
  /\ LET seen == {<<c, call[c].status, call[c].latency>> :
                    c \in {x \in Calls : call[x].window = window}}
     IN  \E order \in {s \in [1..Cardinality({CallOf[x[1]] : x \in seen}) ->
                               {CallOf[x[1]] : x \in seen}] :
                        \A i, j \in DOMAIN s : i # j => s[i] # s[j]} :
           rollup' = [pc |-> "window", seen |-> seen, todo |-> <<Platform>> \o order,
                      window |-> window]
  /\ UNCHANGED <<window, call, row, overall, credit, evalVars, graphVars>>

Bucket(t) == {x \in rollup.seen : t = Platform \/ CallOf[x[1]] = t}
Good(b) == {x \in b : x[2] = "SUCCEEDED"}

\* percentile(…, 95): with fewer than twenty values, the largest.
P95(b) == IF Good(b) = {} THEN 0
          ELSE CHOOSE l \in {x[3] : x \in Good(b)} : \A x \in Good(b) : x[3] <= l

\* computeWindowStatus, on the share of successes.
Share(b, pct) == Cardinality(Good(b)) * 100 >= pct * Cardinality(b)
ComputeWindowStatus(b) ==
  IF ~Share(b, Target) \/ P95(b) > LatencyTarget THEN "BREACHED"
  ELSE IF ~Share(b, Target + (100 - Target) \div 2) \/ 10 * P95(b) > 9 * LatencyTarget
       THEN "AT_RISK" ELSE "HEALTHY"

Then(status) ==
  [rollup EXCEPT !.pc = IF status = "BREACHED" THEN "find"
                        ELSE IF Len(rollup.todo) = 1 THEN "idle" ELSE "window",
                 !.todo = IF status = "BREACHED" THEN @ ELSE Tail(@)]

\* findFirst, then update or create: the unique index does not bind a row without
\* customer.
PlatformRow ==
  overall' = [overall EXCEPT ![rollup.window] = IF @ = 0 THEN 1 ELSE @]

UpsertPlatformWindow ==
  /\ rollup.pc = "window" /\ Head(rollup.todo) = Platform
  /\ PlatformRow /\ rollup' = Then("HEALTHY")
  /\ UNCHANGED <<window, call, row, credit, evalVars, graphVars, starts>>

UpsertWindow ==
  /\ rollup.pc = "window" /\ Head(rollup.todo) # Platform
  /\ LET t == Head(rollup.todo)
         status == ComputeWindowStatus(Bucket(t))
     IN  row' = [row EXCEPT ![t][rollup.window] = status] /\ rollup' = Then(status)
  /\ UNCHANGED <<window, call, overall, credit, evalVars, graphVars, starts>>

\* Mutant: the earlier credit is not looked for.
CreditAlways ==
  /\ rollup.pc = "find"
  /\ rollup' = [rollup EXCEPT !.pc = "create"]
  /\ UNCHANGED <<window, call, row, overall, credit, evalVars, graphVars, starts>>

\* computeCreditMicros: the definition's amount, for a breach.
ComputeCreditMicros(breached) == IF breached THEN CreditMicros ELSE 0

\* A credit for this customer, definition and window is given once, and only when
\* it is worth something.
FindCredit ==
  /\ rollup.pc = "find"
  /\ rollup' = IF credit[Head(rollup.todo)][rollup.window] > 0 \/ ComputeCreditMicros(TRUE) = 0
               THEN Then("credited")
               ELSE [rollup EXCEPT !.pc = "create"]
  /\ UNCHANGED <<window, call, row, overall, credit, evalVars, graphVars, starts>>

CreateCredit ==
  /\ rollup.pc = "create"
  /\ credit' = [credit EXCEPT ![Head(rollup.todo)][rollup.window] = @ + 1]
  /\ rollup' = Then("credited")
  /\ UNCHANGED <<window, call, row, overall, evalVars, graphVars, starts>>

\* The worker dies or a statement fails; the job is started again.
RollupCrashes ==
  /\ rollup.pc # "idle" /\ rollup' = NoRollup
  /\ UNCHANGED <<window, call, row, overall, credit, evalVars, graphVars, starts>>

SloNext ==
  \/ \E c \in Calls : CallStarts(c) \/ CallEnds(c)
  \/ WindowPasses \/ RollupStarts \/ UpsertPlatformWindow \/ UpsertWindow
  \/ FindCredit \/ CreateCredit \/ RollupCrashes

-----------------------------------------------------------------------------
(* Evaluation suites                                                       *)

EvalStarts ==
  /\ eval.pc = "idle" /\ starts < MaxRuns /\ starts' = starts + 1
  /\ runs' = Append(runs, [status |-> "RUNNING", results |-> 0, passed |-> 0])
  /\ eval' = [pc |-> "case", next |-> 1, passed |-> 0]
  /\ UNCHANGED <<sloVars, graphVars>>

\* A result of one case: counted, then stored.
EvalCase ==
  /\ eval.pc = "case" /\ eval.next <= Cases
  /\ \E ok \in {0, 1} :
       /\ eval' = [eval EXCEPT !.next = @ + 1, !.passed = @ + ok]
       /\ runs' = [runs EXCEPT ![Len(runs)].results = @ + 1]
  /\ UNCHANGED <<sloVars, graphVars, starts>>

EvalFinishes ==
  /\ eval.pc = "case" /\ eval.next > Cases
  /\ runs' = [runs EXCEPT ![Len(runs)].status = "SUCCEEDED", ![Len(runs)].passed = eval.passed]
  /\ eval' = NoEval
  /\ UNCHANGED <<sloVars, graphVars, starts>>

\* The run that was open stays RUNNING; the job starts another.
EvalCrashes ==
  /\ eval.pc = "case" /\ eval' = NoEval
  /\ UNCHANGED <<sloVars, runs, graphVars, starts>>

EvalNext == EvalStarts \/ EvalCase \/ EvalFinishes \/ EvalCrashes

-----------------------------------------------------------------------------
(* The graph routes                                                        *)

GraphGoes(at, to) == graph = at /\ graph' = to /\ UNCHANGED <<sloVars, evalVars, starts>>

\* Refused when Neo4j is not configured or there is no statement.
GraphQuery == \E to \in {"run", "failed"} :
                GraphGoes("idle", to) /\ UNCHANGED <<cypher, metered>>
GraphStats == GraphGoes("idle", "stats") /\ UNCHANGED <<cypher, metered>>

RunCypher == GraphGoes("run", "record") /\ cypher' = "query" /\ UNCHANGED metered
Neo4jStoreStats == GraphGoes("stats", "record") /\ cypher' = "stats" /\ UNCHANGED metered
RecordCall == GraphGoes("record", "meter") /\ UNCHANGED <<cypher, metered>>

\* The units of a read or of a write; the store's size within 32 bits, 0 when empty.
Units == IF cypher = "query" THEN {1, 5} ELSE {0, 2147483647}

\* finalizeAndMeter.
MeterCall == /\ GraphGoes("meter", "reply")
             /\ \E u \in Units : metered' = {u}
             /\ UNCHANGED cypher
GraphReply == GraphGoes("reply", "answered") /\ UNCHANGED <<cypher, metered>>
GraphFails == \E at \in {"run", "stats", "record", "meter"} :
                GraphGoes(at, "failed") /\ UNCHANGED <<cypher, metered>>

GraphNext == \/ GraphQuery \/ GraphStats \/ RunCypher \/ Neo4jStoreStats \/ RecordCall
             \/ MeterCall \/ GraphReply \/ GraphFails

-----------------------------------------------------------------------------
\* modernJobs.ts:91-101: a customer is credited at most once for a window, however
\* often the rollup runs, dies after the credit or runs again.
OneCreditPerWindow == \A t \in Tenants, w \in 1..Windows : credit[t][w] <= 1

\* modernJobs.ts:36-101: a credit appears only while the customer's row of that
\* very window says BREACHED.
CreditNeedsBreach ==
  [][\A t \in Tenants, w \in 1..Windows :
       credit'[t][w] > credit[t][w] => row[t][w] = "BREACHED"]_jobVars

\* modernJobs.ts:68-82: there is one platform-wide row per window although nothing
\* in the schema keeps it single.
OnePlatformRow == \A w \in 1..Windows : overall[w] <= 1

\* modernJobs.ts:116-141: a run shown as SUCCEEDED has a result for every case and
\* a count no crash of an earlier run contributed to.
EvalIsComplete ==
  \A i \in DOMAIN runs : runs[i].status = "SUCCEEDED" =>
                           runs[i].results = Cases /\ runs[i].passed <= runs[i].results

\* v1.ts:538-571, 597-630: an answer is sent only once the work is done and metered
\* exactly once.
GraphAnsweredIsMetered ==
  graph = "answered" => cypher # "none" /\ Cardinality(metered) = 1

\* Jobs are safe to run again after dying half way (modernJobs.ts, BullMQ): one
\* credit and one platform row per window, credits only for a breach, and no
\* evaluation that counts what another run did.
JobsRerunSafely ==
  [](OneCreditPerWindow /\ OnePlatformRow /\ EvalIsComplete) /\ CreditNeedsBreach
=============================================================================

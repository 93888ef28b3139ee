------------------------------- MODULE Platform -------------------------------
(***************************************************************************)
(* The platform features around the chat path, which share the database    *)
(* and nothing else: routing, knowledge bases, chunking, jobs and receipts *)
(* are explored one at a time.                                             *)
(***************************************************************************)
EXTENDS Routing, Knowledge, Chunking, PlatformJobs, UsageReceipts

VARIABLE part  \* the feature of this behaviour

platformVars == <<routeVars, knowVars, chunkVars, jobVars, receiptVars, part>>

Parts == {"routing", "knowledge", "chunking", "slo", "eval", "graph", "receipts"}

TypeOK == /\ RoutingTypeOK /\ KnowledgeTypeOK /\ ChunkingTypeOK /\ JobsTypeOK
          /\ ReceiptsTypeOK /\ part \in Parts

Init ==
  /\ RoutingInit /\ KnowledgeInit /\ ChunkingInit /\ JobsInit /\ ReceiptsInit
  /\ part \in Parts

Next ==
  \/ /\ part = "routing" /\ RoutingNext
     /\ UNCHANGED <<knowVars, chunkVars, jobVars, receiptVars, part>>
  \/ /\ part = "knowledge" /\ KnowledgeNext
     /\ UNCHANGED <<routeVars, chunkVars, jobVars, receiptVars, part>>
  \/ /\ part = "chunking" /\ ChunkingNext
     /\ UNCHANGED <<routeVars, knowVars, jobVars, receiptVars, part>>
  \/ /\ \/ part = "slo" /\ SloNext
        \/ part = "eval" /\ EvalNext
        \/ part = "graph" /\ GraphNext
     /\ UNCHANGED <<routeVars, knowVars, chunkVars, receiptVars, part>>
  \/ /\ part = "receipts" /\ ReceiptsNext
     /\ UNCHANGED <<routeVars, knowVars, chunkVars, jobVars, part>>

(***************************************************************************)
(* Cutting a text is one synchronous computation: it takes its next turn.  *)
(***************************************************************************)
Cutting == /\ part = "chunking" /\ chunking = "running" /\ ChunkingNext
           /\ UNCHANGED <<routeVars, knowVars, jobVars, receiptVars, part>>

Spec == Init /\ [][Next]_platformVars

FairSpec == Spec /\ WF_platformVars(Cutting)

-----------------------------------------------------------------------------
\* Work is accounted for once (receipts.ts, v1.ts:538-630): a request has one
\* receipt and names it only when it is stored, the chain of receipts leads back,
\* and a graph answer is metered exactly once; all state keeps its types.
WorkIsAccounted ==
  TypeOK /\ OneReceipt /\ LinkedHasReceipt /\ ChainLeadsBack /\ GraphAnsweredIsMetered
=============================================================================

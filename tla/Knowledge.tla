------------------------------ MODULE Knowledge ------------------------------
(***************************************************************************)
(* Knowledge bases: the subscriber's actions                               *)
(* (apps/web/app/(customer)/knowledge/actions.ts), the ingest they and the *)
(* gateway's scripts share (lib/modernJobs.ts:144-185) and the retrieval a *)
(* chat request makes (lib/retrieval.ts).  An ingest is four statements;   *)
(* deletes cascade in the database and may fall between any two of them.   *)
(***************************************************************************)
EXTENDS Integers, FiniteSets, Sequences, SequencesExt, FiniteSetsExt

CONSTANTS Customers, Bases, Docs,
          Owner,      \* the customer each knowledge base belongs to
          NChunks,    \* passages of a document
          TopK,       \* passages asked for
          CharBudget, \* passageCharBudget of the model
          Context,    \* contextLength of the model
          Floor       \* tokens an answer is always given room for
ASSUME KnowledgeAssumption ==
  /\ Owner \in [Bases -> Customers] /\ IsFiniteSet(Docs) /\ IsFiniteSet(Bases)
  /\ NChunks \in Nat \ {0} /\ TopK \in Nat \ {0}
  /\ CharBudget \in Nat \ {0} /\ Context \in Nat /\ Floor \in Nat

VARIABLES
  base,    \* "none", "live" or "gone"
  doc,     \* [status, base] of each document
  version, \* documents with a version row
  chunks,  \* passages stored for each
  ingest,  \* the next statement of each document's ingest
  ask      \* the chat request's retrieval; its `bare` are bases listed by themselves
knowVars == <<base, doc, version, chunks, ingest, ask>>

NoBase == "no base"
NoDoc == [status |-> "none", base |-> NoBase]
NoAsk == [pc |-> "idle", who |-> NoBase, wanted |-> {}, mode |-> "passages", hits |-> <<>>,
          bare |-> {}, tokens |-> 0, prompt |-> 0]

KnowledgeTypeOK ==
  /\ base \in [Bases -> {"none", "live", "gone"}]
  /\ \A d \in Docs : doc[d].status \in {"none", "RUNNING", "SUCCEEDED"}
                     /\ doc[d].base \in Bases \union {NoBase}
  /\ version \subseteq Docs /\ chunks \in [Docs -> 0..NChunks]
  /\ ingest \in [Docs -> {"idle", "create", "version", "chunks", "finish", "end"}]
  /\ ask.pc \in {"idle", "bases", "chunks", "answer", "refused", "done"}

KnowledgeInit ==
  /\ base = [b \in Bases |-> "none"] /\ doc = [d \in Docs |-> NoDoc]
  /\ version = {} /\ chunks = [d \in Docs |-> 0]
  /\ ingest = [d \in Docs |-> "idle"] /\ ask = NoAsk

-----------------------------------------------------------------------------
(* The subscriber's actions                                                *)

CreateKnowledgeBase(b) ==
  /\ base[b] = "none" /\ base' = [base EXCEPT ![b] = "live"]
  /\ UNCHANGED <<doc, version, chunks, ingest, ask>>

\* The base exists and is the caller's; the form's content is not empty.
IngestKnowledgeDocument(d, b) ==
  /\ ingest[d] = "idle" /\ base[b] = "live"
  /\ ingest' = [ingest EXCEPT ![d] = "create"]
  /\ doc' = [doc EXCEPT ![d].base = b]
  /\ UNCHANGED <<base, version, chunks, ask>>

Exists(d) == doc[d].status # "none"
Steps(d, at, to, ok) ==
  ingest[d] = at /\ ingest' = [ingest EXCEPT ![d] = IF ok THEN to ELSE "end"]

\* The row's foreign key refuses a base deleted since it was looked up.
CreateDocument(d) ==
  LET ok == base[doc[d].base] = "live"
  IN  /\ Steps(d, "create", "version", ok)
      /\ doc' = [doc EXCEPT ![d].status = IF ok THEN "RUNNING" ELSE "none"]
      /\ UNCHANGED <<base, version, chunks, ask>>

CreateVersion(d) ==
  /\ Steps(d, "version", "chunks", Exists(d))
  /\ version' = IF Exists(d) THEN version \union {d} ELSE version
  /\ UNCHANGED <<base, doc, chunks, ask>>

\* Mutant: the document is shown before its passages are stored.
ShownFirst(d) ==
  /\ Steps(d, "chunks", "finish", d \in version)
  /\ doc' = [doc EXCEPT ![d].status = IF d \in version THEN "SUCCEEDED" ELSE @]
  /\ chunks' = chunks
  /\ UNCHANGED <<base, version, ask>>

\* createMany: one statement for all passages.
CreateChunks(d) ==
  /\ Steps(d, "chunks", "finish", d \in version)
  /\ chunks' = [chunks EXCEPT ![d] = IF d \in version THEN NChunks ELSE @]
  /\ doc' = doc
  /\ UNCHANGED <<base, version, ask>>

Succeed(d) ==
  /\ Steps(d, "finish", "end", Exists(d))
  /\ doc' = [doc EXCEPT ![d].status = IF Exists(d) THEN "SUCCEEDED" ELSE @]
  /\ UNCHANGED <<base, version, chunks, ask>>

\* A statement fails or the server stops: the document stays RUNNING.
IngestFails(d) ==
  /\ ingest[d] \in {"create", "version", "chunks", "finish"}
  /\ ingest' = [ingest EXCEPT ![d] = "end"]
  /\ UNCHANGED <<base, doc, version, chunks, ask>>

\* onDelete: Cascade.
Removed(ds) ==
  /\ doc' = [d \in Docs |-> IF d \in ds THEN [doc[d] EXCEPT !.status = "none"] ELSE doc[d]]
  /\ version' = version \ ds
  /\ chunks' = [d \in Docs |-> IF d \in ds THEN 0 ELSE chunks[d]]

DeleteKnowledgeDocument(d) ==
  /\ Exists(d) /\ Removed({d})
  /\ UNCHANGED <<base, ingest, ask>>

DeleteKnowledgeBase(b) ==
  /\ base[b] = "live" /\ base' = [base EXCEPT ![b] = "gone"]
  /\ Removed({d \in Docs : Exists(d) /\ doc[d].base = b})
  /\ UNCHANGED <<ingest, ask>>

-----------------------------------------------------------------------------
(* Retrieval                                                               *)

RetrieveCustomerKnowledge ==
  /\ ask.pc = "idle"
  /\ \E c \in Customers, w \in SUBSET Bases \ {{}} :
       ask' = [ask EXCEPT !.pc = "bases", !.who = c, !.wanted = w]
  /\ UNCHANGED <<base, doc, version, chunks, ingest>>

Visible(b) == base[b] = "live" /\ Owner[b] = ask.who

\* Every requested base is found on the account.
OwnBases == \A b \in ask.wanted : Visible(b)

ReadBases ==
  /\ ask.pc = "bases"
  /\ ask' = [ask EXCEPT !.pc = IF OwnBases THEN "chunks" ELSE "refused"]
  /\ UNCHANGED <<base, doc, version, chunks, ingest>>

\* The passages of finished documents of the bases; the i-th is i characters long.
Rows == {r \in Docs \X (1..NChunks) :
           doc[r[1]].status = "SUCCEEDED" /\ doc[r[1]].base \in ask.wanted
           /\ r[2] <= chunks[r[1]]}

\* What ranking and diversifying may pick: up to TopK distinct passages, in the
\* order of their scores.
Ranked == UNION {{s \in [1..n -> Rows] : \A i, j \in 1..n : i # j => s[i] # s[j]} :
                    n \in 0..TopK}

Chars(s) ==
  LET length == [i \in DOMAIN s |-> s[i][2]]
  IN  MapThenSumSet(LAMBDA i : length[i], DOMAIN s)

\* fitHitsToBudget: the longest prefix within the budget, and the first always.
FitHitsToBudget(s) ==
  SubSeq(s, 1, CHOOSE n \in 0..Len(s) :
    /\ \A i \in 2..n : Chars(SubSeq(s, 1, i)) <= CharBudget
    /\ n = Len(s) \/ (n > 0 /\ Chars(SubSeq(s, 1, n + 1)) > CharBudget))

ReadChunks ==
  /\ ask.pc = "chunks"
  /\ \E s \in Ranked : ask' = [ask EXCEPT !.pc = "answer", !.hits = FitHitsToBudget(s)]
  /\ UNCHANGED <<base, doc, version, chunks, ingest>>

Finished(b) == {d \in Docs : doc[d].status = "SUCCEEDED" /\ doc[d].base = b}

\* catalogCustomerKnowledge: bases and finished documents in one read; a base
\* without one is listed by itself.
CatalogCustomerKnowledge ==
  /\ ask.pc = "bases"
  /\ LET listed == UNION {Finished(b) : b \in ask.wanted}
     IN  ask' = IF OwnBases
                THEN [ask EXCEPT !.pc = "answer", !.mode = "catalog",
                                 !.bare = {b \in ask.wanted : Finished(b) = {}},
                                 !.hits = SetToSeq({<<d, 1>> : d \in listed})]
                ELSE [ask EXCEPT !.pc = "refused"]
  /\ UNCHANGED <<base, doc, version, chunks, ingest>>

Least(a, b) == IF a < b THEN a ELSE b
Most(a, b) == IF a > b THEN a ELSE b

\* clampMaxTokens: what is asked for, within the room the prompt leaves.
ClampMaxTokens(prompt, requested) ==
  Most(Floor, Least(requested, Most(Floor, Context - prompt)))

\* applyRetrievalContext: the passages become the one system message in front of
\* the turns; the answer's length is clamped to what is left.
ApplyRetrievalContext ==
  /\ ask.pc = "answer"
  /\ \E turns \in 1..Context, requested \in 1..Context + 1 :
       LET prompt == turns + Chars(ask.hits) + Cardinality(ask.bare)
       IN  ask' = [ask EXCEPT !.pc = "done", !.prompt = prompt,
                              !.tokens = ClampMaxTokens(prompt, requested)]
  /\ UNCHANGED <<base, doc, version, chunks, ingest>>

KnowledgeNext ==
  \/ \E b \in Bases : CreateKnowledgeBase(b) \/ DeleteKnowledgeBase(b)
  \/ \E d \in Docs, b \in Bases : IngestKnowledgeDocument(d, b)
  \/ \E d \in Docs : \/ CreateDocument(d) \/ CreateVersion(d) \/ CreateChunks(d)
                     \/ Succeed(d) \/ IngestFails(d) \/ DeleteKnowledgeDocument(d)
  \/ RetrieveCustomerKnowledge \/ ReadBases \/ ReadChunks \/ CatalogCustomerKnowledge
  \/ ApplyRetrievalContext

-----------------------------------------------------------------------------
\* retrieval.ts:200-208 relies on it: a document that retrieval may read has all
\* its passages, whatever failed or was deleted during its ingest.
IngestedIsWhole ==
  \A d \in Docs : doc[d].status = "SUCCEEDED" => d \in version /\ chunks[d] = NChunks

\* schema.prisma:880-917: what an ingest writes after a delete never outlives the
\* row above it.
NoOrphans ==
  \A d \in Docs : /\ Exists(d) => base[doc[d].base] = "live"
                  /\ d \in version => Exists(d)
                  /\ chunks[d] > 0 => d \in version

\* retrieval.ts:191-197: the passages put before the model are from bases of the
\* customer who asks, and the bases listed are theirs, also when a base is deleted
\* between the two reads.
RetrievedIsOwn ==
  /\ \A i \in DOMAIN ask.hits : Owner[doc[ask.hits[i][1]].base] = ask.who
  /\ \A b \in ask.bare : Owner[b] = ask.who

\* retrieval.ts:72-82: passages stay within the budget unless the best one alone
\* exceeds it.
PassagesWithinBudget ==
  ask.mode = "passages" /\ Len(ask.hits) > 1 => Chars(ask.hits) <= CharBudget

\* retrieval.ts:57-66: prompt and answer fit the context, or the answer has the
\* minimum length.
AnswerFits == ask.pc = "done" => ask.prompt + ask.tokens <= Context \/ ask.tokens = Floor

\* What retrieval puts before the model is whole, the customer's own and within
\* the model's context, while ingests fail and rows are deleted (modernJobs.ts,
\* knowledge/actions.ts, retrieval.ts).
RetrievalIsSound ==
  /\ IngestedIsWhole /\ NoOrphans /\ RetrievedIsOwn
  /\ PassagesWithinBudget /\ AnswerFits
=============================================================================

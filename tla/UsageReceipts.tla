----------------------------- MODULE UsageReceipts ----------------------------
(***************************************************************************)
(* Signed usage receipts: issueUsageReceipt (lib/receipts.ts), run by the  *)
(* usage worker for several jobs at a time and again after a crash, the    *)
(* signature (packages/platform/src/canonical.ts, signing.ts), and the     *)
(* control plane's verification (app/api/usage/receipts/verify/route.ts).  *)
(* A payload's text is the order its keys are written in; a signature is   *)
(* the text it was made for.                                               *)
(***************************************************************************)
EXTENDS Integers, FiniteSets, Sequences, SequencesExt

CONSTANTS Paid,     \* requests whose usage is stored
          MaxJobs   \* bound: deliveries of a request's job
ASSUME ReceiptsAssumption == IsFiniteSet(Paid) /\ MaxJobs \in Nat

VARIABLES
  clock,     \* the time, as far as receipts tell it
  key,       \* the signing key's row: "none", "active"
  job,       \* each delivery of a request's job: [pc, previous, issued]
  receipts,  \* receipts in the order they were stored
  linked,    \* requests whose row names its receipt
  checks     \* verdicts given: <<request, verdict>>
receiptVars == <<clock, key, job, receipts, linked, checks>>

\* A job that stalls is delivered again while its first run may still go on.
Deliveries == Paid \X (1..MaxJobs)

\* Keys of the payload. Two of them sort differently by code unit ("I" before
\* "e") and by locale ("e" before "i"); the others have one place in both.
PayloadKeys == {"customerId", "requestId", "requestedModel", "status"}
CodeUnit == <<"customerId", "requestId", "requestedModel", "status">>
Locale == <<"customerId", "requestedModel", "requestId", "status">>

\* canonicalStringify: Object.keys(record).sort().
CanonicalStringify(keys) == SelectSeq(CodeUnit, LAMBDA k : k \in keys)
\* The verification's own: entries sorted with localeCompare.
StableStringify(keys) == SelectSeq(Locale, LAMBDA k : k \in keys)

None == 0
NoJob == [pc |-> "idle", previous |-> None, issued |-> 0]
Has(r) == \E i \in DOMAIN receipts : receipts[i].request = r

ReceiptsTypeOK ==
  /\ key \in {"none", "active"} /\ clock \in Nat
  /\ \A x \in Deliveries : job[x].pc \in {"idle", "previous", "sign", "store", "link", "end"}
                           /\ job[x].previous \in 0..Len(receipts)
                           /\ job[x].issued \in 0..clock
  /\ \A i \in DOMAIN receipts : receipts[i].request \in Paid
  /\ linked \subseteq Paid /\ checks \subseteq Paid \X BOOLEAN

ReceiptsInit ==
  /\ clock = 0 /\ key = "none" /\ job = [x \in Deliveries |-> NoJob]
  /\ receipts = <<>> /\ linked = {} /\ checks = {}

\* An existing receipt ends the job; so does a failing statement, which is only
\* logged, or the death of the worker.
Ended == [pc |-> "end", previous |-> None, issued |-> 0]

IssueUsageReceipt(x) ==
  /\ job[x].pc = "idle"
  /\ job' = [job EXCEPT ![x] = IF Has(x[1]) THEN Ended ELSE [@ EXCEPT !.pc = "previous"]]
  /\ UNCHANGED <<clock, key, receipts, linked, checks>>

\* Stored receipts with the latest stamp; jobs store theirs out of stamp order.
Newest == {i \in DOMAIN receipts :
             \A j \in DOMAIN receipts : receipts[j].issued <= receipts[i].issued}

\* findFirst by issuedAt, descending: before this receipt has its own stamp.
ReadPrevious(x) ==
  /\ job[x].pc = "previous"
  /\ \E p \in IF receipts = <<>> THEN {None} ELSE Newest :
       job' = [job EXCEPT ![x] = [pc |-> "sign", previous |-> p, issued |-> 0]]
  /\ UNCHANGED <<clock, key, receipts, linked, checks>>

\* new Date(): stamps of different jobs may fall into the same millisecond.
Stamps == {clock, clock + 1}

\* The stamp, and ensureSigningKey: the row is created, or made active again.
EnsureSigningKey(x) ==
  /\ job[x].pc = "sign" /\ key' = "active" /\ clock' \in Stamps
  /\ job' = [job EXCEPT ![x] = [@ EXCEPT !.pc = "store", !.issued = clock']]
  /\ UNCHANGED <<receipts, linked, checks>>

Receipt(x) == [request |-> x[1], previous |-> job[x].previous, issued |-> job[x].issued,
               keys |-> PayloadKeys,
               signature |-> CanonicalStringify(PayloadKeys)]

\* Mutant: the newest receipt is read when this one is in.
StoreThenRead(x) ==
  /\ job[x].pc = "store"
  /\ receipts' = IF Has(x[1]) THEN receipts
                 ELSE Append(receipts, [Receipt(x) EXCEPT !.previous = Len(receipts) + 1])
  /\ job' = [job EXCEPT ![x] = IF Has(x[1]) THEN Ended ELSE [@ EXCEPT !.pc = "link"]]
  /\ UNCHANGED <<clock, key, linked, checks>>

\* create: the request's unique index refuses a second receipt.
StoreReceipt(x) ==
  /\ job[x].pc = "store"
  /\ receipts' = IF Has(x[1]) THEN receipts ELSE Append(receipts, Receipt(x))
  /\ job' = [job EXCEPT ![x] = IF Has(x[1]) THEN Ended ELSE [@ EXCEPT !.pc = "link"]]
  /\ UNCHANGED <<clock, key, linked, checks>>

LinkReceipt(x) ==
  /\ job[x].pc = "link" /\ linked' = linked \union {x[1]}
  /\ job' = [job EXCEPT ![x] = Ended]
  /\ UNCHANGED <<clock, key, receipts, checks>>

JobEnds(x) ==
  /\ job[x].pc \in {"previous", "sign", "store", "link"}
  /\ job' = [job EXCEPT ![x] = Ended] /\ linked' = linked
  /\ UNCHANGED <<clock, key, receipts, checks>>

\* POST /api/usage/receipts/verify with a stored receipt: the payload is parsed,
\* written again and compared with what the signature was made for.
VerifyReceipt(i) ==
  /\ key = "active"
  /\ LET ok == StableStringify(receipts[i].keys) = receipts[i].signature
     IN  checks' = checks \union {<<receipts[i].request, ok>>}
  /\ UNCHANGED <<clock, key, job, receipts, linked>>

ReceiptsNext ==
  \/ \E x \in Deliveries :
       \/ IssueUsageReceipt(x) \/ ReadPrevious(x) \/ EnsureSigningKey(x)
       \/ StoreReceipt(x) \/ LinkReceipt(x) \/ JobEnds(x)
  \/ \E i \in DOMAIN receipts : VerifyReceipt(i)

ReceiptsSpec == ReceiptsInit /\ [][ReceiptsNext]_receiptVars

-----------------------------------------------------------------------------
\* receipts.ts:28-31 and the unique index: a request has at most one receipt,
\* although jobs of it overlap and are started again.
OneReceipt ==
  \A i, j \in DOMAIN receipts : receipts[i].request = receipts[j].request => i = j

\* receipts.ts:33: the chain of previous hashes leads back in time: a receipt
\* names one that was stored before it, so no receipt is its own ancestor.
ChainLeadsBack == \A i \in DOMAIN receipts : receipts[i].previous < i

\* receipts.ts:65-68: a request row names a receipt only when it is stored.
LinkedHasReceipt == \A r \in linked : Has(r)

\* README.md:27: "Ed25519 receipts with public-key verification": a receipt the
\* gateway signed is found valid by the verification.
GenuineReceiptVerifies == \A c \in checks : c[2]
=============================================================================

--------------------------- MODULE BillingProofs ----------------------------
(***************************************************************************)
(* Proofs about Billing, for any events, costs, length of a period, set of  *)
(* intervals asked for by hand and number of crashes.                       *)
(*                                                                          *)
(* The properties compare an invoice with events that are stored, stamped   *)
(* or rolled back while the invoice is read and written.  The invariant     *)
(* says what each half-done piece of work has seen: the scan works on the   *)
(* subscription's own period, which has ended; what a reader has in hand is *)
(* stored; and when stores are quick nothing of an ended interval is open.  *)
(***************************************************************************)
EXTENDS Billing, FiniteSums

Invoices == {NoInvoice} \cup [cents : Nat, status : Statuses]

\* The types the argument needs: all but the bound on the tokens used.
BillTypes ==
  /\ now \in 0 .. MaxTime /\ quick \in BOOLEAN
  /\ job \in [Events -> JobStates] /\ created \in [Events -> Never .. MaxTime]
  /\ subStart \in Periods
  /\ ledger \in [start : Periods, used : Nat]
  /\ scan \in ScanWork /\ manual \in ManualWork /\ unreset \in BOOLEAN
  /\ invoice \in [Spans -> Invoices]
  /\ early \subseteq Spans
  /\ checkout \in CheckoutWork
  /\ calls \in 0 .. MaxCalls /\ crashes \in 0 .. MaxCrashes

\* The scan works on the period of the subscription, which has ended.
ScanInStep ==
  /\ subStart <= now
  /\ scan.at \in {"due", "read", "written"} => scan.p = subStart /\ scan.p + PeriodTicks <= now
  /\ scan.at = "written" => Issued(Span(scan.p))
  /\ scan.at = "advanced" => subStart = scan.p + PeriodTicks

\* A checkout is for an invoice that exists.
CheckoutHasInvoice == checkout.at \in {"read", "session"} => Issued(checkout.i)

\* An event has a stamp while its transaction is open and from then on.
StampedWhenBegun ==
  \A e \in Events : IF job[e] = "queued" THEN created[e] = Never ELSE created[e] \in 0 .. now

\* When stores are quick, an open transaction was begun in this tick.
QuickStores == quick => \A e \in Events : job[e] = "open" => created[e] = now

StoredSince(t) == {e \in Stored : created[e] >= t}

\* The tokens on the ledger are those of stored events, and when stores are
\* quick of events of its period ...
LedgerCounts ==
  /\ ledger.start <= now
  /\ ledger.used <= Cardinality(Stored)
  /\ quick => ledger.used <= Cardinality(StoredSince(ledger.start))

\* ... which is the subscription's unless the worker is, or was, between the two
\* writes.
LedgerInPeriod == scan.at = "advanced" \/ unreset \/ ledger.start = subStart

RollInv == /\ ScanInStep /\ CheckoutHasInvoice /\ StampedWhenBegun /\ QuickStores
           /\ LedgerCounts /\ LedgerInPeriod /\ PeriodsTile

-----------------------------------------------------------------------------
(* Periods and amounts *)

USE BillingAssumption, AskedAssumption
USE DEF Never, JobStates, Statuses, Idle, JobGoes

\* Periods follow each other without gap or overlap.
LEMMA PeriodsFollow ==
  /\ 0 \in Periods /\ Periods \subseteq 0 .. MaxTime
  /\ \A p \in Periods : p + PeriodTicks <= MaxTime => p + PeriodTicks \in Periods
  /\ \A p, q \in Periods : p < q => p + PeriodTicks <= q
<1>1. 0 \in Periods
  <2>1. 0 = 0 * PeriodTicks /\ 0 \in 0 .. MaxTime
    OBVIOUS
  <2> QED
    BY <2>1 DEF Periods
<1>2. ASSUME NEW p \in Periods, p + PeriodTicks <= MaxTime PROVE p + PeriodTicks \in Periods
  <2>1. PICK k \in 0 .. MaxTime : p = k * PeriodTicks
    BY DEF Periods
  <2>2. p + PeriodTicks = (k + 1) * PeriodTicks /\ p \in 0 .. MaxTime
    BY <2>1 DEF Periods
  <2>3. k <= k * PeriodTicks
    <3>1. k \in Nat /\ k * PeriodTicks = k * (PeriodTicks - 1) + k
      OBVIOUS
    <3>2. k * (PeriodTicks - 1) \in Nat
      BY <3>1
    <3> QED
      BY <3>1, <3>2
  <2>4. k + 1 \in 0 .. MaxTime
    BY <1>2, <2>1, <2>2, <2>3
  <2>5. p + PeriodTicks \in 0 .. MaxTime
    BY <1>2, <2>2
  <2>6. \E j \in 0 .. MaxTime : p + PeriodTicks = j * PeriodTicks
    BY <2>2, <2>4, Zenon
  <2> QED
    BY <2>5, <2>6, Zenon DEF Periods
<1>3. ASSUME NEW p \in Periods, NEW q \in Periods, p < q PROVE p + PeriodTicks <= q
  <2>1. PICK k \in 0 .. MaxTime : p = k * PeriodTicks
    BY DEF Periods
  <2>2. PICK l \in 0 .. MaxTime : q = l * PeriodTicks
    BY DEF Periods
  <2>3. k + 1 <= l
    <3> SUFFICES ASSUME l <= k PROVE FALSE
      OBVIOUS
    <3>1. l * PeriodTicks <= k * PeriodTicks
      OBVIOUS
    <3> QED
      BY <1>3, <2>1, <2>2, <3>1
  <2>4. (k + 1) * PeriodTicks <= l * PeriodTicks
    BY <2>3
  <2>5. (k + 1) * PeriodTicks = k * PeriodTicks + PeriodTicks
    OBVIOUS
  <2> QED
    BY <2>1, <2>2, <2>4, <2>5
<1> QED
  BY <1>1, <1>2, <1>3 DEF Periods

\* Every period has its interval, and an interval has two ends.
LEMMA SpansAre ==
  /\ \A p \in Periods : Span(p) \in Spans /\ Span(p).from = p /\ Span(p).to = p + PeriodTicks
  /\ \A i \in Spans : i.from \in Nat /\ i.to \in Nat
  /\ \A p, q \in Periods : Span(p) = Span(q) => p = q
<1>1. \A p \in Periods : p \in Nat /\ p + PeriodTicks \in Nat
  BY PeriodsFollow
<1>2. \A p \in Periods : Span(p) \in Spans /\ Span(p).from = p /\ Span(p).to = p + PeriodTicks
  BY DEF Spans, Span
<1>3. ASSUME NEW i \in Spans PROVE i.from \in Nat /\ i.to \in Nat
  <2>1. CASE i \in Asked
    BY <2>1
  <2>2. CASE \E p \in Periods : i = Span(p)
    BY <1>1, <1>2, <2>2
  <2> QED
    BY <2>1, <2>2 DEF Spans
<1>4. ASSUME NEW p \in Periods, NEW q \in Periods, Span(p) = Span(q) PROVE p = q
  BY <1>2, <1>4
<1> QED
  BY <1>2, <1>3, <1>4

\* Cutting every cost down to cents loses less than a cent of each.
LEMMA CutIsClose ==
  ASSUME NEW S \in SUBSET Events
  PROVE  /\ Total(Micros, S) \in Nat /\ Total(WholeCents, S) \in Nat /\ Cardinality(S) \in Nat
         /\ Cent * Total(WholeCents, S) <= Total(Micros, S)
         /\ Total(Micros, S) <= Cent * Total(WholeCents, S) + (Cent - 1) * Cardinality(S)
<1>1. IsFiniteSet(S)
  BY FS_Subset
<1>2. ASSUME NEW e \in S
      PROVE  /\ Micros[e] \in Nat /\ WholeCents[e] \in Nat
             /\ Cent * WholeCents[e] <= Micros[e]
             /\ Micros[e] <= Cent * WholeCents[e] + (Cent - 1)
  <2>1. \A a \in Nat, b \in Nat \ {0} :
          a \div b \in Nat /\ b * (a \div b) <= a /\ a <= b * (a \div b) + (b - 1)
    OBVIOUS
  <2> QED
    BY <2>1 DEF WholeCents
<1>3. Total(Micros, S) = SumOf(Micros, S) /\ Total(WholeCents, S) = SumOf(WholeCents, S)
  BY DEF Total, SumOf
<1> QED
  BY <1>1, <1>2, <1>3, SumOfMultiples

\* What generateInvoice makes of the events it has read is their cost, rounded.
LEMMA AmountIsClose ==
  ASSUME NEW S \in SUBSET Events
  PROVE  /\ AmountCents(S) \in Nat /\ Cost(S) \in Nat /\ Cardinality(S) \in Nat
         /\ 2 * Cent * AmountCents(S) <= 2 * Cost(S) + Cent
         /\ Cost(S) - Cent * AmountCents(S) <= (Cent - 1) * Cardinality(S)
<1> DEFINE cut == Total(WholeCents, S)
           sum == Total(Micros, S)
           rounded == (2 * sum + Cent) \div (2 * Cent)
<1>1. /\ sum \in Nat /\ cut \in Nat /\ Cardinality(S) \in Nat
      /\ Cent * cut <= sum /\ sum <= Cent * cut + (Cent - 1) * Cardinality(S)
  BY CutIsClose
<1>2. Cost(S) = sum /\ AmountCents(S) = IF cut > 0 THEN cut ELSE rounded
  BY DEF Cost, AmountCents
<1>3. rounded \in Nat /\ 2 * Cent * rounded <= 2 * sum + Cent
  <2>1. \A a \in Nat, b \in Nat \ {0} : a \div b \in Nat /\ b * (a \div b) <= a
    OBVIOUS
  <2>2. 2 * sum + Cent \in Nat /\ 2 * Cent \in Nat \ {0}
    BY <1>1
  <2> HIDE DEF sum
  <2> QED
    BY <2>1, <2>2
<1> HIDE DEF cut, sum, rounded
<1>4. Cent * rounded \in Nat /\ Cent * cut \in Nat /\ (Cent - 1) * Cardinality(S) \in Nat
      /\ 2 * Cent * cut = 2 * (Cent * cut)
  BY <1>1, <1>3
<1>5. CASE cut > 0
  BY <1>1, <1>2, <1>4, <1>5
<1>6. CASE ~(cut > 0)
  <2>1. cut = 0 /\ Cent * cut = 0
    BY <1>1, <1>6
  <2> QED
    BY <1>1, <1>2, <1>3, <1>4, <1>6, <2>1
<1> QED
  BY <1>5, <1>6

-----------------------------------------------------------------------------
(* Types *)

\* Billing starts well typed.
LEMMA BillTypesInit == Init => BillTypes
<1> SUFFICES ASSUME Init PROVE BillTypes
  OBVIOUS
<1>1. scan \in ScanWork /\ manual \in ManualWork /\ checkout \in CheckoutWork
  BY DEF Init, ScanWork, ManualWork, CheckoutWork
<1>2. invoice \in [Spans -> Invoices]
  BY DEF Init, Invoices
<1>3. ledger \in [start : Periods, used : Nat] /\ subStart \in Periods
  BY PeriodsFollow DEF Init
<1>4. job \in [Events -> JobStates] /\ created \in [Events -> Never .. MaxTime]
  BY DEF Init
<1>5. /\ now \in 0 .. MaxTime /\ early \subseteq Spans
      /\ calls \in 0 .. MaxCalls /\ crashes \in 0 .. MaxCrashes
  BY DEF Init
<1>6. quick \in BOOLEAN /\ unreset \in BOOLEAN
  BY Zenon DEF Init
<1> QED
  BY <1>1, <1>2, <1>3, <1>4, <1>5, <1>6 DEF BillTypes

\* What scan, operator and checkout have in hand.
LEMMA WorkInHand ==
  ASSUME BillTypes
  PROVE  /\ scan.at \in {"idle", "due", "written", "advanced", "read"}
         /\ scan.at # "idle" => scan.p \in Periods /\ Span(scan.p) \in Spans
         /\ scan.at = "read" => scan.seen \in SUBSET Events
         /\ manual.at = "read" => manual.i \in Spans /\ manual.seen \in SUBSET Events
         /\ checkout.at \in {"read", "session"} => checkout.i \in Spans
<1>1. scan \in ScanWork /\ manual \in ManualWork /\ checkout \in CheckoutWork
  BY DEF BillTypes
<1>2. /\ scan.at \in {"idle", "due", "written", "advanced", "read"}
      /\ scan.at # "idle" => scan.p \in Periods
      /\ scan.at = "read" => scan.seen \in SUBSET Events
  BY <1>1 DEF ScanWork
<1>3. manual.at = "read" => manual.i \in Spans /\ manual.seen \in SUBSET Events
  BY <1>1 DEF ManualWork
<1>4. checkout.at \in {"read", "session"} => checkout.i \in Spans
  BY <1>1 DEF CheckoutWork
<1> QED
  BY <1>2, <1>3, <1>4, SpansAre

\* An upsert writes the invoice of one interval and keeps its status once issued.
LEMMA UpsertTypes ==
  ASSUME BillTypes, NEW i \in Spans, NEW S \in SUBSET Events, UpsertInvoice(i, S)
  PROVE  /\ invoice' \in [Spans -> Invoices]
         /\ invoice'[i].cents = AmountCents(S) /\ AmountCents(S) \in Nat
         /\ invoice'[i] # NoInvoice
         /\ \A j \in Spans \ {i} : invoice'[j] = invoice[j]
<1>1. AmountCents(S) \in Nat
  BY AmountIsClose
<1>2. invoice'[i] = [cents |-> AmountCents(S), status |-> IF Issued(i) THEN invoice[i].status ELSE "DRAFT"]
  BY DEF BillTypes, UpsertInvoice, Issued
<1>3. invoice'[i] \in Invoices /\ invoice'[i] # NoInvoice
  BY <1>1, <1>2 DEF BillTypes, Invoices, Issued, NoInvoice
<1>4. invoice'[i].cents = AmountCents(S)
  BY <1>2
<1> QED
  BY <1>1, <1>3, <1>4 DEF BillTypes, UpsertInvoice

\* A payment step gives an invoice that exists another status.
LEMMA StatusTypes ==
  ASSUME BillTypes, NEW i \in Spans, Issued(i), NEW s \in Statuses,
         invoice' = [invoice EXCEPT ![i].status = s]
  PROVE  /\ invoice' \in [Spans -> Invoices]
         /\ \A j \in Spans : (Issued(j)' <=> Issued(j)) /\ invoice'[j].cents = invoice[j].cents
<1>1. invoice[i] \in [cents : Nat, status : Statuses]
  BY DEF BillTypes, Invoices, Issued
<1>2. [invoice[i] EXCEPT !.status = s] = [cents |-> invoice[i].cents, status |-> s]
  BY <1>1
<1>3. /\ invoice'[i] = [cents |-> invoice[i].cents, status |-> s]
      /\ \A j \in Spans \ {i} : invoice'[j] = invoice[j]
  BY <1>2 DEF BillTypes
<1>4. invoice'[i] \in [cents : Nat, status : Statuses]
  BY <1>1, <1>3
<1>5. invoice'[i] # NoInvoice /\ invoice'[i].cents = invoice[i].cents
  BY <1>3 DEF NoInvoice
<1> QED
  BY <1>3, <1>4, <1>5 DEF BillTypes, Invoices, Issued

\* Every step of scan, worker, operator and payment keeps the types.
LEMMA BillTypesStep ==
  BillTypes /\ ScanInStep /\ CheckoutHasInvoice /\ [Next]_vars => BillTypes'
<1> SUFFICES ASSUME BillTypes, ScanInStep, CheckoutHasInvoice, [Next]_vars PROVE BillTypes'
  OBVIOUS
<1> USE DEF vars, usageVars, scanVars, invoiceVars, payVars
<1>1. ASSUME NEW e \in Events, Usage(e) PROVE BillTypes'
  BY <1>1 DEF BillTypes, Usage, BeginStore, CommitStore
<1>2. CASE ScanFinds /\ UNCHANGED <<now, quick, usageVars, manual, early, payVars, crashes>>
  BY <1>2 DEF BillTypes, ScanFinds, ScanWork
<1>3. CASE ScanReads /\ UNCHANGED <<now, quick, usageVars, manual, early, payVars, crashes>>
  <2>1. EventsOf(Span(scan.p)) \subseteq Events /\ scan.p \in Periods
    BY <1>3, WorkInHand DEF EventsOf, Stored, ScanReads
  <2>2. scan' \in ScanWork
    BY <1>3, <2>1 DEF ScanReads, ScanWork
  <2> QED
    BY <1>3, <2>2 DEF BillTypes, ScanReads
<1>4. CASE ScanWrites /\ UNCHANGED <<now, quick, usageVars, manual, early, payVars, crashes>>
  <2>1. scan.p \in Periods /\ Span(scan.p) \in Spans /\ scan.seen \in SUBSET Events
    BY <1>4, WorkInHand DEF ScanWrites
  <2>2. invoice' \in [Spans -> Invoices]
    BY <1>4, <2>1, UpsertTypes DEF ScanWrites
  <2>3. scan' \in ScanWork
    BY <1>4, <2>1 DEF ScanWrites, ScanWork
  <2> QED
    BY <1>4, <2>2, <2>3 DEF BillTypes, ScanWrites
<1>5. CASE ScanAdvances /\ UNCHANGED <<now, quick, usageVars, manual, early, payVars, crashes>>
  <2>1. scan.p \in Periods /\ scan.p + PeriodTicks <= MaxTime
    BY <1>5, WorkInHand, PeriodsFollow DEF ScanAdvances, ScanInStep, BillTypes
  <2>2. scan.p + PeriodTicks \in Periods
    BY <2>1, PeriodsFollow
  <2>3. scan' \in ScanWork
    BY <1>5, <2>1 DEF ScanAdvances, ScanWork
  <2> QED
    BY <1>5, <2>2, <2>3 DEF BillTypes, ScanAdvances
<1>6. CASE ScanResets /\ UNCHANGED <<now, quick, usageVars, manual, early, payVars, crashes>>
  <2>1. scan.p + PeriodTicks \in Periods
    BY <1>6 DEF ScanResets, ScanInStep, BillTypes
  <2> QED
    BY <1>6, <2>1 DEF BillTypes, ScanResets, ScanWork
<1>7. CASE Manual
  <2>1. ASSUME NEW i \in Asked, ManualReads(i) PROVE BillTypes'
    <3>1. EventsOf(i) \in SUBSET Events /\ i \in Spans
      BY DEF EventsOf, Stored, Spans
    <3>2. manual' \in ManualWork /\ early' \subseteq Spans
      BY <2>1, <3>1 DEF ManualReads, ManualWork, BillTypes
    <3>3. calls' \in 0 .. MaxCalls
      BY <2>1 DEF ManualReads, BillTypes
    <3> QED
      BY <1>7, <2>1, <3>2, <3>3 DEF Manual, ManualReads, BillTypes
  <2>2. CASE ManualWrites
    <3>1. invoice' \in [Spans -> Invoices]
      BY <2>2, WorkInHand, UpsertTypes DEF ManualWrites
    <3> QED
      BY <1>7, <2>2, <3>1 DEF BillTypes, Manual, ManualWrites, ManualWork
  <2> QED
    BY <1>7, <2>1, <2>2 DEF Manual
<1>8. CASE Payment
  <2> USE DEF Payment
  <2>1. ASSUME NEW i \in Spans, CheckoutReads(i) PROVE BillTypes'
    <3>1. checkout' \in CheckoutWork /\ calls' \in 0 .. MaxCalls
      BY <2>1 DEF CheckoutReads, CheckoutWork, BillTypes
    <3> QED
      BY <1>8, <2>1, <3>1 DEF CheckoutReads, BillTypes
  <2>2. CASE CheckoutOpens
    <3>1. checkout \in CheckoutWork /\ checkout.at = "read"
      BY <2>2 DEF CheckoutOpens, BillTypes
    <3>2. checkout' \in CheckoutWork
      BY <2>2, <3>1 DEF CheckoutOpens, CheckoutWork
    <3> QED
      BY <1>8, <2>2, <3>2 DEF CheckoutOpens, BillTypes
  <2>3. CASE CheckoutSends
    <3>1. checkout.i \in Spans /\ Issued(checkout.i)
      BY <2>3, WorkInHand DEF CheckoutSends, CheckoutHasInvoice
    <3>2. invoice' \in [Spans -> Invoices]
      BY <2>3, <3>1, StatusTypes DEF CheckoutSends
    <3> QED
      BY <1>8, <2>3, <3>2 DEF CheckoutSends, BillTypes, CheckoutWork
  <2>4. ASSUME NEW i \in Spans, Webhook(i) PROVE BillTypes'
    <3>1. invoice' \in [Spans -> Invoices]
      BY <2>4, StatusTypes DEF Webhook
    <3> QED
      BY <1>8, <2>4, <3>1 DEF Webhook, BillTypes
  <2> QED
    BY <1>8, <2>1, <2>2, <2>3, <2>4 DEF Checkout
<1>9. CASE Crash
  <2>1. CASE ScanCrash
    BY <2>1 DEF ScanCrash, BillTypes, ScanWork
  <2>2. ASSUME NEW e \in Events, WorkerCrash(e), UNCHANGED <<now, quick, invoiceVars, payVars>>
        PROVE  BillTypes'
    BY <2>2 DEF WorkerCrash, BillTypes
  <2> QED
    BY <1>9, <2>1, <2>2 DEF Crash
<1>10. CASE Tick
  BY <1>10 DEF Tick, BillTypes
<1>11. CASE UNCHANGED vars
  BY <1>11 DEF BillTypes
<1> QED
  BY <1>1, <1>2, <1>3, <1>4, <1>5, <1>6, <1>7, <1>8, <1>9, <1>10, <1>11 DEF Next, Scan

-----------------------------------------------------------------------------
(* The roll-over *)

\* The first period starts with nothing stored or invoiced.
LEMMA RollInvInit == Init => RollInv
<1> SUFFICES ASSUME Init PROVE RollInv
  OBVIOUS
<1>1. Stored = {} /\ StoredSince(0) = {}
  BY DEF Init, Stored, StoredSince
<1>2. Cardinality(Stored) = 0 /\ Cardinality(StoredSince(0)) = 0
  BY <1>1, FS_EmptySet
<1>3. LedgerCounts /\ LedgerInPeriod
  BY <1>2 DEF Init, LedgerCounts, LedgerInPeriod
<1>4. PeriodsTile
  BY PeriodsFollow DEF Init, PeriodsTile
<1> QED
  BY <1>3, <1>4 DEF Init, RollInv, ScanInStep, CheckoutHasInvoice, StampedWhenBegun, QuickStores

\* The events stored, and those since a tick, can be counted.
LEMMA StoredFinite ==
  ASSUME NEW t
  PROVE  /\ IsFiniteSet(Stored) /\ Cardinality(Stored) \in Nat
         /\ IsFiniteSet(StoredSince(t)) /\ Cardinality(StoredSince(t)) \in Nat
<1>1. Stored \subseteq Events /\ StoredSince(t) \subseteq Events
  BY DEF Stored, StoredSince
<1> QED
  BY <1>1, SubsetIsSmaller

\* A step that leaves scan, subscription and time alone, and every invoice issued.
LEMMA ScanUntouched ==
  ASSUME BillTypes, RollInv, UNCHANGED <<now, subStart, scan, unreset, ledger>>,
         \A i \in Spans : Issued(i) => Issued(i)'
  PROVE  ScanInStep' /\ LedgerInPeriod' /\ PeriodsTile'
<1>1. ScanInStep'
  BY WorkInHand DEF RollInv, ScanInStep
<1>2. PeriodsTile'
  BY SpansAre DEF RollInv, PeriodsTile
<1> QED
  BY <1>1, <1>2 DEF RollInv, LedgerInPeriod

\* A step that leaves checkout alone, and every invoice issued.
LEMMA CheckoutUntouched ==
  ASSUME BillTypes, RollInv, checkout' = checkout, \A i \in Spans : Issued(i) => Issued(i)'
  PROVE  CheckoutHasInvoice'
BY WorkInHand DEF RollInv, CheckoutHasInvoice

\* A step that leaves events, stamps and ledger alone.
LEMMA LedgerUntouched ==
  ASSUME RollInv, UNCHANGED <<now, quick, job, created, ledger>>
  PROVE  StampedWhenBegun' /\ QuickStores' /\ LedgerCounts'
<1>1. Stored' = Stored /\ \A t : StoredSince(t)' = StoredSince(t)
  BY DEF Stored, StoredSince
<1>2. LedgerCounts'
  BY <1>1 DEF RollInv, LedgerCounts
<1> QED
  BY <1>2 DEF RollInv, StampedWhenBegun, QuickStores

\* Storing an event: stamped, then visible with its charge.
LEMMA UsageKeeps ==
  ASSUME BillTypes, RollInv, NEW e \in Events, Usage(e)
  PROVE  RollInv'
<1> USE DEF usageVars, scanVars, invoiceVars, payVars
<1>0. /\ UNCHANGED <<now, quick, subStart, scan, unreset, manual, invoice, early, checkout, calls, crashes>>
      /\ job \in [Events -> JobStates] /\ created \in [Events -> Never .. MaxTime] /\ now \in 0 .. MaxTime
      /\ ledger \in [start : Periods, used : Nat]
  BY DEF Usage, BillTypes
<1>1. ScanInStep' /\ CheckoutHasInvoice' /\ PeriodsTile'
  BY <1>0 DEF RollInv, ScanInStep, CheckoutHasInvoice, PeriodsTile, Issued
<1>2. StampedWhenBegun' /\ QuickStores'
  BY <1>0 DEF RollInv, StampedWhenBegun, QuickStores, Usage, BeginStore, CommitStore
<1>3. LedgerCounts' /\ LedgerInPeriod'
  <2>1. CASE BeginStore(e)
    <3>1. ledger' = ledger /\ Stored' = Stored /\ StoredSince(ledger.start)' = StoredSince(ledger.start)
      BY <1>0, <2>1 DEF BeginStore, Stored, StoredSince
    <3> QED
      BY <1>0, <3>1 DEF RollInv, LedgerCounts, LedgerInPeriod
  <2>2. CASE CommitStore(e)
    <3> DEFINE t == ledger.start
    <3>1. /\ created' = created /\ ledger'.start = t /\ ledger'.used = ledger.used + 1
          /\ t \in Periods /\ ledger.used \in Nat
      BY <1>0, <2>2 DEF CommitStore
    <3>2. Stored' = Stored \cup {e} /\ e \notin Stored
      BY <1>0, <2>2 DEF CommitStore, Stored
    <3>3. Cardinality(Stored') = Cardinality(Stored) + 1
      BY <3>2, StoredFinite, FS_AddElement
    <3>4. ASSUME quick
          PROVE  ledger'.used <= Cardinality(StoredSince(t)')
      <4>1. created[e] = now /\ t <= now
        BY <2>2, <3>4 DEF CommitStore, RollInv, QuickStores, LedgerCounts
      <4>2. StoredSince(t)' = StoredSince(t) \cup {e} /\ e \notin StoredSince(t)
        BY <3>1, <3>2, <4>1, <1>0, PeriodsFollow DEF StoredSince
      <4>3. Cardinality(StoredSince(t)') = Cardinality(StoredSince(t)) + 1
        BY <4>2, StoredFinite, FS_AddElement
      <4>4. ledger.used <= Cardinality(StoredSince(t))
        BY <3>4 DEF RollInv, LedgerCounts
      <4> QED
        BY <3>1, <4>3, <4>4, StoredFinite
    <3>5. ledger'.used <= Cardinality(Stored')
      BY <3>1, <3>3, StoredFinite DEF RollInv, LedgerCounts
    <3>6. StoredSince(ledger.start)' = StoredSince(t)'
      BY <3>1 DEF StoredSince
    <3> QED
      BY <1>0, <3>1, <3>4, <3>5, <3>6 DEF RollInv, LedgerCounts, LedgerInPeriod
  <2> QED
    BY <2>1, <2>2 DEF Usage
<1> QED
  BY <1>1, <1>2, <1>3 DEF RollInv

\* The scan rolls over the subscription's own period, which has ended.
LEMMA ScanKeeps ==
  ASSUME BillTypes, RollInv, Scan
  PROVE  RollInv'
<1> USE DEF usageVars, scanVars, invoiceVars, payVars
<1>0. /\ UNCHANGED <<now, quick, job, created, manual, early, checkout, calls, crashes>>
      /\ now \in 0 .. MaxTime /\ subStart \in Periods /\ Periods \subseteq 0 .. MaxTime
      /\ scan.at # "idle" => scan.p \in Periods /\ Span(scan.p) \in Spans
      /\ scan.at = "read" => scan.seen \in SUBSET Events
  BY PeriodsFollow, WorkInHand DEF Scan, BillTypes
<1>1. CASE ScanFinds \/ ScanReads
  <2>1. UNCHANGED <<subStart, invoice, ledger, unreset>>
    BY <1>1 DEF ScanFinds, ScanReads
  <2>2. ScanInStep' /\ scan.at # "advanced"
    BY <1>0, <1>1 DEF ScanFinds, ScanReads, RollInv, ScanInStep
  <2>3. CheckoutHasInvoice' /\ PeriodsTile' /\ LedgerInPeriod'
    BY <1>0, <2>1, <2>2 DEF RollInv, CheckoutHasInvoice, PeriodsTile, LedgerInPeriod, Issued
  <2> QED
    BY <1>0, <2>1, <2>2, <2>3, LedgerUntouched DEF RollInv
<1>2. CASE ScanWrites
  <2>1. /\ scan.at = "read" /\ UpsertInvoice(Span(scan.p), scan.seen)
        /\ UNCHANGED <<subStart, ledger, unreset>> /\ scan' = [at |-> "written", p |-> scan.p]
    BY <1>2 DEF ScanWrites
  <2>2. /\ invoice'[Span(scan.p)] # NoInvoice
        /\ \A i \in Spans \ {Span(scan.p)} : invoice'[i] = invoice[i]
    BY <1>0, <2>1, UpsertTypes
  <2>3. \A i \in Spans : Issued(i) => Issued(i)'
    BY <2>2 DEF Issued
  <2>4. ScanInStep'
    <3>1. scan'.at = "written" /\ scan'.p = scan.p
      BY <2>1
    <3>2. Issued(Span(scan.p))'
      BY <2>2, <3>1 DEF Issued, Span
    <3>3. subStart <= now /\ scan.p = subStart /\ scan.p + PeriodTicks <= now
      BY <2>1 DEF RollInv, ScanInStep
    <3> QED
      BY <1>0, <2>1, <3>1, <3>2, <3>3 DEF ScanInStep
  <2>5. PeriodsTile'
    BY <2>1, <2>3, SpansAre DEF RollInv, PeriodsTile
  <2>6. CheckoutHasInvoice' /\ LedgerInPeriod'
    BY <1>0, <2>1, <2>3, CheckoutUntouched DEF RollInv, LedgerInPeriod
  <2> QED
    BY <1>0, <2>1, <2>4, <2>5, <2>6, LedgerUntouched DEF RollInv
<1>3. CASE ScanAdvances
  <2>1. /\ UNCHANGED <<invoice, ledger, unreset>> /\ scan' = [at |-> "advanced", p |-> scan.p]
        /\ subStart' = scan.p + PeriodTicks /\ scan.p = subStart /\ Issued(Span(scan.p))
        /\ scan.p + PeriodTicks <= now
    BY <1>3 DEF ScanAdvances, RollInv, ScanInStep
  <2>2. ScanInStep' /\ LedgerInPeriod'
    BY <1>0, <2>1 DEF ScanInStep, LedgerInPeriod
  <2>3. PeriodsTile'
    <3>1. ASSUME NEW p \in Periods, p < scan.p + PeriodTicks PROVE p <= scan.p
      BY <1>0, <2>1, <3>1, PeriodsFollow
    <3>2. \A i : Issued(i)' <=> Issued(i)
      BY <2>1 DEF Issued
    <3> QED
      BY <1>0, <2>1, <3>1, <3>2 DEF RollInv, PeriodsTile
  <2>4. CheckoutHasInvoice'
    BY <1>0, <2>1 DEF RollInv, CheckoutHasInvoice, Issued
  <2> QED
    BY <1>0, <2>1, <2>2, <2>3, <2>4, LedgerUntouched DEF RollInv
<1>4. CASE ScanResets
  <2>1. /\ UNCHANGED <<invoice, subStart>> /\ scan' = Idle
        /\ ledger' = [start |-> subStart, used |-> 0] /\ subStart <= now
    BY <1>4 DEF ScanResets, RollInv, ScanInStep
  <2>2. ScanInStep' /\ LedgerInPeriod'
    BY <1>0, <2>1 DEF ScanInStep, LedgerInPeriod
  <2>3. CheckoutHasInvoice' /\ PeriodsTile'
    BY <1>0, <2>1 DEF RollInv, CheckoutHasInvoice, PeriodsTile, Issued
  <2>4. StampedWhenBegun' /\ QuickStores'
    BY <1>0 DEF RollInv, StampedWhenBegun, QuickStores
  <2>5. LedgerCounts'
    <3>1. Cardinality(Stored') \in Nat /\ Cardinality(StoredSince(subStart)') \in Nat
      <4>1. Stored' \subseteq Events /\ StoredSince(subStart)' \subseteq Events
        BY DEF Stored, StoredSince
      <4> QED
        BY <4>1, SubsetIsSmaller
    <3>2. StoredSince(ledger.start)' = StoredSince(subStart)'
      BY <2>1 DEF StoredSince
    <3> QED
      BY <1>0, <2>1, <3>1, <3>2 DEF LedgerCounts
  <2> QED
    BY <2>2, <2>3, <2>4, <2>5 DEF RollInv
<1> QED
  BY <1>1, <1>2, <1>3, <1>4 DEF Scan

\* An invoice made by hand moves no period.
LEMMA ManualKeeps ==
  ASSUME BillTypes, RollInv, Manual
  PROVE  RollInv'
<1> USE DEF usageVars, scanVars, invoiceVars, payVars
<1>0. UNCHANGED <<now, quick, job, created, ledger, subStart, scan, unreset, checkout, crashes>>
  BY DEF Manual
<1>1. \A i \in Spans : Issued(i) => Issued(i)'
  <2>1. CASE invoice' = invoice
    BY <2>1 DEF Issued
  <2>2. CASE ManualWrites
    BY <2>2, WorkInHand, UpsertTypes DEF ManualWrites, Issued
  <2> QED
    BY <2>1, <2>2 DEF Manual, ManualReads
<1> QED
  BY <1>0, <1>1, ScanUntouched, CheckoutUntouched, LedgerUntouched DEF RollInv

\* A checkout or a webhook moves no period.
LEMMA PaymentKeeps ==
  ASSUME BillTypes, RollInv, Payment
  PROVE  RollInv'
<1> USE DEF usageVars, scanVars, invoiceVars, payVars
<1>0. UNCHANGED <<now, quick, job, created, ledger, subStart, scan, unreset, manual, early, crashes>>
  BY DEF Payment
<1>1. ASSUME \A i \in Spans : Issued(i) => Issued(i)', CheckoutHasInvoice'
      PROVE  RollInv'
  BY <1>0, <1>1, ScanUntouched, LedgerUntouched DEF RollInv
<1>2. ASSUME NEW i \in Spans, CheckoutReads(i) PROVE RollInv'
  <2>1. invoice' = invoice /\ checkout' = [at |-> "read", i |-> i] /\ Issued(i)
    BY <1>2 DEF CheckoutReads
  <2> QED
    BY <1>1, <2>1 DEF Issued, CheckoutHasInvoice
<1>3. CASE CheckoutOpens
  <2>1. invoice' = invoice /\ checkout.at = "read" /\ checkout'.i = checkout.i
    BY <1>3 DEF CheckoutOpens, BillTypes, CheckoutWork
  <2> QED
    BY <1>1, <2>1 DEF Issued, CheckoutHasInvoice, RollInv
<1>4. CASE CheckoutSends
  <2>1. /\ checkout.i \in Spans /\ Issued(checkout.i) /\ checkout' = Idle
        /\ invoice' = [invoice EXCEPT ![checkout.i].status = "SENT"]
    BY <1>4, WorkInHand DEF CheckoutSends, RollInv, CheckoutHasInvoice
  <2>2. \A i \in Spans : Issued(i) => Issued(i)'
    BY <2>1, StatusTypes
  <2> QED
    BY <1>1, <2>1, <2>2 DEF CheckoutHasInvoice
<1>5. ASSUME NEW i \in Spans, Webhook(i) PROVE RollInv'
  <2>1. Issued(i) /\ checkout' = checkout /\ invoice' = [invoice EXCEPT ![i].status = "PAID"]
    BY <1>5 DEF Webhook
  <2>2. \A j \in Spans : Issued(j) => Issued(j)'
    BY <2>1, StatusTypes
  <2> QED
    BY <1>1, <2>1, <2>2, CheckoutUntouched
<1> QED
  BY <1>2, <1>3, <1>4, <1>5 DEF Payment, Checkout

\* The invariant of the roll-over is inductive.
LEMMA RollInvStep == BillTypes /\ RollInv /\ [Next]_vars => RollInv'
<1> SUFFICES ASSUME BillTypes, RollInv, [Next]_vars PROVE RollInv'
  OBVIOUS
<1> USE DEF usageVars, scanVars, invoiceVars, payVars
<1>1. CASE ScanCrash
  <2>1. /\ UNCHANGED <<now, quick, job, created, ledger, subStart, manual, invoice, checkout>>
        /\ scan' = Idle /\ (scan.at = "advanced" \/ unreset => unreset')
    BY <1>1 DEF ScanCrash
  <2>2. ScanInStep' /\ CheckoutHasInvoice' /\ PeriodsTile' /\ LedgerInPeriod'
    BY <2>1 DEF RollInv, ScanInStep, CheckoutHasInvoice, PeriodsTile, LedgerInPeriod, Issued
  <2> QED
    BY <2>1, <2>2, LedgerUntouched DEF RollInv
<1>2. ASSUME NEW e \in Events, WorkerCrash(e), UNCHANGED <<now, quick, invoiceVars, payVars>>
      PROVE  RollInv'
  <2>1. StampedWhenBegun' /\ QuickStores'
    BY <1>2 DEF WorkerCrash, RollInv, StampedWhenBegun, QuickStores, BillTypes
  <2>2. ledger' = ledger /\ Stored' = Stored /\ StoredSince(ledger.start)' = StoredSince(ledger.start)
    BY <1>2 DEF WorkerCrash, Stored, StoredSince, BillTypes
  <2>3. LedgerCounts'
    BY <1>2, <2>2 DEF RollInv, LedgerCounts
  <2>4. \A i \in Spans : Issued(i) => Issued(i)'
    BY <1>2 DEF Issued
  <2> QED
    BY <1>2, <2>1, <2>2, <2>3, <2>4, ScanUntouched, CheckoutUntouched DEF RollInv
<1>3. CASE Tick
  <2>1. /\ UNCHANGED <<quick, job, created, ledger, subStart, scan, unreset, manual, invoice, checkout>>
        /\ now' = now + 1 /\ now \in Nat /\ subStart \in Nat /\ ledger.start \in Nat
        /\ (scan.at # "idle" => scan.p \in Nat)
        /\ (quick => \A e \in Events : job[e] # "open")
    BY <1>3, PeriodsFollow, WorkInHand DEF Tick, BillTypes
  <2>2. ScanInStep' /\ LedgerInPeriod'
    BY <2>1 DEF RollInv, ScanInStep, LedgerInPeriod, Issued
  <2>3. CheckoutHasInvoice' /\ PeriodsTile'
    BY <2>1 DEF RollInv, CheckoutHasInvoice, PeriodsTile, Issued
  <2>4. StampedWhenBegun' /\ QuickStores'
    BY <2>1 DEF RollInv, StampedWhenBegun, QuickStores
  <2>5. Stored' = Stored /\ StoredSince(ledger.start)' = StoredSince(ledger.start)
    BY <2>1 DEF Stored, StoredSince
  <2>6. LedgerCounts'
    BY <2>1, <2>5 DEF RollInv, LedgerCounts
  <2> QED
    BY <2>2, <2>3, <2>4, <2>6 DEF RollInv
<1>4. CASE UNCHANGED vars
  <2>1. ScanInStep' /\ CheckoutHasInvoice' /\ PeriodsTile' /\ LedgerInPeriod'
    BY <1>4 DEF vars, RollInv, ScanInStep, CheckoutHasInvoice, PeriodsTile, LedgerInPeriod, Issued
  <2> QED
    BY <1>4, <2>1, LedgerUntouched DEF vars, RollInv
<1> QED
  BY <1>1, <1>2, <1>3, <1>4, UsageKeeps, ScanKeeps, ManualKeeps, PaymentKeeps DEF Next, Crash

\* Through crashes of either worker at any step, invoices made by hand and
\* payments at any time (workers/invoice-worker.ts, lib/usage.ts): the
\* subscription leaves no period behind that has no invoice, and the ledger counts
\* no tokens of an ended period, unless the worker died right before the reset.
THEOREM RollOverSafe == Spec => []RollOverIsSafe
<1> DEFINE Inv == BillTypes /\ RollInv
<1>1. Init => Inv
  BY BillTypesInit, RollInvInit
<1>2. Inv /\ [Next]_vars => Inv'
  BY BillTypesStep, RollInvStep DEF RollInv
<1>3. Inv => RollOverIsSafe
  <2> SUFFICES ASSUME BillTypes, RollInv PROVE RollOverIsSafe
    OBVIOUS
  <2>0. Stored \subseteq Events /\ Cardinality(Stored) <= Cardinality(Events) /\ Cardinality(Events) \in Nat
    <3>1. Stored \subseteq Events
      BY DEF Stored
    <3> QED
      BY <3>1, SubsetIsSmaller
  <2>1. ledger \in [start : Periods, used : 0 .. Cardinality(Events)]
    <3>1. ledger = [start |-> ledger.start, used |-> ledger.used] /\ ledger.start \in Periods
          /\ ledger.used \in Nat
      BY DEF BillTypes
    <3>2. ledger.used \in 0 .. Cardinality(Events)
      BY <2>0, <3>1, StoredFinite DEF RollInv, LedgerCounts
    <3> QED
      BY <3>1, <3>2
  <2>2. TypeOK
    BY <2>1 DEF BillTypes, TypeOK, Invoices
  <2>3. QuotaNeverOvercounts
    <3> DEFINE since == IF scan.at = "advanced" \/ unreset THEN ledger.start ELSE subStart
               S == {e \in Events : created[e] # Never /\ created[e] >= since}
    <3>1. since = ledger.start
      BY DEF RollInv, LedgerInPeriod
    <3> HIDE DEF since
    <3>2. StoredSince(ledger.start) \subseteq S
      BY <3>1, PeriodsFollow DEF StoredSince, Stored, RollInv, StampedWhenBegun, BillTypes
    <3>3. IsFiniteSet(S)
      <4>1. S \subseteq Events
        OBVIOUS
      <4> QED
        BY <4>1, SubsetIsSmaller
    <3> HIDE DEF S
    <3>4. Cardinality(StoredSince(ledger.start)) <= Cardinality(S) /\ Cardinality(S) \in Nat
      BY <3>2, <3>3, SubsetIsSmaller
    <3>5. quick => ledger.used <= Cardinality(S)
      BY <3>4, StoredFinite DEF RollInv, LedgerCounts, BillTypes
    <3> QED
      BY <3>5 DEF S, since, QuotaNeverOvercounts
  <2> QED
    BY <2>2, <2>3 DEF RollInv, RollOverIsSafe
<1> QED
  BY <1>1, <1>2, <1>3, PTL DEF Spec

-----------------------------------------------------------------------------
(* Amounts *)

\* What a reader has in hand is stored ...
SeenIsStored ==
  /\ scan.at = "read" => scan.seen \subseteq EventsOf(Span(scan.p))
  /\ manual.at = "read" => manual.seen \subseteq EventsOf(manual.i)

\* ... and when stores are quick it is all there will ever be of the interval,
\* unless that was not over.
SeenIsAll ==
  quick =>
    /\ scan.at = "read" => scan.seen = UsedIn(Span(scan.p))
    /\ manual.at = "read" /\ manual.i \notin early => manual.seen = UsedIn(manual.i)

Ended(i) == i.to <= now

\* Nobody but an operator invoices an interval before its end.
EndedUnlessEarly ==
  /\ \A i \in Spans : Issued(i) /\ i \notin early => Ended(i)
  /\ manual.at = "read" /\ manual.i \notin early => Ended(manual.i)

\* The amount c is at most, or at least, what the events S cost, but for rounding.
AtMost(S, c) == 2 * Cent * c <= 2 * Cost(S) + Cent
AtLeast(S, c) == Cost(S) - Cent * c <= (Cent - 1) * Cardinality(S)

\* No invoice asks for more than the stored events of its interval cost ...
BilledAtMost ==
  \A i \in Spans, S \in SUBSET Events, c \in Nat :
    Issued(i) /\ S = EventsOf(i) /\ c = invoice[i].cents => AtMost(S, c)

\* ... nor, if it was asked for once that was over, for less.
BilledAtLeast ==
  quick =>
    \A i \in Spans, S \in SUBSET Events, c \in Nat :
      Issued(i) /\ i \notin early /\ S = UsedIn(i) /\ c = invoice[i].cents => AtLeast(S, c)

AmountInv == SeenIsStored /\ SeenIsAll /\ EndedUnlessEarly /\ BilledAtMost /\ BilledAtLeast

\* At the start there is no invoice that could be wrong.
LEMMA AmountInvInit == Init => AmountInv
BY DEF Init, AmountInv, SeenIsStored, SeenIsAll, EndedUnlessEarly, BilledAtMost, BilledAtLeast, Issued

\* Stored events stay, and when stores are quick an ended interval is complete: its
\* events are stored and no event joins or leaves it.
EventsKept(i) ==
  /\ EventsOf(i) \subseteq EventsOf(i)' /\ EventsOf(i)' \subseteq Events
  /\ quick' = quick
  /\ quick /\ Ended(i) => UsedIn(i) = EventsOf(i) /\ UsedIn(i)' = UsedIn(i)

\* No step removes a stored event or, when stores are quick, adds one to an ended interval.
LEMMA EventsStay ==
  ASSUME BillTypes, RollInv, [Next]_vars, NEW i \in Spans
  PROVE  EventsKept(i)
<1> USE DEF usageVars, scanVars, invoiceVars, payVars
<1>0. /\ job \in [Events -> JobStates] /\ created \in [Events -> Never .. MaxTime]
      /\ now \in Nat /\ i.from \in Nat /\ i.to \in Nat
      /\ \A e \in Events : IF job[e] = "queued" THEN created[e] = Never ELSE created[e] \in 0 .. now
      /\ quick => \A e \in Events : job[e] = "open" => created[e] = now
  <2>1. job \in [Events -> JobStates] /\ created \in [Events -> Never .. MaxTime] /\ now \in Nat
    BY DEF BillTypes
  <2>2. i.from \in Nat /\ i.to \in Nat
    BY SpansAre
  <2>3. StampedWhenBegun /\ QuickStores
    BY DEF RollInv
  <2> QED
    BY <2>1, <2>2, <2>3, Zenon DEF StampedWhenBegun, QuickStores
<1>1. quick /\ Ended(i) => UsedIn(i) = EventsOf(i)
  BY <1>0 DEF EventsOf, Stored, In, UsedIn, Ended
<1>2. CASE UNCHANGED <<job, created, quick>>
  BY <1>1, <1>2 DEF EventsKept, EventsOf, Stored, In, UsedIn, Ended
<1>5. EventsOf(i)' \subseteq Events
  BY DEF EventsOf, Stored
<1>3. ASSUME NEW e \in Events, Usage(e) PROVE EventsKept(i)
  <2>1. quick' = quick
    BY <1>3 DEF Usage
  <2>2. CASE BeginStore(e)
    <3>1. /\ job[e] = "queued" /\ created[e] = Never
          /\ \A d \in Events : created'[d] = IF d = e THEN now ELSE created[d]
          /\ \A d \in Events : job'[d] = IF d = e THEN "open" ELSE job[d]
      BY <1>0, <2>2 DEF BeginStore
    <3>2. EventsOf(i)' = EventsOf(i)
      BY <1>0, <3>1 DEF EventsOf, Stored, In, UsedIn, Ended
    <3>3. Ended(i) => UsedIn(i)' = UsedIn(i)
      BY <1>0, <3>1 DEF EventsOf, Stored, In, UsedIn, Ended
    <3> QED
      BY <1>1, <1>5, <2>1, <3>2, <3>3 DEF EventsKept
  <2>3. CASE CommitStore(e)
    <3>1. created' = created /\ \A d \in Events : job'[d] = IF d = e THEN "stored" ELSE job[d]
      BY <1>0, <2>3 DEF CommitStore
    <3>2. EventsOf(i) \subseteq EventsOf(i)'
      BY <3>1 DEF EventsOf, Stored, In, UsedIn, Ended
    <3>3. UsedIn(i)' = UsedIn(i)
      BY <3>1 DEF EventsOf, Stored, In, UsedIn, Ended
    <3> QED
      BY <1>1, <1>5, <2>1, <3>2, <3>3 DEF EventsKept
  <2> QED
    BY <1>3, <2>2, <2>3 DEF Usage
<1>4. ASSUME NEW e \in Events, WorkerCrash(e), quick' = quick PROVE EventsKept(i)
  BY <1>0, <1>1, <1>4 DEF EventsKept, WorkerCrash, EventsOf, Stored, In, UsedIn, Ended
<1> QED
  BY <1>2, <1>3, <1>4 DEF Next, Scan, Manual, Payment, Crash, ScanCrash, Tick, vars

\* Time goes on, and what was asked for early stays known.
LEMMA EndedStays ==
  ASSUME BillTypes, [Next]_vars
  PROVE  /\ \A i \in Spans : Ended(i) => Ended(i)'
         /\ early \subseteq early' /\ quick' = quick
<1> USE DEF usageVars, scanVars, invoiceVars, payVars
<1>1. now \in Nat /\ \A i \in Spans : i.to \in Nat
  BY SpansAre DEF BillTypes
<1>2. (now' = now \/ now' = now + 1) /\ early \subseteq early' /\ quick' = quick
  BY DEF Next, Usage, Scan, Manual, ManualReads, ManualWrites, Payment, Crash, ScanCrash,
         WorkerCrash, Tick, vars
<1> QED
  BY <1>1, <1>2 DEF Ended

\* More stored events cost no less.
LEMMA CostGrows ==
  ASSUME NEW S \in SUBSET Events, NEW T \in SUBSET S
  PROVE  Cost(T) \in Nat /\ Cost(S) \in Nat /\ Cost(T) <= Cost(S)
<1>1. IsFiniteSet(S) /\ \A x \in S : Micros[x] \in Nat
  BY FS_Subset
<1>2. Cost(T) = SumOf(Micros, T) /\ Cost(S) = SumOf(Micros, S)
  BY DEF Cost, Total, SumOf
<1> QED
  BY <1>1, <1>2, SumOfPart

\* An amount that is at most the cost of some events is at most that of more.
LEMMA AtMostGrows ==
  ASSUME NEW S \in SUBSET Events, NEW T \in SUBSET S, NEW c \in Nat, AtMost(T, c)
  PROVE  AtMost(S, c)
<1>1. Cost(T) \in Nat /\ Cost(S) \in Nat /\ Cost(T) <= Cost(S)
  BY CostGrows
<1>2. 2 * Cent * c \in Nat
  OBVIOUS
<1> QED
  BY <1>1, <1>2 DEF AtMost

\* An invoice that keeps its amount keeps it right while events are stored.
LEMMA AmountKept ==
  ASSUME BillTypes, RollInv, AmountInv, [Next]_vars, NEW i \in Spans,
         Issued(i), invoice'[i].cents = invoice[i].cents
  PROVE  /\ \A S \in SUBSET Events, c \in Nat :
              S = EventsOf(i)' /\ c = invoice'[i].cents => AtMost(S, c)
         /\ quick /\ i \notin early =>
              \A S \in SUBSET Events, c \in Nat :
                S = UsedIn(i)' /\ c = invoice'[i].cents => AtLeast(S, c)
<1>1. EventsKept(i)
  BY EventsStay
<1>2. ASSUME NEW S \in SUBSET Events, NEW c \in Nat, S = EventsOf(i)', c = invoice'[i].cents
      PROVE  AtMost(S, c)
  <2>1. PICK T : T = EventsOf(i)
    OBVIOUS
  <2>2. T \in SUBSET S /\ T \in SUBSET Events /\ c = invoice[i].cents
    BY <1>1, <1>2, <2>1 DEF EventsKept
  <2>3. AtMost(T, c)
    BY <2>1, <2>2 DEF AmountInv, BilledAtMost
  <2> QED
    BY <2>2, <2>3, AtMostGrows
<1>3. ASSUME quick, i \notin early,
             NEW S \in SUBSET Events, NEW c \in Nat, S = UsedIn(i)', c = invoice'[i].cents
      PROVE  AtLeast(S, c)
  <2>1. Ended(i)
    BY <1>3 DEF AmountInv, EndedUnlessEarly
  <2>2. S = UsedIn(i) /\ c = invoice[i].cents
    BY <1>1, <1>3, <2>1 DEF EventsKept
  <2> QED
    BY <1>3, <2>2 DEF AmountInv, BilledAtLeast
<1> QED
  BY <1>2, <1>3

\* An invoice written from what was read has the right amount.
LEMMA AmountWritten ==
  ASSUME BillTypes, RollInv, AmountInv, [Next]_vars, NEW i \in Spans,
         NEW T \in SUBSET Events, T \subseteq EventsOf(i), invoice'[i].cents = AmountCents(T)
  PROVE  /\ \A S \in SUBSET Events, c \in Nat :
              S = EventsOf(i)' /\ c = invoice'[i].cents => AtMost(S, c)
         /\ \A S \in SUBSET Events, c \in Nat :
              S = T /\ c = invoice'[i].cents => AtLeast(S, c)
<1>1. EventsKept(i)
  BY EventsStay
<1>2. AmountCents(T) \in Nat /\ AtMost(T, AmountCents(T)) /\ AtLeast(T, AmountCents(T))
  BY AmountIsClose DEF AtMost, AtLeast
<1>3. ASSUME NEW S \in SUBSET Events, NEW c \in Nat, S = EventsOf(i)', c = invoice'[i].cents
      PROVE  AtMost(S, c)
  <2>1. T \in SUBSET S /\ c = AmountCents(T)
    BY <1>1, <1>3 DEF EventsKept
  <2> QED
    BY <1>2, <2>1, AtMostGrows
<1>4. ASSUME NEW S \in SUBSET Events, NEW c \in Nat, S = T, c = invoice'[i].cents
      PROVE  AtLeast(S, c)
  BY <1>2, <1>4
<1> QED
  BY <1>3, <1>4

\* A step that writes no invoice afresh keeps what is known of the amounts.
LEMMA AmountsKept ==
  ASSUME BillTypes, RollInv, AmountInv, [Next]_vars,
         \A i \in Spans : Issued(i)' => Issued(i) /\ invoice'[i].cents = invoice[i].cents
  PROVE  /\ BilledAtMost' /\ BilledAtLeast'
         /\ \A i \in Spans : Issued(i)' /\ i \notin early' => Ended(i)'
<1>0. early \subseteq early' /\ quick' = quick /\ \A i \in Spans : Ended(i) => Ended(i)'
  BY EndedStays
<1>1. BilledAtMost'
  <2> SUFFICES ASSUME NEW i \in Spans, NEW S \in SUBSET Events, NEW c \in Nat,
                      Issued(i)', S = EventsOf(i)', c = invoice'[i].cents
               PROVE  AtMost(S, c)
    BY DEF BilledAtMost
  <2> QED
    BY AmountKept
<1>2. BilledAtLeast'
  <2> SUFFICES ASSUME NEW i \in Spans, NEW S \in SUBSET Events, NEW c \in Nat,
                      quick, Issued(i)', i \notin early, S = UsedIn(i)', c = invoice'[i].cents
               PROVE  AtLeast(S, c)
    BY <1>0 DEF BilledAtLeast
  <2> QED
    BY AmountKept
<1>3. ASSUME NEW i \in Spans, Issued(i)', i \notin early' PROVE Ended(i)'
  <2>1. Ended(i)
    BY <1>0, <1>3 DEF AmountInv, EndedUnlessEarly
  <2> QED
    BY <1>0, <2>1
<1> QED
  BY <1>1, <1>2, <1>3

\* An upsert of what a reader has in hand, which is all of an ended interval when
\* stores are quick.
LEMMA UpsertAmounts ==
  ASSUME BillTypes, RollInv, AmountInv, [Next]_vars,
         NEW q \in Spans, NEW T \in SUBSET Events, T \subseteq EventsOf(q),
         UpsertInvoice(q, T),
         q \notin early => Ended(q),
         quick /\ q \notin early => T = UsedIn(q)
  PROVE  /\ BilledAtMost' /\ BilledAtLeast'
         /\ \A i \in Spans : Issued(i)' /\ i \notin early' => Ended(i)'
<1>0. early \subseteq early' /\ quick' = quick /\ \A i \in Spans : Ended(i) => Ended(i)'
  BY EndedStays
<1>1. invoice'[q].cents = AmountCents(T) /\ \A i \in Spans \ {q} : invoice'[i] = invoice[i]
  BY UpsertTypes
<1>2. EventsKept(q)
  BY EventsStay
<1>3. ASSUME NEW i \in Spans \ {q}
      PROVE  (Issued(i)' <=> Issued(i)) /\ invoice'[i].cents = invoice[i].cents
  BY <1>1 DEF Issued
<1>4. BilledAtMost'
  <2> SUFFICES ASSUME NEW i \in Spans, NEW S \in SUBSET Events, NEW c \in Nat,
                      Issued(i)', S = EventsOf(i)', c = invoice'[i].cents
               PROVE  AtMost(S, c)
    BY DEF BilledAtMost
  <2>1. CASE i = q
    BY <1>1, <2>1, AmountWritten
  <2>2. CASE i # q
    BY <1>3, <2>2, AmountKept
  <2> QED
    BY <2>1, <2>2
<1>5. BilledAtLeast'
  <2> SUFFICES ASSUME NEW i \in Spans, NEW S \in SUBSET Events, NEW c \in Nat,
                      quick, Issued(i)', i \notin early, S = UsedIn(i)', c = invoice'[i].cents
               PROVE  AtLeast(S, c)
    BY <1>0 DEF BilledAtLeast
  <2>1. CASE i = q
    <3>1. S = T
      BY <1>2, <2>1 DEF EventsKept
    <3> QED
      BY <1>1, <2>1, <3>1, AmountWritten
  <2>2. CASE i # q
    BY <1>3, <2>2, AmountKept
  <2> QED
    BY <2>1, <2>2
<1>6. ASSUME NEW i \in Spans, Issued(i)', i \notin early' PROVE Ended(i)'
  <2>1. Ended(i)
    BY <1>0, <1>3, <1>6 DEF AmountInv, EndedUnlessEarly
  <2> QED
    BY <1>0, <2>1
<1> QED
  BY <1>4, <1>5, <1>6

\* What the scan has in hand is stored, and all there will be of its period.
ScanHands ==
  scan.at = "read" =>
    /\ scan.seen \subseteq EventsOf(Span(scan.p))
    /\ quick => scan.seen = UsedIn(Span(scan.p))

\* What the operator has in hand, likewise.
ManualHands ==
  manual.at = "read" =>
    /\ manual.seen \subseteq EventsOf(manual.i)
    /\ manual.i \notin early => Ended(manual.i) /\ (quick => manual.seen = UsedIn(manual.i))

\* The invariant of the amounts, put together from its parts.
LEMMA AmountParts ==
  /\ AmountInv => ScanHands /\ ManualHands
  /\ /\ ScanHands /\ ManualHands /\ BilledAtMost /\ BilledAtLeast
     /\ \A i \in Spans : Issued(i) /\ i \notin early => Ended(i)
     => AmountInv
BY DEF AmountInv, SeenIsStored, SeenIsAll, EndedUnlessEarly, ScanHands, ManualHands

\* The scan keeps what it has in its hands.
LEMMA ScanHandsKept ==
  ASSUME BillTypes, RollInv, AmountInv, [Next]_vars, scan' = scan
  PROVE  ScanHands'
<1> SUFFICES ASSUME scan.at = "read"
             PROVE  /\ scan.seen \subseteq EventsOf(Span(scan.p))'
                    /\ quick' => scan.seen = UsedIn(Span(scan.p))'
  BY DEF ScanHands
<1>1. PICK i \in Spans : i = Span(scan.p)
  BY WorkInHand
<1>2. EventsOf(Span(scan.p))' = EventsOf(i)' /\ UsedIn(Span(scan.p))' = UsedIn(i)'
  BY <1>1 DEF EventsOf, UsedIn, Span
<1>3. Ended(i)
  BY <1>1, WorkInHand, SpansAre DEF Ended, RollInv, ScanInStep
<1>4. scan.seen \subseteq EventsOf(i) /\ (quick => scan.seen = UsedIn(i))
  BY <1>1, AmountParts DEF ScanHands
<1>5. EventsKept(i)
  BY EventsStay
<1> QED
  BY <1>2, <1>3, <1>4, <1>5 DEF EventsKept

\* The operator keeps what is in hand.
LEMMA ManualHandsKept ==
  ASSUME BillTypes, RollInv, AmountInv, [Next]_vars, manual' = manual
  PROVE  ManualHands'
<1> SUFFICES ASSUME manual.at = "read"
             PROVE  /\ manual.seen \subseteq EventsOf(manual.i)'
                    /\ manual.i \notin early' =>
                         Ended(manual.i)' /\ (quick' => manual.seen = UsedIn(manual.i)')
  BY DEF ManualHands
<1>1. PICK i \in Spans : i = manual.i
  BY WorkInHand
<1>2. /\ EventsOf(manual.i)' = EventsOf(i)' /\ UsedIn(manual.i)' = UsedIn(i)'
      /\ Ended(manual.i)' <=> Ended(i)'
  BY <1>1 DEF EventsOf, UsedIn, Ended
<1>3. /\ manual.seen \subseteq EventsOf(i)
      /\ i \notin early => Ended(i) /\ (quick => manual.seen = UsedIn(i))
  BY <1>1, AmountParts DEF ManualHands
<1>4. EventsKept(i)
  BY EventsStay
<1>5. early \subseteq early' /\ quick' = quick /\ (Ended(i) => Ended(i)')
  BY EndedStays
<1> QED
  BY <1>1, <1>2, <1>3, <1>4, <1>5 DEF EventsKept

\* So does a step that leaves the work of scan and operator and the amounts alone.
LEMMA AllKept ==
  ASSUME BillTypes, RollInv, AmountInv, [Next]_vars,
         scan' = scan \/ scan'.at # "read", manual' = manual,
         \A i \in Spans : Issued(i)' => Issued(i) /\ invoice'[i].cents = invoice[i].cents
  PROVE  AmountInv'
<1>1. ScanHands'
  BY ScanHandsKept DEF ScanHands
<1>2. ManualHands'
  BY ManualHandsKept
<1>3. /\ BilledAtMost' /\ BilledAtLeast'
      /\ \A i \in Spans : Issued(i)' /\ i \notin early' => Ended(i)'
  BY AmountsKept
<1> QED
  BY <1>1, <1>2, <1>3
  DEF AmountInv, SeenIsStored, SeenIsAll, EndedUnlessEarly, ScanHands, ManualHands

\* The scan invoices what it has read.
LEMMA ScanAmounts ==
  ASSUME BillTypes, RollInv, AmountInv, Scan
  PROVE  AmountInv'
<1> USE DEF usageVars, scanVars, invoiceVars, payVars
<1>0. /\ UNCHANGED <<now, quick, job, created, manual, early, checkout, calls, crashes>>
      /\ scan.at # "idle" => scan.p \in Periods /\ Span(scan.p) \in Spans
      /\ scan.at = "read" => scan.seen \in SUBSET Events
      /\ [Next]_vars
  BY WorkInHand DEF Scan, Next
<1>1. ASSUME invoice' = invoice
      PROVE  \A i \in Spans : Issued(i)' => Issued(i) /\ invoice'[i].cents = invoice[i].cents
  BY <1>1 DEF Issued
<1>2. CASE ScanFinds \/ ScanAdvances \/ ScanResets
  <2>1. invoice' = invoice /\ scan'.at # "read"
    BY <1>2 DEF ScanFinds, ScanAdvances, ScanResets
  <2> QED
    BY <1>0, <1>1, <2>1, AllKept
<1>3. CASE ScanReads
  <2>1. PICK i \in Spans : i = Span(scan.p)
    BY <1>0, <1>3 DEF ScanReads
  <2>2. /\ scan'.at = "read" /\ scan'.p = scan.p /\ scan'.seen = EventsOf(i) /\ invoice' = invoice
    BY <1>3, <2>1 DEF ScanReads
  <2>3. Ended(i)
    BY <1>0, <1>3, <2>1, SpansAre DEF Ended, RollInv, ScanInStep, ScanReads
  <2>4. EventsOf(Span(scan.p))' = EventsOf(i)' /\ UsedIn(Span(scan.p))' = UsedIn(i)'
    BY <2>1, <2>2 DEF EventsOf, UsedIn, Span
  <2>5. EventsKept(i)
    BY <1>0, EventsStay
  <2>6. ScanHands'
    BY <1>0, <2>2, <2>3, <2>4, <2>5 DEF ScanHands, EventsKept
  <2>7. ManualHands'
    BY <1>0, ManualHandsKept
  <2>8. /\ BilledAtMost' /\ BilledAtLeast'
        /\ \A j \in Spans : Issued(j)' /\ j \notin early' => Ended(j)'
    BY <1>0, <1>1, <2>2, AmountsKept
  <2> QED
    BY <2>6, <2>7, <2>8
    DEF AmountInv, SeenIsStored, SeenIsAll, EndedUnlessEarly, ScanHands, ManualHands
<1>4. CASE ScanWrites
  <2>1. PICK i \in Spans : i = Span(scan.p)
    BY <1>0, <1>4 DEF ScanWrites
  <2>2. PICK T \in SUBSET Events : T = scan.seen
    BY <1>0, <1>4 DEF ScanWrites
  <2>3. scan.at = "read" /\ UpsertInvoice(i, T) /\ scan'.at = "written"
    BY <1>4, <2>1, <2>2 DEF ScanWrites
  <2>4. T \subseteq EventsOf(i) /\ (quick => T = UsedIn(i))
    BY <2>1, <2>2, <2>3, AmountParts DEF ScanHands
  <2>5. Ended(i)
    BY <1>0, <2>1, <2>3, SpansAre DEF Ended, RollInv, ScanInStep
  <2>6. /\ BilledAtMost' /\ BilledAtLeast'
        /\ \A j \in Spans : Issued(j)' /\ j \notin early' => Ended(j)'
    BY <1>0, <2>3, <2>4, <2>5, UpsertAmounts
  <2>7. ScanHands' /\ ManualHands'
    BY <1>0, <2>3, ManualHandsKept DEF ScanHands
  <2> QED
    BY <2>6, <2>7
    DEF AmountInv, SeenIsStored, SeenIsAll, EndedUnlessEarly, ScanHands, ManualHands
<1> QED
  BY <1>2, <1>3, <1>4 DEF Scan

\* The operator's invoice has what its reader had in hand.
LEMMA ManualAmounts ==
  ASSUME BillTypes, RollInv, AmountInv, Manual
  PROVE  AmountInv'
<1> USE DEF usageVars, scanVars, invoiceVars, payVars
<1>0. UNCHANGED <<now, quick, job, created, ledger, subStart, scan, checkout, crashes>> /\ [Next]_vars
  BY DEF Manual, Next
<1>1. ScanHands'
  BY <1>0, ScanHandsKept
<1>2. ASSUME NEW i \in Asked, ManualReads(i) PROVE AmountInv'
  <2>1. /\ invoice' = invoice /\ manual'.at = "read" /\ manual'.i = i /\ manual'.seen = EventsOf(i)
        /\ early' = IF i.to > now THEN early \cup {i} ELSE early
    BY <1>2 DEF ManualReads
  <2>2. i \in Spans /\ i.to \in Nat /\ now \in Nat
    BY SpansAre DEF Spans, BillTypes
  <2>3. i \notin early' => Ended(i)
    BY <2>1, <2>2 DEF Ended
  <2>4. /\ EventsOf(manual.i)' = EventsOf(i)' /\ UsedIn(manual.i)' = UsedIn(i)'
        /\ Ended(manual.i)' <=> Ended(i)'
    BY <2>1 DEF EventsOf, UsedIn, Ended
  <2>5. EventsKept(i) /\ (Ended(i) => Ended(i)')
    BY <1>0, <2>2, EventsStay, EndedStays
  <2>6. ManualHands'
    BY <1>0, <2>1, <2>3, <2>4, <2>5 DEF ManualHands, EventsKept
  <2>7. \A j \in Spans : Issued(j)' => Issued(j) /\ invoice'[j].cents = invoice[j].cents
    BY <2>1 DEF Issued
  <2>8. /\ BilledAtMost' /\ BilledAtLeast'
        /\ \A j \in Spans : Issued(j)' /\ j \notin early' => Ended(j)'
    BY <1>0, <2>7, AmountsKept
  <2> QED
    BY <1>1, <2>6, <2>8
    DEF AmountInv, SeenIsStored, SeenIsAll, EndedUnlessEarly, ScanHands, ManualHands
<1>3. CASE ManualWrites
  <2>1. /\ manual.i \in Spans /\ manual.seen \in SUBSET Events
        /\ manual.at = "read" /\ manual' = Idle /\ UpsertInvoice(manual.i, manual.seen)
    BY <1>3, WorkInHand DEF ManualWrites
  <2>2. PICK i \in Spans : i = manual.i
    BY <2>1
  <2>3. PICK T \in SUBSET Events : T = manual.seen
    BY <2>1
  <2>4. /\ T \subseteq EventsOf(i) /\ UpsertInvoice(i, T)
        /\ i \notin early => Ended(i) /\ (quick => T = UsedIn(i))
    BY <2>1, <2>2, <2>3, AmountParts DEF ManualHands
  <2>5. /\ BilledAtMost' /\ BilledAtLeast'
        /\ \A j \in Spans : Issued(j)' /\ j \notin early' => Ended(j)'
    BY <1>0, <2>4, UpsertAmounts
  <2>6. ManualHands'
    BY <2>1 DEF ManualHands
  <2> QED
    BY <1>1, <2>5, <2>6
    DEF AmountInv, SeenIsStored, SeenIsAll, EndedUnlessEarly, ScanHands, ManualHands
<1> QED
  BY <1>2, <1>3 DEF Manual

\* A payment changes the status of an invoice and not its amount.
LEMMA PaymentAmounts ==
  ASSUME BillTypes, RollInv, AmountInv, Payment
  PROVE  AmountInv'
<1> USE DEF usageVars, scanVars, invoiceVars, payVars
<1>0. UNCHANGED <<now, quick, job, created, ledger, subStart, scan, manual, early, crashes>> /\ [Next]_vars
  BY DEF Payment, Next
<1>1. \A i \in Spans : Issued(i)' => Issued(i) /\ invoice'[i].cents = invoice[i].cents
  <2>1. CASE invoice' = invoice
    BY <2>1 DEF Issued
  <2>2. CASE CheckoutSends
    <3>1. /\ checkout.i \in Spans /\ Issued(checkout.i)
          /\ invoice' = [invoice EXCEPT ![checkout.i].status = "SENT"]
      BY <2>2, WorkInHand DEF CheckoutSends, RollInv, CheckoutHasInvoice
    <3> QED
      BY <3>1, StatusTypes
  <2>3. ASSUME NEW i \in Spans, Webhook(i) PROVE <1>1!:
    <3>1. Issued(i) /\ invoice' = [invoice EXCEPT ![i].status = "PAID"]
      BY <2>3 DEF Webhook
    <3> QED
      BY <3>1, StatusTypes
  <2> QED
    BY <2>1, <2>2, <2>3 DEF Payment, Checkout, CheckoutReads, CheckoutOpens
<1> QED
  BY <1>0, <1>1, AllKept

\* The invariant of the amounts is inductive.
LEMMA AmountInvStep == BillTypes /\ RollInv /\ AmountInv /\ [Next]_vars => AmountInv'
<1> SUFFICES ASSUME BillTypes, RollInv, AmountInv, [Next]_vars PROVE AmountInv'
  OBVIOUS
<1> USE DEF usageVars, scanVars, invoiceVars, payVars
<1>1. ASSUME UNCHANGED <<manual, invoice>>, scan' = scan \/ scan' = Idle PROVE AmountInv'
  <2>1. \A i \in Spans : Issued(i)' => Issued(i) /\ invoice'[i].cents = invoice[i].cents
    BY <1>1 DEF Issued
  <2>2. scan' = scan \/ scan'.at # "read"
    BY <1>1
  <2> QED
    BY <1>1, <2>1, <2>2, AllKept
<1>2. CASE (\E e \in Events : Usage(e)) \/ Crash \/ Tick \/ UNCHANGED vars
  BY <1>1, <1>2 DEF Usage, Crash, ScanCrash, Tick, vars
<1> QED
  BY <1>2, ScanAmounts, ManualAmounts, PaymentAmounts DEF Next

\* Whatever is stored, invoiced by the scan or by hand, paid or cut short in between
\* (packages/billing, workers/invoice-worker.ts, routes/internal.ts): an invoice
\* never asks for more than the metered cost of its interval rounded to the nearest
\* cent, and when events are stored at once it misses less than a cent of each, for
\* any interval that nobody asked for before its end.
THEOREM InvoicesAreRight == Spec => []InvoiceIsRight
<1> DEFINE Inv == BillTypes /\ RollInv /\ AmountInv
<1>1. Init => Inv
  BY BillTypesInit, RollInvInit, AmountInvInit
<1>2. Inv /\ [Next]_vars => Inv'
  BY BillTypesStep, RollInvStep, AmountInvStep DEF RollInv
<1>3. Inv => InvoiceIsRight
  <2> SUFFICES ASSUME BillTypes, RollInv, AmountInv PROVE InvoiceIsRight
    OBVIOUS
  <2>1. ASSUME NEW i \in Spans, Issued(i)
        PROVE  2 * Cent * invoice[i].cents <= 2 * Cost(UsedIn(i)) + Cent
    <3>1. PICK c \in Nat : c = invoice[i].cents
      BY <2>1 DEF BillTypes, Invoices, Issued
    <3>2. EventsOf(i) \in SUBSET UsedIn(i) /\ UsedIn(i) \in SUBSET Events /\ EventsOf(i) \in SUBSET Events
      BY DEF EventsOf, UsedIn, Stored, RollInv, StampedWhenBegun, BillTypes
    <3>3. AtMost(EventsOf(i), c)
      BY <2>1, <3>1, <3>2 DEF AmountInv, BilledAtMost
    <3>4. AtMost(UsedIn(i), c)
      BY <3>2, <3>3, AtMostGrows
    <3> QED
      BY <3>1, <3>4 DEF AtMost
  <2>2. ASSUME quick, NEW i \in Spans, Issued(i), i \notin early
        PROVE  Cost(UsedIn(i)) - Cent * invoice[i].cents <= (Cent - 1) * Cardinality(UsedIn(i))
    <3>1. invoice[i].cents \in Nat
      BY <2>2 DEF BillTypes, Invoices, Issued
    <3>2. UsedIn(i) \in SUBSET Events
      BY DEF UsedIn
    <3>3. AtLeast(UsedIn(i), invoice[i].cents)
      BY <2>2, <3>1, <3>2 DEF AmountInv, BilledAtLeast
    <3> QED
      BY <3>3 DEF AtLeast
  <2> QED
    BY <2>1, <2>2 DEF InvoiceIsRight, NeverOverbills, EndedIsBilled
<1> QED
  BY <1>1, <1>2, <1>3, PTL DEF Spec
=============================================================================

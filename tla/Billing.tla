------------------------------ MODULE Billing -------------------------------
(***************************************************************************)
(* From a metered request to a paid invoice, for one customer: the usage     *)
(* worker stores events (lib/usage.ts), the daily scan invoices the           *)
(* subscription's finished periods and opens the next one                     *)
(* (workers/invoice-worker.ts, packages/billing), an operator may generate an *)
(* invoice by hand for any interval (routes/internal.ts), and invoices get    *)
(* their status from checkouts and from webhooks.                            *)
(*                                                                           *)
(* Time is a counter; a period is a number of ticks. Costs are in units of    *)
(* which Cent make one cent (10000 micros in the code).                       *)
(***************************************************************************)
EXTENDS Integers, FiniteSets, FiniteSetsExt

CONSTANTS
  Events,      \* usage events, one per metered request
  Micros,      \* the cost of each request
  Cent,        \* units in a cent
  PeriodTicks, \* the length of a billing period
  Asked,       \* the intervals operators ask invoices for
  MaxTime,     \* bound on the clock
  MaxCrashes,  \* bound on crashes of a worker
  MaxCalls     \* bound on invoices by hand, checkouts and webhooks

ASSUME BillingAssumption ==
  /\ IsFiniteSet(Events) /\ Micros \in [Events -> Nat] /\ Cent \in Nat \ {0}
  /\ PeriodTicks \in Nat \ {0} /\ MaxTime \in Nat /\ MaxCrashes \in Nat /\ MaxCalls \in Nat

NoInvoice == [cents |-> 0, status |-> "none"]
Never == -1
\* Periods are named by their first tick.
Periods == {t \in 0 .. MaxTime : \E k \in 0 .. MaxTime : t = k * PeriodTicks}

\* An invoice is for an interval: that of a period, or any other.
ASSUME AskedAssumption == Asked \subseteq [from : Nat, to : Nat]
Span(p) == [from |-> p, to |-> p + PeriodTicks]
Spans == {Span(p) : p \in Periods} \cup Asked
In(i, t) == i.from <= t /\ t < i.to

VARIABLES
  now,
  quick,     \* usage jobs are stored in the tick they begin in
  job,       \* where the usage worker is with each event
  created,   \* UsageEvent.createdAt, Never before the transaction begins
  subStart,  \* Subscription.currentPeriodStart
  ledger,    \* the quota ledger: its period and the tokens used in it
  scan,      \* the invoice worker: where it is, the period and what it read
  manual,    \* an operator's invoice generation
  invoice,   \* amount and status by interval, NoInvoice before there is one
  early,     \* intervals an operator has asked for before they ended
  unreset,   \* the worker ended between moving the subscription and the ledger
  checkout,  \* a checkout: where it is and the invoice it is for
  calls,     \* how many invoices by hand, checkouts and webhooks there were
  crashes

usageVars == <<job, created>>
scanVars == <<subStart, scan, unreset>>
invoiceVars == <<scanVars, manual, invoice, early>>
payVars == <<checkout, calls>>
vars == <<now, quick, usageVars, ledger, invoiceVars, payVars, crashes>>

JobStates == {"queued", "open", "stored"}
Idle == [at |-> "idle"]
Statuses == {"DRAFT", "SENT", "PAID"}
ScanWork == {Idle} \cup [at : {"due", "written", "advanced"}, p : Periods]
            \cup [at : {"read"}, p : Periods, seen : SUBSET Events]
ManualWork == {Idle} \cup [at : {"read"}, i : Spans, seen : SUBSET Events]
CheckoutWork == {Idle} \cup [at : {"read", "session"}, i : Spans]

TypeOK ==
  /\ now \in 0 .. MaxTime /\ quick \in BOOLEAN
  /\ job \in [Events -> JobStates] /\ created \in [Events -> Never .. MaxTime]
  /\ subStart \in Periods
  /\ ledger \in [start : Periods, used : 0 .. Cardinality(Events)]
  /\ scan \in ScanWork /\ manual \in ManualWork /\ unreset \in BOOLEAN
  /\ \A i \in Spans : invoice[i] = NoInvoice \/ invoice[i] \in [cents : Nat, status : Statuses]
  /\ early \subseteq Spans
  /\ checkout \in CheckoutWork
  /\ calls \in 0 .. MaxCalls /\ crashes \in 0 .. MaxCrashes

Init ==
  /\ now = 0 /\ quick \in BOOLEAN
  /\ job = [e \in Events |-> "queued"] /\ created = [e \in Events |-> Never]
  /\ subStart = 0 /\ ledger = [start |-> 0, used |-> 0]
  /\ scan = Idle /\ manual = Idle /\ unreset = FALSE
  /\ invoice = [i \in Spans |-> NoInvoice] /\ early = {}
  /\ checkout = Idle /\ calls = 0
  /\ crashes = 0

Issued(i) == invoice[i] # NoInvoice

\* Events are visible once their transaction has committed.
Stored == {e \in Events : job[e] = "stored"}

-----------------------------------------------------------------------------
(* Usage events and receipts *)

JobGoes(e, s, t) == job[e] = s /\ job' = [job EXCEPT ![e] = t]

\* persistUsageEvent: the transaction stamps the event when it begins ...
BeginStore(e) ==
  /\ JobGoes(e, "queued", "open")
  /\ created' = [created EXCEPT ![e] = now]
  /\ UNCHANGED ledger

\* ... and makes it visible, with its charge on the ledger, when it commits.
CommitStore(e) ==
  /\ JobGoes(e, "open", "stored")
  /\ ledger' = [ledger EXCEPT !.used = @ + 1]
  /\ UNCHANGED created

\* A crash rolls an open transaction back; the queue delivers the job again. A
\* job delivered again after its commit finds the event and changes nothing.
WorkerCrash(e) ==
  /\ job[e] = "open" /\ crashes < MaxCrashes
  /\ crashes' = crashes + 1
  /\ job' = [job EXCEPT ![e] = "queued"]
  /\ created' = [created EXCEPT ![e] = Never]
  /\ UNCHANGED ledger

Usage(e) ==
  /\ BeginStore(e) \/ CommitStore(e)
  /\ UNCHANGED <<now, quick, invoiceVars, payVars, crashes>>

-----------------------------------------------------------------------------
(* Invoices *)

WholeCents == [e \in Events |-> Micros[e] \div Cent]
Total(f, S) == MapThenSumSet(LAMBDA e : f[e], S)

\* The cost of each request is cut down to whole cents; only if that leaves
\* nothing are the rates of all events added up and rounded.
AmountCents(seen) ==
  LET cut == Total(WholeCents, seen)
      sum == Total(Micros, seen)
  IN  IF cut > 0 THEN cut ELSE (2 * sum + Cent) \div (2 * Cent)

\* A mutant: the end of the period is included.
EventsToEnd(i) == {e \in Stored : i.from <= created[e] /\ created[e] <= i.to}

\* generateInvoice reads the events with periodStart <= createdAt < periodEnd.
EventsOf(i) == {e \in Stored : In(i, created[e])}

\* The upsert: a new invoice is a draft, an existing one keeps its status.
UpsertInvoice(i, seen) ==
  invoice' = [invoice EXCEPT ![i] =
    [cents |-> AmountCents(seen), status |-> IF @ = NoInvoice THEN "DRAFT" ELSE @.status]]

\* A mutant: periods without usage are passed over.
ScanFindsUsed ==
  /\ scan = Idle /\ subStart + PeriodTicks <= now /\ EventsOf(Span(subStart)) # {}
  /\ scan' = [at |-> "due", p |-> subStart]
  /\ UNCHANGED <<subStart, invoice, ledger, unreset>>

\* The daily scan finds a subscription whose period has ended.
ScanFinds ==
  /\ scan = Idle /\ subStart + PeriodTicks <= now
  /\ scan' = [at |-> "due", p |-> subStart]
  /\ UNCHANGED <<subStart, invoice, ledger, unreset>>

ScanReads ==
  /\ scan.at = "due"
  /\ scan' = [at |-> "read", p |-> scan.p, seen |-> EventsOf(Span(scan.p))]
  /\ UNCHANGED <<subStart, invoice, ledger, unreset>>

ScanWrites ==
  /\ scan.at = "read"
  /\ UpsertInvoice(Span(scan.p), scan.seen)
  /\ scan' = [at |-> "written", p |-> scan.p]
  /\ UNCHANGED <<subStart, ledger, unreset>>

\* Only then does the subscription move to the next period ...
ScanAdvances ==
  /\ scan.at = "written"
  /\ subStart' = scan.p + PeriodTicks
  /\ scan' = [at |-> "advanced", p |-> scan.p]
  /\ UNCHANGED <<invoice, ledger, unreset>>

\* A mutant: the ledger's period moves, its tokens stay.
ScanMovesLedger ==
  /\ scan.at = "advanced"
  /\ ledger' = [ledger EXCEPT !.start = scan.p + PeriodTicks]
  /\ scan' = Idle /\ unreset' = FALSE
  /\ UNCHANGED <<subStart, invoice>>

\* ... and the quota ledger start again.
ScanResets ==
  /\ scan.at = "advanced"
  /\ ledger' = [start |-> scan.p + PeriodTicks, used |-> 0]
  /\ scan' = Idle /\ unreset' = FALSE
  /\ UNCHANGED <<subStart, invoice>>

Scan ==
  /\ ScanFinds \/ ScanReads \/ ScanWrites \/ ScanAdvances \/ ScanResets
  /\ UNCHANGED <<now, quick, usageVars, manual, early, payVars, crashes>>

\* The invoice worker dies or one of its writes fails, and the job with it; the
\* next day's scan starts afresh. Once the subscription has moved on it does not
\* find the period again, and the ledger stays as it is until the next ends.
ScanCrash ==
  /\ scan # Idle /\ crashes < MaxCrashes
  /\ crashes' = crashes + 1
  /\ scan' = Idle /\ unreset' = (unreset \/ scan.at = "advanced")
  /\ UNCHANGED <<now, quick, usageVars, ledger, subStart, manual, invoice, early, payVars>>

\* POST /internal/invoices/generate takes any start and end; the interval may
\* overlap others, and may not be over.
ManualReads(i) ==
  /\ manual = Idle /\ calls < MaxCalls
  /\ calls' = calls + 1
  /\ manual' = [at |-> "read", i |-> i, seen |-> EventsOf(i)]
  /\ early' = IF i.to > now THEN early \cup {i} ELSE early
  /\ UNCHANGED invoice

ManualWrites ==
  /\ manual.at = "read"
  /\ UpsertInvoice(manual.i, manual.seen)
  /\ manual' = Idle
  /\ UNCHANGED <<early, calls>>

Manual ==
  /\ (\E i \in Asked : ManualReads(i)) \/ ManualWrites
  /\ UNCHANGED <<now, quick, usageVars, ledger, scanVars, checkout, crashes>>

-----------------------------------------------------------------------------
(* Payment *)

\* The checkout reads the invoice, asks the provider for a session and then
\* marks the invoice SENT, whatever it was and has become.
CheckoutReads(i) ==
  /\ checkout = Idle /\ calls < MaxCalls
  /\ Issued(i)
  /\ checkout' = [at |-> "read", i |-> i] /\ calls' = calls + 1
  /\ UNCHANGED invoice

CheckoutOpens ==
  /\ checkout.at = "read"
  /\ checkout' = [checkout EXCEPT !.at = "session"]
  /\ UNCHANGED <<invoice, calls>>

CheckoutSends ==
  /\ checkout.at = "session"
  /\ invoice' = [invoice EXCEPT ![checkout.i].status = "SENT"]
  /\ checkout' = Idle
  /\ UNCHANGED calls

Checkout == (\E i \in Spans : CheckoutReads(i)) \/ CheckoutOpens \/ CheckoutSends

\* A webhook marks the invoice it names PAID. The mock adapter, which is used
\* unless Stripe is configured, verifies nothing, so that it may name any.
Webhook(i) ==
  /\ calls < MaxCalls
  /\ Issued(i)
  /\ invoice' = [invoice EXCEPT ![i].status = "PAID"]
  /\ calls' = calls + 1
  /\ UNCHANGED checkout

Payment ==
  /\ Checkout \/ \E i \in Spans : Webhook(i)
  /\ UNCHANGED <<now, quick, usageVars, ledger, scanVars, manual, early, crashes>>

Tick ==
  /\ now < MaxTime
  /\ quick => \A e \in Events : job[e] # "open"
  /\ now' = now + 1
  /\ UNCHANGED <<quick, usageVars, ledger, invoiceVars, payVars, crashes>>

Crash == ScanCrash \/ \E e \in Events : WorkerCrash(e) /\ UNCHANGED <<now, quick, invoiceVars, payVars>>

Next == (\E e \in Events : Usage(e)) \/ Scan \/ Manual \/ Payment \/ Crash \/ Tick

Spec == Init /\ [][Next]_vars

\* The scheduler runs the scan every day and the queue delivers its jobs.
FairSpec == Spec /\ WF_vars(Scan) /\ \A e \in Events : WF_vars(Usage(e))

-----------------------------------------------------------------------------
(* Properties *)

\* The subscription only leaves a period behind that has an invoice, through
\* crashes of the worker at any of its steps: no stretch of time is skipped.
PeriodsTile == \A p \in Periods : p < subStart => Issued(Span(p))

Cost(S) == Total(Micros, S)
UsedIn(i) == {e \in Events : created[e] # Never /\ In(i, created[e])}

\* An invoice never asks for more than the metered cost of its interval, rounded
\* to the nearest cent: neither a slow generation, nor one by hand that runs
\* beside the scan's, nor an event stored late makes the amount too large.
NeverOverbills ==
  \A i \in Spans :
    Issued(i) => 2 * Cent * invoice[i].cents <= 2 * Cost(UsedIn(i)) + Cent

\* When events are stored at once an invoice, the scan's or an operator's, misses
\* less than a cent of each event of its interval, whichever of them writes it
\* last; unless an operator asked for that very interval before it was over.
EndedIsBilled ==
  quick =>
    \A i \in Spans : Issued(i) /\ i \notin early =>
      Cost(UsedIn(i)) - Cent * invoice[i].cents <= (Cent - 1) * Cardinality(UsedIn(i))

\* When events are stored at once, the quota ledger holds tokens of the
\* subscription's current period only, so that a customer is not refused for last
\* month's usage: except between the two writes of the roll-over, and, if the
\* worker ends between them, until the next period begins. Even then it holds none
\* from before the last reset.
QuotaNeverOvercounts ==
  quick =>
    LET since == IF scan.at = "advanced" \/ unreset THEN ledger.start ELSE subStart
    IN  ledger.used <= Cardinality({e \in Events : created[e] # Never /\ created[e] >= since})

\* Every period that ends gets its invoice, however often the worker dies.
EndedIsInvoiced ==
  \A p \in Periods : p + PeriodTicks <= now ~> Issued(Span(p))

\* What an invoice says is right within rounding, in both directions
\* (packages/billing/src/index.ts): never more than the metered cost of its
\* interval, and less by under a cent per event if it was generated after the
\* interval's end.
InvoiceIsRight == NeverOverbills /\ EndedIsBilled

\* The three writes of invoice-worker.ts may be cut short: wherever the worker
\* dies, state keeps its types, no period is left behind without an invoice, and
\* the ledger holds no tokens of an ended period unless the worker died right
\* before its reset.
RollOverIsSafe == TypeOK /\ PeriodsTile /\ QuotaNeverOvercounts
=============================================================================

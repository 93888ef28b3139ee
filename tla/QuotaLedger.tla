---------------------------- MODULE QuotaLedger -----------------------------
(***************************************************************************)
(* The quota ledger of one customer: the QuotaLedger row (tokensUsed,       *)
(* tokensReserved) and its append-only QuotaLedgerEntry rows, as            *)
(* quotaLedger.ts, usage.ts, invoice-worker.ts and the operator's           *)
(* adjustCustomerQuotaAction change them.                                   *)
(*                                                                          *)
(* Every operation is one database transaction and so one action.  Entries  *)
(* are keyed by their unique idempotencyKey: a request owns the keys        *)
(* <exec>:reserve, <exec>:usage:commit and <exec>:release, written here     *)
(* <<r, "reserve">>, <<r, "commit">> and <<r, "release">>.  An absent row   *)
(* counts as zero in both delta columns.                                    *)
(***************************************************************************)
EXTENDS Integers, FiniteSets, FiniteSetsExt

CONSTANTS
  Requests,    \* inference requests of the customer
  Limit,       \* monthlyTokenQuota of the plan; 0 is "unlimited"
  Estimate,    \* [Requests -> tokens]: prompt estimate + max_tokens
  Actuals      \* token counts a generation may report

ASSUME RequestsAssumption == IsFiniteSet(Requests)
ASSUME LimitAssumption == Limit \in Nat
ASSUME EstimateAssumption == Estimate \in [Requests -> Nat \ {0}]
ASSUME ActualsAssumption == Actuals \subseteq Nat \ {0}

Ops == {"reserve", "commit", "release"}
Keys == Requests \X Ops

VARIABLES
  tokensUsed,      \* QuotaLedger.tokensUsed
  tokensReserved,  \* QuotaLedger.tokensReserved
  entries,         \* idempotency keys present in QuotaLedgerEntry
  deltaTokens,     \* column deltaTokens by key
  reservedDelta,   \* column reservedDelta by key
  closedTokens     \* history: tokens zeroed by roll-overs and resets

ledgerVars == <<tokensUsed, tokensReserved, entries, deltaTokens,
                reservedDelta, closedTokens>>

LedgerTypeOK ==
  /\ tokensUsed \in Nat
  /\ tokensReserved \in Int
  /\ entries \subseteq Keys
  /\ deltaTokens \in [Keys -> Nat]
  /\ reservedDelta \in [Keys -> Int]
  /\ closedTokens \in Nat

LedgerInit ==
  /\ tokensUsed = 0
  /\ tokensReserved = 0
  /\ entries = {}
  /\ deltaTokens = [k \in Keys |-> 0]
  /\ reservedDelta = [k \in Keys |-> 0]
  /\ closedTokens = 0

-----------------------------------------------------------------------------
(* Shared pieces of the transactions. *)

\* Mutant: live reservations are not counted.
WouldExceedIgnoringReserved(used, reserved, estimate, limit) ==
  limit > 0 /\ used + estimate > limit

WouldExceedQuota(used, reserved, estimate, limit) ==
  limit > 0 /\ used + reserved + estimate > limit

\* SUM(reservedDelta) over the entries of one request (commitQuota's aggregate).
ReservedOf(r) == reservedDelta[<<r, "reserve">>] + reservedDelta[<<r, "commit">>]
                   + reservedDelta[<<r, "release">>]

CreateEntry(k, delta, reserved) ==
  /\ entries' = entries \cup {k}
  /\ deltaTokens' = [deltaTokens EXCEPT ![k] = delta]
  /\ reservedDelta' = [reservedDelta EXCEPT ![k] = reserved]

\* "if (existing) return existing": a repeated call changes nothing.
AlreadyRecorded(k) == k \in entries /\ UNCHANGED ledgerVars

-----------------------------------------------------------------------------
(* The operations. *)

CanReserve(r, limit) ==
  \/ <<r, "reserve">> \in entries
  \/ ~WouldExceedQuota(tokensUsed, tokensReserved, Estimate[r], limit)

\* The limit is the caller's: what authentication read of plan and bonus.
ReserveQuota(r, limit) ==
  \/ AlreadyRecorded(<<r, "reserve">>)
  \/ /\ <<r, "reserve">> \notin entries
     /\ ~WouldExceedQuota(tokensUsed, tokensReserved, Estimate[r], limit)
     /\ CreateEntry(<<r, "reserve">>, 0, Estimate[r])
     /\ tokensReserved' = tokensReserved + Estimate[r]
     /\ UNCHANGED <<tokensUsed, closedTokens>>

\* Mutant: the estimate is charged instead of the measured tokens.
CommitEstimate(r, actual) ==
  /\ CreateEntry(<<r, "commit">>, Estimate[r], -ReservedOf(r))
  /\ tokensUsed' = tokensUsed + Estimate[r]
  /\ tokensReserved' = tokensReserved - ReservedOf(r)
  /\ UNCHANGED closedTokens

\* Mutant: the reservation is left in place.
CommitKeepsReservation(r, actual) ==
  /\ CreateEntry(<<r, "commit">>, actual, 0)
  /\ tokensUsed' = tokensUsed + actual
  /\ UNCHANGED <<tokensReserved, closedTokens>>

CommitQuota(r, actual) ==
  \/ AlreadyRecorded(<<r, "commit">>)
  \/ /\ <<r, "commit">> \notin entries
     /\ LET release == IF ReservedOf(r) > 0 THEN ReservedOf(r) ELSE 0
        IN  /\ CreateEntry(<<r, "commit">>, actual, -release)
            /\ tokensUsed' = tokensUsed + actual
            /\ tokensReserved' = tokensReserved - release
     /\ UNCHANGED closedTokens

\* Mutant: the entry is written, the ledger row is not updated.
ReleaseEntryOnly(r) ==
  /\ CreateEntry(<<r, "release">>, 0, -Estimate[r])
  /\ UNCHANGED <<tokensUsed, tokensReserved, closedTokens>>

ReleaseQuota(r) ==
  \/ AlreadyRecorded(<<r, "release">>)
  \/ /\ <<r, "release">> \notin entries
     /\ LET amount == IF Estimate[r] > tokensReserved
                      THEN tokensReserved ELSE Estimate[r]
        IN  /\ CreateEntry(<<r, "release">>, 0, -amount)
            /\ tokensReserved' = tokensReserved - amount
     /\ UNCHANGED <<tokensUsed, closedTokens>>

\* Mutant: tokensUsed grows whether or not a row was inserted.
UsageCommitUnconditional(r, tokens) ==
  /\ IF <<r, "commit">> \in entries
     THEN UNCHANGED <<entries, deltaTokens, reservedDelta>>
     ELSE CreateEntry(<<r, "commit">>, tokens, 0)
  /\ tokensUsed' = tokensUsed + tokens
  /\ UNCHANGED <<tokensReserved, closedTokens>>

\* The ledger part of persistUsageEvent: createMany with skipDuplicates on the
\* same key as CommitQuota, and an increment only if a row was inserted.
UsageCommit(r, tokens) ==
  \/ AlreadyRecorded(<<r, "commit">>)
  \/ /\ <<r, "commit">> \notin entries
     /\ CreateEntry(<<r, "commit">>, tokens, 0)
     /\ tokensUsed' = tokensUsed + tokens
     /\ UNCHANGED <<tokensReserved, closedTokens>>

\* The invoice worker opens the next period: tokensUsed starts again at zero,
\* tokensReserved and the entries stay.
OpenPeriod ==
  /\ closedTokens' = closedTokens + tokensUsed
  /\ tokensUsed' = 0
  /\ UNCHANGED <<tokensReserved, entries, deltaTokens, reservedDelta>>

\* An operator resets the usage of a customer who ran out of quota: the figure
\* goes to zero in the middle of the period, reservations and entries stay.
ResetUsage ==
  /\ closedTokens' = closedTokens + tokensUsed
  /\ tokensUsed' = 0
  /\ UNCHANGED <<tokensReserved, entries, deltaTokens, reservedDelta>>

LedgerNext ==
  \/ \E r \in Requests, limit \in Nat : ReserveQuota(r, limit)
  \/ \E r \in Requests : ReleaseQuota(r)
  \/ \E r \in Requests, n \in Actuals : CommitQuota(r, n) \/ UsageCommit(r, n)
  \/ OpenPeriod
  \/ ResetUsage

LedgerSpec == LedgerInit /\ [][LedgerNext]_ledgerVars

-----------------------------------------------------------------------------
(* What the ledger promises, whoever calls it and in whatever order. *)

ChargedRequests == {r \in Requests : <<r, "commit">> \in entries}

Meter == INSTANCE UsageMeter WITH
           charged <- ChargedRequests,
           total   <- tokensUsed + closedTokens

\* Every request is charged at most once and the total moves by one request's
\* charge at a time: commitQuota, releaseQuota, duplicate usage jobs and
\* invoice-worker roll-overs together implement UsageMeter.
MeterSpec == Meter!Spec

SumOver(f) == MapThenSumSet(LAMBDA k : f[k], Keys)

\* The ledger row is the sum of its entries: what commitQuota, releaseQuota,
\* reserveQuota and persistUsageEvent add to tokensUsed and tokensReserved is
\* what they write to the entries, across retries, crashes and roll-overs.
LedgerMatchesEntries ==
  /\ tokensUsed + closedTokens = SumOver(deltaTokens)
  /\ tokensReserved = SumOver(reservedDelta)

\* An entry, once written, keeps its columns forever: quotaLedger.ts and
\* usage.ts only ever create rows (idempotent replays return the old row).
EntriesImmutable ==
  [][\A k \in entries : /\ k \in entries'
                        /\ deltaTokens'[k] = deltaTokens[k]
                        /\ reservedDelta'[k] = reservedDelta[k]]_ledgerVars
=============================================================================

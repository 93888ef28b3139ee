------------------------- MODULE MeteredChatProofs --------------------------
(***************************************************************************)
(* Theorems about the quota ledger, whoever calls its operations in         *)
(* whatever order, and about the chat pipeline: for every set of concurrent *)
(* requests, every quota and estimate, every choice of failing awaits, and  *)
(* any number of crashes, redeliveries, roll-overs and adjustments; and     *)
(* about the streamed turn between the browser and the engine.              *)
(***************************************************************************)
EXTENDS MeteredChat, ChatStream, FiniteSums, SequenceTheorems

-----------------------------------------------------------------------------
(* The ledger.                                                              *)


\* One step of any ledger operation keeps the columns' types.
LEMMA LedgerTypeStep ==
  ASSUME LedgerTypeOK, [LedgerNext]_ledgerVars
  PROVE  LedgerTypeOK'
<1> USE EstimateAssumption, ActualsAssumption
<1>0. ASSUME NEW k, AlreadyRecorded(k) PROVE LedgerTypeOK'
  BY <1>0 DEF AlreadyRecorded, ledgerVars, LedgerTypeOK
<1>1. ASSUME NEW r \in Requests, NEW quota \in Nat, ReserveQuota(r, quota) PROVE LedgerTypeOK'
  <2>1. CASE /\ CreateEntry(<<r, "reserve">>, 0, Estimate[r])
             /\ tokensReserved' = tokensReserved + Estimate[r]
             /\ UNCHANGED <<tokensUsed, closedTokens>>
    BY <2>1 DEF LedgerTypeOK, CreateEntry, Keys, Ops
  <2> QED
    BY <1>0, <1>1, <2>1 DEF ReserveQuota
<1>2. ASSUME NEW r \in Requests, NEW n \in Actuals, CommitQuota(r, n)
      PROVE  LedgerTypeOK'
  <2>1. ASSUME NEW m \in Int, CreateEntry(<<r, "commit">>, n, -m),
               tokensUsed' = tokensUsed + n,
               tokensReserved' = tokensReserved - m, UNCHANGED closedTokens
        PROVE  LedgerTypeOK'
    BY <2>1 DEF LedgerTypeOK, CreateEntry, Keys, Ops
  <2>2. ReservedOf(r) \in Int
    BY DEF ReservedOf, LedgerTypeOK, Keys, Ops
  <2> QED
    BY <1>0, <1>2, <2>1, <2>2 DEF CommitQuota
<1>3. ASSUME NEW r \in Requests, ReleaseQuota(r) PROVE LedgerTypeOK'
  <2>1. ASSUME NEW m \in Int, CreateEntry(<<r, "release">>, 0, -m),
               tokensReserved' = tokensReserved - m,
               UNCHANGED <<tokensUsed, closedTokens>>
        PROVE  LedgerTypeOK'
    BY <2>1 DEF LedgerTypeOK, CreateEntry, Keys, Ops
  <2>2. Estimate[r] \in Int /\ tokensReserved \in Int
    BY DEF LedgerTypeOK
  <2> QED
    BY <1>0, <1>3, <2>1, <2>2 DEF ReleaseQuota
<1>4. ASSUME NEW r \in Requests, NEW n \in Actuals, UsageCommit(r, n)
      PROVE  LedgerTypeOK'
  <2>1. CASE /\ CreateEntry(<<r, "commit">>, n, 0)
             /\ tokensUsed' = tokensUsed + n
             /\ UNCHANGED <<tokensReserved, closedTokens>>
    BY <2>1 DEF LedgerTypeOK, CreateEntry, Keys, Ops
  <2> QED
    BY <1>0, <1>4, <2>1 DEF UsageCommit
<1>5. CASE OpenPeriod \/ ResetUsage
  BY <1>5 DEF OpenPeriod, ResetUsage, LedgerTypeOK
<1>6. CASE UNCHANGED ledgerVars
  BY <1>6 DEF ledgerVars, LedgerTypeOK
<1> QED
  BY <1>1, <1>2, <1>3, <1>4, <1>5, <1>6 DEF LedgerNext

\* The ledger's columns keep their types under every operation; in particular
\* tokensUsed never becomes negative, although tokensReserved may.
THEOREM LedgerTypeCorrect == LedgerSpec => []LedgerTypeOK
<1>1. LedgerInit => LedgerTypeOK
  BY DEF LedgerInit, LedgerTypeOK
<1>2. LedgerTypeOK /\ [LedgerNext]_ledgerVars => LedgerTypeOK'
  BY LedgerTypeStep
<1> QED
  BY <1>1, <1>2, PTL DEF LedgerSpec

\* What one ledger step does to the table of entries: nothing, or one new row.
LEMMA OneNewEntry ==
  ASSUME LedgerTypeOK, [LedgerNext]_ledgerVars
  PROVE  \/ UNCHANGED <<entries, deltaTokens, reservedDelta>>
         \/ \E k \in Keys : /\ k \notin entries
                            /\ entries' = entries \cup {k}
                            /\ \A j \in Keys \ {k} :
                                 /\ deltaTokens'[j] = deltaTokens[j]
                                 /\ reservedDelta'[j] = reservedDelta[j]
<1> USE DEF LedgerTypeOK, Keys, Ops
<1>1. ASSUME NEW k \in Keys, NEW d, NEW m, k \notin entries, CreateEntry(k, d, m)
      PROVE  \E l \in Keys : /\ l \notin entries
                             /\ entries' = entries \cup {l}
                             /\ \A j \in Keys \ {l} :
                                  /\ deltaTokens'[j] = deltaTokens[j]
                                  /\ reservedDelta'[j] = reservedDelta[j]
  BY <1>1 DEF CreateEntry
<1>2. ASSUME NEW r \in Requests PROVE \A op \in Ops : <<r, op>> \in Keys
  OBVIOUS
<1> HIDE DEF Keys, Ops
<1>3. "reserve" \in Ops /\ "commit" \in Ops /\ "release" \in Ops
  BY DEF Ops
<1>4. ASSUME NEW r \in Requests, NEW quota \in Nat, ReserveQuota(r, quota)
      PROVE  AlreadyRecorded(<<r, "reserve">>) \/
             (<<r, "reserve">> \notin entries /\ CreateEntry(<<r, "reserve">>, 0, Estimate[r]))
  BY <1>4 DEF ReserveQuota
<1>5. ASSUME NEW r \in Requests, ReleaseQuota(r)
      PROVE  AlreadyRecorded(<<r, "release">>) \/
             (<<r, "release">> \notin entries /\ \E m : CreateEntry(<<r, "release">>, 0, m))
  BY <1>5 DEF ReleaseQuota
<1>6. ASSUME NEW r \in Requests, NEW n \in Actuals, CommitQuota(r, n)
      PROVE  AlreadyRecorded(<<r, "commit">>) \/
             (<<r, "commit">> \notin entries /\ \E m : CreateEntry(<<r, "commit">>, n, m))
  BY <1>6 DEF CommitQuota
<1>7. ASSUME NEW r \in Requests, NEW n \in Actuals, UsageCommit(r, n)
      PROVE  AlreadyRecorded(<<r, "commit">>) \/
             (<<r, "commit">> \notin entries /\ CreateEntry(<<r, "commit">>, n, 0))
  BY <1>7 DEF UsageCommit
<1>8. CASE UNCHANGED <<entries, deltaTokens, reservedDelta>>
  BY <1>8
<1>9. ASSUME NEW k, AlreadyRecorded(k)
      PROVE  UNCHANGED <<entries, deltaTokens, reservedDelta>>
  BY <1>9 DEF AlreadyRecorded, ledgerVars
<1>10. OpenPeriod \/ ResetUsage \/ UNCHANGED ledgerVars
         => UNCHANGED <<entries, deltaTokens, reservedDelta>>
  BY DEF OpenPeriod, ResetUsage, ledgerVars
<1> QED
  BY <1>1, <1>2, <1>3, <1>4, <1>5, <1>6, <1>7, <1>9, <1>10 DEF LedgerNext

\* No operation of quotaLedger.ts, usage.ts, the invoice worker or the operator's
\* adjustment ever changes or removes an entry once it is written.
THEOREM LedgerAppendOnly == LedgerSpec => EntriesImmutable
<1> DEFINE Kept == \A k \in entries : /\ k \in entries'
                                      /\ deltaTokens'[k] = deltaTokens[k]
                                      /\ reservedDelta'[k] = reservedDelta[k]
<1>1. LedgerTypeOK /\ [LedgerNext]_ledgerVars => Kept
  BY OneNewEntry DEF LedgerTypeOK
<1> QED
  BY <1>1, LedgerTypeCorrect, PTL DEF LedgerSpec, EntriesImmutable

\* The ledger implements UsageMeter: no sequence of reservations, commits,
\* releases, usage jobs, roll-overs and resets charges a request twice or loses
\* a charge.
THEOREM LedgerImplementsMeter == LedgerSpec => MeterSpec
<1> USE DEF Meter!meterVars
<1>1. LedgerInit => Meter!Init
  BY DEF LedgerInit, Meter!Init, ChargedRequests
<1>2. LedgerTypeOK /\ [LedgerNext]_ledgerVars => [Meter!Next]_Meter!meterVars
  <2> SUFFICES ASSUME LedgerTypeOK, [LedgerNext]_ledgerVars
               PROVE  [Meter!Next]_Meter!meterVars
    OBVIOUS
  <2> USE DEF LedgerTypeOK, Keys, Ops
  <2>1. ASSUME NEW r \in Requests, NEW n \in Actuals, NEW m,
               <<r, "commit">> \notin entries, CreateEntry(<<r, "commit">>, n, m),
               tokensUsed' = tokensUsed + n, UNCHANGED closedTokens
        PROVE  Meter!Next
    <3>1. /\ r \notin ChargedRequests
          /\ ChargedRequests' = ChargedRequests \cup {r}
      BY <2>1 DEF ChargedRequests, CreateEntry
    <3>2. (tokensUsed + closedTokens)' - (tokensUsed + closedTokens) \in Nat
      BY <2>1, ActualsAssumption
    <3> QED
      BY <3>1, <3>2 DEF Meter!Next, Meter!Charge
  <2>2. ASSUME NEW r \in Requests, NEW n \in Actuals, CommitQuota(r, n)
        PROVE  [Meter!Next]_Meter!meterVars
    <3>1. CASE AlreadyRecorded(<<r, "commit">>)
      BY <3>1 DEF AlreadyRecorded, ledgerVars, ChargedRequests
    <3>2. CASE ~AlreadyRecorded(<<r, "commit">>)
      BY <2>1, <2>2, <3>2 DEF CommitQuota
    <3> QED
      BY <3>1, <3>2
  <2>3. ASSUME NEW r \in Requests, NEW n \in Actuals, UsageCommit(r, n)
        PROVE  [Meter!Next]_Meter!meterVars
    <3>1. CASE AlreadyRecorded(<<r, "commit">>)
      BY <3>1 DEF AlreadyRecorded, ledgerVars, ChargedRequests
    <3>2. CASE ~AlreadyRecorded(<<r, "commit">>)
      BY <2>1, <2>3, <3>2 DEF UsageCommit
    <3> QED
      BY <3>1, <3>2
  <2>4. ASSUME NEW r \in Requests, NEW quota \in Nat,
               ReserveQuota(r, quota) \/ ReleaseQuota(r)
        PROVE  UNCHANGED Meter!meterVars
    BY <2>4 DEF ReserveQuota, ReleaseQuota, AlreadyRecorded, CreateEntry,
                ledgerVars, ChargedRequests
  <2>5. CASE OpenPeriod \/ ResetUsage
    BY <2>5 DEF OpenPeriod, ResetUsage, ChargedRequests
  <2>6. CASE UNCHANGED ledgerVars
    BY <2>6 DEF ledgerVars, ChargedRequests
  <2> QED
    BY <2>2, <2>3, <2>4, <2>5, <2>6 DEF LedgerNext
<1> QED
  BY <1>1, <1>2, LedgerTypeCorrect, PTL DEF LedgerSpec, MeterSpec, Meter!Spec

-----------------------------------------------------------------------------
(* The ledger row against its entries. *)

\* There are finitely many idempotency keys.
LEMMA KeysFinite == IsFiniteSet(Keys)
<1>1. IsFiniteSet(Ops)
  BY ThreeIsFinite DEF Ops
<1> QED
  BY <1>1, RequestsAssumption, FS_Product DEF Keys

\* Writing one column of one new row changes the column's sum by what is written.
LEMMA SumOverStep ==
  ASSUME NEW f \in [Keys -> Int], NEW k \in Keys, NEW d \in Int, f[k] = 0
  PROVE  /\ SumOver(f) \in Int
         /\ SumOver([f EXCEPT ![k] = d]) = SumOver(f) + d
<1> DEFINE g == [f EXCEPT ![k] = d]
<1>1. IsFiniteSet(Keys)
  BY KeysFinite
<1>2. \A x \in Keys : f[x] \in Int /\ g[x] \in Int
  OBVIOUS
<1>3. g[k] = d /\ \A x \in Keys \ {k} : g[x] = f[x]
  OBVIOUS
<1> HIDE DEF g
<1>4. SumOf(g, Keys) = SumOf(f, Keys) - f[k] + g[k]
  BY <1>1, <1>2, <1>3, SumUpdate
<1>5. SumOf(f, Keys) \in Int
  BY <1>1, <1>2, SumIsInt
<1>6. SumOver(f) = SumOf(f, Keys) /\ SumOver(g) = SumOf(g, Keys)
  BY DEF SumOver, SumOf
<1> QED
  BY <1>3, <1>4, <1>5, <1>6 DEF g

\* A row that is not there counts as zero in both columns.
AbsentIsZero ==
  \A k \in Keys : k \notin entries => deltaTokens[k] = 0 /\ reservedDelta[k] = 0

LedgerInv == LedgerTypeOK /\ AbsentIsZero /\ LedgerMatchesEntries

\* The sums over both columns are integers.
LEMMA SumsAreInt ==
  ASSUME LedgerTypeOK
  PROVE  SumOver(deltaTokens) \in Int /\ SumOver(reservedDelta) \in Int
<1>1. IsFiniteSet(Keys)
  BY KeysFinite
<1>2. \A k \in Keys : deltaTokens[k] \in Int /\ reservedDelta[k] \in Int
  BY DEF LedgerTypeOK
<1>3. SumOf(deltaTokens, Keys) \in Int /\ SumOf(reservedDelta, Keys) \in Int
  BY <1>1, <1>2, SumIsInt
<1> QED
  BY <1>3 DEF SumOver, SumOf

\* A transaction that creates a row adds to the ledger what it writes there.
LEMMA CreateKeepsSums ==
  ASSUME LedgerInv, NEW k \in Keys, NEW d \in Nat, NEW m \in Int, k \notin entries,
         CreateEntry(k, d, m),
         tokensUsed' + closedTokens' = tokensUsed + closedTokens + d,
         tokensReserved' = tokensReserved + m
  PROVE  AbsentIsZero' /\ LedgerMatchesEntries'
<1>1. /\ deltaTokens \in [Keys -> Int] /\ reservedDelta \in [Keys -> Int]
      /\ deltaTokens[k] = 0 /\ reservedDelta[k] = 0
  BY DEF LedgerInv, LedgerTypeOK, AbsentIsZero
<1>2. AbsentIsZero'
  BY DEF LedgerInv, LedgerTypeOK, AbsentIsZero, CreateEntry
<1>3. /\ deltaTokens' = [deltaTokens EXCEPT ![k] = d]
      /\ reservedDelta' = [reservedDelta EXCEPT ![k] = m]
  BY DEF CreateEntry
<1>4. SumOver(deltaTokens') = SumOver(deltaTokens) + d
  <2>1. d \in Int
    OBVIOUS
  <2>2. SumOver([deltaTokens EXCEPT ![k] = d]) = SumOver(deltaTokens) + d
    BY <1>1, <2>1, SumOverStep
  <2> QED
    BY <1>3, <2>2
<1>5. SumOver(reservedDelta') = SumOver(reservedDelta) + m
  BY <1>1, <1>3, SumOverStep
<1>6. /\ tokensUsed' + closedTokens' = SumOver(deltaTokens')
      /\ tokensReserved' = SumOver(reservedDelta')
  BY <1>4, <1>5 DEF LedgerInv, LedgerMatchesEntries
<1>7. LedgerMatchesEntries'
  BY <1>6 DEF LedgerMatchesEntries
<1> QED
  BY <1>2, <1>7

\* A step that leaves the entries and the totals alone keeps them equal.
LEMMA SameSums ==
  ASSUME LedgerInv, UNCHANGED <<entries, deltaTokens, reservedDelta, tokensReserved>>,
         tokensUsed' + closedTokens' = tokensUsed + closedTokens
  PROVE  AbsentIsZero' /\ LedgerMatchesEntries'
<1>1. AbsentIsZero'
  BY DEF LedgerInv, AbsentIsZero
<1>2. /\ tokensUsed' + closedTokens' = SumOver(deltaTokens')
      /\ tokensReserved' = SumOver(reservedDelta')
  BY DEF LedgerInv, LedgerMatchesEntries
<1>3. LedgerMatchesEntries'
  BY <1>2 DEF LedgerMatchesEntries
<1> QED
  BY <1>1, <1>3

\* The row stays the sum of its entries in every ledger operation.
LEMMA LedgerInvStep == LedgerInv /\ [LedgerNext]_ledgerVars => LedgerInv'
<1> SUFFICES ASSUME LedgerInv, [LedgerNext]_ledgerVars
             PROVE  AbsentIsZero' /\ LedgerMatchesEntries'
  BY LedgerTypeStep DEF LedgerInv
<1> USE EstimateAssumption, ActualsAssumption
<1>0. /\ tokensUsed \in Nat /\ closedTokens \in Nat /\ tokensReserved \in Int
      /\ \A r \in Requests : ReservedOf(r) \in Int
      /\ \A r \in Requests : /\ <<r, "reserve">> \in Keys
                             /\ <<r, "commit">> \in Keys
                             /\ <<r, "release">> \in Keys
  BY DEF LedgerInv, LedgerTypeOK, ReservedOf, Keys, Ops
<1>1. ASSUME NEW k, AlreadyRecorded(k) PROVE AbsentIsZero' /\ LedgerMatchesEntries'
  BY <1>1, SameSums DEF AlreadyRecorded, ledgerVars
<1>a. ASSUME NEW k \in Keys, k \notin entries, NEW d \in Nat, NEW a \in Int,
             CreateEntry(k, d, -a), tokensUsed' = tokensUsed + d,
             tokensReserved' = tokensReserved - a, UNCHANGED closedTokens
      PROVE  AbsentIsZero' /\ LedgerMatchesEntries'
  <2>1. -a \in Int /\ tokensReserved' = tokensReserved + (-a)
    BY <1>0, <1>a
  <2>2. tokensUsed' + closedTokens' = tokensUsed + closedTokens + d
    BY <1>0, <1>a
  <2> DEFINE m == -a
  <2>3. m \in Int /\ tokensReserved' = tokensReserved + m /\ CreateEntry(k, d, m)
    BY <1>a, <2>1
  <2> HIDE DEF m
  <2> QED
    BY <1>a, <2>2, <2>3, CreateKeepsSums
<1>2. ASSUME NEW r \in Requests, NEW quota \in Nat, ReserveQuota(r, quota)
      PROVE  AbsentIsZero' /\ LedgerMatchesEntries'
  <2>1. CASE AlreadyRecorded(<<r, "reserve">>)
    BY <1>1, <2>1
  <2>2. CASE ~AlreadyRecorded(<<r, "reserve">>)
    <3>1. /\ <<r, "reserve">> \notin entries
          /\ CreateEntry(<<r, "reserve">>, 0, Estimate[r])
          /\ tokensReserved' = tokensReserved + Estimate[r]
          /\ UNCHANGED <<tokensUsed, closedTokens>>
      BY <1>2, <2>2 DEF ReserveQuota
    <3>2. <<r, "reserve">> \in Keys
      BY <1>0, Zenon
    <3>3. /\ Estimate[r] \in Int
          /\ tokensUsed' + closedTokens' = tokensUsed + closedTokens + 0
      BY <1>0, <3>1
    <3> QED
      BY <3>1, <3>2, <3>3, CreateKeepsSums
  <2> QED
    BY <2>1, <2>2
<1>3. ASSUME NEW r \in Requests, ReleaseQuota(r)
      PROVE  AbsentIsZero' /\ LedgerMatchesEntries'
  <2>1. CASE AlreadyRecorded(<<r, "release">>)
    BY <1>1, <2>1
  <2>2. CASE ~AlreadyRecorded(<<r, "release">>)
    <3>1. PICK a \in Int : /\ <<r, "release">> \notin entries
                           /\ CreateEntry(<<r, "release">>, 0, -a)
                           /\ tokensReserved' = tokensReserved - a
                           /\ UNCHANGED <<tokensUsed, closedTokens>>
      BY <1>0, <1>3, <2>2 DEF ReleaseQuota
    <3>2. <<r, "release">> \in Keys
      BY <1>0, Zenon
    <3>3. 0 \in Nat /\ tokensUsed' = tokensUsed + 0
      BY <1>0, <3>1
    <3> QED
      BY <1>a, <3>1, <3>2, <3>3
  <2> QED
    BY <2>1, <2>2
<1>4. ASSUME NEW r \in Requests, NEW n \in Actuals, CommitQuota(r, n)
      PROVE  AbsentIsZero' /\ LedgerMatchesEntries'
  <2>1. CASE AlreadyRecorded(<<r, "commit">>)
    BY <1>1, <2>1
  <2>2. CASE ~AlreadyRecorded(<<r, "commit">>)
    <3>1. PICK a \in Int : /\ <<r, "commit">> \notin entries
                           /\ CreateEntry(<<r, "commit">>, n, -a)
                           /\ tokensUsed' = tokensUsed + n
                           /\ tokensReserved' = tokensReserved - a
                           /\ UNCHANGED closedTokens
      BY <1>0, <1>4, <2>2 DEF CommitQuota
    <3>2. n \in Nat /\ <<r, "commit">> \in Keys
      BY <1>0
    <3> QED
      BY <1>a, <3>1, <3>2
  <2> QED
    BY <2>1, <2>2
<1>5. ASSUME NEW r \in Requests, NEW n \in Actuals, UsageCommit(r, n)
      PROVE  AbsentIsZero' /\ LedgerMatchesEntries'
  <2>1. CASE AlreadyRecorded(<<r, "commit">>)
    BY <1>1, <2>1
  <2>2. CASE ~AlreadyRecorded(<<r, "commit">>)
    <3>1. /\ <<r, "commit">> \notin entries
          /\ CreateEntry(<<r, "commit">>, n, 0)
          /\ tokensUsed' = tokensUsed + n
          /\ UNCHANGED <<tokensReserved, closedTokens>>
      BY <1>5, <2>2 DEF UsageCommit
    <3>2. <<r, "commit">> \in Keys
      BY <1>0, Zenon
    <3>3. /\ n \in Nat
          /\ tokensUsed' + closedTokens' = tokensUsed + closedTokens + n
          /\ tokensReserved' = tokensReserved + 0
      BY <1>0, <3>1
    <3> QED
      BY <3>1, <3>2, <3>3, CreateKeepsSums
  <2> QED
    BY <2>1, <2>2
<1>6. CASE OpenPeriod \/ ResetUsage
  BY <1>0, <1>6, SameSums DEF OpenPeriod, ResetUsage
<1>7. CASE UNCHANGED ledgerVars
  BY <1>7, SameSums DEF ledgerVars
<1> QED
  BY <1>2, <1>3, <1>4, <1>5, <1>6, <1>7 DEF LedgerNext

\* The ledger row is the sum of its entries, whoever calls quotaLedger.ts and
\* usage.ts and in whatever order, for any number of requests.
THEOREM LedgerRowIsSum == LedgerSpec => []LedgerMatchesEntries
<1>1. LedgerInit => LedgerInv
  <2> SUFFICES ASSUME LedgerInit PROVE LedgerInv
    OBVIOUS
  <2> DEFINE z == [k \in Keys |-> 0]
  <2>1. IsFiniteSet(Keys)
    BY KeysFinite
  <2>2. SumOf(z, Keys) = 0
    <3>1. \A k \in Keys : z[k] = 0
      OBVIOUS
    <3> HIDE DEF z
    <3> QED
      BY <2>1, <3>1, SumOfZeros
  <2>3. SumOver(z) = 0
    BY <2>2 DEF SumOver, SumOf
  <2> QED
    BY <2>3 DEF LedgerInit, LedgerInv, LedgerTypeOK, AbsentIsZero, LedgerMatchesEntries
<1>2. LedgerInv => LedgerMatchesEntries
  BY DEF LedgerInv
<1> QED
  BY <1>1, <1>2, LedgerInvStep, PTL DEF LedgerSpec


-----------------------------------------------------------------------------
(* The chat pipeline: what is true of one request between two steps.        *)

BeforeReserve == {"idle", "quotaCheck", "create", "claimTrace", "reserve", "throttled"}
BeforeGenerate == BeforeReserve \cup {"route", "startAttempt", "generate"}
BeforeCommit == {"route", "startAttempt", "generate", "finalize",
                 "finalizeAttempt", "commit"}
Metering == {"finalize", "finalizeAttempt", "commit", "enqueue", "receipt",
             "epilogue", "done"}
AfterCommit == {"enqueue", "receipt", "epilogue", "done"}
AfterEnqueue == {"epilogue", "done"}
Delivered == {"persisted", "receipted", "completed"}

\* Until it generates, a request has no charge, no job and no event, so the
\* token count it will report is still free.
Uncharged(r) ==
  pc[r] \in BeforeGenerate =>
    /\ <<r, "commit">> \notin entries
    /\ job[r] = "none"
    /\ r \notin events

\* From then on the count is fixed, and a charge or a job carries it.
Counted(r) ==
  /\ pc[r] \in Metering \/ job[r] # "none" => tokens[r] \in Actuals
  /\ r \in events => <<r, "commit">> \in entries
  /\ <<r, "commit">> \in entries =>
       tokens[r] \in Actuals /\ deltaTokens[<<r, "commit">>] = tokens[r]
  /\ job[r] \in Delivered => r \in events

\* What the request has in reserve at each stage of the handler.
Holds(r) ==
  /\ pc[r] \in BeforeReserve => ~held[r]
  /\ pc[r] \in BeforeReserve \cup BeforeCommit \cup AfterCommit =>
       <<r, "release">> \notin entries
  /\ pc[r] \in BeforeReserve \cup BeforeCommit \cup AfterCommit /\ ~held[r] =>
       <<r, "reserve">> \notin entries
  /\ pc[r] \in BeforeCommit /\ held[r] =>
       /\ <<r, "commit">> \notin entries
       /\ job[r] = "none" /\ r \notin events
       /\ reservedDelta[<<r, "reserve">>] = Estimate[r]
  /\ pc[r] \in AfterCommit /\ held[r] =>
       <<r, "commit">> \in entries /\ ReservedOf(r) = 0
  /\ pc[r] \in AfterCommit /\ ~held[r] => reservedDelta[<<r, "commit">>] = 0
  /\ pc[r] \in BeforeCommit /\ ~held[r] =>
       <<r, "commit">> \notin entries /\ job[r] = "none" /\ r \notin events
  /\ pc[r] \in {"enqueue", "receipt"} => job[r] = "none"
  /\ pc[r] \in {"receipt"} => r \in events
  /\ pc[r] \in AfterEnqueue => <<r, "commit">> \in entries \/ job[r] # "none"

\* A job that may still run has an attempt left.
TriesLeft(r) == job[r] # "failed" => tries[r] < MaxTries

PerRequest(r) == Uncharged(r) /\ Counted(r) /\ Holds(r) /\ TriesLeft(r)

ChatInv ==
  /\ TypeOK
  /\ AbsentIsZero
  /\ \A r \in Requests : PerRequest(r)

-----------------------------------------------------------------------------
(* Every step of the pipeline is a step of the ledger, or leaves it alone.  *)

\* What a step of the pipeline does to the ledger is one ledger operation or none.
LEMMA ChatStepIsLedgerStep ==
  ASSUME ChatInv, [Next]_vars
  PROVE  [LedgerNext]_ledgerVars
<1> USE DEF ChatInv, PerRequest
<1>1. ASSUME NEW r \in Requests, Reserve(r) PROVE LedgerNext
  <2>1. limit[r] \in Nat
    BY DEF TypeOK
  <2> QED
    BY <1>1, <2>1 DEF Reserve, LedgerNext
<1>2. ASSUME NEW r \in Requests, Release(r) PROVE LedgerNext
  BY <1>2 DEF Release, LedgerNext
<1>3. ASSUME NEW r \in Requests, Commit(r) PROVE LedgerNext
  <2>1. tokens[r] \in Actuals
    BY <1>3 DEF Commit, Goto, Counted, Metering
  <2> QED
    BY <1>3, <2>1 DEF Commit, LedgerNext
<1>4. ASSUME NEW r \in Requests, PersistUsageEvent(r), tokens[r] \in Actuals
      PROVE  LedgerNext \/ UNCHANGED ledgerVars
  BY <1>4 DEF PersistUsageEvent, LedgerNext
<1>5. ASSUME NEW r \in Requests, EnqueueUsage(r)
      PROVE  LedgerNext \/ UNCHANGED ledgerVars
  <2>1. tokens[r] \in Actuals
    BY <1>5 DEF EnqueueUsage, Goto, Counted, Metering
  <2> QED
    BY <1>4, <1>5, <2>1 DEF EnqueueUsage
<1>6. ASSUME NEW r \in Requests, WorkerPersist(r)
      PROVE  LedgerNext \/ UNCHANGED ledgerVars
  <2>1. tokens[r] \in Actuals
    BY <1>6 DEF WorkerPersist, Counted
  <2> QED
    BY <1>4, <1>6, <2>1 DEF WorkerPersist
<1>7. RollOver \/ AdjustCustomerQuota => LedgerNext \/ UNCHANGED ledgerVars
  BY DEF RollOver, AdjustCustomerQuota, LedgerNext
<1>8. ASSUME NEW r \in Requests, Handler(r)
      PROVE  LedgerNext \/ UNCHANGED ledgerVars
  BY <1>1, <1>2, <1>3, <1>5, <1>8
     DEF Handler, Arrive, QuotaMiddleware, CreateInferenceRequest,
         AcceptAnusandhan, ClaimTrace, RejectOverQuota, Route,
         StartAttempt, Generate, AnswerTokens, GenerateAnusandhan,
         FinalizeSucceeded, FinalizeAttempt, ReceiptInline, Epilogue, MarkFailed,
         MarkAttempt
<1>9. ASSUME NEW r \in Requests, Rejection(r) \/ Worker(r) \/ WorkerFail(r)
      PROVE  LedgerNext \/ UNCHANGED ledgerVars
  BY <1>6, <1>9 DEF Rejection, Fail, CatchSwallows, Worker, WorkerReceipt,
                    WorkerComplete, WorkerFail
<1> QED
  BY <1>7, <1>8, <1>9 DEF Next, Crash, vars

-----------------------------------------------------------------------------
(* A step of one request leaves what is known of another alone. *)

\* A request none of whose variables and entries change keeps its invariant.
LEMMA Frame ==
  ASSUME NEW q \in Requests, PerRequest(q),
         pc'[q] = pc[q], held'[q] = held[q], tokens'[q] = tokens[q],
         job'[q] = job[q], tries'[q] = tries[q], q \in events' <=> q \in events,
         \A op \in Ops : /\ <<q, op>> \in entries' <=> <<q, op>> \in entries
                         /\ deltaTokens'[<<q, op>>] = deltaTokens[<<q, op>>]
                         /\ reservedDelta'[<<q, op>>] = reservedDelta[<<q, op>>]
  PROVE  PerRequest(q)'
BY DEF PerRequest, Uncharged, Counted, Holds, TriesLeft, ReservedOf, Ops,
       BeforeReserve, BeforeGenerate, BeforeCommit, Metering, AfterCommit,
       AfterEnqueue, Delivered

-----------------------------------------------------------------------------
(* Types. *)

\* Every step of handlers, workers and queue keeps the types.
LEMMA ChatTypeStep ==
  ASSUME ChatInv, [Next]_vars
  PROVE  TypeOK'
<1> USE ActualsAssumption, BoundsAssumption, LimitAssumption, GrantsAssumption,
        ClientsAssumption
<1>0. LedgerTypeOK'
  BY ChatStepIsLedgerStep, LedgerTypeStep DEF ChatInv, TypeOK
<1> DEFINE T == /\ pc \in [Requests -> AllSteps]
                /\ client \in [Requests -> {"v1", "anusandhan"}]
                /\ bonus \in Nat
                /\ limit \in [Requests -> Nat]
                /\ held \in [Requests -> BOOLEAN]
                /\ quotaError \in [Requests -> BOOLEAN]
                /\ tokens \in [Requests -> Nat]
                /\ status \in [Requests -> {"none", "QUEUED", "RUNNING"} \cup Verdicts]
                /\ attempt \in [Requests -> {"none", "RUNNING"} \cup Verdicts]
                /\ job \in [Requests -> JobStates]
                /\ tries \in [Requests -> 0 .. MaxTries]
                /\ events \subseteq Requests
                /\ receipt \in [Requests -> {"none", "QUEUED", "RUNNING"} \cup Verdicts]
                /\ crashes \in 0 .. MaxCrashes
                /\ periods \in 0 .. MaxPeriods
<1>1. T /\ \A r \in Requests : TriesLeft(r)
  BY DEF ChatInv, TypeOK, PerRequest
<1> USE <1>1 DEF AllSteps, HandlerSteps, Ends, Verdicts, JobStates, Goto, AfterUsage
<1>2. ASSUME NEW r \in Requests,
             Arrive(r) \/ QuotaMiddleware(r) \/ CreateInferenceRequest(r)
               \/ AcceptAnusandhan(r) \/ ClaimTrace(r) \/ Reserve(r) \/ RejectOverQuota(r)
      PROVE  T'
  <2>1. CASE Arrive(r)
    <3>1. EffectiveMonthlyQuota \in Nat
      BY DEF EffectiveMonthlyQuota
    <3> QED
      BY <2>1, <3>1 DEF Arrive, recordVars, otherVars
  <2>2. CASE QuotaMiddleware(r) \/ CreateInferenceRequest(r) \/ AcceptAnusandhan(r)
    BY <2>2
       DEF QuotaMiddleware, CreateInferenceRequest, AcceptAnusandhan, localVars, recordVars, otherVars
  <2>3. CASE ClaimTrace(r)
    BY <2>3, Zenon DEF ClaimTrace, localVars, recordVars, otherVars
  <2>4. CASE Reserve(r)
    BY <2>4, Zenon DEF Reserve, localVars, recordVars, otherVars
  <2>5. CASE RejectOverQuota(r)
    BY <2>5, Zenon DEF RejectOverQuota, localVars, recordVars, otherVars
  <2> QED
    BY <1>2, <2>1, <2>2, <2>3, <2>4, <2>5
<1>3. ASSUME NEW r \in Requests,
             Route(r) \/ StartAttempt(r) \/ Generate(r) \/ GenerateAnusandhan(r)
               \/ FinalizeSucceeded(r) \/ FinalizeAttempt(r) \/ Commit(r)
      PROVE  T'
  BY <1>3 DEF Route, StartAttempt, Generate, AnswerTokens, GenerateAnusandhan, FinalizeSucceeded,
              FinalizeAttempt, Commit, localVars, recordVars, otherVars
<1>4. ASSUME NEW r \in Requests,
             EnqueueUsage(r) \/ ReceiptInline(r) \/ Epilogue(r)
      PROVE  T'
  BY <1>4 DEF EnqueueUsage, PersistUsageEvent, ReceiptInline, IssueUsageReceipt,
              Epilogue, localVars, recordVars, otherVars
<1>5. ASSUME NEW r \in Requests,
             Release(r) \/ MarkFailed(r) \/ MarkAttempt(r) \/ Rejection(r)
      PROVE  T'
  BY <1>5 DEF Release, MarkFailed, MarkAttempt, Verdict, Rejection, Fail,
              CatchSwallows, localVars, recordVars, otherVars
<1>6. ASSUME NEW r \in Requests, Worker(r) PROVE T'
  BY <1>6 DEF Worker, WorkerPersist, PersistUsageEvent, WorkerReceipt,
              IssueUsageReceipt, WorkerComplete, handlerVars, localVars, recordVars
<1>7. ASSUME NEW r \in Requests, WorkerFail(r) PROVE T'
  BY <1>7 DEF WorkerFail, TriesLeft, handlerVars, localVars, recordVars
<1>8. ASSUME Crash PROVE T'
  BY <1>8 DEF Crash, localVars, recordVars
<1>9. ASSUME RollOver \/ AdjustCustomerQuota PROVE T'
  BY <1>9 DEF RollOver, AdjustCustomerQuota, handlerVars, localVars, recordVars
<1>10. ASSUME UNCHANGED vars PROVE T'
  BY <1>10 DEF vars, handlerVars, localVars, recordVars, otherVars
<1>11. T'
  <2> HIDE DEF T
  <2> QED
    BY <1>2, <1>3, <1>4, <1>5, <1>6, <1>7, <1>8, <1>9, <1>10 DEF Next, Handler
<1> QED
  BY <1>0, <1>11 DEF TypeOK

-----------------------------------------------------------------------------
(* What a request's own steps do to what is known of it. *)

\* The ledger entries of q after a step on the entry <<r, op>> of another.
LEMMA OthersEntries ==
  ASSUME LedgerTypeOK, NEW q \in Requests, NEW r \in Requests, r # q,
         (\E l \in Nat : ReserveQuota(r, l)) \/ ReleaseQuota(r)
           \/ (\E n \in Nat : CommitQuota(r, n))
           \/ (\E n \in Nat : UsageCommit(r, n)) \/ UNCHANGED ledgerVars
  PROVE  \A op \in Ops : /\ <<q, op>> \in entries' <=> <<q, op>> \in entries
                         /\ deltaTokens'[<<q, op>>] = deltaTokens[<<q, op>>]
                         /\ reservedDelta'[<<q, op>>] = reservedDelta[<<q, op>>]
BY DEF ReserveQuota, ReleaseQuota, CommitQuota, UsageCommit, AlreadyRecorded,
       CreateEntry, ledgerVars, LedgerTypeOK, Keys, Ops

\* The step of one request leaves the invariant of another alone.
LEMMA OtherRequests ==
  ASSUME ChatInv, NEW q \in Requests, NEW r \in Requests, r # q,
         Handler(r) \/ Rejection(r) \/ Worker(r) \/ WorkerFail(r)
  PROVE  PerRequest(q)'
<1> USE DEF ChatInv, TypeOK, Goto
<1>1. /\ (\E l \in Nat : ReserveQuota(r, l)) \/ ReleaseQuota(r)
           \/ (\E n \in Nat : CommitQuota(r, n))
           \/ (\E n \in Nat : UsageCommit(r, n)) \/ UNCHANGED ledgerVars
  BY DEF Handler, Arrive, QuotaMiddleware, CreateInferenceRequest,
         AcceptAnusandhan, ClaimTrace, Reserve, RejectOverQuota, Route,
         StartAttempt, Generate, AnswerTokens, GenerateAnusandhan,
         FinalizeSucceeded, FinalizeAttempt, Commit, EnqueueUsage,
         PersistUsageEvent, ReceiptInline, Epilogue, Release, MarkFailed,
         MarkAttempt, Rejection, Fail, CatchSwallows, Worker, WorkerPersist,
         WorkerReceipt, WorkerComplete, WorkerFail
<1>2. /\ pc'[q] = pc[q] /\ held'[q] = held[q] /\ tokens'[q] = tokens[q]
      /\ job'[q] = job[q] /\ tries'[q] = tries[q]
      /\ q \in events' <=> q \in events
  <2>1. CASE Handler(r)
    BY <2>1
       DEF Handler, Arrive, QuotaMiddleware, CreateInferenceRequest,
           AcceptAnusandhan, ClaimTrace, Reserve, RejectOverQuota, Route,
         StartAttempt, Generate, AnswerTokens, GenerateAnusandhan,
           FinalizeSucceeded, FinalizeAttempt, Commit, EnqueueUsage,
           PersistUsageEvent, ReceiptInline, Epilogue, Release, MarkFailed,
           MarkAttempt, localVars, otherVars
  <2>2. CASE Rejection(r) \/ Worker(r) \/ WorkerFail(r)
    BY <2>2
       DEF Rejection, Fail, CatchSwallows, Worker, WorkerPersist,
           PersistUsageEvent, WorkerReceipt, WorkerComplete, WorkerFail,
           handlerVars, localVars, otherVars
  <2> QED
    BY <2>1, <2>2
<1> QED
  BY <1>1, <1>2, OthersEntries, Frame

\* The step of a request takes its invariant from one position to the next.
LEMMA OwnSteps ==
  ASSUME ChatInv, NEW r \in Requests,
         Handler(r) \/ Rejection(r) \/ Worker(r) \/ WorkerFail(r)
  PROVE  PerRequest(r)'
<1> USE ActualsAssumption, EstimateAssumption, BoundsAssumption
<1> USE DEF Goto, AfterUsage, PerRequest, Uncharged, Counted, Holds, TriesLeft,
            BeforeReserve, BeforeGenerate, BeforeCommit, Metering, AfterCommit,
            AfterEnqueue, Delivered
<1>0. /\ TypeOK /\ AbsentIsZero /\ PerRequest(r)
      /\ <<r, "reserve">> \in Keys /\ <<r, "commit">> \in Keys
      /\ <<r, "release">> \in Keys
  BY DEF ChatInv, Keys, Ops
<1>1. ASSUME UNCHANGED ledgerVars PROVE ReservedOf(r)' = ReservedOf(r)
  BY <1>1 DEF ReservedOf, ledgerVars
<1>2. CASE Arrive(r) \/ QuotaMiddleware(r) \/ CreateInferenceRequest(r)
             \/ AcceptAnusandhan(r) \/ ClaimTrace(r) \/ RejectOverQuota(r)
  BY <1>0, <1>1, <1>2
     DEF TypeOK, Arrive, QuotaMiddleware, CreateInferenceRequest,
         AcceptAnusandhan, ClaimTrace, RejectOverQuota, ledgerVars, localVars, otherVars
<1>3. CASE Route(r) \/ StartAttempt(r) \/ Generate(r) \/ GenerateAnusandhan(r)
             \/ FinalizeSucceeded(r)
  BY <1>0, <1>1, <1>3
     DEF TypeOK, Route, StartAttempt, Generate, AnswerTokens, GenerateAnusandhan, FinalizeSucceeded,
         ledgerVars, localVars, otherVars
<1>4. CASE FinalizeAttempt(r)
  <2>1. ~held[r] => ReservedOf(r) = 0
    BY <1>0, <1>4 DEF FinalizeAttempt, ReservedOf, AbsentIsZero
  <2>2. ~held[r] => reservedDelta[<<r, "commit">>] = 0
    BY <1>0, <1>4 DEF FinalizeAttempt, AbsentIsZero
  <2> QED
    BY <1>0, <1>1, <1>4, <2>1, <2>2
       DEF TypeOK, FinalizeAttempt, ledgerVars, localVars, otherVars
<1>5. CASE ReceiptInline(r) \/ Epilogue(r) \/ MarkFailed(r) \/ MarkAttempt(r)
  BY <1>0, <1>1, <1>5
     DEF TypeOK, ReceiptInline, Epilogue, MarkFailed, MarkAttempt, ledgerVars, localVars, otherVars
<1>6. CASE Rejection(r)
  BY <1>0, <1>1, <1>6
     DEF TypeOK, Rejection, Fail, CatchSwallows, HandlerSteps, CatchSteps,
         ledgerVars, localVars, otherVars
<1>7. CASE WorkerReceipt(r) \/ WorkerComplete(r) \/ WorkerFail(r)
  BY <1>0, <1>1, <1>7
     DEF TypeOK, WorkerReceipt, WorkerComplete, WorkerFail, ledgerVars,
         handlerVars, localVars
<1>8. CASE Reserve(r)
  BY <1>0, <1>8
     DEF TypeOK, LedgerTypeOK, Reserve, ReserveQuota, AlreadyRecorded,
         CreateEntry, localVars, otherVars
<1>9. CASE Release(r)
  BY <1>0, <1>9
     DEF TypeOK, LedgerTypeOK, Release, ReleaseQuota, AlreadyRecorded,
         CreateEntry, ledgerVars, localVars, otherVars
<1>10. CASE Commit(r)
  BY <1>0, <1>10
     DEF TypeOK, LedgerTypeOK, Commit, CommitQuota, ReservedOf, AbsentIsZero,
         AlreadyRecorded, CreateEntry, localVars, otherVars
<1>11. CASE EnqueueUsage(r)
  BY <1>0, <1>1, <1>11
     DEF TypeOK, LedgerTypeOK, EnqueueUsage, PersistUsageEvent, UsageCommit,
         AlreadyRecorded, CreateEntry, ReservedOf, ledgerVars, localVars
<1>12. CASE WorkerPersist(r)
  BY <1>0, <1>1, <1>12
     DEF TypeOK, LedgerTypeOK, WorkerPersist, PersistUsageEvent, UsageCommit,
         AlreadyRecorded, CreateEntry, ReservedOf, ledgerVars, handlerVars,
         localVars
<1> QED
  BY <1>2, <1>3, <1>4, <1>5, <1>6, <1>7, <1>8, <1>9, <1>10, <1>11, <1>12
     DEF Handler, Worker

-----------------------------------------------------------------------------
(* The invariant and its consequences. *)

\* At the start no request has an entry, a job or an event.
LEMMA ChatInvInit == Init => ChatInv
BY BoundsAssumption
   DEF Init, LedgerInit, ChatInv, TypeOK, LedgerTypeOK, AbsentIsZero, PerRequest,
       Uncharged, Counted, Holds, TriesLeft, BeforeReserve, BeforeGenerate,
       BeforeCommit, Metering, AfterCommit, AfterEnqueue, Delivered, AllSteps,
       JobStates, HandlerSteps, Ends, Verdicts

\* The invariant of the pipeline is inductive.
LEMMA ChatInvStep == ChatInv /\ [Next]_vars => ChatInv'
<1> SUFFICES ASSUME ChatInv, [Next]_vars PROVE ChatInv'
  OBVIOUS
<1>1. TypeOK'
  BY ChatTypeStep
<1>2. AbsentIsZero'
  <2>1. LedgerTypeOK /\ AbsentIsZero
    BY DEF ChatInv, TypeOK
  <2> QED
    BY <2>1, ChatStepIsLedgerStep, OneNewEntry DEF AbsentIsZero, Keys, Ops, LedgerTypeOK
<1>3. ASSUME NEW q \in Requests PROVE PerRequest(q)'
  <2>0. PerRequest(q)
    BY DEF ChatInv
  <2>1. ASSUME NEW r \in Requests,
               Handler(r) \/ Rejection(r) \/ Worker(r) \/ WorkerFail(r)
        PROVE  PerRequest(q)'
    BY <2>1, OwnSteps, OtherRequests
  <2>2. CASE Crash
    BY <2>0, <2>2
       DEF ChatInv, TypeOK, Crash, PerRequest, Uncharged, Counted, Holds,
           TriesLeft, ReservedOf, BeforeReserve, BeforeGenerate, BeforeCommit,
           Metering, AfterCommit, AfterEnqueue, Delivered, HandlerSteps,
           ledgerVars, localVars
  <2>3. CASE RollOver \/ AdjustCustomerQuota
    BY <2>0, <2>3, Frame
       DEF RollOver, OpenPeriod, AdjustCustomerQuota, ResetUsage, ledgerVars,
           handlerVars, localVars
  <2>4. CASE UNCHANGED vars
    BY <2>0, <2>4, Frame
       DEF vars, ledgerVars, handlerVars, localVars, otherVars
  <2> QED
    BY <2>1, <2>2, <2>3, <2>4 DEF Next
<1> QED
  BY <1>1, <1>2, <1>3 DEF ChatInv

\* The inductive invariant holds of every behaviour of the pipeline.
THEOREM ChatInvariant == Spec => []ChatInv
BY ChatInvInit, ChatInvStep, PTL DEF Spec

\* The handler, the queue and the ledger keep their types; a job never uses
\* more than the attempts BullMQ was given.
THEOREM ChatTypeCorrect == Spec => []TypeOK
<1>1. ChatInv => TypeOK
  BY DEF ChatInv
<1> QED
  BY <1>1, ChatInvariant, PTL

\* A request is charged exactly what it generated, and a usage event is never
\* without its charge, whatever fails, crashes or is delivered again.
THEOREM ChargeIsUsage == Spec => []ChargeMatchesUsage
<1>1. ChatInv => ChargeMatchesUsage
  <2> SUFFICES ASSUME ChatInv, NEW r \in Requests
               PROVE  /\ r \in events => <<r, "commit">> \in entries
                      /\ <<r, "commit">> \in entries =>
                           deltaTokens[<<r, "commit">>] = tokens[r] /\ tokens[r] > 0
    BY DEF ChargeMatchesUsage
  <2>1. Counted(r)
    BY DEF ChatInv, PerRequest
  <2>2. \A n \in Actuals : n > 0
    BY ActualsAssumption
  <2> QED
    BY <2>1, <2>2, Zenon DEF Counted
<1> QED
  BY <1>1, ChatInvariant, PTL

\* A request answered with success holds nothing in reserve any more and is
\* charged, or will be by a usage job.
THEOREM SuccessIsSettled == Spec => []SettledWhenDone
<1>1. ChatInv => SettledWhenDone
  <2> SUFFICES ASSUME ChatInv, NEW r \in Requests, pc[r] = "done"
               PROVE  /\ ReservedOf(r) = 0
                      /\ \/ <<r, "commit">> \in entries
                         \/ job[r] \in {"waiting", "failed"}
    BY DEF SettledWhenDone
  <2>1. /\ PerRequest(r) /\ AbsentIsZero
        /\ job[r] \in JobStates
        /\ <<r, "reserve">> \in Keys /\ <<r, "release">> \in Keys
    BY DEF ChatInv, TypeOK, Keys, Ops
  <2>2. ReservedOf(r) = 0
    BY <2>1 DEF PerRequest, Holds, AbsentIsZero, ReservedOf, AfterCommit
  <2>3. <<r, "commit">> \in entries \/ job[r] \in {"waiting", "failed"}
    BY <2>1 DEF PerRequest, Holds, Counted, AfterEnqueue, Delivered, JobStates
  <2> QED
    BY <2>2, <2>3
<1> QED
  BY <1>1, ChatInvariant, PTL

\* The pipeline uses the ledger only through its operations.
THEOREM ChatImplementsLedger == Spec => LedgerSpec
<1>1. Init => LedgerInit
  BY DEF Init
<1>2. ChatInv /\ [Next]_vars => [LedgerNext]_ledgerVars
  BY ChatStepIsLedgerStep
<1> QED
  BY <1>1, <1>2, ChatInvariant, PTL DEF Spec, LedgerSpec

\* Hence the whole pipeline charges every request at most once and never
\* rewrites an entry of the ledger.
THEOREM ChatChargesOnce == Spec => MeterSpec /\ EntriesImmutable
BY ChatImplementsLedger, LedgerImplementsMeter, LedgerAppendOnly, PTL

\* And its ledger row is the sum of its entries at every moment, whatever
\* fails, crashes or is delivered again.
THEOREM ChatLedgerIsSum == Spec => []LedgerMatchesEntries
BY ChatImplementsLedger, LedgerRowIsSum, PTL

-----------------------------------------------------------------------------
(* What the ledger holds in reserve.  releaseQuota gives back the estimate    *)
(* whatever commitQuota did before it, so this needs that no await fails      *)
(* between commitQuota and the answer.                                        *)

NoFaultAfterCommit == Faults \cap AfterCommit = {}

\* A request holds all of its estimate or nothing; in the catch block all of it.
Reserved(r) ==
  /\ ReservedOf(r) \in {0, Estimate[r]}
  /\ pc[r] = "release" => ReservedOf(r) = Estimate[r] /\ <<r, "release">> \notin entries

TotalReserved == tokensReserved = SumOf(Outstanding, Requests)

ReserveInv == ChatInv /\ (\A r \in Requests : Reserved(r)) /\ TotalReserved

\* Where the handler stands tells what ReservedOf is.
LEMMA ReservedByStage ==
  ASSUME ChatInv, NEW r \in Requests
  PROVE  /\ ReservedOf(r) \in Int
         /\ pc[r] \in BeforeReserve => ReservedOf(r) = 0
         /\ pc[r] \in BeforeCommit /\ held[r] => ReservedOf(r) = Estimate[r]
         /\ pc[r] \in BeforeCommit /\ ~held[r] => ReservedOf(r) = 0
<1>1. /\ PerRequest(r) /\ AbsentIsZero /\ LedgerTypeOK
      /\ <<r, "reserve">> \in Keys /\ <<r, "commit">> \in Keys
      /\ <<r, "release">> \in Keys
  BY DEF ChatInv, TypeOK, Keys, Ops
<1>2. /\ reservedDelta[<<r, "reserve">>] \in Int
      /\ reservedDelta[<<r, "commit">>] \in Int
      /\ reservedDelta[<<r, "release">>] \in Int
  BY <1>1 DEF LedgerTypeOK
<1>3. pc[r] \in BeforeReserve => /\ <<r, "reserve">> \notin entries
                                 /\ <<r, "commit">> \notin entries
                                 /\ <<r, "release">> \notin entries
  BY <1>1 DEF PerRequest, Uncharged, Holds, BeforeGenerate
<1>4. pc[r] \in BeforeCommit /\ held[r] =>
        /\ reservedDelta[<<r, "reserve">>] = Estimate[r]
        /\ <<r, "commit">> \notin entries /\ <<r, "release">> \notin entries
  BY <1>1 DEF PerRequest, Holds
<1>5. pc[r] \in BeforeCommit /\ ~held[r] =>
        /\ <<r, "reserve">> \notin entries /\ <<r, "commit">> \notin entries
        /\ <<r, "release">> \notin entries
  BY <1>1 DEF PerRequest, Holds
<1>6. Estimate[r] \in Nat
  BY EstimateAssumption
<1>7. ReservedOf(r) = reservedDelta[<<r, "reserve">>] + reservedDelta[<<r, "commit">>]
                        + reservedDelta[<<r, "release">>]
  BY DEF ReservedOf
<1>8. \A op \in Ops : <<r, op>> \notin entries => reservedDelta[<<r, op>>] = 0
  BY DEF ChatInv, AbsentIsZero, Keys
<1>9. pc[r] \in BeforeReserve => ReservedOf(r) = 0
  BY <1>3, <1>7, <1>8 DEF Ops
<1>10. pc[r] \in BeforeCommit /\ held[r] => ReservedOf(r) = Estimate[r]
  BY <1>4, <1>6, <1>7, <1>8 DEF Ops
<1>11. pc[r] \in BeforeCommit /\ ~held[r] => ReservedOf(r) = 0
  BY <1>5, <1>7, <1>8 DEF Ops
<1> QED
  BY <1>2, <1>7, <1>9, <1>10, <1>11

\* One request's share of the reserve changes, and the total with it.
LEMMA TotalStep ==
  ASSUME ReserveInv, NEW r \in Requests,
         \A q \in Requests : ReservedOf(q) \in Int /\ ReservedOf(q)' \in Int,
         \A q \in Requests \ {r} : ReservedOf(q)' = ReservedOf(q),
         tokensReserved' = tokensReserved - ReservedOf(r) + ReservedOf(r)'
  PROVE  TotalReserved'
<1> DEFINE f == Outstanding
           g == Outstanding'
<1>1. /\ \A q \in Requests : f[q] = ReservedOf(q)
      /\ \A q \in Requests : g[q] = ReservedOf(q)'
  BY DEF Outstanding
<1>2. \A q \in Requests : f[q] \in Int /\ g[q] \in Int
  BY <1>1
<1>3. \A q \in Requests \ {r} : g[q] = f[q]
  BY <1>1
<1>4. tokensReserved' = SumOf(f, Requests) - f[r] + g[r]
  BY <1>1 DEF ReserveInv, TotalReserved
<1> HIDE DEF f, g
<1>5. SumOf(g, Requests) = SumOf(f, Requests) - f[r] + g[r]
  BY <1>2, <1>3, RequestsAssumption, SumUpdate
<1>6. tokensReserved' = SumOf(g, Requests)
  BY <1>4, <1>5
<1> QED
  BY <1>6 DEF TotalReserved, g

\* Steps that hold and release nothing keep the total.
LEMMA TotalSame ==
  ASSUME ReserveInv, tokensReserved' = tokensReserved,
         \A q \in Requests : ReservedOf(q)' = ReservedOf(q)
  PROVE  TotalReserved'
<1>1. Outstanding' = Outstanding
  BY DEF Outstanding
<1>2. tokensReserved' = SumOf(Outstanding', Requests)
  BY <1>1 DEF ReserveInv, TotalReserved
<1> QED
  BY <1>2 DEF TotalReserved

\* No request holds more than the ledger does.
LEMMA TotalCoversEach ==
  ASSUME ReserveInv, NEW r \in Requests
  PROVE  tokensReserved \in Nat /\ ReservedOf(r) <= tokensReserved
<1> DEFINE f == Outstanding
<1>1. \A q \in Requests : f[q] = ReservedOf(q)
  BY DEF Outstanding
<1> HIDE DEF f
<1>2. ASSUME NEW q \in Requests PROVE f[q] \in Nat
  <2>1. ReservedOf(q) = 0 \/ ReservedOf(q) = Estimate[q]
    BY DEF ReserveInv, Reserved
  <2>2. Estimate[q] \in Nat
    BY EstimateAssumption
  <2> QED
    BY <1>1, <2>1, <2>2
<1>3. SumOf(f, Requests) \in Nat /\ f[r] <= SumOf(f, Requests)
  BY <1>2, RequestsAssumption, SumOfNats
<1> QED
  BY <1>1, <1>3 DEF ReserveInv, TotalReserved, f

\* Every step but reserveQuota, commitQuota and releaseQuota leaves the reserve.
LEMMA OtherStepsKeepReserve ==
  ASSUME ReserveInv, [Next]_vars,
         \A r \in Requests : ~Reserve(r) /\ ~Commit(r) /\ ~Release(r)
  PROVE  /\ tokensReserved' = tokensReserved
         /\ \A q \in Requests : /\ ReservedOf(q)' = ReservedOf(q)
                                /\ <<q, "release">> \in entries' => <<q, "release">> \in entries
<1> DEFINE Same == /\ UNCHANGED <<tokensReserved, reservedDelta>>
                   /\ \A q \in Requests :
                        <<q, "release">> \in entries' => <<q, "release">> \in entries
<1>0. LedgerTypeOK /\ AbsentIsZero
  BY DEF ReserveInv, ChatInv, TypeOK
<1>2. ASSUME NEW r \in Requests, PersistUsageEvent(r)
      PROVE  Same
  <2>1. CASE UNCHANGED ledgerVars
    BY <2>1 DEF ledgerVars
  <2>2. CASE /\ <<r, "commit">> \notin entries
             /\ CreateEntry(<<r, "commit">>, tokens[r], 0)
             /\ UNCHANGED tokensReserved
    <3>1. <<r, "commit">> \in Keys
      BY DEF Keys, Ops
    <3>2. reservedDelta[<<r, "commit">>] = 0 /\ reservedDelta \in [Keys -> Int]
      BY <1>0, <2>2, <3>1 DEF AbsentIsZero, LedgerTypeOK
    <3>3. reservedDelta' = [reservedDelta EXCEPT ![<<r, "commit">>] = 0]
      BY <2>2 DEF CreateEntry
    <3>4. reservedDelta' = reservedDelta
      BY <3>1, <3>2, <3>3
    <3>5. entries' = entries \cup {<<r, "commit">>}
      BY <2>2 DEF CreateEntry
    <3> QED
      BY <2>2, <3>4, <3>5
  <2> QED
    BY <1>2, <2>1, <2>2 DEF PersistUsageEvent, UsageCommit, AlreadyRecorded
<1>3. ASSUME NEW r \in Requests, Handler(r)
      PROVE  UNCHANGED ledgerVars \/ PersistUsageEvent(r)
  BY <1>3 DEF Handler, Arrive, QuotaMiddleware, CreateInferenceRequest,
         AcceptAnusandhan, ClaimTrace, RejectOverQuota, Route,
         StartAttempt, Generate, AnswerTokens, GenerateAnusandhan,
         FinalizeSucceeded, FinalizeAttempt, EnqueueUsage, ReceiptInline,
         Epilogue, MarkFailed, MarkAttempt, ledgerVars
<1>4. ASSUME NEW r \in Requests, Rejection(r) \/ Worker(r) \/ WorkerFail(r)
      PROVE  UNCHANGED ledgerVars \/ PersistUsageEvent(r)
  BY <1>4 DEF Rejection, Fail, CatchSwallows, Worker, WorkerPersist,
              WorkerReceipt, WorkerComplete, WorkerFail
<1>5. RollOver \/ AdjustCustomerQuota => Same
  BY DEF RollOver, OpenPeriod, AdjustCustomerQuota, ResetUsage, ledgerVars
<1>6. Crash \/ UNCHANGED vars => UNCHANGED ledgerVars
  BY DEF Crash, vars
<1>7. UNCHANGED ledgerVars => Same
  BY DEF ledgerVars
<1>8. Same
  <2> HIDE DEF Same
  <2> QED
    BY <1>2, <1>3, <1>4, <1>5, <1>6, <1>7 DEF Next
<1> QED
  BY <1>8 DEF ReservedOf

\* A ledger operation of r leaves what the others hold.
LEMMA OthersReserve ==
  ASSUME LedgerTypeOK, NEW r \in Requests,
         (\E l \in Nat : ReserveQuota(r, l)) \/ ReleaseQuota(r)
           \/ (\E n \in Nat : CommitQuota(r, n))
  PROVE  \A q \in Requests \ {r} : ReservedOf(q)' = ReservedOf(q)
<1> SUFFICES ASSUME NEW q \in Requests, q # r
             PROVE  ReservedOf(q)' = ReservedOf(q)
  OBVIOUS
<1>1. \A op \in Ops : reservedDelta'[<<q, op>>] = reservedDelta[<<q, op>>]
  BY OthersEntries
<1> QED
  BY <1>1 DEF ReservedOf, Ops

\* reserveQuota: from nothing to the estimate.
LEMMA ReserveStep ==
  ASSUME ReserveInv, NEW r \in Requests, Reserve(r)
  PROVE  /\ ReservedOf(r) = 0 /\ ReservedOf(r)' = Estimate[r]
         /\ tokensReserved' = tokensReserved + Estimate[r]
         /\ tokensUsed' = tokensUsed
         /\ ~WouldExceedQuota(tokensUsed, tokensReserved, Estimate[r], limit[r])
<1>1. /\ PerRequest(r) /\ AbsentIsZero /\ LedgerTypeOK /\ ChatInv
      /\ <<r, "reserve">> \in Keys /\ <<r, "commit">> \in Keys
      /\ <<r, "release">> \in Keys
  BY DEF ReserveInv, ChatInv, TypeOK, Keys, Ops
<1>2. pc[r] = "reserve"
  BY DEF Reserve, Goto
<1>3. ReservedOf(r) = 0
  BY <1>1, <1>2, ReservedByStage DEF BeforeReserve
<1>4. <<r, "reserve">> \notin entries /\ <<r, "commit">> \notin entries
      /\ <<r, "release">> \notin entries
  BY <1>1, <1>2 DEF PerRequest, Holds, Uncharged, BeforeReserve, BeforeGenerate
<1>5. /\ CreateEntry(<<r, "reserve">>, 0, Estimate[r])
      /\ tokensReserved' = tokensReserved + Estimate[r]
      /\ tokensUsed' = tokensUsed
      /\ ~WouldExceedQuota(tokensUsed, tokensReserved, Estimate[r], limit[r])
  BY <1>4 DEF Reserve, ReserveQuota, AlreadyRecorded
<1>6. /\ reservedDelta'[<<r, "reserve">>] = Estimate[r]
      /\ reservedDelta'[<<r, "commit">>] = 0
      /\ reservedDelta'[<<r, "release">>] = 0
  BY <1>1, <1>4, <1>5 DEF CreateEntry, AbsentIsZero, LedgerTypeOK
<1>7. Estimate[r] \in Nat
  BY EstimateAssumption
<1>8. ReservedOf(r)' = Estimate[r]
  BY <1>6, <1>7 DEF ReservedOf
<1> QED
  BY <1>3, <1>5, <1>8

\* commitQuota: from whatever is held to nothing.
LEMMA CommitStep ==
  ASSUME ReserveInv, NEW r \in Requests, Commit(r)
  PROVE  /\ ReservedOf(r)' = 0
         /\ tokensReserved' = tokensReserved - ReservedOf(r)
         /\ tokensUsed' = tokensUsed + tokens[r]
         /\ held[r] => ReservedOf(r) = Estimate[r]
<1>1. /\ PerRequest(r) /\ AbsentIsZero /\ LedgerTypeOK /\ ChatInv
      /\ <<r, "reserve">> \in Keys /\ <<r, "commit">> \in Keys
      /\ <<r, "release">> \in Keys
  BY DEF ReserveInv, ChatInv, TypeOK, Keys, Ops
<1>2. pc[r] = "commit" /\ CommitQuota(r, tokens[r])
  BY DEF Commit, Goto
<1>3. /\ held[r] => ReservedOf(r) = Estimate[r]
      /\ ~held[r] => ReservedOf(r) = 0
  BY <1>1, <1>2, ReservedByStage DEF BeforeCommit
<1>4. <<r, "commit">> \notin entries
  BY <1>1, <1>2 DEF PerRequest, Holds, BeforeCommit
<1>5. Estimate[r] \in Nat /\ Estimate[r] > 0
  BY EstimateAssumption
<1>6. (IF ReservedOf(r) > 0 THEN ReservedOf(r) ELSE 0) = ReservedOf(r)
  BY <1>3, <1>5
<1>7. /\ CreateEntry(<<r, "commit">>, tokens[r], -ReservedOf(r))
      /\ tokensUsed' = tokensUsed + tokens[r]
      /\ tokensReserved' = tokensReserved - ReservedOf(r)
  BY <1>2, <1>4, <1>6 DEF CommitQuota, AlreadyRecorded
<1>8. /\ reservedDelta'[<<r, "reserve">>] = reservedDelta[<<r, "reserve">>]
      /\ reservedDelta'[<<r, "commit">>] = -ReservedOf(r)
      /\ reservedDelta'[<<r, "release">>] = reservedDelta[<<r, "release">>]
      /\ reservedDelta[<<r, "commit">>] = 0
  BY <1>1, <1>4, <1>7 DEF CreateEntry, AbsentIsZero, LedgerTypeOK
<1>9. /\ reservedDelta[<<r, "reserve">>] \in Int
      /\ reservedDelta[<<r, "release">>] \in Int
  BY <1>1 DEF LedgerTypeOK
<1>10. ReservedOf(r)' = 0
  BY <1>8, <1>9 DEF ReservedOf
<1> QED
  BY <1>3, <1>7, <1>10

\* releaseQuota: from the estimate to nothing, the ledger always covering it.
LEMMA ReleaseStep ==
  ASSUME ReserveInv, NEW r \in Requests, Release(r)
  PROVE  /\ ReservedOf(r) = Estimate[r] /\ ReservedOf(r)' = 0
         /\ tokensReserved' = tokensReserved - Estimate[r]
         /\ tokensUsed' = tokensUsed
<1>1. /\ LedgerTypeOK
      /\ <<r, "reserve">> \in Keys /\ <<r, "commit">> \in Keys
      /\ <<r, "release">> \in Keys
  BY DEF ReserveInv, ChatInv, TypeOK, Keys, Ops
<1>2. pc[r] = "release" /\ ReleaseQuota(r)
  BY DEF Release, Goto
<1>3. ReservedOf(r) = Estimate[r] /\ <<r, "release">> \notin entries
  BY <1>2 DEF ReserveInv, Reserved
<1>4. Estimate[r] <= tokensReserved /\ tokensReserved \in Nat
  BY <1>3, TotalCoversEach
<1>5. Estimate[r] \in Nat
  BY EstimateAssumption
<1>6. (IF Estimate[r] > tokensReserved THEN tokensReserved ELSE Estimate[r]) = Estimate[r]
  BY <1>4, <1>5
<1>7. /\ CreateEntry(<<r, "release">>, 0, -Estimate[r])
      /\ tokensReserved' = tokensReserved - Estimate[r]
      /\ tokensUsed' = tokensUsed
  BY <1>2, <1>3, <1>6 DEF ReleaseQuota, AlreadyRecorded
<1>8. AbsentIsZero
  BY DEF ReserveInv, ChatInv
<1>9. /\ reservedDelta'[<<r, "reserve">>] = reservedDelta[<<r, "reserve">>]
      /\ reservedDelta'[<<r, "commit">>] = reservedDelta[<<r, "commit">>]
      /\ reservedDelta'[<<r, "release">>] = -Estimate[r]
      /\ reservedDelta[<<r, "release">>] = 0
  BY <1>1, <1>3, <1>7, <1>8 DEF CreateEntry, AbsentIsZero, LedgerTypeOK
<1>10. /\ reservedDelta[<<r, "reserve">>] \in Int
       /\ reservedDelta[<<r, "commit">>] \in Int
  BY <1>1 DEF LedgerTypeOK
<1>11. ReservedOf(r)' = 0
  BY <1>3, <1>5, <1>9, <1>10 DEF ReservedOf
<1> QED
  BY <1>3, <1>7, <1>11

\* The handler of r reaches the catch block's release only with all it reserved.
LEMMA ReservedKept ==
  ASSUME NoFaultAfterCommit, ReserveInv, [Next]_vars, NEW q \in Requests,
         ReservedOf(q)' \in {0, Estimate[q]},
         ~Release(q), pc'[q] = "release",
         ReservedOf(q)' = ReservedOf(q)
  PROVE  ReservedOf(q) = Estimate[q] /\ <<q, "release">> \notin entries
<1>1. /\ Reserved(q) /\ PerRequest(q) /\ ChatInv
      /\ pc \in [Requests -> AllSteps] /\ held \in [Requests -> BOOLEAN]
  BY DEF ReserveInv, ChatInv, TypeOK
<1>2. CASE pc[q] = "release"
  BY <1>1, <1>2 DEF Reserved
<1>3. CASE pc[q] # "release"
  <2>1. Fail(q)
    <3>1. ASSUME NEW r \in Requests, Handler(r) PROVE pc'[q] = pc[q] \/ pc'[q] # "release"
      BY <1>1, <3>1
         DEF Handler, Arrive, QuotaMiddleware, CreateInferenceRequest,
           AcceptAnusandhan, ClaimTrace, Reserve, RejectOverQuota, Route,
           StartAttempt, Generate, AnswerTokens, GenerateAnusandhan,
           FinalizeSucceeded, FinalizeAttempt, Commit, EnqueueUsage,
           ReceiptInline, Epilogue, Release, MarkFailed, MarkAttempt, Goto,
           AfterUsage
    <3>2. ASSUME NEW r \in Requests, CatchSwallows(r) \/ Worker(r) \/ WorkerFail(r)
          PROVE pc'[q] = pc[q] \/ pc'[q] # "release"
      BY <1>1, <3>2
         DEF CatchSwallows, Worker, WorkerPersist, WorkerReceipt,
             WorkerComplete, WorkerFail, handlerVars
    <3>3. Crash \/ RollOver \/ AdjustCustomerQuota \/ UNCHANGED vars =>
            pc'[q] = pc[q] \/ pc'[q] # "release"
      BY <1>1 DEF Crash, RollOver, AdjustCustomerQuota, vars, handlerVars
    <3>4. ASSUME NEW r \in Requests, r # q, Fail(r) PROVE pc'[q] = pc[q]
      BY <1>1, <3>4 DEF Fail
    <3> QED
      BY <1>3, <3>1, <3>2, <3>3, <3>4 DEF Next, Rejection
  <2>2. held[q] /\ pc[q] \in Faults /\ pc[q] \in HandlerSteps
    BY <1>1, <2>1 DEF Fail
  <2>3. pc[q] \notin AfterCommit /\ pc[q] \notin CatchSteps
    BY <2>1, <2>2 DEF NoFaultAfterCommit, Fail
  <2>4. pc[q] \notin BeforeReserve
    BY <1>1, <2>2 DEF PerRequest, Holds
  <2>5. pc[q] \in BeforeCommit
    BY <2>2, <2>3, <2>4
       DEF HandlerSteps, CatchSteps, AfterCommit, BeforeReserve, BeforeCommit
  <2> QED
    BY <1>1, <2>2, <2>5, ReservedByStage DEF PerRequest, Holds
<1> QED
  BY <1>2, <1>3

\* With no fault after a commit every reservation stays accounted for.
LEMMA ReserveInvStep ==
  ASSUME NoFaultAfterCommit, ReserveInv, [Next]_vars
  PROVE  ReserveInv'
<1>0. ChatInv /\ ChatInv' /\ LedgerTypeOK
  BY ChatInvStep DEF ReserveInv, ChatInv, TypeOK
<1>1. \A q \in Requests : ReservedOf(q) \in Int /\ Estimate[q] \in Int
  BY <1>0, ReservedByStage, EstimateAssumption
<1>2. \A q \in Requests : Reserved(q) /\ ReservedOf(q) \in {0, Estimate[q]}
  BY DEF ReserveInv, Reserved
<1>3. tokensReserved \in Int
  BY <1>0 DEF LedgerTypeOK
<1>4. ASSUME NEW r \in Requests, Reserve(r) \/ Commit(r) \/ Release(r)
      PROVE  TotalReserved' /\ \A q \in Requests : Reserved(q)'
  <2>1. /\ ReservedOf(r)' \in {0, Estimate[r]}
        /\ tokensReserved' = tokensReserved - ReservedOf(r) + ReservedOf(r)'
    BY <1>1, <1>3, <1>4, ReserveStep, CommitStep, ReleaseStep
  <2>2. (\E l \in Nat : ReserveQuota(r, l)) \/ ReleaseQuota(r)
          \/ (\E n \in Nat : CommitQuota(r, n))
    <3>1. limit[r] \in Nat /\ tokens[r] \in Nat
      BY <1>0 DEF ChatInv, TypeOK
    <3> QED
      BY <1>4, <3>1 DEF Reserve, Commit, Release
  <2>3. \A q \in Requests \ {r} : ReservedOf(q)' = ReservedOf(q)
    BY <1>0, <2>2, OthersReserve
  <2>4. \A q \in Requests : ReservedOf(q)' \in {0, Estimate[q]}
    BY <1>2, <2>1, <2>3
  <2>5. \A q \in Requests : ReservedOf(q)' \in Int
    BY <1>1, <2>4
  <2>6. TotalReserved'
    BY <1>1, <2>1, <2>3, <2>5, TotalStep
  <2>7. pc'[r] # "release" /\ \A q \in Requests \ {r} : pc'[q] = pc[q]
    BY <1>0, <1>4 DEF Reserve, Commit, Release, Goto, ChatInv, TypeOK
  <2>8. \A q \in Requests \ {r} : <<q, "release">> \in entries' <=> <<q, "release">> \in entries
    BY <1>0, <2>2, OthersEntries DEF Ops
  <2>9. ASSUME NEW q \in Requests PROVE Reserved(q)'
    BY <1>2, <2>3, <2>4, <2>7, <2>8 DEF Reserved
  <2> QED
    BY <2>6, <2>9
<1>5. CASE \A r \in Requests : ~Reserve(r) /\ ~Commit(r) /\ ~Release(r)
  <2>1. \A q \in Requests :
          /\ ReservedOf(q)' = ReservedOf(q)
          /\ <<q, "release">> \in entries' => <<q, "release">> \in entries
    BY <1>5, OtherStepsKeepReserve
  <2>2. TotalReserved'
    BY <1>5, <2>1, OtherStepsKeepReserve, TotalSame
  <2>3. ASSUME NEW q \in Requests PROVE Reserved(q)'
    <3>1. ReservedOf(q)' \in {0, Estimate[q]}
      BY <1>2, <2>1
    <3>2. ASSUME pc'[q] = "release"
          PROVE  ReservedOf(q)' = Estimate[q] /\ <<q, "release">> \notin entries'
      BY <1>5, <2>1, <3>1, <3>2, ReservedKept
    <3> QED
      BY <3>1, <3>2 DEF Reserved
  <2> QED
    BY <1>0, <2>2, <2>3 DEF ReserveInv
<1> QED
  BY <1>0, <1>4, <1>5 DEF ReserveInv

\* At the start nothing is reserved.
LEMMA ReserveInvInit == Init => ReserveInv
<1> SUFFICES ASSUME Init PROVE ReserveInv
  OBVIOUS
<1>1. ChatInv
  BY ChatInvInit
<1>2. \A r \in Requests : pc[r] = "idle"
  BY DEF Init
<1>3. \A r \in Requests : ReservedOf(r) = 0
  BY <1>1, <1>2, ReservedByStage DEF BeforeReserve
<1>4. TotalReserved
  <2> DEFINE f == Outstanding
  <2>1. \A r \in Requests : f[r] = 0
    BY <1>3 DEF Outstanding
  <2> HIDE DEF f
  <2>2. SumOf(f, Requests) = 0
    BY <2>1, RequestsAssumption, SumOfZeros
  <2>3. tokensReserved = 0
    BY DEF Init, LedgerInit
  <2> QED
    BY <2>2, <2>3 DEF TotalReserved, f
<1> QED
  BY <1>1, <1>2, <1>3, <1>4 DEF ReserveInv, Reserved

\* What the ledger holds in reserve is exactly what the requests that hold some
\* hold together, for any number of requests, roll-overs, adjustments and
\* crashes, and even when the release of the catch block fails: as long as no
\* await fails between commitQuota and the answer.
THEOREM ReserveOutstanding ==
  ASSUME NoFaultAfterCommit
  PROVE  Spec => []ReserveIsOutstanding
<1>1. ReserveInv => ReserveIsOutstanding
  <2> SUFFICES ASSUME ReserveInv PROVE ReserveIsOutstanding
    OBVIOUS
  <2> DEFINE f == Outstanding
             H == {r \in Requests : f[r] > 0}
  <2>1. \A r \in Requests : f[r] = ReservedOf(r)
    BY DEF Outstanding
  <2> HIDE DEF f
  <2>2. \A r \in Requests : ReservedOf(r) = 0 \/ ReservedOf(r) = Estimate[r]
    BY DEF ReserveInv, Reserved
  <2>3. \A r \in Requests : f[r] \in Nat
    BY <2>1, <2>2, EstimateAssumption
  <2>4. H \in SUBSET Requests /\ \A r \in Requests \ H : f[r] = 0
    BY <2>3
  <2> HIDE DEF H
  <2>5. \A r \in Requests : f[r] \in Int
    BY <2>3
  <2>6. SumOf(f, Requests) = SumOf(f, H)
    BY <2>4, <2>5, RequestsAssumption, SumSkipsZeros
  <2>7. tokensReserved = SumOf(f, Requests)
    BY DEF ReserveInv, TotalReserved, f
  <2>8. SumOf(f, H) = MapThenSumSet(LAMBDA r : Outstanding[r],
                                    {r \in Requests : Outstanding[r] > 0})
    BY DEF SumOf, f, H
  <2> QED
    BY <2>6, <2>7, <2>8 DEF ReserveIsOutstanding
<1>2. ReserveInv /\ [Next]_vars => ReserveInv'
  BY ReserveInvStep
<1> QED
  BY <1>1, <1>2, ReserveInvInit, PTL DEF Spec

-----------------------------------------------------------------------------
(* The quota.  It needs that every request reserves, and at least what it     *)
(* will use: routes/anusandhan.ts reserves nothing, and nothing bounds the    *)
(* count an engine reports.                                                   *)

EstimatesSuffice == \A r \in Requests, n \in Actuals : n <= Estimate[r]

\* A request of a limited plan is held to a quota that was granted, and past
\* reserveQuota it has a reservation or its charge.
Limited(r) ==
  /\ client[r] = "v1"
  /\ limit[r] <= EffectiveMonthlyQuota
  /\ pc[r] # "idle" => limit[r] > 0
  /\ pc[r] \in BeforeCommit \cup AfterCommit => held[r]
  /\ job[r] # "none" => <<r, "commit">> \in entries

QuotaInv == ReserveInv /\ (Limit > 0 => WithinQuota /\ \A r \in Requests : Limited(r))

\* A step of one request leaves the quota of another, which only grows, alone.
LEMMA QuotaGrows ==
  ASSUME TypeOK, [Next]_vars, Limit > 0
  PROVE  \E a \in Nat, b \in Nat : /\ EffectiveMonthlyQuota = a
                                   /\ EffectiveMonthlyQuota' = b
                                   /\ 0 < a /\ a <= b
<1>1. bonus \in Nat /\ Limit \in Nat
  BY LimitAssumption DEF TypeOK
<1>2. bonus' = bonus \/ \E n \in Nat : bonus' = bonus + n
  <2>1. ASSUME NEW r \in Requests, Handler(r) PROVE bonus' = bonus
    BY <2>1 DEF Handler, Arrive, QuotaMiddleware, CreateInferenceRequest,
           AcceptAnusandhan, ClaimTrace, Reserve, RejectOverQuota, Route,
           StartAttempt, Generate, AnswerTokens, GenerateAnusandhan,
           FinalizeSucceeded, FinalizeAttempt, Commit, EnqueueUsage,
           ReceiptInline, Epilogue, Release, MarkFailed, MarkAttempt, otherVars
  <2>2. ASSUME NEW r \in Requests, Rejection(r) \/ Worker(r) \/ WorkerFail(r)
        PROVE  bonus' = bonus
    BY <2>2 DEF Rejection, Fail, CatchSwallows, Worker, WorkerPersist,
                WorkerReceipt, WorkerComplete, WorkerFail, otherVars
  <2>3. Crash \/ RollOver \/ UNCHANGED vars => bonus' = bonus
    BY DEF Crash, RollOver, vars, otherVars
  <2>4. ASSUME AdjustCustomerQuota PROVE bonus' = bonus \/ \E n \in Nat : bonus' = bonus + n
    BY <2>4, GrantsAssumption DEF AdjustCustomerQuota
  <2> QED
    BY <2>1, <2>2, <2>3, <2>4 DEF Next
<1>3. bonus' \in Nat /\ bonus <= bonus'
  BY <1>1, <1>2
<1>4. Limit # 0
  BY <1>1
<1>5. EffectiveMonthlyQuota = Limit + bonus
  BY <1>4 DEF EffectiveMonthlyQuota
<1>6. EffectiveMonthlyQuota' = Limit + bonus'
  BY <1>4 DEF EffectiveMonthlyQuota
<1>7. /\ Limit + bonus \in Nat /\ Limit + bonus' \in Nat
      /\ 0 < Limit + bonus /\ Limit + bonus <= Limit + bonus'
  <2>1. \A l, x, y \in Nat : 0 < l /\ x <= y =>
          /\ l + x \in Nat /\ l + y \in Nat /\ 0 < l + x /\ l + x <= l + y
    OBVIOUS
  <2> QED
    BY <1>1, <1>3, <2>1
<1> QED
  BY <1>5, <1>6, <1>7

\* What another request was granted still covers it after this one's step.
LEMMA OthersLimited ==
  ASSUME ChatInv, NEW q \in Requests, NEW r \in Requests, r # q,
         Handler(r) \/ Rejection(r) \/ Worker(r) \/ WorkerFail(r),
         Limited(q), limit[q] <= EffectiveMonthlyQuota'
  PROVE  Limited(q)'
<1> USE DEF ChatInv, TypeOK, Goto
<1>1. /\ (\E l \in Nat : ReserveQuota(r, l)) \/ ReleaseQuota(r)
           \/ (\E n \in Nat : CommitQuota(r, n))
           \/ (\E n \in Nat : UsageCommit(r, n)) \/ UNCHANGED ledgerVars
  BY DEF Handler, Arrive, QuotaMiddleware, CreateInferenceRequest,
         AcceptAnusandhan, ClaimTrace, Reserve, RejectOverQuota, Route,
         StartAttempt, Generate, AnswerTokens, GenerateAnusandhan,
         FinalizeSucceeded, FinalizeAttempt, Commit, EnqueueUsage,
         PersistUsageEvent, ReceiptInline, Epilogue, Release, MarkFailed,
         MarkAttempt, Rejection, Fail, CatchSwallows, Worker, WorkerPersist,
         WorkerReceipt, WorkerComplete, WorkerFail
<1>2. <<q, "commit">> \in entries => <<q, "commit">> \in entries'
  BY <1>1, OthersEntries DEF Ops
<1>3. /\ pc'[q] = pc[q] /\ held'[q] = held[q] /\ job'[q] = job[q]
      /\ client'[q] = client[q] /\ limit'[q] = limit[q]
  <2>1. CASE Handler(r)
    BY <2>1
       DEF Handler, Arrive, QuotaMiddleware, CreateInferenceRequest,
           AcceptAnusandhan, ClaimTrace, Reserve, RejectOverQuota, Route,
         StartAttempt, Generate, AnswerTokens, GenerateAnusandhan,
           FinalizeSucceeded, FinalizeAttempt, Commit, EnqueueUsage,
           ReceiptInline, Epilogue, Release, MarkFailed,
           MarkAttempt, localVars, otherVars
  <2>2. CASE Rejection(r) \/ Worker(r) \/ WorkerFail(r)
    BY <2>2
       DEF Rejection, Fail, CatchSwallows, Worker, WorkerPersist,
           WorkerReceipt, WorkerComplete, WorkerFail,
           handlerVars, localVars, otherVars
  <2> QED
    BY <2>1, <2>2
<1> QED
  BY <1>2, <1>3 DEF Limited

\* The commit entry of a request stays, and every charge leaves one.
LEMMA OwnLimited ==
  ASSUME QuotaInv, Limit > 0, Clients \subseteq {"v1"}, NEW r \in Requests,
         Handler(r) \/ Rejection(r) \/ Worker(r) \/ WorkerFail(r),
         NEW a \in Nat, NEW b \in Nat, EffectiveMonthlyQuota = a,
         EffectiveMonthlyQuota' = b, 0 < a, a <= b,
         <<r, "commit">> \in entries => <<r, "commit">> \in entries'
  PROVE  Limited(r)'
<1>0. /\ TypeOK /\ PerRequest(r) /\ Limited(r)
      /\ pc[r] \in AllSteps /\ limit[r] \in Nat
  BY DEF QuotaInv, ReserveInv, ChatInv, TypeOK
<1> USE <1>0 DEF Goto, AfterUsage, Limited, BeforeCommit, AfterCommit
<1>1. CASE Arrive(r)
  BY <1>1 DEF Arrive, otherVars, TypeOK, PerRequest, Uncharged, BeforeGenerate,
              BeforeReserve
<1>2. CASE QuotaMiddleware(r) \/ CreateInferenceRequest(r)
             \/ AcceptAnusandhan(r) \/ ClaimTrace(r) \/ RejectOverQuota(r)
  BY <1>2 DEF TypeOK, QuotaMiddleware, CreateInferenceRequest, AcceptAnusandhan,
              ClaimTrace, RejectOverQuota, localVars, otherVars
<1>3. CASE Reserve(r) \/ Route(r) \/ StartAttempt(r) \/ Generate(r)
             \/ GenerateAnusandhan(r) \/ FinalizeSucceeded(r)
             \/ FinalizeAttempt(r) \/ Commit(r)
  BY <1>3 DEF TypeOK, Reserve, Route, StartAttempt, Generate, AnswerTokens,
              GenerateAnusandhan, FinalizeSucceeded, FinalizeAttempt, Commit,
              localVars, otherVars
<1>4. CASE EnqueueUsage(r)
  <2>1. pc[r] = "enqueue"
    BY <1>4 DEF EnqueueUsage
  <2>2. <<r, "commit">> \in entries
    BY <2>1 DEF PerRequest, Holds
  <2> QED
    BY <1>4, <2>1, <2>2 DEF TypeOK, EnqueueUsage, localVars
<1>5. CASE ReceiptInline(r) \/ Epilogue(r) \/ Release(r) \/ MarkFailed(r)
             \/ MarkAttempt(r)
  BY <1>5 DEF TypeOK, ReceiptInline, Epilogue, Release, MarkFailed, MarkAttempt,
              localVars, otherVars
<1>6. CASE Rejection(r)
  BY <1>6 DEF TypeOK, Rejection, Fail, CatchSwallows, HandlerSteps, CatchSteps,
              localVars, otherVars
<1>7. CASE Worker(r) \/ WorkerFail(r)
  BY <1>7 DEF TypeOK, Worker, WorkerPersist, WorkerReceipt, WorkerComplete,
              WorkerFail, handlerVars, localVars
<1> QED
  BY <1>1, <1>2, <1>3, <1>4, <1>5, <1>6, <1>7 DEF Handler, Worker

\* What each step does to the two columns of the ledger row when every charge
\* was reserved for.
LEMMA OnlyReservedIsCharged ==
  ASSUME QuotaInv, Limit > 0, [Next]_vars,
         \A r \in Requests : ~Reserve(r) /\ ~Commit(r) /\ ~Release(r)
  PROVE  tokensUsed' = tokensUsed \/ tokensUsed' = 0
<1>0. \A r \in Requests : Limited(r) /\ PerRequest(r)
  BY DEF QuotaInv, ReserveInv, ChatInv
<1>1. ASSUME NEW r \in Requests, PersistUsageEvent(r), <<r, "commit">> \in entries
      PROVE  UNCHANGED tokensUsed
  BY <1>1 DEF PersistUsageEvent, UsageCommit, AlreadyRecorded, ledgerVars
<1>2. ASSUME NEW r \in Requests, EnqueueUsage(r) PROVE UNCHANGED tokensUsed
  <2>1. pc[r] = "enqueue"
    BY <1>2 DEF EnqueueUsage, Goto
  <2>2. <<r, "commit">> \in entries
    BY <1>0, <2>1 DEF Limited, PerRequest, Holds, AfterCommit
  <2> QED
    BY <1>1, <1>2, <2>2 DEF EnqueueUsage, ledgerVars
<1>3. ASSUME NEW r \in Requests, WorkerPersist(r) PROVE UNCHANGED tokensUsed
  <2>1. <<r, "commit">> \in entries
    BY <1>0, <1>3 DEF Limited, WorkerPersist
  <2> QED
    BY <1>1, <1>3, <2>1 DEF WorkerPersist
<1>4. ASSUME NEW r \in Requests, Handler(r) PROVE UNCHANGED tokensUsed
  BY <1>2, <1>4
     DEF Handler, Arrive, QuotaMiddleware, CreateInferenceRequest,
         AcceptAnusandhan, ClaimTrace, RejectOverQuota, Route,
         StartAttempt, Generate, GenerateAnusandhan,
         FinalizeSucceeded, FinalizeAttempt, ReceiptInline,
         Epilogue, MarkFailed, MarkAttempt, ledgerVars
<1>5. ASSUME NEW r \in Requests, Rejection(r) \/ Worker(r) \/ WorkerFail(r)
      PROVE  UNCHANGED tokensUsed
  BY <1>3, <1>5 DEF Rejection, Fail, CatchSwallows, Worker,
                    WorkerReceipt, WorkerComplete, WorkerFail, ledgerVars
<1>6. RollOver \/ AdjustCustomerQuota => tokensUsed' = tokensUsed \/ tokensUsed' = 0
  BY DEF RollOver, OpenPeriod, AdjustCustomerQuota, ResetUsage, ledgerVars
<1>7. Crash \/ UNCHANGED vars => UNCHANGED tokensUsed
  BY DEF Crash, vars, ledgerVars
<1> QED
  BY <1>4, <1>5, <1>6, <1>7 DEF Next

\* Concurrent requests stay within the quota they were granted.
LEMMA QuotaInvStep ==
  ASSUME NoFaultAfterCommit, Clients \subseteq {"v1"}, EstimatesSuffice,
         QuotaInv, [Next]_vars
  PROVE  QuotaInv'
<1>0. ReserveInv /\ ReserveInv' /\ ChatInv /\ ChatInv' /\ TypeOK /\ TypeOK'
  BY ReserveInvStep DEF QuotaInv, ReserveInv, ChatInv
<1> SUFFICES ASSUME Limit > 0
             PROVE  WithinQuota' /\ \A q \in Requests : Limited(q)'
  BY <1>0 DEF QuotaInv
<1>1. PICK a \in Nat, b \in Nat : /\ EffectiveMonthlyQuota = a
                                  /\ EffectiveMonthlyQuota' = b
                                  /\ 0 < a /\ a <= b
  BY <1>0, QuotaGrows
<1>2. /\ WithinQuota
      /\ \A q \in Requests : Limited(q) /\ limit[q] \in Nat
  BY <1>0 DEF QuotaInv, TypeOK
<1>3. /\ tokensUsed + tokensReserved <= a
      /\ tokensReserved >= 0
      /\ tokensUsed \in Nat /\ tokensReserved \in Int
      /\ tokensUsed' \in Nat /\ tokensReserved' \in Int
  BY <1>0, <1>1, <1>2 DEF WithinQuota, TypeOK, LedgerTypeOK
<1>4. \A q \in Requests : limit[q] <= b
  <2>1. \A q \in Requests : limit[q] <= a /\ limit[q] \in Nat
    BY <1>1, <1>2 DEF Limited
  <2> QED
    BY <1>1, <2>1
<1>5. \A q \in Requests : <<q, "commit">> \in entries => <<q, "commit">> \in entries'
  <2>1. LedgerTypeOK /\ [LedgerNext]_ledgerVars
    BY <1>0, ChatStepIsLedgerStep DEF TypeOK
  <2> QED
    BY <2>1, OneNewEntry
<1>6. ASSUME NEW q \in Requests PROVE Limited(q)'
  <2>1. ASSUME NEW r \in Requests,
               Handler(r) \/ Rejection(r) \/ Worker(r) \/ WorkerFail(r)
        PROVE  Limited(q)'
    <3>1. CASE r = q
      BY <1>1, <1>5, <2>1, <3>1, OwnLimited
    <3>2. CASE r # q
      BY <1>0, <1>1, <1>2, <1>4, <2>1, <3>2, OthersLimited
    <3> QED
      BY <3>1, <3>2
  <2>2. CASE Crash
    <3>1. /\ pc'[q] = pc[q] \/ (pc'[q] = "crashed" /\ pc[q] \in HandlerSteps)
          /\ client'[q] = client[q] /\ limit'[q] = limit[q]
          /\ held'[q] = held[q] /\ job'[q] = job[q]
      BY <2>2 DEF Crash, localVars
    <3>2. Limited(q) /\ limit[q] <= EffectiveMonthlyQuota'
      BY <1>1, <1>2, <1>4
    <3>3. pc[q] = "idle" => pc'[q] = "idle"
      BY <3>1 DEF HandlerSteps
    <3> QED
      BY <1>5, <3>1, <3>2, <3>3 DEF Limited, BeforeCommit, AfterCommit
  <2>3. CASE RollOver \/ AdjustCustomerQuota
    BY <1>1, <1>2, <1>4, <1>5, <2>3
       DEF RollOver, AdjustCustomerQuota, handlerVars, localVars, Limited
  <2>4. CASE UNCHANGED vars
    BY <1>1, <1>2, <1>4, <1>5, <2>4 DEF vars, handlerVars, localVars, otherVars, Limited
  <2> QED
    BY <2>1, <2>2, <2>3, <2>4 DEF Next
<1>7. /\ tokensUsed' + tokensReserved' <= b
      /\ tokensReserved' >= 0
  <2>1. ASSUME NEW r \in Requests, Reserve(r) \/ Commit(r) \/ Release(r)
        PROVE  /\ tokensUsed' + tokensReserved' <= b
               /\ tokensReserved' >= 0
    <3>1. Estimate[r] \in Nat /\ tokens[r] \in Nat
      BY <1>0, EstimateAssumption DEF TypeOK
    <3>2. ReservedOf(r) <= tokensReserved
      BY <1>0, TotalCoversEach
    <3>3. CASE Reserve(r)
      <4>1. /\ tokensReserved' = tokensReserved + Estimate[r]
            /\ tokensUsed' = tokensUsed
            /\ ~WouldExceedQuota(tokensUsed, tokensReserved, Estimate[r], limit[r])
        BY <1>0, <3>3, ReserveStep
      <4>2. limit[r] > 0 /\ limit[r] \in Nat
        BY <1>2, <3>3 DEF Limited, Reserve, Goto
      <4>3. tokensUsed + tokensReserved + Estimate[r] <= limit[r]
        BY <1>3, <3>1, <4>1, <4>2 DEF WouldExceedQuota
      <4> QED
        BY <1>1, <1>3, <1>4, <3>1, <4>1, <4>2, <4>3
    <3>4. CASE Commit(r)
      <4>1. /\ tokensReserved' = tokensReserved - ReservedOf(r)
            /\ tokensUsed' = tokensUsed + tokens[r]
            /\ held[r] => ReservedOf(r) = Estimate[r]
        BY <1>0, <3>4, CommitStep
      <4>2. pc[r] = "commit"
        BY <3>4 DEF Commit, Goto
      <4>3. held[r]
        BY <1>2, <4>2 DEF Limited, BeforeCommit
      <4>4. tokens[r] \in Actuals
        BY <1>0, <4>2 DEF ChatInv, PerRequest, Counted, Metering
      <4>5. tokens[r] <= Estimate[r]
        BY <4>4 DEF EstimatesSuffice
      <4> QED
        BY <1>1, <1>3, <3>1, <3>2, <4>1, <4>3, <4>5
    <3>5. CASE Release(r)
      <4>1. /\ ReservedOf(r) = Estimate[r]
            /\ tokensReserved' = tokensReserved - Estimate[r]
            /\ tokensUsed' = tokensUsed
        BY <1>0, <3>5, ReleaseStep
      <4> QED
        BY <1>1, <1>3, <3>1, <3>2, <4>1
    <3> QED
      BY <2>1, <3>3, <3>4, <3>5
  <2>2. CASE \A r \in Requests : ~Reserve(r) /\ ~Commit(r) /\ ~Release(r)
    <3>1. tokensReserved' = tokensReserved
      BY <1>0, <2>2, OtherStepsKeepReserve
    <3>2. tokensUsed' = tokensUsed \/ tokensUsed' = 0
      BY <2>2, OnlyReservedIsCharged
    <3>3. CASE tokensUsed' = tokensUsed
      BY <1>1, <1>3, <3>1, <3>3
    <3>4. CASE tokensUsed' = 0
      BY <1>1, <1>3, <3>1, <3>4
    <3> QED
      BY <3>2, <3>3, <3>4
  <2> QED
    BY <2>1, <2>2
<1> QED
  BY <1>1, <1>6, <1>7 DEF WithinQuota

\* Concurrent requests cannot together pass the quota of their plan, although
\* each reserves against the figure of its own authentication, and although
\* the ledger is rolled over, reset and topped up while they run: as long as
\* every request reserves (no Anusandhan), no generation exceeds its estimate
\* and no await fails between commitQuota and the answer.
THEOREM QuotaIsKept ==
  ASSUME NoFaultAfterCommit, Clients \subseteq {"v1"}, EstimatesSuffice
  PROVE  Spec => []WithinQuota
<1>1. Init => QuotaInv
  <2> SUFFICES ASSUME Init PROVE QuotaInv
    OBVIOUS
  <2>1. ReserveInv
    BY ReserveInvInit
  <2>2. ASSUME Limit > 0 PROVE WithinQuota /\ \A r \in Requests : Limited(r)
    <3>1. Limit \in Nat /\ Limit # 0
      BY <2>2, LimitAssumption
    <3>2. EffectiveMonthlyQuota = Limit
      BY <3>1 DEF EffectiveMonthlyQuota, Init
    <3>3. WithinQuota
      BY <3>1, <3>2 DEF WithinQuota, Init, LedgerInit
    <3>4. \A r \in Requests : Limited(r)
      BY <3>1, <3>2 DEF Limited, Init, BeforeCommit, AfterCommit
    <3> QED
      BY <3>3, <3>4
  <2> QED
    BY <2>1, <2>2 DEF QuotaInv
<1>2. QuotaInv /\ [Next]_vars => QuotaInv'
  BY QuotaInvStep
<1>3. QuotaInv => WithinQuota
  BY LimitAssumption DEF QuotaInv, WithinQuota
<1> QED
  BY <1>1, <1>2, <1>3, PTL DEF Spec

-----------------------------------------------------------------------------
(* The streamed turn, from the engine to the console.                       *)
(*                                                                          *)
(* Text is conserved: what the console shows and what is on its way is what *)
(* the engine's adapter has written, until the turn is over or stopped. The *)
(* pipe holds no text behind an event that ends the turn, and [DONE] stands *)
(* there only for a settled turn or behind an error.                        *)
Kinds == {"delta", "finish", "done", "error", "refusal"}
Event == [kind : Kinds, n : Nat]

\* One turn streams at a time, the last; those before it are over.
ConsoleInv ==
  /\ messages \in Seq(0 .. Turns) /\ rendered \in Seq(0 .. Turns)
  /\ abort \in {0, turn}
  /\ streaming => turn # 0 /\ ~bubble[turn].settled
  /\ \A t \in Turn : t < turn \/ (t = turn /\ ~streaming) => bubble[t].settled
  /\ TurnKept

\* The text that has been written towards the browser.
Sent(t) == IF backend = "llama" \/ t \in handed THEN produced[t] ELSE 0

\* The events on their way: none after one that ends the turn has text, and
\* [DONE] means settled or follows an error.
PipeInv(t) ==
  /\ \A i \in DOMAIN pipe[t] : EndsTurn(pipe[t][i]) =>
       /\ place[t] = "done"
       /\ \A j \in DOMAIN pipe[t] : j > i => pipe[t][j].n = 0
  /\ \A i \in DOMAIN pipe[t] : pipe[t][i].kind = "done" =>
       t \in charged \/ \E j \in DOMAIN pipe[t] : j < i /\ pipe[t][j].kind = "error"

\* What the handler's place implies.
HandlerInv(t) ==
  /\ place[t] \in {"none", "proxy", "admit", "stream"} => t \notin handed
  /\ place[t] = "settle" => t \in handed
  /\ place[t] = "close" => t \in charged
  /\ t \in charged => t \in handed

\* What is shown: text is neither lost nor invented on its way.
BubbleInv(t) ==
  /\ bubble[t].len <= produced[t]
  /\ bubble[t].settled => pipe[t] = <<>>
  /\ bubble[t].settled /\ bubble[t].fin = "stop" =>
       place[t] = "done" /\ bubble[t].len = produced[t] /\ t \in charged
  /\ ~bubble[t].settled /\ t \notin stopped =>
       bubble[t].len + Length(pipe[t]) = Sent(t)
  /\ bubble[t].settled /\ t \notin stopped =>
       place[t] = "done" /\ (t \in charged => bubble[t].len = produced[t])

FutureInv(t) ==
  t > turn => /\ place[t] = "none" /\ pipe[t] = <<>> /\ bubble[t] = Pending
              /\ t \notin stopped

TurnInv(t) == PipeInv(t) /\ HandlerInv(t) /\ BubbleInv(t) /\ FutureInv(t)

StreamShape == /\ StreamTypeOK
               /\ produced \in [Turn -> Nat] /\ pipe \in [Turn -> Seq(Event)]

StreamInv == StreamShape /\ ConsoleInv /\ \A t \in Turn : TurnInv(t)

-----------------------------------------------------------------------------
(* The text of a sequence of events.                                        *)

\* The length of a sequence of events is a sum, and a natural number.
LEMMA LengthIsSum ==
  ASSUME NEW s \in Seq(Event)
  PROVE  /\ Length(s) = SumOf([i \in DOMAIN s |-> s[i].n], DOMAIN s) /\ Length(s) \in Nat
         /\ DOMAIN s = 1 .. Len(s) /\ Len(s) \in Nat
         /\ \A i \in 1 .. Len(s) : s[i] \in Event /\ s[i].n \in Nat
<1> DEFINE size == [i \in DOMAIN s |-> s[i].n]
<1>1. DOMAIN s = 1 .. Len(s) /\ Len(s) \in Nat /\ \A i \in 1 .. Len(s) : s[i] \in Event
  BY LenProperties, ElementOfSeq
<1>2. \A i \in 1 .. Len(s) : s[i].n \in Nat
  BY <1>1 DEF Event
<1>3. IsFiniteSet(DOMAIN s) /\ \A i \in DOMAIN s : size[i] \in Nat
  <2>1. IsFiniteSet(1 .. Len(s))
    BY <1>1, FS_Interval
  <2> QED
    BY <1>1, <1>2, <2>1
<1>4. Length(s) = SumOf(size, DOMAIN s)
  BY Zenon DEF Length, SumOf
<1>5. SumOf(size, DOMAIN s) \in Nat
  <2> HIDE DEF size
  <2> QED
    BY <1>3, SumOfNats
<1> QED
  BY <1>1, <1>2, <1>4, <1>5

\* No events, no text.
LEMMA LengthOfNone == Length(<<>>) = 0
<1> DEFINE size == [i \in DOMAIN <<>> |-> <<>>[i].n]
<1>1. Length(<<>>) = SumOf(size, DOMAIN <<>>)
  BY Zenon DEF Length, SumOf
<1>2. DOMAIN <<>> = {}
  OBVIOUS
<1> HIDE DEF size
<1> QED
  BY <1>1, <1>2, SumOfNone

\* The text of a concatenation is that of its parts.
LEMMA LengthOfConcat ==
  ASSUME NEW s \in Seq(Event), NEW t \in Seq(Event)
  PROVE  Length(s \o t) = Length(s) + Length(t)
<1> DEFINE a == Len(s)
           b == Len(t)
           f == [i \in DOMAIN (s \o t) |-> (s \o t)[i].n]
           g == [i \in DOMAIN s |-> s[i].n]
           h == [i \in DOMAIN t |-> t[i].n]
<1>1. /\ a \in Nat /\ b \in Nat /\ DOMAIN s = 1 .. a /\ DOMAIN t = 1 .. b
      /\ \A i \in 1 .. a : s[i].n \in Nat
      /\ \A i \in 1 .. b : t[i].n \in Nat
  BY LengthIsSum
<1>2. /\ s \o t \in Seq(Event) /\ Len(s \o t) = a + b
      /\ \A i \in 1 .. a + b : (s \o t)[i] = IF i <= a THEN s[i] ELSE t[i - a]
  BY ConcatProperties
<1>3. /\ DOMAIN (s \o t) = 1 .. (a + b)
      /\ Length(s \o t) = SumOf(f, 1 .. (a + b))
      /\ Length(s) = SumOf(g, 1 .. a) /\ Length(t) = SumOf(h, 1 .. b)
      /\ \A i \in 1 .. (a + b) : (s \o t)[i].n \in Nat
  BY <1>1, <1>2, LengthIsSum
<1>4. /\ \A i \in 1 .. (a + b) : f[i] \in Nat
      /\ \A i \in 1 .. a : g[i] \in Nat /\ f[i] = g[i]
  <2>1. \A i \in 1 .. a : i \in 1 .. (a + b) /\ i <= a
    BY <1>1
  <2> QED
    BY <1>1, <1>2, <1>3, <2>1
<1>5. \A i \in 1 .. b : h[i] \in Nat /\ f[a + i] = h[i]
  <2>1. \A i \in 1 .. b : a + i \in 1 .. (a + b) /\ ~(a + i <= a) /\ (a + i) - a = i
    BY <1>1
  <2> QED
    BY <1>1, <1>2, <1>3, <2>1
<1> HIDE DEF a, b, f, g, h
<1>n. a \in Nat /\ b \in Nat /\ a + b \in Nat
  BY <1>1
<1>6. /\ IsFiniteSet(1 .. (a + b)) /\ 1 .. a \in SUBSET (1 .. (a + b)) /\ IsFiniteSet(1 .. a)
      /\ (1 .. (a + b)) \ (1 .. a) = (a + 1) .. (a + b)
      /\ \A n \in Nat : n \in Int
  <2>1. IsFiniteSet(1 .. (a + b)) /\ IsFiniteSet(1 .. a)
    BY <1>n, FS_Interval
  <2>2. 1 .. a \in SUBSET (1 .. (a + b))
    BY <1>n
  <2>3. (1 .. (a + b)) \ (1 .. a) = (a + 1) .. (a + b)
    BY <1>n
  <2> QED
    BY <2>1, <2>2, <2>3
<1>7. SumOf(f, 1 .. (a + b)) = SumOf(f, 1 .. a) + SumOf(f, (a + 1) .. (a + b))
  <2>1. \A i \in 1 .. (a + b) : f[i] \in Int
    BY <1>4, <1>6
  <2>2. SumOf(f, 1 .. (a + b)) = SumOf(f, 1 .. a) + SumOf(f, (1 .. (a + b)) \ (1 .. a))
    BY <1>6, <2>1, SumSplit
  <2> QED
    BY <1>6, <2>2
<1>8. SumOf(g, 1 .. a) = SumOf(f, 1 .. a)
  <2>1. \A i \in 1 .. a : g[i] \in Int /\ f[i] = g[i]
    BY <1>4, <1>6
  <2> QED
    BY <1>6, <2>1, SumSame
<1>9. SumOf(f, (a + 1) .. (a + b)) = SumOf(h, 1 .. b)
  <2> DEFINE shift == [i \in 1 .. b |-> a + i]
  <2>1. \A i, j \in 1 .. b : shift[i] = shift[j] => i = j
    BY <1>n
  <2>2. \A i \in 1 .. b : h[i] \in Int /\ f[shift[i]] = h[i]
    BY <1>5, <1>6
  <2>3. /\ \A i \in 1 .. b : shift[i] \in (a + 1) .. (a + b)
        /\ \A k \in (a + 1) .. (a + b) : \E i \in 1 .. b : k = shift[i]
    <3>1. \A k \in (a + 1) .. (a + b) : k - a \in 1 .. b /\ k = a + (k - a)
      BY <1>n
    <3>2. \A i \in 1 .. b : a + i \in (a + 1) .. (a + b)
      BY <1>n
    <3> QED
      BY <3>1, <3>2
  <2>4. IsFiniteSet(1 .. b)
    BY <1>n, FS_Interval
  <2> DEFINE I == 1 .. b
  <2>5. /\ IsFiniteSet(I) /\ \A i, j \in I : shift[i] = shift[j] => i = j
        /\ \A i \in I : h[i] \in Int /\ f[shift[i]] = h[i]
    BY <2>1, <2>2, <2>4
  <2>6. ImageOf(shift, I) = (a + 1) .. (a + b)
    BY <2>3 DEF ImageOf
  <2> HIDE DEF shift, I
  <2>7. SumOf(f, ImageOf(shift, I)) = SumOf(h, I)
    BY <2>5, SumReindex
  <2> QED
    BY <2>6, <2>7 DEF I
<1> QED
  BY <1>3, <1>7, <1>8, <1>9

\* The text of one event.
LEMMA LengthOfOne ==
  ASSUME NEW e \in Event
  PROVE  <<e>> \in Seq(Event) /\ Length(<<e>>) = e.n
<1> DEFINE size == [i \in DOMAIN <<e>> |-> <<e>>[i].n]
<1>1. <<e>> \in Seq(Event) /\ DOMAIN <<e>> = {1} /\ <<e>>[1] = e
  OBVIOUS
<1>2. e.n \in Nat
  BY DEF Event
<1>3. Length(<<e>>) = SumOf(size, {1})
  BY <1>1, LengthIsSum
<1>4. size[1] = e.n
  BY <1>1
<1> HIDE DEF size
<1>5. IsFiniteSet({1}) /\ 1 \in {1} /\ {1} \ {1} = {}
  BY FS_Singleton
<1>6. \A i \in {1} : size[i] \in Int
  BY <1>2, <1>4
<1>7. SumOf(size, {1}) = size[1] + SumOf(size, {1} \ {1})
  BY <1>5, <1>6, SumRemove
<1>8. SumOf(size, {1} \ {1}) = 0
  BY <1>5, SumOfNone, Zenon
<1>9. Length(<<e>>) = e.n + 0
  BY <1>3, <1>4, <1>7, <1>8, Zenon
<1> QED
  BY <1>1, <1>2, <1>9

\* Events without text add nothing.
LEMMA LengthOfSilence ==
  ASSUME NEW s \in Seq(Event), \A i \in DOMAIN s : s[i].n = 0
  PROVE  Length(s) = 0
<1> DEFINE size == [i \in DOMAIN s |-> s[i].n]
<1>1. DOMAIN s = 1 .. Len(s) /\ Len(s) \in Nat /\ Length(s) = SumOf(size, DOMAIN s)
  BY LengthIsSum
<1>2. IsFiniteSet(DOMAIN s) /\ \A i \in DOMAIN s : size[i] = 0
  BY <1>1, FS_Interval
<1> HIDE DEF size
<1> QED
  BY <1>1, <1>2, SumOfZeros

\* A prefix and the rest.
LEMMA Cutting ==
  ASSUME NEW p \in Seq(Event), NEW n \in 0 .. Len(p)
  PROVE  LET c == SubSeq(p, 1, n)
             r == SubSeq(p, n + 1, Len(p))
         IN  /\ c \in Seq(Event) /\ r \in Seq(Event)
             /\ Len(c) = n /\ Len(r) = Len(p) - n
             /\ \A i \in 1 .. n : c[i] = p[i]
             /\ \A i \in 1 .. Len(p) - n : r[i] = p[n + i]
             /\ Length(p) = Length(c) + Length(r)
             /\ Length(c) \in Nat /\ Length(r) \in Nat /\ Length(c) <= Length(p)
<1> DEFINE m == Len(p)
           c == SubSeq(p, 1, n)
           r == SubSeq(p, n + 1, m)
<1>1. m \in Nat /\ n \in Nat /\ n <= m /\ \A i \in 1 .. m : p[i] \in Event
  BY LengthIsSum
<1>2. /\ c \in Seq(Event) /\ Len(c) = IF 1 <= n THEN n - 1 + 1 ELSE 0
      /\ \A i \in 1 .. n - 1 + 1 : c[i] = p[1 + i - 1]
  <2>1. 1 \in Int /\ n \in Int /\ \A i \in 1 .. n : p[i] \in Event
    BY <1>1
  <2> QED
    BY <2>1, SubSeqProperties
<1>3. /\ r \in Seq(Event) /\ Len(r) = IF n + 1 <= m THEN m - (n + 1) + 1 ELSE 0
      /\ \A i \in 1 .. m - (n + 1) + 1 : r[i] = p[n + 1 + i - 1]
  <2>1. n + 1 \in Int /\ m \in Int /\ \A i \in n + 1 .. m : p[i] \in Event
    BY <1>1
  <2> QED
    BY <2>1, SubSeqProperties
<1>4. /\ (IF 1 <= n THEN n - 1 + 1 ELSE 0) = n /\ n - 1 + 1 = n
      /\ (IF n + 1 <= m THEN m - (n + 1) + 1 ELSE 0) = m - n /\ m - (n + 1) + 1 = m - n
      /\ \A i \in 1 .. n : 1 + i - 1 = i
      /\ \A i \in 1 .. m - n : n + 1 + i - 1 = n + i
  BY <1>1
<1>5. c \o r = p
  <2>1. /\ c \o r \in Seq(Event) /\ Len(c \o r) = Len(c) + Len(r)
        /\ \A i \in 1 .. Len(c) + Len(r) :
             (c \o r)[i] = IF i <= Len(c) THEN c[i] ELSE r[i - Len(c)]
    BY <1>2, <1>3, ConcatProperties
  <2>2. /\ n + (m - n) = m
        /\ \A i \in 1 .. m : i <= n => i \in 1 .. n
        /\ \A i \in 1 .. m : ~(i <= n) => i - n \in 1 .. m - n /\ n + (i - n) = i
    BY <1>1
  <2>3. Len(c) = n /\ Len(r) = m - n
    BY <1>2, <1>3, <1>4
  <2>4. /\ \A i \in 1 .. n : c[i] = p[i]
        /\ \A i \in 1 .. m - n : r[i] = p[n + i]
    BY <1>2, <1>3, <1>4
  <2> HIDE DEF c, r, m
  <2>5. Len(c \o r) = m /\ \A i \in 1 .. m : (c \o r)[i] = p[i]
    <3>1. Len(c \o r) = m /\ \A i \in 1 .. m : (c \o r)[i] = IF i <= n THEN c[i] ELSE r[i - n]
      BY <2>1, <2>2, <2>3
    <3> QED
      BY <2>2, <2>4, <3>1
  <2> QED
    BY <2>1, <2>5, SeqEqual DEF m
<1>6. Length(p) = Length(c) + Length(r) /\ Length(c) \in Nat /\ Length(r) \in Nat
  BY <1>2, <1>3, <1>5, LengthOfConcat, LengthIsSum
<1>7. Length(c) <= Length(p)
  BY <1>6
<1> QED
  BY <1>2, <1>3, <1>4, <1>6, <1>7

-----------------------------------------------------------------------------
(* Steps.                                                                   *)

\* Nothing is sent, nothing is shown.
LEMMA StreamInvInit == StreamInit => StreamInv
<1> SUFFICES ASSUME StreamInit PROVE StreamInv
  OBVIOUS
<1> USE StreamAssumption
<1>1. StreamTypeOK
  <2>1. Turn = 1 .. Turns /\ Turns \in Nat /\ \A t \in Turn : MaxDeltas[t] \in Nat
    BY DEF Turn
  <2>2. /\ bubble \in [Turn -> [len: Nat, fin: {"none", "stop", "stopped", "error"},
                                settled: BOOLEAN]]
        /\ half \in [Turn -> BOOLEAN]
        /\ place \in [Turn -> {"none", "proxy", "admit", "stream", "settle", "close", "catch",
                               "done"}]
    BY DEF StreamInit, Pending
  <2>3. /\ turn \in 0 .. Turns /\ streaming \in BOOLEAN /\ abort \in 0 .. Turns
        /\ voice \in 0 .. MaxVoice /\ uploads \in 0 .. MaxVoice /\ backend \in Backends
    <3>1. /\ turn = 0 /\ streaming = FALSE /\ abort = 0 /\ voice = 0
          /\ uploads \in 0 .. MaxVoice /\ backend \in Backends
      BY DEF StreamInit
    <3>2. 0 \in 0 .. Turns /\ 0 \in 0 .. MaxVoice
      BY <2>1
    <3> QED
      BY <3>1, <3>2
  <2>6. \A i \in DOMAIN messages : messages[i] \in 0 .. Turns
    <3>1. messages = <<>>
      BY DEF StreamInit
    <3> QED
      BY <3>1
  <2>4. \A t \in Turn : produced[t] \in 0 .. MaxDeltas[t]
    BY <2>1 DEF StreamInit
  <2>5. /\ stopped \subseteq Turn /\ heard \subseteq Turn /\ noticed \subseteq Turn
        /\ charged \subseteq Turn /\ handed \subseteq Turn
    BY DEF StreamInit
  <2> QED
    BY <2>2, <2>3, <2>4, <2>5, <2>6 DEF StreamTypeOK
<1>2. produced \in [Turn -> Nat] /\ pipe \in [Turn -> Seq(Event)]
  BY DEF StreamInit
<1>3. ConsoleInv
  BY DEF StreamInit, ConsoleInv, TurnKept, Turn
<1>4. ASSUME NEW t \in Turn PROVE TurnInv(t)
  <2>1. pipe[t] = <<>> /\ Length(pipe[t]) = 0 /\ produced[t] = 0 /\ bubble[t] = Pending
    BY LengthOfNone DEF StreamInit
  <2>2. PipeInv(t)
    BY <2>1 DEF PipeInv
  <2> QED
    BY <2>1, <2>2 DEF StreamInit, TurnInv, HandlerInv, BubbleInv, FutureInv, Sent, Pending
<1> QED
  BY <1>1, <1>2, <1>3, <1>4 DEF StreamInv, StreamShape

\* A step that leaves a turn alone keeps what is true of it.
LEMMA SameTurn ==
  ASSUME NEW u \in Turn, TurnInv(u), backend' = backend, turn' = turn,
         pipe'[u] = pipe[u], place'[u] = place[u], bubble'[u] = bubble[u],
         produced'[u] = produced[u], u \in stopped => u \in stopped',
         u \in stopped' => u \in stopped \/ u <= turn,
         u \in charged' <=> u \in charged, u \in handed' <=> u \in handed,
         turn \in Int
  PROVE  TurnInv(u)'
<1>1. PipeInv(u)'
  BY DEF TurnInv, PipeInv
<1>2. HandlerInv(u)'
  BY DEF TurnInv, HandlerInv
<1>3. FutureInv(u)'
  BY DEF TurnInv, FutureInv, Turn, Pending
<1>4. BubbleInv(u)'
  BY DEF TurnInv, BubbleInv, Sent
<1> QED
  BY <1>1, <1>2, <1>3, <1>4 DEF TurnInv

\* What writing to the browser does to the pipe.
LEMMA Writing ==
  ASSUME StreamShape, NEW t \in Turn, NEW evs \in Seq(Event), Writes(t, evs)
  PROVE  /\ pipe' \in [Turn -> Seq(Event)]
         /\ \A u \in Turn \ {t} : pipe'[u] = pipe[u]
         /\ bubble[t].settled \/ t \in stopped => pipe'[t] = pipe[t]
         /\ ~bubble[t].settled /\ t \notin stopped =>
              pipe'[t] = pipe[t] \o evs /\ Length(pipe'[t]) = Length(pipe[t]) + Length(evs)
         /\ pipe[t] \in Seq(Event) /\ Length(pipe[t]) \in Nat
<1>1. pipe \in [Turn -> Seq(Event)] /\ pipe[t] \in Seq(Event)
  BY DEF StreamShape
<1>2. pipe[t] \o evs \in Seq(Event) /\ Length(pipe[t] \o evs) = Length(pipe[t]) + Length(evs)
  BY <1>1, ConcatProperties, LengthOfConcat
<1>3. Length(pipe[t]) \in Nat
  BY <1>1, LengthIsSum
<1> QED
  BY <1>1, <1>2, <1>3 DEF Writes

\* The events a handler writes at one place, after which it is at another.
WellFormed(evs, p, settled) ==
  /\ \A i \in DOMAIN evs : EndsTurn(evs[i]) =>
       p = "done" /\ \A j \in DOMAIN evs : j > i => evs[j].n = 0
  /\ \A i \in DOMAIN evs : evs[i].kind = "done" =>
       settled \/ \E j \in DOMAIN evs : j < i /\ evs[j].kind = "error"

\* Writing well-formed events keeps what is true of the pipe.
LEMMA WritingKeepsPipe ==
  ASSUME StreamShape, NEW t \in Turn, TurnInv(t), place[t] # "done",
         NEW evs \in Seq(Event), Writes(t, evs),
         WellFormed(evs, place'[t], t \in charged), charged' = charged
  PROVE  PipeInv(t)'
<1> DEFINE p == pipe[t]
           q == pipe'[t]
<1>1. p \in Seq(Event) /\ (q = p \/ q = p \o evs)
  BY Writing
<1>2. \A i \in DOMAIN p : ~EndsTurn(p[i])
  BY DEF TurnInv, PipeInv
<1>3. CASE q = p
  BY <1>2, <1>3 DEF PipeInv, EndsTurn
<1>4. CASE q = p \o evs
  <2> DEFINE m == Len(p)
             k == Len(evs)
  <2>1. /\ m \in Nat /\ k \in Nat /\ DOMAIN p = 1 .. m /\ DOMAIN evs = 1 .. k
    BY <1>1, LengthIsSum
  <2>2. /\ q \in Seq(Event) /\ Len(q) = m + k
        /\ \A i \in 1 .. m + k : q[i] = IF i <= m THEN p[i] ELSE evs[i - m]
    BY <1>1, <1>4, ConcatProperties
  <2>3. DOMAIN q = 1 .. m + k
    BY <2>2, LengthIsSum
  <2> HIDE DEF p, q, m, k
  <2>4. \A i \in DOMAIN q : /\ i <= m => i \in DOMAIN p /\ q[i] = p[i]
                            /\ i > m => i - m \in DOMAIN evs /\ q[i] = evs[i - m]
    BY <2>1, <2>2, <2>3
  <2>5. ASSUME NEW i \in DOMAIN q, EndsTurn(q[i])
        PROVE  /\ i > m /\ place'[t] = "done"
               /\ \A j \in DOMAIN q : j > i => q[j].n = 0
    <3>1. i > m /\ i - m \in DOMAIN evs /\ EndsTurn(evs[i - m])
      BY <1>2, <2>1, <2>3, <2>4, <2>5 DEF EndsTurn
    <3>2. \A j \in DOMAIN evs : j > i - m => evs[j].n = 0
      BY <3>1 DEF WellFormed
    <3>3. \A j \in DOMAIN q : j > i => j > m /\ j - m > i - m
      BY <2>1, <2>3, <3>1
    <3> QED
      BY <2>4, <3>1, <3>2, <3>3 DEF WellFormed
  <2>6. ASSUME NEW i \in DOMAIN q, q[i].kind = "done", t \notin charged
        PROVE  \E j \in DOMAIN q : j < i /\ q[j].kind = "error"
    <3>1. EndsTurn(q[i])
      BY <2>6 DEF EndsTurn
    <3>2. i > m /\ i - m \in DOMAIN evs /\ evs[i - m].kind = "done"
      BY <2>4, <2>5, <2>6, <3>1
    <3>3. PICK j \in DOMAIN evs : j < i - m /\ evs[j].kind = "error"
      BY <2>6, <3>2 DEF WellFormed
    <3>4. j + m \in DOMAIN q /\ j + m < i /\ j + m > m /\ (j + m) - m = j
      BY <2>1, <2>3, <3>2, <3>3
    <3>5. q[j + m] = evs[j]
      BY <2>4, <3>4
    <3> QED
      BY <3>3, <3>4, <3>5
  <2> QED
    BY <2>5, <2>6 DEF PipeInv, q, EndsTurn
<1> QED
  BY <1>1, <1>3, <1>4

-----------------------------------------------------------------------------
(* The handler. Its steps leave the browser alone.                          *)

\* A step of the handler of t that writes evs and changes place, produced, handed
\* and charged of t at most.
HandlerStep(t) ==
  /\ backend' = backend /\ browser' = browser
  /\ \A u \in Turn \ {t} :
       /\ pipe'[u] = pipe[u] /\ place'[u] = place[u] /\ produced'[u] = produced[u]
       /\ u \in charged' <=> u \in charged
       /\ u \in handed' <=> u \in handed

\* A step of the handler of t keeps the invariant when it keeps what is said of t.
LEMMA HandlerKeeps ==
  ASSUME StreamInv, NEW t \in Turn, HandlerStep(t), place[t] # "none",
         StreamShape', PipeInv(t)', HandlerInv(t)', BubbleInv(t)'
  PROVE  StreamInv'
<1> USE DEF HandlerStep, browser
<1>1. ConsoleInv'
  BY DEF StreamInv, ConsoleInv, TurnKept
<1>2. turn \in Int /\ t \in Int
  BY StreamAssumption DEF StreamInv, StreamShape, StreamTypeOK, Turn
<1>3. ASSUME NEW u \in Turn \ {t} PROVE TurnInv(u)'
  <2>1. TurnInv(u)
    BY DEF StreamInv
  <2> QED
    BY <1>2, <2>1, SameTurn
<1>4. FutureInv(t)'
  BY DEF StreamInv, TurnInv, FutureInv
<1>5. TurnInv(t)'
  BY <1>4 DEF TurnInv
<1> QED
  BY <1>1, <1>3, <1>5 DEF StreamInv

\* The single events.
LEMMA Events ==
  /\ Finish \in Event /\ DoneEvent \in Event /\ ErrorEvent \in Event /\ Refusal \in Event
  /\ \A n \in Nat : Delta(n) \in Event /\ Delta(n).n = n /\ ~EndsTurn(Delta(n))
  /\ Finish.n = 0 /\ DoneEvent.n = 0 /\ ErrorEvent.n = 0 /\ Refusal.n = 0
  /\ ~EndsTurn(Finish)
  /\ \A n \in Nat : Delta(n).kind # "done"
  /\ Finish.kind # "done" /\ Refusal.kind # "done" /\ ErrorEvent.kind = "error"
  BY DEF Finish, DoneEvent, ErrorEvent, Refusal, Delta, Event, Kinds, EndsTurn

\* Writing one event.
LEMMA OneWellFormed ==
  ASSUME NEW e \in Event, NEW p, NEW settled \in BOOLEAN,
         EndsTurn(e) => p = "done", e.kind = "done" => settled
  PROVE  <<e>> \in Seq(Event) /\ Length(<<e>>) = e.n /\ WellFormed(<<e>>, p, settled)
<1>1. DOMAIN <<e>> = {1} /\ <<e>>[1] = e
  OBVIOUS
<1> QED
  BY <1>1, LengthOfOne DEF WellFormed

\* What is shown is kept by a handler that writes as much text as it produces.
LEMMA BubbleKept ==
  ASSUME StreamInv, NEW t \in Turn, browser' = browser, place[t] # "done",
         NEW evs \in Seq(Event), Writes(t, evs), produced'[t] \in Nat,
         produced[t] <= produced'[t], Sent(t)' = Sent(t) + Length(evs)
  PROVE  BubbleInv(t)'
<1>1. /\ bubble' = bubble /\ stopped' = stopped
      /\ bubble[t].len \in Nat /\ produced[t] \in Nat
  BY DEF browser, StreamInv, StreamShape, StreamTypeOK
<1>2. BubbleInv(t) /\ StreamShape
  BY DEF StreamInv, TurnInv
<1>3. /\ bubble[t].settled \/ t \in stopped => pipe'[t] = pipe[t]
      /\ ~bubble[t].settled /\ t \notin stopped => Length(pipe'[t]) = Length(pipe[t]) + Length(evs)
      /\ Length(pipe[t]) \in Nat /\ Length(evs) \in Nat
  BY <1>2, Writing, LengthIsSum
<1>4. bubble[t].len <= produced'[t]
  BY <1>1, <1>2 DEF BubbleInv
<1>5. bubble[t].settled => bubble[t].fin # "stop"
  BY <1>2 DEF BubbleInv
<1>6. ~bubble[t].settled /\ t \notin stopped => bubble[t].len + Length(pipe'[t]) = Sent(t)'
  <2>1. ASSUME ~bubble[t].settled, t \notin stopped
        PROVE  bubble[t].len + Length(pipe'[t]) = Sent(t)'
    <3>1. bubble[t].len + Length(pipe[t]) = Sent(t)
      BY <1>2, <2>1 DEF BubbleInv
    <3>2. Length(pipe'[t]) = Length(pipe[t]) + Length(evs)
      BY <1>3, <2>1
    <3> QED
      BY <1>1, <1>3, <3>1, <3>2
  <2> QED
    BY <2>1
<1> QED
  BY <1>1, <1>2, <1>3, <1>4, <1>5, <1>6 DEF BubbleInv

Places == {"none", "proxy", "admit", "stream", "settle", "close", "catch", "done"}

\* A step of the handler that writes evs without producing.
LEMMA PlainWrite ==
  ASSUME StreamInv, NEW t \in Turn, NEW p \in Places, Goes(t, p), place[t] \notin {"none", "done"},
         NEW evs \in Seq(Event), Writes(t, evs), WellFormed(evs, p, t \in charged),
         Length(evs) = 0, UNCHANGED <<backend, browser, heard, noticed, produced, handed, charged>>,
         p \in {"stream", "admit"} => place[t] \in {"proxy", "admit"},
         p \notin {"none", "proxy", "settle", "close"}
  PROVE  StreamInv'
<1>1. StreamShape /\ TurnInv(t) /\ place \in [Turn -> Places]
  BY DEF StreamInv, StreamShape, StreamTypeOK, Places
<1>2. place' \in [Turn -> Places] /\ place'[t] = p /\ \A u \in Turn \ {t} : place'[u] = place[u]
  BY <1>1 DEF Goes
<1>3. pipe' \in [Turn -> Seq(Event)] /\ \A u \in Turn \ {t} : pipe'[u] = pipe[u]
  BY <1>1, Writing
<1>4. StreamShape'
  BY <1>1, <1>2, <1>3 DEF StreamShape, StreamTypeOK, browser, Places
<1>5. HandlerStep(t)
  BY <1>2, <1>3 DEF HandlerStep
<1>6. PipeInv(t)'
  BY <1>1, <1>2, WritingKeepsPipe
<1>7. HandlerInv(t)'
  BY <1>1, <1>2 DEF HandlerInv, TurnInv
<1>8. BubbleInv(t)'
  <2>1. produced[t] \in Nat /\ produced'[t] \in Nat /\ produced[t] <= produced'[t]
    BY <1>1 DEF StreamShape
  <2>2. Sent(t)' = Sent(t) + Length(evs)
    BY <2>1 DEF Sent
  <2>3. browser' = browser
    OBVIOUS
  <2> QED
    BY <2>1, <2>2, <2>3, BubbleKept
<1> QED
  BY <1>4, <1>5, <1>6, <1>7, <1>8, HandlerKeeps

\* A step of the handler that only goes on.
LEMMA PlainGo ==
  ASSUME StreamInv, NEW t \in Turn, NEW p \in Places, Goes(t, p), place[t] \notin {"none", "done"},
         UNCHANGED <<backend, browser, heard, noticed, produced, handed, charged, pipe>>,
         p \in {"stream", "admit"} => place[t] \in {"proxy", "admit"},
         p \notin {"none", "proxy", "settle", "close"}
  PROVE  StreamInv'
<1>1. StreamShape /\ TurnInv(t) /\ place \in [Turn -> Places]
  BY DEF StreamInv, StreamShape, StreamTypeOK, Places
<1>2. place' \in [Turn -> Places] /\ place'[t] = p /\ \A u \in Turn \ {t} : place'[u] = place[u]
  BY <1>1 DEF Goes
<1>4. StreamShape'
  BY <1>1, <1>2 DEF StreamShape, StreamTypeOK, browser, Places
<1>5. HandlerStep(t)
  BY <1>2 DEF HandlerStep
<1>6. PipeInv(t)'
  BY <1>1, <1>2 DEF TurnInv, PipeInv
<1>7. HandlerInv(t)'
  BY <1>1, <1>2 DEF HandlerInv, TurnInv
<1>8. BubbleInv(t)'
  BY <1>1 DEF TurnInv, BubbleInv, Sent, browser
<1> QED
  BY <1>4, <1>5, <1>6, <1>7, <1>8, HandlerKeeps

\* The proxy passes the turn on or refuses it.
LEMMA ProxyKeeps == ASSUME StreamInv, NEW t \in Turn, Proxy(t) PROVE StreamInv'
<1>1. PICK p \in {"admit", "done"} :
        Goes(t, p) /\ IF p = "done" THEN Writes(t, <<Refusal>>) ELSE UNCHANGED pipe
  BY DEF Proxy
<1>2. /\ p \in Places /\ place[t] = "proxy"
      /\ UNCHANGED <<backend, browser, heard, noticed, produced, handed, charged>>
  BY DEF Proxy, At, Places
<1>3. CASE p = "done"
  <2>1. <<Refusal>> \in Seq(Event) /\ Length(<<Refusal>>) = 0
        /\ WellFormed(<<Refusal>>, p, t \in charged)
    <3>1. Refusal \in Event /\ Refusal.n = 0 /\ Refusal.kind # "done"
      BY Events
    <3>2. <<Refusal>> \in Seq(Event) /\ Length(<<Refusal>>) = 0
      BY <3>1, LengthOfOne
    <3>3. DOMAIN <<Refusal>> = {1} /\ <<Refusal>>[1] = Refusal
      OBVIOUS
    <3> QED
      BY <1>3, <3>1, <3>2, <3>3 DEF WellFormed
  <2> QED
    BY <1>1, <1>2, <1>3, <2>1, PlainWrite
<1>4. CASE p = "admit"
  BY <1>1, <1>2, <1>4, PlainGo
<1> QED
  BY <1>1, <1>3, <1>4

\* The gateway admits the turn or refuses it.
LEMMA AdmitKeeps == ASSUME StreamInv, NEW t \in Turn, Admit(t) PROVE StreamInv'
<1>1. PICK p \in {"stream", "done"} :
        Goes(t, p) /\ Writes(t, IF p = "done" THEN <<Refusal>> ELSE <<Delta(0)>>)
  BY DEF Admit
<1>2. /\ p \in Places /\ place[t] = "admit"
      /\ UNCHANGED <<backend, browser, heard, noticed, produced, handed, charged>>
  BY DEF Admit, At, Places
<1>3. CASE p = "done"
  <2>1. <<Refusal>> \in Seq(Event) /\ Length(<<Refusal>>) = 0
        /\ WellFormed(<<Refusal>>, p, t \in charged)
    <3>1. Refusal \in Event /\ Refusal.n = 0 /\ Refusal.kind # "done"
      BY Events
    <3>2. <<Refusal>> \in Seq(Event) /\ Length(<<Refusal>>) = 0
      BY <3>1, LengthOfOne
    <3>3. DOMAIN <<Refusal>> = {1} /\ <<Refusal>>[1] = Refusal
      OBVIOUS
    <3> QED
      BY <1>3, <3>1, <3>2, <3>3 DEF WellFormed
  <2> QED
    BY <1>1, <1>2, <1>3, <2>1, PlainWrite
<1>4. CASE p = "stream"
  <2>1. <<Delta(0)>> \in Seq(Event) /\ Length(<<Delta(0)>>) = 0
        /\ WellFormed(<<Delta(0)>>, p, t \in charged)
    <3>1. Delta(0) \in Event /\ Delta(0).n = 0 /\ ~EndsTurn(Delta(0)) /\ Delta(0).kind # "done"
      BY Events
    <3>2. <<Delta(0)>> \in Seq(Event) /\ Length(<<Delta(0)>>) = 0
      BY <3>1, LengthOfOne
    <3>3. DOMAIN <<Delta(0)>> = {1} /\ <<Delta(0)>>[1] = Delta(0)
      OBVIOUS
    <3> QED
      BY <3>1, <3>2, <3>3 DEF WellFormed
  <2> QED
    BY <1>1, <1>2, <1>4, <2>1, PlainWrite
<1> QED
  BY <1>1, <1>3, <1>4

\* [DONE] is written for a settled turn.
LEMMA CloseKeeps == ASSUME StreamInv, NEW t \in Turn, Close(t) PROVE StreamInv'
<1>1. /\ place[t] = "close" /\ Goes(t, "done") /\ Writes(t, <<DoneEvent>>)
      /\ UNCHANGED <<backend, browser, heard, noticed, produced, handed, charged>>
  BY DEF Close, At
<1>2. t \in charged /\ "done" \in Places
  BY <1>1 DEF StreamInv, TurnInv, HandlerInv, Places
<1>3. <<DoneEvent>> \in Seq(Event) /\ Length(<<DoneEvent>>) = 0
      /\ WellFormed(<<DoneEvent>>, "done", t \in charged)
  BY <1>2, Events, OneWellFormed
<1> QED
  BY <1>1, <1>2, <1>3, PlainWrite

\* The error path writes an error and [DONE].
LEMMA CatchKeeps == ASSUME StreamInv, NEW t \in Turn, Catch(t) PROVE StreamInv'
<1> DEFINE evs == <<ErrorEvent, DoneEvent>>
<1>1. /\ place[t] = "catch" /\ Goes(t, "done") /\ Writes(t, evs)
      /\ UNCHANGED <<backend, browser, heard, noticed, produced, handed, charged>>
  BY DEF Catch, At
<1>2. "done" \in Places
  BY DEF Places
<1>3. evs \in Seq(Event) /\ DOMAIN evs = {1, 2} /\ evs[1] = ErrorEvent /\ evs[2] = DoneEvent
  BY Events
<1>4. Length(evs) = 0
  BY <1>3, Events, LengthOfSilence
<1>5. WellFormed(evs, "done", t \in charged)
  BY <1>3, Events DEF WellFormed
<1> QED
  BY <1>1, <1>2, <1>3, <1>4, <1>5, PlainWrite

\* The ways into the error path.
LEMMA FailuresKeep ==
  ASSUME StreamInv, NEW t \in Turn,
         EngineFails(t) \/ Aborted(t) \/ Deadline(t) \/ CloseFails(t)
  PROVE  StreamInv'
<1>1. /\ place[t] \in {"stream", "close"} /\ Goes(t, "catch") /\ "catch" \in Places
      /\ UNCHANGED <<backend, browser, heard, noticed, produced, handed, charged, pipe>>
  BY DEF EngineFails, Aborted, Deadline, CloseFails, At, Places
<1> QED
  BY <1>1, PlainGo


\* A delta is written at once or accumulated.
LEMMA EngineDeltaKeeps == ASSUME StreamInv, NEW t \in Turn, EngineDelta(t) PROVE StreamInv'
<1>1. /\ place[t] = "stream" /\ produced[t] < MaxDeltas[t]
      /\ produced' = [produced EXCEPT ![t] = @ + 1]
      /\ UNCHANGED <<backend, browser, place, heard, noticed, handed, charged>>
      /\ backend = "llama" => Writes(t, <<Delta(1)>>)
      /\ backend # "llama" => pipe' = pipe
  BY DEF EngineDelta, At
<1>2. StreamShape /\ TurnInv(t) /\ produced \in [Turn -> Nat]
  BY DEF StreamInv, StreamShape
<1>3. /\ produced' \in [Turn -> Nat] /\ produced'[t] = produced[t] + 1 /\ produced[t] \in Nat
      /\ \A u \in Turn \ {t} : produced'[u] = produced[u]
  BY <1>1, <1>2
<1>4. \A u \in Turn : produced'[u] \in 0 .. MaxDeltas[u]
  <2>1. produced[t] + 1 \in 0 .. MaxDeltas[t]
    BY <1>1, <1>3, StreamAssumption DEF Turn
  <2>2. \A u \in Turn : produced[u] \in 0 .. MaxDeltas[u]
    BY <1>2 DEF StreamShape, StreamTypeOK
  <2> QED
    BY <1>3, <2>1, <2>2
<1>5. Delta(1) \in Event /\ Delta(1).n = 1 /\ ~EndsTurn(Delta(1)) /\ Delta(1).kind # "done"
  BY Events
<1>6. <<Delta(1)>> \in Seq(Event) /\ Length(<<Delta(1)>>) = 1
  BY <1>5, LengthOfOne
<1>7. pipe' \in [Turn -> Seq(Event)] /\ \A u \in Turn \ {t} : pipe'[u] = pipe[u]
  BY <1>1, <1>2, <1>6, Writing DEF StreamShape
<1>8. StreamShape'
  BY <1>1, <1>2, <1>3, <1>4, <1>7 DEF StreamShape, StreamTypeOK, browser
<1>9. HandlerStep(t)
  BY <1>1, <1>3, <1>7 DEF HandlerStep
<1>10. PipeInv(t)'
  <2>1. CASE backend = "llama"
    <3>1. DOMAIN <<Delta(1)>> = {1} /\ <<Delta(1)>>[1] = Delta(1)
      OBVIOUS
    <3>2. WellFormed(<<Delta(1)>>, place'[t], t \in charged)
      BY <1>5, <3>1 DEF WellFormed
    <3> QED
      BY <1>1, <1>2, <1>6, <2>1, <3>2, WritingKeepsPipe
  <2>2. CASE backend # "llama"
    BY <1>1, <1>2, <2>2 DEF TurnInv, PipeInv
  <2> QED
    BY <2>1, <2>2
<1>11. HandlerInv(t)'
  BY <1>1, <1>2 DEF HandlerInv, TurnInv
<1>12. BubbleInv(t)'
  <2>1. produced'[t] \in Nat /\ produced[t] <= produced'[t] /\ browser' = browser
    BY <1>1, <1>3
  <2>2. CASE backend = "llama"
    <3>1. Sent(t)' = Sent(t) + Length(<<Delta(1)>>)
      BY <1>1, <1>3, <1>6, <2>2 DEF Sent
    <3> QED
      BY <1>1, <1>6, <2>1, <2>2, <3>1, BubbleKept
  <2>3. CASE backend # "llama"
    <3>1. t \notin handed
      BY <1>1, <1>2 DEF TurnInv, HandlerInv
    <3>2. Sent(t)' = Sent(t)
      BY <1>1, <2>3, <3>1 DEF Sent
    <3>3. bubble[t].len \in Nat /\ bubble' = bubble /\ stopped' = stopped /\ pipe' = pipe
          /\ place' = place
      BY <1>1, <1>2, <2>3 DEF StreamShape, StreamTypeOK, browser
    <3>4. BubbleInv(t)
      BY <1>2 DEF TurnInv
    <3>5. bubble[t].len <= produced'[t]
      BY <1>3, <3>3, <3>4 DEF BubbleInv
    <3> QED
      BY <1>1, <3>2, <3>3, <3>4, <3>5 DEF BubbleInv
  <2> QED
    BY <2>2, <2>3
<1> QED
  BY <1>1, <1>8, <1>9, <1>10, <1>11, <1>12, HandlerKeeps

\* The end of the answer brings what a remote provider accumulated.
LEMMA EngineFinalKeeps == ASSUME StreamInv, NEW t \in Turn, EngineFinal(t) PROVE StreamInv'
<1> DEFINE evs == Assembled(t) \o <<Finish>>
<1>1. /\ place[t] = "stream" /\ handed' = handed \union {t} /\ Writes(t, evs)
      /\ Goes(t, "settle")
      /\ UNCHANGED <<backend, browser, heard, noticed, produced, charged>>
  BY DEF EngineFinal, At
<1>2. StreamShape /\ TurnInv(t) /\ produced \in [Turn -> Nat] /\ produced[t] \in Nat
      /\ place \in [Turn -> Places]
  BY DEF StreamInv, StreamShape, StreamTypeOK, Places
<1>3. /\ place' \in [Turn -> Places] /\ place'[t] = "settle"
      /\ \A u \in Turn \ {t} : place'[u] = place[u]
  BY <1>1, <1>2 DEF Goes, Places
<1>4. t \notin handed
  BY <1>1, <1>2 DEF TurnInv, HandlerInv
<1> DEFINE d == Delta(produced[t])
<1>5. /\ d \in Event /\ d.n = produced[t] /\ ~EndsTurn(d) /\ d.kind # "done"
      /\ Finish \in Event /\ Finish.n = 0 /\ ~EndsTurn(Finish) /\ Finish.kind # "done"
  BY <1>2, Events
<1> HIDE DEF d
<1>6. /\ <<Finish>> \in Seq(Event) /\ Length(<<Finish>>) = 0
      /\ <<d>> \in Seq(Event) /\ Length(<<d>>) = produced[t]
      /\ <<>> \in Seq(Event) /\ Length(<<>>) = 0
  BY <1>5, LengthOfOne, LengthOfNone
<1>7. /\ Assembled(t) = IF backend = "remote" THEN <<d>> ELSE <<>>
      /\ Assembled(t) \in Seq(Event)
  BY <1>6 DEF Assembled, d
<1>8. /\ evs \in Seq(Event) /\ Length(evs) = Length(Assembled(t)) + 0
      /\ \A i \in DOMAIN evs : evs[i] = d \/ evs[i] = Finish
  <2>1. evs \in Seq(Event) /\ Length(evs) = Length(Assembled(t)) + 0
    BY <1>6, <1>7, ConcatProperties, LengthOfConcat
  <2>2. \A i \in DOMAIN evs : evs[i] = d \/ evs[i] = Finish
    <3>1. CASE backend = "remote"
      BY <1>7, <3>1
    <3>2. CASE backend # "remote"
      BY <1>7, <3>2
    <3> QED
      BY <3>1, <3>2
  <2> QED
    BY <2>1, <2>2
<1> HIDE DEF evs
<1>9. WellFormed(evs, place'[t], t \in charged)
  BY <1>5, <1>8 DEF WellFormed
<1>10. pipe' \in [Turn -> Seq(Event)] /\ \A u \in Turn \ {t} : pipe'[u] = pipe[u]
  BY <1>1, <1>2, <1>8, Writing
<1>11. StreamShape'
  BY <1>1, <1>2, <1>3, <1>10 DEF StreamShape, StreamTypeOK, browser, Places
<1>12. HandlerStep(t)
  BY <1>1, <1>3, <1>10 DEF HandlerStep
<1>13. PipeInv(t)'
  BY <1>1, <1>2, <1>8, <1>9, WritingKeepsPipe
<1>14. HandlerInv(t)'
  BY <1>1, <1>2, <1>3 DEF HandlerInv, TurnInv
<1>15. BubbleInv(t)'
  <2>1. produced'[t] \in Nat /\ produced[t] <= produced'[t] /\ browser' = browser
    BY <1>1, <1>2
  <2>2. Sent(t)' = produced[t]
    BY <1>1 DEF Sent
  <2>3. backend \in {"llama", "remote"}
    BY <1>2 DEF StreamShape, StreamTypeOK, Backends
  <2>4. Sent(t) = IF backend = "remote" THEN 0 ELSE produced[t]
    BY <1>4, <2>3 DEF Sent
  <2>5. Length(evs) = IF backend = "remote" THEN produced[t] ELSE 0
    BY <1>2, <1>6, <1>7, <1>8
  <2>6. Sent(t)' = Sent(t) + Length(evs)
    BY <1>2, <2>2, <2>4, <2>5
  <2> QED
    BY <1>1, <1>8, <2>1, <2>6, BubbleKept
<1> QED
  BY <1>1, <1>11, <1>12, <1>13, <1>14, <1>15, HandlerKeeps

\* Settling succeeds or throws.
LEMMA SettleKeeps == ASSUME StreamInv, NEW t \in Turn, Settle(t) PROVE StreamInv'
<1>1. PICK ok \in BOOLEAN : /\ charged' = IF ok THEN charged \union {t} ELSE charged
                            /\ Goes(t, IF ok THEN "close" ELSE "catch")
  BY DEF Settle
<1>2. /\ place[t] = "settle" /\ pipe' = pipe
      /\ UNCHANGED <<backend, browser, heard, noticed, produced, handed>>
  BY DEF Settle, At
<1>3. StreamShape /\ TurnInv(t) /\ place \in [Turn -> Places]
  BY DEF StreamInv, StreamShape, StreamTypeOK, Places
<1>4. /\ place' \in [Turn -> Places] /\ place'[t] = IF ok THEN "close" ELSE "catch"
      /\ \A u \in Turn \ {t} : place'[u] = place[u]
  BY <1>1, <1>3 DEF Goes, Places
<1>5. StreamShape'
  BY <1>1, <1>2, <1>3, <1>4 DEF StreamShape, StreamTypeOK, browser, Places
<1>6. HandlerStep(t)
  BY <1>1, <1>2, <1>4 DEF HandlerStep
<1>7. PipeInv(t)'
  BY <1>1, <1>2, <1>3 DEF TurnInv, PipeInv, EndsTurn
<1>8. HandlerInv(t)'
  BY <1>1, <1>2, <1>3, <1>4 DEF TurnInv, HandlerInv
<1>9. BubbleInv(t)'
  BY <1>1, <1>2, <1>3 DEF TurnInv, BubbleInv, Sent, browser
<1> QED
  BY <1>2, <1>5, <1>6, <1>7, <1>8, <1>9, HandlerKeeps

\* The close of the connection is heard or lost.
LEMMA CloseArrivesKeeps == ASSUME StreamInv, NEW t \in Turn, CloseArrives(t) PROVE StreamInv'
<1>1. /\ noticed' = noticed \union {t} /\ heard' \in {heard, heard \union {t}}
      /\ UNCHANGED <<backend, browser, place, produced, handed, charged, pipe>>
  BY DEF CloseArrives
<1>2. StreamShape'
  BY <1>1 DEF StreamInv, StreamShape, StreamTypeOK, browser
<1>3. ConsoleInv'
  BY <1>1 DEF StreamInv, ConsoleInv, TurnKept, browser
<1>4. turn \in Int
  BY StreamAssumption DEF StreamInv, StreamShape, StreamTypeOK
<1>5. ASSUME NEW u \in Turn PROVE TurnInv(u)'
  <2>1. TurnInv(u)
    BY DEF StreamInv
  <2> QED
    BY <1>1, <1>4, <2>1, SameTurn DEF browser
<1> QED
  BY <1>2, <1>3, <1>5 DEF StreamInv


-----------------------------------------------------------------------------
(* The browser.                                                             *)

Bubble == [len: Nat, fin: {"none", "stop", "stopped", "error"}, settled: BOOLEAN]

\* The answer a after a read of the first n events of p, those in c, into b.
Absorbed(a, b, p, n, c) ==
  /\ a \in Bubble
  /\ ~a.settled => /\ a.len = b.len + Length(c)
                   /\ \A i \in 1 .. n : ~EndsTurn(p[i])
  /\ a.settled => \E k \in 1 .. n :
       /\ EndsTurn(p[k]) /\ a.len = b.len + Length(SubSeq(p, 1, k))
       /\ a.fin # "error" => \A j \in 1 .. k : p[j].kind # "error" /\ p[j].kind # "refusal"

\* What a read makes of the events it completes: everything up to the first that
\* ends the turn, and an error among them is kept.
LEMMA Absorbing ==
  ASSUME NEW p \in Seq(Event), NEW n \in 0 .. Len(p), NEW b \in Bubble, NEW c,
         c = SubSeq(p, 1, n), NEW a, a = Absorb(b, c)
  PROVE  Absorbed(a, b, p, n, c)
<1> USE DEF Absorbed
<1>1. /\ c \in Seq(Event) /\ Len(c) = n /\ n \in Nat /\ Len(p) \in Nat /\ n <= Len(p)
      /\ \A i \in 1 .. n : c[i] = p[i]
      /\ Length(c) \in Nat /\ DOMAIN c = 1 .. n
  BY Cutting, LengthIsSum
<1> DEFINE used == Upto(c)
           fin == IF Has(used, "error") \/ Has(used, "refusal") THEN "error"
                  ELSE IF Has(used, "finish") THEN "stop" ELSE b.fin
           over == \E i \in DOMAIN used : EndsTurn(used[i])
<1>2. a = [len |-> b.len + Length(used), fin |-> fin, settled |-> over]
  BY DEF Absorb
<1>3. b.len \in Nat /\ fin \in {"none", "stop", "stopped", "error"} /\ over \in BOOLEAN
  BY DEF Bubble
<1>4. /\ a.len = b.len + Length(used) /\ a.settled = over
      /\ Length(used) \in Nat => a \in Bubble
      /\ a.fin # "error" => ~Has(used, "error") /\ ~Has(used, "refusal")
  <2> HIDE DEF used, over
  <2>1. /\ a.len = b.len + Length(used) /\ a.settled = over /\ a.fin = fin
    BY <1>2
  <2>2. Length(used) \in Nat => b.len + Length(used) \in Nat
    BY <1>3
  <2> QED
    BY <1>2, <1>3, <2>1, <2>2 DEF Bubble
<1>5. CASE \A i \in DOMAIN c : ~EndsTurn(c[i])
  <2>1. used = c /\ ~over
    BY <1>5 DEF Upto
  <2> QED
    BY <1>1, <1>4, <1>5, <2>1
<1>6. CASE \E i \in DOMAIN c : EndsTurn(c[i])
  <2> DEFINE Foremost(i) == EndsTurn(c[i]) /\ \A j \in 1 .. i - 1 : ~EndsTurn(c[j])
             E == {i \in 1 .. n : EndsTurn(c[i])}
  <2>1. E \subseteq Nat /\ E # {}
    BY <1>1, <1>6
  <2>2. PICK m \in E : \A i \in E : m <= i
    <3> HIDE DEF E
    <3> QED
      BY <2>1, LeastNatural
  <2>3. m \in DOMAIN c /\ Foremost(m)
    <3>1. m \in 1 .. n /\ EndsTurn(c[m])
      BY <2>2
    <3>2. ASSUME NEW j \in 1 .. m - 1, EndsTurn(c[j]) PROVE FALSE
      <4>1. j \in 1 .. n /\ j < m
        BY <1>1, <3>1
      <4>2. m <= j
        BY <2>2, <3>2, <4>1
      <4> QED
        BY <1>1, <3>1, <4>1, <4>2
    <3> QED
      BY <1>1, <3>1, <3>2
  <2> DEFINE k == CHOOSE i \in DOMAIN c : Foremost(i)
  <2>4. k \in DOMAIN c /\ Foremost(k)
    BY <2>3
  <2>5. used = SubSeq(c, 1, k)
    BY <1>6 DEF Upto
  <2>6. k \in 1 .. n /\ EndsTurn(c[k])
    BY <1>1, <2>4
  <2> HIDE DEF k, E, Foremost
  <2>7. k \in Nat /\ k \in 0 .. Len(c) /\ k \in 0 .. Len(p) /\ 1 .. k \subseteq 1 .. n
        /\ k \in 1 .. k
    BY <1>1, <2>6
  <2>8. /\ used \in Seq(Event) /\ Len(used) = k /\ \A i \in 1 .. k : used[i] = c[i]
        /\ Length(used) \in Nat /\ DOMAIN used = 1 .. k
    <3> DEFINE v == SubSeq(c, 1, k)
    <3>1. /\ v \in Seq(Event) /\ Len(v) = k /\ \A i \in 1 .. k : v[i] = c[i]
          /\ Length(v) \in Nat
      BY <1>1, <2>7, Cutting
    <3>2. used = v
      BY <2>5
    <3> HIDE DEF v, used
    <3>3. DOMAIN v = 1 .. k
      BY <3>1, LengthIsSum
    <3> QED
      BY <3>1, <3>2, <3>3
  <2> DEFINE q == SubSeq(p, 1, k)
  <2>9. q \in Seq(Event) /\ Len(q) = k /\ \A i \in 1 .. k : q[i] = p[i]
    BY <2>7, Cutting
  <2> HIDE DEF q, used
  <2>10. q = used
    BY <1>1, <2>7, <2>8, <2>9, SeqEqual
  <2>11. over /\ EndsTurn(p[k])
    BY <1>1, <2>6, <2>7, <2>8
  <2>12. a.fin # "error" => \A j \in 1 .. k : p[j].kind # "error" /\ p[j].kind # "refusal"
    BY <1>1, <1>4, <2>7, <2>8 DEF Has
  <2>13. a.len = b.len + Length(q) /\ a.settled /\ a \in Bubble
    BY <1>4, <2>8, <2>10, <2>11
  <2> QED
    BY <2>6, <2>11, <2>12, <2>13 DEF q
<1> QED
  BY <1>5, <1>6


\* The browser settles or reads the turn that streams, and no other.
LEMMA OpenIsLast ==
  ASSUME StreamInv, NEW t \in Turn, ~bubble[t].settled, t \in stopped \/ pipe[t] # <<>>
  PROVE  t = turn /\ streaming /\ \A u \in Turn : u < turn => bubble[u].settled
<1>1. t \in Int /\ turn \in Int
  BY StreamAssumption DEF StreamInv, StreamShape, StreamTypeOK, Turn
<1>2. ~(t > turn)
  BY DEF StreamInv, TurnInv, FutureInv
<1>3. \A u \in Turn : u < turn \/ (u = turn /\ ~streaming) => bubble[u].settled
  BY DEF StreamInv, ConsoleInv
<1>4. ~(t < turn) /\ ~(t = turn /\ ~streaming)
  BY <1>3
<1>5. streaming \in BOOLEAN
  BY DEF StreamInv, StreamShape, StreamTypeOK
<1>6. t = turn
  BY <1>1, <1>2, <1>4
<1> QED
  BY <1>3, <1>4, <1>5, <1>6

\* A new turn is the last one; those before it are over.
LEMMA SendKeeps == ASSUME StreamInv, Send PROVE StreamInv'
<1> DEFINE t == turn + 1
<1>1. /\ turn < Turns /\ ~streaming /\ turn' = t /\ streaming' = TRUE /\ abort' = t
      /\ messages' = Append(rendered, t) /\ rendered' = messages'
      /\ place' = [place EXCEPT ![t] = "proxy"]
      /\ UNCHANGED <<backend, bubble, half, stopped, voice, uploads, heard, noticed,
                     produced, handed, charged, pipe>>
  BY DEF Send
<1>2. StreamShape /\ ConsoleInv
  BY DEF StreamInv
<1>3. turn \in Nat /\ t \in Nat /\ t \in Turn /\ t \in 0 .. Turns /\ t > turn /\ t # 0
      /\ turn < t
  BY <1>1, <1>2, StreamAssumption DEF StreamShape, StreamTypeOK, Turn
<1> HIDE DEF t
<1>4. messages' \in Seq(0 .. Turns) /\ Len(rendered) + 1 \in DOMAIN messages'
      /\ messages'[Len(rendered) + 1] = t
  BY <1>1, <1>2, <1>3, AppendProperties DEF ConsoleInv
<1>5. \A i \in DOMAIN messages' : messages'[i] \in 0 .. Turns
  BY <1>4, LenProperties, ElementOfSeq
<1>6. place' \in [Turn -> Places] /\ place'[t] = "proxy" /\ \A u \in Turn \ {t} : place'[u] = place[u]
  BY <1>1, <1>2, <1>3 DEF StreamShape, StreamTypeOK, Places
<1>7. StreamShape'
  BY <1>1, <1>2, <1>3, <1>5, <1>6 DEF StreamShape, StreamTypeOK, Places
<1>8. TurnInv(t) /\ bubble[t] = Pending /\ pipe[t] = <<>> /\ place[t] = "none"
  BY <1>3 DEF StreamInv, TurnInv, FutureInv
<1>9. ConsoleInv'
  <2>1. TurnKept'
    BY <1>1, <1>4 DEF TurnKept
  <2>2. ~bubble[t].settled
    BY <1>8 DEF Pending
  <2>3. \A u \in Turn : u < t => u < turn \/ u = turn
    BY <1>3 DEF t, Turn
  <2>4. \A u \in Turn : u < t \/ (u = t /\ ~TRUE) => bubble[u].settled
    BY <1>1, <1>2, <2>3 DEF ConsoleInv
  <2> QED
    BY <1>1, <1>3, <1>4, <2>1, <2>2, <2>4 DEF ConsoleInv
<1>10. ASSUME NEW u \in Turn PROVE TurnInv(u)'
  <2>1. TurnInv(u)
    BY DEF StreamInv
  <2>2. u > t => u > turn /\ u # t
    BY <1>3 DEF t, Turn
  <2>3. FutureInv(u)'
    BY <1>1, <1>6, <2>1, <2>2 DEF TurnInv, FutureInv, Pending
  <2>4. CASE u = t
    <3>1. PipeInv(u)'
      BY <1>1, <1>8, <2>4 DEF PipeInv
    <3>2. HandlerInv(u)'
      BY <1>1, <1>6, <1>8, <2>4 DEF TurnInv, HandlerInv
    <3>3. BubbleInv(u)'
      BY <1>1, <1>6, <1>8, <2>4 DEF TurnInv, BubbleInv, Pending, Sent
    <3> QED
      BY <2>3, <2>4, <3>1, <3>2, <3>3 DEF TurnInv
  <2>5. CASE u # t
    <3>1. PipeInv(u)'
      BY <1>1, <1>6, <2>1, <2>5 DEF TurnInv, PipeInv
    <3>2. HandlerInv(u)'
      BY <1>1, <1>6, <2>1, <2>5 DEF TurnInv, HandlerInv
    <3>3. BubbleInv(u)'
      BY <1>1, <1>6, <2>1, <2>5 DEF TurnInv, BubbleInv, Sent
    <3> QED
      BY <2>3, <3>1, <3>2, <3>3 DEF TurnInv
  <2> QED
    BY <2>4, <2>5
<1> QED
  BY <1>7, <1>9, <1>10 DEF StreamInv

\* Steps that change the list, the controllers or the uploads.
LEMMA ListKeeps ==
  ASSUME StreamInv, Render \/ Stop \/ Reset \/ VoiceStart \/ VoiceEnds
  PROVE  StreamInv'
<1>1. /\ UNCHANGED <<backend, turn, streaming, abort, bubble, half, gateway>>
      /\ stopped' \in {stopped, stopped \union {abort}}
      /\ stopped' # stopped => abort # 0
  BY DEF Render, Stop, Reset, VoiceStart, VoiceEnds
<1>2. StreamShape /\ ConsoleInv /\ turn \in Int /\ turn \in 0 .. Turns
  BY StreamAssumption DEF StreamInv, StreamShape, StreamTypeOK
<1>3. stopped' \subseteq Turn /\ stopped \subseteq stopped' /\ \A u \in stopped' : u \in stopped \/ u <= turn
  <2>1. abort # 0 => abort \in Turn /\ abort = turn
    BY <1>2 DEF ConsoleInv, Turn
  <2> QED
    BY <1>1, <1>2, <2>1 DEF StreamShape, StreamTypeOK
<1>4. voice' \in 0 .. MaxVoice /\ uploads' \in 0 .. MaxVoice
  BY <1>2, StreamAssumption
  DEF StreamShape, StreamTypeOK, Render, Stop, Reset, VoiceStart, VoiceEnds
<1>5. messages' \in Seq(0 .. Turns) /\ rendered' \in Seq(0 .. Turns) /\ TurnKept'
  <2>1. CASE Render \/ Stop \/ VoiceStart
    BY <1>2, <2>1 DEF ConsoleInv, TurnKept, Render, Stop, VoiceStart
  <2>2. CASE Reset
    BY <1>2, <2>2 DEF ConsoleInv, TurnKept, Reset
  <2>3. CASE VoiceEnds
    <3>1. messages' \in {messages, Append(messages, 0)} /\ rendered' = rendered
      BY <2>3 DEF VoiceEnds
    <3>2. 0 \in 0 .. Turns /\ messages \in Seq(0 .. Turns)
      BY <1>2, StreamAssumption DEF ConsoleInv
    <3>3. /\ Append(messages, 0) \in Seq(0 .. Turns)
          /\ \A i \in DOMAIN messages : /\ i \in DOMAIN Append(messages, 0)
                                        /\ Append(messages, 0)[i] = messages[i]
      BY <3>2
    <3> QED
      BY <1>1, <1>2, <3>1, <3>2, <3>3 DEF ConsoleInv, TurnKept
  <2> QED
    BY <2>1, <2>2, <2>3
<1>6. ConsoleInv'
  BY <1>1, <1>2, <1>5 DEF ConsoleInv
<1>7. \A i \in DOMAIN messages' : messages'[i] \in 0 .. Turns
  BY <1>5, LenProperties, ElementOfSeq
<1>8. StreamShape'
  BY <1>1, <1>2, <1>3, <1>4, <1>7 DEF StreamShape, StreamTypeOK, gateway
<1>9. ASSUME NEW u \in Turn PROVE TurnInv(u)'
  <2>1. TurnInv(u)
    BY DEF StreamInv
  <2> QED
    BY <1>1, <1>2, <1>3, <2>1, SameTurn DEF gateway
<1> QED
  BY <1>6, <1>8, <1>9 DEF StreamInv


\* A step of the browser on the answer of the turn that streams.
LEMMA AnswerKeeps ==
  ASSUME StreamInv, NEW t \in Turn, t = turn, streaming,
         UNCHANGED <<backend, turn, messages, rendered, stopped, voice, uploads,
                     place, heard, noticed, produced, handed, charged>>,
         NEW b \in Bubble, bubble' = [bubble EXCEPT ![t] = b],
         NEW q \in Seq(Event), pipe' = [pipe EXCEPT ![t] = q],
         NEW h \in BOOLEAN, half' = [half EXCEPT ![t] = h],
         streaming' \in BOOLEAN, streaming' <=> ~b.settled, abort' \in {0, abort},
         PipeInv(t)', BubbleInv(t)'
  PROVE  StreamInv'
<1>1. StreamShape /\ ConsoleInv /\ turn \in Int
  <2>1. StreamShape /\ ConsoleInv /\ turn \in 0 .. Turns
    BY DEF StreamInv, StreamShape, StreamTypeOK
  <2> QED
    BY <2>1, StreamAssumption
<1>2. /\ bubble' \in [Turn -> Bubble] /\ pipe' \in [Turn -> Seq(Event)]
      /\ half' \in [Turn -> BOOLEAN] /\ bubble'[t] = b /\ b.settled \in BOOLEAN
      /\ \A u \in Turn \ {t} : bubble'[u] = bubble[u] /\ pipe'[u] = pipe[u]
  BY <1>1 DEF StreamShape, StreamTypeOK, Bubble
<1>3. abort' \in {0, turn} /\ abort' \in 0 .. Turns
  BY <1>1, StreamAssumption DEF ConsoleInv, StreamShape, StreamTypeOK
<1>4. StreamShape'
  BY <1>1, <1>2, <1>3 DEF StreamShape, StreamTypeOK, Bubble
<1>5. \A u \in Turn : u < turn => bubble[u].settled /\ u # t
  BY <1>1 DEF ConsoleInv, Turn
<1>6. ConsoleInv'
  <2>1. streaming' => turn # 0 /\ ~bubble'[turn].settled
    <3>1. turn # 0
      BY StreamAssumption DEF Turn
    <3> QED
      BY <1>2, <3>1
  <2>2. \A u \in Turn : u < turn \/ (u = turn /\ ~streaming') => bubble'[u].settled
    BY <1>2, <1>5
  <2>3. TurnKept'
    BY <1>1 DEF ConsoleInv, TurnKept
  <2> QED
    BY <1>1, <1>3, <2>1, <2>2, <2>3 DEF ConsoleInv
<1>7. ASSUME NEW u \in Turn \ {t} PROVE TurnInv(u)'
  <2>1. TurnInv(u)
    BY DEF StreamInv
  <2> QED
    BY <1>1, <1>2, <2>1, SameTurn
<1>8. TurnInv(t)'
  <2>1. HandlerInv(t)'
    BY DEF StreamInv, TurnInv, HandlerInv
  <2>2. FutureInv(t)'
    BY <1>1 DEF FutureInv
  <2> QED
    BY <2>1, <2>2 DEF TurnInv
<1> QED
  BY <1>4, <1>6, <1>7, <1>8 DEF StreamInv

\* A stopped turn is over, whatever is still in the pipe.
LEMMA StopSettlesKeeps == ASSUME StreamInv, NEW t \in Turn, StopSettles(t) PROVE StreamInv'
<1>1. /\ t \in stopped /\ ~bubble[t].settled
      /\ bubble' = [bubble EXCEPT ![t].fin = "stopped", ![t].settled = TRUE]
      /\ streaming' = FALSE /\ abort' = 0
      /\ pipe' = [pipe EXCEPT ![t] = <<>>] /\ half' = [half EXCEPT ![t] = FALSE]
      /\ UNCHANGED <<backend, turn, messages, rendered, stopped, voice, uploads,
                     place, heard, noticed, produced, handed, charged>>
  BY DEF StopSettles, Settles
<1>2. StreamShape /\ TurnInv(t)
  BY DEF StreamInv
<1>3. t = turn /\ streaming
  BY <1>1, OpenIsLast
<1>4. PICK b : b = [bubble[t] EXCEPT !.fin = "stopped", !.settled = TRUE]
  OBVIOUS
<1>5. bubble \in [Turn -> Bubble] /\ pipe \in [Turn -> Seq(Event)] /\ bubble[t] \in Bubble
  BY <1>2 DEF StreamShape, StreamTypeOK, Bubble
<1>6. b \in Bubble /\ b.settled = TRUE /\ b.fin = "stopped" /\ b.len = bubble[t].len
  BY <1>4, <1>5 DEF Bubble
<1>7. bubble' = [bubble EXCEPT ![t] = b]
  BY <1>1, <1>4, <1>5 DEF Bubble
<1>8. bubble'[t] = b /\ pipe'[t] = <<>>
  BY <1>1, <1>5, <1>7
<1>9. PipeInv(t)'
  BY <1>8 DEF PipeInv
<1>10. BubbleInv(t)'
  BY <1>1, <1>2, <1>6, <1>8 DEF TurnInv, BubbleInv
<1>11. /\ <<>> \in Seq(Event) /\ FALSE \in BOOLEAN /\ abort' \in {0, abort}
       /\ streaming' \in BOOLEAN /\ (streaming' <=> ~b.settled)
  <2>1. <<>> \in Seq(Event) /\ abort' \in {0, abort}
    BY <1>1
  <2>2. streaming' \in BOOLEAN /\ ~streaming' /\ b.settled
    BY <1>1, <1>6, Zenon
  <2> QED
    BY <2>1, <2>2
<1> QED
  BY <1>1, <1>3, <1>6, <1>7, <1>9, <1>10, <1>11, AnswerKeeps

\* A read cuts the pipe anywhere.
LEMMA ReadKeeps == ASSUME StreamInv, NEW t \in Turn, Read(t) PROVE StreamInv'
<1>1. PICK n \in 0 .. Len(pipe[t]), h \in BOOLEAN :
         /\ bubble' = [bubble EXCEPT ![t] = Absorb(@, Completed(t, n))]
         /\ half' = [half EXCEPT ![t] = h /\ ~bubble'[t].settled]
         /\ pipe' = [pipe EXCEPT ![t] = IF bubble'[t].settled THEN <<>>
                                        ELSE SubSeq(@, n + 1, Len(@))]
  BY DEF Read
<1>2. /\ t \notin stopped /\ ~bubble[t].settled /\ pipe[t] # <<>>
      /\ streaming' = ~bubble'[t].settled
      /\ abort' = IF bubble'[t].settled THEN 0 ELSE abort
      /\ UNCHANGED <<backend, turn, messages, rendered, stopped, voice, uploads, place, heard,
                     noticed, produced, handed, charged>>
  BY DEF Read
<1>3. StreamShape /\ TurnInv(t) /\ t = turn /\ streaming
  BY <1>2, OpenIsLast DEF StreamInv
<1>4. PICK p : p = pipe[t]
  OBVIOUS
<1>5. PICK c : c = SubSeq(p, 1, n)
  OBVIOUS
<1>6. PICK b : b = Absorb(bubble[t], c)
  OBVIOUS
<1>7. /\ bubble \in [Turn -> Bubble] /\ bubble[t] \in Bubble /\ p \in Seq(Event)
      /\ pipe \in [Turn -> Seq(Event)] /\ half \in [Turn -> BOOLEAN]
      /\ produced[t] \in Nat /\ bubble[t].len \in Nat
  BY <1>3, <1>4 DEF StreamShape, StreamTypeOK, Bubble
<1>8. bubble' = [bubble EXCEPT ![t] = b] /\ bubble'[t] = b
  BY <1>1, <1>4, <1>5, <1>6, <1>7 DEF Completed
<1>9. Absorbed(b, bubble[t], p, n, c) /\ b \in Bubble
  <2>1. n \in 0 .. Len(p)
    BY <1>4
  <2>2. Absorbed(b, bubble[t], p, n, c)
    BY <1>5, <1>6, <1>7, <2>1, Absorbing
  <2> QED
    BY <2>2 DEF Absorbed
<1>10. PICK r : r = SubSeq(p, n + 1, Len(p))
  OBVIOUS
<1>11. /\ r \in Seq(Event) /\ Len(r) = Len(p) - n /\ Len(p) \in Nat /\ n \in Nat /\ n <= Len(p)
       /\ \A i \in 1 .. Len(p) - n : r[i] = p[n + i]
       /\ Length(p) = Length(c) + Length(r)
       /\ Length(c) \in Nat /\ Length(r) \in Nat /\ Length(p) \in Nat
       /\ DOMAIN r = 1 .. Len(p) - n /\ DOMAIN p = 1 .. Len(p)
  <2>1. n \in 0 .. Len(p) /\ p \in Seq(Event)
    BY <1>4, <1>7
  <2>2. /\ r \in Seq(Event) /\ Len(r) = Len(p) - n
        /\ \A i \in 1 .. Len(p) - n : r[i] = p[n + i]
        /\ Length(p) = Length(c) + Length(r)
        /\ Length(c) \in Nat /\ Length(r) \in Nat
    BY <1>5, <1>10, <2>1, Cutting
  <2>3. Len(p) \in Nat /\ DOMAIN p = 1 .. Len(p) /\ Length(p) \in Nat /\ DOMAIN r = 1 .. Len(r)
    BY <2>1, <2>2, LengthIsSum
  <2> QED
    BY <2>1, <2>2, <2>3
<1>12. PICK q : q = IF b.settled THEN <<>> ELSE r
  OBVIOUS
<1>13. PICK h2 : h2 = (h /\ ~b.settled)
  OBVIOUS
<1>14. /\ pipe' = [pipe EXCEPT ![t] = q] /\ pipe'[t] = q /\ q \in Seq(Event)
       /\ half' = [half EXCEPT ![t] = h2] /\ h2 \in BOOLEAN
       /\ streaming' \in BOOLEAN /\ (streaming' <=> ~b.settled) /\ abort' \in {0, abort}
  <2>1. b.settled \in BOOLEAN
    BY <1>9 DEF Bubble
  <2>2. q \in Seq(Event) /\ h2 \in BOOLEAN
    BY <1>11, <1>12, <1>13
  <2>3. pipe' = [pipe EXCEPT ![t] = q]
    BY <1>1, <1>4, <1>7, <1>8, <1>10, <1>12
  <2>4. half' = [half EXCEPT ![t] = h2]
    BY <1>1, <1>7, <1>8, <1>13
  <2>5. streaming' = ~b.settled /\ abort' \in {0, abort}
    BY <1>2, <1>8
  <2>6. streaming' \in BOOLEAN /\ (streaming' <=> ~b.settled)
    BY <2>5
  <2> QED
    BY <1>7, <2>2, <2>3, <2>4, <2>5, <2>6
<1>15. bubble[t].len + Length(p) = Sent(t) /\ Sent(t) <= produced[t] /\ Sent(t)' = Sent(t)
  BY <1>2, <1>3, <1>4, <1>7 DEF TurnInv, BubbleInv, Sent
<1>16. CASE ~b.settled
  <2>1. q = r
    BY <1>12, <1>16
  <2>2. \A i \in DOMAIN r : /\ n + i \in DOMAIN p /\ r[i] = p[n + i]
    BY <1>11
  <2>3. PipeInv(t)
    BY <1>3 DEF TurnInv
  <2>4. ASSUME NEW i \in DOMAIN r, EndsTurn(r[i])
        PROVE  place[t] = "done" /\ \A j \in DOMAIN r : j > i => r[j].n = 0
    <3>1. place[t] = "done" /\ \A j \in DOMAIN p : j > n + i => p[j].n = 0
      BY <1>4, <2>2, <2>3, <2>4 DEF PipeInv
    <3>2. \A j \in DOMAIN r : j > i => n + j > n + i
      BY <1>11
    <3> QED
      BY <2>2, <3>1, <3>2
  <2>5. ASSUME NEW i \in DOMAIN r, r[i].kind = "done", t \notin charged
        PROVE  \E j \in DOMAIN r : j < i /\ r[j].kind = "error"
    <3>1. PICK j \in DOMAIN p : j < n + i /\ p[j].kind = "error"
      BY <1>4, <2>2, <2>3, <2>5 DEF PipeInv
    <3>2. EndsTurn(p[j])
      BY <3>1 DEF EndsTurn
    <3>3. j \notin 1 .. n
      BY <1>9, <1>16, <3>2 DEF Absorbed
    <3>4. j - n \in DOMAIN r /\ j - n < i /\ n + (j - n) = j
      BY <1>11, <3>1, <3>3
    <3> QED
      BY <2>2, <3>1, <3>4
  <2>6. PipeInv(t)'
    <3>1. pipe'[t] = r /\ place' = place /\ charged' = charged
      BY <1>2, <1>14, <2>1
    <3> QED
      BY <2>4, <2>5, <3>1 DEF PipeInv
  <2>7. b.len + Length(r) = Sent(t) /\ b.len <= produced[t]
    BY <1>7, <1>9, <1>11, <1>15, <1>16 DEF Absorbed
  <2>8. BubbleInv(t)'
    BY <1>2, <1>8, <1>14, <1>15, <1>16, <2>1, <2>7 DEF BubbleInv
  <2> QED
    BY <1>2, <1>3, <1>8, <1>9, <1>14, <2>6, <2>8, AnswerKeeps
<1>17. CASE b.settled
  <2>1. q = <<>>
    BY <1>12, <1>17
  <2>2. PICK k \in 1 .. n :
          /\ EndsTurn(p[k]) /\ b.len = bubble[t].len + Length(SubSeq(p, 1, k))
          /\ b.fin # "error" =>
               \A j \in 1 .. k : p[j].kind # "error" /\ p[j].kind # "refusal"
    BY <1>9, <1>17 DEF Absorbed
  <2>3. PICK v : v = SubSeq(p, 1, k)
    OBVIOUS
  <2>4. PICK w : w = SubSeq(p, k + 1, Len(p))
    OBVIOUS
  <2>5. k \in 0 .. Len(p) /\ k \in DOMAIN p /\ k \in Nat /\ k \in 1 .. k
    BY <1>11
  <2>6. /\ w \in Seq(Event) /\ Len(w) = Len(p) - k
        /\ \A i \in 1 .. Len(p) - k : w[i] = p[k + i]
        /\ Length(p) = Length(v) + Length(w) /\ Length(v) \in Nat /\ Length(w) \in Nat
        /\ DOMAIN w = 1 .. Len(p) - k
    <3>1. p \in Seq(Event) /\ k \in 0 .. Len(p)
      BY <1>7, <2>5
    <3>2. /\ w \in Seq(Event) /\ Len(w) = Len(p) - k
          /\ \A i \in 1 .. Len(p) - k : w[i] = p[k + i]
          /\ Length(p) = Length(v) + Length(w) /\ Length(v) \in Nat /\ Length(w) \in Nat
      BY <2>3, <2>4, <3>1, Cutting
    <3>3. DOMAIN w = 1 .. Len(w)
      BY <3>2, LengthIsSum
    <3> QED
      BY <3>2, <3>3
  <2>7. b.len <= produced[t]
    BY <1>7, <1>15, <2>2, <2>3, <2>6
  <2>8. place[t] = "done" /\ \A j \in DOMAIN p : j > k => p[j].n = 0
    BY <1>3, <1>4, <2>2, <2>5 DEF TurnInv, PipeInv
  <2>9. Length(w) = 0
    <3>1. Len(p) \in Nat /\ DOMAIN p = 1 .. Len(p) /\ k \in 1 .. Len(p)
      BY <1>11, <2>5
    <3>2. ASSUME NEW i \in 1 .. Len(p) - k
          PROVE  k + i \in DOMAIN p /\ k + i > k
      BY <3>1
    <3>3. ASSUME NEW i \in DOMAIN w
          PROVE  w[i].n = 0
      <4>1. i \in 1 .. Len(p) - k /\ w[i] = p[k + i]
        BY <2>6
      <4>2. p[k + i].n = 0
        BY <2>8, <3>2, <4>1
      <4> QED
        BY <4>1, <4>2
    <3> QED
      BY <2>6, <3>3, LengthOfSilence
  <2>13. t \in charged => b.len = produced[t]
    <3> SUFFICES ASSUME t \in charged PROVE b.len = produced[t]
      OBVIOUS
    <3>1. t \in handed
      BY <1>3 DEF TurnInv, HandlerInv
    <3>2. Sent(t) = produced[t]
      BY <3>1 DEF Sent
    <3>3. b.len = bubble[t].len + Length(p)
      BY <1>7, <2>2, <2>3, <2>6, <2>9
    <3> QED
      BY <1>15, <3>2, <3>3
  <2>10. ASSUME b.fin = "stop" PROVE t \in charged /\ b.len = produced[t]
    <3>1. \A j \in 1 .. k : p[j].kind # "error" /\ p[j].kind # "refusal"
      BY <2>2, <2>10
    <3>2. p[k].kind = "done"
      BY <2>2, <2>5, <3>1 DEF EndsTurn
    <3>3. \A j \in DOMAIN p : j < k => j \in 1 .. k
      BY <1>11, <2>5
    <3>4. t \in charged
      BY <1>3, <1>4, <2>5, <3>1, <3>2, <3>3 DEF TurnInv, PipeInv
    <3> QED
      BY <2>13, <3>4
  <2>11. PipeInv(t)'
    BY <1>14, <2>1 DEF PipeInv
  <2>12. BubbleInv(t)'
    BY <1>2, <1>8, <1>14, <1>17, <2>1, <2>7, <2>8, <2>10, <2>13 DEF BubbleInv
  <2> QED
    BY <1>2, <1>3, <1>8, <1>9, <1>14, <2>11, <2>12, AnswerKeeps
<1> QED
  BY <1>16, <1>17

-----------------------------------------------------------------------------
(* The theorems.                                                            *)

\* Every step keeps the invariant.
LEMMA StreamInvStep == StreamInv /\ [StreamNext]_streamVars => StreamInv'
<1> SUFFICES ASSUME StreamInv, [StreamNext]_streamVars PROVE StreamInv'
  OBVIOUS
<1>1. CASE UNCHANGED streamVars
  <2>1. StreamShape'
    BY <1>1 DEF StreamInv, StreamShape, StreamTypeOK, streamVars
  <2>2. ConsoleInv'
    BY <1>1 DEF StreamInv, ConsoleInv, TurnKept, streamVars
  <2>3. turn \in Int
    BY StreamAssumption DEF StreamInv, StreamShape, StreamTypeOK
  <2>4. ASSUME NEW u \in Turn PROVE TurnInv(u)'
    <3>1. TurnInv(u)
      BY DEF StreamInv
    <3> QED
      BY <1>1, <2>3, <3>1, SameTurn DEF streamVars
  <2> QED
    BY <2>1, <2>2, <2>4 DEF StreamInv
<1>2. CASE Send
  BY <1>2, SendKeeps
<1>3. CASE Render \/ Stop \/ Reset \/ VoiceStart \/ VoiceEnds
  BY <1>3, ListKeeps
<1>4. ASSUME NEW t \in Turn, StopSettles(t) \/ Read(t) PROVE StreamInv'
  BY <1>4, StopSettlesKeeps, ReadKeeps
<1>5. ASSUME NEW t \in Turn, Proxy(t) \/ Admit(t) \/ CloseArrives(t) PROVE StreamInv'
  BY <1>5, ProxyKeeps, AdmitKeeps, CloseArrivesKeeps
<1>6. ASSUME NEW t \in Turn, EngineDelta(t) \/ EngineFinal(t) PROVE StreamInv'
  BY <1>6, EngineDeltaKeeps, EngineFinalKeeps
<1>7. ASSUME NEW t \in Turn, EngineFails(t) \/ Aborted(t) \/ Deadline(t) \/ CloseFails(t)
      PROVE  StreamInv'
  BY <1>7, FailuresKeep
<1>8. ASSUME NEW t \in Turn, Settle(t) \/ Close(t) \/ Catch(t) PROVE StreamInv'
  BY <1>8, SettleKeeps, CloseKeeps, CatchKeeps
<1> QED
  BY <1>1, <1>2, <1>3, <1>4, <1>5, <1>6, <1>7, <1>8 DEF StreamNext

\* useChatStream.ts:228-301 against v1.ts:944-1108: at every moment, for any number
\* of turns, of deltas, of stops and of voice uploads, the console shows no text the
\* engine did not produce, an answer shown as complete is all of it, and the turn that
\* streams is in the list.
THEOREM ConsoleStaysTrue == StreamSpec => []ConsoleIsTrue
<1>1. StreamInv => ConsoleIsTrue
  BY DEF StreamInv, StreamShape, ConsoleInv, ConsoleIsTrue, ShownIsProduced, TurnInv, BubbleInv
<1> QED
  BY <1>1, StreamInvInit, StreamInvStep, PTL DEF StreamSpec

\* v1.ts:944-1123: an answer that ends on screen without error or stop has been
\* settled; the text of a settled turn is on screen or on its way, every delta the
\* adapter received, unless the user stopped the turn; no generation that threw, timed
\* out or was aborted is settled.
THEOREM SettlementsMatch == StreamSpec => []SettlementMatchesAnswer
<1>1. StreamInv => SettlementMatchesAnswer
  <2> SUFFICES ASSUME StreamInv PROVE SettlementMatchesAnswer
    OBVIOUS
  <2>1. FinishedIsSettled
    BY DEF StreamInv, TurnInv, BubbleInv, FinishedIsSettled
  <2>2. charged \subseteq Turn
    BY DEF StreamInv, StreamShape, StreamTypeOK
  <2>3. SettledIsDelivered
    <3> SUFFICES ASSUME NEW t \in charged
                 PROVE  t \in handed /\ (t \notin stopped => bubble[t].len + Length(pipe[t]) = produced[t])
      BY DEF SettledIsDelivered
    <3>1. t \in Turn /\ TurnInv(t) /\ produced[t] \in Nat
      BY <2>2 DEF StreamInv, StreamShape
    <3>2. t \in handed
      BY <3>1 DEF TurnInv, HandlerInv
    <3>3. Sent(t) = produced[t]
      BY <3>2 DEF Sent
    <3>4. bubble[t].settled => Length(pipe[t]) = 0
      BY <3>1, LengthOfNone DEF TurnInv, BubbleInv
    <3> QED
      BY <3>1, <3>2, <3>3, <3>4 DEF TurnInv, BubbleInv
  <2> QED
    BY <2>1, <2>3 DEF SettlementMatchesAnswer
<1> QED
  BY <1>1, StreamInvInit, StreamInvStep, PTL DEF StreamSpec

\* useChatStream.ts:278-301: what arrives for a turn that is over changes nothing of
\* its answer.
THEOREM OverStaysOver == StreamSpec => OverIsOver
<1>1. StreamInv /\ [StreamNext]_streamVars
        => [\A t \in Turn : bubble[t].settled => bubble'[t] = bubble[t]]_streamVars
  <2> SUFFICES ASSUME StreamInv, StreamNext, NEW u \in Turn, bubble[u].settled
               PROVE  bubble'[u] = bubble[u]
    OBVIOUS
  <2>1. bubble \in [Turn -> Bubble]
    BY DEF StreamInv, StreamShape, StreamTypeOK, Bubble
  <2>2. ASSUME NEW t \in Turn, StopSettles(t) \/ Read(t) PROVE bubble'[u] = bubble[u]
    <3>1. u # t
      BY <2>2 DEF StopSettles, Read
    <3>2. CASE StopSettles(t)
      BY <2>1, <3>1, <3>2 DEF StopSettles, Settles
    <3>3. CASE Read(t)
      BY <2>1, <3>1, <3>3 DEF Read
    <3> QED
      BY <2>2, <3>2, <3>3
  <2>3. ASSUME NEW t \in Turn,
               \/ Proxy(t) \/ Admit(t) \/ CloseArrives(t) \/ EngineDelta(t) \/ EngineFinal(t)
               \/ EngineFails(t) \/ Aborted(t) \/ Deadline(t) \/ Settle(t) \/ Close(t)
               \/ CloseFails(t) \/ Catch(t)
        PROVE  bubble' = bubble
    BY <2>3 DEF Proxy, Admit, CloseArrives, EngineDelta, EngineFinal, EngineFails, Aborted,
                Deadline, Settle, Close, CloseFails, Catch, browser
  <2>4. CASE Send \/ Render \/ Stop \/ Reset \/ VoiceStart \/ VoiceEnds
    BY <2>4 DEF Send, Render, Stop, Reset, VoiceStart, VoiceEnds
  <2> QED
    BY <2>2, <2>3, <2>4 DEF StreamNext
<1> QED
  BY <1>1, StreamInvInit, StreamInvStep, PTL DEF StreamSpec, OverIsOver
=============================================================================

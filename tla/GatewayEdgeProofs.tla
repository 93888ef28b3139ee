------------------------- MODULE GatewayEdgeProofs --------------------------
(***************************************************************************)
(* Proofs about GatewayEdge, for any requests, plan, sessions and bounds.   *)
(*                                                                          *)
(* The limits.  ConcurrencyBounded speaks of the slots alone; what the      *)
(* limiter compares is a counter that Redis may drop, that a failed command *)
(* leaves too high, and that requests have raised which do not hold a slot  *)
(* yet or never will.  LimitInv relates the counter to all of those.        *)
(*                                                                          *)
(* The cached quota figure.  A figure without an expiry is the sum of the    *)
(* increments made since the key was gone; each of them is of a request that *)
(* had been charged and will not increment again.                           *)
(*                                                                          *)
(* The captures.  A session's row, the gateway's map and the recorder of a  *)
(* request are written at different times; TraceInv says which of them may  *)
(* be ahead of the others.                                                  *)
(***************************************************************************)
EXTENDS GatewayEdge, FiniteSums

-----------------------------------------------------------------------------
(* The limits *)

\* The types the argument needs: all but the range of the counter.
EdgeTypes ==
  /\ redisEnabled \in BOOLEAN /\ kind \in [Requests -> Kinds]
  /\ at \in [Requests -> Steps]
  /\ expiries \in 0 .. MaxExpiries
  /\ rpmCount \in 0 .. Rpm + 1
  /\ voiceCount \in 0 .. VoicePerHour
  /\ conc \in Int
  /\ concKey \in {"absent", "plain", "expiring"} /\ cacheTtl \in BOOLEAN
  /\ slot \subseteq Requests /\ lost \subseteq Requests
  /\ leaked \subseteq Requests /\ unset \in BOOLEAN
  /\ charged \subseteq Requests /\ job \in [Requests -> {"none", "stored", "read"}]
  /\ used \in Nat /\ cache \in Nat \cup {NoCache}
  /\ figure \in [Requests -> Nat]
  /\ phase \in [Requests -> {"new", "claiming", "running"}]
  /\ focus \in Focuses

\* Requests whose increment has not been taken back, those of them that hold a
\* slot or will, and those that are past the limiter.
Raised == {r \in Requests : r \in slot \/ at[r] \in {"expire", "undo"}}
Granted == {r \in Requests : r \in slot \/ at[r] = "expire"}
BeforeConc == {"idle", "rpm", "conc", "voiceWindow"}
Past == {r \in Requests : at[r] \notin BeforeConc}

SlotSteps == {"quota", "quotaRead", "quotaSet", "handler", "bumpExists", "bumpIncr", "closing"}

\* A slot is held from the limiter to the response.
SlotHeldInside == \A r \in slot : at[r] \in SlotSteps

\* In memory the counter is exact and never too high.
MemoryCount ==
  ~redisEnabled =>
    /\ conc = Cardinality(slot) /\ conc <= MaxConcurrent
    /\ concKey = "absent" /\ lost = {} /\ leaked = {}
    /\ \A r \in Requests : at[r] \notin {"expire", "undo"}

\* On Redis it counts at least the increments that are not lost with an expiry.
RedisCount ==
  redisEnabled =>
    /\ Cardinality(Raised) <= conc + Cardinality(lost)
    /\ Cardinality(Granted) <= MaxConcurrent + Cardinality(lost)
    /\ concKey = "absent" => conc = 0

\* Who has not raised the counter has lost no increment and left none.
LeftBehindHavePassed == lost \cup leaked \subseteq Past

LimitInv == /\ SlotHeldInside /\ MemoryCount /\ RedisCount /\ LeftBehindHavePassed
            /\ CounterHasReason /\ PositiveCounterExpires

USE PlanAssumption, AdmissionBounds, MixAssumption, InFlightAssumption
USE DEF Kinds, Steps, Move, SlotSteps, BeforeConc, Focuses

\* The edge starts well typed.
LEMMA EdgeTypesInit == Init => EdgeTypes
<1> SUFFICES ASSUME Init PROVE EdgeTypes
  OBVIOUS
<1>1. redisEnabled \in BOOLEAN /\ cacheTtl \in BOOLEAN /\ focus \in Focuses
  BY Zenon DEF Init, AdmissionInit
<1>2. kind \in [Requests -> Kinds]
  BY DEF Init, AdmissionInit
<1>3. /\ at \in [Requests -> Steps]
      /\ phase \in [Requests -> {"new", "claiming", "running"}]
  BY DEF Init, AdmissionInit, InHandler
<1>4. /\ slot = {} /\ conc = 0 /\ rpmCount = 0 /\ voiceCount = 0
      /\ concKey = "absent" /\ lost = {} /\ expiries = 0
      /\ leaked = {} /\ unset = FALSE
      /\ charged = {} /\ job = [r \in Requests |-> "none"]
      /\ used = 0 /\ cache = NoCache /\ figure = [r \in Requests |-> 0]
  BY DEF Init, AdmissionInit
<1>5. unset \in BOOLEAN /\ job \in [Requests -> {"none", "stored", "read"}]
  BY <1>4, Zenon
<1> QED
  BY <1>1, <1>2, <1>3, <1>4, <1>5 DEF EdgeTypes

\* At the start no slot is held and the counter is zero.
LEMMA LimitInvInit == Init => LimitInv
<1> SUFFICES ASSUME Init PROVE LimitInv
  OBVIOUS
<1>1. slot = {} /\ conc = 0 /\ concKey = "absent" /\ lost = {} /\ leaked = {}
      /\ at \in [Requests -> {"idle", "handler", "refused"}] /\ redisEnabled \in BOOLEAN
  BY DEF Init, AdmissionInit, InHandler
<1>2. Cardinality(slot) = 0 /\ Cardinality(lost) = 0
  BY <1>1, FS_EmptySet
<1>3. Raised = {} /\ Granted = {} /\ Counted = {}
  BY <1>1, Zenon DEF Raised, Granted, Counted
<1>4. Cardinality(Raised) = 0 /\ Cardinality(Granted) = 0 /\ Cardinality(Counted) = 0
  BY <1>3, FS_EmptySet
<1>5. MemoryCount /\ RedisCount /\ SlotHeldInside
  BY <1>1, <1>2, <1>4 DEF SlotHeldInside, MemoryCount, RedisCount
<1> QED
  BY <1>1, <1>4, <1>5 DEF LimitInv, LeftBehindHavePassed, CounterHasReason, PositiveCounterExpires

\* Every step keeps the types.
LEMMA EdgeTypesNext == EdgeTypes /\ [Next]_edgeVars => EdgeTypes'
<1> SUFFICES ASSUME EdgeTypes, [Next]_edgeVars PROVE EdgeTypes'
  OBVIOUS
<1> USE DEF EdgeTypes, counterVars, limitVars, quotaVars, admissionVars, NoCache
<1>1. ASSUME NEW r \in Requests, Admit(r), UNCHANGED focus PROVE EdgeTypes'
  <2> USE <1>1 DEF Admit
  <2>1. CASE AuthMiddleware(r)
    BY <2>1 DEF AuthMiddleware
  <2>2. CASE RateLimitRpm(r)
    BY <2>2 DEF RateLimitRpm
  <2>3. CASE VoiceWindow(r)
    BY <2>3 DEF VoiceWindow
  <2>4. CASE MemoryAcquireConc(r)
    BY <2>4 DEF MemoryAcquireConc
  <2>5. CASE RedisAcquireConc(r)
    BY <2>5 DEF RedisAcquireConc, Touched, AfterIncr
  <2>6. CASE ExpireConc(r)
    BY <2>6 DEF ExpireConc, AfterIncr, WithExpiry
  <2>7. CASE UndoConc(r)
    BY <2>7 DEF UndoConc, Decr, Touched, Leak
  <2>8. CASE QuotaMiddleware(r)
    BY <2>8 DEF QuotaMiddleware, QuotaVerdict
  <2>9. CASE ReadLedger(r)
    BY <2>9 DEF ReadLedger
  <2>10. CASE FillCache(r)
    BY <2>10 DEF FillCache, QuotaVerdict
  <2>11. CASE BumpExists(r)
    BY <2>11 DEF BumpExists
  <2>12. CASE BumpIncr(r)
    BY <2>12 DEF BumpIncr
  <2>13. CASE Finish(r)
    BY <2>13 DEF Finish, ReleaseSlot, Decr, Touched, Leak
  <2>14. CASE RedisIncrFails(r)
    <3>1. unset' \in BOOLEAN
      <4>1. unset \in BOOLEAN
        BY Zenon
      <4> QED
        BY <2>14, <4>1, Zenon DEF RedisIncrFails, counterVars
    <3>2. /\ conc' \in Int /\ concKey' \in {"absent", "plain", "expiring"}
          /\ leaked' \subseteq Requests /\ slot' = slot /\ lost' = lost
      BY <2>14 DEF RedisIncrFails, Touched
    <3> QED
      BY <2>14, <3>1, <3>2 DEF RedisIncrFails
  <2>15. CASE ExpireFails(r)
    BY <2>15 DEF ExpireFails, WithExpiry, Leak
  <2>16. CASE QuotaUnavailable(r)
    BY <2>16 DEF QuotaUnavailable
  <2> QED
    BY <2>1, <2>2, <2>3, <2>4, <2>5, <2>6, <2>7, <2>8, <2>9, <2>10, <2>11, <2>12, <2>13,
       <2>14, <2>15, <2>16
    DEF Middleware
<1>2. ASSUME NEW r \in Requests, UNCHANGED focus,
             LookUpTrace(r) \/ ClaimTrace(r) \/ RunHandler(r) \/ CloseTrace(r)
      PROVE  EdgeTypes'
  BY <1>2 DEF LookUpTrace, ClaimTrace, RunHandler, CloseTrace, Enter, Charge, EndUncharged
<1>3. ASSUME Surroundings, UNCHANGED focus PROVE EdgeTypes'
  <2> USE <1>3
  <2>1. CASE CounterExpires /\ UNCHANGED phase
    <3>1. unset' \in BOOLEAN
      BY <2>1, Zenon DEF CounterExpires
    <3> QED
      BY <2>1, <3>1 DEF CounterExpires
  <2>2. CASE CacheExpires /\ UNCHANGED phase
    BY <2>2 DEF CacheExpires
  <2>3. CASE OpenPeriod /\ UNCHANGED phase
    BY <2>3 DEF OpenPeriod
  <2>4. ASSUME NEW r \in Requests, Disconnect(r), UNCHANGED phase PROVE EdgeTypes'
    BY <2>4 DEF Disconnect, ReleaseSlot, Decr, Touched, Leak
  <2>5. CASE UNCHANGED <<admissionVars, phase>>
    BY <2>5
  <2>6. ASSUME NEW r \in Requests, UsageReads(r) \/ UsageSets(r), UNCHANGED phase
        PROVE  EdgeTypes'
    <3>1. job' \in [Requests -> {"none", "stored", "read"}] /\ figure' \in [Requests -> Nat]
      BY <2>6 DEF UsageReads, UsageSets
    <3>2. cache' \in Nat \cup {NoCache}
      BY <2>6 DEF UsageReads, UsageSets
    <3>3. cacheTtl' \in BOOLEAN
      <4>1. cacheTtl \in BOOLEAN
        BY Zenon
      <4> QED
        BY <2>6, <4>1, Zenon DEF UsageReads, UsageSets
    <3> QED
      BY <2>6, <3>1, <3>2, <3>3 DEF UsageReads, UsageSets
  <2> QED
    BY <2>1, <2>2, <2>3, <2>4, <2>5, <2>6 DEF Surroundings, Environment
<1>4. CASE UNCHANGED edgeVars
  BY <1>4 DEF edgeVars
<1> QED
  BY <1>1, <1>2, <1>3, <1>4 DEF Next, HandleRequest

\* The sets that are counted are finite.
LEMMA SetsAreFinite ==
  ASSUME EdgeTypes
  PROVE  /\ IsFiniteSet(slot) /\ Cardinality(slot) \in Nat
         /\ IsFiniteSet(lost) /\ Cardinality(lost) \in Nat
         /\ IsFiniteSet(Raised) /\ Cardinality(Raised) \in Nat
         /\ IsFiniteSet(Granted) /\ Cardinality(Granted) \in Nat
         /\ IsFiniteSet(Counted) /\ Cardinality(Counted) \in Nat
<1>1. /\ slot \subseteq Requests /\ lost \subseteq Requests /\ Raised \subseteq Requests
      /\ Granted \subseteq Requests /\ Counted \subseteq Requests
  BY DEF EdgeTypes, Raised, Granted, Counted
<1> QED
  BY <1>1, SubsetIsSmaller

\* A step that leaves counter and slots alone and does not come from, or lead to,
\* a step of the Redis limiter keeps the counts.
LEMMA QuietStep ==
  ASSUME EdgeTypes, EdgeTypes', LimitInv, NEW r \in Requests, NEW y \in Steps,
         at[r] \notin {"expire", "undo"}, y \notin {"expire", "undo"},
         at[r] \in BeforeConc \/ y \notin BeforeConc,
         r \in slot => y \in SlotSteps,
         at' = [at EXCEPT ![r] = y],
         UNCHANGED <<redisEnabled, counterVars>>
  PROVE  LimitInv'
<1> USE DEF counterVars
<1>0. at \in [Requests -> Steps] /\ at'[r] = y /\ \A q \in Requests \ {r} : at'[q] = at[q]
  BY DEF EdgeTypes
<1>1. Raised' = Raised /\ Granted' = Granted /\ Counted' = Counted
  BY <1>0 DEF Raised, Granted, Counted
<1>2. LeftBehindHavePassed'
  BY <1>0 DEF LimitInv, LeftBehindHavePassed, Past
<1>3. SlotHeldInside'
  BY <1>0 DEF LimitInv, SlotHeldInside, EdgeTypes
<1>4. MemoryCount'
  BY <1>0 DEF LimitInv, MemoryCount
<1>5. RedisCount'
  BY <1>1 DEF LimitInv, RedisCount
<1>6. CounterHasReason'
  BY <1>1 DEF LimitInv, CounterHasReason
<1>7. PositiveCounterExpires'
  BY <1>0 DEF LimitInv, PositiveCounterExpires
<1> QED
  BY <1>2, <1>3, <1>4, <1>5, <1>6, <1>7 DEF LimitInv

\* In memory the requests that are counted are those that hold a slot.
LEMMA MemoryCounted ==
  ASSUME EdgeTypes, LimitInv, ~redisEnabled
  PROVE  Counted = slot
BY DEF EdgeTypes, LimitInv, MemoryCount, Counted

\* Who is before the limiter is in none of the sets.
LEMMA NewcomerIsNotCounted ==
  ASSUME EdgeTypes, LimitInv, NEW r \in Requests, at[r] = "conc"
  PROVE  r \notin slot /\ r \notin lost /\ r \notin leaked /\ r \notin Raised /\ r \notin Counted
BY DEF LimitInv, SlotHeldInside, LeftBehindHavePassed, Past, Raised, Counted

\* Taking one element away takes at most one from the count.
LEMMA AtMostOneFewer ==
  ASSUME NEW S, NEW U, NEW x, IsFiniteSet(S), IsFiniteSet(U), S \ {x} \subseteq U
  PROVE  Cardinality(S) - 1 <= Cardinality(U)
<1>1. /\ Cardinality(S \ {x}) = IF x \in S THEN Cardinality(S) - 1 ELSE Cardinality(S)
      /\ IsFiniteSet(S \ {x}) /\ Cardinality(S) \in Nat
  BY FS_RemoveElement, FS_CardinalityType
<1>2. Cardinality(S \ {x}) <= Cardinality(U) /\ Cardinality(U) \in Nat
      /\ Cardinality(S \ {x}) \in Nat
  BY <1>1, SubsetIsSmaller
<1> QED
  BY <1>1, <1>2

\* In memory the counter rises with each slot that is granted.
LEMMA MemoryAcquireKeeps ==
  ASSUME EdgeTypes, EdgeTypes', LimitInv, NEW r \in Requests, MemoryAcquireConc(r)
  PROVE  LimitInv'
<1> USE DEF MemoryAcquireConc
<1>0. at[r] = "conc" /\ r \notin slot /\ at \in [Requests -> Steps]
  BY NewcomerIsNotCounted DEF EdgeTypes
<1>1. CASE conc >= MaxConcurrent
  BY <1>0, <1>1, QuietStep DEF counterVars
<1>2. CASE ~(conc >= MaxConcurrent)
  <2>1. at' = [at EXCEPT ![r] = "quota"] /\ conc' = conc + 1 /\ slot' = slot \cup {r}
        /\ conc + 1 <= MaxConcurrent
    BY <1>2 DEF EdgeTypes
  <2>2. \A q \in Requests : at'[q] = IF q = r THEN "quota" ELSE at[q]
    BY <1>0, <2>1
  <2>3. Cardinality(slot') = Cardinality(slot) + 1
    BY <1>0, <2>1, SetsAreFinite, FS_AddElement
  <2>4. SlotHeldInside'
    BY <1>0, <2>1 DEF LimitInv, SlotHeldInside, EdgeTypes
  <2>5. MemoryCount'
    BY <1>0, <2>1, <2>3 DEF LimitInv, MemoryCount, EdgeTypes
  <2>6. RedisCount' /\ PositiveCounterExpires'
    BY DEF RedisCount, PositiveCounterExpires
  <2>7. lost' = {} /\ leaked' = {} /\ Raised' = slot' /\ conc' = Cardinality(slot')
        /\ \A q \in Requests : at'[q] \notin {"expire", "undo"}
    BY <2>2, <2>5 DEF MemoryCount, Raised, EdgeTypes
  <2>8. Counted' = slot'
    BY <2>7 DEF Counted, EdgeTypes
  <2>9. CounterHasReason' /\ LeftBehindHavePassed'
    BY <2>3, <2>7, <2>8, SetsAreFinite DEF CounterHasReason, LeftBehindHavePassed
  <2> QED
    BY <2>4, <2>5, <2>6, <2>9 DEF LimitInv
<1> QED
  BY <1>1, <1>2

\* On Redis the increment comes before the comparison and the grant.
LEMMA RedisAcquireKeeps ==
  ASSUME EdgeTypes, EdgeTypes', LimitInv, NEW r \in Requests, RedisAcquireConc(r)
  PROVE  LimitInv'
<1> DEFINE y == IF conc + 1 = 1 THEN "expire" ELSE AfterIncr(conc + 1)
<1>0. /\ at[r] = "conc" /\ at \in [Requests -> Steps] /\ conc \in Int
      /\ r \notin slot /\ r \notin lost /\ r \notin leaked /\ r \notin Counted
  BY NewcomerIsNotCounted DEF EdgeTypes, RedisAcquireConc
<1>1. /\ redisEnabled /\ redisEnabled' = redisEnabled
      /\ lost' = lost /\ leaked' = leaked /\ unset' = unset
      /\ at' = [at EXCEPT ![r] = y] /\ conc' = conc + 1
      /\ concKey' # "absent" /\ (concKey = "expiring" => concKey' = "expiring")
      /\ slot' = IF y = "quota" THEN slot \cup {r} ELSE slot
  BY <1>0 DEF RedisAcquireConc, Touched, EdgeTypes
<1>2. y \in {"expire", "undo", "quota"} /\ (y # "undo" => conc + 1 <= MaxConcurrent)
      /\ (y = "expire" => conc + 1 = 1)
      /\ (conc + 1 = 1 => y = "expire")
  BY <1>0 DEF AfterIncr
<1> HIDE DEF y
<1>4. \A q \in Requests : at'[q] = IF q = r THEN y ELSE at[q]
  BY <1>0, <1>1
<1>5. Raised' = Raised \cup {r} /\ Counted' = Counted \cup {r}
  BY <1>0, <1>1, <1>2, <1>4 DEF Raised, Counted
<1>6. Cardinality(Raised') \in Nat /\ Cardinality(Raised') <= Cardinality(Raised) + 1
  BY <1>5, SetsAreFinite, OneMore
<1>7. Granted' \subseteq Raised' /\ (y = "undo" => Granted' = Granted) /\ Raised' \subseteq Requests
  BY <1>0, <1>1, <1>4 DEF Granted, Raised
<1>8. IsFiniteSet(Raised')
  BY <1>7, SubsetIsSmaller
<1>9. Cardinality(Granted') \in Nat /\ Cardinality(Granted') <= Cardinality(Raised')
  BY <1>7, <1>8, SubsetIsSmaller
<1>10. SlotHeldInside'
  BY <1>0, <1>1, <1>2, <1>4 DEF LimitInv, SlotHeldInside, EdgeTypes
<1>11. MemoryCount'
  BY <1>1 DEF MemoryCount
<1>12. RedisCount'
  <2>1. Cardinality(Raised) <= conc + Cardinality(lost)
        /\ Cardinality(Granted) <= MaxConcurrent + Cardinality(lost)
    BY <1>1 DEF LimitInv, RedisCount
  <2>2. Cardinality(Granted') <= MaxConcurrent + Cardinality(lost)
    BY <1>0, <1>2, <1>6, <1>7, <1>9, <2>1, SetsAreFinite
  <2> QED
    BY <1>0, <1>1, <1>6, <2>1, <2>2, SetsAreFinite DEF RedisCount
<1>13. CounterHasReason' /\ LeftBehindHavePassed'
  <2>1. Cardinality(Counted') = Cardinality(Counted) + 1
    BY <1>0, <1>5, SetsAreFinite, FS_AddElement
  <2> QED
    BY <1>0, <1>1, <1>4, <2>1, SetsAreFinite
    DEF LimitInv, CounterHasReason, LeftBehindHavePassed, Past
<1>14. PositiveCounterExpires'
  <2>1. CASE conc + 1 = 1
    BY <1>2, <1>4, <2>1 DEF PositiveCounterExpires
  <2>2. CASE conc > 0
    BY <1>0, <1>1, <1>4, <2>2 DEF LimitInv, PositiveCounterExpires
  <2> QED
    BY <1>0, <1>1, <2>1, <2>2 DEF PositiveCounterExpires
<1> QED
  BY <1>10, <1>11, <1>12, <1>13, <1>14 DEF LimitInv

\* An increment that was executed although the command failed stays counted.
LEMMA IncrFailsKeeps ==
  ASSUME EdgeTypes, EdgeTypes', LimitInv, NEW r \in Requests, RedisIncrFails(r)
  PROVE  LimitInv'
<1>0. /\ at[r] = "conc" /\ at \in [Requests -> Steps] /\ conc \in Int
      /\ r \notin slot /\ r \notin lost /\ r \notin leaked /\ r \notin Counted
  BY NewcomerIsNotCounted DEF EdgeTypes, RedisIncrFails
<1>1. CASE UNCHANGED counterVars
  BY <1>0, <1>1, QuietStep DEF RedisIncrFails
<1>2. CASE ~UNCHANGED counterVars
  <2>1. /\ redisEnabled /\ redisEnabled' = redisEnabled
        /\ lost' = lost /\ leaked' = leaked \cup {r} /\ slot' = slot
        /\ at' = [at EXCEPT ![r] = "refused"] /\ conc' = conc + 1
        /\ unset' = (unset \/ conc + 1 = 1)
        /\ concKey' # "absent" /\ (concKey = "expiring" => concKey' = "expiring")
    BY <1>0, <1>2 DEF RedisIncrFails, Touched, EdgeTypes
  <2>2. \A q \in Requests : at'[q] = IF q = r THEN "refused" ELSE at[q]
    BY <1>0, <2>1
  <2>3. Raised' = Raised /\ Granted' = Granted
    BY <1>0, <2>1, <2>2 DEF Raised, Granted
  <2>4. Counted' = Counted \cup {r}
    BY <1>0, <2>1, <2>2 DEF Counted
  <2>5. Cardinality(Counted') = Cardinality(Counted) + 1
    BY <1>0, <2>4, SetsAreFinite, FS_AddElement
  <2>6. SlotHeldInside' /\ MemoryCount'
    BY <1>0, <2>1, <2>2 DEF LimitInv, SlotHeldInside, MemoryCount, EdgeTypes
  <2>7. RedisCount'
    BY <1>0, <2>1, <2>3, SetsAreFinite DEF LimitInv, RedisCount
  <2>8. CounterHasReason' /\ LeftBehindHavePassed'
    BY <1>0, <2>1, <2>2, <2>5, SetsAreFinite
    DEF LimitInv, CounterHasReason, LeftBehindHavePassed, Past
  <2>9. PositiveCounterExpires'
    <3>1. CASE conc + 1 = 1
      BY <2>1, <3>1, Zenon DEF PositiveCounterExpires
    <3>2. CASE conc > 0
      <4>1. concKey = "expiring" \/ unset \/ \E q \in Requests : at[q] = "expire"
        BY <2>1, <3>2 DEF LimitInv, PositiveCounterExpires
      <4>2. \A q \in Requests : at[q] = "expire" => at'[q] = "expire"
        BY <1>0, <2>2
      <4> QED
        BY <2>1, <4>1, <4>2, Zenon DEF PositiveCounterExpires
    <3>3. CASE ~(conc + 1 > 0)
      <4>1. ~(conc' > 0)
        BY <1>0, <2>1, <3>3
      <4> QED
        BY <4>1, Zenon DEF PositiveCounterExpires
    <3> QED
      BY <1>0, <3>1, <3>2, <3>3
  <2> QED
    BY <2>6, <2>7, <2>8, <2>9 DEF LimitInv
<1> QED
  BY <1>1, <1>2

\* Giving the counter its expiry grants the slot and moves no count.
LEMMA ExpireKeeps ==
  ASSUME EdgeTypes, EdgeTypes', LimitInv, NEW r \in Requests, ExpireConc(r)
  PROVE  LimitInv'
<1>0. at[r] = "expire" /\ r \notin slot /\ at \in [Requests -> Steps] /\ conc \in Int
  BY DEF LimitInv, SlotHeldInside, EdgeTypes, ExpireConc
<1>1. /\ redisEnabled /\ redisEnabled' = redisEnabled /\ lost' = lost /\ leaked' = leaked
      /\ at' = [at EXCEPT ![r] = "quota"] /\ conc' = conc
      /\ concKey' = (IF concKey = "absent" THEN "absent" ELSE "expiring")
      /\ slot' = slot \cup {r}
  <2>1. AfterIncr(1) = "quota"
    BY DEF AfterIncr
  <2>2. redisEnabled
    BY <1>0, Zenon DEF LimitInv, MemoryCount
  <2> QED
    BY <2>1, <2>2 DEF ExpireConc, WithExpiry
<1>2. \A q \in Requests : at'[q] = IF q = r THEN "quota" ELSE at[q]
  BY <1>0, <1>1
<1>3. Raised' = Raised /\ Granted' = Granted /\ Counted' = Counted
  BY <1>0, <1>1, <1>2 DEF Raised, Granted, Counted
<1>5. SlotHeldInside'
  BY <1>0, <1>1, <1>2 DEF LimitInv, SlotHeldInside, EdgeTypes
<1>6. MemoryCount'
  BY <1>1 DEF MemoryCount
<1>7. RedisCount'
  BY <1>1, <1>3 DEF LimitInv, RedisCount
<1>8. CounterHasReason' /\ LeftBehindHavePassed'
  BY <1>1, <1>2, <1>3 DEF LimitInv, CounterHasReason, LeftBehindHavePassed, Past
<1>9. PositiveCounterExpires'
  <2>1. concKey = "absent" => conc = 0
    BY <1>1 DEF LimitInv, RedisCount
  <2> QED
    BY <1>0, <1>1, <2>1 DEF PositiveCounterExpires
<1> QED
  BY <1>5, <1>6, <1>7, <1>8, <1>9 DEF LimitInv

\* When that fails the request is refused and stays counted.
LEMMA ExpireFailsKeeps ==
  ASSUME EdgeTypes, EdgeTypes', LimitInv, NEW r \in Requests, ExpireFails(r)
  PROVE  LimitInv'
<1>0. at[r] = "expire" /\ r \notin slot /\ at \in [Requests -> Steps] /\ conc \in Int
  BY DEF LimitInv, SlotHeldInside, EdgeTypes, ExpireFails
<1>1. redisEnabled /\ (concKey = "absent" => conc = 0)
  BY <1>0, Zenon DEF LimitInv, MemoryCount, RedisCount
<1>2. /\ redisEnabled' = redisEnabled /\ lost' = lost /\ slot' = slot
      /\ leaked' = leaked \cup ({r} \ lost)
      /\ at' = [at EXCEPT ![r] = "refused"] /\ conc' = conc
      /\ unset' \/ concKey' = (IF concKey = "absent" THEN "absent" ELSE "expiring")
      /\ concKey' = "absent" <=> concKey = "absent"
  BY <1>1 DEF ExpireFails, WithExpiry, Leak
<1>3. \A q \in Requests : at'[q] = IF q = r THEN "refused" ELSE at[q]
  BY <1>0, <1>2
<1>4. Raised' \subseteq Raised /\ Granted' \subseteq Granted /\ Counted' = Counted
  BY <1>0, <1>2, <1>3 DEF Raised, Granted, Counted
<1>5. /\ Cardinality(Raised') \in Nat /\ Cardinality(Raised') <= Cardinality(Raised)
      /\ Cardinality(Granted') \in Nat /\ Cardinality(Granted') <= Cardinality(Granted)
  BY <1>4, SetsAreFinite, SubsetIsSmaller
<1>6. SlotHeldInside'
  BY <1>0, <1>2, <1>3 DEF LimitInv, SlotHeldInside, EdgeTypes
<1>7. MemoryCount'
  BY <1>1, <1>2 DEF MemoryCount
<1>8. RedisCount'
  <2>1. Cardinality(Raised) <= conc + Cardinality(lost)
        /\ Cardinality(Granted) <= MaxConcurrent + Cardinality(lost)
    BY <1>1 DEF LimitInv, RedisCount
  <2> QED
    BY <1>0, <1>1, <1>2, <1>5, <2>1, SetsAreFinite DEF RedisCount
<1>9. CounterHasReason' /\ LeftBehindHavePassed'
  BY <1>2, <1>3, <1>4 DEF LimitInv, CounterHasReason, LeftBehindHavePassed, Past
<1>10. PositiveCounterExpires'
  BY <1>0, <1>1, <1>2 DEF PositiveCounterExpires
<1> QED
  BY <1>6, <1>7, <1>8, <1>9, <1>10 DEF LimitInv

\* One decrement on Redis, executed or not, by a request that gives up its claim
\* to be counted.
LEMMA DecrCounts ==
  ASSUME EdgeTypes, EdgeTypes', LimitInv, NEW r \in Requests, Decr(r), redisEnabled,
         lost' = lost, r \in Raised, Raised' = Raised \ {r}, Granted' \subseteq Granted
  PROVE  RedisCount' /\ CounterHasReason'
<1>0. conc \in Int /\ concKey \in {"absent", "plain", "expiring"}
  BY DEF EdgeTypes
<1>1. Cardinality(Raised) <= conc + Cardinality(lost)
      /\ Cardinality(Granted) <= MaxConcurrent + Cardinality(lost)
      /\ (concKey = "absent" => conc = 0)
  BY DEF LimitInv, RedisCount
<1>2. Cardinality(Raised') \in Nat /\ Cardinality(Raised') <= Cardinality(Raised) - 1
  BY SetsAreFinite, OneFewer
<1>3. Cardinality(Granted') \in Nat /\ Cardinality(Granted') <= Cardinality(Granted)
  BY SetsAreFinite, SubsetIsSmaller
<1>4. conc' \in {conc, conc - 1} /\ (concKey' = "absent" => conc' = 0)
  BY <1>0, <1>1 DEF Decr, Touched
<1>5. RedisCount'
  BY <1>0, <1>1, <1>2, <1>3, <1>4, SetsAreFinite DEF RedisCount
<1>6. Counted = leaked \cup (Raised \ lost) /\ Counted' = leaked' \cup (Raised' \ lost')
  BY DEF Counted, Raised
<1>7. Counted' \subseteq Requests
  BY <1>6 DEF EdgeTypes, Raised
<1>8. IsFiniteSet(Counted') /\ Cardinality(Counted') \in Nat
  BY <1>7, SubsetIsSmaller
<1>9. CASE conc' = conc - 1 /\ leaked' = leaked
  <2>1. Counted \ {r} \subseteq Counted'
    BY <1>6, <1>9
  <2>2. Cardinality(Counted) - 1 <= Cardinality(Counted')
    BY <1>8, <2>1, SetsAreFinite, AtMostOneFewer
  <2> QED
    BY <1>0, <1>5, <1>8, <1>9, <2>2, SetsAreFinite DEF LimitInv, CounterHasReason
<1>10. CASE Leak(r) /\ conc' = conc
  <2>1. Counted \subseteq Counted'
    BY <1>6, <1>10 DEF Leak
  <2>2. Cardinality(Counted) <= Cardinality(Counted')
    BY <1>8, <2>1, SubsetIsSmaller
  <2> QED
    BY <1>0, <1>5, <1>8, <1>10, <2>2, SetsAreFinite DEF LimitInv, CounterHasReason
<1> QED
  BY <1>9, <1>10 DEF Decr

\* A counter that is only lowered keeps the expiry it has.
LEMMA DecrExpires ==
  ASSUME EdgeTypes, LimitInv, NEW r \in Requests, Decr(r), redisEnabled, unset' = unset,
         \A q \in Requests : at[q] = "expire" => at'[q] = "expire"
  PROVE  PositiveCounterExpires'
<1>1. conc \in Int /\ conc' \in {conc, conc - 1}
      /\ (concKey = "expiring" => concKey' = "expiring")
  BY DEF EdgeTypes, Decr, Touched
<1> QED
  BY <1>1 DEF LimitInv, PositiveCounterExpires

\* A refused request takes back its own increment, or Redis fails to.
LEMMA UndoKeeps ==
  ASSUME EdgeTypes, EdgeTypes', LimitInv, NEW r \in Requests, UndoConc(r)
  PROVE  LimitInv'
<1>0. at[r] = "undo" /\ r \notin slot /\ at \in [Requests -> Steps] /\ Decr(r)
  BY DEF LimitInv, SlotHeldInside, EdgeTypes, UndoConc
<1>1. /\ redisEnabled /\ redisEnabled' = redisEnabled /\ lost' = lost /\ slot' = slot
      /\ unset' = unset /\ at' = [at EXCEPT ![r] = "refused"]
      /\ leaked' \subseteq leaked \cup {r}
  BY <1>0 DEF UndoConc, Decr, Leak, LimitInv, MemoryCount
<1>2. \A q \in Requests : at'[q] = IF q = r THEN "refused" ELSE at[q]
  BY <1>0, <1>1
<1>3. r \in Raised /\ Raised' = Raised \ {r} /\ Granted' = Granted
  BY <1>0, <1>1, <1>2 DEF Raised, Granted
<1>4. RedisCount' /\ CounterHasReason'
  BY <1>0, <1>1, <1>3, DecrCounts
<1>5. SlotHeldInside'
  BY <1>0, <1>1, <1>2 DEF LimitInv, SlotHeldInside, EdgeTypes
<1>6. MemoryCount'
  BY <1>1 DEF MemoryCount
<1>7. LeftBehindHavePassed'
  BY <1>1, <1>2 DEF LimitInv, LeftBehindHavePassed, Past
<1>8. PositiveCounterExpires'
  BY <1>0, <1>1, <1>2, DecrExpires
<1> QED
  BY <1>4, <1>5, <1>6, <1>7, <1>8 DEF LimitInv

\* The release callback, at the end of the request or when the client leaves.
LEMMA ReleaseKeeps ==
  ASSUME EdgeTypes, EdgeTypes', LimitInv, NEW r \in Requests, at[r] \in SlotSteps,
         NEW y \in {"done", "handler", "bumpExists", "bumpIncr"},
         at' = [at EXCEPT ![r] = y], redisEnabled' = redisEnabled, ReleaseSlot(r)
  PROVE  LimitInv'
<1>0. /\ at \in [Requests -> Steps] /\ conc \in Int /\ lost' = lost /\ unset' = unset
      /\ slot' = slot \ {r} /\ slot \subseteq Requests
      /\ \A q \in Requests : at'[q] = IF q = r THEN y ELSE at[q]
  BY DEF EdgeTypes, ReleaseSlot
<1>1. leaked' \subseteq leaked \cup {r}
  BY DEF ReleaseSlot, Decr, Leak
<1>2. SlotHeldInside' /\ LeftBehindHavePassed'
  BY <1>0, <1>1 DEF LimitInv, SlotHeldInside, LeftBehindHavePassed, Past
<1>3. CASE r \notin slot
  <2>1. slot' = slot /\ conc' = conc /\ concKey' = concKey /\ leaked' = leaked
    BY <1>0, <1>3 DEF ReleaseSlot
  <2>2. Raised' = Raised /\ Granted' = Granted /\ Counted' = Counted
    BY <1>0, <1>3, <2>1 DEF Raised, Granted, Counted
  <2>3. MemoryCount' /\ RedisCount' /\ CounterHasReason' /\ PositiveCounterExpires'
    BY <1>0, <2>1, <2>2
    DEF LimitInv, MemoryCount, RedisCount, CounterHasReason, PositiveCounterExpires
  <2> QED
    BY <1>2, <2>3 DEF LimitInv
<1>4. CASE r \in slot /\ ~redisEnabled
  <2>1. Cardinality(slot') = Cardinality(slot) - 1 /\ Cardinality(slot') \in Nat
    BY <1>0, <1>4, SetsAreFinite, FS_RemoveElement, OneFewer
  <2>2. conc = Cardinality(slot) /\ conc <= MaxConcurrent /\ concKey = "absent"
        /\ lost = {} /\ leaked = {}
        /\ \A q \in Requests : at[q] \notin {"expire", "undo"}
    BY <1>4 DEF LimitInv, MemoryCount
  <2>3. conc' = conc - 1 /\ concKey' = concKey /\ leaked' = leaked
    BY <1>4, <2>1, <2>2, SetsAreFinite DEF ReleaseSlot
  <2>4. MemoryCount'
    BY <1>0, <2>1, <2>2, <2>3 DEF MemoryCount
  <2>5. RedisCount' /\ PositiveCounterExpires'
    BY <1>4 DEF RedisCount, PositiveCounterExpires
  <2>6. Counted' = slot'
    BY <1>0, <2>2, <2>3 DEF Counted
  <2>7. CounterHasReason'
    BY <1>0, <2>1, <2>2, <2>3, <2>6 DEF CounterHasReason
  <2> QED
    BY <1>2, <2>4, <2>5, <2>7 DEF LimitInv
<1>5. CASE r \in slot /\ redisEnabled
  <2>1. Decr(r)
    BY <1>5 DEF ReleaseSlot
  <2>2. r \in Raised /\ Raised' = Raised \ {r} /\ Granted' \subseteq Granted
    BY <1>0, <1>5 DEF Raised, Granted
  <2>3. RedisCount' /\ CounterHasReason'
    BY <1>0, <1>5, <2>1, <2>2, DecrCounts
  <2>4. MemoryCount'
    BY <1>5 DEF MemoryCount
  <2>5. PositiveCounterExpires'
    BY <1>0, <1>5, <2>1, DecrExpires
  <2> QED
    BY <1>2, <2>3, <2>4, <2>5 DEF LimitInv
<1> QED
  BY <1>3, <1>4, <1>5

\* When the whole counter expires, what it counted is booked as lost.
LEMMA CounterExpiresKeeps ==
  ASSUME EdgeTypes, EdgeTypes', LimitInv, CounterExpires
  PROVE  LimitInv'
<1>0. /\ redisEnabled /\ redisEnabled' = redisEnabled /\ at' = at /\ slot' = slot
      /\ conc' = 0 /\ lost' = lost \cup Raised /\ leaked' = {}
  BY DEF CounterExpires, LimitInv, MemoryCount, Raised, EdgeTypes
<1>1. Raised' = Raised /\ Granted' = Granted /\ Past' = Past /\ Granted \subseteq Raised
  BY <1>0 DEF Raised, Granted, Past
<1>2. Raised \subseteq lost' /\ lost' \subseteq Requests
  BY <1>0 DEF EdgeTypes
<1>3. IsFiniteSet(lost') /\ Cardinality(lost') \in Nat
  BY <1>2, SubsetIsSmaller
<1>4. Cardinality(Raised) <= Cardinality(lost')
  BY <1>2, <1>3, SubsetIsSmaller
<1>5. Cardinality(Granted) <= Cardinality(Raised)
  BY <1>1, SetsAreFinite, SubsetIsSmaller
<1>6. SlotHeldInside' /\ MemoryCount' /\ PositiveCounterExpires'
  BY <1>0 DEF LimitInv, SlotHeldInside, MemoryCount, PositiveCounterExpires
<1>7. RedisCount'
  BY <1>0, <1>1, <1>3, <1>4, <1>5, SetsAreFinite DEF RedisCount
<1>8. Raised \subseteq Past
  BY DEF LimitInv, SlotHeldInside, Raised, Past
<1>9. LeftBehindHavePassed'
  BY <1>0, <1>1, <1>8 DEF LimitInv, LeftBehindHavePassed
<1>10. Counted' \subseteq Requests
  BY DEF Counted, EdgeTypes
<1>11. CounterHasReason'
  BY <1>0, <1>10, SubsetIsSmaller DEF CounterHasReason
<1> QED
  BY <1>6, <1>7, <1>9, <1>11 DEF LimitInv

\* A step that touches neither counter, slots nor places of requests.
LEMMA LimitsUntouched ==
  ASSUME LimitInv, UNCHANGED <<redisEnabled, at, counterVars>>
  PROVE  LimitInv'
BY DEF LimitInv, SlotHeldInside, MemoryCount, RedisCount, CounterHasReason, Counted,
       LeftBehindHavePassed, PositiveCounterExpires, Raised, Granted, Past, counterVars

\* The relation of slots and counter is inductive.
LEMMA LimitInvNext == EdgeTypes /\ EdgeTypes' /\ LimitInv /\ [Next]_edgeVars => LimitInv'
<1> SUFFICES ASSUME EdgeTypes, EdgeTypes', LimitInv, [Next]_edgeVars PROVE LimitInv'
  OBVIOUS
<1> USE DEF limitVars, quotaVars, admissionVars
<1>0. at \in [Requests -> Steps] /\ \A q \in slot : at[q] \in SlotSteps
  BY DEF EdgeTypes, LimitInv, SlotHeldInside
<1>1. ASSUME NEW r \in Requests, Middleware(r) PROVE LimitInv'
  <2>1. CASE AuthMiddleware(r)
    BY <2>1, <1>0, QuietStep DEF AuthMiddleware
  <2>2. CASE RateLimitRpm(r)
    BY <2>2, <1>0, QuietStep DEF RateLimitRpm
  <2>3. CASE VoiceWindow(r)
    BY <2>3, <1>0, QuietStep DEF VoiceWindow
  <2>4. CASE MemoryAcquireConc(r)
    BY <2>4, MemoryAcquireKeeps
  <2>5. CASE RedisAcquireConc(r)
    BY <2>5, RedisAcquireKeeps
  <2>6. CASE ExpireConc(r)
    BY <2>6, ExpireKeeps
  <2>7. CASE UndoConc(r)
    BY <2>7, UndoKeeps
  <2>8. CASE QuotaMiddleware(r)
    <3> DEFINE y == CASE Quota = 0 -> "handler"
                      [] Quota > 0 /\ ~redisEnabled -> QuotaVerdict(used)
                      [] Quota > 0 /\ redisEnabled /\ cache = NoCache -> "quotaRead"
                      [] OTHER -> QuotaVerdict(cache)
    <3>1. \A n : QuotaVerdict(n) \in {"handler", "closing"}
      BY DEF QuotaVerdict
    <3>2. y \in {"handler", "closing", "quotaRead"}
      BY <3>1
    <3>3. at[r] = "quota" /\ at' = [at EXCEPT ![r] = y]
      BY <2>8 DEF QuotaMiddleware
    <3> HIDE DEF y
    <3> QED
      BY <2>8, <3>2, <3>3, <1>0, QuietStep DEF QuotaMiddleware
  <2>9. CASE ReadLedger(r)
    BY <2>9, <1>0, QuietStep DEF ReadLedger
  <2>10. CASE FillCache(r)
    BY <2>10, <1>0, QuietStep DEF FillCache, QuotaVerdict
  <2>11. CASE BumpExists(r)
    BY <2>11, <1>0, QuietStep DEF BumpExists
  <2>12. CASE BumpIncr(r)
    BY <2>12, <1>0, QuietStep DEF BumpIncr
  <2>13. CASE Finish(r)
    BY <2>13, ReleaseKeeps DEF Finish
  <2>14. CASE RedisIncrFails(r)
    BY <2>14, IncrFailsKeeps
  <2>15. CASE ExpireFails(r)
    BY <2>15, ExpireFailsKeeps
  <2>16. CASE QuotaUnavailable(r)
    BY <2>16, <1>0, QuietStep DEF QuotaUnavailable
  <2> QED
    BY <1>1, <2>1, <2>2, <2>3, <2>4, <2>5, <2>6, <2>7, <2>8, <2>9, <2>10, <2>11, <2>12, <2>13,
       <2>14, <2>15, <2>16
    DEF Middleware
<1>2. ASSUME NEW r \in Requests, Charge(r) \/ EndUncharged(r) PROVE LimitInv'
  BY <1>2, <1>0, QuietStep DEF Charge, EndUncharged
<1>3. ASSUME NEW r \in Requests, Disconnect(r) PROVE LimitInv'
  <2>1. at' = [at EXCEPT ![r] = at[r]] /\ at[r] \in {"handler", "bumpExists", "bumpIncr"}
    BY <1>0, <1>3 DEF Disconnect
  <2> QED
    BY <1>3, <2>1, ReleaseKeeps DEF Disconnect
<1>4. CASE Surroundings
  <2>1. CASE CounterExpires
    BY <2>1, CounterExpiresKeeps
  <2>2. CASE CacheExpires \/ OpenPeriod \/ \E r \in Requests : UsageReads(r) \/ UsageSets(r)
    BY <2>2, LimitsUntouched DEF CacheExpires, OpenPeriod, UsageReads, UsageSets
  <2>3. CASE UNCHANGED admissionVars
    BY <2>3, LimitsUntouched
  <2> QED
    BY <1>3, <1>4, <2>1, <2>2, <2>3 DEF Surroundings, Environment
<1>5. ASSUME NEW r \in Requests, HandleRequest(r) PROVE LimitInv'
  <2>1. CASE UNCHANGED admissionVars
    BY <2>1, LimitsUntouched
  <2> QED
    BY <1>1, <1>2, <1>5, <2>1 DEF HandleRequest, Admit, LookUpTrace, ClaimTrace, RunHandler, CloseTrace
<1>6. CASE UNCHANGED edgeVars
  BY <1>6, LimitsUntouched DEF edgeVars
<1> QED
  BY <1>4, <1>5, <1>6 DEF Next

-----------------------------------------------------------------------------
(* The cached quota figure *)

\* A request about to increment the cached figure has been charged, and one that
\* can still be charged has not.
Bumping == {r \in Requests : at[r] \in {"bumpExists", "bumpIncr"}}
ChargedInOrder ==
  /\ Bumping \subseteq charged
  /\ \A r \in charged : at[r] \in {"bumpExists", "bumpIncr", "closing", "done"}

\* A figure without an expiry is no more than the charges of the requests that
\* are past their increment.
StickyIsBumped ==
  cache # NoCache /\ ~cacheTtl => cache <= Cost * Cardinality(charged \ Bumping)

CacheInv == ChargedInOrder /\ StickyIsBumped

\* At the start no figure is cached.
LEMMA CacheInvInit == Init => CacheInv
<1> SUFFICES ASSUME Init PROVE CacheInv
  OBVIOUS
<1>1. charged = {} /\ cache = NoCache /\ at \in [Requests -> {"idle", "handler", "refused"}]
  BY DEF Init, AdmissionInit, InHandler
<1> QED
  BY <1>1 DEF CacheInv, ChargedInOrder, StickyIsBumped, Bumping

\* More requests past their increment can only raise the bound.
LEMMA BoundGrows ==
  ASSUME EdgeTypes, EdgeTypes', charged \ Bumping \subseteq charged' \ Bumping'
  PROVE  /\ Cost * Cardinality(charged \ Bumping) \in Nat
         /\ Cost * Cardinality(charged' \ Bumping') \in Nat
         /\ Cost * Cardinality(charged \ Bumping) <= Cost * Cardinality(charged' \ Bumping')
<1>1. charged' \ Bumping' \subseteq Requests
  BY DEF EdgeTypes
<1>2. IsFiniteSet(charged' \ Bumping')
  BY <1>1, SubsetIsSmaller
<1>3. /\ Cardinality(charged \ Bumping) \in Nat /\ Cardinality(charged' \ Bumping') \in Nat
      /\ Cardinality(charged \ Bumping) <= Cardinality(charged' \ Bumping')
  BY <1>2, SubsetIsSmaller
<1>4. \A a, b \in Nat : a <= b => Cost * a \in Nat /\ Cost * b \in Nat /\ Cost * a <= Cost * b
  OBVIOUS
<1> QED
  BY <1>3, <1>4

\* A step that leaves the cache alone, or gives it an expiry, keeps the bound.
LEMMA CacheQuiet ==
  ASSUME EdgeTypes, EdgeTypes', CacheInv, ChargedInOrder',
         charged \ Bumping \subseteq charged' \ Bumping',
         UNCHANGED <<cache, cacheTtl>> \/ cacheTtl' \/ cache' = NoCache
  PROVE  CacheInv'
<1>1. /\ Cost * Cardinality(charged \ Bumping) \in Nat
      /\ Cost * Cardinality(charged' \ Bumping') \in Nat
      /\ Cost * Cardinality(charged \ Bumping) <= Cost * Cardinality(charged' \ Bumping')
  BY BoundGrows
<1>2. CASE UNCHANGED <<cache, cacheTtl>>
  <2>1. CASE cache # NoCache /\ ~cacheTtl
    <3>1. cache \in Nat /\ cache <= Cost * Cardinality(charged \ Bumping)
      BY <2>1 DEF CacheInv, StickyIsBumped, EdgeTypes
    <3> QED
      BY <1>1, <1>2, <3>1 DEF CacheInv, StickyIsBumped
  <2>2. CASE ~(cache # NoCache /\ ~cacheTtl)
    BY <1>2, <2>2 DEF CacheInv, StickyIsBumped
  <2> QED
    BY <2>1, <2>2
<1>3. CASE cacheTtl' \/ cache' = NoCache
  BY <1>3 DEF CacheInv, StickyIsBumped
<1> QED
  BY <1>2, <1>3

\* The increment counts a charge that the bound did not count yet.
LEMMA BumpKeeps ==
  ASSUME EdgeTypes, EdgeTypes', CacheInv, NEW r \in Requests, BumpIncr(r)
  PROVE  CacheInv'
<1>0. /\ at \in [Requests -> Steps] /\ at[r] = "bumpIncr" /\ at'[r] = "closing"
      /\ \A q \in Requests \ {r} : at'[q] = at[q]
      /\ charged' = charged /\ cacheTtl' = cacheTtl /\ cache \in Nat \cup {NoCache}
      /\ charged \subseteq Requests
  BY DEF EdgeTypes, BumpIncr
<1>1. ChargedInOrder'
  BY <1>0 DEF CacheInv, ChargedInOrder, Bumping
<1>2. r \in Bumping /\ r \in charged /\ Bumping' = Bumping \ {r}
  BY <1>0 DEF Bumping, CacheInv, ChargedInOrder
<1> DEFINE S == charged \ Bumping
<1>3. charged' \ Bumping' = S \cup {r} /\ r \notin S /\ S \subseteq Requests
  BY <1>0, <1>2
<1>4. IsFiniteSet(S) /\ Cardinality(S) \in Nat
  BY <1>3, SubsetIsSmaller
<1>5. Cardinality(charged' \ Bumping') = Cardinality(S) + 1
  BY <1>3, <1>4, FS_AddElement
<1>6. /\ Cost * (Cardinality(S) + 1) = Cost * Cardinality(S) + Cost
      /\ Cost * Cardinality(S) \in Nat
  BY <1>4
<1>7. cache # NoCache /\ ~cacheTtl => cache <= Cost * Cardinality(S)
  BY DEF CacheInv, StickyIsBumped
<1> HIDE DEF S
<1>8. StickyIsBumped'
  <2>1. ASSUME cache' # NoCache, ~cacheTtl PROVE cache' <= Cost * Cardinality(S) + Cost
    <3>1. cache' \in {cache, (IF cache = NoCache THEN 0 ELSE cache) + Cost}
      BY DEF BumpIncr
    <3> QED
      BY <1>0, <1>6, <1>7, <2>1, <3>1 DEF NoCache
  <2> QED
    BY <1>0, <1>5, <1>6, <2>1 DEF StickyIsBumped
<1> QED
  BY <1>1, <1>8 DEF CacheInv

\* What a figure without an expiry counts is inductive.
LEMMA CacheInvNext == EdgeTypes /\ EdgeTypes' /\ CacheInv /\ [Next]_edgeVars => CacheInv'
<1> SUFFICES ASSUME EdgeTypes, EdgeTypes', CacheInv, [Next]_edgeVars PROVE CacheInv'
  OBVIOUS
<1> USE DEF limitVars, quotaVars, admissionVars
<1>0. /\ at \in [Requests -> Steps] /\ cache \in Nat \cup {NoCache} /\ cacheTtl \in BOOLEAN
      /\ figure \in [Requests -> Nat] /\ charged \subseteq Requests
      /\ ChargedInOrder
  BY DEF EdgeTypes, CacheInv
<1>1. ASSUME NEW r \in Requests, charged' = charged,
             UNCHANGED <<cache, cacheTtl>> \/ cacheTtl',
             at[r] \notin {"bumpIncr", "closing", "done"}, NEW y \in Steps,
             at[r] = "bumpExists" => y \in {"bumpIncr", "closing"},
             at[r] # "bumpExists" => y \notin {"bumpExists", "bumpIncr"},
             at' = [at EXCEPT ![r] = y]
      PROVE  CacheInv'
  <2>1. \A q \in Requests : at'[q] = IF q = r THEN y ELSE at[q]
    BY <1>0, <1>1
  <2>2. ChargedInOrder'
    BY <1>0, <1>1, <2>1 DEF ChargedInOrder, Bumping
  <2>3. charged \ Bumping \subseteq charged' \ Bumping'
    BY <1>0, <1>1, <2>1 DEF ChargedInOrder, Bumping
  <2> QED
    BY <1>1, <2>2, <2>3, CacheQuiet
<1>2. ASSUME UNCHANGED <<at, charged>>,
             UNCHANGED <<cache, cacheTtl>> \/ cacheTtl' \/ cache' = NoCache
      PROVE  CacheInv'
  <2>1. ChargedInOrder' /\ Bumping' = Bumping
    BY <1>0, <1>2 DEF ChargedInOrder, Bumping
  <2> QED
    BY <1>2, <2>1, CacheQuiet
<1>3. ASSUME NEW r \in Requests, Middleware(r) PROVE CacheInv'
  <2>1. CASE AuthMiddleware(r)
    BY <2>1, <1>1 DEF AuthMiddleware
  <2>2. CASE RateLimitRpm(r)
    BY <2>2, <1>1 DEF RateLimitRpm
  <2>3. CASE VoiceWindow(r)
    BY <2>3, <1>1 DEF VoiceWindow
  <2>4. CASE MemoryAcquireConc(r)
    BY <2>4, <1>1 DEF MemoryAcquireConc
  <2>5. CASE RedisAcquireConc(r)
    BY <2>5, <1>1 DEF RedisAcquireConc, AfterIncr
  <2>6. CASE ExpireConc(r) \/ ExpireFails(r)
    BY <2>6, <1>1 DEF ExpireConc, AfterIncr, ExpireFails
  <2>7. CASE UndoConc(r) \/ RedisIncrFails(r)
    BY <2>7, <1>1 DEF UndoConc, RedisIncrFails
  <2>8. CASE QuotaMiddleware(r)
    <3> DEFINE y == CASE Quota = 0 -> "handler"
                      [] Quota > 0 /\ ~redisEnabled -> QuotaVerdict(used)
                      [] Quota > 0 /\ redisEnabled /\ cache = NoCache -> "quotaRead"
                      [] OTHER -> QuotaVerdict(cache)
    <3>1. \A n : QuotaVerdict(n) \in {"handler", "closing"}
      BY DEF QuotaVerdict
    <3>2. y \in {"handler", "closing", "quotaRead"}
      BY <3>1
    <3>3. at[r] = "quota" /\ at' = [at EXCEPT ![r] = y]
      BY <2>8 DEF QuotaMiddleware
    <3> HIDE DEF y
    <3> QED
      BY <2>8, <3>2, <3>3, <1>1 DEF QuotaMiddleware
  <2>9. CASE ReadLedger(r) \/ QuotaUnavailable(r)
    BY <2>9, <1>1 DEF ReadLedger, QuotaUnavailable
  <2>10. CASE FillCache(r)
    <3>1. QuotaVerdict(figure[r]) \in {"handler", "closing"}
      BY DEF QuotaVerdict
    <3> QED
      BY <2>10, <3>1, <1>1 DEF FillCache
  <2>11. CASE BumpExists(r)
    BY <2>11, <1>1 DEF BumpExists
  <2>12. CASE BumpIncr(r)
    BY <2>12, BumpKeeps
  <2>13. CASE Finish(r)
    <3>1. /\ at[r] = "closing" /\ UNCHANGED <<charged, cache, cacheTtl>>
          /\ \A q \in Requests : at'[q] = IF q = r THEN "done" ELSE at[q]
      BY <1>0, <2>13 DEF Finish
    <3>2. ChargedInOrder' /\ Bumping' = Bumping
      BY <1>0, <3>1 DEF ChargedInOrder, Bumping
    <3> QED
      BY <3>1, <3>2, CacheQuiet
  <2> QED
    BY <1>3, <2>1, <2>2, <2>3, <2>4, <2>5, <2>6, <2>7, <2>8, <2>9, <2>10, <2>11, <2>12, <2>13
    DEF Middleware
<1>4. ASSUME NEW r \in Requests, Charge(r) PROVE CacheInv'
  <2> DEFINE y == IF redisEnabled THEN "bumpExists" ELSE "closing"
  <2>1. /\ at[r] = "handler" /\ charged' = charged \cup {r} /\ UNCHANGED <<cache, cacheTtl>>
        /\ \A q \in Requests : at'[q] = IF q = r THEN y ELSE at[q]
    BY <1>0, <1>4 DEF Charge
  <2>2. r \notin charged
    BY <1>0, <2>1 DEF ChargedInOrder
  <2>3. ChargedInOrder' /\ charged \ Bumping \subseteq charged' \ Bumping'
    BY <1>0, <2>1, <2>2 DEF ChargedInOrder, Bumping
  <2> QED
    BY <2>1, <2>3, CacheQuiet
<1>5. ASSUME NEW r \in Requests, EndUncharged(r) PROVE CacheInv'
  BY <1>5, <1>1 DEF EndUncharged
<1>6. CASE Surroundings
  <2>1. CASE CacheExpires
    BY <2>1, <1>2 DEF CacheExpires
  <2>2. CASE CounterExpires \/ OpenPeriod \/ \E r \in Requests : Disconnect(r)
    BY <2>2, <1>2 DEF CounterExpires, OpenPeriod, Disconnect
  <2>3. CASE UNCHANGED admissionVars
    BY <2>3, <1>2
  <2>4. CASE \E r \in Requests : UsageReads(r) \/ UsageSets(r)
    BY <2>4, <1>2 DEF UsageReads, UsageSets
  <2> QED
    BY <1>6, <2>1, <2>2, <2>3, <2>4 DEF Surroundings, Environment
<1>7. ASSUME NEW r \in Requests, HandleRequest(r) PROVE CacheInv'
  <2>1. CASE UNCHANGED admissionVars
    BY <2>1, <1>2
  <2> QED
    BY <1>3, <1>4, <1>5, <1>7, <2>1
    DEF HandleRequest, Admit, LookUpTrace, ClaimTrace, RunHandler, CloseTrace
<1>8. CASE UNCHANGED edgeVars
  BY <1>8, <1>2 DEF edgeVars
<1> QED
  BY <1>6, <1>7, <1>8 DEF Next

\* So a figure without an expiry counts no charge twice.
LEMMA StickyIsCounted == EdgeTypes /\ CacheInv => StickyFigureCounted
<1> SUFFICES ASSUME EdgeTypes, CacheInv, cache # NoCache, ~cacheTtl
             PROVE  cache <= Cost * Cardinality(charged)
  BY DEF StickyFigureCounted
<1>1. charged \subseteq Requests /\ cache \in Nat
  BY DEF EdgeTypes
<1>2. IsFiniteSet(charged)
  BY <1>1, SubsetIsSmaller
<1>3. /\ Cardinality(charged \ Bumping) \in Nat /\ Cardinality(charged) \in Nat
      /\ Cardinality(charged \ Bumping) <= Cardinality(charged)
  BY <1>2, SubsetIsSmaller
<1>4. \A a, b \in Nat : a <= b => Cost * a \in Nat /\ Cost * b \in Nat /\ Cost * a <= Cost * b
  OBVIOUS
<1> QED
  BY <1>1, <1>3, <1>4 DEF CacheInv, StickyIsBumped

\* The counter's bound on the slots that are held.
LEMMA SlotsAreBounded == EdgeTypes /\ LimitInv => ConcurrencyBounded
<1> SUFFICES ASSUME EdgeTypes, LimitInv PROVE ConcurrencyBounded
  OBVIOUS
<1>1. slot \subseteq Granted
  BY DEF EdgeTypes, Granted
<1>2. Cardinality(slot) <= Cardinality(Granted)
  BY <1>1, SetsAreFinite, SubsetIsSmaller
<1>3. CASE redisEnabled
  BY <1>2, <1>3, SetsAreFinite DEF LimitInv, RedisCount, ConcurrencyBounded
<1>4. CASE ~redisEnabled
  BY <1>4, SetsAreFinite DEF LimitInv, MemoryCount, ConcurrencyBounded
<1> QED
  BY <1>3, <1>4

\* Whatever commands Redis fails, however long requests run after their counter
\* has expired and in whatever order they, disconnects, expiries and the usage
\* worker interleave: no more requests of a key hold a slot than its plan allows,
\* but for slots whose counter expired; the counter of middleware/quota.ts is
\* above the requests it counts, or without an expiry, only through a command
\* that failed; and a cached figure of quotaCheck.ts without an expiry counts
\* every charge once.
THEOREM LimitsAreKept == Spec => []LimitsHold
<1> DEFINE Inv == EdgeTypes /\ LimitInv /\ CacheInv
<1>1. Init => Inv
  BY EdgeTypesInit, LimitInvInit, CacheInvInit
<1>2. Inv /\ [Next]_edgeVars => Inv'
  BY EdgeTypesNext, LimitInvNext, CacheInvNext
<1>3. Inv => LimitsHold
  BY SlotsAreBounded, StickyIsCounted DEF LimitsHold, LimitInv
<1> QED
  BY <1>1, <1>2, <1>3, PTL DEF Spec

-----------------------------------------------------------------------------
(* The captures *)

\* Sessions are created in order.
CreatedInOrder == \E n \in 0 .. MaxSessions : Created = 1 .. n

\* The arm action is working on a session that can exist, or does.
ArmingHasRoom ==
  /\ arming = "create" => Newest < MaxSessions
  /\ arming \in {"post", "undo"} => Newest > 0

\* The panel, its refreshes and the cancel action are about existing sessions.
ShownExists ==
  /\ IF panel.id = None THEN panel.status = "OFF" ELSE panel.id \in Created
  /\ \A v \in polls : v.id \in Created
  /\ IF cancelling.step = "idle" THEN cancelling = NoCancel ELSE cancelling.id \in Created

\* A session nobody has claimed has recorded nothing.
UnclaimedIsEmpty ==
  \A s \in Sessions : session[s] \in {"none", "ARMED"} => captured[s] = None

\* A session that has recorded a request is over, or the request's recorder is
\* still to write its outcome, or has failed to.
RecordedHasRecorder ==
  \A s \in Sessions : captured[s] # None =>
    \/ session[s] \in Terminal \/ recorder[captured[s]] = s
    \/ session[s] = "CAPTURING" /\ s \in unwritten

\* A request is claiming only inside the chat handler, and has a recorder only
\* after its claim and before its answer.
RecorderInHandler ==
  /\ \A r \in Requests : phase[r] = "claiming" => r \in Callers /\ at[r] = "handler"
  /\ \A r \in Callers : phase[r] # "running" \/ at[r] = "done" => recorder[r] = None

\* An answer that says a session is over is right.
AnswersAreReal ==
  \A v \in polls : v.status \in Terminal => EffectiveStatus(v.id) \in Terminal

TraceInv == /\ TraceTypeOK /\ CreatedInOrder /\ ArmingHasRoom /\ ShownExists
            /\ UnclaimedIsEmpty /\ RecordedHasRecorder /\ RecorderInHandler
            /\ OneShot /\ AnswersAreReal /\ PanelEndIsReal

USE TraceBounds
USE DEF Sessions, None, Terminal, Statuses, View

\* At the start no session captures.
LEMMA TraceInvInit == Init => TraceInv
<1> SUFFICES ASSUME Init PROVE TraceInv
  OBVIOUS
<1>1. PICK was \in {"none", "ARMED"} :
        /\ session = [s \in Sessions |-> IF s = 1 THEN was ELSE "none"]
        /\ panel = [id |-> IF was = "ARMED" THEN 1 ELSE None,
                    status |-> IF was = "ARMED" THEN "ARMED" ELSE "OFF"]
  BY DEF Init, TraceInit
<1>2. /\ expired = {} /\ armed = None /\ hydrating = {} /\ starting = TRUE
      /\ claim = [r \in Callers |-> None] /\ recorder = [r \in Callers |-> None]
      /\ captured = [s \in Sessions |-> None] /\ unwritten = {}
      /\ arming = "idle" /\ cancelling = NoCancel /\ polls = {}
      /\ phase = [r \in Requests |-> "new"]
  BY DEF Init, TraceInit
<1>3. TraceTypeOK
  BY <1>1, <1>2 DEF TraceTypeOK, NoCancel
<1>4. CreatedInOrder
  <2>1. CASE was = "none"
    <3>1. Created = 1 .. 0
      BY <1>1, <2>1 DEF Created
    <3> QED
      BY <3>1 DEF CreatedInOrder
  <2>2. CASE was = "ARMED"
    <3>1. Created = 1 .. 1
      BY <1>1, <2>2 DEF Created
    <3> QED
      BY <3>1 DEF CreatedInOrder
  <2> QED
    BY <2>1, <2>2
<1>5. ArmingHasRoom /\ ShownExists /\ UnclaimedIsEmpty /\ RecordedHasRecorder
  BY <1>1, <1>2 DEF ArmingHasRoom, ShownExists, NoCancel, Created, UnclaimedIsEmpty, RecordedHasRecorder
<1>6. RecorderInHandler /\ OneShot
  BY <1>1, <1>2 DEF RecorderInHandler, OneShot
<1>7. AnswersAreReal /\ PanelEndIsReal
  BY <1>1, <1>2 DEF AnswersAreReal, PanelEndIsReal
<1> QED
  BY <1>3, <1>4, <1>5, <1>6, <1>7 DEF TraceInv

\* The newest session is the one with the largest number.
LEMMA NewestIsLast ==
  ASSUME CreatedInOrder
  PROVE  Newest \in 0 .. MaxSessions /\ Created = 1 .. Newest
<1>1. PICK n \in 0 .. MaxSessions : Created = 1 .. n
  BY DEF CreatedInOrder
<1>2. Cardinality(1 .. n) = n
  BY FS_Interval
<1> QED
  BY <1>1, <1>2 DEF Newest

\* What every step but a claim and a creation does to the sessions: outcomes
\* stand, and nothing is armed, claimed or created.
Ageing ==
  /\ expired \subseteq expired'
  /\ \A s \in Sessions :
       /\ session'[s] = "none" <=> session[s] = "none"
       /\ session[s] \in Terminal => session'[s] \in Terminal
       /\ session'[s] \in {"ARMED", "CAPTURING"} => session'[s] = session[s]

\* Then what was over still reads as over ...
LEMMA OverStaysOver ==
  ASSUME TraceTypeOK, TraceTypeOK', Ageing
  PROVE  /\ Created' = Created /\ Newest' = Newest
         /\ \A s \in Sessions : EffectiveStatus(s) \in Terminal => EffectiveStatus(s)' \in Terminal
<1>1. Created' = Created
  BY DEF Ageing, Created
<1>2. Newest' = Newest
  BY <1>1 DEF Newest
<1>3. ASSUME NEW s \in Sessions, EffectiveStatus(s) \in Terminal
      PROVE  EffectiveStatus(s)' \in Terminal
  BY <1>3 DEF EffectiveStatus, Ageing, TraceTypeOK
<1> QED
  BY <1>1, <1>2, <1>3

\* ... and what is known of claims and recorders stays true.
LEMMA AgeingKeeps ==
  ASSUME TraceInv, TraceTypeOK', Ageing,
         UNCHANGED <<captured, recorder, unwritten, phase, at, kind>>
  PROVE  /\ CreatedInOrder' /\ UnclaimedIsEmpty' /\ RecordedHasRecorder'
         /\ RecorderInHandler' /\ OneShot'
<1>0. TraceTypeOK
  BY DEF TraceInv
<1>1. CreatedInOrder'
  BY <1>0, OverStaysOver DEF TraceInv, CreatedInOrder
<1>2. UnclaimedIsEmpty' /\ RecordedHasRecorder'
  BY <1>0 DEF TraceInv, Ageing, UnclaimedIsEmpty, RecordedHasRecorder, TraceTypeOK
<1>3. RecorderInHandler'
  BY DEF TraceInv, RecorderInHandler
<1>4. OneShot'
  BY <1>0 DEF TraceInv, Ageing, OneShot, TraceTypeOK
<1> QED
  BY <1>1, <1>2, <1>3, <1>4

\* The control plane: arming and cancelling.
LEMMA ControlPlaneTypes ==
  ASSUME TraceInv, ControlPlane
  PROVE  TraceTypeOK'
<1> USE DEF TraceTypeOK
<1>0. TraceTypeOK /\ Newest \in 0 .. MaxSessions /\ Created = 1 .. Newest
  BY NewestIsLast DEF TraceInv
<1>1. CASE ArmCancelsOthers
  BY <1>0, <1>1 DEF ArmCancelsOthers
<1>2. CASE ArmCreates
  BY <1>0, <1>2 DEF ArmCreates, TraceInv, ArmingHasRoom
<1>3. CASE ArmPosts
  <2>1. Newest \in Sessions
    BY <1>0, <1>3 DEF ArmPosts, TraceInv, ArmingHasRoom
  <2> QED
    BY <1>0, <1>3, <2>1 DEF ArmPosts
<1>4. CASE ArmUndone
  BY <1>0, <1>4 DEF ArmUndone
<1>5. CASE CancelFinds
  BY <1>0, <1>5 DEF CancelFinds
<1>6. CASE CancelDisarms
  BY <1>0, <1>6 DEF CancelDisarms, DisarmCoreTrace
<1>7. CASE CancelUpdates
  BY <1>0, <1>7 DEF CancelUpdates, NoCancel
<1> QED
  BY <1>1, <1>2, <1>3, <1>4, <1>5, <1>6, <1>7 DEF ControlPlane

\* What the panel does to sessions leaves the requests alone.
LEMMA ControlPlaneKeeps ==
  ASSUME TraceInv, ControlPlane, UNCHANGED <<phase, at, kind>>
  PROVE  TraceInv'
<1>0. /\ TraceTypeOK /\ TraceTypeOK' /\ Newest \in 0 .. MaxSessions /\ Created = 1 .. Newest
      /\ \A s \in Sessions : s \in Created <=> session[s] # "none"
  BY NewestIsLast, ControlPlaneTypes DEF TraceInv, Created
<1>1. ASSUME Ageing, UNCHANGED <<captured, recorder, unwritten, polls>>
      PROVE  /\ CreatedInOrder' /\ UnclaimedIsEmpty' /\ RecordedHasRecorder'
             /\ RecorderInHandler' /\ OneShot' /\ AnswersAreReal'
             /\ Created' = Created /\ Newest' = Newest
             /\ \A s \in Sessions : EffectiveStatus(s) \in Terminal => EffectiveStatus(s)' \in Terminal
  <2>1. /\ Created' = Created /\ Newest' = Newest
        /\ \A s \in Sessions : EffectiveStatus(s) \in Terminal => EffectiveStatus(s)' \in Terminal
    BY <1>0, <1>1, OverStaysOver
  <2>2. \A v \in polls : v.id \in Sessions
    BY <1>0 DEF TraceInv, ShownExists
  <2>3. AnswersAreReal'
    BY <1>1, <2>1, <2>2 DEF TraceInv, AnswersAreReal
  <2> QED
    BY <1>0, <1>1, <2>1, <2>3, AgeingKeeps
<1>2. CASE ArmCancelsOthers
  <2>1. Ageing /\ UNCHANGED <<captured, recorder, unwritten, polls, panel, cancelling>> /\ arming' = "create"
    BY <1>0, <1>2 DEF ArmCancelsOthers, Ageing, TraceTypeOK
  <2>2. ArmingHasRoom' /\ ShownExists'
    BY <1>1, <1>2, <2>1 DEF ArmCancelsOthers, TraceInv, ArmingHasRoom, ShownExists
  <2>3. PanelEndIsReal'
    BY <1>0, <1>1, <2>1 DEF TraceInv, PanelEndIsReal, ShownExists
  <2> QED
    BY <1>0, <1>1, <2>1, <2>2, <2>3 DEF TraceInv
<1>3. CASE ArmPosts
  <2>1. Ageing /\ UNCHANGED <<captured, recorder, unwritten, polls, cancelling, session, expired>>
    BY <1>3 DEF ArmPosts, Ageing
  <2>2. Newest \in Created
    BY <1>0, <1>3 DEF ArmPosts, TraceInv, ArmingHasRoom
  <2>3. ArmingHasRoom' /\ ShownExists'
    BY <1>0, <1>1, <1>3, <2>1, <2>2 DEF ArmPosts, TraceInv, ArmingHasRoom, ShownExists
  <2>4. PanelEndIsReal'
    BY <1>0, <1>1, <1>3, <2>1 DEF ArmPosts, TraceInv, PanelEndIsReal, ShownExists
  <2> QED
    BY <1>0, <1>1, <2>1, <2>3, <2>4 DEF TraceInv
<1>4. CASE ArmUndone
  <2>1. Newest \in Created
    BY <1>0, <1>4 DEF ArmUndone, TraceInv, ArmingHasRoom
  <2>2. Ageing /\ UNCHANGED <<captured, recorder, unwritten, polls, panel, cancelling>> /\ arming' = "idle"
    BY <1>0, <1>4, <2>1 DEF ArmUndone, Ageing, TraceTypeOK
  <2>3. ArmingHasRoom' /\ ShownExists'
    BY <1>1, <2>2 DEF TraceInv, ArmingHasRoom, ShownExists, NoCancel
  <2>4. PanelEndIsReal'
    BY <1>0, <1>1, <2>2 DEF TraceInv, PanelEndIsReal, ShownExists
  <2> QED
    BY <1>0, <1>1, <2>2, <2>3, <2>4 DEF TraceInv
<1>5. CASE CancelFinds
  <2>1. Ageing /\ UNCHANGED <<captured, recorder, unwritten, polls, panel, arming, session, expired>>
    BY <1>5 DEF CancelFinds, Ageing
  <2>2. panel.id \in Created
    BY <1>5 DEF CancelFinds, TraceInv, ShownExists
  <2>3. ArmingHasRoom' /\ ShownExists'
    BY <1>1, <1>5, <2>1, <2>2 DEF CancelFinds, TraceInv, ArmingHasRoom, ShownExists
  <2>4. PanelEndIsReal'
    BY <1>0, <1>1, <2>1 DEF TraceInv, PanelEndIsReal, ShownExists
  <2> QED
    BY <1>0, <1>1, <2>1, <2>3, <2>4 DEF TraceInv
<1>6. CASE CancelDisarms
  <2>1. Ageing /\ UNCHANGED <<captured, recorder, unwritten, polls, panel, arming, session, expired>>
    BY <1>6 DEF CancelDisarms, Ageing
  <2>2. cancelling'.id = cancelling.id /\ cancelling'.step = "update" /\ cancelling.step = "disarm"
    BY <1>0, <1>6 DEF CancelDisarms, TraceTypeOK
  <2>3. ArmingHasRoom' /\ ShownExists'
    BY <1>1, <2>1, <2>2 DEF TraceInv, ArmingHasRoom, ShownExists
  <2>4. PanelEndIsReal'
    BY <1>0, <1>1, <2>1 DEF TraceInv, PanelEndIsReal, ShownExists
  <2> QED
    BY <1>0, <1>1, <2>1, <2>3, <2>4 DEF TraceInv
<1>7. CASE CancelUpdates
  <2>1. cancelling.id \in Created
    BY <1>7 DEF CancelUpdates, TraceInv, ShownExists
  <2>2. Ageing /\ UNCHANGED <<captured, recorder, unwritten, polls, arming>>
    BY <1>0, <1>7, <2>1 DEF CancelUpdates, Ageing, TraceTypeOK
  <2>3. panel' = [id |-> cancelling.id, status |-> "CANCELLED"] /\ cancelling' = NoCancel
        /\ session'[cancelling.id] = "CANCELLED"
    BY <1>0, <1>7, <2>1 DEF CancelUpdates, TraceTypeOK, Created
  <2>4. ArmingHasRoom' /\ ShownExists'
    BY <1>0, <1>1, <2>1, <2>2, <2>3 DEF TraceInv, ArmingHasRoom, ShownExists, NoCancel
  <2>5. PanelEndIsReal'
    BY <2>3 DEF PanelEndIsReal, EffectiveStatus
  <2> QED
    BY <1>0, <1>1, <2>2, <2>4, <2>5 DEF TraceInv
<1>8. CASE ArmCreates
  <2> DEFINE n == Newest + 1
  <2>1. n \in Sessions /\ session[n] = "none" /\ n \notin Created
    BY <1>0, <1>8 DEF ArmCreates, TraceInv, ArmingHasRoom
  <2>2. /\ UNCHANGED <<captured, recorder, unwritten, polls, panel, cancelling, expired>>
        /\ arming' = "post" /\ session' = [session EXCEPT ![n] = "ARMED"]
    BY <1>8 DEF ArmCreates
  <2>3. \A s \in Sessions : session'[s] = IF s = n THEN "ARMED" ELSE session[s]
    BY <1>0, <2>2 DEF TraceTypeOK
  <2>4. Created' = 1 .. n
    BY <1>0, <2>1, <2>3 DEF Created
  <2>5. Newest' = n /\ Created \subseteq Created'
    <3>1. Cardinality(1 .. n) = n
      BY <2>1, FS_Interval
    <3> QED
      BY <1>0, <2>4, <3>1 DEF Newest
  <2>6. CreatedInOrder'
    BY <2>1, <2>4 DEF CreatedInOrder
  <2>7. ArmingHasRoom'
    BY <1>0, <2>2, <2>5 DEF ArmingHasRoom
  <2>8. ShownExists'
    BY <2>2, <2>5 DEF TraceInv, ShownExists
  <2> HIDE DEF n
  <2>9. UnclaimedIsEmpty' /\ RecordedHasRecorder'
    BY <2>1, <2>2, <2>3 DEF TraceInv, UnclaimedIsEmpty, RecordedHasRecorder
  <2>10. RecorderInHandler' /\ OneShot'
    BY <2>1, <2>2, <2>3 DEF TraceInv, RecorderInHandler, OneShot
  <2>11. AnswersAreReal' /\ PanelEndIsReal'
    BY <1>0, <2>1, <2>2, <2>3
    DEF TraceInv, AnswersAreReal, PanelEndIsReal, ShownExists, EffectiveStatus
  <2> QED
    BY <1>0, <2>6, <2>7, <2>8, <2>9, <2>10, <2>11 DEF TraceInv
<1> QED
  BY <1>2, <1>3, <1>4, <1>5, <1>6, <1>7, <1>8 DEF ControlPlane

\* A gateway that starts reads the armed sessions and replaces its map.
LEMMA HydrationKeeps ==
  ASSUME TraceInv, Hydration, UNCHANGED <<phase, at, kind>>
  PROVE  TraceInv'
<1>0. /\ TraceTypeOK /\ ShownExists /\ Created \subseteq Sessions
      /\ \A s \in Sessions : s \in Created <=> session[s] # "none"
  BY DEF TraceInv, Created
<1>1. Ageing /\ UNCHANGED <<captured, recorder, unwritten, polls, panel, cancelling, arming, expired, claim>>
  BY <1>0 DEF Hydration, HydrateReads, HydrateApplies, Ageing, TraceTypeOK
<1>2. armed' \in Sessions \cup {None}
  <2>1. CASE HydrateReads
    BY <1>0, <2>1 DEF HydrateReads, TraceTypeOK
  <2>2. CASE HydrateApplies
    <3>1. hydrating \subseteq Nat /\ hydrating # {} /\ hydrating \subseteq Sessions
      BY <1>0, <2>2 DEF HydrateApplies, TraceTypeOK
    <3>2. \E s \in hydrating : \A t \in hydrating : s <= t
      BY <3>1, LeastNatural
    <3> QED
      BY <2>2, <3>1, <3>2 DEF HydrateApplies
  <2> QED
    BY <2>1, <2>2 DEF Hydration
<1>3. starting' \in BOOLEAN
  BY Zenon DEF Hydration, HydrateReads, HydrateApplies
<1>4. session' \in [Sessions -> Statuses \cup {"none"}] /\ hydrating' \subseteq Sessions
  BY <1>0 DEF Hydration, HydrateReads, HydrateApplies, TraceTypeOK
<1>5. TraceTypeOK'
  BY <1>0, <1>1, <1>2, <1>3, <1>4 DEF TraceTypeOK
<1>6. /\ Created' = Created /\ Newest' = Newest
      /\ \A s \in Sessions : EffectiveStatus(s) \in Terminal => EffectiveStatus(s)' \in Terminal
  BY <1>0, <1>1, <1>5, OverStaysOver
<1>7. ArmingHasRoom' /\ ShownExists'
  BY <1>1, <1>6 DEF TraceInv, ArmingHasRoom, ShownExists
<1>8. AnswersAreReal' /\ PanelEndIsReal'
  BY <1>0, <1>1, <1>6 DEF TraceInv, AnswersAreReal, PanelEndIsReal, ShownExists
<1> QED
  BY <1>1, <1>5, <1>7, <1>8, AgeingKeeps DEF TraceInv

\* The panel's refreshes, and time passing for an armed session.
LEMMA PanelKeeps ==
  ASSUME TraceInv, Panel \/ Passing, UNCHANGED <<phase, at, kind>>
  PROVE  TraceInv'
<1>0. /\ TraceTypeOK /\ ShownExists /\ Created \subseteq Sessions
      /\ \A s \in Sessions : s \in Created <=> session[s] # "none"
  BY DEF TraceInv, Created
<1>1. /\ Ageing
      /\ UNCHANGED <<captured, recorder, unwritten, cancelling, arming, claim, session, armed, hydrating, starting>>
  BY DEF Panel, Passing, PanelPolls, ApiAnswers, PanelRefreshes, SessionExpires, Ageing
<1>2. CASE \E s \in Sessions : SessionExpires(s)
  <2>1. UNCHANGED <<panel, polls>> /\ TraceTypeOK'
    BY <1>0, <1>1, <1>2 DEF SessionExpires, TraceTypeOK
  <2>2. /\ Created' = Created /\ Newest' = Newest
        /\ \A s \in Sessions : EffectiveStatus(s) \in Terminal => EffectiveStatus(s)' \in Terminal
    BY <1>0, <1>1, <2>1, OverStaysOver
  <2>3. ArmingHasRoom' /\ ShownExists'
    BY <1>1, <2>1, <2>2 DEF TraceInv, ArmingHasRoom, ShownExists
  <2>4. AnswersAreReal' /\ PanelEndIsReal'
    BY <1>0, <2>1, <2>2 DEF TraceInv, AnswersAreReal, PanelEndIsReal, ShownExists
  <2> QED
    BY <1>1, <2>1, <2>3, <2>4, AgeingKeeps DEF TraceInv
<1>3. CASE Panel
  <2>1. expired' = expired
    BY <1>3 DEF Panel, PanelPolls, ApiAnswers, PanelRefreshes
  <2>2. \A s : EffectiveStatus(s)' = EffectiveStatus(s)
    BY <1>1, <2>1 DEF EffectiveStatus
  <2>3. Created' = Created /\ Newest' = Newest
    BY <1>1 DEF Created, Newest
  <2>4. \A v \in polls : v \in View /\ v.id \in Sessions /\ session[v.id] # "none"
    BY <1>0 DEF TraceTypeOK, ShownExists
  <2>5. /\ panel' \in View /\ polls' \subseteq View
        /\ panel' = panel \/ panel' \in polls
        /\ \A v \in polls' : v.id \in Created /\ (v.status \in Terminal => EffectiveStatus(v.id) \in Terminal)
        /\ panel'.status \in Terminal => EffectiveStatus(panel'.id) \in Terminal
    <3>1. CASE PanelPolls
      BY <1>0, <3>1 DEF PanelPolls, TraceTypeOK, TraceInv, ShownExists, AnswersAreReal, PanelEndIsReal
    <3>2. ASSUME NEW q \in polls, ApiAnswers(q) PROVE <2>5!:
      <4>1. [q EXCEPT !.status = EffectiveStatus(q.id)] = [id |-> q.id, status |-> EffectiveStatus(q.id)]
        BY <2>4
      <4>2. EffectiveStatus(q.id) \in Statuses
        BY <1>0, <2>4 DEF EffectiveStatus, TraceTypeOK
      <4> QED
        BY <1>0, <2>4, <3>2, <4>1, <4>2
        DEF ApiAnswers, TraceTypeOK, TraceInv, ShownExists, AnswersAreReal, PanelEndIsReal
    <3>3. ASSUME NEW v \in polls, PanelRefreshes(v) PROVE <2>5!:
      BY <1>0, <2>4, <3>3 DEF PanelRefreshes, TraceTypeOK, TraceInv, ShownExists, AnswersAreReal
    <3> QED
      BY <1>3, <3>1, <3>2, <3>3 DEF Panel
  <2>6. TraceTypeOK'
    BY <1>0, <1>1, <2>1, <2>5 DEF TraceTypeOK
  <2>7. ArmingHasRoom' /\ ShownExists'
    BY <1>0, <1>1, <2>3, <2>4, <2>5 DEF TraceInv, ArmingHasRoom, ShownExists
  <2>8. AnswersAreReal' /\ PanelEndIsReal'
    BY <2>2, <2>5 DEF AnswersAreReal, PanelEndIsReal
  <2> QED
    BY <1>1, <2>6, <2>7, <2>8, AgeingKeeps DEF TraceInv
<1> QED
  BY <1>2, <1>3 DEF Passing

\* The chat handler looks for a trace and claims it.
LEMMA LookUpKeeps ==
  ASSUME EdgeTypes, TraceInv, NEW r \in Requests, LookUpTrace(r)
  PROVE  TraceInv'
<1>1. /\ r \in Callers /\ at[r] = "handler" /\ phase[r] = "new"
      /\ phase' = [phase EXCEPT ![r] = "claiming"] /\ at' = at
      /\ UNCHANGED <<session, expired, armed, hydrating, starting, recorder, captured,
                     unwritten, arming, cancelling, panel, polls>>
      /\ \E s \in {armed} \cup Created : claim' = [claim EXCEPT ![r] = s]
  BY DEF LookUpTrace, Enter, ClaimLooksUp, admissionVars
<1>2. TraceTypeOK'
  BY <1>1 DEF TraceInv, TraceTypeOK, Created
<1>3. Created' = Created /\ Newest' = Newest /\ \A s : EffectiveStatus(s)' = EffectiveStatus(s)
  BY <1>1 DEF Created, Newest, EffectiveStatus
<1>4. RecorderInHandler'
  BY <1>1 DEF TraceInv, RecorderInHandler, EdgeTypes
<1>5. CreatedInOrder' /\ ArmingHasRoom' /\ ShownExists'
  BY <1>1, <1>3 DEF TraceInv, CreatedInOrder, ArmingHasRoom, ShownExists
<1>6. UnclaimedIsEmpty' /\ RecordedHasRecorder' /\ OneShot'
  BY <1>1 DEF TraceInv, UnclaimedIsEmpty, RecordedHasRecorder, OneShot
<1>7. AnswersAreReal' /\ PanelEndIsReal'
  BY <1>1, <1>3 DEF TraceInv, AnswersAreReal, PanelEndIsReal
<1> QED
  BY <1>2, <1>4, <1>5, <1>6, <1>7 DEF TraceInv

\* A step that leaves the sessions' story alone.
LEMMA TraceUntouched ==
  ASSUME TraceInv, RecorderInHandler', UNCHANGED traceVars
  PROVE  TraceInv'
<1> USE DEF traceVars
<1>1. Created' = Created /\ Newest' = Newest /\ \A s : EffectiveStatus(s)' = EffectiveStatus(s)
  BY DEF Created, Newest, EffectiveStatus
<1>2. TraceTypeOK' /\ UnclaimedIsEmpty' /\ RecordedHasRecorder' /\ OneShot'
  BY DEF TraceInv, TraceTypeOK, UnclaimedIsEmpty, RecordedHasRecorder, OneShot
<1>3. CreatedInOrder' /\ ArmingHasRoom' /\ ShownExists' /\ AnswersAreReal' /\ PanelEndIsReal'
  BY <1>1 DEF TraceInv, CreatedInOrder, ArmingHasRoom, ShownExists, AnswersAreReal, PanelEndIsReal
<1> QED
  BY <1>2, <1>3 DEF TraceInv

\* A claim gives a session one recorder of a request in its handler.
LEMMA ClaimKeeps ==
  ASSUME EdgeTypes, TraceInv, NEW r \in Requests, ClaimTrace(r)
  PROVE  TraceInv'
<1> DEFINE s == claim[r]
<1>1. /\ r \in Callers /\ at[r] = "handler" /\ phase[r] = "claiming" /\ recorder[r] = None
      /\ phase' = [phase EXCEPT ![r] = "running"] /\ at' = at
      /\ s \in Sessions /\ r # None
      /\ UNCHANGED <<expired, hydrating, starting, unwritten, arming, cancelling, panel, polls>>
      /\ claim' = [claim EXCEPT ![r] = None]
      /\ armed' = IF armed = s THEN None ELSE armed
  BY DEF ClaimTrace, Enter, ClaimCoreTrace, DisarmCoreTrace, admissionVars, TraceInv,
         RecorderInHandler, TraceTypeOK
<1>2. RecorderInHandler'
  <2>1. \A q \in Callers \ {r} : recorder'[q] = recorder[q]
    BY DEF ClaimTrace, ClaimCoreTrace, TraceInv, TraceTypeOK
  <2> QED
    BY <1>1, <2>1 DEF TraceInv, RecorderInHandler, EdgeTypes
<1>3. CASE UNCHANGED <<session, captured, recorder>>
  <2>1. TraceTypeOK'
    BY <1>1, <1>3 DEF TraceInv, TraceTypeOK
  <2>2. Created' = Created /\ Newest' = Newest /\ \A t : EffectiveStatus(t)' = EffectiveStatus(t)
    BY <1>1, <1>3 DEF Created, Newest, EffectiveStatus
  <2>3. UnclaimedIsEmpty' /\ RecordedHasRecorder' /\ OneShot'
    BY <1>1, <1>3 DEF TraceInv, UnclaimedIsEmpty, RecordedHasRecorder, OneShot
  <2>4. CreatedInOrder' /\ ArmingHasRoom' /\ ShownExists' /\ AnswersAreReal' /\ PanelEndIsReal'
    BY <1>1, <2>2 DEF TraceInv, CreatedInOrder, ArmingHasRoom, ShownExists, AnswersAreReal, PanelEndIsReal
  <2> QED
    BY <1>2, <2>1, <2>3, <2>4 DEF TraceInv
<1>4. CASE /\ Live(s)
           /\ session' = [session EXCEPT ![s] = "CAPTURING"]
           /\ captured' = [captured EXCEPT ![s] = r]
           /\ recorder' = [recorder EXCEPT ![r] = s]
  <2> HIDE DEF s
  <2>0. /\ TraceTypeOK /\ Created \subseteq Sessions /\ session[s] = "ARMED" /\ s \notin expired
        /\ captured[s] = None /\ \A q \in Callers : recorder[q] # s
    BY <1>1, <1>4 DEF TraceInv, Live, UnclaimedIsEmpty, OneShot, Created
  <2>1. TraceTypeOK'
    BY <1>1, <1>4 DEF TraceInv, TraceTypeOK
  <2>2. \A t \in Sessions : session'[t] = IF t = s THEN "CAPTURING" ELSE session[t]
    BY <1>4, <2>0 DEF TraceTypeOK
  <2>3. Created' = Created
    BY <1>1, <2>0, <2>2 DEF Created
  <2>4. Newest' = Newest
    BY <2>3 DEF Newest
  <2>5. \A t \in Sessions : captured'[t] = IF t = s THEN r ELSE captured[t]
    BY <1>4, <2>0 DEF TraceTypeOK
  <2>6. \A q \in Callers : recorder'[q] = IF q = r THEN s ELSE recorder[q]
    BY <1>4, <2>0 DEF TraceTypeOK
  <2>7. UnclaimedIsEmpty'
    BY <2>2, <2>5 DEF TraceInv, UnclaimedIsEmpty
  <2>8. RecordedHasRecorder'
    <3>1. SUFFICES ASSUME NEW t \in Sessions, t # s, captured[t] # None
                   PROVE  \/ session'[t] \in Terminal \/ recorder'[captured[t]] = t
                          \/ session'[t] = "CAPTURING" /\ t \in unwritten
      BY <1>1, <2>5, <2>6 DEF RecordedHasRecorder
    <3>2. captured[t] \in Callers
      BY <2>0, <3>1 DEF TraceTypeOK
    <3>3. \/ session[t] \in Terminal \/ recorder[captured[t]] = t
          \/ session[t] = "CAPTURING" /\ t \in unwritten
      BY <3>1 DEF TraceInv, RecordedHasRecorder
    <3>4. recorder[captured[t]] = t => captured[t] # r
      BY <1>1
    <3> QED
      BY <2>2, <2>6, <3>1, <3>2, <3>3, <3>4
  <2>9. OneShot'
    <3>1. ASSUME NEW q \in Callers, recorder'[q] # None PROVE captured'[recorder'[q]] = q
      <4>1. CASE q = r
        BY <1>1, <2>5, <2>6, <4>1
      <4>2. CASE q # r
        <5>1. recorder'[q] = recorder[q] /\ recorder[q] \in Sessions /\ recorder[q] # s
          BY <2>0, <2>6, <3>1, <4>2 DEF TraceTypeOK
        <5>2. captured[recorder[q]] = q
          BY <3>1, <5>1 DEF TraceInv, OneShot
        <5> QED
          BY <2>5, <5>1, <5>2
      <4> QED
        BY <4>1, <4>2
    <3>2. ASSUME NEW t \in Sessions, captured'[t] = None
          PROVE  session'[t] # "CAPTURING" /\ \A q \in Callers : recorder'[q] # t
      <4>1. t # s /\ captured[t] = None
        BY <1>1, <2>5, <3>2
      <4>2. session[t] # "CAPTURING" /\ \A q \in Callers : recorder[q] # t
        BY <4>1 DEF TraceInv, OneShot
      <4> QED
        BY <2>2, <2>6, <4>1, <4>2
    <3> QED
      BY <3>1, <3>2 DEF OneShot
  <2>10. \A t \in Sessions : EffectiveStatus(t) \in Terminal => EffectiveStatus(t)' \in Terminal
    BY <1>1, <2>0, <2>2 DEF EffectiveStatus
  <2>11. CreatedInOrder' /\ ArmingHasRoom' /\ ShownExists'
    BY <1>1, <2>3, <2>4 DEF TraceInv, CreatedInOrder, ArmingHasRoom, ShownExists
  <2>12. AnswersAreReal' /\ PanelEndIsReal'
    BY <1>1, <2>0, <2>10 DEF TraceInv, AnswersAreReal, PanelEndIsReal, ShownExists
  <2> QED
    BY <1>2, <2>1, <2>7, <2>8, <2>9, <2>11, <2>12 DEF TraceInv
<1> QED
  BY <1>3, <1>4 DEF ClaimTrace, ClaimCoreTrace

\* The recorder writes the outcome before the answer is sent, or fails to and
\* says so.
LEMMA CloseKeeps ==
  ASSUME EdgeTypes, TraceInv, NEW r \in Requests, CloseTrace(r)
  PROVE  TraceInv'
<1> DEFINE s == recorder[r]
<1>1. /\ r \in Callers /\ s \in Sessions /\ r # None /\ TraceTypeOK /\ s # None
      /\ UNCHANGED <<phase, at, expired, armed, hydrating, starting, claim, captured,
                     arming, cancelling, panel, polls>>
      /\ recorder' = [recorder EXCEPT ![r] = None]
  BY DEF CloseTrace, RecorderCloses, admissionVars, TraceInv, TraceTypeOK
<1>2. captured[s] = r
  BY <1>1 DEF TraceInv, OneShot
<1>3. session[s] \in Terminal \cup {"CAPTURING"} /\ Created \subseteq Sessions
  BY <1>1, <1>2 DEF TraceInv, UnclaimedIsEmpty, Created, TraceTypeOK
<1>4. PICK o \in Terminal \cup {"CAPTURING"} :
        /\ session' = [session EXCEPT ![s] = o]
        /\ \/ o \in Terminal /\ unwritten' = unwritten
           \/ o = session[s] /\ unwritten' = unwritten \cup {s}
  <2>1. CASE \E o \in {"COMPLETED", "FAILED"} :
               session' = [session EXCEPT ![s] = o] /\ unwritten' = unwritten
    BY <2>1
  <2>2. CASE session' = session /\ unwritten' = unwritten \cup {s}
    <3>1. session' = [session EXCEPT ![s] = session[s]]
      BY <1>1, <2>2 DEF TraceTypeOK
    <3> QED
      BY <1>3, <2>2, <3>1
  <2> QED
    BY <1>1, <2>1, <2>2 DEF CloseTrace, RecorderCloses
<1> HIDE DEF s
<1>5. /\ \A t \in Sessions : session'[t] = IF t = s THEN o ELSE session[t]
      /\ \A q \in Callers : recorder'[q] = IF q = r THEN None ELSE recorder[q]
  <2>1. session \in [Sessions -> Statuses \cup {"none"}] /\ recorder \in [Callers -> Sessions \cup {None}]
    BY <1>1 DEF TraceTypeOK
  <2>2. \A t \in Sessions : session'[t] = IF t = s THEN o ELSE session[t]
    BY <1>4, <2>1
  <2>3. \A q \in Callers : recorder'[q] = IF q = r THEN None ELSE recorder[q]
    BY <1>1, <2>1
  <2> QED
    BY <2>2, <2>3
<1>6. TraceTypeOK'
  <2>1. session' \in [Sessions -> Statuses \cup {"none"}]
    BY <1>1, <1>4 DEF TraceTypeOK
  <2>2. recorder' \in [Callers -> Sessions \cup {None}]
    BY <1>1 DEF TraceTypeOK
  <2>3. unwritten' \subseteq Sessions
    BY <1>1, <1>4 DEF TraceTypeOK
  <2> QED
    BY <1>1, <2>1, <2>2, <2>3 DEF TraceTypeOK
<1>7. Ageing
  BY <1>1, <1>3, <1>4, <1>5 DEF Ageing
<1>8. /\ Created' = Created /\ Newest' = Newest
      /\ \A t \in Sessions : EffectiveStatus(t) \in Terminal => EffectiveStatus(t)' \in Terminal
  BY <1>1, <1>6, <1>7, OverStaysOver
<1>9. CreatedInOrder' /\ ArmingHasRoom' /\ ShownExists'
  BY <1>1, <1>8 DEF TraceInv, CreatedInOrder, ArmingHasRoom, ShownExists
<1>10. AnswersAreReal' /\ PanelEndIsReal'
  BY <1>1, <1>3, <1>8 DEF TraceInv, AnswersAreReal, PanelEndIsReal, ShownExists
<1>11. UnclaimedIsEmpty' /\ RecorderInHandler'
  BY <1>1, <1>5 DEF TraceInv, UnclaimedIsEmpty, RecorderInHandler
<1>12. RecordedHasRecorder'
  BY <1>1, <1>3, <1>4, <1>5 DEF TraceInv, RecordedHasRecorder, TraceTypeOK, s
<1>13. OneShot'
  BY <1>1, <1>2, <1>5 DEF TraceInv, OneShot, TraceTypeOK
<1> QED
  BY <1>6, <1>9, <1>10, <1>11, <1>12, <1>13 DEF TraceInv

\* A middleware moves a request that is not in the handler, and answers it only
\* from "closing".
LEMMA MiddlewareMoves ==
  ASSUME EdgeTypes, NEW r \in Requests, Middleware(r)
  PROVE  /\ at[r] # "handler" /\ \A q \in Requests \ {r} : at'[q] = at[q]
         /\ at'[r] = "done" => at[r] = "closing"
<1>0. at \in [Requests -> Steps]
  BY DEF EdgeTypes
<1>1. CASE AuthMiddleware(r) \/ RateLimitRpm(r) \/ VoiceWindow(r) \/ MemoryAcquireConc(r)
  BY <1>0, <1>1 DEF AuthMiddleware, RateLimitRpm, VoiceWindow, MemoryAcquireConc
<1>2. CASE \/ RedisAcquireConc(r) \/ RedisIncrFails(r) \/ ExpireConc(r) \/ ExpireFails(r)
           \/ UndoConc(r)
  BY <1>0, <1>2 DEF RedisAcquireConc, ExpireConc, UndoConc, AfterIncr, RedisIncrFails, ExpireFails
<1>3. CASE QuotaMiddleware(r)
  BY <1>0, <1>3 DEF QuotaMiddleware, QuotaVerdict
<1>4. CASE \/ ReadLedger(r) \/ FillCache(r) \/ QuotaUnavailable(r)
           \/ BumpExists(r) \/ BumpIncr(r) \/ Finish(r)
  BY <1>0, <1>4
  DEF ReadLedger, FillCache, QuotaUnavailable, BumpExists, BumpIncr, Finish, QuotaVerdict
<1> QED
  BY <1>1, <1>2, <1>3, <1>4 DEF Middleware

\* The invariant of the sessions is inductive.
LEMMA TraceInvNext == EdgeTypes /\ TraceInv /\ [Next]_edgeVars => TraceInv'
<1> SUFFICES ASSUME EdgeTypes, TraceInv, [Next]_edgeVars PROVE TraceInv'
  OBVIOUS
<1>0. at \in [Requests -> Steps] /\ phase \in [Requests -> {"new", "claiming", "running"}]
      /\ Callers \subseteq Requests /\ RecorderInHandler
  BY DEF EdgeTypes, TraceInv
<1>1. ASSUME UNCHANGED <<at, phase, traceVars>> PROVE TraceInv'
  BY <1>0, <1>1, TraceUntouched DEF RecorderInHandler, traceVars
<1>2. ASSUME NEW r \in Requests, Admit(r) PROVE TraceInv'
  <2>1. UNCHANGED <<traceVars, phase>> /\ (at[r] = "closing" /\ r \in Callers => recorder[r] = None)
        /\ UNCHANGED recorder
    BY <1>2 DEF Admit, traceVars
  <2>2. /\ at[r] # "handler" /\ \A q \in Requests \ {r} : at'[q] = at[q]
        /\ at'[r] = "done" => at[r] = "closing"
    BY <1>2, MiddlewareMoves DEF Admit
  <2>3. RecorderInHandler'
    BY <1>0, <2>1, <2>2 DEF RecorderInHandler
  <2> QED
    BY <2>1, <2>3, TraceUntouched
<1>3. ASSUME NEW r \in Requests, RunHandler(r) PROVE TraceInv'
  <2>1. /\ UNCHANGED traceVars /\ recorder' = recorder
        /\ phase' = [phase EXCEPT ![r] = "running"]
        /\ at'[r] # "done" /\ \A q \in Requests \ {r} : at'[q] = at[q]
    BY <1>0, <1>3 DEF RunHandler, Charge, EndUncharged, traceVars
  <2>2. RecorderInHandler'
    BY <1>0, <2>1 DEF RecorderInHandler
  <2> QED
    BY <2>1, <2>2, TraceUntouched
<1>4. CASE Surroundings
  <2>1. CASE UNCHANGED <<traceVars, phase>> /\ (Environment \/ \E r \in Requests : Disconnect(r))
    BY <1>1, <2>1
    DEF Environment, CounterExpires, CacheExpires, OpenPeriod, UsageReads, UsageSets, Disconnect
  <2>2. CASE UNCHANGED <<admissionVars, phase>> /\ (ControlPlane \/ Hydration \/ Panel \/ Passing)
    BY <2>2, ControlPlaneKeeps, HydrationKeeps, PanelKeeps DEF admissionVars
  <2> QED
    BY <1>4, <2>1, <2>2 DEF Surroundings
<1>5. ASSUME NEW r \in Requests, HandleRequest(r) PROVE TraceInv'
  BY <1>2, <1>3, <1>5, LookUpKeeps, ClaimKeeps, CloseKeeps DEF HandleRequest
<1>6. CASE UNCHANGED edgeVars
  BY <1>1, <1>6 DEF edgeVars, admissionVars
<1> QED
  BY <1>4, <1>5, <1>6 DEF Next

\* The range of the counter, from what it counts.
LEMMA CounterInRange == EdgeTypes /\ LimitInv => AdmissionTypeOK
<1> SUFFICES ASSUME EdgeTypes, LimitInv PROVE AdmissionTypeOK
  OBVIOUS
<1>1. Counted \subseteq Requests /\ lost \subseteq Requests
  BY DEF Counted, EdgeTypes
<1>2. /\ Cardinality(Counted) <= Cardinality(Requests) /\ Cardinality(lost) <= Cardinality(Requests)
      /\ Cardinality(Requests) \in Nat
  BY <1>1, SubsetIsSmaller
<1>3. conc \in Int /\ conc <= Cardinality(Requests)
  BY <1>2, SetsAreFinite DEF LimitInv, CounterHasReason, EdgeTypes
<1>4. -Cardinality(Requests) <= conc
  <2>1. CASE redisEnabled
    BY <1>2, <1>3, <2>1, SetsAreFinite DEF LimitInv, RedisCount
  <2>2. CASE ~redisEnabled
    BY <1>2, <1>3, <2>2, SetsAreFinite DEF LimitInv, MemoryCount
  <2> QED
    BY <2>1, <2>2
<1>5. conc \in -Cardinality(Requests) .. Cardinality(Requests)
  BY <1>2, <1>3, <1>4
<1> QED
  BY <1>5 DEF EdgeTypes, AdmissionTypeOK

\* Whoever arms, cancels, claims and polls in whatever order, and through a
\* restart of the gateway (lib/coreTrace.ts, core-inspector/actions.ts): a
\* session records one request, is over once that request is answered unless
\* the write of its outcome failed, and the panel says it is over only when it is.
THEOREM CapturesSound == Spec => []CapturesAreSound
<1> DEFINE Inv == EdgeTypes /\ LimitInv /\ TraceInv
<1>1. Init => Inv
  BY EdgeTypesInit, LimitInvInit, TraceInvInit
<1>2. Inv /\ [Next]_edgeVars => Inv'
  BY EdgeTypesNext, LimitInvNext, TraceInvNext
<1>3. Inv => CapturesAreSound
  <2> SUFFICES ASSUME EdgeTypes, LimitInv, TraceInv PROVE CapturesAreSound
    OBVIOUS
  <2>1. TypeOK
    BY CounterInRange DEF TraceInv, EdgeTypes, TypeOK
  <2>2. CaptureEndsWithRequest
    BY DEF TraceInv, RecordedHasRecorder, RecorderInHandler, TraceTypeOK, CaptureEndsWithRequest
  <2> QED
    BY <2>1, <2>2 DEF TraceInv, CapturesAreSound
<1> QED
  BY <1>1, <1>2, <1>3, PTL DEF Spec
=============================================================================

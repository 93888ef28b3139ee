------------------------------ MODULE MCPlatform ------------------------------
EXTENDS Platform, TLC

CONSTANTS c1, c2, b1, b2, d1, d2, q1, q2, r1, r2

MCOwner == b1 :> c1 @@ b2 :> c2
MCCallOf == q1 :> c1 @@ q2 :> c2

\* A cheap plain model, a good one at the same price as a slow one.
MCCatalogue ==
  <<[cost |-> 1, quality |-> 1, latency |-> 1],
    [cost |-> 2, quality |-> 2, latency |-> 2],
    [cost |-> 2, quality |-> 2, latency |-> 1]>>
MCPolicies ==
  {[maxCost |-> c, minQuality |-> q, maxLatency |-> l, preferred |-> p, fallback |-> f] :
     c \in {1, 2}, q \in {NoLimit, 2}, l \in {1}, p \in {<<>>, <<3, 1>>}, f \in {<<>>, <<2>>}}
=============================================================================

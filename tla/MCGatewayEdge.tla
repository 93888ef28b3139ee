--------------------------- MODULE MCGatewayEdge ----------------------------
(* An instance of GatewayEdge for TLC. *)
EXTENDS GatewayEdge, TLC

CONSTANTS c1, c2, c3

\* Three chat calls; or a chat call, a voice upload and a chat call marked as
\* the voice route's own.
MCMixes == {[r \in Requests |-> "chat"]}
           \cup {k \in [Requests -> Kinds] : \A r, q \in Requests : k[r] = k[q] => r = q}

\* Two of the requests are being handled when the gateway has just started.
MCInFlight == {S \in SUBSET Requests : Cardinality(S) = 2}

\* The requests are interchangeable: mixes and sets in flight are closed under
\* their permutations.
Interchangeable == Permutations(Requests)
=============================================================================

---------------------------- MODULE MCLlamaPool -----------------------------
(* An instance of LlamaPool for TLC. *)
EXTENDS LlamaPool

CONSTANTS a, b, c, u, v

\* Two small models that fit together, and one that needs the whole budget.
MCRam == [m \in Models |-> IF m = c THEN 2 ELSE 1]
=============================================================================

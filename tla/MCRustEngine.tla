---------------------------- MODULE MCRustEngine ----------------------------
\* Two models of which one is loaded and only one fits, two loads and two generations.
EXTENDS RustEngine, TLC

CONSTANTS a, b, l1, l2, g1, g2

MCRam == [m \in Models |-> 2]
\* A scheduler over real weights while the model is unloaded and loaded again,
\* and direct tasks that echo while another model displaces the resident one, and
\* while two loads of the same model overlap.
MCConfigs == {<<TRUE, {a}, (l1 :> a @@ l2 :> None)>>, <<FALSE, {}, (l1 :> b @@ l2 :> a)>>,
              <<FALSE, {}, (l1 :> b @@ l2 :> b)>>}
MCModelOf == [r \in Requests |-> a]
=============================================================================

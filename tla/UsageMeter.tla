----------------------------- MODULE UsageMeter -----------------------------
(***************************************************************************)
(* What metering promises a customer: a request is charged at most once,    *)
(* whatever is retried, redelivered or released, and the total of all       *)
(* charges only ever moves by the charge of one request.                    *)
(***************************************************************************)
EXTENDS Integers

CONSTANT Requests

VARIABLES
  charged,  \* the requests that have been charged
  total     \* the tokens charged so far, over all billing periods

meterVars == <<charged, total>>

Init == charged = {} /\ total = 0

Charge(r) ==
  /\ r \notin charged
  /\ charged' = charged \cup {r}
  /\ total' - total \in Nat

Next == \E r \in Requests : Charge(r)

Spec == Init /\ [][Next]_meterVars
=============================================================================

------------------------------ MODULE MCBilling ------------------------------
EXTENDS Billing, TLC

CONSTANTS e1, e2

\* Less than a cent, a cent and a half: cut to whole cents the first is lost.
MCMicros == (e1 :> 1 @@ e2 :> 3)

\* The first period, by hand, and an interval of two periods.
MCAsked == {[from |-> 0, to |-> 1], [from |-> 0, to |-> 2]}
=============================================================================

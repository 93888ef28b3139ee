------------------------------ MODULE MCReceipts ------------------------------
(* One request and one delivery of its job are enough to sign and verify. *)
EXTENDS UsageReceipts
=============================================================================

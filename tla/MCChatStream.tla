---------------------------- MODULE MCChatStream -----------------------------
(* Two turns, one voice upload, one stop. The first answer has up to two       *)
(* deltas; the second is empty and is there for what meets the first's tail.   *)
EXTENDS ChatStream

Deltas == <<2, 0>>
=============================================================================

--------------------------- MODULE MCHubDownloads ---------------------------
(* Instances of HubDownloads for TLC. *)
EXTENDS HubDownloads

CONSTANTS j1, j2, first, second

\* One download for each of the two shards.
MCFileOf == [j \in Jobs |-> IF j = j1 THEN first ELSE second]
=============================================================================

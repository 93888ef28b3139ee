--------------------------- MODULE MCMeteredChat ----------------------------
(* Instances of MeteredChat for TLC. *)
EXTENDS MeteredChat, TLC

CONSTANTS r1, r2

MCEstimate == [r \in Requests |-> 2]

\* One await per stretch of the handler that leaves different state behind.
EveryStretch == {"create", "reserve", "generate", "finalizeAttempt", "commit",
                 "enqueue", "receipt", "epilogue", "release", "markFailed"}
\* Awaits before commitQuota, and the catch block's own awaits.
BeforeCommit == {"create", "claimTrace", "reserve", "route", "generate",
                 "finalize", "finalizeAttempt", "commit", "markFailed"}

Symmetry == Permutations(Requests)
=============================================================================

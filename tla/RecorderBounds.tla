--------------------------- MODULE RecorderBounds ---------------------------
(* The limits of a page's recorder (2000 entries and 4096 requests in the   *)
(* code): a ring without room would divide by zero.                         *)
EXTENDS Naturals

CONSTANTS Limit,     \* MaxNetworkEntries
          MaxPending \* maxPendingRequests

ASSUME RecorderLimits == Limit \in Nat \ {0} /\ MaxPending \in Nat \ {0}
=============================================================================

--------------------------- MODULE MCRateLimiter ---------------------------
(***************************************************************************)
(* Small instances of RateLimiter: in a unit of time half a burst of two   *)
(* is refilled, a goroutine may be preempted for one unit, and an entry    *)
(* unseen for more than three units is evicted.                            *)
(***************************************************************************)
EXTENDS RateLimiter

CONSTANTS g1, g2, g3, a1, l1, l2, l3, l4
=============================================================================

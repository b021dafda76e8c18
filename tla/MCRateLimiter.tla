--------------------------- MODULE MCRateLimiter ---------------------------
(***************************************************************************)
(* RateLimiter on a small instance.                                        *)
(***************************************************************************)
EXTENDS RateLimiter, TLC

CONSTANTS auth, sync

\* The two route classes of one client have limits of their own.
RouteLimit == [k \in Key |-> IF k = auth THEN 1 ELSE 2]

\* Threads are interchangeable.
Symmetry == Permutations(Thread)
=============================================================================

------------------------------ MODULE MCAccount ------------------------------
(***************************************************************************)
(* Account with a few clients and server threads.                          *)
(***************************************************************************)
EXTENDS Account, TLC

Symmetry == Permutations(Client) \union Permutations(Thread)
=============================================================================

---------------------------- MODULE MCBlobServer ----------------------------
(***************************************************************************)
(* BlobServer with a few requests in flight.                               *)
(***************************************************************************)
EXTENDS BlobServer, TLC

Symmetry == Permutations(Client) \union Permutations(Data)
=============================================================================

------------------------------ MODULE MCAccess ------------------------------
(***************************************************************************)
(* Access on a small instance.                                             *)
(***************************************************************************)
EXTENDS Access, TLC

\* Devices and passphrases are interchangeable.
Symmetry == Permutations(Device) \union Permutations(Passphrase)
=============================================================================

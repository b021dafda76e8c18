---------------------------- MODULE MCLocalVault ----------------------------
(***************************************************************************)
(* LocalVault on a small instance.                                         *)
(***************************************************************************)
EXTENDS LocalVault, TLC

\* Processes and passphrases are interchangeable.
Symmetry == Permutations(Proc) \union Permutations(Passphrase)

\* Without the history variables, for a run whose properties do not read them.
WithoutHistory == <<stateVars, fileVars, procVars, faults>>
=============================================================================

---------------------------- MODULE MCDeviceSync ----------------------------
(***************************************************************************)
(* DeviceSync with two devices and a few edits.                            *)
(***************************************************************************)
EXTENDS DeviceSync, TLC

Symmetry == Permutations(Device) \union Permutations(Edit)
=============================================================================

---------------------------- MODULE MCVaultFile ----------------------------
(***************************************************************************)
(* Instance of VaultFile for TLC: two passphrases, the v1 key and two more *)
(* (a rotation of the v1 vault, then a v2 vault founded over what a crash  *)
(* left), two edits; calls fail and the process dies any number of times.  *)
(***************************************************************************)
EXTENDS VaultFile
=============================================================================

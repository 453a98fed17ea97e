-------------------------- MODULE MCEndOfSession --------------------------
(***************************************************************************)
(* Instance of EndOfSession for TLC: two secrets and two copies, so that a *)
(* job can be replaced, by one for the same secret or for another; two     *)
(* saves, one before and one after the key is wiped.                       *)
(***************************************************************************)
EXTENDS EndOfSession
=============================================================================

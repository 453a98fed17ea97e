-------------------------- MODULE MCLoginLimiter --------------------------
(***************************************************************************)
(* Instance of LoginLimiter for TLC: steps of 10 s, so the program's own   *)
(* 60 s window, 3 failures and 30 s lockout; three logins at once; 120 s,  *)
(* so that a window passes before and after a lockout.                     *)
(***************************************************************************)
EXTENDS LoginLimiter, TLC

Handlers == Permutations(Handler)
=============================================================================

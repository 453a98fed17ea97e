--------------------------- MODULE MCWebSession ---------------------------
(***************************************************************************)
(* Instance of WebSession for TLC: two handlers run at once, so that any   *)
(* two critical sections can interleave, and three requests arrive in all, *)
(* which is enough for a login, and a logout or an expiry racing a second  *)
(* login through the same cookie.                                          *)
(***************************************************************************)
EXTENDS WebSession
=============================================================================

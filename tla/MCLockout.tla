----------------------------- MODULE MCLockout -----------------------------
(***************************************************************************)
(* Lockout for TLC: the limit is the one of the settings.                  *)
(***************************************************************************)
EXTENDS Lockout
============================================================================

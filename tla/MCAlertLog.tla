----------------------------- MODULE MCAlertLog -----------------------------
(* A small instance of AlertLog for TLC: the constants of the .cfg. *)
EXTENDS AlertLog

CONSTANTS a1, a2, pending, firing
==============================================================================

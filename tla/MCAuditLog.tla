----------------------------- MODULE MCAuditLog -----------------------------
(* A small instance of AuditLog for TLC: the constants of the .cfg file. *)
EXTENDS AuditLog, TLC

CONSTANTS p1, p2, p3, a, b, document, other, conversation

Owner == document :> a @@ conversation :> a @@ other :> b
==============================================================================

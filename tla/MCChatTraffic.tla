---------------------------- MODULE MCChatTraffic ----------------------------
(* A small instance of ChatTraffic for TLC: the constants of the .cfg. *)
EXTENDS ChatTraffic

CONSTANTS t1, t2
==============================================================================

------------------------------- MODULE MCChat -------------------------------
(* A small instance of Chat for TLC. *)
EXTENDS Chat

CONSTANTS t1, t2, anna, bert, s1, d1

TheAskers == [t \in Turns |-> IF t = t1 THEN {anna} ELSE {anna, bert}]
TheReaders == [d \in Documents |-> {anna}]
TheQuestions == {{"secret"}, {"asks", "refers"}, {"override"}}

\* Anna has asked about a secret in the session; Bert has asked nothing yet.
TheEarlier == {<<Saved(anna, s1, {"secret"}, {"secret"}, TRUE, 0)>>}
==============================================================================

--------------------------- MODULE KnowledgeBase ---------------------------
(***************************************************************************)
(* What ingestion promises to those who search: a content is owned by at   *)
(* most one document at a time; a document is either not served or served  *)
(* from one batch of chunks, and it is withdrawn before that batch         *)
(* changes; a document that was removed is never served again.             *)
(***************************************************************************)
EXTENDS Naturals

CONSTANTS Documents, Contents, None

VARIABLES
    owns,     \* the content a document was accepted with
    shown,    \* the batch it is served from, 0 when it is not served
    removed   \* the documents that were removed

vars == <<owns, shown, removed>>

Live(d) == owns[d] # None /\ d \notin removed

Init ==
    /\ owns = [d \in Documents |-> None]
    /\ shown = [d \in Documents |-> 0]
    /\ removed = {}

Accept(d, c) ==
    /\ owns[d] = None
    /\ \A e \in Documents : Live(e) => owns[e] # c
    /\ owns' = [owns EXCEPT ![d] = c]
    /\ UNCHANGED <<shown, removed>>

Serve(d) ==
    /\ Live(d) /\ shown[d] = 0
    /\ shown'[d] \in Nat \ {0}
    /\ shown' = [shown EXCEPT ![d] = shown'[d]]
    /\ UNCHANGED <<owns, removed>>

Withdraw(d) ==
    /\ Live(d)
    /\ shown' = [shown EXCEPT ![d] = 0]
    /\ UNCHANGED <<owns, removed>>

Remove(d) ==
    /\ Live(d)
    /\ removed' = removed \cup {d}
    /\ shown' = [shown EXCEPT ![d] = 0]
    /\ UNCHANGED owns

Next == \E d \in Documents :
    \/ \E c \in Contents : Accept(d, c)
    \/ Serve(d)
    \/ Withdraw(d)
    \/ Remove(d)

Spec == Init /\ [][Next]_vars
=============================================================================

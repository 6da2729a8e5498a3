----------------------------- MODULE MCIngestion -----------------------------
(* Small instances of Ingestion for TLC: the constants of the .cfg files. *)
EXTENDS IngestionInvariants, TLC

CONSTANTS w1, w2, good, bad

OneRequest == {1}
TwoRequests == {1, 2}
ThreeRequests == {1, 2, 3}

\* Workers run the same code and are never compared by value.
WorkerSymmetry == Permutations(Workers)
==============================================================================

--------------------------- MODULE MCStorageGate ---------------------------
(* StorageGate for three tasks and two nested blocks.                      *)
EXTENDS StorageGate

CONSTANTS t1, t2, t3

MCTasks == {t1, t2, t3}
MCMaxDepth == 2
=============================================================================

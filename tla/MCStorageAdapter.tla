-------------------------- MODULE MCStorageAdapter --------------------------
(* Two stored templates of different lengths, a record of two cells.         *)
EXTENDS StorageAdapter

MCSizeOf == [t \in Templates |-> IF t = "p1" THEN 1 ELSE 2]
==============================================================================

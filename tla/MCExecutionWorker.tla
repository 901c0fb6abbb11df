------------------------ MODULE MCExecutionWorker ------------------------
(* ExecutionWorker for plans whose nodes form a chain n1 -> n2 -> ..., of which a
   run uses the first MCNodes. *)
EXTENDS ExecutionWorker

CONSTANTS n1, n2, w1, Length

MCNodes == IF Length = 1 THEN {n1} ELSE {n1, n2}
MCDependsOn == [n \in MCNodes |-> IF n = n1 THEN {} ELSE {n1}]
MCWorkers == {w1}
MCWriters == {n1}
=============================================================================

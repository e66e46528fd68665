------------------------------- MODULE MCTrace -------------------------------
(* A group in which the recorder comes after another observer.             *)
EXTENDS Trace

CONSTANTS logger, file_recorder

MCGroup == <<logger, file_recorder>>

Symmetry == Permutations(Executions)
=============================================================================

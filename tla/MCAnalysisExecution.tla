------------------------ MODULE MCAnalysisExecution ------------------------
(* AnalysisExecution instantiated for TLC: workers are interchangeable.    *)
EXTENDS AnalysisExecution, TLC

WorkerSymmetry == Permutations(Workers)
=============================================================================

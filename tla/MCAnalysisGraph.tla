-------------------------- MODULE MCAnalysisGraph --------------------------
(* AnalysisGraph instantiated for TLC.                                     *)
EXTENDS AnalysisGraph, TLC

WorkerSymmetry == Permutations(Workers)

\* A scenario of three attempts, the code's default: nobody cancels, no statement
\* raises, the first owner never claims again.
FirstOwner == CHOOSE w \in Workers : TRUE

LateCheckpoint ==
    /\ \A r \in Runs : graph'[r] /\ job'[r] # "cancel_requested"
    /\ \A w \in Workers : wk'[w].pc # "fail" /\ (wk'[w].gen = 1 => w = FirstOwner)
    /\ wk'[FirstOwner].gen \in {0, 1}
=============================================================================

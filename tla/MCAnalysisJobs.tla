---------------------------- MODULE MCAnalysisJobs ----------------------------
(* Model values for checking AnalysisJobs. *)
EXTENDS AnalysisJobs

CONSTANTS j1, w1, w2, c1

OneJob == {j1}
OneWorker == {w1}
TwoWorkers == {w1, w2}
OneClient == {c1}

==============================================================================

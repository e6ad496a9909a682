--------------------------- MODULE MCIngestionQueue ---------------------------
(* Model values for checking IngestionQueue. *)
EXTENDS IngestionQueue

CONSTANTS w1, w2

TwoWorkers == {w1, w2}
TwoJobs == 1..2
\* One verdict that ends well, and the one a failed attempt also ends in.
TwoVerdicts == {"COMPLETED", "FAILED"}
FirstJob == {1}

==============================================================================

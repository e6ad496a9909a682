------------------------- MODULE MCClarificationLocks -------------------------
(* Model values for checking ClarificationLocks. *)
EXTENDS ClarificationLocks

CONSTANTS j1, j2, r1, c1, e1, e2

MCJobs == {j1, j2}
MCResponders == {r1}
MCCancellers == {c1}
MCExpirers == {e1, e2}

==============================================================================

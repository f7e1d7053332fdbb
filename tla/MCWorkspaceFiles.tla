--------------------------- MODULE MCWorkspaceFiles ---------------------------
(* Model checking of WorkspaceFiles with two requests and two runs of the job  *)
(* at a time.                                                                  *)
EXTENDS WorkspaceFiles

CONSTANTS w1, w2, j1, j2

TwoWorkers == {w1, w2}
TwoJobs    == {j1, j2}
=============================================================================

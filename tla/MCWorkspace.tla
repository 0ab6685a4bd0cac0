------------------------------ MODULE MCWorkspace ------------------------------
(* Values for model checking Workspace: three requests at a time, one of   *)
(* which may be a listing that starts a second job.                        *)
EXTENDS Workspace

CONSTANTS t1, t2, t3

ThreeTasks == {t1, t2, t3}
BothBuilds == {TRUE, FALSE}
=============================================================================

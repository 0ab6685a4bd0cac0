----------------------------- MODULE MCToolAccess -----------------------------
(* Values for model checking ToolAccess: two asyncio tasks, enough for any *)
(* two requests to race; the theorems of ToolAccessProofs cover more.      *)
EXTENDS ToolAccess

CONSTANTS t1, t2

TwoTasks == {t1, t2}
=============================================================================

----------------------------- MODULE MCOnboarding ------------------------------
(* Values for model checking Onboarding: two requests at a time and two    *)
(* tools that are unlocked together.                                       *)
EXTENDS Onboarding

CONSTANTS t1, t2, cvat, isaac_sim

TwoTasks == {t1, t2}
TwoTools == {cvat, isaac_sim}
BothBuilds == {TRUE, FALSE}
=============================================================================

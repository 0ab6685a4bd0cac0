------------------------------- MODULE MCTenancy -------------------------------
(* Values for model checking Tenancy: two people and two requests at a     *)
(* time, interchangeable, and one lab.                                     *)
EXTENDS Tenancy, TLC

CONSTANTS t1, t2, p1, p2, l1

TwoTasks == {t1, t2}
TwoPeople == {p1, p2}
OneLab == {l1}
Managers == {"MANAGER"}
BothRoles == {"MANAGER", "CONTRIBUTOR"}
OneTask == {t1}
Alike == Permutations(TwoPeople)
Interchangeable == Permutations(TwoTasks) \cup Permutations(TwoPeople)
=============================================================================

----------------------------- MODULE MCTaskBoard ------------------------------
(* Values for model checking TaskBoard: two interchangeable editors and a  *)
(* user who may be assigned; three versions of the task in the build that  *)
(* commits first, two in the other, which has more states.                 *)
EXTENDS TaskBoard, TLC

CONSTANTS c1, c2, u1

TwoClients == {c1, c2}
OneUser == {u1}
SomeStatuses == Strings \ {"BLOCKED"}
AllStatuses == Strings
VersionBound == [b \in BOOLEAN |-> IF b THEN 3 ELSE 2]
EditorSymmetry == Permutations(TwoClients)
=============================================================================

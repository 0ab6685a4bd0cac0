---------------------------- MODULE MCMemberships -----------------------------
(* Values for model checking Memberships: two requests at a time and two   *)
(* invitations of the same person, interchangeable.                        *)
EXTENDS Memberships, TLC

CONSTANTS t1, t2, i1, i2

TwoTasks == {t1, t2}
TwoInvitations == {i1, i2}
Interchangeable == Permutations(TwoTasks) \cup Permutations(TwoInvitations)
=============================================================================

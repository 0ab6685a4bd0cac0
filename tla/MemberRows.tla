------------------------------ MODULE MemberRows ------------------------------
(***************************************************************************)
(* The rows of organization_memberships and lab_memberships and what a     *)
(* request makes of them: shared by Memberships (one person, every step of *)
(* an acceptance) and Tenancy (everybody, every step of an authorization). *)
(***************************************************************************)

(* No membership; REMOVED stands for INVITED too, which nothing tells from *)
(* it.                                                                     *)
NoRow == [status |-> "none", role |-> "none"]
OrgRows == {NoRow} \cup [status: {"ACTIVE", "REMOVED"}, role: {"ADMIN", "MEMBER"}]
LabRows == {NoRow} \cup [status: {"ACTIVE", "REMOVED"}, role: {"MANAGER", "CONTRIBUTOR"}]

(* ADMIN stands for org_role ADMIN without a lab, as platform staff issue  *)
(* it with a new organization; the other two are lab roles.                *)
Offers == {"ADMIN", "MANAGER", "CONTRIBUTOR"}

(* Mutation of OrgRole: the role of the invitation becomes the org role.   *)
OrgRoleAsOffered(offer) == offer

OrgRole(offer) == IF offer = "ADMIN" THEN "ADMIN" ELSE "MEMBER"

(* A row a request has read, and what it makes of it.                      *)
Plans(R) == [seen: R, new: R]
Keep(r) == [seen |-> r, new |-> r]

(* Mutation of JoinedOrg: a former member has the role he left with.       *)
JoinedOrgAsBefore(r, offer) ==
    IF r = NoRow THEN [status |-> "ACTIVE", role |-> OrgRole(offer)]
    ELSE IF offer = "ADMIN" THEN [status |-> "ACTIVE", role |-> "ADMIN"]
    ELSE [r EXCEPT !.status = "ACTIVE"]

(* A member who is not active is one again, with the role offered; an      *)
(* active one keeps the role unless made an admin.                         *)
JoinedOrg(r, offer) ==
    IF r.status # "ACTIVE" THEN [status |-> "ACTIVE", role |-> OrgRole(offer)]
    ELSE IF offer = "ADMIN" THEN [r EXCEPT !.role = "ADMIN"]
    ELSE r

JoinedLab(r, offer) ==
    IF offer = "ADMIN" \/ r.status = "ACTIVE" THEN r
    ELSE [status |-> "ACTIVE", role |-> offer]

(* Mutation of Result: a column that does not change is set to NULL.       *)
ResultWithNulls(row, plan) ==
    IF plan.seen = NoRow THEN (IF plan.new = NoRow THEN row ELSE plan.new)
    ELSE [status |-> IF plan.new.status # plan.seen.status THEN plan.new.status ELSE row.status,
          role   |-> IF plan.new.role # plan.seen.role THEN plan.new.role ELSE "none"]

(* INSERT the planned row, or UPDATE the columns that are to change.       *)
Result(row, plan) ==
    IF plan.seen = NoRow THEN (IF plan.new = NoRow THEN row ELSE plan.new)
    ELSE [status |-> IF plan.new.status # plan.seen.status THEN plan.new.status ELSE row.status,
          role   |-> IF plan.new.role # plan.seen.role THEN plan.new.role ELSE row.role]

(* The unique key refuses an INSERT of a row that is there by now.         *)
Duplicate(row, plan) == plan.seen = NoRow /\ plan.new # NoRow /\ row # NoRow

=============================================================================

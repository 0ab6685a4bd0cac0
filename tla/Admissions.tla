------------------------------ MODULE Admissions ------------------------------
(***************************************************************************)
(* What Memberships promises of one person in an organization and one of   *)
(* its labs, without requests, locks and restarts: an invitation is        *)
(* accepted in one step, which uses it up, gives the person an account,    *)
(* the memberships it offers and an onboarding to contributors; only an    *)
(* admin changes a membership otherwise.                                   *)
(*                                                                         *)
(* An admin may have changed a membership just before: a column is then    *)
(* as he left it, or as it is offered.                                     *)
(***************************************************************************)
EXTENDS MemberRows

CONSTANT Invitations

VARIABLES
    offered,  \* the invitations: status and what they offer
    user,     \* the person has an account
    org,      \* the membership of the organization
    lab,      \* the membership of the lab
    record    \* the person has an onboarding in the lab

vars == <<offered, user, org, lab, record>>

Init ==
    /\ offered = [i \in Invitations |-> [status |-> "none", offer |-> "MANAGER"]]
    /\ user \in BOOLEAN
    /\ org = NoRow /\ lab = NoRow
    /\ record = FALSE

Invite(i, offer) ==
    /\ offered[i].status = "none"
    /\ offered' = [offered EXCEPT ![i] = [status |-> "PENDING", offer |-> offer]]
    /\ UNCHANGED <<user, org, lab, record>>

(* The rows with every column as in the row there is or as in the one that *)
(* was asked for.                                                          *)
Mixed(row, wanted) ==
    [status: {row.status, wanted.status}, role: {row.role, wanted.role}]

Admit(i) ==
    LET offer == offered[i].offer
        toOrg == [status |-> "ACTIVE", role |-> OrgRole(offer)]
        toLab == [status |-> "ACTIVE", role |-> offer]
    IN  /\ offered[i].status = "PENDING"
        /\ offered' = [offered EXCEPT ![i].status = "ACCEPTED"]
        /\ user' = TRUE
        /\ org' \in (OrgRows \ {NoRow}) \cap Mixed(org, toOrg)
        /\ IF offer = "ADMIN" THEN lab' = lab
           ELSE lab' \in (LabRows \ {NoRow}) \cap Mixed(lab, toLab)
        /\ record' = (record \/ offer = "CONTRIBUTOR")

ChangeMember ==
    /\ org # NoRow /\ org' \in OrgRows \ {NoRow}
    /\ UNCHANGED <<offered, user, lab, record>>

(* Adds somebody to the lab, too: a member of the organization, or anybody *)
(* who has an account with another one.                                    *)
ChangeLabMember ==
    /\ user /\ lab' \in LabRows \ {NoRow}
    /\ UNCHANGED <<offered, user, org, record>>

Next ==
    \/ \E i \in Invitations, offer \in Offers : Invite(i, offer)
    \/ \E i \in Invitations : Admit(i)
    \/ ChangeMember \/ ChangeLabMember

Spec == Init /\ [][Next]_vars
=============================================================================

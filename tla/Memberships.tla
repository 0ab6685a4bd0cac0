------------------------------ MODULE Memberships ------------------------------
(***************************************************************************)
(* One person in one organization and one of its labs: the users row, the  *)
(* organization and lab memberships, the onboarding record, the person's   *)
(* invitations, and the handlers that change them: accept_invitation of    *)
(* modules/invitations/router.py and the admins' handlers of               *)
(* modules/memberships/router.py.  Every row has its own unique key, other *)
(* people and labs have other rows, and nothing here is ever deleted.      *)
(*                                                                         *)
(* An admin's request names an organization in its path.  It is the one of *)
(* the lab or, as nothing compares the two when a member is added, another *)
(* one that the person is an active member of.                             *)
(*                                                                         *)
(* accept_invitation is a long transaction: it reads the invitation, the   *)
(* user, the organization membership, the lab membership and the           *)
(* onboarding record one after the other, each read being preceded by the  *)
(* flush of what it wrote before (autoflush), and in the end consumes the  *)
(* invitation with a conditional UPDATE.  A flushed row is locked until    *)
(* the commit.  Taking a lock and the read that follows it are one step    *)
(* here, and so are the last writes and the commit.                        *)
(***************************************************************************)
EXTENDS Naturals, MemberRows

CONSTANTS
    Tasks,       \* asyncio tasks that may serve a request at the same time
    Invitations  \* the person's invitations

VARIABLES
    inv,     \* the invitations: status, what they offer, whether they expired
    user,    \* the person has a users row
    org,     \* the organization_memberships row
    lab,     \* the lab_memberships row
    record,  \* there is a lab_onboarding_progress row
    task,    \* what each asyncio task is doing
    (* history *)
    used,    \* how often each invitation was accepted (committed)
    strayed  \* the person was added to the lab by way of another organization

vars == <<inv, user, org, lab, record, task, used, strayed>>

Idle == [pc |-> "idle", i |-> "none", newUser |-> FALSE, elsewhere |-> FALSE,
         org |-> Keep(NoRow), lab |-> Keep(NoRow), newRecord |-> FALSE]

(* pc: the next step of the request, named for what it does; elsewhere:    *)
(* its path names another organization than the lab's.                     *)
Phases == {"findUser", "joinOrg", "joinLab", "onboard", "consume", "saveOrg", "saveLab"}

Requests ==
    {Idle} \cup [pc: Phases, i: Invitations \cup {"none"}, newUser: BOOLEAN,
                 elsewhere: BOOLEAN,
                 org: Plans(OrgRows), lab: Plans(LabRows), newRecord: BOOLEAN]

TypeOK ==
    /\ inv \in [Invitations -> [status: {"none", "PENDING", "ACCEPTED"},
                                offer: Offers, expired: BOOLEAN]]
    /\ user \in BOOLEAN
    /\ org \in OrgRows
    /\ lab \in LabRows
    /\ record \in BOOLEAN
    /\ task \in [Tasks -> Requests]
    /\ used \in [Invitations -> Nat]
    /\ strayed \in BOOLEAN

(* The person may have an account, from another organization say.          *)
Init ==
    /\ inv = [i \in Invitations |-> [status |-> "none", offer |-> "MANAGER", expired |-> FALSE]]
    /\ user \in BOOLEAN
    /\ org = NoRow
    /\ lab = NoRow
    /\ record = FALSE
    /\ task = [t \in Tasks |-> Idle]
    /\ used = [i \in Invitations |-> 0]
    /\ strayed = FALSE

rows == <<user, org, lab, record>>

-----------------------------------------------------------------------------
(* Transactions.                                                           *)

(* The request changes the row it has read.                                *)
Differs(plan) == plan.seen # plan.new

(* Mutation of Holds: the organization membership is read FOR SHARE.       *)
HoldsReads(t, row) ==
    CASE row = "user" -> task[t].newUser /\ task[t].pc \in {"joinLab", "onboard", "consume"}
      [] row = "org"  -> task[t].pc \in {"joinLab", "onboard", "consume"}
      [] row = "lab"  -> Differs(task[t].lab) /\ task[t].pc = "consume"

(* What a request has flushed, and holds locked, by the step it is at.     *)
Holds(t, row) ==
    CASE row = "user" -> task[t].newUser /\ task[t].pc \in {"joinLab", "onboard", "consume"}
      [] row = "org"  -> Differs(task[t].org) /\ task[t].pc \in {"onboard", "consume"}
      [] row = "lab"  -> Differs(task[t].lab) /\ task[t].pc = "consume"

(* What it flushes in its next step.                                       *)
Needs(t, row) ==
    CASE row = "user" -> task[t].newUser /\ task[t].pc = "joinOrg"
      [] row = "org"  -> Differs(task[t].org) /\ task[t].pc \in {"joinLab", "saveOrg"}
      [] row = "lab"  -> Differs(task[t].lab) /\ task[t].pc \in {"onboard", "saveLab"}

(* A flush waits for whoever holds the row.                                *)
WaitsFor(t, u) == u # t /\ \E row \in {"user", "org", "lab"} : Needs(t, row) /\ Holds(u, row)

Waits(t) == \E u \in Tasks : WaitsFor(t, u)

End(t) == task' = [task EXCEPT ![t] = Idle]

(* The transaction fails and rolls back: a 409, or a 500.                  *)
Abort(t) == End(t)

-----------------------------------------------------------------------------
(* Invitations.                                                            *)

(* create_invitation, create_lab, and create_organization of the platform. *)
Invite(i, offer) ==
    /\ inv[i].status = "none"
    /\ inv' = [inv EXCEPT ![i] = [status |-> "PENDING", offer |-> offer, expired |-> FALSE]]
    /\ UNCHANGED <<rows, task, used, strayed>>

Expire(i) ==
    /\ inv[i].status = "PENDING" /\ ~inv[i].expired
    /\ inv' = [inv EXCEPT ![i].expired = TRUE]
    /\ UNCHANGED <<rows, task, used, strayed>>

(* accept_invitation finds the invitation pending and not expired.         *)
Accept(t, i) ==
    /\ task[t] = Idle
    /\ inv[i].status = "PENDING" /\ ~inv[i].expired
    /\ task' = [task EXCEPT ![t] = [Idle EXCEPT !.pc = "findUser", !.i = i]]
    /\ UNCHANGED <<inv, rows, used, strayed>>

Offer(t) == inv[task[t].i].offer

(* Mutation of NeedsRecord: only who is new to the lab is onboarded.       *)
NeedsRecordIfNew(t) == Offer(t) = "CONTRIBUTOR" /\ ~record /\ task[t].lab.seen = NoRow

(* ensure_onboarding_record finds none.                                    *)
NeedsRecord(t) == Offer(t) = "CONTRIBUTOR" /\ ~record

(* Mutation of Consumable: the number of updated rows is not looked at.    *)
ConsumableAnyway(t) == inv[task[t].i].status # "none"

(* WHERE status = 'PENDING' finds the invitation.                          *)
Consumable(t) == inv[task[t].i].status = "PENDING"

FindUser(t) ==
    /\ task[t].pc = "findUser"
    /\ task' = [task EXCEPT ![t].pc = "joinOrg", ![t].newUser = ~user]
    /\ UNCHANGED <<inv, rows, used, strayed>>

(* A user that somebody else has created meanwhile: 500.                   *)
JoinOrg(t) ==
    /\ task[t].pc = "joinOrg"
    /\ ~Waits(t)
    /\ IF task[t].newUser /\ user THEN Abort(t)
       ELSE task' = [task EXCEPT ![t].pc = "joinLab",
                                 ![t].org = [seen |-> org, new |-> JoinedOrg(org, Offer(t))]]
    /\ UNCHANGED <<inv, rows, used, strayed>>

(* Organization admins are offered no lab.                                 *)
JoinLab(t) ==
    /\ task[t].pc = "joinLab"
    /\ ~Waits(t)
    /\ IF Duplicate(org, task[t].org) THEN Abort(t)
       ELSE task' = [task EXCEPT ![t].pc = "onboard",
                                 ![t].lab = [seen |-> lab, new |-> JoinedLab(lab, Offer(t))]]
    /\ UNCHANGED <<inv, rows, used, strayed>>

Onboard(t) ==
    /\ task[t].pc = "onboard"
    /\ ~Waits(t)
    /\ IF Duplicate(lab, task[t].lab) THEN Abort(t)
       ELSE task' = [task EXCEPT ![t].pc = "consume", ![t].newRecord = NeedsRecord(t)]
    /\ UNCHANGED <<inv, rows, used, strayed>>

(* The conditional UPDATE looks at the status again, not at the expiry. A  *)
(* conflict, or a record somebody else has created, rolls all of it back.  *)
Consume(t) ==
    /\ task[t].pc = "consume"
    /\ IF Consumable(t) /\ ~(task[t].newRecord /\ record)
       THEN /\ inv' = [inv EXCEPT ![task[t].i].status = "ACCEPTED"]
            /\ used' = [used EXCEPT ![task[t].i] = @ + 1]
            /\ user' = TRUE
            /\ org' = Result(org, task[t].org)
            /\ lab' = Result(lab, task[t].lab)
            /\ record' = (record \/ task[t].newRecord)
            /\ End(t) /\ UNCHANGED strayed
       ELSE Abort(t) /\ UNCHANGED <<inv, rows, used, strayed>>

-----------------------------------------------------------------------------
(* The admins' handlers: read the row and check, then write and commit.    *)

(* Mutation of AddLabMember: the organization membership is not looked up. *)
AddAnybody(t, role, elsewhere) ==
    /\ task[t] = Idle
    /\ user /\ lab = NoRow
    /\ task' = [task EXCEPT ![t] =
         [Idle EXCEPT !.pc = "saveLab", !.elsewhere = elsewhere,
                      !.lab = [seen |-> NoRow, new |-> [status |-> "ACTIVE", role |-> role]]]]
    /\ UNCHANGED <<inv, rows, used, strayed>>

(* The membership looked up is that of the organization in the path: of    *)
(* another one anybody with an account may be a member.                    *)
AddLabMember(t, role, elsewhere) ==
    /\ task[t] = Idle
    /\ (IF elsewhere THEN user ELSE org.status = "ACTIVE") /\ lab = NoRow
    /\ task' = [task EXCEPT ![t] =
         [Idle EXCEPT !.pc = "saveLab", !.elsewhere = elsewhere,
                      !.lab = [seen |-> NoRow, new |-> [status |-> "ACTIVE", role |-> role]]]]
    /\ UNCHANGED <<inv, rows, used, strayed>>

(* This one and the next look their row up with the path's organization.   *)
UpdateLabMember(t, new) ==
    /\ task[t] = Idle
    /\ lab # NoRow /\ new # lab
    /\ task' = [task EXCEPT ![t] =
         [Idle EXCEPT !.pc = "saveLab", !.lab = [seen |-> lab, new |-> new]]]
    /\ UNCHANGED <<inv, rows, used, strayed>>

UpdateMember(t, new) ==
    /\ task[t] = Idle
    /\ org # NoRow /\ new # org
    /\ task' = [task EXCEPT ![t] =
         [Idle EXCEPT !.pc = "saveOrg", !.org = [seen |-> org, new |-> new]]]
    /\ UNCHANGED <<inv, rows, used, strayed>>

SaveLab(t) ==
    /\ task[t].pc = "saveLab"
    /\ ~Waits(t)
    /\ IF Duplicate(lab, task[t].lab) THEN Abort(t) /\ UNCHANGED <<lab, strayed>>
       ELSE /\ End(t)
            /\ lab' = Result(lab, task[t].lab)
            /\ strayed' = (strayed \/ task[t].elsewhere)
    /\ UNCHANGED <<inv, user, org, record, used>>

SaveOrg(t) ==
    /\ task[t].pc = "saveOrg"
    /\ ~Waits(t)
    /\ End(t) /\ org' = Result(org, task[t].org)
    /\ UNCHANGED <<inv, user, lab, record, used, strayed>>

-----------------------------------------------------------------------------
(* The process is restarted at any time: open transactions roll back.      *)
Restart ==
    /\ \E t \in Tasks : task[t] # Idle
    /\ task' = [t \in Tasks |-> Idle]
    /\ UNCHANGED <<inv, rows, used, strayed>>

Step(t) ==
    \/ FindUser(t) \/ JoinOrg(t) \/ JoinLab(t) \/ Onboard(t) \/ Consume(t)
    \/ SaveLab(t) \/ SaveOrg(t)

Next ==
    \/ \E i \in Invitations, offer \in Offers : Invite(i, offer)
    \/ \E i \in Invitations : Expire(i)
    \/ \E t \in Tasks, i \in Invitations : Accept(t, i)
    \/ \E t \in Tasks, role \in {"MANAGER", "CONTRIBUTOR"}, elsewhere \in BOOLEAN :
          AddLabMember(t, role, elsewhere)
    \/ \E t \in Tasks, new \in LabRows \ {NoRow} : UpdateLabMember(t, new)
    \/ \E t \in Tasks, new \in OrgRows \ {NoRow} : UpdateMember(t, new)
    \/ \E t \in Tasks : Step(t)
    \/ Restart

Spec == Init /\ [][Next]_vars

-----------------------------------------------------------------------------
(* Properties.                                                             *)

(* An invitation is single-use: however many requests accept it at once,   *)
(* and although its memberships may exist already, one of them commits.    *)
UsedOnce ==
    \A i \in Invitations :
        /\ used[i] <= 1
        /\ used[i] = 1 <=> inv[i].status = "ACCEPTED"

(* Accepting is all or nothing, through unique violations, conflicts and   *)
(* restarts: who accepted an invitation has an account, a membership of    *)
(* the organization and of the lab, and an onboarding if offered to        *)
(* contribute.                                                             *)
AcceptedInFull ==
    \A i \in Invitations : inv[i].status = "ACCEPTED" =>
        /\ user /\ org # NoRow
        /\ inv[i].offer # "ADMIN" => lab # NoRow
        /\ inv[i].offer = "CONTRIBUTOR" => record

(* Nobody is in a lab of an organization they never joined unless a        *)
(* request that named another organization put them there, nobody is in    *)
(* one without an account, and nobody has an onboarding in a lab they are  *)
(* not in, whoever races whom.                                             *)
LabWithinOrg ==
    /\ org # NoRow \/ lab # NoRow => user
    /\ lab # NoRow => org # NoRow \/ strayed
    /\ record => lab # NoRow

(* Nobody gets back in, or higher up, by an invitation that was used: a    *)
(* membership becomes active, and its role that of an admin or a manager,  *)
(* by the hand of an admin or in the very step that consumes a pending     *)
(* invitation, to that role.                                               *)
ByAdmin == \E t \in Tasks : task[t].pc \in {"saveLab", "saveOrg"} /\ task'[t] = Idle

ByInvitation(offers) ==
    \E i \in Invitations : /\ inv[i].status = "PENDING" /\ inv'[i].status = "ACCEPTED"
                           /\ inv[i].offer \in offers

Returns(r, s) == r.status # "ACTIVE" /\ s.status = "ACTIVE"
Rises(r, s, role) == r.role # role /\ s.role = role

NoWayBackIn ==
    [][ByAdmin \/
       /\ Returns(org, org') => ByInvitation(Offers)
       /\ Returns(lab, lab') => ByInvitation({"MANAGER", "CONTRIBUTOR"})
       /\ Rises(org, org', "ADMIN") => ByInvitation({"ADMIN"})
       /\ Rises(lab, lab', "MANAGER") => ByInvitation({"MANAGER"})]_<<org, lab>>

(* No set of requests ever waits in itself: in every one there is somebody *)
(* who waits for nobody of it, as all of them take the rows in the same    *)
(* order.  So whoever waits gets on once others have.                      *)
NoDeadlock ==
    \A waiting \in (SUBSET Tasks) \ {{}} :
        \E t \in waiting : \A u \in waiting : ~WaitsFor(t, u)

(* Every acceptance and every change by an admin is one step of            *)
(* Admissions, taken at its commit, and no other step shows: whatever      *)
(* races, expires, conflicts or is cut off.                                *)
Admitted == INSTANCE Admissions
    WITH offered <- [i \in Invitations |-> [status |-> inv[i].status, offer |-> inv[i].offer]]

AdmittedAtomically == Admitted!Spec

-----------------------------------------------------------------------------
(* Why they hold: what a request carries from its reads to its commit.     *)

(* The invitation was issued; what the request plans is what it offers,    *)
(* and rows it has found are still there.                                  *)
Carried(t) ==
    LET r == task[t] IN
    /\ r.pc \in {"findUser", "joinOrg", "joinLab", "onboard", "consume"} =>
          r.i \in Invitations /\ inv[r.i].status # "none"
    /\ r.pc \in {"joinLab", "onboard", "consume"} =>
          r.org.new = JoinedOrg(r.org.seen, Offer(t)) /\ (r.org.seen # NoRow => org # NoRow)
    /\ r.pc \in {"onboard", "consume"} =>
          r.lab.new = JoinedLab(r.lab.seen, Offer(t)) /\ (r.lab.seen # NoRow => lab # NoRow)
    /\ r.pc = "consume" =>
          /\ r.newRecord => Offer(t) = "CONTRIBUTOR"
          /\ Offer(t) = "CONTRIBUTOR" => r.newRecord \/ record
    /\ r.pc = "saveOrg" => r.org.seen # NoRow /\ r.org.new # NoRow /\ org # NoRow
    /\ r.pc = "saveLab" =>
          /\ user /\ (r.elsewhere \/ strayed \/ org # NoRow)
          /\ r.lab.new # NoRow /\ (r.lab.seen # NoRow => lab # NoRow)

MembershipsInv == TypeOK /\ LabWithinOrg /\ \A t \in Tasks : Carried(t)

-----------------------------------------------------------------------------
(* What the documents say of every run; the code does not keep to it.      *)

(* DESIGN.md, constraints: accepted with WHERE status = 'PENDING' AND      *)
(* expires_at > NOW(), so that an expired one cannot be processed.         *)
NotAcceptedExpired ==
    [][\A i \in Invitations :
          inv[i].status = "PENDING" /\ inv'[i].status = "ACCEPTED" => ~inv[i].expired]_inv
=============================================================================

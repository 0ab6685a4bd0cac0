-------------------------------- MODULE Tenancy --------------------------------
(***************************************************************************)
(* Who may do what in one organization: its status, everybody's membership *)
(* of it and of its labs, the pending invitations, and the requests that   *)
(* change them.                                                            *)
(*                                                                         *)
(* A request is authorized by what get_tenant_context reads at its start,  *)
(* one query after the other: the organization (Enter), the membership     *)
(* (FindMember), the lab of the X-Lab-Id header and the role there         *)
(* (FindLab).  The handler then checks the effective role of this context  *)
(* against the permission matrix and looks its target up (UpdateMember ... *)
(* Invite), and writes and commits (Save).  Other requests run between     *)
(* these steps; nothing is read a second time.                             *)
(*                                                                         *)
(* Accepting an invitation needs no membership and no active organization. *)
(* It reads and writes here; the steps of its transaction are those of     *)
(* Memberships.  An organization is created and disabled by the staff of   *)
(* the platform.                                                           *)
(*                                                                         *)
(* The handlers below write rows of the organization in the path, while    *)
(* the context is that of the X-Organization-Id header, and nothing        *)
(* compares the two.  The frontend sends the same one twice; a request     *)
(* whose header names another organization is one from elsewhere.          *)
(***************************************************************************)
EXTENDS MemberRows

CONSTANTS
    People,   \* users with an account
    Labs,     \* the labs the organization may get
    LabRoles, \* the lab roles people are given
    Tasks,    \* asyncio tasks that may serve a request at the same time
    Outsiders, \* those who may be admins of another organization
    Nobody,   \* no person
    NoLab     \* no lab: the X-Lab-Id header is missing

ASSUME NobodyAssumption == Nobody \notin People /\ NoLab \notin Labs
ASSUME OutsidersAssumption == Outsiders \subseteq People
ASSUME LabRolesAssumption == LabRoles \subseteq {"MANAGER", "CONTRIBUTOR"}

VARIABLES
    organization, \* its status, "absent" before it is created
    member,       \* everybody's row in organization_memberships
    inLab,        \* everybody's row in lab_memberships, for each lab
    labs,         \* the labs there are
    offers,       \* the pending invitations
    task,         \* what each asyncio task is doing
    (* history *)
    overlapped    \* something happened while a request was in flight

tables == <<organization, member, inLab, labs, offers>>
vars == <<organization, member, inLab, labs, offers, task, overlapped>>

(* Mutation of RolePermissions: managers manage the members of labs.       *)
RolePermissionsOfManagers ==
    [Admin       |-> {"MEMBERS_MANAGE", "LABS_MANAGE", "LAB_MEMBERS_MANAGE", "INVITATIONS_CREATE"},
     Manager     |-> {"TOOLS_GRANT", "LAB_MEMBERS_MANAGE"},
     Contributor |-> {},
     Member      |-> {}]

(* Of the matrix, the permissions asked for here.                          *)
RolePermissions ==
    [Admin       |-> {"MEMBERS_MANAGE", "LABS_MANAGE", "LAB_MEMBERS_MANAGE", "INVITATIONS_CREATE"},
     Manager     |-> {"TOOLS_GRANT"},
     Contributor |-> {},
     Member      |-> {}]

Invitations ==
    [to: People, lab: {NoLab}, offer: {"ADMIN"}]
        \cup [to: People, lab: Labs, offer: {"MANAGER", "CONTRIBUTOR"}]

(* What a request is about to write: rows of one person (UPDATE of the     *)
(* columns that differ, or INSERT), new and consumed invitations, a lab.   *)
Writes == [to: People \cup {Nobody}, lab: Labs \cup {NoLab},
           org: Plans(OrgRows), row: Plans(LabRows),
           issues: SUBSET Invitations, consumes: SUBSET Invitations, creates: SUBSET Labs]

Nothing == [to |-> Nobody, lab |-> NoLab, org |-> Keep(NoRow), row |-> Keep(NoRow),
            issues |-> {}, consumes |-> {}, creates |-> {}]

(* pc: the step that is next; elsewhere: the header names another          *)
(* organization; lab: the lab header; orgRole, labRole: the context;       *)
(* write: what the handler has prepared.                                   *)
Idle == [pc |-> "idle", who |-> Nobody, elsewhere |-> FALSE, lab |-> NoLab,
         orgRole |-> "none", labRole |-> "none", write |-> Nothing]

Requests ==
    {Idle} \cup [pc: {"member", "lab", "act", "save"}, who: People, elsewhere: BOOLEAN,
                 lab: Labs \cup {NoLab}, orgRole: {"none", "ADMIN", "MEMBER"},
                 labRole: {"none", "MANAGER", "CONTRIBUTOR"}, write: Writes]

TypeOK ==
    /\ organization \in {"absent", "ACTIVE", "DISABLED"}
    /\ member \in [People -> OrgRows]
    /\ inLab \in [People \X Labs -> LabRows]
    /\ labs \subseteq Labs
    /\ offers \subseteq Invitations
    /\ task \in [Tasks -> Requests]
    /\ overlapped \in BOOLEAN

Init ==
    /\ organization = "absent"
    /\ member = [p \in People |-> NoRow]
    /\ inLab = [x \in People \X Labs |-> NoRow]
    /\ labs = {}
    /\ offers = {}
    /\ task = [t \in Tasks |-> Idle]
    /\ overlapped = FALSE

-----------------------------------------------------------------------------
(* get_tenant_context.                                                     *)

Busy == {t \in Tasks : task[t] # Idle}
End(t) == task' = [task EXCEPT ![t] = Idle]
Overlap == overlapped' = (overlapped \/ Busy # {})

Active(p) == member[p].status = "ACTIVE"

(* A disabled organization lets nobody in.                                 *)
Enter(t, p, l) ==
    /\ task[t] = Idle
    /\ organization = "ACTIVE"
    /\ task' = [task EXCEPT ![t] = [Idle EXCEPT !.pc = "member", !.who = p, !.lab = l]]
    /\ Overlap
    /\ UNCHANGED tables

(* The queries find an admin of another organization, which is active: all *)
(* they read is there.                                                     *)
EnterElsewhere(t, p) ==
    /\ task[t] = Idle
    /\ organization # "absent"
    /\ task' = [task EXCEPT ![t] =
         [Idle EXCEPT !.pc = "act", !.who = p, !.elsewhere = TRUE, !.orgRole = "ADMIN"]]
    /\ Overlap
    /\ UNCHANGED tables

(* Mutation of FindMember: the status of the membership is not asked for.  *)
FindMemberAnyStatus(t) ==
    /\ task[t].pc = "member"
    /\ IF member[task[t].who] = NoRow THEN End(t)
       ELSE task' = [task EXCEPT ![t].pc = IF task[t].lab = NoLab THEN "act" ELSE "lab",
                                 ![t].orgRole = member[task[t].who].role]
    /\ UNCHANGED <<tables, overlapped>>

FindMember(t) ==
    /\ task[t].pc = "member"
    /\ IF ~Active(task[t].who) THEN End(t)
       ELSE task' = [task EXCEPT ![t].pc = IF task[t].lab = NoLab THEN "act" ELSE "lab",
                                 ![t].orgRole = member[task[t].who].role]
    /\ UNCHANGED <<tables, overlapped>>

(* get_user_lab_role, which an admin does not need.                        *)
FindLab(t) ==
    LET here == inLab[<<task[t].who, task[t].lab>>]
        admin == task[t].orgRole = "ADMIN"
    IN  /\ task[t].pc = "lab"
        /\ IF task[t].lab \in labs /\ (admin \/ here.status = "ACTIVE")
           THEN task' = [task EXCEPT ![t].pc = "act",
                                     ![t].labRole = IF admin THEN "none" ELSE here.role]
           ELSE End(t)
        /\ UNCHANGED <<tables, overlapped>>

EffectiveRole(t) ==
    CASE task[t].orgRole = "ADMIN"       -> "Admin"
      [] task[t].orgRole # "ADMIN" /\ task[t].labRole = "MANAGER"     -> "Manager"
      [] task[t].orgRole # "ADMIN" /\ task[t].labRole = "CONTRIBUTOR" -> "Contributor"
      [] OTHER -> "Member"

(* authorize: the permission of a context that was read some steps ago.    *)
Authorized(t, permission) ==
    task[t].pc = "act" /\ permission \in RolePermissions[EffectiveRole(t)]

-----------------------------------------------------------------------------
(* The handlers, up to their write.                                        *)

Prepare(t, w) ==
    /\ task' = [task EXCEPT ![t] =
         [Idle EXCEPT !.pc = "save", !.who = task[t].who, !.elsewhere = task[t].elsewhere,
                      !.write = w]]
    /\ UNCHANGED <<tables, overlapped>>

(* The session has the requester's own row already and does not load it    *)
(* again: it is as FindMember found it.                                    *)
Loaded(t, p) ==
    IF p = task[t].who /\ ~task[t].elsewhere
    THEN [status |-> "ACTIVE", role |-> task[t].orgRole]
    ELSE member[p]

UpdateMember(t, p, new) ==
    /\ Authorized(t, "MEMBERS_MANAGE")
    /\ member[p] # NoRow
    /\ new # Loaded(t, p)
    /\ Prepare(t, [Nothing EXCEPT !.to = p, !.org = [seen |-> Loaded(t, p), new |-> new]])

(* Of the path's organization the person is an active member; that it is   *)
(* the lab's is not asked, so beyond says that it is another one.          *)
AddLabMember(t, p, l, role, beyond) ==
    /\ Authorized(t, "LAB_MEMBERS_MANAGE")
    /\ l \in labs
    /\ beyond \/ Active(p)
    /\ inLab[<<p, l>>] = NoRow
    /\ Prepare(t, [Nothing EXCEPT !.to = p, !.lab = l,
                                  !.row = [seen |-> NoRow, new |-> [status |-> "ACTIVE", role |-> role]]])

UpdateLabMember(t, p, l, new) ==
    /\ Authorized(t, "LAB_MEMBERS_MANAGE")
    /\ inLab[<<p, l>>] # NoRow /\ new # inLab[<<p, l>>]
    /\ Prepare(t, [Nothing EXCEPT !.to = p, !.lab = l, !.row = [seen |-> inLab[<<p, l>>], new |-> new]])

(* Labs are not created twice.                                             *)
Fresh(l) == l \notin labs /\ \A u \in Tasks : l \notin task[u].write.creates

(* A bound: one pending invitation for a person at a time.                 *)
Uninvited(p) == \A o \in offers : o.to # p

(* create_lab with neither, or one, of its two ways to name a manager.     *)
CreateLab(t, l) ==
    /\ Authorized(t, "LABS_MANAGE")
    /\ Fresh(l)
    /\ \/ Prepare(t, [Nothing EXCEPT !.creates = {l}])
       \/ \E p \in People :
             /\ Active(p)
             /\ Prepare(t, [Nothing EXCEPT !.to = p, !.lab = l, !.creates = {l},
                    !.row = [seen |-> NoRow, new |-> [status |-> "ACTIVE", role |-> "MANAGER"]]])
       \/ \E p \in People :
             /\ Uninvited(p)
             /\ Prepare(t, [Nothing EXCEPT !.creates = {l},
                                           !.issues = {[to |-> p, lab |-> l, offer |-> "MANAGER"]}])

Invite(t, p, l, role) ==
    /\ Authorized(t, "INVITATIONS_CREATE")
    /\ l \in labs /\ Uninvited(p)
    /\ Prepare(t, [Nothing EXCEPT !.issues = {[to |-> p, lab |-> l, offer |-> role]}])

(* The handler only reads, or answers 403, 404 or 409.                     *)
Answer(t) ==
    /\ task[t].pc = "act"
    /\ End(t)
    /\ UNCHANGED <<tables, overlapped>>

(* approve_tool_access and deny_tool_access: the permission of the active  *)
(* lab first, then user_is_manager_in_org.                                 *)
ManagesALab(p) == \E l \in Labs : inLab[<<p, l>>] = [status |-> "ACTIVE", role |-> "MANAGER"]

MayDecide(t) ==
    /\ Authorized(t, "TOOLS_GRANT")
    /\ ManagesALab(task[t].who) \/ task[t].orgRole = "ADMIN"

-----------------------------------------------------------------------------
(* accept_invitation, by anybody who has the link.                         *)
Accept(t, o) ==
    LET lab == IF o.offer = "ADMIN" THEN NoRow ELSE inLab[<<o.to, o.lab>>]
        w == [Nothing EXCEPT !.to = o.to, !.lab = o.lab, !.consumes = {o},
                  !.org = [seen |-> member[o.to], new |-> JoinedOrg(member[o.to], o.offer)],
                  !.row = [seen |-> lab, new |-> JoinedLab(lab, o.offer)]]
    IN  /\ task[t] = Idle
        /\ o \in offers
        /\ task' = [task EXCEPT ![t] = [Idle EXCEPT !.pc = "save", !.who = o.to, !.write = w]]
        /\ Overlap
        /\ UNCHANGED tables

-----------------------------------------------------------------------------
(* The write of a request and its commit.                                  *)
Changed(rows, x, plan) ==
    IF plan.seen = plan.new THEN rows ELSE [rows EXCEPT ![x] = Result(rows[x], plan)]

Blocked(rows, x, plan) == plan.seen # plan.new /\ Duplicate(rows[x], plan)

(* A unique key, or the UPDATE that consumes an invitation, may refuse it. *)
Save(t) ==
    LET w == task[t].write IN
    /\ task[t].pc = "save"
    /\ End(t)
    /\ IF \/ ~ w.consumes \subseteq offers
          \/ Blocked(member, w.to, w.org)
          \/ Blocked(inLab, <<w.to, w.lab>>, w.row)
       THEN UNCHANGED tables
       ELSE /\ member' = Changed(member, w.to, w.org)
            /\ inLab' = Changed(inLab, <<w.to, w.lab>>, w.row)
            /\ labs' = labs \cup w.creates
            /\ offers' = (offers \ w.consumes) \cup w.issues
            /\ UNCHANGED organization
    /\ UNCHANGED overlapped

-----------------------------------------------------------------------------
(* Platform staff: create_organization and deactivate_organization.        *)
CreateOrganization(p) ==
    /\ organization = "absent"
    /\ organization' = "ACTIVE"
    /\ offers' = {[to |-> p, lab |-> NoLab, offer |-> "ADMIN"]}
    /\ UNCHANGED <<member, inLab, labs, task, overlapped>>

Deactivate ==
    /\ organization = "ACTIVE"
    /\ organization' = "DISABLED"
    /\ Overlap
    /\ UNCHANGED <<member, inLab, labs, offers, task>>

(* The process is restarted: requests are gone.                            *)
Restart ==
    /\ Busy # {}
    /\ task' = [t \in Tasks |-> Idle]
    /\ UNCHANGED <<tables, overlapped>>

Handle(t) ==
    \/ \E p \in People, new \in OrgRows \ {NoRow} : UpdateMember(t, p, new)
    \/ \E p \in People, l \in Labs, role \in LabRoles :
          Invite(t, p, l, role) \/ \E beyond \in BOOLEAN : AddLabMember(t, p, l, role, beyond)
    \/ \E p \in People, l \in Labs, new \in [status: {"ACTIVE", "REMOVED"}, role: LabRoles] : UpdateLabMember(t, p, l, new)
    \/ \E l \in Labs : CreateLab(t, l)
    \/ Answer(t)

Next ==
    \/ \E t \in Tasks, p \in People, l \in Labs \cup {NoLab} : Enter(t, p, l)
    \/ \E t \in Tasks, p \in Outsiders : EnterElsewhere(t, p)
    \/ \E t \in Tasks : FindMember(t) \/ FindLab(t) \/ Handle(t) \/ Save(t)
    \/ \E t \in Tasks, o \in offers : Accept(t, o)
    \/ \E p \in People : CreateOrganization(p)
    \/ Deactivate
    \/ Restart

Spec == Init /\ [][Next]_vars

-----------------------------------------------------------------------------
(* Properties.                                                             *)

IsAdmin(p) == member[p] = [status |-> "ACTIVE", role |-> "ADMIN"]
Admins == {p \in People : IsAdmin(p)}

(* The request of task t is the one that writes in this step.              *)
Writer(t) == task[t].pc = "save" /\ task'[t] = Idle
Accepting(t) == task[t].write.consumes # {}

(* As long as nothing has happened while a request was in flight, what a   *)
(* request was allowed is still allowed at its write: memberships, labs    *)
(* and invitations change by the hand of somebody who is an active admin   *)
(* of an active organization at that very moment, by an acceptance of the  *)
(* one it concerns, or by a request from elsewhere.                        *)
SerialAuthority ==
    [][~overlapped' /\ organization # "absent" =>
          \E t \in Tasks :
              /\ Writer(t)
              /\ \/ task[t].elsewhere
                 \/ Accepting(t) /\ task[t].write.consumes \subseteq offers
                 \/ organization = "ACTIVE" /\ IsAdmin(task[t].who)]_<<member, inLab, labs, offers>>

(* As long as nothing has happened while a request was in flight, nobody   *)
(* of the organization but the last active admin can leave it without one. *)
LastAdminResigns ==
    [][~overlapped' /\ Admins # {} =>
          \/ Admins' # {}
          \/ \E t \in Tasks : Writer(t) /\ (task[t].elsewhere \/ Admins = {task[t].who})]_member

(* Nobody of the organization can govern it: it is disabled, or it has no  *)
(* active admin and has offered nobody to be one, and no request of its    *)
(* own in flight can change that.                                          *)
Leaderless ==
    /\ organization # "absent"
    /\ Admins = {}
    /\ \A o \in offers : o.offer # "ADMIN"
    /\ \A t \in Tasks : ~task[t].elsewhere =>
          /\ task[t].orgRole # "ADMIN"
          /\ task[t].pc = "save" =>
                /\ Accepting(t) /\ \A o \in task[t].write.consumes : o.offer # "ADMIN"
                /\ Result(member[task[t].who], task[t].write.org)
                       # [status |-> "ACTIVE", role |-> "ADMIN"]

ShutDown ==
    /\ organization = "DISABLED"
    /\ \A t \in Tasks :
          task[t] # Idle => task[t].elsewhere \/ (task[t].pc = "save" /\ Accepting(t))

(* Under every interleaving: once nobody can govern an organization nobody *)
(* ever can again, and it changes only by invitations that are accepted,   *)
(* until a request from elsewhere writes there.                            *)
UngovernedForGood ==
    [][Leaderless \/ ShutDown =>
          \/ \E t \in Tasks : Writer(t) /\ task[t].elsewhere
          \/ /\ (Leaderless \/ ShutDown)'
             /\ labs' = labs /\ offers' \subseteq offers
             /\ member' # member => \E t \in Tasks : Writer(t) /\ Accepting(t)]_vars

-----------------------------------------------------------------------------
(* What the proofs rest on.                                                *)

(* Rows are never deleted: an UPDATE finds the row its request has read.   *)
Fits(row, plan) ==
    plan.seen # plan.new => plan.new # NoRow /\ (plan.seen # NoRow => row # NoRow)

WriteFits(w) ==
    /\ w.org.seen # w.org.new => w.to \in People /\ Fits(member[w.to], w.org)
    /\ w.row.seen # w.row.new =>
          w.to \in People /\ w.lab \in Labs /\ Fits(inLab[<<w.to, w.lab>>], w.row)

(* An acceptance joins one person as one invitation offers it.             *)
Accepts(t, o) ==
    LET w == task[t].write IN
    /\ ~task[t].elsewhere
    /\ w.consumes = {o} /\ w.issues = {} /\ w.creates = {}
    /\ w.to = o.to /\ task[t].who = o.to
    /\ w.org.new = JoinedOrg(w.org.seen, o.offer)

Prepared ==
    \A t \in Tasks : task[t].pc = "save" =>
        /\ WriteFits(task[t].write)
        /\ Accepting(t) => \E o \in Invitations : Accepts(t, o)

(* Until something happens beside a request, what it has read here is      *)
(* current.                                                                *)
Current(t) == ~task[t].elsewhere =>
    /\ task[t].pc \in {"member", "lab", "act"} => organization = "ACTIVE"
    /\ task[t].pc \in {"lab", "act"} =>
          member[task[t].who] = [status |-> "ACTIVE", role |-> task[t].orgRole]
    /\ task[t].pc = "save" =>
          IF Accepting(t) THEN task[t].write.org.seen = member[task[t].write.to]
          ELSE organization = "ACTIVE" /\ IsAdmin(task[t].who)

Undisturbed ==
    ~overlapped =>
        /\ \A t, u \in Tasks : task[t] # Idle /\ task[u] # Idle => t = u
        /\ \A t \in Tasks : Current(t)

TenancyInv == TypeOK /\ Prepared /\ Undisturbed

-----------------------------------------------------------------------------
(* What the comments say of every run; the code does not keep to it.       *)

(* modules/tools/router.py: approving and denying pending requests remains *)
(* available to any manager of the organization.                           *)
AnyManagerDecides ==
    \A t \in Tasks :
        task[t].pc = "act" /\ ~task[t].elsewhere =>
            (Active(task[t].who) /\ ManagesALab(task[t].who) => MayDecide(t))
=============================================================================

----------------------------- MODULE TenancyProofs -----------------------------
(***************************************************************************)
(* Theorems about Tenancy for every set of people, labs and asyncio tasks. *)
(***************************************************************************)
EXTENDS Tenancy, TLAPS

USE NobodyAssumption, OutsidersAssumption, LabRolesAssumption

ActiveAdmin == [status |-> "ACTIVE", role |-> "ADMIN"]

-----------------------------------------------------------------------------
(* Rows and the plans that change them.                                    *)

LEMMA OrgResultType ==
    ASSUME NEW row \in OrgRows, NEW plan \in Plans(OrgRows), plan.seen # plan.new, Fits(row, plan)
    PROVE  Result(row, plan) \in OrgRows /\ Result(row, plan) # NoRow
BY DEF OrgRows, Plans, Fits, Result, NoRow

LEMMA LabResultType ==
    ASSUME NEW row \in LabRows, NEW plan \in Plans(LabRows), plan.seen # plan.new, Fits(row, plan)
    PROVE  Result(row, plan) \in LabRows /\ Result(row, plan) # NoRow
BY DEF LabRows, Plans, Fits, Result, NoRow

LEMMA JoinedOrgType ==
    ASSUME NEW row \in OrgRows, NEW offer \in Offers
    PROVE  JoinedOrg(row, offer) \in OrgRows /\ JoinedOrg(row, offer) # NoRow
BY DEF OrgRows, Offers, JoinedOrg, OrgRole, NoRow

LEMMA JoinedLabType ==
    ASSUME NEW row \in LabRows, NEW offer \in {"MANAGER", "CONTRIBUTOR"}
    PROVE  JoinedLab(row, offer) \in LabRows /\ JoinedLab(row, offer) # NoRow
BY DEF LabRows, JoinedLab, NoRow

LEMMA NoRowType == NoRow \in OrgRows /\ NoRow \in LabRows
BY DEF OrgRows, LabRows

LEMMA NothingType ==
    /\ Nothing \in Writes /\ Idle \in Requests
    /\ Nothing.org.seen = Nothing.org.new /\ Nothing.row.seen = Nothing.row.new
    /\ Nothing.consumes = {}
BY NoRowType DEF Nothing, Writes, Plans, Keep, Idle, Requests

LEMMA InvitationType ==
    ASSUME NEW o \in Invitations
    PROVE  /\ o.to \in People /\ o.offer \in Offers
           /\ o.offer # "ADMIN" => o.lab \in Labs /\ o.offer \in {"MANAGER", "CONTRIBUTOR"}
           /\ o.lab \in Labs \cup {NoLab}
BY DEF Invitations, Offers

(* A request that is under way.                                            *)
LEMMA RequestType ==
    ASSUME TypeOK, NEW t \in Tasks
    PROVE  /\ task[t] \in Requests
           /\ task[t].write \in Writes
           /\ task[t].pc \in {"idle", "member", "lab", "act", "save"}
           /\ task[t].pc = "idle" <=> task[t] = Idle
           /\ task[t] # Idle => task[t].who \in People
           /\ task[t].elsewhere \in BOOLEAN
           /\ task[t].lab \in Labs \cup {NoLab}
           /\ task[t].orgRole \in {"none", "ADMIN", "MEMBER"}
           /\ task[t].labRole \in {"none", "MANAGER", "CONTRIBUTOR"}
<1>1. task[t] \in Requests
  BY DEF TypeOK
<1>2. CASE task[t] = Idle
  BY <1>1, <1>2, NothingType DEF Idle
<1>3. CASE task[t] # Idle
  <2>1. task[t] \in [pc: {"member", "lab", "act", "save"}, who: People, elsewhere: BOOLEAN,
                     lab: Labs \cup {NoLab}, orgRole: {"none", "ADMIN", "MEMBER"},
                     labRole: {"none", "MANAGER", "CONTRIBUTOR"}, write: Writes]
    BY <1>1, <1>3 DEF Requests
  <2>2. QED
    BY <1>1, <1>3, <2>1
<1>4. QED
  BY <1>2, <1>3

LEMMA WriteType ==
    ASSUME NEW w \in Writes
    PROVE  /\ w.org \in Plans(OrgRows) /\ w.row \in Plans(LabRows)
           /\ w.issues \subseteq Invitations /\ w.consumes \subseteq Invitations
           /\ w.creates \subseteq Labs
BY DEF Writes

LEMMA MemberType ==
    ASSUME TypeOK, NEW p \in People
    PROVE  /\ member[p] \in OrgRows
           /\ \A l \in Labs : inLab[<<p, l>>] \in LabRows
BY DEF TypeOK

-----------------------------------------------------------------------------
(* Steps of a task.                                                        *)

LEMMA EndEffect ==
    ASSUME TypeOK, NEW t \in Tasks, End(t)
    PROVE  /\ task' \in [Tasks -> Requests]
           /\ task'[t] = Idle
           /\ \A u \in Tasks \ {t} : task'[u] = task[u]
BY NothingType DEF TypeOK, End

LEMMA PrepareEffect ==
    ASSUME TypeOK, NEW t \in Tasks, task[t] # Idle, NEW w \in Writes, Prepare(t, w)
    PROVE  /\ task' \in [Tasks -> Requests]
           /\ task'[t].pc = "save" /\ task'[t].who = task[t].who /\ task'[t].write = w
           /\ task'[t].elsewhere = task[t].elsewhere
           /\ \A u \in Tasks \ {t} : task'[u] = task[u]
           /\ UNCHANGED <<tables, overlapped>>
<1>1. [Idle EXCEPT !.pc = "save", !.who = task[t].who, !.elsewhere = task[t].elsewhere,
                   !.write = w] \in Requests
  BY RequestType DEF Idle, Requests
<1>2. QED
  BY <1>1 DEF TypeOK, Prepare, Idle

(* Who may change the tables is, by the matrix, an admin.                  *)
LEMMA OnlyAdmins ==
    ASSUME TypeOK, NEW t \in Tasks,
           NEW permission \in {"MEMBERS_MANAGE", "LABS_MANAGE", "LAB_MEMBERS_MANAGE",
                               "INVITATIONS_CREATE"},
           Authorized(t, permission)
    PROVE  task[t].pc = "act" /\ task[t].orgRole = "ADMIN"
BY DEF Authorized, RolePermissions, EffectiveRole

AdminPrepares(t) ==
    /\ task[t].pc = "act" /\ task[t].orgRole = "ADMIN"
    /\ \E w \in Writes : w.consumes = {} /\ WriteFits(w) /\ Prepare(t, w)

LEMMA UpdateMemberPrepares ==
    ASSUME TypeOK, NEW t \in Tasks, NEW p \in People, NEW new \in OrgRows \ {NoRow},
           UpdateMember(t, p, new)
    PROVE  AdminPrepares(t)
<1> DEFINE w == [Nothing EXCEPT !.to = p, !.org = [seen |-> Loaded(t, p), new |-> new]]
<1>1. task[t].pc = "act" /\ task[t].orgRole = "ADMIN"
  BY OnlyAdmins DEF UpdateMember
<1>2. Loaded(t, p) \in OrgRows
  BY <1>1, MemberType DEF Loaded, OrgRows
<1>3. w \in Writes
  BY <1>2, NothingType DEF Writes, Nothing, Plans
<1>4. w.consumes = {} /\ w.to = p /\ w.org = [seen |-> Loaded(t, p), new |-> new]
      /\ w.row = Nothing.row
  BY DEF Nothing
<1> HIDE DEF w
<1>5. WriteFits(w)
  BY <1>4, NothingType DEF WriteFits, Fits, UpdateMember
<1>6. QED
  BY <1>1, <1>3, <1>4, <1>5 DEF w, AdminPrepares, UpdateMember

LEMMA AddLabMemberPrepares ==
    ASSUME TypeOK, NEW t \in Tasks, NEW p \in People, NEW l \in Labs, NEW role \in LabRoles,
           NEW beyond \in BOOLEAN, AddLabMember(t, p, l, role, beyond)
    PROVE  AdminPrepares(t)
<1> DEFINE new == [status |-> "ACTIVE", role |-> role]
<1> DEFINE w == [Nothing EXCEPT !.to = p, !.lab = l, !.row = [seen |-> NoRow, new |-> new]]
<1>1. task[t].pc = "act" /\ task[t].orgRole = "ADMIN"
  BY OnlyAdmins DEF AddLabMember
<1>2. new \in LabRows /\ new # NoRow
  BY DEF LabRows, NoRow
<1>3. w \in Writes
  BY <1>2, NoRowType, NothingType DEF Writes, Nothing, Plans
<1>4. w.consumes = {} /\ w.to = p /\ w.lab = l /\ w.row = [seen |-> NoRow, new |-> new]
      /\ w.org = Nothing.org
  BY DEF Nothing
<1> HIDE DEF w
<1>5. WriteFits(w)
  BY <1>2, <1>4, NothingType DEF WriteFits, Fits
<1>6. QED
  BY <1>1, <1>3, <1>4, <1>5 DEF w, AdminPrepares, AddLabMember

LEMMA UpdateLabMemberPrepares ==
    ASSUME TypeOK, NEW t \in Tasks, NEW p \in People, NEW l \in Labs,
           NEW new \in [status: {"ACTIVE", "REMOVED"}, role: LabRoles],
           UpdateLabMember(t, p, l, new)
    PROVE  AdminPrepares(t)
<1> DEFINE w == [Nothing EXCEPT !.to = p, !.lab = l, !.row = [seen |-> inLab[<<p, l>>], new |-> new]]
<1>1. task[t].pc = "act" /\ task[t].orgRole = "ADMIN"
  BY OnlyAdmins DEF UpdateLabMember
<1>2. new \in LabRows /\ new # NoRow
  <2>1. new.status \in {"ACTIVE", "REMOVED"} /\ new.role \in {"MANAGER", "CONTRIBUTOR"}
        /\ new = [status |-> new.status, role |-> new.role]
    OBVIOUS
  <2>2. QED
    BY <2>1 DEF LabRows, NoRow
<1> inLab[<<p, l>>] \in LabRows
  BY MemberType
<1>3. w \in Writes
  BY <1>2, NothingType DEF Writes, Nothing, Plans
<1>4. w.consumes = {} /\ w.to = p /\ w.lab = l
      /\ w.row = [seen |-> inLab[<<p, l>>], new |-> new] /\ w.org = Nothing.org
  BY DEF Nothing
<1> HIDE DEF w
<1>5. WriteFits(w)
  BY <1>2, <1>4, NothingType DEF WriteFits, Fits, UpdateLabMember
<1>6. QED
  BY <1>1, <1>3, <1>4, <1>5 DEF w, AdminPrepares, UpdateLabMember

LEMMA InvitePrepares ==
    ASSUME TypeOK, NEW t \in Tasks, NEW p \in People, NEW l \in Labs, NEW role \in LabRoles,
           Invite(t, p, l, role)
    PROVE  AdminPrepares(t)
<1> DEFINE w == [Nothing EXCEPT !.issues = {[to |-> p, lab |-> l, offer |-> role]}]
<1>1. task[t].pc = "act" /\ task[t].orgRole = "ADMIN"
  BY OnlyAdmins DEF Invite
<1>2. [to |-> p, lab |-> l, offer |-> role] \in Invitations
  BY DEF Invitations
<1>3. w \in Writes
  BY <1>2, NothingType DEF Writes, Nothing
<1>4. w.consumes = {} /\ w.org = Nothing.org /\ w.row = Nothing.row
  BY DEF Nothing
<1> HIDE DEF w
<1>5. WriteFits(w)
  BY <1>4, NothingType DEF WriteFits
<1>6. QED
  BY <1>1, <1>3, <1>4, <1>5 DEF w, AdminPrepares, Invite

LEMMA CreateLabPrepares ==
    ASSUME TypeOK, NEW t \in Tasks, NEW l \in Labs, CreateLab(t, l)
    PROVE  AdminPrepares(t)
<1>1. task[t].pc = "act" /\ task[t].orgRole = "ADMIN"
  BY OnlyAdmins DEF CreateLab
<1>2. CASE Prepare(t, [Nothing EXCEPT !.creates = {l}])
  <2> DEFINE w == [Nothing EXCEPT !.creates = {l}]
  <2>1. w \in Writes /\ w.consumes = {} /\ w.org = Nothing.org /\ w.row = Nothing.row
    BY NothingType DEF Writes, Nothing
  <2> HIDE DEF w
  <2>2. WriteFits(w)
    BY <2>1, NothingType DEF WriteFits
  <2>3. QED
    BY <1>1, <1>2, <2>1, <2>2 DEF w, AdminPrepares
<1>3. ASSUME NEW p \in People,
             Prepare(t, [Nothing EXCEPT !.to = p, !.lab = l, !.creates = {l},
                    !.row = [seen |-> NoRow, new |-> [status |-> "ACTIVE", role |-> "MANAGER"]]])
      PROVE  AdminPrepares(t)
  <2> DEFINE new == [status |-> "ACTIVE", role |-> "MANAGER"]
  <2> DEFINE w == [Nothing EXCEPT !.to = p, !.lab = l, !.creates = {l},
                                  !.row = [seen |-> NoRow, new |-> new]]
  <2>1. new \in LabRows /\ new # NoRow
    BY DEF LabRows, NoRow
  <2>2. w \in Writes
    BY <2>1, NoRowType, NothingType DEF Writes, Nothing, Plans
  <2>3. w.consumes = {} /\ w.to = p /\ w.lab = l /\ w.row = [seen |-> NoRow, new |-> new]
        /\ w.org = Nothing.org
    BY DEF Nothing
  <2> HIDE DEF w
  <2>4. WriteFits(w)
    BY <2>1, <2>3, NothingType DEF WriteFits, Fits
  <2>5. QED
    BY <1>1, <1>3, <2>2, <2>3, <2>4 DEF w, AdminPrepares
<1>4. ASSUME NEW p \in People,
             Prepare(t, [Nothing EXCEPT !.creates = {l},
                                        !.issues = {[to |-> p, lab |-> l, offer |-> "MANAGER"]}])
      PROVE  AdminPrepares(t)
  <2> DEFINE w == [Nothing EXCEPT !.creates = {l},
                                  !.issues = {[to |-> p, lab |-> l, offer |-> "MANAGER"]}]
  <2>1. [to |-> p, lab |-> l, offer |-> "MANAGER"] \in Invitations
    BY DEF Invitations
  <2>2. w \in Writes /\ w.consumes = {} /\ w.org = Nothing.org /\ w.row = Nothing.row
    BY <2>1, NothingType DEF Writes, Nothing
  <2> HIDE DEF w
  <2>3. WriteFits(w)
    BY <2>2, NothingType DEF WriteFits
  <2>4. QED
    BY <1>1, <1>4, <2>2, <2>3 DEF w, AdminPrepares
<1>5. QED
  BY <1>2, <1>3, <1>4 DEF CreateLab

LEMMA HandleEffect ==
    ASSUME TypeOK, NEW t \in Tasks, Handle(t)
    PROVE  AdminPrepares(t) \/ Answer(t)
BY UpdateMemberPrepares, AddLabMemberPrepares, UpdateLabMemberPrepares, InvitePrepares,
   CreateLabPrepares DEF Handle

LEMMA AcceptEffect ==
    ASSUME TypeOK, NEW t \in Tasks, NEW o \in offers, Accept(t, o)
    PROVE  /\ task' \in [Tasks -> Requests]
           /\ task'[t].pc = "save" /\ task'[t].orgRole = "none" /\ ~task'[t].elsewhere
           /\ \A u \in Tasks \ {t} : task'[u] = task[u]
           /\ Overlap /\ UNCHANGED tables
           /\ WriteFits(task[t].write)'
           /\ o \in Invitations /\ Accepts(t, o)'
           /\ task'[t].write.org.seen = member[o.to]
<1> DEFINE lab == IF o.offer = "ADMIN" THEN NoRow ELSE inLab[<<o.to, o.lab>>]
           w == [Nothing EXCEPT !.to = o.to, !.lab = o.lab, !.consumes = {o},
                    !.org = [seen |-> member[o.to], new |-> JoinedOrg(member[o.to], o.offer)],
                    !.row = [seen |-> lab, new |-> JoinedLab(lab, o.offer)]]
<1>1. /\ o \in Invitations /\ o.to \in People /\ o.offer \in Offers
      /\ o.offer # "ADMIN" => o.lab \in Labs /\ o.offer \in {"MANAGER", "CONTRIBUTOR"}
      /\ o.lab \in Labs \cup {NoLab}
  BY InvitationType DEF TypeOK
<1>2. /\ member[o.to] \in OrgRows
      /\ JoinedOrg(member[o.to], o.offer) \in OrgRows \ {NoRow}
  BY <1>1, MemberType, JoinedOrgType
<1>3. /\ lab \in LabRows /\ JoinedLab(lab, o.offer) \in LabRows
      /\ o.offer = "ADMIN" => JoinedLab(lab, o.offer) = lab
      /\ o.offer # "ADMIN" => JoinedLab(lab, o.offer) # NoRow
  <2>1. CASE o.offer = "ADMIN"
    BY <2>1, NoRowType DEF JoinedLab
  <2>2. CASE o.offer # "ADMIN"
    <3>1. lab = inLab[<<o.to, o.lab>>]
      BY <2>2
    <3>2. lab \in LabRows
      BY <1>1, <2>2, <3>1, MemberType
    <3> HIDE DEF lab
    <3>3. QED
      BY <1>1, <2>2, <3>2, JoinedLabType
  <2>3. QED
    BY <2>1, <2>2
<1>4. task' = [task EXCEPT ![t] = [Idle EXCEPT !.pc = "save", !.who = o.to, !.write = w]]
      /\ Overlap /\ UNCHANGED tables
  BY DEF Accept
<1>5. w.row = [seen |-> lab, new |-> JoinedLab(lab, o.offer)]
  BY DEF Nothing
<1>6. o.offer # "ADMIN" => lab = inLab[<<o.to, o.lab>>]
  OBVIOUS
<1> HIDE DEF lab
<1>7. w \in Writes
  BY <1>1, <1>2, <1>3, NothingType DEF Writes, Nothing, Plans
<1>8. /\ w.to = o.to /\ w.lab = o.lab /\ w.consumes = {o} /\ w.issues = {} /\ w.creates = {}
      /\ w.org = [seen |-> member[o.to], new |-> JoinedOrg(member[o.to], o.offer)]
  BY DEF Nothing
<1> HIDE DEF w
<1>9. WriteFits(w)
  BY <1>1, <1>2, <1>3, <1>5, <1>6, <1>8 DEF WriteFits, Fits
<1>10. [Idle EXCEPT !.pc = "save", !.who = o.to, !.write = w] \in Requests
  BY <1>1, <1>7 DEF Idle, Requests
<1>11. /\ task'[t].pc = "save" /\ task'[t].who = o.to /\ task'[t].orgRole = "none"
       /\ task'[t].write = w /\ ~task'[t].elsewhere
  BY <1>4 DEF TypeOK, Idle
<1>12. task' \in [Tasks -> Requests] /\ \A u \in Tasks \ {t} : task'[u] = task[u]
  BY <1>4, <1>10 DEF TypeOK
<1>13. Accepts(t, o)'
  BY <1>8, <1>11 DEF Accepts
<1>14. WriteFits(task[t].write)'
  BY <1>4, <1>9, <1>11 DEF WriteFits, Fits, tables
<1>15. QED
  BY <1>1, <1>4, <1>8, <1>11, <1>12, <1>13, <1>14

(* What a write makes of the rows of memberships.                          *)
LEMMA SaveEffect ==
    ASSUME TypeOK, Prepared, NEW t \in Tasks, Save(t)
    PROVE  /\ member' \in [People -> OrgRows]
           /\ inLab' \in [People \X Labs -> LabRows]
           /\ \A p \in People : member[p] # NoRow => member'[p] # NoRow
           /\ \A x \in People \X Labs : inLab[x] # NoRow => inLab'[x] # NoRow
           /\ labs' \subseteq Labs /\ offers' \subseteq Invitations
<1> DEFINE w == task[t].write
<1>1. w \in Writes /\ WriteFits(w)
  BY RequestType DEF Save, Prepared
<1>2. CASE UNCHANGED tables
  BY <1>2 DEF TypeOK, tables
<1>3. CASE /\ member' = Changed(member, w.to, w.org)
           /\ inLab' = Changed(inLab, <<w.to, w.lab>>, w.row)
           /\ labs' = labs \cup w.creates
           /\ offers' = (offers \ w.consumes) \cup w.issues
  <2> HIDE DEF w
  <2>1. w.org \in Plans(OrgRows) /\ w.row \in Plans(LabRows)
    BY <1>1, WriteType
  <2>2. /\ member' \in [People -> OrgRows]
        /\ \A p \in People : member[p] # NoRow => member'[p] # NoRow
    <3>1. CASE w.org.seen = w.org.new
      BY <1>3, <3>1 DEF Changed, TypeOK
    <3>2. CASE w.org.seen # w.org.new
      <4>1. w.to \in People /\ Fits(member[w.to], w.org) /\ member[w.to] \in OrgRows
        BY <1>1, <3>2, MemberType DEF WriteFits
      <4>2. Result(member[w.to], w.org) \in OrgRows \ {NoRow}
        BY <2>1, <3>2, <4>1, OrgResultType
      <4>3. member' = [member EXCEPT ![w.to] = Result(member[w.to], w.org)]
        BY <1>3, <3>2 DEF Changed
      <4>4. QED
        BY <4>1, <4>2, <4>3 DEF TypeOK
    <3>3. QED
      BY <3>1, <3>2
  <2>3. /\ inLab' \in [People \X Labs -> LabRows]
        /\ \A x \in People \X Labs : inLab[x] # NoRow => inLab'[x] # NoRow
    <3>1. CASE w.row.seen = w.row.new
      BY <1>3, <3>1 DEF Changed, TypeOK
    <3>2. CASE w.row.seen # w.row.new
      <4> DEFINE x == <<w.to, w.lab>>
      <4>1. x \in People \X Labs /\ Fits(inLab[x], w.row) /\ inLab[x] \in LabRows
        BY <1>1, <3>2, MemberType DEF WriteFits
      <4>3. inLab' = [inLab EXCEPT ![x] = Result(inLab[x], w.row)]
        BY <1>3, <3>2 DEF Changed
      <4> HIDE DEF x
      <4>2. Result(inLab[x], w.row) \in LabRows \ {NoRow}
        BY <2>1, <3>2, <4>1, LabResultType
      <4>4. QED
        BY <4>1, <4>2, <4>3 DEF TypeOK
    <3>3. QED
      BY <3>1, <3>2
  <2>4. labs' \subseteq Labs /\ offers' \subseteq Invitations
    BY <1>1, <1>3, WriteType DEF TypeOK
  <2>5. QED
    BY <2>2, <2>3, <2>4
<1>4. QED
  BY <1>2, <1>3 DEF Save, tables

-----------------------------------------------------------------------------
(* Typing, and what a request is about to write.                           *)

(* One task moves, the tables keep their rows.                             *)
LEMMA StillPrepared ==
    ASSUME TypeOK, Prepared, NEW t \in Tasks,
           \A p \in People : member[p] # NoRow => member'[p] # NoRow,
           \A x \in People \X Labs : inLab[x] # NoRow => inLab'[x] # NoRow,
           \A u \in Tasks \ {t} : task'[u] = task[u],
           task'[t].pc = "save" =>
               /\ WriteFits(task[t].write)'
               /\ Accepting(t)' => \E o \in Invitations : Accepts(t, o)'
    PROVE  Prepared'
<1> SUFFICES ASSUME NEW u \in Tasks, task'[u].pc = "save"
             PROVE  /\ WriteFits(task[u].write)'
                    /\ Accepting(u)' => \E o \in Invitations : Accepts(u, o)'
  BY DEF Prepared
<1>1. CASE u = t
  BY <1>1
<1>2. CASE u # t
  <2>1. task'[u] = task[u] /\ task[u].write \in Writes
    BY <1>2, RequestType
  <2>2. WriteFits(task[u].write)'
    <3> DEFINE w == task[u].write
    <3>1. w \in Writes /\ WriteFits(w)
      BY <2>1 DEF Prepared
    <3>2. QED
      BY <2>1, <3>1 DEF WriteFits, Fits
  <2>3. Accepting(u)' => \E o \in Invitations : Accepts(u, o)'
    BY <2>1 DEF Prepared, Accepting, Accepts
  <2>4. QED
    BY <2>1, <2>2, <2>3
<1>3. QED
  BY <1>1, <1>2

Safe == TypeOK /\ Prepared

LEMMA SafeInit == Init => Safe
<1> SUFFICES ASSUME Init PROVE Safe
  OBVIOUS
<1>1. TypeOK
  BY NothingType, NoRowType DEF Init, TypeOK
<1>2. Prepared
  BY DEF Init, Prepared, Idle
<1>3. QED
  BY <1>1, <1>2 DEF Safe

(* The steps of get_tenant_context and the answers touch the task only.    *)
Reads(t) == (\E p \in People, l \in Labs \cup {NoLab} : Enter(t, p, l))
               \/ (\E p \in Outsiders : EnterElsewhere(t, p))
               \/ FindMember(t) \/ FindLab(t) \/ Answer(t)

LEMMA ReadEffect ==
    ASSUME TypeOK, NEW t \in Tasks, Reads(t)
    PROVE  /\ task' \in [Tasks -> Requests] /\ task'[t].pc # "save"
           /\ \A u \in Tasks \ {t} : task'[u] = task[u]
           /\ UNCHANGED tables
<1>1. ASSUME NEW p \in People, NEW l \in Labs \cup {NoLab}, Enter(t, p, l)
      PROVE  /\ task' \in [Tasks -> Requests] /\ task'[t].pc = "member"
             /\ \A u \in Tasks \ {t} : task'[u] = task[u]
             /\ UNCHANGED tables
  <2>1. [Idle EXCEPT !.pc = "member", !.who = p, !.lab = l] \in Requests
    BY NothingType DEF Idle, Requests
  <2>2. QED
    BY <1>1, <2>1 DEF Enter, TypeOK, Idle
<1>2. CASE End(t) /\ UNCHANGED tables
  BY <1>2, EndEffect DEF Idle
<1>6. ASSUME NEW p \in Outsiders, EnterElsewhere(t, p)
      PROVE  /\ task' \in [Tasks -> Requests] /\ task'[t].pc = "act"
             /\ \A u \in Tasks \ {t} : task'[u] = task[u]
             /\ UNCHANGED tables
  <2>1. [Idle EXCEPT !.pc = "act", !.who = p, !.elsewhere = TRUE, !.orgRole = "ADMIN"] \in Requests
    BY NothingType DEF Idle, Requests
  <2>2. QED
    BY <1>6, <2>1 DEF EnterElsewhere, TypeOK, Idle
<1>3. CASE FindMember(t) /\ ~End(t)
  <2>1. task[t].who \in People /\ Active(task[t].who)
    BY <1>3, RequestType DEF FindMember, Idle
  <2> DEFINE pc == IF task[t].lab = NoLab THEN "act" ELSE "lab"
             role == member[task[t].who].role
             new == [task[t] EXCEPT !.pc = pc, !.orgRole = role]
  <2>2. role \in {"ADMIN", "MEMBER"} /\ pc \in {"act", "lab"}
    BY <2>1, MemberType DEF Active, OrgRows, NoRow
  <2>3. task' = [task EXCEPT ![t].pc = pc, ![t].orgRole = role]
        /\ UNCHANGED tables
    BY <1>3 DEF FindMember
  <2> HIDE DEF pc, role
  <2>4. task' = [task EXCEPT ![t] = new]
    BY <2>3, RequestType DEF TypeOK, Requests, Idle
  <2>5. task[t] # Idle
    BY <1>3 DEF FindMember, Idle
  <2>6. task[t] \in [pc: {"member", "lab", "act", "save"}, who: People,
                     elsewhere: BOOLEAN, lab: Labs \cup {NoLab}, orgRole: {"none", "ADMIN", "MEMBER"},
                     labRole: {"none", "MANAGER", "CONTRIBUTOR"}, write: Writes]
    BY <2>5, RequestType DEF Requests
  <2>7. new \in Requests /\ new.pc # "save"
    BY <2>2, <2>6 DEF Requests
  <2> HIDE DEF new
  <2>8. QED
    BY <2>3, <2>4, <2>7 DEF TypeOK
<1>4. CASE FindLab(t) /\ ~End(t)
  <2> DEFINE role == IF task[t].orgRole = "ADMIN" THEN "none"
                     ELSE inLab[<<task[t].who, task[t].lab>>].role
             new == [task[t] EXCEPT !.pc = "act", !.labRole = role]
  <2>1. task[t].who \in People /\ task[t].lab \in labs /\ labs \subseteq Labs
    BY <1>4, RequestType DEF FindLab, Idle, TypeOK
  <2>2. inLab[<<task[t].who, task[t].lab>>] \in LabRows
    BY <2>1, MemberType
  <2>3. role \in {"none", "MANAGER", "CONTRIBUTOR"}
    BY <2>2 DEF LabRows, NoRow
  <2>4. task' = [task EXCEPT ![t].pc = "act", ![t].labRole = role] /\ UNCHANGED tables
    BY <1>4 DEF FindLab
  <2> HIDE DEF role
  <2>5. task' = [task EXCEPT ![t] = new]
    BY <2>4, RequestType DEF TypeOK, Requests, Idle
  <2>6. task[t] # Idle
    BY <1>4 DEF FindLab, Idle
  <2>7. task[t] \in [pc: {"member", "lab", "act", "save"}, who: People,
                     elsewhere: BOOLEAN, lab: Labs \cup {NoLab}, orgRole: {"none", "ADMIN", "MEMBER"},
                     labRole: {"none", "MANAGER", "CONTRIBUTOR"}, write: Writes]
    BY <2>6, RequestType DEF Requests
  <2>8. new \in Requests /\ new.pc # "save"
    BY <2>3, <2>7 DEF Requests
  <2> HIDE DEF new
  <2>9. QED
    BY <2>4, <2>5, <2>8 DEF TypeOK
<1>5. QED
  BY <1>1, <1>2, <1>3, <1>4, <1>6 DEF Reads, FindMember, FindLab, Answer

LEMMA RestartEffect ==
    ASSUME TypeOK, Restart
    PROVE  task' \in [Tasks -> Requests] /\ \A t \in Tasks : task'[t] = Idle
BY NothingType DEF Restart

(* The steps there are.                                                    *)
LEMMA Steps ==
    ASSUME TypeOK, Next
    PROVE  \/ \E t \in Tasks : Reads(t) \/ AdminPrepares(t) \/ Save(t)
           \/ \E t \in Tasks, o \in offers : Accept(t, o)
           \/ \E p \in People : CreateOrganization(p)
           \/ Deactivate \/ Restart
BY HandleEffect DEF Next, Reads

LEMMA SafeStep ==
    ASSUME Safe, [Next]_vars
    PROVE  Safe'
<1> USE DEF Safe
<1>1. ASSUME NEW t \in Tasks, Reads(t)
      PROVE  Safe'
  <2>1. Prepared'
    BY <1>1, ReadEffect, StillPrepared DEF tables
  <2>2. TypeOK'
    BY <1>1, ReadEffect DEF TypeOK, tables, Reads, Enter, EnterElsewhere, Overlap,
       FindMember, FindLab, Answer
  <2>3. QED
    BY <2>1, <2>2
<1>2. ASSUME NEW t \in Tasks, AdminPrepares(t)
      PROVE  Safe'
  <2>1. PICK w \in Writes : w.consumes = {} /\ WriteFits(w) /\ Prepare(t, w)
    BY <1>2 DEF AdminPrepares
  <2>2. /\ task' \in [Tasks -> Requests]
        /\ task'[t].pc = "save" /\ task'[t].write = w
        /\ \A u \in Tasks \ {t} : task'[u] = task[u]
        /\ UNCHANGED <<tables, overlapped>>
    BY <1>2, <2>1, PrepareEffect DEF AdminPrepares, Idle
  <2>3. TypeOK'
    BY <2>2 DEF TypeOK, tables
  <2>4. WriteFits(task[t].write)' /\ ~Accepting(t)'
    BY <2>1, <2>2 DEF WriteFits, Fits, Accepting, tables
  <2>5. Prepared'
    BY <2>2, <2>4, StillPrepared DEF tables
  <2>6. QED
    BY <2>3, <2>5
<1>3. ASSUME NEW t \in Tasks, Save(t)
      PROVE  Safe'
  <2>1. task' \in [Tasks -> Requests] /\ task'[t] = Idle
        /\ \A u \in Tasks \ {t} : task'[u] = task[u]
    BY <1>3, EndEffect DEF Save
  <2>2. task'[t].pc # "save"
    BY <2>1 DEF Idle
  <2>3. Prepared'
    BY <1>3, <2>1, <2>2, SaveEffect, StillPrepared
  <2>4. organization' = organization /\ overlapped' = overlapped
    BY <1>3 DEF Save, tables
  <2>5. TypeOK'
    BY <1>3, <2>1, <2>4, SaveEffect DEF TypeOK
  <2>6. QED
    BY <2>3, <2>5
<1>4. ASSUME NEW t \in Tasks, NEW o \in offers, Accept(t, o)
      PROVE  Safe'
  <2>1. TypeOK'
    BY <1>4, AcceptEffect DEF TypeOK, tables, Overlap
  <2>2. Prepared'
    BY <1>4, AcceptEffect, StillPrepared DEF tables
  <2>3. QED
    BY <2>1, <2>2
<1>5. ASSUME NEW p \in People, CreateOrganization(p)
      PROVE  Safe'
  <2>1. [to |-> p, lab |-> NoLab, offer |-> "ADMIN"] \in Invitations
    BY DEF Invitations
  <2>2. TypeOK'
    BY <1>5, <2>1 DEF CreateOrganization, TypeOK
  <2>3. Prepared'
    BY <1>5 DEF CreateOrganization, Prepared, WriteFits, Fits, Accepting, Accepts
  <2>4. QED
    BY <2>2, <2>3
<1>6. CASE Deactivate
  <2>1. TypeOK'
    BY <1>6 DEF Deactivate, TypeOK, Overlap
  <2>2. Prepared'
    BY <1>6 DEF Deactivate, Prepared, WriteFits, Fits, Accepting, Accepts
  <2>3. QED
    BY <2>1, <2>2
<1>7. CASE Restart
  <2>1. TypeOK'
    BY <1>7, RestartEffect DEF Restart, TypeOK, tables
  <2>2. Prepared'
    BY <1>7, RestartEffect DEF Prepared, Idle
  <2>3. QED
    BY <2>1, <2>2
<1>8. CASE UNCHANGED vars
  <2>1. TypeOK'
    BY <1>8 DEF vars, TypeOK
  <2>2. Prepared'
    BY <1>8 DEF vars, Prepared, WriteFits, Fits, Accepting, Accepts
  <2>3. QED
    BY <2>1, <2>2
<1>9. QED
  BY <1>1, <1>2, <1>3, <1>4, <1>5, <1>6, <1>7, <1>8, Steps

(* Memberships, labs, invitations and the contexts of requests keep their  *)
(* types.                                                                  *)
THEOREM Typing == Spec => []TypeOK
<1>1. Spec => []Safe
  BY SafeInit, SafeStep, PTL DEF Spec
<1>2. QED
  BY <1>1, PTL DEF Safe

-----------------------------------------------------------------------------
(* Until something happens beside a request, what it has read is current.  *)

LEMMA UndisturbedInit == Init => Undisturbed
BY DEF Init, Undisturbed, Current, Idle

(* One request is under way in the next state, and it is current.          *)
LEMMA OneRequest ==
    ASSUME TypeOK, TypeOK', NEW t \in Tasks, ~overlapped' => Current(t)',
           ~overlapped' => \A u \in Tasks \ {t} : task'[u] = Idle
    PROVE  Undisturbed'
<1> SUFFICES ASSUME ~overlapped'
             PROVE  /\ \A u, v \in Tasks : task'[u] # Idle /\ task'[v] # Idle => u = v
                    /\ \A u \in Tasks : Current(u)'
  BY DEF Undisturbed
<1>1. ASSUME NEW u \in Tasks, task'[u] = Idle
      PROVE  Current(u)'
  BY <1>1 DEF Current, Idle
<1>2. QED
  BY <1>1

LEMMA Alone ==
    ASSUME TypeOK, Undisturbed, ~overlapped, NEW t \in Tasks, task[t] # Idle
    PROVE  (\A u \in Tasks \ {t} : task[u] = Idle) /\ Current(t)
BY DEF Undisturbed

LEMMA UndisturbedStep ==
    ASSUME Safe, Safe', Undisturbed, [Next]_vars
    PROVE  Undisturbed'
<1> USE DEF Safe
<1>1. ASSUME NEW t \in Tasks, Reads(t)
      PROVE  Undisturbed'
  <2>1. \A u \in Tasks \ {t} : task'[u] = task[u]
    BY <1>1, ReadEffect
  <2>2. ASSUME NEW p \in People, NEW l \in Labs \cup {NoLab}, Enter(t, p, l)
        PROVE  Undisturbed'
    <3>1. ~overlapped' => \A u \in Tasks \ {t} : task'[u] = Idle
      BY <2>1, <2>2 DEF Enter, Overlap, Busy
    <3>2. organization' = "ACTIVE" /\ task'[t].pc = "member"
      BY <2>2 DEF Enter, tables, TypeOK, Idle
    <3>3. QED
      BY <3>1, <3>2, OneRequest DEF Current
  <2>5. ASSUME NEW p \in Outsiders, EnterElsewhere(t, p)
        PROVE  Undisturbed'
    <3>1. ~overlapped' => \A u \in Tasks \ {t} : task'[u] = Idle
      BY <2>1, <2>5 DEF EnterElsewhere, Overlap, Busy
    <3>2. task'[t].elsewhere
      BY <2>5 DEF EnterElsewhere, TypeOK, Idle
    <3>3. QED
      BY <3>1, <3>2, OneRequest DEF Current
  <2>3. ASSUME FindMember(t) \/ FindLab(t) \/ Answer(t)
        PROVE  Undisturbed'
    <3>1. overlapped' = overlapped /\ organization' = organization /\ member' = member
          /\ task[t] # Idle
      BY <2>3 DEF FindMember, FindLab, Answer, tables, Idle
    <3>2. ~overlapped' => /\ \A u \in Tasks \ {t} : task'[u] = Idle
                          /\ Current(t)
      BY <2>1, <3>1, Alone
    <3>3. ~overlapped' => Current(t)'
      <4>1. CASE End(t)
        BY <4>1, EndEffect DEF Current, Idle
      <4>2. CASE FindMember(t) /\ ~End(t)
        <5>1. /\ task'[t].pc \in {"lab", "act"}
              /\ task'[t].who = task[t].who /\ task'[t].elsewhere = task[t].elsewhere
              /\ task'[t].orgRole = member[task[t].who].role
              /\ member[task[t].who].status = "ACTIVE"
          BY <4>2, RequestType DEF FindMember, Active, TypeOK, Requests, Idle
        <5>2. task[t].who \in People
          BY <3>1, RequestType
        <5>3. member[task[t].who] = [status |-> "ACTIVE", role |-> member[task[t].who].role]
          BY <5>1, <5>2, MemberType DEF OrgRows, NoRow
        <5>4. QED
          BY <3>1, <3>2, <4>2, <5>1, <5>3 DEF Current, FindMember
      <4>3. CASE FindLab(t) /\ ~End(t)
        <5>1. /\ task'[t].pc = "act"
              /\ task'[t].who = task[t].who /\ task'[t].elsewhere = task[t].elsewhere
              /\ task'[t].orgRole = task[t].orgRole
          BY <4>3, RequestType DEF FindLab, TypeOK, Requests, Idle
        <5>2. QED
          BY <3>1, <3>2, <4>3, <5>1 DEF Current, FindLab
      <4>4. QED
        BY <2>3, <4>1, <4>2, <4>3 DEF Answer
    <3>4. QED
      BY <3>2, <3>3, OneRequest
  <2>4. QED
    BY <1>1, <2>2, <2>3, <2>5 DEF Reads
<1>2. ASSUME NEW t \in Tasks, AdminPrepares(t)
      PROVE  Undisturbed'
  <2>1. PICK w \in Writes : w.consumes = {} /\ WriteFits(w) /\ Prepare(t, w)
    BY <1>2 DEF AdminPrepares
  <2>2. task[t] # Idle /\ task[t].pc = "act" /\ task[t].orgRole = "ADMIN"
    BY <1>2 DEF AdminPrepares, Idle
  <2>3. /\ task'[t].pc = "save" /\ task'[t].who = task[t].who /\ task'[t].write = w
        /\ task'[t].elsewhere = task[t].elsewhere
        /\ \A u \in Tasks \ {t} : task'[u] = task[u]
        /\ UNCHANGED <<tables, overlapped>>
    BY <2>1, <2>2, PrepareEffect
  <2>4. ~overlapped' => (\A u \in Tasks \ {t} : task'[u] = Idle) /\ Current(t)
    BY <2>2, <2>3, Alone
  <2>5. ~overlapped' => Current(t)'
    BY <2>1, <2>2, <2>3, <2>4 DEF Current, Accepting, IsAdmin, tables
  <2>6. QED
    BY <2>4, <2>5, OneRequest
<1>3. ASSUME NEW t \in Tasks, Save(t)
      PROVE  Undisturbed'
  <2>1. task'[t] = Idle /\ \A u \in Tasks \ {t} : task'[u] = task[u]
    BY <1>3, EndEffect DEF Save
  <2>2. overlapped' = overlapped /\ task[t] # Idle
    BY <1>3 DEF Save, Idle
  <2>3. ~overlapped' => \A u \in Tasks \ {t} : task'[u] = Idle
    BY <2>1, <2>2, Alone
  <2>4. Current(t)'
    BY <2>1 DEF Current, Idle
  <2>5. QED
    BY <2>3, <2>4, OneRequest
<1>4. ASSUME NEW t \in Tasks, NEW o \in offers, Accept(t, o)
      PROVE  Undisturbed'
  <2>1. /\ task'[t].pc = "save" /\ Accepts(t, o)'
        /\ task'[t].write.org.seen = member[o.to]
        /\ \A u \in Tasks \ {t} : task'[u] = task[u]
        /\ Overlap /\ member' = member
    BY <1>4, AcceptEffect DEF tables
  <2>2. ~overlapped' => \A u \in Tasks \ {t} : task'[u] = Idle
    BY <2>1 DEF Overlap, Busy
  <2>3. Current(t)'
    BY <2>1 DEF Current, Accepting, Accepts
  <2>4. QED
    BY <2>2, <2>3, OneRequest
<1>5. ASSUME NEW p \in People, CreateOrganization(p)
      PROVE  Undisturbed'
  BY <1>5 DEF CreateOrganization, Undisturbed, Current, Accepting, IsAdmin
<1>6. CASE Deactivate
  <2>1. ~overlapped' => \A u \in Tasks : task'[u] = Idle
    BY <1>6 DEF Deactivate, Overlap, Busy
  <2>2. ASSUME NEW t \in Tasks, task'[t] = Idle
        PROVE  Current(t)'
    BY <2>2 DEF Current, Idle
  <2>3. QED
    BY <2>1, <2>2 DEF Undisturbed
<1>7. CASE Restart
  BY <1>7, RestartEffect DEF Undisturbed, Current, Idle
<1>8. CASE UNCHANGED vars
  BY <1>8 DEF vars, Undisturbed, Current, Accepting, IsAdmin
<1>9. QED
  BY <1>1, <1>2, <1>3, <1>4, <1>5, <1>6, <1>7, <1>8, Steps

(* What a request has prepared fits the rows, and what it has read is      *)
(* current until something happens beside it.                              *)
THEOREM Invariant == Spec => [](Safe /\ Undisturbed)
<1>1. Init => Safe /\ Undisturbed
  BY SafeInit, UndisturbedInit
<1>2. Safe /\ Undisturbed /\ [Next]_vars => (Safe /\ Undisturbed)'
  BY SafeStep, UndisturbedStep
<1>3. QED
  BY <1>1, <1>2, PTL DEF Spec

-----------------------------------------------------------------------------
(* The theorems.                                                           *)

(* The tables change by a write, a new organization or its end.            *)
LEMMA Writers ==
    ASSUME TypeOK, [Next]_vars, UNCHANGED <<member, inLab, labs, offers>> => FALSE
    PROVE  \/ \E t \in Tasks : Save(t) /\ Writer(t)
           \/ \E p \in People : CreateOrganization(p)
<1>1. ASSUME NEW t \in Tasks, Save(t)
      PROVE  Writer(t)
  BY <1>1, EndEffect DEF Save, Writer
<1>2. ASSUME NEW t \in Tasks, AdminPrepares(t)
      PROVE  FALSE
  BY <1>2 DEF AdminPrepares, Prepare, tables
<1>3. ASSUME NEW t \in Tasks, Reads(t)
      PROVE  FALSE
  BY <1>3, ReadEffect DEF tables
<1>4. CASE UNCHANGED vars \/ Deactivate \/ Restart \/ \E t \in Tasks, o \in offers : Accept(t, o)
  BY <1>4 DEF vars, Deactivate, Restart, Accept, tables
<1>5. QED
  BY <1>1, <1>2, <1>3, <1>4, Steps

(* Whoever changes the tables, in a run where nothing has happened beside  *)
(* a request, may do so at that moment or is from elsewhere.               *)
THEOREM AuthorityHolds == Spec => SerialAuthority
<1> DEFINE Step == ~overlapped' /\ organization # "absent" =>
               \E t \in Tasks :
                  /\ Writer(t)
                  /\ \/ task[t].elsewhere
                     \/ Accepting(t) /\ task[t].write.consumes \subseteq offers
                     \/ organization = "ACTIVE" /\ IsAdmin(task[t].who)
<1>1. ASSUME Safe, Undisturbed, [Next]_vars
      PROVE  [Step]_<<member, inLab, labs, offers>>
  <2> SUFFICES ASSUME ~overlapped', organization # "absent",
                      UNCHANGED <<member, inLab, labs, offers>> => FALSE
               PROVE  \E t \in Tasks :
                  /\ Writer(t)
                  /\ \/ task[t].elsewhere
                     \/ Accepting(t) /\ task[t].write.consumes \subseteq offers
                     \/ organization = "ACTIVE" /\ IsAdmin(task[t].who)
    OBVIOUS
  <2>1. PICK t \in Tasks : Save(t) /\ Writer(t)
    BY <1>1, Writers DEF Safe, CreateOrganization
  <2>2. ~overlapped
    BY <2>1 DEF Save
  <2>3. CASE Accepting(t)
    BY <2>1, <2>3 DEF Save, tables
  <2>4. CASE ~Accepting(t) /\ ~task[t].elsewhere
    BY <1>1, <2>1, <2>2, <2>4 DEF Undisturbed, Current, Writer
  <2>5. QED
    BY <2>1, <2>3, <2>4
<1>2. QED
  BY <1>1, Invariant, PTL DEF Spec, SerialAuthority

(* An acceptance makes nobody less than he was.                            *)
LEMMA AcceptanceKeepsAdmins ==
    ASSUME Safe, NEW t \in Tasks, Save(t), Accepting(t),
           task[t].write.org.seen = member[task[t].write.to],
           NEW p \in People, IsAdmin(p)
    PROVE  IsAdmin(p)'
<1> DEFINE w == task[t].write
<1>1. PICK o \in Invitations : Accepts(t, o)
  BY DEF Safe, Prepared, Save
<1>2. w.to = o.to /\ o.to \in People /\ o.offer \in Offers
  BY <1>1, InvitationType DEF Accepts
<1>3. w.org.new = JoinedOrg(member[w.to], o.offer) /\ w.org.seen = member[w.to]
  BY <1>1 DEF Accepts
<1>4. member' = member \/ member' = Changed(member, w.to, w.org)
  BY DEF Save, tables
<1>5. CASE p = w.to /\ w.org.seen # w.org.new
  <2>1. member[p] = ActiveAdmin
    BY DEF IsAdmin, ActiveAdmin
  <2>2. JoinedOrg(ActiveAdmin, o.offer) = ActiveAdmin
    BY DEF JoinedOrg, ActiveAdmin
  <2>3. QED
    BY <1>3, <1>5, <2>1, <2>2
<1>6. CASE ~(p = w.to /\ w.org.seen # w.org.new)
  <2>1. member'[p] = member[p]
    BY <1>2, <1>4, <1>6 DEF Changed, Safe, TypeOK
  <2>2. QED
    BY <2>1 DEF IsAdmin
<1>7. QED
  BY <1>5, <1>6

(* In such a run nobody of the organization but the last active admin can  *)
(* leave it without one.                                                   *)
THEOREM LastAdmin == Spec => LastAdminResigns
<1> DEFINE Step == ~overlapped' /\ Admins # {} =>
               \/ Admins' # {}
               \/ \E t \in Tasks : Writer(t) /\ (task[t].elsewhere \/ Admins = {task[t].who})
<1>1. ASSUME Safe, Undisturbed, [Next]_vars
      PROVE  [Step]_member
  <2> SUFFICES ASSUME ~overlapped', member' # member, Admins' = {},
                      NEW p \in Admins
               PROVE  \E t \in Tasks : Writer(t) /\ (task[t].elsewhere \/ Admins = {task[t].who})
    OBVIOUS
  <2>1. PICK t \in Tasks : Save(t) /\ Writer(t)
    BY <1>1, Writers DEF Safe, CreateOrganization
  <2> SUFFICES ASSUME ~task[t].elsewhere
               PROVE  Admins = {task[t].who}
    BY <2>1
  <2>2. ~overlapped /\ Current(t) /\ task[t].pc = "save"
    BY <1>1, <2>1 DEF Save, Undisturbed
  <2>3. \A q \in People : ~IsAdmin(q)'
    BY DEF Admins
  <2>4. ~Accepting(t)
    BY <1>1, <2>1, <2>2, <2>3, AcceptanceKeepsAdmins DEF Current, Admins
  <2>5. IsAdmin(task[t].who) /\ task[t].who \in People
    BY <1>1, <2>2, <2>4, RequestType DEF Current, Safe, Idle
  <2>6. \A q \in People \ {task[t].write.to} : member'[q] = member[q]
    BY <1>1, <2>1 DEF Save, Changed, Safe, TypeOK, tables
  <2>7. \A q \in People : IsAdmin(q) => q = task[t].write.to
    BY <2>3, <2>6 DEF IsAdmin
  <2>8. QED
    BY <2>5, <2>7 DEF Admins
<1>2. QED
  BY <1>1, Invariant, PTL DEF Spec, LastAdminResigns

(* Nobody can govern the organization.                                     *)

LEMMA AcceptanceMakesNoAdmin ==
    ASSUME NEW row \in OrgRows, NEW r \in OrgRows, NEW s \in OrgRows,
           NEW a \in {"MANAGER", "CONTRIBUTOR"}, NEW b \in {"MANAGER", "CONTRIBUTOR"},
           row # ActiveAdmin,
           Result(row, [seen |-> r, new |-> JoinedOrg(r, a)]) # ActiveAdmin,
           Result(row, [seen |-> s, new |-> JoinedOrg(s, b)]) # ActiveAdmin
    PROVE  Result(Result(row, [seen |-> r, new |-> JoinedOrg(r, a)]),
                  [seen |-> s, new |-> JoinedOrg(s, b)]) # ActiveAdmin
BY DEF OrgRows, NoRow, ActiveAdmin, Result, JoinedOrg, OrgRole

LEMMA AcceptancePlan ==
    ASSUME Safe, NEW t \in Tasks, task[t].pc = "save", Accepting(t),
           \A o \in task[t].write.consumes : o.offer # "ADMIN"
    PROVE  /\ task[t].who \in People /\ task[t].write.to = task[t].who
           /\ \E r \in OrgRows, a \in {"MANAGER", "CONTRIBUTOR"} :
                 task[t].write.org = [seen |-> r, new |-> JoinedOrg(r, a)]
<1>1. PICK o \in Invitations : Accepts(t, o)
  BY DEF Safe, Prepared
<1>2. o.offer # "ADMIN" /\ o.offer \in {"MANAGER", "CONTRIBUTOR"}
  BY <1>1, InvitationType DEF Accepts
<1>3. task[t].write.org \in Plans(OrgRows)
  BY RequestType, WriteType DEF Safe
<1>4. task[t].write.org = [seen |-> task[t].write.org.seen,
                           new |-> JoinedOrg(task[t].write.org.seen, o.offer)]
      /\ task[t].write.org.seen \in OrgRows
  BY <1>1, <1>3 DEF Accepts, Plans
<1>5. QED
  BY <1>1, <1>2, <1>4, InvitationType DEF Accepts

(* An acceptance adds no lab and no invitation.                            *)
LEMMA AcceptanceSaves ==
    ASSUME Safe, NEW t \in Tasks, Save(t), Accepting(t)
    PROVE  labs' = labs /\ offers' \subseteq offers /\ Writer(t)
<1>1. PICK o \in Invitations : Accepts(t, o)
  BY DEF Safe, Prepared, Save
<1>2. Writer(t)
  BY EndEffect DEF Safe, Save, Writer
<1>3. QED
  BY <1>1, <1>2 DEF Save, tables, Accepts

(* The member whose invitation is accepted is no admin, and he is no admin *)
(* if another one is accepted next.                                        *)
LEMMA LeaderlessSave ==
    ASSUME Safe, Safe', Leaderless, NEW t \in Tasks, Save(t), ~task[t].elsewhere
    PROVE  Leaderless' /\ Accepting(t)
<1> USE DEF Safe
<1>1. /\ organization' = organization
      /\ task'[t] = Idle /\ \A u \in Tasks \ {t} : task'[u] = task[u]
  BY EndEffect DEF Save, tables
<1>2. /\ task[t].pc = "save" /\ Accepting(t)
      /\ \A o \in task[t].write.consumes : o.offer # "ADMIN"
      /\ Result(member[task[t].who], task[t].write.org) # ActiveAdmin
  BY DEF Leaderless, Save, ActiveAdmin
<1>3. PICK r \in OrgRows, a \in {"MANAGER", "CONTRIBUTOR"} :
         task[t].write.org = [seen |-> r, new |-> JoinedOrg(r, a)]
  BY <1>2, AcceptancePlan
<1>4. task[t].who \in People /\ task[t].write.to = task[t].who
  BY <1>2, AcceptancePlan
<1> DEFINE p == task[t].who
           to == Result(member[p], task[t].write.org)
<1>5. \A q \in People : member[q] \in OrgRows /\ member[q] # ActiveAdmin
  BY MemberType DEF Leaderless, Admins, IsAdmin, ActiveAdmin
<1>6. \A q \in People : member'[q] = member[q] \/ (q = p /\ member'[q] = to)
  BY <1>4 DEF Save, tables, Changed, TypeOK
<1>7. offers' \subseteq offers
  BY <1>2, AcceptanceSaves
<1>8. Admins' = {}
  BY <1>2, <1>5, <1>6 DEF Admins, IsAdmin, ActiveAdmin
<1>9. ASSUME NEW u \in Tasks
      PROVE  ~task'[u].elsewhere =>
             /\ task'[u].orgRole # "ADMIN"
             /\ task'[u].pc = "save" =>
                  /\ Accepting(u)' /\ \A o \in task'[u].write.consumes : o.offer # "ADMIN"
                  /\ Result(member'[task'[u].who], task'[u].write.org) # ActiveAdmin
  <2>1. CASE u = t
    BY <1>1, <2>1 DEF Idle
  <2>2. CASE u # t /\ task[u].elsewhere
    BY <1>1, <2>2
  <2>4. CASE u # t /\ ~task[u].elsewhere
    <3>1. task'[u] = task[u] /\ task[u].orgRole # "ADMIN"
      BY <1>1, <2>4 DEF Leaderless
    <3>2. CASE task[u].pc # "save"
      BY <3>1, <3>2
    <3>3. CASE task[u].pc = "save"
      <4>1. /\ Accepting(u) /\ \A o \in task[u].write.consumes : o.offer # "ADMIN"
            /\ Result(member[task[u].who], task[u].write.org) # ActiveAdmin
        BY <2>4, <3>3 DEF Leaderless, ActiveAdmin
      <4>2. PICK s \in OrgRows, b \in {"MANAGER", "CONTRIBUTOR"} :
               task[u].write.org = [seen |-> s, new |-> JoinedOrg(s, b)]
        BY <3>3, <4>1, AcceptancePlan
      <4>3. task[u].who \in People
        BY <3>3, <4>1, AcceptancePlan
      <4>4. CASE member'[task[u].who] = member[task[u].who]
        BY <3>1, <4>1, <4>4 DEF Accepting
      <4>5. CASE task[u].who = p /\ member'[p] = to
        <5>1. member[p] \in OrgRows /\ member[p] # ActiveAdmin
          BY <1>4, <1>5
        <5>2. Result(to, task[u].write.org) # ActiveAdmin
          <6>1. Result(member[p], [seen |-> r, new |-> JoinedOrg(r, a)]) # ActiveAdmin
            BY <1>2, <1>3
          <6>2. Result(member[p], [seen |-> s, new |-> JoinedOrg(s, b)]) # ActiveAdmin
            BY <4>1, <4>2, <4>5
          <6>3. Result(Result(member[p], [seen |-> r, new |-> JoinedOrg(r, a)]),
                       [seen |-> s, new |-> JoinedOrg(s, b)]) # ActiveAdmin
            BY <5>1, <6>1, <6>2, AcceptanceMakesNoAdmin
          <6>4. QED
            BY <1>3, <4>2, <6>3
        <5>3. QED
          BY <3>1, <4>1, <4>5, <5>2 DEF Accepting
      <4>6. QED
        BY <1>6, <4>3, <4>4, <4>5
    <3>4. QED
      BY <3>2, <3>3
  <2>3. QED
    BY <2>1, <2>2, <2>4
<1>10. QED
  BY <1>1, <1>2, <1>7, <1>8, <1>9 DEF Leaderless, ActiveAdmin

LEMMA LeaderlessStep ==
    ASSUME Safe, Safe', Leaderless, [Next]_vars
    PROVE  \/ \E t \in Tasks : Writer(t) /\ task[t].elsewhere
           \/ /\ Leaderless'
              /\ labs' = labs /\ offers' \subseteq offers
              /\ member' # member => \E t \in Tasks : Writer(t) /\ Accepting(t)
<1> USE DEF Safe
<1>1. ASSUME NEW t \in Tasks, Reads(t)
      PROVE  Leaderless' /\ UNCHANGED tables
  <2>1. /\ task'[t].pc # "save" /\ \A u \in Tasks \ {t} : task'[u] = task[u]
        /\ UNCHANGED tables
    BY <1>1, ReadEffect
  <2>2. task'[t].orgRole # "ADMIN" \/ task'[t].elsewhere
    <3>1. CASE End(t)
      BY <3>1, EndEffect DEF Idle
    <3>2. CASE \E p \in People, l \in Labs \cup {NoLab} : Enter(t, p, l)
      BY <3>2 DEF Enter, TypeOK, Idle
    <3>6. CASE \E p \in Outsiders : EnterElsewhere(t, p)
      BY <3>6 DEF EnterElsewhere, TypeOK, Idle
    <3>3. CASE FindMember(t) /\ ~End(t)
      <4>1. task[t].who \in People /\ Active(task[t].who)
        BY <3>3, RequestType DEF FindMember, Idle
      <4>2. member[task[t].who].role # "ADMIN"
        BY <4>1, MemberType DEF Active, Leaderless, Admins, IsAdmin, OrgRows, NoRow
      <4>3. task'[t].orgRole = member[task[t].who].role
        BY <3>3, RequestType DEF FindMember, TypeOK, Requests, Idle
      <4>4. QED
        BY <4>2, <4>3
    <3>4. CASE FindLab(t) /\ ~End(t)
      <4>1. task'[t].orgRole = task[t].orgRole
        BY <3>4, RequestType DEF FindLab, TypeOK, Requests, Idle
      <4>3. task'[t].elsewhere = task[t].elsewhere
        BY <3>4, RequestType DEF FindLab, TypeOK, Requests, Idle
      <4>2. QED
        BY <4>1, <4>3 DEF Leaderless
    <3>5. QED
      BY <1>1, <3>1, <3>2, <3>3, <3>4, <3>6 DEF Reads, Answer
  <2>3. QED
    BY <2>1, <2>2 DEF Leaderless, Admins, IsAdmin, Accepting, tables
<1>2. ASSUME NEW t \in Tasks, AdminPrepares(t)
      PROVE  Leaderless' /\ UNCHANGED tables
  <2>1. PICK w \in Writes : Prepare(t, w)
    BY <1>2 DEF AdminPrepares
  <2>2. task[t] # Idle /\ task[t].elsewhere
    BY <1>2, RequestType DEF AdminPrepares, Leaderless, Idle
  <2>3. /\ task'[t].elsewhere /\ \A u \in Tasks \ {t} : task'[u] = task[u]
        /\ UNCHANGED tables
    BY <2>1, <2>2, PrepareEffect
  <2>4. QED
    BY <2>3 DEF Leaderless, Admins, IsAdmin, Accepting, tables
<1>3. ASSUME NEW t \in Tasks, Save(t), ~task[t].elsewhere
      PROVE  Leaderless' /\ labs' = labs /\ offers' \subseteq offers /\ Writer(t) /\ Accepting(t)
  BY <1>3, LeaderlessSave, AcceptanceSaves
<1>4. ASSUME NEW t \in Tasks, NEW o \in offers, Accept(t, o)
      PROVE  Leaderless' /\ UNCHANGED tables
  <2>1. /\ task'[t].pc = "save" /\ task'[t].orgRole = "none"
        /\ \A u \in Tasks \ {t} : task'[u] = task[u]
        /\ UNCHANGED tables
        /\ o \in Invitations /\ Accepts(t, o)'
        /\ task'[t].write.org.seen = member[o.to]
    BY <1>4, AcceptEffect
  <2>2. o.offer # "ADMIN" /\ o.to \in People /\ o.offer \in {"MANAGER", "CONTRIBUTOR"}
    BY <2>1, InvitationType DEF Leaderless
  <2>3. member[o.to] \in OrgRows /\ member[o.to] # ActiveAdmin
    BY <2>2, MemberType DEF Leaderless, Admins, IsAdmin, ActiveAdmin
  <2>4. task'[t].write.org \in Plans(OrgRows)
    <3>1. task'[t] \in Requests
      BY <1>4, AcceptEffect
    <3>2. task'[t].write \in Writes
      BY <2>1, <3>1 DEF Requests, Idle
    <3>3. QED
      BY <3>2, WriteType
  <2>5. /\ task'[t].who = o.to /\ task'[t].write.consumes = {o}
        /\ task'[t].write.org.new = JoinedOrg(member[o.to], o.offer)
    BY <2>1 DEF Accepts
  <2>6. task'[t].write.org = [seen |-> member[o.to], new |-> JoinedOrg(member[o.to], o.offer)]
    BY <2>1, <2>4, <2>5 DEF Plans
  <2>7. Result(member[o.to], task'[t].write.org) # ActiveAdmin
    BY <2>2, <2>3, <2>6 DEF Result, JoinedOrg, OrgRole, OrgRows, NoRow, ActiveAdmin
  <2>8. QED
    BY <2>1, <2>2, <2>5, <2>7 DEF Leaderless, Admins, IsAdmin, Accepting, tables, ActiveAdmin
<1>5. ASSUME NEW p \in People, CreateOrganization(p)
      PROVE  FALSE
  BY <1>5 DEF CreateOrganization, Leaderless
<1>6. CASE Deactivate
  BY <1>6 DEF Deactivate, Leaderless, Admins, IsAdmin, Accepting
<1>7. CASE Restart
  BY <1>7, RestartEffect DEF Restart, Leaderless, Admins, IsAdmin, Accepting, tables, Idle
<1>8. CASE UNCHANGED vars
  BY <1>8 DEF vars, Leaderless, Admins, IsAdmin, Accepting
<1>10. ASSUME NEW t \in Tasks, Save(t)
       PROVE  Writer(t)
  BY <1>10, EndEffect DEF Save, Writer
<1>9. QED
  BY <1>1, <1>2, <1>3, <1>4, <1>5, <1>6, <1>7, <1>8, <1>10, Steps
     DEF tables, vars, Restart, Deactivate

LEMMA ShutDownStep ==
    ASSUME Safe, Safe', ShutDown, [Next]_vars
    PROVE  \/ \E t \in Tasks : Writer(t) /\ task[t].elsewhere
           \/ /\ ShutDown'
              /\ labs' = labs /\ offers' \subseteq offers
              /\ member' # member => \E t \in Tasks : Writer(t) /\ Accepting(t)
<1> USE DEF Safe
<1>1. ASSUME NEW t \in Tasks, Reads(t)
      PROVE  ShutDown' /\ UNCHANGED tables
  <2>1. /\ \A u \in Tasks \ {t} : task'[u] = task[u]
        /\ UNCHANGED tables
    BY <1>1, ReadEffect
  <2>2. task'[t] = Idle \/ task'[t].elsewhere
    <3>1. ASSUME NEW p \in Outsiders, EnterElsewhere(t, p)
          PROVE  task'[t].elsewhere
      BY <3>1 DEF EnterElsewhere, TypeOK, Idle
    <3>2. CASE FindMember(t) \/ FindLab(t) \/ Answer(t)
      <4>1. task[t] \in Requests /\ task[t] # Idle /\ task[t].pc # "save"
        BY <3>2, RequestType DEF FindMember, FindLab, Answer, Idle
      <4>2. task[t].elsewhere
        BY <4>1 DEF ShutDown
      <4>3. CASE End(t)
        BY <4>3, EndEffect
      <4>4. CASE ~End(t)
        BY <3>2, <4>1, <4>2, <4>4 DEF FindMember, FindLab, Answer, TypeOK, Requests
      <4>5. QED
        BY <4>3, <4>4
    <3>3. ~ \E p \in People, l \in Labs \cup {NoLab} : Enter(t, p, l)
      BY DEF Enter, ShutDown
    <3>4. QED
      BY <1>1, <3>1, <3>2, <3>3 DEF Reads
  <2>3. QED
    BY <2>1, <2>2 DEF ShutDown, Accepting, tables
<1>2. ASSUME NEW t \in Tasks, AdminPrepares(t)
      PROVE  ShutDown' /\ UNCHANGED tables
  <2>1. PICK w \in Writes : Prepare(t, w)
    BY <1>2 DEF AdminPrepares
  <2>2. task[t] # Idle /\ task[t].elsewhere
    BY <1>2, RequestType DEF AdminPrepares, ShutDown, Idle
  <2>3. /\ task'[t].elsewhere /\ \A u \in Tasks \ {t} : task'[u] = task[u]
        /\ UNCHANGED tables
    BY <2>1, <2>2, PrepareEffect
  <2>4. QED
    BY <2>3 DEF ShutDown, Accepting, tables
<1>3. ASSUME NEW t \in Tasks, Save(t), ~task[t].elsewhere
      PROVE  ShutDown' /\ labs' = labs /\ offers' \subseteq offers /\ Writer(t) /\ Accepting(t)
  <2>1. Accepting(t)
    BY <1>3 DEF ShutDown, Save, Idle
  <2>2. /\ organization' = organization
        /\ task'[t] = Idle /\ \A u \in Tasks \ {t} : task'[u] = task[u]
    BY <1>3, EndEffect DEF Save, tables
  <2>3. ShutDown'
    BY <2>2 DEF ShutDown, Accepting
  <2>4. QED
    BY <1>3, <2>1, <2>3, AcceptanceSaves
<1>4. ASSUME NEW t \in Tasks, NEW o \in offers, Accept(t, o)
      PROVE  ShutDown' /\ UNCHANGED tables
  BY <1>4, AcceptEffect DEF ShutDown, Accepting, Accepts, tables
<1>5. CASE \/ Deactivate \/ \E p \in People : CreateOrganization(p)
  BY <1>5 DEF CreateOrganization, Deactivate, ShutDown
<1>6. CASE Restart
  BY <1>6, RestartEffect DEF Restart, ShutDown, tables
<1>7. CASE UNCHANGED vars
  BY <1>7 DEF vars, ShutDown, Accepting
<1>8. ASSUME NEW t \in Tasks, Save(t)
      PROVE  Writer(t)
  BY <1>8, EndEffect DEF Save, Writer
<1>9. QED
  BY <1>1, <1>2, <1>3, <1>4, <1>5, <1>6, <1>7, <1>8, Steps
     DEF tables, vars, Restart, Deactivate

(* Once nobody can govern an organization, nobody ever can again until a   *)
(* request from elsewhere writes there.                                    *)
THEOREM Ungoverned == Spec => UngovernedForGood
<1>1. ASSUME Safe, Safe', [Next]_vars
      PROVE  [Leaderless \/ ShutDown =>
                \/ \E t \in Tasks : Writer(t) /\ task[t].elsewhere
                \/ /\ (Leaderless \/ ShutDown)'
                   /\ labs' = labs /\ offers' \subseteq offers
                   /\ member' # member => \E t \in Tasks : Writer(t) /\ Accepting(t)]_vars
  BY <1>1, LeaderlessStep, ShutDownStep
<1>2. QED
  BY <1>1, Invariant, PTL DEF Spec, UngovernedForGood

=============================================================================

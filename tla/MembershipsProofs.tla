--------------------------- MODULE MembershipsProofs ---------------------------
(***************************************************************************)
(* Theorems about Memberships for every set of asyncio tasks and of        *)
(* invitations and any number of restarts, and its implementation of       *)
(* Admissions.                                                             *)
(***************************************************************************)
EXTENDS Memberships, TLAPS

-----------------------------------------------------------------------------
(* Rows and the plans that change them.                                    *)

LEMMA JoinedOrgType ==
    ASSUME NEW row \in OrgRows, NEW offer \in Offers
    PROVE  JoinedOrg(row, offer) \in OrgRows /\ JoinedOrg(row, offer) # NoRow
BY DEF OrgRows, Offers, JoinedOrg, OrgRole, NoRow

LEMMA JoinedLabType ==
    ASSUME NEW row \in LabRows, NEW offer \in Offers
    PROVE  /\ JoinedLab(row, offer) \in LabRows
           /\ offer # "ADMIN" => JoinedLab(row, offer) # NoRow
BY DEF LabRows, Offers, JoinedLab, NoRow

LEMMA OrgResultType ==
    ASSUME NEW row \in OrgRows, NEW plan \in Plans(OrgRows), plan.new # NoRow,
           plan.seen # NoRow => row # NoRow
    PROVE  Result(row, plan) \in OrgRows /\ Result(row, plan) # NoRow
BY DEF OrgRows, Plans, Result, NoRow

LEMMA LabResultType ==
    ASSUME NEW row \in LabRows, NEW plan \in Plans(LabRows),
           plan.seen # NoRow => row # NoRow /\ plan.new # NoRow
    PROVE  /\ Result(row, plan) \in LabRows
           /\ row # NoRow \/ plan.new # NoRow => Result(row, plan) # NoRow
BY DEF LabRows, Plans, Result, NoRow

LEMMA NoRowType == NoRow \in OrgRows /\ NoRow \in LabRows
BY DEF OrgRows, LabRows

LEMMA IdleType == Idle \in Requests /\ Idle.pc = "idle"
BY NoRowType DEF Idle, Requests, Plans, Keep

LEMMA RequestType ==
    ASSUME TypeOK, NEW t \in Tasks
    PROVE  /\ task[t] \in Requests
           /\ task[t].org \in Plans(OrgRows) /\ task[t].lab \in Plans(LabRows)
           /\ task[t].org.seen \in OrgRows /\ task[t].org.new \in OrgRows
           /\ task[t].lab.seen \in LabRows /\ task[t].lab.new \in LabRows
           /\ task[t].newRecord \in BOOLEAN
<1>1. task[t] \in Requests
  BY DEF TypeOK
<1>2. CASE task[t] = Idle
  BY <1>1, <1>2, NoRowType DEF Idle, Plans, Keep
<1>3. CASE task[t] # Idle
  BY <1>1, <1>3 DEF Requests, Plans
<1>4. QED
  BY <1>2, <1>3

(* A request that is under way.                                            *)
Flights == [pc: Phases, i: Invitations \cup {"none"}, newUser: BOOLEAN,
            elsewhere: BOOLEAN, org: Plans(OrgRows), lab: Plans(LabRows), newRecord: BOOLEAN]

LEMMA FlightType ==
    /\ Flights \subseteq Requests
    /\ TypeOK => \A t \in Tasks : task[t].pc # "idle" => task[t] \in Flights
BY IdleType DEF Flights, Requests, TypeOK

LEMMA KeepType == Keep(NoRow) \in Plans(OrgRows) /\ Keep(NoRow) \in Plans(LabRows)
BY NoRowType DEF Keep, Plans

LEMMA OfferType ==
    ASSUME TypeOK, NEW t \in Tasks, task[t].i \in Invitations
    PROVE  Offer(t) \in Offers
BY DEF TypeOK, Offer

-----------------------------------------------------------------------------
(* The invariant.                                                          *)

LEMMA InvInit == Init => MembershipsInv
<1> SUFFICES ASSUME Init PROVE MembershipsInv
  OBVIOUS
<1>1. TypeOK
  BY IdleType, NoRowType DEF Init, TypeOK, Offers
<1>2. LabWithinOrg
  BY DEF Init, LabWithinOrg
<1>3. \A t \in Tasks : Carried(t)
  BY IdleType DEF Init, Carried
<1>4. QED
  BY <1>1, <1>2, <1>3 DEF MembershipsInv

(* What others carry is not hurt: rows stay, invitations keep their offer. *)
LEMMA StillCarried ==
    ASSUME MembershipsInv, NEW t \in Tasks, task'[t] = task[t],
           \A i \in Invitations : inv[i].status # "none" =>
               inv'[i].status # "none" /\ inv'[i].offer = inv[i].offer,
           org # NoRow => org' # NoRow, lab # NoRow => lab' # NoRow, record => record',
           user => user', strayed => strayed'
    PROVE  Carried(t)'
BY DEF MembershipsInv, Carried, Offer

(* One task moves, and the tables allow it.                                *)
LEMMA OneTaskMoves ==
    ASSUME MembershipsInv, TypeOK', LabWithinOrg', NEW t \in Tasks, Carried(t)',
           \A u \in Tasks \ {t} : task'[u] = task[u],
           \A i \in Invitations : inv[i].status # "none" =>
               inv'[i].status # "none" /\ inv'[i].offer = inv[i].offer,
           org # NoRow => org' # NoRow, lab # NoRow => lab' # NoRow, record => record',
           user => user', strayed => strayed'
    PROVE  MembershipsInv'
BY StillCarried DEF MembershipsInv

LEMMA EndEffect ==
    ASSUME TypeOK, NEW t \in Tasks, End(t)
    PROVE  /\ task' \in [Tasks -> Requests]
           /\ task'[t] = Idle /\ Carried(t)'
           /\ \A u \in Tasks \ {t} : task'[u] = task[u]
<1>1. task' \in [Tasks -> Requests] /\ task'[t] = Idle
      /\ \A u \in Tasks \ {t} : task'[u] = task[u]
  BY IdleType DEF TypeOK, End
<1>2. Carried(t)'
  BY <1>1, IdleType DEF Carried
<1>3. QED
  BY <1>1, <1>2

(* A request that only reads, or fails.                                    *)
LEMMA TaskMoves ==
    ASSUME MembershipsInv, NEW t \in Tasks, NEW r \in Requests, task' = [task EXCEPT ![t] = r],
           UNCHANGED <<inv, rows, used, strayed>>, Carried(t)'
    PROVE  MembershipsInv'
<1>1. TypeOK'
  BY DEF MembershipsInv, TypeOK, rows
<1>2. LabWithinOrg'
  BY DEF MembershipsInv, LabWithinOrg, rows
<1>3. \A u \in Tasks \ {t} : task'[u] = task[u]
  BY DEF MembershipsInv, TypeOK
<1>4. QED
  BY <1>1, <1>2, <1>3, OneTaskMoves DEF rows

LEMMA TaskFails ==
    ASSUME MembershipsInv, NEW t \in Tasks, End(t), UNCHANGED <<inv, rows, used, strayed>>
    PROVE  MembershipsInv'
BY EndEffect, TaskMoves, IdleType DEF MembershipsInv, End

-----------------------------------------------------------------------------
(* The commits.                                                            *)

Committed(t) ==
    /\ Consumable(t) /\ ~(task[t].newRecord /\ record)
    /\ inv' = [inv EXCEPT ![task[t].i].status = "ACCEPTED"]
    /\ used' = [used EXCEPT ![task[t].i] = @ + 1]
    /\ user' = TRUE
    /\ org' = Result(org, task[t].org)
    /\ lab' = Result(lab, task[t].lab)
    /\ record' = (record \/ task[t].newRecord)
    /\ strayed' = strayed

LEMMA CommitEffect ==
    ASSUME MembershipsInv, NEW t \in Tasks, task[t].pc = "consume", Committed(t)
    PROVE  /\ task[t].i \in Invitations /\ Offer(t) \in Offers
           /\ inv[task[t].i].status = "PENDING" /\ inv'[task[t].i].status = "ACCEPTED"
           /\ inv'[task[t].i].offer = Offer(t)
           /\ \A i \in Invitations \ {task[t].i} : inv'[i] = inv[i]
           /\ inv' \in [Invitations -> [status: {"none", "PENDING", "ACCEPTED"},
                                        offer: Offers, expired: BOOLEAN]]
           /\ used' \in [Invitations -> Nat]
           /\ org' \in OrgRows \ {NoRow}
           /\ lab' \in LabRows
           /\ lab # NoRow \/ Offer(t) # "ADMIN" => lab' # NoRow
           /\ record' = (record \/ Offer(t) = "CONTRIBUTOR")
<1>1. task[t].i \in Invitations /\ Offer(t) \in Offers
  BY OfferType DEF MembershipsInv, Carried
<1>2. inv[task[t].i].status = "PENDING"
  BY DEF Committed, Consumable
<1>3. /\ inv'[task[t].i].status = "ACCEPTED" /\ inv'[task[t].i].offer = Offer(t)
      /\ \A i \in Invitations \ {task[t].i} : inv'[i] = inv[i]
      /\ inv' \in [Invitations -> [status: {"none", "PENDING", "ACCEPTED"},
                                   offer: Offers, expired: BOOLEAN]]
      /\ used' \in [Invitations -> Nat]
  BY <1>1 DEF MembershipsInv, TypeOK, Committed, Offer
<1>4. org' \in OrgRows \ {NoRow}
  <2>1. task[t].org.new = JoinedOrg(task[t].org.seen, Offer(t))
        /\ (task[t].org.seen # NoRow => org # NoRow) /\ org \in OrgRows
    BY DEF MembershipsInv, Carried, TypeOK
  <2>2. task[t].org \in Plans(OrgRows) /\ task[t].org.new # NoRow
    BY <1>1, <2>1, RequestType, JoinedOrgType DEF MembershipsInv
  <2>3. QED
    BY <2>1, <2>2, OrgResultType DEF Committed
<1>5. lab' \in LabRows /\ (lab # NoRow \/ Offer(t) # "ADMIN" => lab' # NoRow)
  <2>1. task[t].lab.new = JoinedLab(task[t].lab.seen, Offer(t))
        /\ (task[t].lab.seen # NoRow => lab # NoRow) /\ lab \in LabRows
    BY DEF MembershipsInv, Carried, TypeOK
  <2>2. /\ task[t].lab \in Plans(LabRows)
        /\ Offer(t) # "ADMIN" => task[t].lab.new # NoRow
        /\ task[t].lab.seen # NoRow => task[t].lab.new # NoRow
    <3>1. task[t].lab \in Plans(LabRows) /\ task[t].lab.seen \in LabRows
      BY RequestType DEF MembershipsInv
    <3>2. Offer(t) # "ADMIN" => task[t].lab.new # NoRow
      BY <1>1, <2>1, <3>1, JoinedLabType
    <3>3. Offer(t) = "ADMIN" => task[t].lab.new = task[t].lab.seen
      BY <2>1 DEF JoinedLab
    <3>4. QED
      BY <3>1, <3>2, <3>3
  <2>3. QED
    BY <2>1, <2>2, LabResultType DEF Committed
<1>6. record' = (record \/ Offer(t) = "CONTRIBUTOR")
  <2>1. task[t].newRecord \in BOOLEAN /\ record \in BOOLEAN
    BY RequestType DEF MembershipsInv, TypeOK
  <2>2. /\ task[t].newRecord => Offer(t) = "CONTRIBUTOR"
        /\ Offer(t) = "CONTRIBUTOR" => task[t].newRecord \/ record
    BY DEF MembershipsInv, Carried
  <2>3. record' = (record \/ task[t].newRecord)
    BY DEF Committed
  <2>4. QED
    BY <2>1, <2>2, <2>3
<1>7. QED
  BY <1>1, <1>2, <1>3, <1>4, <1>5, <1>6

LEMMA CommitKeeps ==
    ASSUME MembershipsInv, NEW t \in Tasks, task[t].pc = "consume", Committed(t), End(t)
    PROVE  MembershipsInv'
<1>1. TypeOK'
  <2>1. record' \in BOOLEAN
    BY CommitEffect
  <2>2. QED
    BY <2>1, CommitEffect, EndEffect DEF MembershipsInv, TypeOK, Committed
<1>2. LabWithinOrg'
  <2>1. record' => lab' # NoRow
    BY CommitEffect DEF MembershipsInv, LabWithinOrg
  <2>2. QED
    BY <2>1, CommitEffect DEF LabWithinOrg, Committed
<1>3. \A i \in Invitations : inv[i].status # "none" =>
          inv'[i].status # "none" /\ inv'[i].offer = inv[i].offer
  BY CommitEffect DEF Offer
<1>4. /\ org # NoRow => org' # NoRow
      /\ lab # NoRow => lab' # NoRow
      /\ record => record'
      /\ user' = TRUE /\ strayed' = strayed
  BY CommitEffect DEF Committed
<1>5. Carried(t)' /\ \A u \in Tasks \ {t} : task'[u] = task[u]
  BY EndEffect DEF MembershipsInv
<1>6. QED
  BY <1>1, <1>2, <1>3, <1>4, <1>5, OneTaskMoves

LEMMA SaveLabEffect ==
    ASSUME MembershipsInv, NEW t \in Tasks, task[t].pc = "saveLab", lab' = Result(lab, task[t].lab)
    PROVE  /\ lab' \in LabRows \ {NoRow}
           /\ user /\ (task[t].elsewhere \/ strayed \/ org # NoRow)
<1>1. /\ task[t].lab.new # NoRow
      /\ user /\ (task[t].elsewhere \/ strayed \/ org # NoRow)
      /\ task[t].lab.seen # NoRow => lab # NoRow
  BY DEF MembershipsInv, Carried
<1>2. task[t].lab \in Plans(LabRows) /\ lab \in LabRows
  BY RequestType DEF MembershipsInv, TypeOK
<1>3. QED
  BY <1>1, <1>2, LabResultType

LEMMA SaveOrgEffect ==
    ASSUME MembershipsInv, NEW t \in Tasks, task[t].pc = "saveOrg", org' = Result(org, task[t].org)
    PROVE  org' \in OrgRows \ {NoRow} /\ org # NoRow
<1>1. task[t].org.new # NoRow /\ org # NoRow
  BY DEF MembershipsInv, Carried
<1>2. task[t].org \in Plans(OrgRows) /\ org \in OrgRows
  BY RequestType DEF MembershipsInv, TypeOK
<1>3. QED
  BY <1>1, <1>2, OrgResultType

-----------------------------------------------------------------------------
(* The steps.                                                              *)

LEMMA InvStep ==
    ASSUME MembershipsInv, [Next]_vars
    PROVE  MembershipsInv'
<1> USE DEF MembershipsInv
<1>1. ASSUME NEW i \in Invitations, NEW offer \in Offers, Invite(i, offer)
      PROVE  MembershipsInv'
  <2>1. TypeOK'
    BY <1>1 DEF Invite, TypeOK, rows
  <2>2. LabWithinOrg'
    BY <1>1 DEF Invite, LabWithinOrg, rows
  <2>3. \A j \in Invitations : inv[j].status # "none" => inv'[j] = inv[j]
    BY <1>1 DEF Invite, TypeOK
  <2>4. \A t \in Tasks : Carried(t)'
    BY <1>1, <2>3, StillCarried DEF Invite, rows
  <2>5. QED
    BY <2>1, <2>2, <2>4
<1>2. ASSUME NEW i \in Invitations, Expire(i)
      PROVE  MembershipsInv'
  <2>1. TypeOK'
    BY <1>2 DEF Expire, TypeOK, rows
  <2>2. LabWithinOrg'
    BY <1>2 DEF Expire, LabWithinOrg, rows
  <2>3. \A j \in Invitations : inv'[j].status = inv[j].status /\ inv'[j].offer = inv[j].offer
    BY <1>2 DEF Expire, TypeOK
  <2>4. \A t \in Tasks : Carried(t)'
    BY <1>2, <2>3, StillCarried DEF Expire, rows
  <2>5. QED
    BY <2>1, <2>2, <2>4
<1>3. ASSUME NEW t \in Tasks, NEW i \in Invitations, Accept(t, i)
      PROVE  MembershipsInv'
  <2> DEFINE r == [Idle EXCEPT !.pc = "findUser", !.i = i]
  <2>1. r \in Requests /\ r.pc = "findUser" /\ r.i = i
    BY KeepType, FlightType DEF Idle, Flights, Phases
  <2>2. task' = [task EXCEPT ![t] = r] /\ inv[i].status # "none"
        /\ UNCHANGED <<inv, rows, used, strayed>>
    BY <1>3 DEF Accept
  <2> HIDE DEF r
  <2>3. task'[t] = r
    BY <2>2 DEF TypeOK
  <2>4. Carried(t)'
    BY <2>1, <2>2, <2>3 DEF Carried
  <2>5. QED
    BY <2>1, <2>2, <2>4, TaskMoves
<1>4. ASSUME NEW t \in Tasks, FindUser(t)
      PROVE  MembershipsInv'
  <2> DEFINE r == [task[t] EXCEPT !.pc = "joinOrg", !.newUser = ~user]
  <2>1. r \in Requests /\ r.pc = "joinOrg" /\ r.i = task[t].i
    <3>1. task[t] \in Flights
      BY <1>4, FlightType DEF FindUser
    <3>2. r \in Flights /\ r.pc = "joinOrg" /\ r.i = task[t].i
      BY <3>1 DEF Flights, Phases, TypeOK
    <3>3. QED
      BY <3>2, FlightType
  <2>2. task' = [task EXCEPT ![t] = r] /\ UNCHANGED <<inv, rows, used, strayed>>
    BY <1>4 DEF FindUser, TypeOK, Requests, Idle
  <2> HIDE DEF r
  <2>3. task'[t] = r
    BY <2>2 DEF TypeOK
  <2>4. Carried(t)'
    BY <1>4, <2>1, <2>2, <2>3 DEF FindUser, Carried
  <2>5. QED
    BY <2>1, <2>2, <2>4, TaskMoves
<1>5. ASSUME NEW t \in Tasks, JoinOrg(t)
      PROVE  MembershipsInv'
  <2>1. CASE End(t)
    BY <1>5, <2>1, TaskFails DEF JoinOrg
  <2>2. CASE ~End(t)
    <3> DEFINE r == [task[t] EXCEPT !.pc = "joinLab",
                                    !.org = [seen |-> org, new |-> JoinedOrg(org, Offer(t))]]
    <3>1. task[t].i \in Invitations /\ Offer(t) \in Offers
      BY <1>5, OfferType DEF JoinOrg, Carried
    <3>2. JoinedOrg(org, Offer(t)) \in OrgRows /\ org \in OrgRows
      BY <3>1, JoinedOrgType DEF TypeOK
    <3>3. /\ r \in Requests /\ r.pc = "joinLab" /\ r.i = task[t].i
          /\ r.org = [seen |-> org, new |-> JoinedOrg(org, Offer(t))]
      <4>1. task[t] \in Flights
        BY <1>5, FlightType DEF JoinOrg
      <4>2. [seen |-> org, new |-> JoinedOrg(org, Offer(t))] \in Plans(OrgRows)
        BY <3>2 DEF Plans
      <4>3. r \in Flights /\ r.pc = "joinLab" /\ r.i = task[t].i
            /\ r.org = [seen |-> org, new |-> JoinedOrg(org, Offer(t))]
        BY <4>1, <4>2 DEF Flights, Phases
      <4>4. QED
        BY <4>3, FlightType
    <3>4. task' = [task EXCEPT ![t] = r] /\ UNCHANGED <<inv, rows, used, strayed>>
      BY <1>5, <2>2 DEF JoinOrg, Abort, TypeOK, Requests, Idle
    <3> HIDE DEF r
    <3>5. task'[t] = r
      BY <3>4 DEF TypeOK
    <3>6. Carried(t)'
      BY <1>5, <3>3, <3>4, <3>5 DEF JoinOrg, Carried, Offer, rows
    <3>7. QED
      BY <3>3, <3>4, <3>6, TaskMoves
  <2>3. QED
    BY <2>1, <2>2
<1>6. ASSUME NEW t \in Tasks, JoinLab(t)
      PROVE  MembershipsInv'
  <2>1. CASE End(t)
    BY <1>6, <2>1, TaskFails DEF JoinLab
  <2>2. CASE ~End(t)
    <3> DEFINE r == [task[t] EXCEPT !.pc = "onboard",
                                    !.lab = [seen |-> lab, new |-> JoinedLab(lab, Offer(t))]]
    <3>1. task[t].i \in Invitations /\ Offer(t) \in Offers
      BY <1>6, OfferType DEF JoinLab, Carried
    <3>2. JoinedLab(lab, Offer(t)) \in LabRows /\ lab \in LabRows
      BY <3>1, JoinedLabType DEF TypeOK
    <3>3. /\ r \in Requests /\ r.pc = "onboard" /\ r.i = task[t].i /\ r.org = task[t].org
          /\ r.lab = [seen |-> lab, new |-> JoinedLab(lab, Offer(t))]
      <4>1. task[t] \in Flights
        BY <1>6, FlightType DEF JoinLab
      <4>2. [seen |-> lab, new |-> JoinedLab(lab, Offer(t))] \in Plans(LabRows)
        BY <3>2 DEF Plans
      <4>3. r \in Flights /\ r.pc = "onboard" /\ r.i = task[t].i /\ r.org = task[t].org
            /\ r.lab = [seen |-> lab, new |-> JoinedLab(lab, Offer(t))]
        BY <4>1, <4>2 DEF Flights, Phases
      <4>4. QED
        BY <4>3, FlightType
    <3>4. task' = [task EXCEPT ![t] = r] /\ UNCHANGED <<inv, rows, used, strayed>>
      BY <1>6, <2>2 DEF JoinLab, Abort, TypeOK, Requests, Idle
    <3> HIDE DEF r
    <3>5. task'[t] = r
      BY <3>4 DEF TypeOK
    <3>6. Carried(t)'
      BY <1>6, <3>3, <3>4, <3>5 DEF JoinLab, Carried, Offer, rows
    <3>7. QED
      BY <3>3, <3>4, <3>6, TaskMoves
  <2>3. QED
    BY <2>1, <2>2
<1>7. ASSUME NEW t \in Tasks, Onboard(t)
      PROVE  MembershipsInv'
  <2>1. CASE End(t)
    BY <1>7, <2>1, TaskFails DEF Onboard
  <2>2. CASE ~End(t)
    <3> DEFINE r == [task[t] EXCEPT !.pc = "consume", !.newRecord = NeedsRecord(t)]
    <3>1. NeedsRecord(t) \in BOOLEAN
      BY DEF NeedsRecord
    <3>2. /\ r \in Requests /\ r.pc = "consume" /\ r.i = task[t].i /\ r.org = task[t].org
          /\ r.lab = task[t].lab /\ r.newRecord = NeedsRecord(t)
      <4>1. task[t] \in Flights
        BY <1>7, FlightType DEF Onboard
      <4>2. r \in Flights /\ r.pc = "consume" /\ r.i = task[t].i /\ r.org = task[t].org
            /\ r.lab = task[t].lab /\ r.newRecord = NeedsRecord(t)
        BY <3>1, <4>1 DEF Flights, Phases
      <4>3. QED
        BY <4>2, FlightType
    <3>3. task' = [task EXCEPT ![t] = r] /\ UNCHANGED <<inv, rows, used, strayed>>
      BY <1>7, <2>2 DEF Onboard, Abort, TypeOK, Requests, Idle
    <3> HIDE DEF r
    <3>4. task'[t] = r
      BY <3>3 DEF TypeOK
    <3>5. Carried(t)'
      <4>1. Offer(t)' = Offer(t) /\ Carried(t) /\ UNCHANGED <<inv, rows>>
        BY <3>2, <3>3, <3>4 DEF Offer
      <4>2. /\ r.newRecord => Offer(t) = "CONTRIBUTOR"
            /\ Offer(t) = "CONTRIBUTOR" => r.newRecord \/ record
        BY <3>2, Zenon DEF NeedsRecord
      <4>3. /\ task'[t].newRecord => Offer(t)' = "CONTRIBUTOR"
            /\ Offer(t)' = "CONTRIBUTOR" => task'[t].newRecord \/ record'
        BY <3>4, <4>1, <4>2, Zenon DEF rows
      <4>4. task'[t].pc = "consume" /\ task'[t].i = task[t].i /\ task[t].pc = "onboard"
            /\ task'[t].org = task[t].org /\ task'[t].lab = task[t].lab
        BY <1>7, <3>2, <3>4 DEF Onboard
      <4>5. QED
        BY <4>1, <4>3, <4>4 DEF Carried, rows
    <3>6. QED
      BY <3>2, <3>3, <3>5, TaskMoves
  <2>3. QED
    BY <2>1, <2>2
<1>8. ASSUME NEW t \in Tasks, Consume(t)
      PROVE  MembershipsInv'
  <2>1. CASE Committed(t) /\ End(t)
    BY <1>8, <2>1, CommitKeeps DEF Consume
  <2>2. CASE End(t) /\ UNCHANGED <<inv, rows, used, strayed>>
    BY <1>8, <2>2, TaskFails DEF Consume
  <2>3. QED
    BY <1>8, <2>1, <2>2 DEF Consume, Committed, Abort
<1>9. ASSUME NEW t \in Tasks, NEW r \in Requests, task[t] = Idle,
             task' = [task EXCEPT ![t] = r], UNCHANGED <<inv, rows, used, strayed>>,
             \/ r.pc = "saveOrg" /\ r.org.seen # NoRow /\ r.org.new # NoRow /\ org # NoRow
             \/ /\ r.pc = "saveLab" /\ r.lab.new # NoRow
                /\ user /\ (r.elsewhere \/ strayed \/ org # NoRow)
                /\ r.lab.seen # NoRow => lab # NoRow
      PROVE  MembershipsInv'
  <2>1. task'[t] = r
    BY <1>9 DEF TypeOK
  <2>2. Carried(t)'
    BY <1>9, <2>1 DEF Carried, rows
  <2>3. QED
    BY <1>9, <2>2, TaskMoves
<1>10. ASSUME NEW t \in Tasks, NEW role \in {"MANAGER", "CONTRIBUTOR"},
              NEW elsewhere \in BOOLEAN, AddLabMember(t, role, elsewhere)
       PROVE  MembershipsInv'
  <2> DEFINE new == [status |-> "ACTIVE", role |-> role]
             r == [Idle EXCEPT !.pc = "saveLab", !.elsewhere = elsewhere,
                               !.lab = [seen |-> NoRow, new |-> new]]
  <2>1. new \in LabRows /\ new # NoRow
    BY DEF LabRows, NoRow
  <2>2. /\ r \in Requests /\ r.pc = "saveLab" /\ r.elsewhere = elsewhere
        /\ r.lab.seen = NoRow /\ r.lab.new # NoRow
    <3>1. [seen |-> NoRow, new |-> new] \in Plans(LabRows)
      BY <2>1, NoRowType DEF Plans
    <3>2. /\ r \in Flights /\ r.pc = "saveLab" /\ r.elsewhere = elsewhere
          /\ r.lab = [seen |-> NoRow, new |-> new]
      BY <3>1, KeepType DEF Idle, Flights, Phases
    <3>3. QED
      BY <2>1, <3>2, FlightType
  <2>3. user /\ (elsewhere \/ org # NoRow)
    BY <1>10 DEF AddLabMember, NoRow, LabWithinOrg
  <2>4. task[t] = Idle /\ task' = [task EXCEPT ![t] = r] /\ UNCHANGED <<inv, rows, used, strayed>>
    BY <1>10 DEF AddLabMember
  <2> HIDE DEF r
  <2>5. QED
    BY <1>9, <2>1, <2>2, <2>3, <2>4
<1>11. ASSUME NEW t \in Tasks, NEW new \in LabRows \ {NoRow}, UpdateLabMember(t, new)
       PROVE  MembershipsInv'
  <2> DEFINE r == [Idle EXCEPT !.pc = "saveLab", !.lab = [seen |-> lab, new |-> new]]
  <2>1. r \in Requests /\ r.pc = "saveLab" /\ r.lab.new # NoRow
    <3>1. [seen |-> lab, new |-> new] \in Plans(LabRows)
      BY DEF Plans, TypeOK
    <3>2. r \in Flights /\ r.pc = "saveLab" /\ r.lab = [seen |-> lab, new |-> new]
      BY <3>1, KeepType DEF Idle, Flights, Phases
    <3>3. QED
      BY <3>2, FlightType
  <2>2. task[t] = Idle /\ task' = [task EXCEPT ![t] = r] /\ UNCHANGED <<inv, rows, used, strayed>>
    BY <1>11 DEF UpdateLabMember
  <2>3. lab # NoRow /\ user /\ (strayed \/ org # NoRow)
    BY <1>11 DEF UpdateLabMember, LabWithinOrg
  <2> HIDE DEF r
  <2>4. QED
    BY <1>9, <2>1, <2>2, <2>3
<1>12. ASSUME NEW t \in Tasks, NEW new \in OrgRows \ {NoRow}, UpdateMember(t, new)
       PROVE  MembershipsInv'
  <2> DEFINE r == [Idle EXCEPT !.pc = "saveOrg", !.org = [seen |-> org, new |-> new]]
  <2>1. r \in Requests /\ r.pc = "saveOrg" /\ r.org.seen = org /\ r.org.new # NoRow
    <3>1. [seen |-> org, new |-> new] \in Plans(OrgRows)
      BY DEF Plans, TypeOK
    <3>2. r \in Flights /\ r.pc = "saveOrg" /\ r.org = [seen |-> org, new |-> new]
      BY <3>1, KeepType DEF Idle, Flights, Phases
    <3>3. QED
      BY <3>2, FlightType
  <2>2. task[t] = Idle /\ task' = [task EXCEPT ![t] = r] /\ UNCHANGED <<inv, rows, used, strayed>>
        /\ org # NoRow
    BY <1>12 DEF UpdateMember
  <2> HIDE DEF r
  <2>3. QED
    BY <1>9, <2>1, <2>2
<1>13. ASSUME NEW t \in Tasks, SaveLab(t)
       PROVE  MembershipsInv'
  <2>1. CASE UNCHANGED <<lab, strayed>>
    BY <1>13, <2>1, TaskFails DEF SaveLab, Abort, rows
  <2>2. CASE lab' = Result(lab, task[t].lab) /\ strayed' = (strayed \/ task[t].elsewhere)
    <3>1. /\ lab' \in LabRows \ {NoRow}
          /\ user /\ (task[t].elsewhere \/ strayed \/ org # NoRow)
      BY <1>13, <2>2, SaveLabEffect DEF SaveLab
    <3>2. End(t)
      BY <1>13 DEF SaveLab, Abort
    <3>3. TypeOK'
      <4>1. strayed' \in BOOLEAN
        BY <2>2
      <4>2. QED
        BY <1>13, <3>1, <3>2, <4>1, EndEffect DEF SaveLab, TypeOK
    <3>4. LabWithinOrg'
      BY <1>13, <2>2, <3>1 DEF SaveLab, LabWithinOrg
    <3>5. QED
      BY <1>13, <2>2, <3>1, <3>2, <3>3, <3>4, EndEffect, OneTaskMoves DEF SaveLab
  <2>3. QED
    BY <1>13, <2>1, <2>2 DEF SaveLab
<1>14. ASSUME NEW t \in Tasks, SaveOrg(t)
       PROVE  MembershipsInv'
  <2>1. org' \in OrgRows \ {NoRow} /\ org # NoRow
    BY <1>14, SaveOrgEffect DEF SaveOrg
  <2>2. TypeOK'
    BY <1>14, <2>1, EndEffect DEF SaveOrg, TypeOK
  <2>3. LabWithinOrg'
    BY <1>14, <2>1 DEF SaveOrg, LabWithinOrg
  <2>4. QED
    BY <1>14, <2>1, <2>2, <2>3, EndEffect, OneTaskMoves DEF SaveOrg
<1>15. CASE Restart
  <2>1. TypeOK' /\ \A t \in Tasks : task'[t] = Idle
    BY <1>15, IdleType DEF Restart, TypeOK, rows
  <2>2. LabWithinOrg'
    BY <1>15 DEF Restart, LabWithinOrg, rows
  <2>3. \A t \in Tasks : Carried(t)'
    BY <2>1, IdleType DEF Carried
  <2>4. QED
    BY <2>1, <2>2, <2>3
<1>16. CASE UNCHANGED vars
  BY <1>16, StillCarried DEF vars, TypeOK, LabWithinOrg
<1>17. QED
  BY <1>1, <1>2, <1>3, <1>4, <1>5, <1>6, <1>7, <1>8, <1>10, <1>11, <1>12, <1>13, <1>14,
     <1>15, <1>16 DEF Next, Step

(* What a request carries from its reads to its commit fits the rows it    *)
(* meets there.                                                            *)
THEOREM Invariant == Spec => []MembershipsInv
BY InvInit, InvStep, PTL DEF Spec

(* Invitations, rows and requests keep their types.                        *)
THEOREM Typing == Spec => []TypeOK
BY Invariant, PTL DEF MembershipsInv

(* Nobody is in a lab of an organization they never joined unless they     *)
(* were added by way of another one, nor without an account.               *)
THEOREM WithinOrg == Spec => []LabWithinOrg
BY Invariant, PTL DEF MembershipsInv

-----------------------------------------------------------------------------
(* What a step does to the tables.                                         *)

LEMMA Changes ==
    ASSUME MembershipsInv, [Next]_vars
    PROVE  \/ \E i \in Invitations, offer \in Offers : Invite(i, offer)
           \/ \E i \in Invitations : Expire(i)
           \/ \E t \in Tasks : /\ task[t].pc = "consume" /\ Committed(t)
           \/ \E t \in Tasks : SaveLab(t) /\ lab' = Result(lab, task[t].lab)
           \/ \E t \in Tasks : SaveOrg(t)
           \/ UNCHANGED <<inv, rows, used, strayed>>
<1>1. ASSUME NEW t \in Tasks, Step(t), ~SaveOrg(t)
      PROVE  \/ task[t].pc = "consume" /\ Committed(t)
             \/ SaveLab(t) /\ lab' = Result(lab, task[t].lab)
             \/ UNCHANGED <<inv, rows, used, strayed>>
  <2>1. CASE FindUser(t) \/ JoinOrg(t) \/ JoinLab(t) \/ Onboard(t)
    BY <2>1 DEF FindUser, JoinOrg, JoinLab, Onboard
  <2>2. CASE Consume(t)
    BY <2>2 DEF Consume, Committed
  <2>3. CASE SaveLab(t)
    BY <2>3 DEF SaveLab, rows
  <2>4. QED
    BY <1>1, <2>1, <2>2, <2>3 DEF Step
<1>2. ASSUME NEW t \in Tasks,
             \/ \E i \in Invitations : Accept(t, i)
             \/ \E role \in {"MANAGER", "CONTRIBUTOR"}, elsewhere \in BOOLEAN :
                   AddLabMember(t, role, elsewhere)
             \/ \E new \in LabRows \ {NoRow} : UpdateLabMember(t, new)
             \/ \E new \in OrgRows \ {NoRow} : UpdateMember(t, new)
      PROVE  UNCHANGED <<inv, rows, used, strayed>>
  BY <1>2 DEF Accept, AddLabMember, UpdateLabMember, UpdateMember
<1>3. Restart \/ UNCHANGED vars => UNCHANGED <<inv, rows, used, strayed>>
  BY DEF Restart, vars, rows
<1>4. QED
  BY <1>1, <1>2, <1>3 DEF Next

-----------------------------------------------------------------------------
(* Single use, and all or nothing.                                         *)

(* However many requests accept an invitation, one of them commits.        *)
THEOREM SingleUse == Spec => []UsedOnce
<1>1. Init => UsedOnce
  BY DEF Init, UsedOnce
<1>2. ASSUME MembershipsInv, UsedOnce, [Next]_vars
      PROVE  UsedOnce'
  <2>1. ASSUME NEW i \in Invitations, NEW offer \in Offers, Invite(i, offer)
        PROVE  UsedOnce'
    BY <1>2, <2>1 DEF MembershipsInv, TypeOK, Invite, UsedOnce
  <2>2. ASSUME NEW i \in Invitations, Expire(i)
        PROVE  UsedOnce'
    BY <1>2, <2>2 DEF MembershipsInv, TypeOK, Expire, UsedOnce
  <2>3. ASSUME NEW t \in Tasks, task[t].pc = "consume", Committed(t)
        PROVE  UsedOnce'
    <3>1. /\ task[t].i \in Invitations
          /\ inv[task[t].i].status = "PENDING" /\ inv'[task[t].i].status = "ACCEPTED"
          /\ \A i \in Invitations \ {task[t].i} : inv'[i] = inv[i]
      BY <1>2, <2>3, CommitEffect
    <3>2. used[task[t].i] = 0
      BY <1>2, <3>1 DEF MembershipsInv, TypeOK, UsedOnce
    <3>3. used'[task[t].i] = 1 /\ \A i \in Invitations \ {task[t].i} : used'[i] = used[i]
      BY <1>2, <2>3, <3>1, <3>2 DEF MembershipsInv, TypeOK, Committed
    <3>4. QED
      BY <1>2, <3>1, <3>3 DEF UsedOnce
  <2>4. ASSUME NEW t \in Tasks, SaveLab(t) \/ SaveOrg(t)
        PROVE  UsedOnce'
    BY <1>2, <2>4 DEF SaveLab, SaveOrg, UsedOnce
  <2>5. CASE UNCHANGED <<inv, rows, used, strayed>>
    BY <1>2, <2>5 DEF UsedOnce
  <2>6. QED
    BY <1>2, <2>1, <2>2, <2>3, <2>4, <2>5, Changes
<1>3. QED
  BY <1>1, <1>2, Invariant, PTL DEF Spec

(* Who accepted an invitation has everything it offers.                    *)
THEOREM AllOrNothing == Spec => []AcceptedInFull
<1>1. Init => AcceptedInFull
  BY DEF Init, AcceptedInFull
<1>2. ASSUME MembershipsInv, AcceptedInFull, [Next]_vars
      PROVE  AcceptedInFull'
  <2>1. ASSUME NEW i \in Invitations, NEW offer \in Offers, Invite(i, offer)
        PROVE  AcceptedInFull'
    BY <1>2, <2>1 DEF MembershipsInv, TypeOK, Invite, AcceptedInFull, rows
  <2>2. ASSUME NEW i \in Invitations, Expire(i)
        PROVE  AcceptedInFull'
    BY <1>2, <2>2 DEF MembershipsInv, TypeOK, Expire, AcceptedInFull, rows
  <2>3. ASSUME NEW t \in Tasks, task[t].pc = "consume", Committed(t)
        PROVE  AcceptedInFull'
    <3>1. /\ task[t].i \in Invitations /\ inv'[task[t].i].offer = Offer(t)
          /\ \A i \in Invitations \ {task[t].i} : inv'[i] = inv[i]
          /\ user' /\ org' # NoRow
          /\ lab # NoRow \/ Offer(t) # "ADMIN" => lab' # NoRow
      BY <1>2, <2>3, CommitEffect DEF Committed
    <3>2. record \/ Offer(t) = "CONTRIBUTOR" => record'
      BY <1>2, <2>3, CommitEffect
    <3>3. QED
      BY <1>2, <3>1, <3>2 DEF AcceptedInFull
  <2>4. ASSUME NEW t \in Tasks, SaveLab(t), lab' = Result(lab, task[t].lab)
        PROVE  AcceptedInFull'
    <3>1. lab' # NoRow
      BY <1>2, <2>4, SaveLabEffect DEF SaveLab
    <3>2. QED
      BY <1>2, <2>4, <3>1 DEF SaveLab, AcceptedInFull
  <2>5. ASSUME NEW t \in Tasks, SaveOrg(t)
        PROVE  AcceptedInFull'
    <3>1. org' # NoRow
      BY <1>2, <2>5, SaveOrgEffect DEF SaveOrg
    <3>2. QED
      BY <1>2, <2>5, <3>1 DEF SaveOrg, AcceptedInFull
  <2>6. CASE UNCHANGED <<inv, rows, used, strayed>>
    BY <1>2, <2>6 DEF AcceptedInFull, rows
  <2>7. QED
    BY <1>2, <2>1, <2>2, <2>3, <2>4, <2>5, <2>6, Changes
<1>3. QED
  BY <1>1, <1>2, Invariant, PTL DEF Spec

-----------------------------------------------------------------------------
(* What an acceptance makes of a row it may have read some time ago.       *)

LEMMA OrgMixed ==
    ASSUME NEW row \in OrgRows, NEW seen \in OrgRows, NEW offer \in Offers,
           seen # NoRow => row # NoRow
    PROVE  LET new == Result(row, [seen |-> seen, new |-> JoinedOrg(seen, offer)])
           IN  /\ new.status \in {row.status, "ACTIVE"}
               /\ new.role \in {row.role, OrgRole(offer)}
               /\ new = [status |-> new.status, role |-> new.role]
BY DEF OrgRows, Offers, Result, JoinedOrg, OrgRole, NoRow

LEMMA LabMixed ==
    ASSUME NEW row \in LabRows, NEW seen \in LabRows, NEW offer \in Offers,
           seen # NoRow => row # NoRow
    PROVE  LET new == Result(row, [seen |-> seen, new |-> JoinedLab(seen, offer)])
           IN  /\ offer = "ADMIN" => new = row
               /\ new.status \in {row.status, "ACTIVE"}
               /\ new.role \in {row.role, offer}
               /\ new = [status |-> new.status, role |-> new.role]
BY DEF LabRows, Offers, Result, JoinedLab, NoRow

LEMMA CommitMixes ==
    ASSUME MembershipsInv, NEW t \in Tasks, task[t].pc = "consume", Committed(t)
    PROVE  /\ org'.status \in {org.status, "ACTIVE"}
           /\ org'.role \in {org.role, OrgRole(Offer(t))}
           /\ org' = [status |-> org'.status, role |-> org'.role]
           /\ Offer(t) = "ADMIN" => lab' = lab
           /\ lab'.status \in {lab.status, "ACTIVE"}
           /\ lab'.role \in {lab.role, Offer(t)}
           /\ lab' = [status |-> lab'.status, role |-> lab'.role]
<1>1. Offer(t) \in Offers /\ org \in OrgRows /\ lab \in LabRows
  BY CommitEffect DEF MembershipsInv, TypeOK
<1>2. /\ task[t].org.seen \in OrgRows /\ (task[t].org.seen # NoRow => org # NoRow)
      /\ task[t].lab.seen \in LabRows /\ (task[t].lab.seen # NoRow => lab # NoRow)
  BY RequestType DEF MembershipsInv, Carried
<1>3. task[t].org = [seen |-> task[t].org.seen, new |-> JoinedOrg(task[t].org.seen, Offer(t))]
  BY RequestType DEF MembershipsInv, Carried, Plans
<1>4. task[t].lab = [seen |-> task[t].lab.seen, new |-> JoinedLab(task[t].lab.seen, Offer(t))]
  BY RequestType DEF MembershipsInv, Carried, Plans
<1>5. org' = Result(org, [seen |-> task[t].org.seen, new |-> JoinedOrg(task[t].org.seen, Offer(t))])
  BY <1>3 DEF Committed
<1>6. lab' = Result(lab, [seen |-> task[t].lab.seen, new |-> JoinedLab(task[t].lab.seen, Offer(t))])
  BY <1>4 DEF Committed
<1>7. QED
  BY <1>1, <1>2, <1>5, <1>6, OrgMixed, LabMixed

(* Nobody gets back in, or higher up, by an invitation that was used.      *)
THEOREM NoReturn == Spec => NoWayBackIn
<1>1. ASSUME MembershipsInv, [Next]_vars
      PROVE  [ByAdmin \/
              /\ Returns(org, org') => ByInvitation(Offers)
              /\ Returns(lab, lab') => ByInvitation({"MANAGER", "CONTRIBUTOR"})
              /\ Rises(org, org', "ADMIN") => ByInvitation({"ADMIN"})
              /\ Rises(lab, lab', "MANAGER") => ByInvitation({"MANAGER"})]_<<org, lab>>
  <2>1. ASSUME NEW t \in Tasks, task[t].pc = "consume", Committed(t)
        PROVE  /\ Returns(org, org') => ByInvitation(Offers)
               /\ Returns(lab, lab') => ByInvitation({"MANAGER", "CONTRIBUTOR"})
               /\ Rises(org, org', "ADMIN") => ByInvitation({"ADMIN"})
               /\ Rises(lab, lab', "MANAGER") => ByInvitation({"MANAGER"})
    <3>1. \A S : Offer(t) \in S => ByInvitation(S)
      BY <1>1, <2>1, CommitEffect DEF ByInvitation, Offer
    <3>2. Offer(t) \in Offers
      BY <1>1, <2>1, CommitEffect
    <3>3. Returns(lab, lab') => Offer(t) \in {"MANAGER", "CONTRIBUTOR"}
      BY <1>1, <2>1, <3>2, CommitMixes DEF Returns, Offers
    <3>4. Rises(org, org', "ADMIN") => Offer(t) = "ADMIN"
      BY <1>1, <2>1, <3>2, CommitMixes DEF Rises, Offers, OrgRole
    <3>5. Rises(lab, lab', "MANAGER") => Offer(t) = "MANAGER"
      BY <1>1, <2>1, <3>2, CommitMixes DEF Rises, Offers
    <3>6. QED
      BY <3>1, <3>2, <3>3, <3>4, <3>5
  <2>2. ASSUME NEW t \in Tasks, SaveLab(t) \/ SaveOrg(t)
        PROVE  ByAdmin
    BY <1>1, <2>2, EndEffect DEF MembershipsInv, ByAdmin, SaveLab, SaveOrg, Abort
  <2>3. \/ \E i \in Invitations, offer \in Offers : Invite(i, offer)
        \/ \E i \in Invitations : Expire(i)
        \/ UNCHANGED <<inv, rows, used, strayed>>
        => UNCHANGED <<org, lab>>
    BY DEF Invite, Expire, rows
  <2>4. QED
    BY <1>1, <2>1, <2>2, <2>3, Changes
<1>2. QED
  BY <1>1, Invariant, PTL DEF Spec, NoWayBackIn

-----------------------------------------------------------------------------
(* The steps of Memberships are steps of Admissions.                       *)

LEMMA SameRows ==
    /\ Admitted!NoRow = NoRow /\ Admitted!OrgRows = OrgRows /\ Admitted!LabRows = LabRows
    /\ Admitted!Offers = Offers
    /\ \A offer : Admitted!OrgRole(offer) = OrgRole(offer)
BY DEF Admitted!NoRow, NoRow, Admitted!OrgRows, OrgRows, Admitted!LabRows, LabRows,
   Admitted!Offers, Offers, Admitted!OrgRole, OrgRole

(* Every acceptance is atomic, and nothing else admits anybody.            *)
THEOREM Implements == Spec => AdmittedAtomically
<1> DEFINE offered == [i \in Invitations |-> [status |-> inv[i].status, offer |-> inv[i].offer]]
<1>1. Init => Admitted!Init
  BY SameRows DEF Init, Admitted!Init
<1>2. ASSUME MembershipsInv, MembershipsInv', [Next]_vars
      PROVE  [Admitted!Next]_Admitted!vars
  <2>1. ASSUME NEW i \in Invitations, NEW offer \in Offers, Invite(i, offer)
        PROVE  Admitted!Invite(i, offer)
    BY <1>2, <2>1 DEF MembershipsInv, TypeOK, Invite, Admitted!Invite, rows
  <2>2. ASSUME NEW i \in Invitations, Expire(i)
        PROVE  UNCHANGED Admitted!vars
    <3>1. offered' = offered
      BY <1>2, <2>2 DEF MembershipsInv, TypeOK, Expire
    <3>2. QED
      BY <2>2, <3>1 DEF Expire, rows, Admitted!vars
  <2>3. ASSUME NEW i \in Invitations, NEW t \in Tasks,
               task[t].i = i, task[t].pc = "consume", Committed(t)
        PROVE  Admitted!Admit(i)
    <3>1. /\ inv[i].status = "PENDING" /\ Offer(t) = inv[i].offer
          /\ inv'[i].status = "ACCEPTED" /\ inv'[i].offer = inv[i].offer
          /\ \A j \in Invitations \ {i} : inv'[j] = inv[j]
      BY <1>2, <2>3, CommitEffect DEF Offer
    <3>2. offered' = [offered EXCEPT ![i].status = "ACCEPTED"]
      BY <3>1
    <3>3. org' \in (OrgRows \ {NoRow})
              \cap Admitted!Mixed(org, [status |-> "ACTIVE", role |-> OrgRole(Offer(t))])
      BY <1>2, <2>3, CommitEffect, CommitMixes DEF Admitted!Mixed
    <3>4. Offer(t) # "ADMIN" => lab' \in (LabRows \ {NoRow})
              \cap Admitted!Mixed(lab, [status |-> "ACTIVE", role |-> Offer(t)])
      BY <1>2, <2>3, CommitEffect, CommitMixes DEF Admitted!Mixed
    <3>5. Offer(t) = "ADMIN" => lab' = lab
      BY <1>2, <2>3, CommitMixes
    <3>6. user' = TRUE /\ record' = (record \/ Offer(t) = "CONTRIBUTOR")
      BY <1>2, <2>3, CommitEffect DEF Committed
    <3>7. offered[i].offer = Offer(t) /\ offered[i].status = "PENDING"
      BY <3>1
    <3> HIDE DEF offered
    <3>8. QED
      BY <3>2, <3>3, <3>4, <3>5, <3>6, <3>7, SameRows DEF Admitted!Admit, offered
  <2>4. ASSUME NEW t \in Tasks, SaveLab(t), lab' = Result(lab, task[t].lab)
        PROVE  Admitted!ChangeLabMember
    <3>1. lab' \in LabRows \ {NoRow} /\ user
      BY <1>2, <2>4, SaveLabEffect DEF SaveLab
    <3>2. QED
      BY <2>4, <3>1, SameRows DEF SaveLab, Admitted!ChangeLabMember
  <2>5. ASSUME NEW t \in Tasks, SaveOrg(t)
        PROVE  Admitted!ChangeMember
    <3>1. org' \in OrgRows \ {NoRow} /\ org # NoRow
      BY <1>2, <2>5, SaveOrgEffect DEF SaveOrg
    <3>2. QED
      BY <2>5, <3>1, SameRows DEF SaveOrg, Admitted!ChangeMember
  <2>6. ASSUME UNCHANGED <<inv, rows, used, strayed>>
        PROVE  UNCHANGED Admitted!vars
    BY <2>6 DEF rows, Admitted!vars
  <2>7. ASSUME NEW t \in Tasks, task[t].pc = "consume", Committed(t)
        PROVE  \E i \in Invitations : Admitted!Admit(i)
    <3>1. task[t].i \in Invitations
      BY <1>2, <2>7 DEF MembershipsInv, Carried
    <3>2. PICK i \in Invitations : task[t].i = i
      BY <3>1
    <3>3. QED
      BY <2>3, <2>7, <3>2
  <2>8. ASSUME NEW i \in Invitations, NEW offer \in Offers, Invite(i, offer)
        PROVE  \E j \in Invitations, o \in Admitted!Offers : Admitted!Invite(j, o)
    BY <2>1, <2>8, SameRows
  <2>9. \/ \E i \in Invitations, offer \in Offers : Invite(i, offer)
        \/ \E i \in Invitations : Expire(i)
        \/ \E t \in Tasks : task[t].pc = "consume" /\ Committed(t)
        \/ \E t \in Tasks : SaveLab(t) /\ lab' = Result(lab, task[t].lab)
        \/ \E t \in Tasks : SaveOrg(t)
        \/ UNCHANGED <<inv, rows, used, strayed>>
    BY <1>2, Changes
  <2>10. Admitted!Next \/ UNCHANGED Admitted!vars
    BY <2>2, <2>4, <2>5, <2>6, <2>7, <2>8, <2>9, Zenon DEF Admitted!Next
  <2>11. QED
    BY <2>10
<1>3. QED
  BY <1>1, <1>2, Invariant, PTL DEF Spec, Admitted!Spec, AdmittedAtomically

-----------------------------------------------------------------------------
(* Waiting.                                                                *)

(* How many of the rows a request has got past.                            *)
Got(t) == CASE task[t].pc = "joinLab" -> 1
            [] task[t].pc = "onboard" -> 2
            [] task[t].pc = "consume" -> 3
            [] OTHER                  -> 0

(* A request waits for requests only that have got further.                *)
LEMMA WaitsForFurther ==
    ASSUME NEW t, NEW u, WaitsFor(t, u)
    PROVE  Got(t) < Got(u)
<1>1. PICK row \in {"user", "org", "lab"} : Needs(t, row) /\ Holds(u, row)
  BY DEF WaitsFor
<1>2. CASE row = "user"
  BY <1>1, <1>2 DEF Needs, Holds, Got
<1>3. CASE row = "org"
  BY <1>1, <1>3 DEF Needs, Holds, Got
<1>4. CASE row = "lab"
  BY <1>1, <1>4 DEF Needs, Holds, Got
<1>5. QED
  BY <1>1, <1>2, <1>3, <1>4

(* Among requests that all wait there is one that has got furthest.        *)
LEMMA Furthest ==
    ASSUME NEW S, S # {}
    PROVE  \E t \in S : \A u \in S : ~(Got(t) < Got(u))
<1>1. \A t : Got(t) \in 0 .. 3
  BY DEF Got
<1>2. CASE \E t \in S : Got(t) = 3
  BY <1>1, <1>2
<1>3. CASE (\E t \in S : Got(t) = 2) /\ \A t \in S : Got(t) # 3
  BY <1>1, <1>3
<1>4. CASE (\E t \in S : Got(t) = 1) /\ \A t \in S : Got(t) \notin {2, 3}
  BY <1>1, <1>4
<1>5. CASE \A t \in S : Got(t) \notin {1, 2, 3}
  BY <1>1, <1>5
<1>6. QED
  BY <1>2, <1>3, <1>4, <1>5

(* No set of requests, however large, waits in itself.                     *)
THEOREM DeadlockFree == Spec => []NoDeadlock
<1>1. NoDeadlock
  BY WaitsForFurther, Furthest DEF NoDeadlock
<1>2. QED
  BY <1>1, PTL
=============================================================================

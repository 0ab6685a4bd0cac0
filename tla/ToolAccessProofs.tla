--------------------------- MODULE ToolAccessProofs ---------------------------
(***************************************************************************)
(* Theorems about ToolAccess for every set of tasks, either build, every   *)
(* connector and every bound.                                              *)
(***************************************************************************)
EXTENDS ToolAccess, TLAPS

USE BuildAssumption, ConnectorAssumption, BoundAssumption

(* What a task that serves a request looks like.                           *)
Running == [pc: Phases \ {"idle"}, op: Operations, key: Nat,
            seen: Statuses \cup {"absent"}, open: BOOLEAN]

LEMMA RunningType == Running \subseteq TaskStates
BY DEF Running, TaskStates

LEMMA BusyType ==
    ASSUME TypeOK, NEW t \in Tasks, task[t].pc # "idle"
    PROVE  task[t] \in Running
BY DEF TypeOK, TaskStates, Running, Idle

(* The effect of the handlers' common tail keeps the types.                *)
LEMMA SaveType ==
    ASSUME TypeOK, NEW t \in Tasks, NEW k \in Nat, task[t].pc # "idle", Save(t, k)
    PROVE  /\ task' \in [Tasks -> TaskStates]
           /\ id' \in Nat /\ status' \in Statuses \cup {"absent"} /\ granted' \subseteq Nat
<1>1. task[t] \in Running /\ Writes[task[t].op] \in Statuses \cup {"absent"}
  BY BusyType DEF Running, Writes, Operations, Statuses
<1>2. task' \in [Tasks -> TaskStates]
  <2> DEFINE r == [task[t] EXCEPT !.pc = "scheduled", !.key = k, !.open = ~commitFirst]
  <2>1. r \in Running
    BY <1>1 DEF Running, Phases
  <2>2. task' = [task EXCEPT ![t] = r]
    BY DEF Save, TypeOK
  <2>3. QED
    BY <2>1, <2>2, RunningType DEF TypeOK
<1>3. QED
  BY <1>1, <1>2 DEF Save, Publish, TypeOK, row

LEMMA IdleType == Idle \in TaskStates
BY DEF TaskStates

LEMMA ReturnType ==
    ASSUME TypeOK, NEW t \in Tasks, Return(t)
    PROVE  task' \in [Tasks -> TaskStates]
BY IdleType DEF Return, TypeOK

LEMMA GotoType ==
    ASSUME TypeOK, NEW t \in Tasks, NEW p \in Phases \ {"idle"},
           task[t].pc # "idle", Goto(t, p)
    PROVE  task' \in [Tasks -> TaskStates]
<1>1. task[t] \in Running
  BY BusyType
<1>2. [task[t] EXCEPT !.pc = p] \in Running
  BY <1>1 DEF Running
<1>3. QED
  BY <1>2, RunningType DEF Goto, TypeOK

(* A running process does not change its build.                            *)
LEMMA BuildFixed ==
    ASSUME [Next]_vars
    PROVE  commitFirst' = commitFirst
BY DEF Next, Check, Step, Handle, Job, Grant, RequestAccess, Approve, Deny, Revoke, Load,
   Begin, Provision, Deprovision, Finish, Commit, JobWrites, Restart, vars

(* Every variable keeps its type.                                          *)
THEOREM Typing == Spec => []TypeOK
<1>1. Init => TypeOK
  <2> SUFFICES ASSUME Init PROVE TypeOK
    OBVIOUS
  <2>1. task \in [Tasks -> TaskStates]
    BY IdleType, Zenon DEF Init
  <2>2. QED
    BY <2>1 DEF Init, TypeOK
<1>2. TypeOK /\ [Next]_vars => TypeOK'
  <2> SUFFICES ASSUME TypeOK, [Next]_vars PROVE TypeOK'
    OBVIOUS
  <2>a. commitFirst' = commitFirst
    BY BuildFixed
  <2> USE <2>a
  <2>1. ASSUME NEW t \in Tasks, NEW o \in Operations, Check(t, o) PROVE TypeOK'
    <3>1. [pc |-> "checked", op |-> o, key |-> id, seen |-> status, open |-> FALSE] \in TaskStates
      BY DEF TypeOK, TaskStates, Phases
    <3>2. QED
      BY <2>1, <3>1 DEF Check, TypeOK, row
  <2>2. ASSUME NEW t \in Tasks, Grant(t) PROVE TypeOK'
    <3>1. task[t].pc # "idle" /\ id + 1 \in Nat
      BY <2>2 DEF Grant, Handles, TypeOK
    <3>2. CASE status = "absent"
      BY <2>2, <3>1, <3>2, SaveType DEF Grant, TypeOK
    <3>3. CASE status # "absent"
      BY <2>2, <3>3, ReturnType DEF Grant, Abort, TypeOK, row
    <3>4. QED
      BY <3>2, <3>3
  <2>3. ASSUME NEW t \in Tasks, RequestAccess(t) PROVE TypeOK'
    <3>1. CASE status = "absent"
      <4>1. id' = id + 1 /\ status' = "PENDING_APPROVAL" /\ granted' = granted
        BY <2>3, <3>1 DEF RequestAccess, Publish, Writes
      <4>2. QED
        BY <2>3, <3>1, <4>1, ReturnType DEF RequestAccess, Statuses, TypeOK
    <3>2. CASE status # "absent"
      BY <2>3, <3>2, ReturnType DEF RequestAccess, Abort, TypeOK, row
    <3>3. QED
      BY <3>1, <3>2
  <2>4. ASSUME NEW t \in Tasks, Approve(t) PROVE TypeOK'
    <3>1. task[t].pc # "idle" /\ task[t].key \in Nat
      BY <2>4, BusyType DEF Approve, Handles, Running
    <3>2. CASE Present(task[t].key)
      BY <2>4, <3>1, <3>2, SaveType DEF Approve, TypeOK
    <3>3. CASE ~Present(task[t].key)
      BY <2>4, <3>3, ReturnType DEF Approve, Abort, TypeOK, row
    <3>4. QED
      BY <3>2, <3>3
  <2>5. ASSUME NEW t \in Tasks, Deny(t) PROVE TypeOK'
    BY <2>5, ReturnType DEF Deny, Publish, Writes, TypeOK, row
  <2>6. ASSUME NEW t \in Tasks, Revoke(t) PROVE TypeOK'
    <3>1. task[t].pc # "idle" /\ task[t].key \in Nat /\ "scheduled" \in Phases \ {"idle"}
      BY <2>6, BusyType DEF Revoke, Handles, Running, Phases
    <3>2. CASE task[t].seen = "REVOKING"
      BY <2>6, <3>1, <3>2, GotoType DEF Revoke, TypeOK, row
    <3>3. CASE task[t].seen # "REVOKING" /\ Present(task[t].key)
      BY <2>6, <3>1, <3>3, SaveType DEF Revoke, TypeOK
    <3>4. CASE task[t].seen # "REVOKING" /\ ~Present(task[t].key)
      BY <2>6, <3>4, ReturnType DEF Revoke, Abort, TypeOK, row
    <3>5. QED
      BY <3>2, <3>3, <3>4
  <2>7. ASSUME NEW t \in Tasks, Load(t) PROVE TypeOK'
    <3>1. task' \in [Tasks -> TaskStates]
      BY <2>7, ReturnType, GotoType DEF Load, Phases, Outcome
    <3>2. QED
      BY <2>7, <3>1 DEF Load, TypeOK, row, history
  <2>8. ASSUME NEW t \in Tasks, Begin(t) PROVE TypeOK'
    <3>1. task' \in [Tasks -> TaskStates]
      BY <2>8, ReturnType, GotoType DEF Begin, Phases, Outcome
    <3>2. QED
      BY <2>8, <3>1 DEF Begin, JobWrites, TypeOK, Statuses, history
  <2>9. ASSUME NEW t \in Tasks, Provision(t) PROVE TypeOK'
    <3>1. task' \in [Tasks -> TaskStates]
      BY <2>9, GotoType DEF Provision, Phases, Outcome
    <3>2. QED
      BY <2>9, <3>1 DEF Provision, TypeOK, row, history
  <2>10. ASSUME NEW t \in Tasks, Deprovision(t) PROVE TypeOK'
    <3>1. task' \in [Tasks -> TaskStates]
      BY <2>10, GotoType DEF Deprovision, Phases, Outcome
    <3>2. QED
      BY <2>10, <3>1 DEF Deprovision, TypeOK, row, history
  <2>11. ASSUME NEW t \in Tasks, Finish(t) PROVE TypeOK'
    <3>1. Outcome[task[t].pc] \in Statuses
      BY <2>11 DEF Finish, Outcome, Statuses
    <3>2. QED
      BY <2>11, <3>1, ReturnType DEF Finish, JobWrites, TypeOK, history
  <2>12. ASSUME NEW t \in Tasks, Commit(t) PROVE TypeOK'
    <3>1. task[t].key \in Nat /\ task[t].op \in Operations
      BY <2>12 DEF Commit, TypeOK, TaskStates, Idle
    <3>2. Writes[task[t].op] \in Statuses \cup {"absent"}
      BY <3>1 DEF Operations, Writes, Statuses
    <3>3. QED
      BY <2>12, <3>1, <3>2, ReturnType DEF Commit, Publish, TypeOK
  <2>13. CASE Restart
    BY <2>13, IdleType DEF Restart, TypeOK, row, history
  <2>14. CASE UNCHANGED vars
    BY <2>14 DEF vars, TypeOK
  <2>15. QED
    BY <2>1, <2>2, <2>3, <2>4, <2>5, <2>6, <2>7, <2>8, <2>9, <2>10, <2>11, <2>12,
       <2>13, <2>14 DEF Next, Step, Handle, Job
<1>3. QED
  BY <1>1, <1>2, PTL DEF Spec

-----------------------------------------------------------------------------
(* What the building blocks of the actions do to the tasks.                *)

LEMMA GotoEffect ==
    ASSUME TypeOK, NEW t \in Tasks, NEW p, task[t].pc # "idle", Goto(t, p)
    PROVE  /\ task'[t].pc = p /\ task'[t].key = task[t].key
           /\ task'[t].op = task[t].op /\ task'[t].seen = task[t].seen
           /\ task'[t].open = task[t].open
           /\ \A u \in Tasks \ {t} : task'[u] = task[u]
<1>1. task[t] \in Running
  BY BusyType
<1>2. task' = [task EXCEPT ![t] = [task[t] EXCEPT !.pc = p]]
  BY DEF Goto, TypeOK
<1>3. QED
  BY <1>1, <1>2 DEF TypeOK, Running

LEMMA ReturnEffect ==
    ASSUME TypeOK, NEW t \in Tasks, Return(t)
    PROVE  task'[t] = Idle /\ \A u \in Tasks \ {t} : task'[u] = task[u]
BY DEF Return, TypeOK

LEMMA SaveEffect ==
    ASSUME TypeOK, NEW t \in Tasks, NEW k \in Nat, task[t].pc # "idle", Save(t, k)
    PROVE  /\ task'[t].pc = "scheduled" /\ task'[t].key = k
           /\ task'[t].op = task[t].op /\ task'[t].seen = task[t].seen
           /\ task'[t].open = ~commitFirst
           /\ \A u \in Tasks \ {t} : task'[u] = task[u]
<1>1. task[t] \in Running
  BY BusyType
<1>2. task' = [task EXCEPT ![t] = [task[t] EXCEPT !.pc = "scheduled", !.key = k,
                                                   !.open = ~commitFirst]]
  BY DEF Save, TypeOK
<1>3. QED
  BY <1>1, <1>2 DEF TypeOK, Running

-----------------------------------------------------------------------------
(* Committing a grant or an approval is what grants; no handler commits a  *)
(* status that only a job may write.                                       *)
LEMMA PublishGranted ==
    ASSUME NEW k, NEW o \in Operations, Publish(k, o)
    PROVE  /\ granted \subseteq granted'
           /\ status' \in {"REQUESTED", "PROVISIONING", "ACTIVE", "FAILED"} => id' \in granted'
BY DEF Publish, Writes, Operations

(* Nothing is provisioned that nobody granted.                             *)
THEOREM GrantedFirst == Spec => []GrantedBeforeUse
<1>1. Init => GrantedBeforeUse
  BY DEF Init, GrantedBeforeUse, Idle, Working
<1>2. TypeOK /\ GrantedBeforeUse /\ [Next]_vars => GrantedBeforeUse'
  <2> SUFFICES ASSUME TypeOK, GrantedBeforeUse, [Next]_vars PROVE GrantedBeforeUse'
    OBVIOUS
  <2>a. Idle.pc \notin Working /\ "checked" \notin Working /\ "scheduled" \notin Working
        /\ "ended" \notin Working
    BY DEF Idle, Working
  <2>b. \A o \in Operations : Writes[o] \notin {"PROVISIONING", "ACTIVE", "FAILED"}
    BY DEF Writes, Operations
  (* A step that grants nothing away and starts no new work.               *)
  <2>c. ASSUME granted \subseteq granted', accounts' = accounts,
               \A u \in Tasks : task'[u].pc \in Working =>
                  task[u].pc \in Working /\ task'[u].key = task[u].key,
               status' \in {"REQUESTED", "PROVISIONING", "ACTIVE", "FAILED"} => id' \in granted'
        PROVE  GrantedBeforeUse'
    BY <2>c DEF GrantedBeforeUse, Working
  <2>d. ASSUME NEW t \in Tasks, NEW k \in Nat, task[t].pc # "idle", task[t].op \in Operations,
               Save(t, k), accounts' = accounts
        PROVE  GrantedBeforeUse'
    <3>1. granted \subseteq granted' /\ (status' \in {"REQUESTED", "PROVISIONING", "ACTIVE", "FAILED"}
                                          => id' \in granted')
      BY <2>d, <2>b, PublishGranted DEF Save, row, GrantedBeforeUse
    <3>2. QED
      BY <2>a, <2>c, <2>d, <3>1, SaveEffect
  <2>e. ASSUME NEW t \in Tasks, Return(t), accounts' = accounts, UNCHANGED <<row, granted>>
        PROVE  GrantedBeforeUse'
    BY <2>a, <2>c, <2>e, ReturnEffect DEF row, GrantedBeforeUse
  <2>1. ASSUME NEW t \in Tasks, NEW o \in Operations, Check(t, o) PROVE GrantedBeforeUse'
    <3>1. \A u \in Tasks : task'[u] = IF u = t THEN [pc |-> "checked", op |-> o, key |-> id,
                                                    seen |-> status, open |-> FALSE]
                                              ELSE task[u]
      BY <2>1 DEF Check, TypeOK
    <3>2. QED
      BY <2>1, <2>a, <2>c, <3>1 DEF Check, row, GrantedBeforeUse
  <2>2. ASSUME NEW t \in Tasks, Grant(t) PROVE GrantedBeforeUse'
    BY <2>2, <2>d, <2>e DEF Grant, Handles, Abort, TypeOK, Operations, Writes
  <2>3. ASSUME NEW t \in Tasks, RequestAccess(t) PROVE GrantedBeforeUse'
    <3>1. CASE status = "absent"
      BY <2>3, <3>1, <2>a, <2>c, ReturnEffect, PublishGranted DEF RequestAccess, Writes, Publish
    <3>2. CASE status # "absent"
      BY <2>3, <3>2, <2>e DEF RequestAccess, Abort
    <3>3. QED
      BY <3>1, <3>2
  <2>4. ASSUME NEW t \in Tasks, Approve(t) PROVE GrantedBeforeUse'
    BY <2>4, <2>d, <2>e, BusyType DEF Approve, Handles, Abort, Running
  <2>5. ASSUME NEW t \in Tasks, Deny(t) PROVE GrantedBeforeUse'
    <3>1. CASE Present(task[t].key)
      BY <2>5, <3>1, <2>a, <2>c, ReturnEffect DEF Deny, Publish, Writes
    <3>2. CASE ~Present(task[t].key)
      BY <2>5, <3>2, <2>e DEF Deny
    <3>3. QED
      BY <3>1, <3>2
  <2>6. ASSUME NEW t \in Tasks, Revoke(t) PROVE GrantedBeforeUse'
    <3>0. task[t].pc # "idle"
      BY <2>6 DEF Revoke, Handles
    <3>1. CASE task[t].seen = "REVOKING"
      BY <2>6, <3>0, <3>1, <2>a, <2>c, GotoEffect DEF Revoke, row, GrantedBeforeUse
    <3>2. CASE task[t].seen # "REVOKING"
      BY <2>6, <3>0, <3>2, <2>d, <2>e, BusyType DEF Revoke, Abort, Running
    <3>3. QED
      BY <3>1, <3>2
  <2>7. ASSUME NEW t \in Tasks, Load(t) PROVE GrantedBeforeUse'
    <3>0. task[t].pc # "idle" /\ "deprovisioning" \notin Working /\ "deprovisioned" \notin Working
      BY <2>7 DEF Load, Working
    <3>1. CASE Present(task[t].key) /\ status = "REQUESTED" /\ Goto(t, "loaded")
      BY <2>7, <3>0, <3>1, GotoEffect DEF Load, Present, row, history, GrantedBeforeUse
    <3>2. CASE Return(t)
      BY <2>7, <3>2, <2>e DEF Load, history
    <3>3. CASE \E p \in {"deprovisioning", "deprovisioned", "ended"} : Goto(t, p)
      BY <2>7, <3>0, <3>3, <2>a, <2>c, GotoEffect DEF Load, row, history, GrantedBeforeUse
    <3>4. QED
      BY <2>7, <3>1, <3>2, <3>3 DEF Load
  <2>8. ASSUME NEW t \in Tasks, Begin(t) PROVE GrantedBeforeUse'
    <3>0. task[t].pc # "idle" /\ task[t].pc \in Working
      BY <2>8 DEF Begin, Working
    <3>1. CASE Present(task[t].key)
      BY <2>8, <3>0, <3>1, <2>c, GotoEffect DEF Begin, JobWrites, Present, history, GrantedBeforeUse
    <3>2. CASE ~Present(task[t].key)
      BY <2>8, <3>2, <2>e DEF Begin, JobWrites, row, history
    <3>3. QED
      BY <3>1, <3>2
  <2>9. ASSUME NEW t \in Tasks, Provision(t) PROVE GrantedBeforeUse'
    <3>0. task[t].pc # "idle" /\ task[t].pc \in Working
      BY <2>9 DEF Provision, Working
    <3>1. QED
      BY <2>9, <3>0, GotoEffect DEF Provision, row, history, GrantedBeforeUse
  <2>10. ASSUME NEW t \in Tasks, Deprovision(t) PROVE GrantedBeforeUse'
    <3>0. task[t].pc # "idle" /\ "deprovisioned" \notin Working
      BY <2>10 DEF Deprovision, Working
    <3>1. QED
      BY <2>10, <3>0, GotoEffect DEF Deprovision, row, history, GrantedBeforeUse
  <2>11. ASSUME NEW t \in Tasks, Finish(t) PROVE GrantedBeforeUse'
    <3>1. task[t].pc = "deprovisioned" \/ task[t].key \in granted
      BY <2>11 DEF Finish, Outcome, GrantedBeforeUse, Working
    <3>2. CASE Present(task[t].key)
      BY <2>11, <3>1, <3>2, <2>a, <2>c, ReturnEffect
         DEF Finish, JobWrites, Present, Outcome, history
    <3>3. CASE ~Present(task[t].key)
      BY <2>11, <3>3, <2>e DEF Finish, JobWrites, row, history
    <3>4. QED
      BY <3>2, <3>3
  <2>12. ASSUME NEW t \in Tasks, Commit(t) PROVE GrantedBeforeUse'
    <3>1. task[t].op \in Operations
      BY <2>12, BusyType DEF Commit, Running
    <3>2. QED
      BY <2>12, <3>1, <2>a, <2>b, <2>c, ReturnEffect, PublishGranted DEF Commit
  <2>13. CASE Restart
    BY <2>13, <2>a, <2>c DEF Restart, row, history, GrantedBeforeUse
  <2>14. CASE UNCHANGED vars
    BY <2>14 DEF vars, GrantedBeforeUse
  <2>15. QED
    BY <2>1, <2>2, <2>3, <2>4, <2>5, <2>6, <2>7, <2>8, <2>9, <2>10, <2>11, <2>12,
       <2>13, <2>14 DEF Next, Step, Handle, Job
<1>3. QED
  BY <1>1, <1>2, Typing, PTL DEF Spec

-----------------------------------------------------------------------------
(* In a build that commits first no transaction outlives its step, so no   *)
(* task waits to commit, and no job waits for a lock.                      *)
Closed == commitFirst => \A t \in Tasks : ~task[t].open /\ task[t].pc # "ended"

AbandonInv == Closed /\ NothingAbandoned

(* No request is forgotten: a task is at work on every row in progress.    *)
THEOREM NobodyForgotten == Spec => []NothingAbandoned
<1>1. Init => AbandonInv
  BY DEF Init, AbandonInv, Closed, NothingAbandoned, InHand, Idle, Duty
<1>2. TypeOK /\ AbandonInv /\ [Next]_vars => AbandonInv'
  <2> SUFFICES ASSUME TypeOK, AbandonInv, [Next]_vars, commitFirst
               PROVE  Closed' /\ (restarts' = 0 => InHand')
    BY BuildFixed DEF AbandonInv, Closed, NothingAbandoned
  <2> USE DEF Duty
  <2>a. Idle.pc = "idle" /\ ~Idle.open
    BY DEF Idle
  <2>b. \A t \in Tasks : ~task[t].open /\ task[t].pc # "ended"
    BY DEF AbandonInv, Closed
  <2>c. restarts = 0 => InHand
    BY DEF AbandonInv, NothingAbandoned
  (* One task moves and opens no transaction.                              *)
  <2>d. ASSUME NEW t \in Tasks, \A u \in Tasks \ {t} : task'[u] = task[u],
               ~task'[t].open, task'[t].pc # "ended"
        PROVE  Closed'
    BY <2>b, <2>d DEF Closed
  (* The row stays, and a task that has it in hand keeps it.               *)
  <2>e. ASSUME NEW t \in Tasks, \A u \in Tasks \ {t} : task'[u] = task[u],
               UNCHANGED row, restarts' = restarts,
               status \in DOMAIN Duty /\ task[t].key = id /\ task[t].pc \in Duty[status]
                  => task'[t].key = id /\ task'[t].pc \in Duty[status]
        PROVE  restarts' = 0 => InHand'
    BY <2>c, <2>e DEF InHand, row
  (* The row changes, and the task that changed it has it in hand.         *)
  <2>f. ASSUME NEW t \in Tasks,
               status' \in DOMAIN Duty => task'[t].key = id' /\ task'[t].pc \in Duty[status']
        PROVE  InHand'
    BY <2>f DEF InHand
  <2>g. ASSUME NEW t \in Tasks, task[t].pc = "checked", restarts' = restarts,
               Return(t), UNCHANGED row
        PROVE  Closed' /\ (restarts' = 0 => InHand')
    BY <2>a, <2>d, <2>e, <2>g, ReturnEffect
  <2>h. ASSUME NEW t \in Tasks, NEW k \in Nat, task[t].pc = "checked",
               task[t].op \in {"grant", "approve", "revoke"}, Save(t, k)
        PROVE  Closed' /\ (restarts' = 0 => InHand')
    <3>1. /\ task'[t].pc = "scheduled" /\ task'[t].key = k /\ ~task'[t].open
          /\ \A u \in Tasks \ {t} : task'[u] = task[u]
      BY <2>h, SaveEffect
    <3>2. id' = k /\ status' \in {"REQUESTED", "REVOKING"}
      BY <2>h DEF Save, Publish, Writes
    <3>3. QED
      BY <2>d, <2>f, <3>1, <3>2
  <2>1. ASSUME NEW t \in Tasks, NEW o \in Operations, Check(t, o)
        PROVE  Closed' /\ (restarts' = 0 => InHand')
    <3>1. /\ task'[t].pc = "checked" /\ ~task'[t].open
          /\ \A u \in Tasks \ {t} : task'[u] = task[u]
      BY <2>1 DEF Check, TypeOK
    <3>2. QED
      BY <2>1, <2>a, <2>d, <2>e, <3>1 DEF Check
  <2>2. ASSUME NEW t \in Tasks, Grant(t) PROVE Closed' /\ (restarts' = 0 => InHand')
    BY <2>2, <2>g, <2>h DEF Grant, Handles, Abort, TypeOK
  <2>3. ASSUME NEW t \in Tasks, RequestAccess(t)
        PROVE  Closed' /\ (restarts' = 0 => InHand')
    <3>1. CASE status = "absent"
      BY <2>3, <3>1, <2>a, <2>d, <2>f, ReturnEffect DEF RequestAccess, Publish, Writes
    <3>2. CASE status # "absent"
      BY <2>3, <3>2, <2>g DEF RequestAccess, Handles, Abort
    <3>3. QED
      BY <3>1, <3>2
  <2>4. ASSUME NEW t \in Tasks, Approve(t) PROVE Closed' /\ (restarts' = 0 => InHand')
    BY <2>4, <2>g, <2>h, BusyType DEF Approve, Handles, Abort, Running
  <2>5. ASSUME NEW t \in Tasks, Deny(t) PROVE Closed' /\ (restarts' = 0 => InHand')
    <3>1. CASE Present(task[t].key)
      BY <2>5, <3>1, <2>a, <2>d, <2>f, ReturnEffect DEF Deny, Publish, Writes
    <3>2. CASE ~Present(task[t].key)
      BY <2>5, <3>2, <2>g DEF Deny, Handles
    <3>3. QED
      BY <3>1, <3>2
  <2>6. ASSUME NEW t \in Tasks, Revoke(t) PROVE Closed' /\ (restarts' = 0 => InHand')
    <3>1. CASE task[t].seen = "REVOKING"
      BY <2>6, <3>1, <2>b, <2>d, <2>e, GotoEffect DEF Revoke, Handles
    <3>2. CASE task[t].seen # "REVOKING"
      BY <2>6, <3>2, <2>g, <2>h, BusyType DEF Revoke, Handles, Abort, Running
    <3>3. QED
      BY <3>1, <3>2
  <2>7. ASSUME NEW t \in Tasks, Load(t) PROVE Closed' /\ (restarts' = 0 => InHand')
    <3>0. task[t].pc = "scheduled" /\ ~task[t].open
      BY <2>7, <2>b DEF Load
    <3>1. CASE Present(task[t].key) /\ status = "REQUESTED" /\ Goto(t, "loaded")
      BY <2>7, <3>0, <3>1, <2>d, <2>e, GotoEffect DEF Load, Present
    <3>2. CASE /\ Present(task[t].key) /\ status = "REVOKING"
               /\ \E p \in {"deprovisioning", "deprovisioned"} : Goto(t, p)
      BY <2>7, <3>0, <3>2, <2>d, <2>e, GotoEffect DEF Load, Present
    <3>3. CASE /\ ~(Present(task[t].key) /\ status \in {"REQUESTED", "REVOKING"})
               /\ Return(t)
      BY <2>7, <3>0, <3>3, <2>a, <2>d, <2>e, ReturnEffect DEF Load, Present
    <3>4. QED
      BY <2>7, <3>0, <3>1, <3>2, <3>3 DEF Load
  <2>8. ASSUME NEW t \in Tasks, Begin(t) PROVE Closed' /\ (restarts' = 0 => InHand')
    <3>1. CASE Present(task[t].key)
      BY <2>8, <3>1, <2>b, <2>d, <2>f, GotoEffect DEF Begin, JobWrites, Present
    <3>2. CASE ~Present(task[t].key)
      BY <2>8, <3>2, <2>a, <2>d, <2>e, ReturnEffect DEF Begin, JobWrites, Present, row
    <3>3. QED
      BY <3>1, <3>2
  <2>9. ASSUME NEW t \in Tasks, Provision(t) PROVE Closed' /\ (restarts' = 0 => InHand')
    BY <2>9, <2>b, <2>d, <2>e, GotoEffect DEF Provision
  <2>10. ASSUME NEW t \in Tasks, Deprovision(t) PROVE Closed' /\ (restarts' = 0 => InHand')
    BY <2>10, <2>b, <2>d, <2>e, GotoEffect DEF Deprovision
  <2>11. ASSUME NEW t \in Tasks, Finish(t) PROVE Closed' /\ (restarts' = 0 => InHand')
    <3>1. CASE Present(task[t].key)
      BY <2>11, <3>1, <2>a, <2>d, <2>f, ReturnEffect DEF Finish, JobWrites, Outcome
    <3>2. CASE ~Present(task[t].key)
      BY <2>11, <3>2, <2>a, <2>d, <2>e, ReturnEffect DEF Finish, JobWrites, Present, row
    <3>3. QED
      BY <3>1, <3>2
  <2>12. ASSUME NEW t \in Tasks, Commit(t) PROVE FALSE
    BY <2>12, <2>b DEF Commit
  <2>13. CASE Restart
    <3>1. Closed'
      BY <2>13, <2>a DEF Restart, Closed
    <3>2. restarts' # 0
      BY <2>13 DEF Restart, TypeOK
    <3>3. QED
      BY <3>1, <3>2
  <2>14. CASE UNCHANGED vars
    <3>1. Closed'
      BY <2>14, <2>b DEF vars, Closed
    <3>2. (restarts' = 0) = (restarts = 0) /\ InHand' = InHand
      BY <2>14 DEF vars, InHand
    <3>3. QED
      BY <3>1, <3>2, <2>c
  <2>15. QED
    BY <2>1, <2>2, <2>3, <2>4, <2>5, <2>6, <2>7, <2>8, <2>9, <2>10, <2>11, <2>12,
       <2>13, <2>14 DEF Next, Step, Handle, Job
<1>3. QED
  BY <1>1, <1>2, Typing, PTL DEF Spec, AbandonInv

-----------------------------------------------------------------------------
(* Requests that never overlap.                                            *)

(* A task that moves is the only one that is not idle.                     *)
LEMMA OthersIdle ==
    ASSUME TypeOK, Alone, NEW t \in Tasks, task[t].pc # "idle"
    PROVE  \A u \in Tasks \ {t} : task[u] = Idle
BY DEF Alone, Idle

(* Idle tasks claim nothing, so after the step of the only busy task it is *)
(* enough to look at that task.                                            *)
LEMMA OnlyOneMoves ==
    ASSUME commitFirst' = commitFirst,
           NEW t \in Tasks, \A u \in Tasks \ {t} : task'[u] = Idle,
           AccountsTrue', NothingServed', RevokedForGood', CurrentView(t)', CurrentAccount(t)',
           (revoked \subseteq 0..id)', commitFirst => ~task'[t].open
    PROVE  SerialNow'
<1>1. Alone'
  BY DEF Alone
<1>2. \A u \in Tasks \ {t} : CurrentView(u)' /\ CurrentAccount(u)' /\ ~task'[u].open
  BY DEF CurrentView, CurrentAccount, Idle, PhaseStatus
<1>3. QED
  BY <1>1, <1>2 DEF SerialNow

(* The step of a task that gives up, or is done, and leaves the row alone. *)
LEMMA StepReturns ==
    ASSUME TypeOK, SerialNow, commitFirst' = commitFirst,
           NEW t \in Tasks, task[t].pc # "idle",
           Return(t), UNCHANGED <<row, accounts, revoked>>
    PROVE  SerialNow'
<1>1. task'[t] = Idle /\ \A u \in Tasks \ {t} : task'[u] = Idle
  BY OthersIdle, ReturnEffect DEF SerialNow
<1>2. AccountsTrue' /\ NothingServed' /\ RevokedForGood' /\ (revoked \subseteq 0..id)'
  BY DEF SerialNow, AccountsTrue, NothingServed, RevokedForGood, row
<1>3. CurrentView(t)' /\ CurrentAccount(t)'
  BY <1>1 DEF CurrentView, CurrentAccount, Idle, PhaseStatus
<1>4. QED
  BY <1>1, <1>2, <1>3, OnlyOneMoves DEF Idle

(* Flushing what the handler has just checked.                             *)
LEMMA StepSaves ==
    ASSUME TypeOK, SerialNow, commitFirst' = commitFirst,
           NEW t \in Tasks, NEW k \in Nat, task[t].pc = "checked",
           task[t].op \in {"grant", "approve", "revoke"}, Save(t, k),
           k = IF task[t].op = "grant" THEN id + 1 ELSE id,
           task[t].op = "revoke" => task[t].seen # "REVOKING",
           revoked' = IF task[t].op = "revoke" THEN revoked \cup {k} ELSE revoked,
           UNCHANGED accounts
    PROVE  SerialNow'
<1>1. /\ task'[t].pc = "scheduled" /\ task'[t].key = k /\ task'[t].open = ~commitFirst
      /\ task'[t].op = task[t].op /\ task'[t].seen = task[t].seen
      /\ \A u \in Tasks \ {t} : task'[u] = Idle
  BY SaveEffect, OthersIdle DEF SerialNow
<1>2. /\ status = task[t].seen /\ status \in Admits[task[t].op] /\ task[t].key = id
      /\ AccountsTrue /\ NothingServed /\ RevokedForGood /\ revoked \subseteq 0..id /\ id \in Nat
  BY DEF SerialNow, CurrentView, TypeOK
<1>3. /\ task[t].op = "grant" => status = "absent"
      /\ task[t].op = "approve" => status = "PENDING_APPROVAL"
      /\ task[t].op = "revoke" => status # "absent"
  BY <1>2 DEF Admits, Statuses
<1>4. CASE commitFirst
  <2>1. id' = k /\ status' = Writes[task[t].op]
    BY <1>4 DEF Save, Publish
  <2>2. AccountsTrue' /\ NothingServed' /\ (revoked \subseteq 0..id)'
    <3>1. status' = "REQUESTED" => accounts' = 0
      BY <1>2, <1>3, <2>1 DEF AccountsTrue, NothingServed, Writes
    <3>2. status' \in {"REQUESTED", "REVOKING"} /\ accounts' <= 1
      BY <1>2, <2>1 DEF AccountsTrue, NothingServed, Writes
    <3>3. (revoked \subseteq 0..id)'
      <4>1. id' = k /\ id <= k /\ revoked' \subseteq revoked \cup {k}
        BY <1>2, <2>1
      <4>2. 0..id \subseteq 0..k /\ k \in 0..k
        BY <1>2, <4>1
      <4>3. revoked \subseteq 0..id
        BY <1>2
      <4>4. QED
        BY <4>1, <4>2, <4>3, Zenon
    <3>4. NothingServed'
      BY <1>4 DEF NothingServed
    <3>5. QED
      BY <3>1, <3>2, <3>3, <3>4 DEF AccountsTrue
  <2>3. RevokedForGood'
    <3>1. CASE task[t].op = "grant"
      <4>1. id' \notin revoked'
        BY <1>2, <2>1, <3>1
      <4>2. QED
        BY <4>1 DEF RevokedForGood
    <3>2. CASE task[t].op = "approve"
      <4>1. id' = id /\ revoked' = revoked /\ status = "PENDING_APPROVAL"
        BY <1>3, <2>1, <3>2
      <4>2. QED
        BY <1>2, <4>1 DEF RevokedForGood
    <3>3. CASE task[t].op = "revoke"
      BY <2>1, <3>3 DEF RevokedForGood, Writes
    <3>4. QED
      BY <3>1, <3>2, <3>3
  <2>4. CurrentView(t)' /\ CurrentAccount(t)'
    <3>1. task'[t].pc = "scheduled" /\ ~task'[t].open /\ task'[t].key = id'
      BY <1>1, <1>4, <2>1
    <3>2. status' \in {"REQUESTED", "REVOKING"}
      BY <2>1 DEF Writes
    <3>3. QED
      BY <1>4, <3>1, <3>2 DEF CurrentView, CurrentAccount, PhaseStatus
  <2>5. QED
    BY <1>1, <1>4, <2>2, <2>3, <2>4, OnlyOneMoves
<1>5. CASE ~commitFirst
  <2>1. UNCHANGED row
    BY <1>5 DEF Save
  <2>2. AccountsTrue' /\ NothingServed' /\ RevokedForGood' /\ (revoked \subseteq 0..id)'
    <3>1. id' = id /\ status' = status /\ accounts' = accounts
      BY <2>1 DEF row
    <3>2. AccountsTrue' /\ NothingServed'
      BY <1>2, <3>1 DEF AccountsTrue, NothingServed
    <3>3. RevokedForGood'
      BY <1>5 DEF RevokedForGood
    <3>4. (revoked \subseteq 0..id)'
      BY <1>1, <1>2, <3>1
    <3>5. QED
      BY <3>2, <3>3, <3>4
  <2>3. CurrentView(t)' /\ CurrentAccount(t)'
    <3>1. id' = id /\ status' = status
      BY <2>1 DEF row
    <3>2. task'[t].open
      BY <1>1, <1>5
    <3>3. /\ task'[t].key = IF task'[t].op = "grant" THEN id' + 1 ELSE id'
          /\ task'[t].op \in {"grant", "approve", "revoke"}
          /\ task'[t].seen # "REVOKING"
          /\ status' = task'[t].seen /\ status' \in Admits[task'[t].op]
      BY <1>1, <1>2, <1>3, <3>1
    <3>4. QED
      BY <1>1, <3>2, <3>3 DEF CurrentView, CurrentAccount, PhaseStatus
  <2>4. QED
    BY <1>1, <1>5, <2>2, <2>3, OnlyOneMoves
<1>6. QED
  BY <1>4, <1>5

(* An action of the only task at work keeps the strengthening: first the   *)
(* handlers, then the job.                                                 *)
LEMMA SerialHandlers ==
    ASSUME TypeOK, SerialNow, commitFirst' = commitFirst,
           NEW t \in Tasks, Handle(t)
    PROVE  SerialNow'
<1>a. task[t].pc = "checked"
  BY DEF Handle, Grant, RequestAccess, Approve, Deny, Revoke, Handles
<1>b. \A u \in Tasks \ {t} : task[u] = Idle
  BY <1>a, OthersIdle DEF SerialNow
<1>c. /\ status = task[t].seen /\ status \in Admits[task[t].op] /\ task[t].key = id
      /\ AccountsTrue /\ NothingServed /\ RevokedForGood /\ revoked \subseteq 0..id /\ id \in Nat
      /\ ~task[t].open
  BY <1>a DEF SerialNow, CurrentView, TypeOK
<1>1. CASE Grant(t)
  <2>1. task[t].op = "grant" /\ status = "absent"
    BY <1>1, <1>c DEF Grant, Handles, Admits
  <2>2. Save(t, id + 1) /\ UNCHANGED <<accounts, revoked>>
    BY <1>1, <2>1 DEF Grant
  <2>3. QED
    BY <1>a, <1>c, <2>1, <2>2, StepSaves
<1>2. CASE RequestAccess(t)
  <2>1. status = "absent"
    BY <1>2, <1>c DEF RequestAccess, Handles, Admits
  <2>2. /\ id' = id + 1 /\ status' = "PENDING_APPROVAL" /\ Return(t)
        /\ accounts' = accounts /\ revoked' = revoked
    BY <1>2, <2>1 DEF RequestAccess, Publish, Writes
  <2>3. task'[t] = Idle /\ \A u \in Tasks \ {t} : task'[u] = Idle
    BY <1>b, <2>2, ReturnEffect
  <2>4. accounts' = 0
    BY <1>c, <2>1, <2>2 DEF AccountsTrue, NothingServed
  <2>5. AccountsTrue' /\ NothingServed'
    BY <2>2, <2>4 DEF AccountsTrue, NothingServed
  <2>6. (revoked \subseteq 0..id)' /\ id' \notin revoked'
    BY <1>c, <2>2
  <2>7. RevokedForGood'
    BY <2>6 DEF RevokedForGood
  <2>8. CurrentView(t)' /\ CurrentAccount(t)'
    BY <2>3 DEF CurrentView, CurrentAccount, Idle, PhaseStatus
  <2>9. QED
    BY <2>3, <2>5, <2>6, <2>7, <2>8, OnlyOneMoves DEF Idle
<1>3. CASE Approve(t)
  <2>1. task[t].op = "approve" /\ status = "PENDING_APPROVAL"
    BY <1>3, <1>c DEF Approve, Handles, Admits
  <2>2. Save(t, id) /\ UNCHANGED <<accounts, revoked>>
    BY <1>3, <1>c, <2>1 DEF Approve, Present
  <2>3. QED
    BY <1>a, <1>c, <2>1, <2>2, StepSaves
<1>4. CASE Deny(t)
  <2>1. status = "PENDING_APPROVAL"
    BY <1>4, <1>c DEF Deny, Handles, Admits
  <2>2. /\ id' = id /\ status' = "absent" /\ Return(t)
        /\ accounts' = accounts /\ revoked' = revoked
    BY <1>4, <1>c, <2>1 DEF Deny, Publish, Writes, Present
  <2>3. task'[t] = Idle /\ \A u \in Tasks \ {t} : task'[u] = Idle
    BY <1>b, <2>2, ReturnEffect
  <2>4. accounts' = 0
    BY <1>c, <2>1, <2>2 DEF AccountsTrue, NothingServed
  <2>5. AccountsTrue' /\ NothingServed'
    BY <2>2, <2>4 DEF AccountsTrue, NothingServed
  <2>6. ~(commitFirst /\ id \in revoked)
    BY <1>c, <2>1 DEF RevokedForGood
  <2>7. RevokedForGood' /\ (revoked \subseteq 0..id)'
    BY <1>c, <2>2, <2>6 DEF RevokedForGood
  <2>8. CurrentView(t)' /\ CurrentAccount(t)'
    BY <2>3 DEF CurrentView, CurrentAccount, Idle, PhaseStatus
  <2>9. QED
    BY <2>3, <2>5, <2>7, <2>8, OnlyOneMoves DEF Idle
<1>5. CASE Revoke(t)
  <2>1. task[t].op = "revoke" /\ status # "absent"
    BY <1>5, <1>c DEF Revoke, Handles, Admits, Statuses
  <2>2. CASE task[t].seen = "REVOKING"
    <3>1. /\ Goto(t, "scheduled") /\ revoked' = revoked \cup {id}
          /\ UNCHANGED <<id, status, accounts>>
      BY <1>5, <1>c, <2>2 DEF Revoke, row
    <3>2. /\ task'[t].pc = "scheduled" /\ task'[t].key = id' /\ ~task'[t].open
          /\ \A u \in Tasks \ {t} : task'[u] = Idle
      <4>1. /\ task'[t].pc = "scheduled" /\ task'[t].key = task[t].key
            /\ task'[t].open = task[t].open
            /\ \A u \in Tasks \ {t} : task'[u] = task[u]
        BY <1>a, <3>1, GotoEffect
      <4>2. ~task'[t].open
        BY <1>c, <4>1, Zenon
      <4>3. QED
        BY <1>b, <1>c, <3>1, <4>1, <4>2
    <3>a. status' = "REVOKING" /\ id' = id /\ accounts' = accounts
      BY <1>c, <2>2, <3>1
    <3>b. (revoked \subseteq 0..id)' /\ accounts' <= 1
      <4>1. id \in 0..id
        BY <1>c
      <4>2. revoked' \subseteq 0..id'
        BY <1>c, <3>1, <3>a, <4>1
      <4>3. QED
        BY <1>c, <3>a, <4>2 DEF AccountsTrue, NothingServed
    <3>3. AccountsTrue' /\ NothingServed' /\ RevokedForGood'
      <4>1. NothingServed'
        BY <1>c, <3>a DEF NothingServed
      <4>2. QED
        BY <3>a, <3>b, <4>1 DEF AccountsTrue, RevokedForGood
    <3>4. CurrentView(t)' /\ CurrentAccount(t)'
      BY <3>a, <3>2 DEF CurrentView, CurrentAccount, PhaseStatus
    <3>5. QED
      BY <3>2, <3>b, <3>3, <3>4, OnlyOneMoves
  <2>3. CASE task[t].seen # "REVOKING"
    <3>1. /\ Save(t, id) /\ revoked' = revoked \cup {id} /\ accounts' = accounts
      BY <1>5, <1>c, <2>1, <2>3 DEF Revoke, Present
    <3>2. QED
      BY <1>a, <1>c, <2>1, <2>3, <3>1, StepSaves
  <2>4. QED
    BY <2>2, <2>3
<1>6. QED
  BY <1>1, <1>2, <1>3, <1>4, <1>5 DEF Handle

(* A step of the job that leaves the row as it is.                         *)
LEMMA StepGoes ==
    ASSUME TypeOK, SerialNow, commitFirst' = commitFirst,
           NEW t \in Tasks, task[t].pc # "idle", NEW p, Goto(t, p),
           UNCHANGED <<id, revoked>>, AccountsTrue', NothingServed', RevokedForGood',
           CurrentAccount(t)', p = "loaded" /\ ~commitFirst => task[t].open,
           task[t].open => p \in {"loaded", "ended"} /\ status' = status,
           ~task[t].open => p \in DOMAIN PhaseStatus,
           p # "ended" => p \in DOMAIN PhaseStatus /\ status' = PhaseStatus[p],
           p # "ended" => task[t].key = id
    PROVE  SerialNow'
<1>1. /\ task'[t].pc = p /\ task'[t].key = task[t].key
      /\ task'[t].op = task[t].op /\ task'[t].seen = task[t].seen
      /\ task'[t].open = task[t].open
  BY GotoEffect
<1>2. \A u \in Tasks \ {t} : task'[u] = Idle
  BY OthersIdle, GotoEffect DEF SerialNow
<1>3. CASE task[t].open
  <2>1. task'[t].open
    BY <1>1, <1>3, Zenon
  <2>2. /\ task[t].op \in {"grant", "approve", "revoke"} /\ task[t].seen # "REVOKING"
        /\ task[t].key = IF task[t].op = "grant" THEN id + 1 ELSE id
        /\ status = task[t].seen /\ status \in Admits[task[t].op]
    BY <1>3 DEF SerialNow, CurrentView
  <2>3. CurrentView(t)'
    BY <1>1, <1>3, <2>1, <2>2 DEF CurrentView, PhaseStatus
  <2>4. commitFirst => ~task'[t].open
    BY <1>3 DEF SerialNow
  <2>5. QED
    BY <1>2, <2>3, <2>4, OnlyOneMoves DEF SerialNow
<1>4. CASE ~task[t].open
  <2>1. ~task'[t].open
    BY <1>1, <1>4, Zenon
  <2>2. CurrentView(t)'
    BY <1>1, <1>4, <2>1 DEF CurrentView, PhaseStatus
  <2>3. QED
    BY <1>2, <2>1, <2>2, OnlyOneMoves DEF SerialNow
<1>5. QED
  BY <1>3, <1>4

(* The last step of a request: its task is idle, the row has changed.      *)
LEMMA StepPublishes ==
    ASSUME TypeOK, SerialNow, commitFirst' = commitFirst,
           NEW t \in Tasks, task[t].pc # "idle", Return(t),
           AccountsTrue', NothingServed', RevokedForGood', (revoked \subseteq 0..id)'
    PROVE  SerialNow'
<1>1. task'[t] = Idle /\ \A u \in Tasks \ {t} : task'[u] = Idle
  BY OthersIdle, ReturnEffect DEF SerialNow
<1>2. CurrentView(t)' /\ CurrentAccount(t)'
  BY <1>1 DEF CurrentView, CurrentAccount, Idle, PhaseStatus
<1>3. QED
  BY <1>1, <1>2, OnlyOneMoves DEF Idle

LEMMA SerialJob ==
    ASSUME TypeOK, SerialNow, commitFirst' = commitFirst,
           NEW t \in Tasks, Job(t) \/ Commit(t)
    PROVE  SerialNow'
<1> USE DEF PhaseStatus
<1>a. task[t].pc # "idle"
  BY DEF Job, Load, Begin, Provision, Deprovision, Finish, Commit, Outcome
<1>b. /\ AccountsTrue /\ NothingServed /\ RevokedForGood /\ revoked \subseteq 0..id /\ id \in Nat
      /\ CurrentView(t) /\ CurrentAccount(t) /\ accounts \in Nat
  BY DEF SerialNow, TypeOK
<1>1. CASE Load(t)
  <2>1. task[t].pc = "scheduled" /\ UNCHANGED <<id, status, accounts, revoked>>
    BY <1>1 DEF Load, row, history
  <2>2. AccountsTrue' /\ NothingServed' /\ RevokedForGood'
    BY <1>b, <2>1 DEF AccountsTrue, NothingServed, RevokedForGood
  <2>3. CASE Present(task[t].key) /\ status = "REQUESTED" /\ Goto(t, "loaded")
    <3>1. task[t].key = id
      BY <2>3 DEF Present
    <3>2. CurrentAccount(t)'
      BY <2>1, <2>3, GotoEffect DEF CurrentAccount
    <3>3. ~commitFirst => task[t].open
      BY <1>b, <2>1, <2>3 DEF CurrentView
    <3>4. QED
      BY <1>a, <2>1, <2>2, <2>3, <3>1, <3>2, <3>3, StepGoes
  <2>4. CASE /\ Present(task[t].key) /\ status = "REVOKING"
             /\ Goto(t, IF CanRevoke THEN "deprovisioning" ELSE "deprovisioned")
    <3>1. task[t].key = id
      BY <2>4 DEF Present
    <3>2. CurrentAccount(t)'
      BY <2>1, <2>4, GotoEffect DEF CurrentAccount
    <3>3. ~task[t].open
      BY <1>b, <2>4 DEF CurrentView
    <3>4. QED
      BY <1>a, <2>1, <2>2, <2>4, <3>1, <3>2, <3>3, StepGoes
  <2>5. CASE /\ ~(Present(task[t].key) /\ status \in {"REQUESTED", "REVOKING"})
             /\ IF task[t].open THEN Goto(t, "ended") ELSE Return(t)
    <3>1. CASE task[t].open
      <4>1. Goto(t, "ended")
        BY <2>5, <3>1
      <4>2. CurrentAccount(t)'
        BY <2>1, <4>1, GotoEffect DEF CurrentAccount
      <4>3. QED
        BY <1>a, <2>1, <2>2, <3>1, <4>1, <4>2, StepGoes
    <3>2. CASE ~task[t].open
      BY <1>a, <2>1, <2>5, <3>2, StepReturns DEF row
    <3>3. QED
      BY <3>1, <3>2
  <2>6. QED
    BY <1>1, <2>3, <2>4, <2>5 DEF Load
<1>2. CASE Begin(t)
  <2>0. commitFirst
    BY <1>2, <1>b DEF Begin, JobWrites, CurrentView
  <2>1. /\ status = "REQUESTED" /\ task[t].key = id /\ ~task[t].open
        /\ UNCHANGED <<id, accounts, revoked>>
    BY <1>2, <1>b DEF Begin, JobWrites, CurrentView, history
  <2>2. /\ status' = "PROVISIONING"
        /\ Goto(t, IF CanProvision THEN "provisioning" ELSE "provisioned")
    BY <1>2, <2>1 DEF Begin, JobWrites, Present
  <2>3. accounts' = 0
    BY <1>b, <2>1 DEF AccountsTrue, NothingServed
  <2>4. AccountsTrue' /\ NothingServed'
    BY <2>0, <2>2, <2>3 DEF AccountsTrue, NothingServed
  <2>5. RevokedForGood'
    BY <1>b, <2>1 DEF RevokedForGood
  <2>6. CurrentAccount(t)'
    BY <1>a, <2>0, <2>2, <2>3, GotoEffect DEF CurrentAccount
  <2>7. QED
    BY <1>a, <2>0, <2>1, <2>2, <2>4, <2>5, <2>6, StepGoes
<1>3. CASE Provision(t)
  <2>1. /\ task[t].pc = "provisioning" /\ status = "PROVISIONING" /\ task[t].key = id
        /\ ~task[t].open /\ accounts = 0 /\ UNCHANGED <<id, status, revoked>>
    BY <1>3, <1>b DEF Provision, CurrentView, CurrentAccount, row, history
  <2>2. RevokedForGood'
    BY <1>b, <2>1 DEF RevokedForGood
  <2>a. commitFirst
    BY <1>b, <2>1 DEF CurrentAccount
  <2>3. CASE Goto(t, "provisioned") /\ accounts' = accounts + 1
    <3>1. AccountsTrue' /\ NothingServed' /\ CurrentAccount(t)'
      BY <1>a, <2>1, <2>a, <2>3, GotoEffect DEF AccountsTrue, NothingServed, CurrentAccount
    <3>2. QED
      BY <1>a, <2>1, <2>2, <2>3, <3>1, StepGoes
  <2>4. CASE Goto(t, "refused") /\ UNCHANGED accounts
    <3>1. AccountsTrue' /\ NothingServed' /\ CurrentAccount(t)'
      BY <1>a, <2>1, <2>a, <2>4, GotoEffect DEF AccountsTrue, NothingServed, CurrentAccount
    <3>2. QED
      BY <1>a, <2>1, <2>2, <2>4, <3>1, StepGoes
  <2>5. QED
    BY <1>3, <2>3, <2>4 DEF Provision
<1>4. CASE Deprovision(t)
  <2>1. /\ status = "REVOKING" /\ task[t].key = id /\ ~task[t].open
        /\ Goto(t, "deprovisioned") /\ UNCHANGED <<id, status, revoked>>
        /\ accounts' = 0 \/ ("revoke" \in MayFail /\ accounts' = accounts)
    BY <1>4, <1>b DEF Deprovision, CurrentView, row, history
  <2>2. AccountsTrue' /\ NothingServed' /\ CurrentAccount(t)'
    BY <1>a, <1>b, <2>1, GotoEffect DEF AccountsTrue, NothingServed, CurrentAccount
  <2>3. RevokedForGood'
    BY <2>1 DEF RevokedForGood
  <2>4. QED
    BY <1>a, <2>1, <2>2, <2>3, StepGoes
<1>5. CASE Finish(t)
  <2>1. /\ task[t].pc \in {"provisioned", "refused", "deprovisioned"}
        /\ status = PhaseStatus[task[t].pc] /\ task[t].key = id
        /\ Return(t) /\ UNCHANGED <<id, accounts, revoked>>
    BY <1>5, <1>b DEF Finish, JobWrites, Outcome, CurrentView, history
  <2>2. status' = Outcome[task[t].pc]
    BY <1>5, <2>1 DEF Finish, JobWrites, Present
  <2>3. AccountsTrue' /\ NothingServed'
    BY <1>b, <2>1, <2>2 DEF AccountsTrue, NothingServed, CurrentAccount, Outcome
  <2>4. RevokedForGood'
    BY <1>b, <2>1, <2>2 DEF RevokedForGood, Outcome
  <2>5. QED
    BY <1>a, <1>b, <2>1, <2>3, <2>4, StepPublishes
<1>6. CASE Commit(t)
  <2>1. /\ task[t].open /\ status \in Admits[task[t].op]
        /\ task[t].op \in {"grant", "approve", "revoke"}
        /\ task[t].key = IF task[t].op = "grant" THEN id + 1 ELSE id
    BY <1>6, <1>b DEF Commit, CurrentView
  <2>2. ~commitFirst
    BY <2>1 DEF SerialNow
  <2>3. /\ id' = task[t].key /\ status' = Writes[task[t].op]
        /\ Return(t) /\ UNCHANGED <<accounts, revoked>>
    BY <1>6 DEF Commit, Publish
  <2>4. /\ task[t].op = "grant" => status = "absent"
        /\ task[t].op = "approve" => status = "PENDING_APPROVAL"
    BY <2>1 DEF Admits
  <2>5. AccountsTrue' /\ NothingServed'
    <3>1. status' = "REQUESTED" => accounts' = 0
      BY <1>b, <2>1, <2>3, <2>4 DEF AccountsTrue, NothingServed, Writes
    <3>2. status' \in {"REQUESTED", "REVOKING"} /\ accounts' <= 1
      BY <1>b, <2>1, <2>3 DEF AccountsTrue, NothingServed, Writes
    <3>3. NothingServed'
      BY <1>b, <2>1, <2>3 DEF NothingServed, Writes
    <3>4. QED
      BY <3>1, <3>2, <3>3 DEF AccountsTrue
  <2>6. RevokedForGood' /\ (revoked \subseteq 0..id)'
    <3>1. RevokedForGood'
      BY <2>2 DEF RevokedForGood
    <3>2. (revoked \subseteq 0..id)'
      BY <1>b, <2>1, <2>3
    <3>3. QED
      BY <3>1, <3>2
  <2>7. QED
    BY <1>a, <2>3, <2>5, <2>6, StepPublishes
<1>7. QED
  BY <1>1, <1>2, <1>3, <1>4, <1>5, <1>6 DEF Job

(* The strengthening is inductive: SerialInv of ToolAccess holds of every  *)
(* state, in either build, whatever the connector can do and however often *)
(* the process is restarted.                                               *)
THEOREM Serial == Spec => []SerialInv
<1>1. Init => SerialInv
  <2> SUFFICES ASSUME Init PROVE SerialNow
    BY DEF SerialInv
  <2>1. /\ id = 0 /\ status = "absent" /\ accounts = 0 /\ revoked = {}
        /\ \A t \in Tasks : task[t] = Idle
    BY DEF Init
  <2>2. AccountsTrue /\ NothingServed /\ RevokedForGood /\ Alone /\ revoked \subseteq 0..id
    BY <2>1 DEF AccountsTrue, NothingServed, RevokedForGood, Alone
  <2>3. \A t \in Tasks : CurrentView(t) /\ CurrentAccount(t) /\ ~task[t].open
    BY <2>1 DEF CurrentView, CurrentAccount, Idle, PhaseStatus
  <2>4. QED
    BY <2>2, <2>3 DEF SerialNow
<1>2. TypeOK /\ SerialInv /\ [Next]_vars => SerialInv'
  <2> SUFFICES ASSUME TypeOK, SerialInv, [Next]_vars, ~overlapped'
               PROVE  SerialNow'
    BY DEF SerialInv
  <2>a. commitFirst' = commitFirst
    BY BuildFixed
  <2> USE <2>a
  <2>1. ASSUME NEW t \in Tasks, NEW o \in Operations, Check(t, o)
        PROVE  SerialNow'
    <3>1. /\ ~overlapped /\ \A u \in Tasks \ {t} : task[u] = Idle
      BY <2>1 DEF Check
    <3>2. SerialNow
      BY <3>1 DEF SerialInv
    <3>3. /\ task'[t] = [pc |-> "checked", op |-> o, key |-> id,
                         seen |-> status, open |-> FALSE]
          /\ \A u \in Tasks \ {t} : task'[u] = Idle
          /\ UNCHANGED <<id, status, accounts, revoked>> /\ status \in Admits[o]
      BY <2>1, <3>1 DEF Check, row, TypeOK
    <3>4. AccountsTrue' /\ NothingServed' /\ RevokedForGood' /\ (revoked \subseteq 0..id)'
      BY <3>2, <3>3 DEF SerialNow, AccountsTrue, NothingServed, RevokedForGood
    <3>5. CurrentView(t)' /\ CurrentAccount(t)'
      BY <3>3 DEF CurrentView, CurrentAccount, PhaseStatus
    <3>6. QED
      BY <3>3, <3>4, <3>5, OnlyOneMoves
  <2>2. ASSUME NEW t \in Tasks, Step(t) PROVE SerialNow'
    <3>1. overlapped' = overlapped
      BY <2>2 DEF Step, Handle, Job, Grant, RequestAccess, Approve, Deny, Revoke, Load,
         Begin, Provision, Deprovision, Finish, Commit, JobWrites, history
    <3>2. SerialNow
      BY <3>1, Zenon DEF SerialInv
    <3>3. QED
      BY <2>2, <3>2, SerialHandlers, SerialJob DEF Step
  <2>3. CASE Restart
    <3>1. /\ UNCHANGED <<id, status, accounts, revoked, overlapped>>
          /\ \A t \in Tasks : task'[t] = Idle
      BY <2>3 DEF Restart, row, history
    <3>2. SerialNow
      BY <3>1, Zenon DEF SerialInv
    <3>3. AccountsTrue' /\ NothingServed' /\ RevokedForGood' /\ Alone' /\ (revoked \subseteq 0..id)'
      BY <3>1, <3>2 DEF SerialNow, AccountsTrue, NothingServed, RevokedForGood, Alone
    <3>4. \A t \in Tasks : (CurrentView(t) /\ CurrentAccount(t) /\ ~task[t].open)'
      BY <3>1 DEF CurrentView, CurrentAccount, Idle, PhaseStatus
    <3>5. QED
      BY <3>3, <3>4 DEF SerialNow
  <2>4. CASE UNCHANGED vars
    <3>1. /\ UNCHANGED <<id, status, accounts, revoked, task>> /\ overlapped' = overlapped
      BY <2>4 DEF vars
    <3>2. SerialNow
      BY <3>1, Zenon DEF SerialInv
    <3>3. QED
      BY <3>1, <3>2 DEF SerialNow, AccountsTrue, NothingServed, RevokedForGood, Alone, CurrentView,
         CurrentAccount
  <2>5. QED
    BY <2>1, <2>2, <2>3, <2>4 DEF Next
<1>3. QED
  BY <1>1, <1>2, Typing, PTL DEF Spec

(* Requests that never overlap leave a row that tells the truth about the  *)
(* account, through every restart, for every connector and either build.   *)
THEOREM SerialAccounts == Spec => []AccountsMatchRow
<1>1. SerialInv => AccountsMatchRow
  BY DEF SerialInv, SerialNow, AccountsMatchRow
<1>2. QED
  BY <1>1, Serial, PTL

(* Requests that never overlap, in a build that commits first: what was    *)
(* revoked stays revoked.                                                  *)
THEOREM SerialRevocation == Spec => []RevocationHolds
<1>1. SerialInv => RevocationHolds
  BY DEF SerialInv, SerialNow, RevocationHolds
<1>2. QED
  BY <1>1, Serial, PTL

(* Requests that never overlap: a build that commits a request after its   *)
(* job never provisions anything, whatever is granted or approved.         *)
THEOREM SerialService == Spec => []NeverServed
<1>1. SerialInv => NeverServed
  BY DEF SerialInv, SerialNow, NeverServed
<1>2. QED
  BY <1>1, Serial, PTL

-----------------------------------------------------------------------------
(* Refinement of AccessLifecycle.  First, what holds of requests that      *)
(* overlap, too.                                                           *)

(* A step of one task, which leaves the row alone unless nobody else has   *)
(* a write that is not committed.                                          *)
LEMMA WriteKept ==
    ASSUME TypeOK, WriteInv, NEW t \in Tasks,
           \A u \in Tasks \ {t} : task'[u] = task[u],
           Flushed(t)', Capable(t)',
           UNCHANGED row \/ \A u \in Tasks \ {t} : ~task[u].open,
           task'[t].open => \A u \in Tasks \ {t} : ~task[u].open
    PROVE  WriteInv'
<1>1. OneWriter'
  BY DEF WriteInv, OneWriter
<1>2. ASSUME NEW u \in Tasks \ {t} PROVE Flushed(u)' /\ Capable(u)'
  <2>1. task'[u] = task[u] /\ Flushed(u) /\ Capable(u)
    BY DEF WriteInv
  <2>2. CASE UNCHANGED row
    BY <2>1, <2>2 DEF Flushed, Capable, Present, row
  <2>3. CASE ~task[u].open
    BY <2>1, <2>3 DEF Flushed, Capable
  <2> QED
    BY <2>2, <2>3
<1> QED
  BY <1>1, <1>2 DEF WriteInv

(* A task that is done has written what it had to write.                   *)
LEMMA WriteReturned ==
    ASSUME TypeOK, WriteInv, NEW t \in Tasks, Return(t),
           UNCHANGED row \/ \A u \in Tasks \ {t} : ~task[u].open
    PROVE  WriteInv'
<1>1. task'[t] = Idle /\ \A u \in Tasks \ {t} : task'[u] = task[u]
  BY ReturnEffect
<1>2. Flushed(t)' /\ Capable(t)' /\ ~task'[t].open
  BY <1>1 DEF Flushed, Capable, Idle
<1> QED
  BY <1>1, <1>2, WriteKept

(* A handler that flushes waits for all others, and finds the row it means.*)
LEMMA WriteSaved ==
    ASSUME TypeOK, WriteInv, NEW t \in Tasks, NEW k \in Nat, task[t].pc = "checked",
           task[t].op \in {"grant", "approve", "revoke"}, Save(t, k), Unlocked(t),
           IF task[t].op = "grant" THEN k = id + 1 /\ status = "absent" ELSE Present(k)
    PROVE  WriteInv'
<1>1. /\ task'[t].pc = "scheduled" /\ task'[t].key = k /\ task'[t].op = task[t].op
      /\ task'[t].open = ~commitFirst
      /\ \A u \in Tasks \ {t} : task'[u] = task[u]
  BY SaveEffect
<1>2. Capable(t)'
  BY <1>1 DEF Capable
<1>3. CASE commitFirst
  <2>1. Flushed(t)'
    BY <1>1, <1>3 DEF Flushed
  <2> QED
    BY <1>1, <1>2, <2>1, WriteKept DEF Unlocked
<1>4. CASE ~commitFirst
  <2>1. UNCHANGED row
    BY <1>4 DEF Save
  <2>2. Flushed(t)'
    BY <1>1, <2>1 DEF Flushed, Present, row
  <2> QED
    BY <1>1, <1>2, <2>1, <2>2, WriteKept DEF Unlocked
<1> QED
  BY <1>3, <1>4

(* A job goes on, and leaves the row alone or finds nobody else's write.   *)
LEMMA WriteGoes ==
    ASSUME TypeOK, WriteInv, NEW t \in Tasks, NEW p, task[t].pc # "idle", Goto(t, p),
           UNCHANGED row \/ \A u \in Tasks : ~task[u].open,
           p # "checked", p = "ended" => task[t].open,
           p = "provisioning" => CanProvision, p = "refused" => "provision" \in MayFail,
           p = "deprovisioning" => CanRevoke
    PROVE  WriteInv'
<1>1. /\ task'[t].pc = p /\ task'[t].key = task[t].key /\ task'[t].op = task[t].op
      /\ task'[t].open = task[t].open
      /\ \A u \in Tasks \ {t} : task'[u] = task[u]
  BY GotoEffect
<1>2. Flushed(t) /\ (task[t].open => \A u \in Tasks \ {t} : ~task[u].open)
  BY DEF WriteInv, OneWriter
<1>3. Flushed(t)' /\ Capable(t)'
  <2>1. CASE UNCHANGED row
    BY <1>1, <1>2, <2>1 DEF Flushed, Capable, Present, row
  <2>2. CASE ~task[t].open
    BY <1>1, <2>2 DEF Flushed, Capable
  <2> QED
    BY <2>1, <2>2
<1> QED
  BY <1>1, <1>2, <1>3, WriteKept

(* However requests overlap, the write that is not committed is the only   *)
(* one, on a row as it is, in either build.                                *)
THEOREM Writers == Spec => []WriteInv
<1>1. Init => WriteInv
  BY DEF Init, WriteInv, OneWriter, Flushed, Capable, Idle
<1>2. TypeOK /\ WriteInv /\ [Next]_vars => WriteInv'
  <2> SUFFICES ASSUME TypeOK, WriteInv, [Next]_vars PROVE WriteInv'
    OBVIOUS
  <2>1. ASSUME NEW t \in Tasks, NEW o \in Operations, Check(t, o) PROVE WriteInv'
    <3>1. /\ task'[t].pc = "checked" /\ ~task'[t].open
          /\ \A u \in Tasks \ {t} : task'[u] = task[u]
          /\ UNCHANGED row
      BY <2>1 DEF Check, TypeOK
    <3>2. Flushed(t)' /\ Capable(t)'
      BY <3>1 DEF Flushed, Capable
    <3> QED
      BY <3>1, <3>2, WriteKept
  <2>2. ASSUME NEW t \in Tasks, Handle(t) PROVE WriteInv'
    <3>0. task[t].pc = "checked" /\ task[t].key \in Nat /\ id + 1 \in Nat
      BY <2>2, BusyType DEF Handle, Grant, RequestAccess, Approve, Deny, Revoke, Handles,
         Running, TypeOK
    <3>1. CASE Grant(t)
      BY <3>0, <3>1, WriteSaved, WriteReturned DEF Grant, Handles, Abort
    <3>2. CASE RequestAccess(t) \/ Deny(t)
      BY <3>2, WriteReturned DEF RequestAccess, Deny, Abort, Unlocked
    <3>3. CASE Approve(t)
      BY <3>0, <3>3, WriteSaved, WriteReturned DEF Approve, Handles, Abort
    <3>4. CASE Revoke(t)
      <4>1. CASE task[t].seen = "REVOKING"
        BY <3>0, <3>4, <4>1, WriteGoes DEF Revoke
      <4>2. CASE task[t].seen # "REVOKING"
        BY <3>0, <3>4, <4>2, WriteSaved, WriteReturned DEF Revoke, Handles, Abort
      <4> QED
        BY <4>1, <4>2
    <3> QED
      BY <2>2, <3>1, <3>2, <3>3, <3>4 DEF Handle
  <2>3. ASSUME NEW t \in Tasks, Load(t) PROVE WriteInv'
    BY <2>3, WriteGoes, WriteReturned DEF Load
  <2>4. ASSUME NEW t \in Tasks, Begin(t) PROVE WriteInv'
    BY <2>4, WriteGoes, WriteReturned DEF Begin, JobWrites
  <2>5. ASSUME NEW t \in Tasks, Provision(t) \/ Deprovision(t) PROVE WriteInv'
    BY <2>5, WriteGoes DEF Provision, Deprovision
  <2>6. ASSUME NEW t \in Tasks, Finish(t) PROVE WriteInv'
    BY <2>6, WriteReturned DEF Finish, JobWrites
  <2>7. ASSUME NEW t \in Tasks, Commit(t) PROVE WriteInv'
    <3>1. \A u \in Tasks \ {t} : ~task[u].open
      BY <2>7 DEF Commit, WriteInv, OneWriter, Flushed
    <3> QED
      BY <2>7, <3>1, WriteReturned DEF Commit
  <2>8. CASE Restart
    BY <2>8 DEF Restart, WriteInv, OneWriter, Flushed, Capable, Idle
  <2>9. CASE UNCHANGED vars
    BY <2>9 DEF vars, WriteInv, OneWriter, Flushed, Capable, Present
  <2> QED
    BY <2>1, <2>2, <2>3, <2>4, <2>5, <2>6, <2>7, <2>8, <2>9 DEF Next, Step, Job
<1> QED
  BY <1>1, <1>2, Typing, PTL DEF Spec

(* What a handler, or the commit of one, does to the row: nothing, a new   *)
(* row, or the write of its operation to the row that is there.            *)
LEMMA Published ==
    ASSUME TypeOK, WriteInv, NEW t \in Tasks, Handle(t) \/ Commit(t)
    PROVE  /\ UNCHANGED <<accounts, overlapped>>
           /\ \/ UNCHANGED row
              \/ /\ task[t].pc = "checked" \/ task[t].open
                 /\ task[t].op \in {"grant", "request"}
                 /\ status = "absent" /\ id' = id + 1 /\ status' = Writes[task[t].op]
              \/ /\ task[t].pc = "checked" \/ task[t].open
                 /\ task[t].op \in {"approve", "deny", "revoke"}
                 /\ status # "absent" /\ id' = id /\ status' = Writes[task[t].op]
<1>1. CASE Grant(t)
  <2>1. task[t].pc = "checked" /\ task[t].op = "grant" /\ UNCHANGED <<accounts, overlapped>>
    BY <1>1 DEF Grant, Handles
  <2>2. UNCHANGED row \/ (status = "absent" /\ id' = id + 1 /\ status' = Writes["grant"])
    BY <1>1, <2>1 DEF Grant, Save, Abort, Publish
  <2> QED
    BY <2>1, <2>2
<1>2. CASE RequestAccess(t)
  <2>1. task[t].pc = "checked" /\ task[t].op = "request" /\ UNCHANGED <<accounts, overlapped>>
    BY <1>2 DEF RequestAccess, Handles
  <2>2. UNCHANGED row \/ (status = "absent" /\ id' = id + 1 /\ status' = Writes["request"])
    BY <1>2, <2>1 DEF RequestAccess, Abort, Publish
  <2> QED
    BY <2>1, <2>2
<1>3. CASE Approve(t)
  <2>1. task[t].pc = "checked" /\ task[t].op = "approve" /\ UNCHANGED <<accounts, overlapped>>
    BY <1>3 DEF Approve, Handles
  <2>2. UNCHANGED row \/ (status # "absent" /\ id' = id /\ status' = Writes["approve"])
    BY <1>3, <2>1 DEF Approve, Save, Abort, Publish, Present
  <2> QED
    BY <2>1, <2>2
<1>4. CASE Deny(t)
  <2>1. task[t].pc = "checked" /\ task[t].op = "deny" /\ UNCHANGED <<accounts, overlapped>>
    BY <1>4 DEF Deny, Handles
  <2>2. UNCHANGED row \/ (status # "absent" /\ id' = id /\ status' = Writes["deny"])
    BY <1>4, <2>1 DEF Deny, Publish, Present
  <2> QED
    BY <2>1, <2>2
<1>5. CASE Revoke(t)
  <2>1. task[t].pc = "checked" /\ task[t].op = "revoke" /\ UNCHANGED <<accounts, overlapped>>
    BY <1>5 DEF Revoke, Handles
  <2>2. UNCHANGED row \/ (status # "absent" /\ id' = id /\ status' = Writes["revoke"])
    BY <1>5, <2>1 DEF Revoke, Save, Abort, Publish, Present
  <2> QED
    BY <2>1, <2>2
<1>6. CASE Commit(t)
  <2>1. task[t].open /\ Flushed(t) /\ UNCHANGED <<accounts, overlapped>>
    BY <1>6 DEF Commit, WriteInv, Flushed
  <2>2. id' = task[t].key /\ status' = Writes[task[t].op]
    BY <1>6 DEF Commit, Publish
  <2> QED
    BY <2>1, <2>2 DEF Flushed, Present
<1> QED
  BY <1>1, <1>2, <1>3, <1>4, <1>5, <1>6 DEF Handle

(* Requests that do not overlap: every step of a task is one of the graph, *)
(* or shows nothing.                                                       *)
LEMMA SerialRefines ==
    ASSUME TypeOK, WriteInv, SerialNow, NEW t \in Tasks, Step(t)
    PROVE  Lifecycle!Serial \/ UNCHANGED <<id, status, accounts>>
<1>a. /\ status \in Statuses \cup {"absent"} /\ accounts \in Nat
      /\ CurrentView(t) /\ CurrentAccount(t) /\ Capable(t) /\ AccountsTrue
  BY DEF TypeOK, SerialNow, WriteInv
<1> USE DEF Lifecycle!Serial, Lifecycle!Become, Lifecycle!Shown, Statuses, PhaseStatus
<1>1. CASE Handle(t) \/ Commit(t)
  <2>1. CASE UNCHANGED row
    BY <1>1, <2>1, Published DEF row
  <2>2. CASE status' = Writes[task[t].op] /\ (task[t].pc = "checked" \/ task[t].open)
    <3>1. status \in Admits[task[t].op] /\ UNCHANGED accounts
      BY <1>1, <1>a, <2>2, Published DEF CurrentView
    <3>2. CASE task[t].op \in {"grant", "request"} /\ status = "absent" /\ id' = id + 1
      BY <2>2, <3>1, <3>2 DEF Writes, Lifecycle!Request, Lifecycle!Grant, Lifecycle!NewRow
    <3>3. CASE task[t].op \in {"approve", "deny", "revoke"} /\ id' = id
      BY <2>2, <3>1, <3>3 DEF Writes, Admits, Lifecycle!Grant, Lifecycle!Deny, Lifecycle!Revoke
    <3>4. \/ UNCHANGED row
          \/ task[t].op \in {"grant", "request"} /\ status = "absent" /\ id' = id + 1
          \/ task[t].op \in {"approve", "deny", "revoke"} /\ id' = id
      BY <1>1, Published
    <3> QED
      BY <3>1, <3>2, <3>3, <3>4 DEF row
  <2> QED
    BY <1>1, <2>1, <2>2, Published
<1>2. CASE Load(t)
  BY <1>2 DEF Load, row
<1>3. CASE Begin(t)
  <2>1. status = "REQUESTED" /\ status' = "PROVISIONING" /\ UNCHANGED <<id, accounts>>
    BY <1>3, <1>a DEF Begin, JobWrites, CurrentView, Present
  <2> QED
    BY <2>1 DEF Lifecycle!Start
<1>4. CASE Provision(t)
  <2>1. status = "PROVISIONING" /\ accounts = 0 /\ CanProvision
    BY <1>4, <1>a DEF Provision, CurrentView, CurrentAccount, Capable
  <2>2. UNCHANGED row /\ accounts' \in {accounts, accounts + 1}
    BY <1>4 DEF Provision
  <2> QED
    BY <2>1, <2>2 DEF Lifecycle!Connect, row
<1>5. CASE Deprovision(t)
  <2>1. status = "REVOKING" /\ CanRevoke
    BY <1>5, <1>a DEF Deprovision, CurrentView, Capable
  <2>2. UNCHANGED row /\ accounts' \in {accounts, 0}
    BY <1>5 DEF Deprovision
  <2> QED
    BY <2>1, <2>2 DEF Lifecycle!Disconnect, row
<1>6. CASE Finish(t)
  <2>1. /\ task[t].pc \in DOMAIN Outcome /\ status = PhaseStatus[task[t].pc]
        /\ status' = Outcome[task[t].pc] /\ UNCHANGED <<id, accounts>>
    BY <1>6, <1>a DEF Finish, JobWrites, Outcome, CurrentView, Present
  <2>2. CASE task[t].pc = "provisioned"
    BY <1>a, <2>1, <2>2 DEF CurrentAccount, Outcome, Lifecycle!Activate
  <2>3. CASE task[t].pc = "refused"
    BY <1>a, <2>1, <2>3 DEF CurrentAccount, Capable, Outcome, Lifecycle!Refuse
  <2>4. CASE task[t].pc = "deprovisioned"
    BY <1>a, <2>1, <2>4 DEF CurrentAccount, Outcome, Lifecycle!Retire
  <2> QED
    BY <2>1, <2>2, <2>3, <2>4 DEF Outcome
<1> QED
  BY <1>1, <1>2, <1>3, <1>4, <1>5, <1>6 DEF Step, Job

(* Requests that overlap: what is left.                                    *)
LEMMA RacingRefines ==
    ASSUME TypeOK, WriteInv, NEW t \in Tasks, Step(t)
    PROVE  Lifecycle!Racing \/ UNCHANGED <<id, status, accounts>>
<1>a. status \in Statuses \cup {"absent"} /\ Capable(t)
  BY DEF TypeOK, WriteInv
<1>b. ASSUME status # "absent", UNCHANGED <<id, accounts>>,
             status' \in (Statuses \ {"PENDING_APPROVAL"}) \cup {"absent"}
      PROVE  Lifecycle!Overwrite
  BY <1>a, <1>b DEF Lifecycle!Overwrite, Lifecycle!Become, Lifecycle!Shown, Statuses
<1>1. CASE Handle(t) \/ Commit(t)
  <2>1. CASE task[t].op \in {"grant", "request"} /\ status = "absent" /\ id' = id + 1
               /\ status' = Writes[task[t].op]
    BY <1>1, <2>1, Published DEF Writes, Lifecycle!Racing, Lifecycle!Request, Lifecycle!NewRow
  <2>2. CASE task[t].op \in {"approve", "deny", "revoke"} /\ status # "absent" /\ id' = id
               /\ status' = Writes[task[t].op]
    <3>1. status' \in (Statuses \ {"PENDING_APPROVAL"}) \cup {"absent"}
      BY <2>2 DEF Writes, Statuses
    <3> QED
      BY <1>1, <1>b, <2>2, <3>1, Published DEF Lifecycle!Racing
  <2> QED
    BY <1>1, <2>1, <2>2, Published DEF row
<1>2. CASE Load(t)
  BY <1>2 DEF Load, row
<1>3. CASE Begin(t) \/ Finish(t)
  <2>1. /\ UNCHANGED <<id, accounts>>
        /\ status' = status \/ (status # "absent" /\ status' \in Statuses \ {"PENDING_APPROVAL"})
    <3>1. CASE Begin(t)
      BY <3>1 DEF Begin, JobWrites, Present, Statuses
    <3>2. CASE Finish(t)
      BY <3>2 DEF Finish, JobWrites, Present, Outcome, Statuses
    <3> QED
      BY <1>3, <3>1, <3>2
  <2> QED
    BY <1>b, <2>1 DEF Lifecycle!Racing
<1>4. CASE Provision(t) \/ Deprovision(t)
  BY <1>4, <1>a DEF Provision, Deprovision, Capable, row, Lifecycle!Racing, Lifecycle!Call
<1> QED
  BY <1>1, <1>2, <1>3, <1>4 DEF Step, Job

(* ToolAccess implements AccessLifecycle: handlers, jobs and restarts take *)
(* a row and its account along its graph, in which a revocation may follow *)
(* on every status, while requests do not overlap, and keep to what is left*)
(* of it when they do, in either build and for every connector.            *)
THEOREM Implements == Spec => FollowsLifecycle
<1>1. Init => Lifecycle!Init
  BY DEF Init, Lifecycle!Init
<1>2. TypeOK /\ WriteInv /\ SerialInv /\ [Next]_vars => [Lifecycle!Next]_Lifecycle!vars
  <2> SUFFICES ASSUME TypeOK, WriteInv, SerialInv, [Next]_vars
               PROVE  [Lifecycle!Next]_Lifecycle!vars
    OBVIOUS
  <2>1. ASSUME NEW t \in Tasks, NEW o \in Operations, Check(t, o)
        PROVE  [Lifecycle!Next]_Lifecycle!vars
    <3>1. UNCHANGED <<id, status, accounts>> /\ overlapped' \in {overlapped, TRUE}
      BY <2>1 DEF Check, row, TypeOK
    <3> QED
      BY <3>1 DEF Lifecycle!Next, Lifecycle!Disturb, Lifecycle!vars
  <2>2. ASSUME NEW t \in Tasks, Step(t) PROVE [Lifecycle!Next]_Lifecycle!vars
    <3>1. overlapped' = overlapped
      BY <2>2 DEF Step, Handle, Job, Grant, RequestAccess, Approve, Deny, Revoke, Load,
         Begin, Provision, Deprovision, Finish, Commit, JobWrites, history
    <3>2. CASE ~overlapped
      <4>1. SerialNow
        BY <3>2, Zenon DEF SerialInv
      <4>2. Lifecycle!Serial \/ UNCHANGED <<id, status, accounts>>
        BY <2>2, <4>1, SerialRefines
      <4> QED
        BY <3>1, <3>2, <4>2, Zenon DEF Lifecycle!Next, Lifecycle!vars
    <3>3. CASE overlapped
      <4>1. Lifecycle!Racing \/ UNCHANGED <<id, status, accounts>>
        BY <2>2, RacingRefines
      <4> QED
        BY <3>1, <3>3, <4>1, Zenon DEF Lifecycle!Next, Lifecycle!vars
    <3> QED
      BY <3>2, <3>3
  <2>3. CASE Restart
    BY <2>3 DEF Restart, row, history, Lifecycle!vars
  <2>4. CASE UNCHANGED vars
    BY <2>4 DEF vars, Lifecycle!vars
  <2> QED
    BY <2>1, <2>2, <2>3, <2>4 DEF Next
<1> QED
  BY <1>1, <1>2, Typing, Writers, Serial, PTL DEF Spec, FollowsLifecycle, Lifecycle!Spec
=============================================================================

---------------------------- MODULE WorkspaceProofs ----------------------------
(***************************************************************************)
(* Theorems about Workspace, for any number of requests, listings and      *)
(* restarts, in either build.                                              *)
(***************************************************************************)
EXTENDS Workspace, TLAPS

TaskType == [pc: Phases, seen: Statuses, open: BOOLEAN]

Others(t) == \A u \in Tasks \ {t} : task'[u] = task[u]

(* Every task of a typed state is a record of TaskType.                    *)
LEMMA TypedTask == TypeOK => task \in [Tasks -> TaskType]
  BY DEF TypeOK, TaskType

(* A task without a request, as a request leaves it, is well typed.        *)
LEMMA IdleType == Idle \in TaskType /\ Idle.pc = "idle" /\ ~Idle.open
  BY DEF Idle, TaskType, Phases, Statuses

(* What the ways to change a task do to it and to the others.              *)
LEMMA GotoEffect ==
  ASSUME TypeOK, NEW t \in Tasks, NEW p \in Phases, Goto(t, p)
  PROVE  /\ task' \in [Tasks -> TaskType]
         /\ task'[t].pc = p /\ task'[t].open = task[t].open
         /\ Others(t)
<1>1. task \in [Tasks -> TaskType]
  BY TypedTask
<1>2. [task[t] EXCEPT !.pc = p] \in TaskType
  BY <1>1 DEF TaskType
<1>3. task' = [task EXCEPT ![t] = [task[t] EXCEPT !.pc = p]]
  BY DEF Goto
<1>4. [task[t] EXCEPT !.pc = p].pc = p /\ [task[t] EXCEPT !.pc = p].open = task[t].open
  BY <1>1 DEF TaskType
<1> QED
  BY <1>1, <1>2, <1>3, <1>4 DEF Others

(* What answering a request leaves of its task.                            *)
LEMMA ReturnEffect ==
  ASSUME TypeOK, NEW t \in Tasks, Return(t)
  PROVE  /\ task' \in [Tasks -> TaskType]
         /\ task'[t].pc = "idle" /\ ~task'[t].open
         /\ Others(t)
  BY TypedTask, IdleType DEF Return, Others

(* What inserting the row does to the creator, by build.                   *)
LEMMA CreateEffect ==
  ASSUME TypeOK, NEW t \in Tasks,
         task' = [task EXCEPT ![t].pc = "starting", ![t].open = ~commitFirst]
  PROVE  /\ task' \in [Tasks -> TaskType]
         /\ task'[t].pc = "starting" /\ task'[t].open = ~commitFirst
         /\ Others(t)
<1> DEFINE r == [task[t] EXCEPT !.pc = "starting", !.open = ~commitFirst]
<1>1. task \in [Tasks -> TaskType]
  BY TypedTask
<1>2. commitFirst \in BOOLEAN /\ "starting" \in Phases
  BY DEF TypeOK, Phases
<1>3. r \in TaskType /\ r.pc = "starting" /\ r.open = ~commitFirst
  BY <1>1, <1>2 DEF TaskType
<1>4. task' = [task EXCEPT ![t] = r]
  BY <1>1
<1> HIDE DEF r
<1> QED
  BY <1>1, <1>3, <1>4 DEF Others

(* What loading the row, and starting a job again, does to the task.       *)
LEMMA LoadEffect ==
  ASSUME TypeOK, NEW t \in Tasks,
         task' = [task EXCEPT ![t].pc = "loaded", ![t].seen = status]
  PROVE  /\ task' \in [Tasks -> TaskType]
         /\ task'[t].pc = "loaded" /\ task'[t].open = task[t].open
         /\ Others(t)
<1> DEFINE r == [task[t] EXCEPT !.pc = "loaded", !.seen = status]
<1>1. task \in [Tasks -> TaskType]
  BY TypedTask
<1>2. status \in Statuses /\ "loaded" \in Phases
  BY DEF TypeOK, Phases, Working
<1>3. r \in TaskType /\ r.pc = "loaded" /\ r.open = task[t].open
  BY <1>1, <1>2 DEF TaskType
<1>4. task' = [task EXCEPT ![t] = r]
  BY <1>1
<1> HIDE DEF r
<1> QED
  BY <1>1, <1>3, <1>4 DEF Others

(* Type correctness of Workspace: every request, job and restart keeps the *)
(* row, the store and the tasks within their sets.                         *)
THEOREM Typing == Spec => []TypeOK
<1>1. Init => TypeOK
  <2> SUFFICES ASSUME Init PROVE TypeOK
    OBVIOUS
  <2>1. task \in [Tasks -> TaskType]
    BY IdleType DEF Init
  <2>2. commitFirst \in BOOLEAN
    BY BuildAssumption DEF BuildAssumption, Init
  <2> QED
    BY <2>1, <2>2 DEF Init, TypeOK, TaskType, Statuses, NoEntry
<1>2. TypeOK /\ [Next]_vars => TypeOK'
  <2> SUFFICES ASSUME TypeOK, [Next]_vars PROVE TypeOK'
    OBVIOUS
  <2> DEFINE Rest == /\ commitFirst \in BOOLEAN /\ status \in Statuses
                     /\ store \in [up: BOOLEAN, posts: Nat]
                     /\ posted \in Nat /\ sent \in Nat
                     /\ overlapped \in BOOLEAN /\ restarts \in Nat
  <2>0. Rest /\ (Rest' /\ task' \in [Tasks -> TaskType] => TypeOK')
    BY DEF TypeOK, TaskType
  <2>p. {"creating", "starting", "ended", "posting", "claimed", "seeded"} \subseteq Phases
    BY DEF Phases, Working
  <2>s. {"absent", "REQUESTED", "PROVISIONING", "ACTIVE"} \subseteq Statuses
    BY DEF Statuses, InProgress
  <2>1. ASSUME NEW t \in Tasks, Provision(t) \/ List(t) \/ CheckPost(t) PROVE TypeOK'
    <3>1. Goto(t, "creating") \/ Goto(t, "starting") \/ Goto(t, "posting")
      BY <2>1 DEF Provision, List, CheckPost
    <3>2. Rest'
      BY <2>0, <2>1 DEF Provision, List, CheckPost, history
    <3> QED
      BY <2>0, <2>p, <3>1, <3>2, GotoEffect
  <2>2. ASSUME NEW t \in Tasks, Create(t) PROVE TypeOK'
    <3>1. task' \in [Tasks -> TaskType]
      BY <2>2, ReturnEffect, CreateEffect DEF Create
    <3>2. Rest'
      BY <2>0, <2>2, <2>s DEF Create, history
    <3> QED
      BY <2>0, <3>1, <3>2
  <2>3. ASSUME NEW t \in Tasks, Post(t) PROVE TypeOK'
    <3>1. task' \in [Tasks -> TaskType]
      BY <2>3, ReturnEffect DEF Post
    <3>2. Rest'
      BY <2>0, <2>3 DEF Post
    <3> QED
      BY <2>0, <3>1, <3>2
  <2>4. ASSUME NEW t \in Tasks, Load(t) PROVE TypeOK'
    <3>1. task' \in [Tasks -> TaskType]
      BY <2>4, <2>p, ReturnEffect, GotoEffect, LoadEffect DEF Load
    <3>2. Rest'
      BY <2>0, <2>4 DEF Load
    <3> QED
      BY <2>0, <3>1, <3>2
  <2>5. ASSUME NEW t \in Tasks, Claim(t) PROVE TypeOK'
    <3>1. task' \in [Tasks -> TaskType]
      BY <2>5, <2>p, GotoEffect DEF Claim
    <3>2. Rest'
      BY <2>0, <2>5, <2>s DEF Claim, history
    <3> QED
      BY <2>0, <3>1, <3>2
  <2>6. ASSUME NEW t \in Tasks, Seed(t) PROVE TypeOK'
    <3>1. task' \in [Tasks -> TaskType]
      BY <2>6, <2>p, GotoEffect DEF Seed
    <3>2. Rest'
      BY <2>0, <2>6 DEF Seed, Seeded, history
    <3> QED
      BY <2>0, <3>1, <3>2
  <2>7. ASSUME NEW t \in Tasks, Activate(t) \/ Commit(t) PROVE TypeOK'
    <3>1. task' \in [Tasks -> TaskType]
      BY <2>7, ReturnEffect DEF Activate, Commit
    <3>2. Rest'
      BY <2>0, <2>7, <2>s DEF Activate, Commit, history
    <3> QED
      BY <2>0, <3>1, <3>2
  <2>8. CASE Restart
    <3>1. task' \in [Tasks -> TaskType]
      BY <2>8, IdleType DEF Restart
    <3>2. Rest'
      BY <2>0, <2>8 DEF Restart, NoEntry
    <3> QED
      BY <2>0, <3>1, <3>2
  <2>9. CASE UNCHANGED vars
    BY <2>9 DEF vars, TypeOK
  <2> QED
    BY <2>1, <2>2, <2>3, <2>4, <2>5, <2>6, <2>7, <2>8, <2>9 DEF Next, Step
<1> QED
  BY <1>1, <1>2, PTL DEF Spec
(* No step of a request, a job or a restart breaks what the proofs of      *)
(* messages, status and store rest on.                                     *)
LEMMA Kept == TypeOK /\ JobInv /\ [Next]_vars => JobInv'
<1> SUFFICES ASSUME TypeOK, JobInv, [Next]_vars PROVE JobInv'
  OBVIOUS
<1>p. {"creating", "starting", "ended", "posting", "claimed", "seeded"} \subseteq Phases
  BY DEF Phases, Working
<1>t. /\ posted \in Nat /\ restarts \in Nat /\ store \in [up: BOOLEAN, posts: Nat]
      /\ overlapped \in BOOLEAN
  BY DEF TypeOK
<1>o. \A t \in Tasks : task[t].open \in BOOLEAN
  BY TypedTask DEF TaskType
<1> USE DEF JobInv, OneInsert, OneJob, SeededFirst, ReadyWhenActive, Working, InProgress
<1>1. ASSUME NEW t \in Tasks, Provision(t) PROVE JobInv'
  <2>1. task'[t].pc = "creating" /\ task'[t].open = task[t].open /\ Others(t)
    BY <1>1, <1>p, GotoEffect DEF Provision
  <2>2. task[t].pc = "idle" /\ ~task[t].open
    BY <1>1, IdleType DEF Provision
  <2> QED
    BY <1>1, <2>1, <2>2 DEF Provision, Others, history
<1>2. ASSUME NEW t \in Tasks, List(t) PROVE JobInv'
  <2>1. task'[t].pc = "starting" /\ task'[t].open = task[t].open /\ Others(t)
    BY <1>2, <1>p, GotoEffect DEF List
  <2>2. task[t].pc = "idle" /\ ~task[t].open
    BY <1>2, IdleType DEF List
  <2> QED
    BY <1>2, <2>1, <2>2 DEF List, Others, history
<1>3. ASSUME NEW t \in Tasks, CheckPost(t) PROVE JobInv'
  <2>1. task'[t].pc = "posting" /\ task'[t].open = task[t].open /\ Others(t)
    BY <1>3, <1>p, GotoEffect DEF CheckPost
  <2>2. task[t].pc = "idle" /\ ~task[t].open
    BY <1>3, IdleType DEF CheckPost
  <2> QED
    BY <1>3, <2>1, <2>2 DEF CheckPost, Others, history
<1>4. ASSUME NEW t \in Tasks, Create(t) PROVE JobInv'
  <2>0. ~task[t].open /\ \A u \in Tasks \ {t} : ~task[u].open
    BY <1>4 DEF Create
  <2>1. CASE status # "absent"
    <3>1. task'[t].pc = "idle" /\ ~task'[t].open /\ Others(t)
      BY <1>4, <2>1, ReturnEffect DEF Create
    <3> QED
      BY <1>4, <2>0, <2>1, <3>1 DEF Create, Others, history
  <2>2. CASE status = "absent"
    <3>1. task'[t].pc = "starting" /\ task'[t].open = ~commitFirst /\ Others(t)
      BY <1>4, <2>2, CreateEffect DEF Create
    <3>2. status' = IF commitFirst THEN "REQUESTED" ELSE "absent"
      BY <1>4, <2>2 DEF Create
    <3>3. \A u \in Tasks : task[u].pc \notin Working \cup {"ended"}
      BY <2>0, <2>2
    <3>4. commitFirst \in BOOLEAN
      BY DEF TypeOK
    <3>5. UNCHANGED <<store, history>>
      BY <1>4 DEF Create
    <3>6. OneInsert'
      BY <2>0, <3>1, <3>2, <3>3, <3>4 DEF Others
    <3>7. ~overlapped => OneJob'
      BY <2>2, <3>1, <3>2, <3>3, <3>5 DEF Others, history
    <3>8. SeededFirst' /\ ReadyWhenActive'
      BY <3>1, <3>2, <3>3, <3>5 DEF Others, history
    <3> QED
      BY <3>5, <3>6, <3>7, <3>8 DEF history
  <2> QED
    BY <2>1, <2>2
<1>5. ASSUME NEW t \in Tasks, Post(t) PROVE JobInv'
  <2>1. task'[t].pc = "idle" /\ ~task'[t].open /\ Others(t)
    BY <1>5, ReturnEffect DEF Post
  <2>2. UNCHANGED <<status, overlapped, restarts>> /\ store'.up /\ posted' = posted + 1
    BY <1>5 DEF Post
  <2>3. ~overlapped => store'.posts = posted'
    <3>1. CASE store.up
      BY <1>5, <3>1, <1>t DEF Post
    <3>2. CASE ~store.up
      BY <1>5, <3>2, <1>t DEF Post
    <3> QED
      BY <3>1, <3>2
  <2>4. ~overlapped => status = "ACTIVE"
    BY <1>5 DEF Post
  <2> QED
    BY <2>1, <2>2, <2>3, <2>4 DEF Others
<1>6. ASSUME NEW t \in Tasks, Load(t) PROVE JobInv'
  <2>1. UNCHANGED <<status, store, posted, restarts>>
    BY <1>6 DEF Load
  <2>2. CASE Wanted
    <3>1. task'[t].pc = "loaded" /\ task'[t].open = task[t].open /\ Others(t)
      BY <1>6, <2>2, LoadEffect DEF Load
    <3>2. overlapped' = (overlapped \/ \E u \in Tasks \ {t} : task[u].pc \in Working)
      BY <1>6, <2>2 DEF Load
    <3>3. ~task[t].open /\ status \in InProgress
      BY <2>2 DEF Wanted
    <3>4. OneInsert' /\ SeededFirst' /\ ReadyWhenActive'
      BY <2>1, <3>1, <3>3 DEF Others
    <3>5. ~overlapped' => OneJob'
      BY <2>1, <3>1, <3>2, <3>3 DEF Others
    <3> QED
      BY <3>4, <3>5
  <2>3. CASE ~Wanted /\ task[t].open
    <3>1. task'[t].pc = "ended" /\ task'[t].open /\ Others(t)
      BY <1>6, <1>p, <2>3, GotoEffect DEF Load
    <3>2. overlapped' = overlapped
      BY <1>6, <2>3 DEF Load
    <3> QED
      BY <2>1, <2>3, <3>1, <3>2 DEF Others
  <2>4. CASE ~Wanted /\ ~task[t].open
    <3>1. task'[t].pc = "idle" /\ ~task'[t].open /\ Others(t)
      BY <1>6, <2>4, ReturnEffect DEF Load
    <3>2. overlapped' = overlapped
      BY <1>6, <2>4 DEF Load
    <3> QED
      BY <2>1, <3>1, <3>2 DEF Others
  <2> QED
    BY <1>o, <2>2, <2>3, <2>4
<1>7. ASSUME NEW t \in Tasks, Claim(t) PROVE JobInv'
  <2>1. task'[t].pc = "claimed" /\ task'[t].open = task[t].open /\ Others(t)
    BY <1>7, <1>p, GotoEffect DEF Claim
  <2>2. status' \in {status, "PROVISIONING"} /\ UNCHANGED <<store, history>>
    BY <1>7 DEF Claim
  <2>3. task[t].pc = "loaded" /\ status # "absent" /\ \A u \in Tasks : ~task[u].open
    BY <1>7 DEF Claim
  <2>4. OneInsert' /\ SeededFirst' /\ ReadyWhenActive'
    BY <2>1, <2>2, <2>3 DEF Others, history
  <2>5. ~overlapped => OneJob'
    BY <2>1, <2>2, <2>3 DEF Others, history
  <2> QED
    BY <2>2, <2>4, <2>5 DEF history
<1>8. ASSUME NEW t \in Tasks, Seed(t) PROVE JobInv'
  <2>1. task'[t].pc = "seeded" /\ task'[t].open = task[t].open /\ Others(t)
    BY <1>8, <1>p, GotoEffect DEF Seed
  <2>2. task[t].pc = "claimed" /\ UNCHANGED <<status, history>>
    BY <1>8 DEF Seed
  <2>3. store'.up /\ store'.posts = 0
    BY <1>8 DEF Seed, Seeded
  <2>4. OneInsert' /\ SeededFirst' /\ ReadyWhenActive'
    BY <2>1, <2>2, <2>3 DEF Others, history
  <2>5. ~overlapped => OneJob'
    BY <2>1, <2>2, <2>3 DEF Others, history
  <2> QED
    BY <2>2, <2>4, <2>5 DEF history
<1>9. ASSUME NEW t \in Tasks, Activate(t) PROVE JobInv'
  <2>1. task'[t].pc = "idle" /\ ~task'[t].open /\ Others(t)
    BY <1>9, ReturnEffect DEF Activate
  <2>2. task[t].pc = "seeded" /\ status' = "ACTIVE" /\ UNCHANGED <<store, history>>
    BY <1>9 DEF Activate
  <2>3. \A u \in Tasks : ~task[u].open
    BY <2>2
  <2>4. OneInsert' /\ SeededFirst' /\ ReadyWhenActive'
    BY <2>1, <2>2, <2>3 DEF Others, history
  <2>5. ~overlapped => OneJob'
    BY <2>1, <2>2 DEF Others, history
  <2> QED
    BY <2>2, <2>4, <2>5 DEF history
<1>10. ASSUME NEW t \in Tasks, Commit(t) PROVE JobInv'
  <2>1. task'[t].pc = "idle" /\ ~task'[t].open /\ Others(t)
    BY <1>10, ReturnEffect DEF Commit
  <2>2. status = "absent" /\ status' = "REQUESTED" /\ UNCHANGED <<store, history>>
    BY <1>10 DEF Commit
  <2>3. \A u \in Tasks \ {t} : ~task[u].open
    BY <1>10 DEF Commit
  <2>4. OneInsert' /\ SeededFirst' /\ ReadyWhenActive'
    BY <2>1, <2>2, <2>3 DEF Others, history
  <2>5. ~overlapped => OneJob'
    BY <2>1, <2>2 DEF Others, history
  <2> QED
    BY <2>2, <2>4, <2>5 DEF history
<1>11. CASE Restart
  <2>1. \A t \in Tasks : task'[t].pc = "idle" /\ ~task'[t].open
    BY <1>11, IdleType DEF Restart
  <2>2. store'.posts = 0 /\ posted' = 0 /\ restarts' > 0
    BY <1>11, <1>t DEF Restart, NoEntry
  <2>3. UNCHANGED <<status, overlapped>>
    BY <1>11 DEF Restart
  <2> QED
    BY <2>1, <2>2, <2>3
<1>12. CASE UNCHANGED vars
  BY <1>12 DEF vars
<1> QED
  BY <1>1, <1>2, <1>3, <1>4, <1>5, <1>6, <1>7, <1>8, <1>9, <1>10, <1>11, <1>12 DEF Next, Step

(* The inductive invariant of Workspace: of uncommitted inserts, of jobs   *)
(* that do not overlap, and of the order of seeding and activating.        *)
THEOREM Jobs == Spec => []JobInv
<1>1. Init => JobInv
  <2> SUFFICES ASSUME Init PROVE JobInv
    OBVIOUS
  <2>1. \A t \in Tasks : task[t].pc = "idle" /\ ~task[t].open
    BY IdleType DEF Init
  <2> QED
    BY <2>1 DEF Init, NoEntry, JobInv, OneInsert, OneJob, SeededFirst, ReadyWhenActive, Working
<1> QED
  BY <1>1, Kept, Typing, PTL DEF Spec

(* Until the server restarts or jobs overlap, no message that was answered *)
(* is lost, for any number of members, messages, listings and in either    *)
(* build.                                                                  *)
THEOREM Messages == Spec => []MessagesKept
<1>1. JobInv => MessagesKept
  BY DEF JobInv, OneJob, MessagesKept
<1> QED
  BY <1>1, Jobs, PTL

(* Until a restart, members get in only after the store was seeded, however *)
(* jobs overlap.                                                            *)
THEOREM Ready == Spec => []ReadyWhenActive
<1>1. JobInv => ReadyWhenActive
  BY DEF JobInv
<1> QED
  BY <1>1, Jobs, PTL

(* An active workspace is not taken back by jobs, requests that commit     *)
(* late, or restarts, until two jobs overlap.                              *)
THEOREM StaysActive == Spec => ActiveStays
<1>1. TypeOK /\ JobInv /\ [Next]_vars => [status = "ACTIVE" /\ ~overlapped => status' = "ACTIVE"]_vars
  <2> SUFFICES ASSUME JobInv, Next, status = "ACTIVE", ~overlapped PROVE status' = "ACTIVE"
    OBVIOUS
  <2>1. \A t \in Tasks : task[t].pc \notin Working /\ task[t].pc # "ended"
    BY DEF JobInv, OneInsert, OneJob, InProgress
  <2> QED
    BY <2>1 DEF Next, Step, Provision, List, CheckPost, Create, Post, Load, Claim, Seed,
                Activate, Commit, Restart, Working
<1> QED
  BY <1>1, Typing, Jobs, PTL DEF Spec, ActiveStays

(* A build that commits a request before its job never has an INSERT that  *)
(* is not committed while the job sleeps or works.                         *)
LEMMA NeverOpen == Spec => []NoneOpen
<1>1. Init => NoneOpen
  BY IdleType DEF Init, NoneOpen
<1>2. TypeOK /\ NoneOpen /\ [Next]_vars => NoneOpen'
  <2> SUFFICES ASSUME TypeOK, NoneOpen, [Next]_vars PROVE NoneOpen'
    OBVIOUS
  <2>p. {"creating", "starting", "ended", "posting", "claimed", "seeded"} \subseteq Phases
    BY DEF Phases, Working
  <2>1. ASSUME NEW t \in Tasks, Provision(t) \/ List(t) \/ CheckPost(t) \/ Claim(t) \/ Seed(t)
        PROVE  NoneOpen'
    <3>1. task'[t].open = task[t].open /\ Others(t)
      BY <2>1, <2>p, GotoEffect DEF Provision, List, CheckPost, Claim, Seed
    <3>2. commitFirst' = commitFirst
      BY <2>1 DEF Provision, List, CheckPost, Claim, Seed
    <3> QED
      BY <3>1, <3>2 DEF NoneOpen, Others
  <2>2. ASSUME NEW t \in Tasks, Post(t) \/ Activate(t) \/ Commit(t) PROVE NoneOpen'
    <3>1. ~task'[t].open /\ Others(t)
      BY <2>2, ReturnEffect DEF Post, Activate, Commit
    <3>2. commitFirst' = commitFirst
      BY <2>2 DEF Post, Activate, Commit
    <3> QED
      BY <3>1, <3>2 DEF NoneOpen, Others
  <2>3. ASSUME NEW t \in Tasks, Create(t) PROVE NoneOpen'
    <3>1. (~task'[t].open \/ task'[t].open = ~commitFirst) /\ Others(t)
      BY <2>3, ReturnEffect, CreateEffect DEF Create
    <3>2. commitFirst' = commitFirst /\ commitFirst \in BOOLEAN
      BY <2>3 DEF Create, TypeOK
    <3> QED
      BY <3>1, <3>2 DEF NoneOpen, Others
  <2>4. ASSUME NEW t \in Tasks, Load(t) PROVE NoneOpen'
    <3>1. (~task'[t].open \/ task'[t].open = task[t].open) /\ Others(t)
      BY <2>4, <2>p, ReturnEffect, GotoEffect, LoadEffect DEF Load
    <3>2. commitFirst' = commitFirst
      BY <2>4 DEF Load
    <3> QED
      BY <3>1, <3>2 DEF NoneOpen, Others
  <2>5. CASE Restart
    BY <2>5, IdleType DEF Restart, NoneOpen
  <2>6. CASE UNCHANGED vars
    BY <2>6 DEF vars, NoneOpen
  <2> QED
    BY <2>1, <2>2, <2>3, <2>4, <2>5, <2>6 DEF Next, Step
<1> QED
  BY <1>1, <1>2, Typing, PTL DEF Spec

(* Where requests commit before their jobs, a workspace in progress has a  *)
(* job that will see to it until the server restarts, however many jobs    *)
(* and listings overlap.                                                   *)
THEOREM NobodyForgotten == Spec => []NothingAbandoned
<1> DEFINE AtWork == \E t \in Tasks : task[t].pc \in {"starting"} \cup Working
<1>1. Init => NothingAbandoned
  BY DEF Init, NothingAbandoned, InProgress
<1>2. TypeOK /\ JobInv /\ NoneOpen /\ NothingAbandoned /\ [Next]_vars => NothingAbandoned'
  <2> SUFFICES ASSUME TypeOK, JobInv, NoneOpen, NothingAbandoned, [Next]_vars,
                      commitFirst', restarts' = 0, status' \in InProgress
               PROVE  AtWork'
    BY DEF NothingAbandoned
  <2>p. {"creating", "starting", "ended", "posting", "claimed", "seeded"} \subseteq Phases
    BY DEF Phases, Working
  <2>0. commitFirst /\ (restarts = 0 /\ status \in InProgress => AtWork)
    BY DEF NothingAbandoned, Next, vars, Step, Provision, List, CheckPost, Create, Post, Load,
           Claim, Seed, Activate, Commit, Restart
  \* One job goes on; another's keeps the workspace attended.
  <2>a. ASSUME NEW t \in Tasks, Others(t), AtWork,
               task[t].pc \in {"starting"} \cup Working => task'[t].pc \in {"starting"} \cup Working
        PROVE  AtWork'
    BY <2>a DEF Others
  <2>1. ASSUME NEW t \in Tasks, Provision(t) \/ CheckPost(t) PROVE AtWork'
    <3>1. task[t].pc = "idle" /\ Others(t)
      BY <2>1, <2>p, GotoEffect, IdleType DEF Provision, CheckPost
    <3>2. UNCHANGED <<status, restarts>>
      BY <2>1 DEF Provision, CheckPost, history
    <3> QED
      BY <2>0, <2>a, <3>1, <3>2 DEF Working
  <2>2. ASSUME NEW t \in Tasks, List(t) PROVE AtWork'
    BY <2>2, <2>p, GotoEffect DEF List
  <2>3. ASSUME NEW t \in Tasks, Create(t) PROVE AtWork'
    <3>1. CASE status = "absent"
      BY <2>3, <3>1, CreateEffect DEF Create
    <3>2. CASE status # "absent"
      <4>1. task[t].pc = "creating" /\ Others(t) /\ UNCHANGED <<status, restarts>>
        BY <2>3, <3>2, ReturnEffect DEF Create, history
      <4> QED
        BY <2>0, <2>a, <4>1 DEF Working
    <3> QED
      BY <3>1, <3>2
  <2>4. ASSUME NEW t \in Tasks, Post(t) PROVE AtWork'
    <3>1. task[t].pc = "posting" /\ Others(t) /\ UNCHANGED <<status, restarts>>
      BY <2>4, ReturnEffect DEF Post
    <3> QED
      BY <2>0, <2>a, <3>1 DEF Working
  <2>5. ASSUME NEW t \in Tasks, Load(t) PROVE AtWork'
    <3>1. Wanted
      BY <2>5 DEF Load, Wanted
    <3>2. task'[t].pc = "loaded"
      BY <2>5, <3>1, LoadEffect DEF Load
    <3> QED
      BY <3>2 DEF Working
  <2>6. ASSUME NEW t \in Tasks, Claim(t) \/ Seed(t) PROVE AtWork'
    <3>1. task'[t].pc \in {"claimed", "seeded"}
      BY <2>6, <2>p, GotoEffect DEF Claim, Seed
    <3> QED
      BY <3>1 DEF Working
  <2>7. ASSUME NEW t \in Tasks, Activate(t) PROVE AtWork'
    BY <2>7 DEF Activate, InProgress
  <2>8. ASSUME NEW t \in Tasks, Commit(t) PROVE AtWork'
    BY <2>0, <2>8 DEF Commit, JobInv, OneInsert, NoneOpen
  <2>9. CASE Restart
    BY <2>9 DEF Restart, TypeOK
  <2>10. CASE UNCHANGED vars
    BY <2>0, <2>10 DEF vars
  <2> QED
    BY <2>1, <2>2, <2>3, <2>4, <2>5, <2>6, <2>7, <2>8, <2>9, <2>10 DEF Next, Step
<1> QED
  BY <1>1, <1>2, Typing, Jobs, NeverOpen, PTL DEF Spec
=============================================================================

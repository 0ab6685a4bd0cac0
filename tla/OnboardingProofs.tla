--------------------------- MODULE OnboardingProofs ---------------------------
(***************************************************************************)
(* Theorems about Onboarding, for any number of requests, tools and        *)
(* restarts, in either build.                                              *)
(***************************************************************************)
EXTENDS Onboarding, TLAPS

TaskType == [pc: Phases, seen: 0 .. Len(Steps), left: SUBSET Tools,
             tool: Tools \cup {"none"}, new: SUBSET Tools]

(* The checklist is the sixth and last step.                               *)
LEMMA SixSteps == Len(Steps) = 6 /\ Steps[6] = "complete"
BY DEF Steps

LEMMA IdleType == Idle \in TaskType /\ Idle.pc = "idle"
BY SixSteps DEF Idle, TaskType, Phases

-----------------------------------------------------------------------------
(* What a step does to the task that takes it.                             *)

(* The invariant, of one task.                                             *)
Sound(t) == OnTrack(t) /\ GrantsAll(t)

(* The other tasks are sound after a step that takes no row away.          *)
LEMMA OthersSound ==
    ASSUME NEW u \in Tasks, Sound(u), task'[u] = task[u],
           TypeOK, TypeOK', reached <= reached', denied \subseteq denied',
           \A k \in Tools \ denied' : row[k] # "absent" => row'[k] # "absent"
    PROVE  Sound(u)'
<1>1. OnTrack(u)'
  BY SixSteps DEF Sound, OnTrack, TypeOK
<1>2. GrantsAll(u)'
  BY DEF Sound, GrantsAll
<1>3. QED
  BY <1>1, <1>2 DEF Sound

(* What is left to show of a step of task t that keeps the row of every    *)
(* tool.                                                                   *)
LEMMA StepSound ==
    ASSUME OnboardingInv, TypeOK', NEW t \in Tasks,
           \A u \in Tasks \ {t} : task'[u] = task[u],
           Sound(t)', done' <= reached', reached <= reached', denied' = denied,
           \A k \in Tools : row[k] # "absent" => row'[k] # "absent",
           completed' => completed \/ Unlocks'
    PROVE  OnboardingInv'
<1>1. ASSUME NEW u \in Tasks PROVE Sound(u)'
  BY <1>1, OthersSound DEF OnboardingInv, Sound
<1>2. Unlocks'
  BY DEF OnboardingInv, Unlocks
<1>3. QED
  BY <1>1, <1>2 DEF OnboardingInv, Sound

-----------------------------------------------------------------------------
(* The invariant.                                                          *)

LEMMA InvInit == Init => OnboardingInv
<1> SUFFICES ASSUME Init PROVE OnboardingInv
  OBVIOUS
<1>1. task \in [Tasks -> TaskType]
  BY IdleType DEF Init
<1>2. TypeOK
  <2>1. commitFirst \in BOOLEAN
    BY BuildAssumption DEF Init
  <2>2. row \in [Tools -> Statuses]
    BY DEF Init, Statuses
  <2>3. done \in 0 .. Len(Steps) /\ reached \in 0 .. Len(Steps) /\ restarts \in Nat
    BY SixSteps DEF Init
  <2>4. completed \in BOOLEAN /\ denied \subseteq Tools
    BY DEF Init
  <2>5. QED
    BY <1>1, <2>1, <2>2, <2>3, <2>4, Zenon DEF TypeOK, TaskType
<1>3. \A t \in Tasks : Sound(t)
  BY IdleType DEF Init, Sound, OnTrack, GrantsAll
<1>4. done <= reached /\ Unlocks
  BY DEF Init, Unlocks
<1>5. QED
  BY <1>2, <1>3, <1>4 DEF OnboardingInv, Sound

LEMMA AdvanceKeeps ==
    ASSUME OnboardingInv, NEW t \in Tasks, Advance(t)
    PROVE  OnboardingInv'
<1> DEFINE after == [task[t] EXCEPT !.pc = "advancing", !.seen = done]
<1>1. /\ after \in TaskType /\ task' = [task EXCEPT ![t] = after]
      /\ after.pc = "advancing" /\ after.seen = done
  BY DEF OnboardingInv, TypeOK, TaskType, Advance, Phases
<1> HIDE DEF after
<1>2. TypeOK'
  BY <1>1 DEF OnboardingInv, TypeOK, TaskType, Advance, progress
<1>3. Sound(t)'
  BY <1>1, SixSteps DEF OnboardingInv, TypeOK, Advance, progress, Sound, OnTrack, GrantsAll
<1>4. QED
  BY <1>1, <1>2, <1>3, StepSound DEF OnboardingInv, TypeOK, Advance, progress

LEMMA VisitKeeps ==
    ASSUME OnboardingInv, NEW t \in Tasks, Visit(t)
    PROVE  OnboardingInv'
<1> DEFINE after == [task[t] EXCEPT !.pc = "visiting", !.seen = done]
<1>1. /\ after \in TaskType /\ task' = [task EXCEPT ![t] = after]
      /\ after.pc = "visiting" /\ after.seen = done
  BY DEF OnboardingInv, TypeOK, TaskType, Visit, Phases
<1> HIDE DEF after
<1>2. TypeOK'
  BY <1>1 DEF OnboardingInv, TypeOK, TaskType, Visit, progress
<1>3. Sound(t)'
  BY <1>1, SixSteps DEF OnboardingInv, TypeOK, Visit, progress, Sound, OnTrack, GrantsAll
<1>4. QED
  BY <1>1, <1>2, <1>3, StepSound DEF OnboardingInv, TypeOK, Visit, progress

LEMMA SaveStepKeeps ==
    ASSUME OnboardingInv, NEW t \in Tasks, SaveStep(t)
    PROVE  OnboardingInv'
<1>1. task[t].seen \in 0 .. 5 /\ task[t].seen <= reached
  BY SixSteps DEF OnboardingInv, TypeOK, OnTrack, SaveStep
<1>2. /\ done' = task[t].seen + 1 /\ done' <= reached' /\ reached <= reached'
      /\ reached' \in {reached, done'}
  BY <1>1, SixSteps DEF OnboardingInv, TypeOK, SaveStep, SetDone
<1>3. task' \in [Tasks -> TaskType] /\ task'[t] = Idle
  BY IdleType DEF OnboardingInv, TypeOK, TaskType, SaveStep, Return
<1>4. TypeOK'
  BY <1>1, <1>2, <1>3, SixSteps DEF OnboardingInv, TypeOK, TaskType, SaveStep
<1>5. Sound(t)'
  BY <1>3, IdleType DEF Sound, OnTrack, GrantsAll
<1>6. QED
  BY <1>2, <1>4, <1>5, StepSound DEF OnboardingInv, TypeOK, SaveStep, Return

LEMMA CompleteKeeps ==
    ASSUME OnboardingInv, NEW t \in Tasks, Complete(t)
    PROVE  OnboardingInv'
<1> DEFINE after == [task[t] EXCEPT !.pc = "completing", !.seen = done]
<1>1. /\ after \in TaskType /\ task' = [task EXCEPT ![t] = after]
      /\ after.pc = "completing" /\ after.seen = done
  BY DEF OnboardingInv, TypeOK, TaskType, Complete, Phases
<1> HIDE DEF after
<1>2. TypeOK'
  BY <1>1 DEF OnboardingInv, TypeOK, TaskType, Complete, progress
<1>3. Sound(t)'
  BY <1>1, SixSteps DEF OnboardingInv, TypeOK, Complete, MayComplete, progress, Sound, OnTrack, GrantsAll
<1>4. QED
  BY <1>1, <1>2, <1>3, StepSound DEF OnboardingInv, TypeOK, Complete, progress

LEMMA FlushKeeps ==
    ASSUME OnboardingInv, NEW t \in Tasks, Flush(t)
    PROVE  OnboardingInv'
<1> DEFINE after == [task[t] EXCEPT !.pc = "granting", !.left = Tools]
<1>1. /\ after \in TaskType /\ task' = [task EXCEPT ![t] = after]
      /\ after.pc = "granting" /\ after.left = Tools
  BY DEF OnboardingInv, TypeOK, TaskType, Flush, Phases
<1> HIDE DEF after
<1>2. TypeOK'
  BY <1>1 DEF OnboardingInv, TypeOK, TaskType, Flush, progress
<1>3. Sound(t)'
  BY <1>1 DEF OnboardingInv, TypeOK, Flush, progress, Sound, OnTrack, GrantsAll
<1>4. QED
  BY <1>1, <1>2, <1>3, StepSound DEF OnboardingInv, TypeOK, Flush, progress

LEMMA LookUpKeeps ==
    ASSUME OnboardingInv, NEW t \in Tasks, NEW k \in Tools, LookUp(t, k)
    PROVE  OnboardingInv'
<1> DEFINE here == IF row[k] = "absent" THEN "inserting" ELSE task[t].pc
           tool == IF row[k] = "absent" THEN k ELSE task[t].tool
           after == [task[t] EXCEPT !.left = @ \ {k}, !.pc = here, !.tool = tool]
<1>1. after \in TaskType /\ task' = [task EXCEPT ![t] = after]
  BY DEF OnboardingInv, TypeOK, TaskType, LookUp, Phases
<1>2. TypeOK'
  BY <1>1 DEF OnboardingInv, TypeOK, TaskType, LookUp, progress
<1>3. /\ task'[t].left = task[t].left \ {k} /\ task'[t].new = task[t].new
      /\ row[k] = "absent" => task'[t].pc = "inserting" /\ task'[t].tool = k
      /\ row[k] # "absent" => task'[t].pc = "granting"
  BY <1>1 DEF OnboardingInv, TypeOK, LookUp
<1>4. Sound(t)'
  BY <1>3 DEF OnboardingInv, LookUp, progress, Sound, OnTrack, GrantsAll
<1>5. QED
  BY <1>1, <1>2, <1>4, StepSound DEF OnboardingInv, TypeOK, LookUp, progress

LEMMA InsertKeeps ==
    ASSUME OnboardingInv, NEW t \in Tasks, Insert(t)
    PROVE  OnboardingInv'
<1> DEFINE more == [task[t] EXCEPT !.pc = "granting", !.tool = "none",
                                   !.new = @ \cup {task[t].tool}]
<1>1. CASE row[task[t].tool] # "absent"
  <2>1. task' = [task EXCEPT ![t] = Idle]
    BY <1>1 DEF Insert, Return
  <2>2. TypeOK'
    BY <2>1, IdleType DEF OnboardingInv, TypeOK, TaskType, Insert, progress
  <2>3. Sound(t)'
    BY <2>1, IdleType DEF OnboardingInv, TypeOK, Sound, OnTrack, GrantsAll
  <2>4. QED
    BY <2>1, <2>2, <2>3, StepSound DEF OnboardingInv, TypeOK, Insert, progress
<1>2. CASE row[task[t].tool] = "absent"
  <2>1. task[t].tool \in Tools
    BY DEF OnboardingInv, OnTrack, Insert
  <2>2. more \in TaskType /\ task' = [task EXCEPT ![t] = more]
    BY <1>2, <2>1 DEF OnboardingInv, TypeOK, TaskType, Insert, Phases
  <2>3. TypeOK'
    BY <2>2 DEF OnboardingInv, TypeOK, TaskType, Insert, progress
  <2>4. /\ task'[t].pc = "granting" /\ task'[t].left = task[t].left
        /\ task'[t].new = task[t].new \cup {task[t].tool}
    BY <2>2 DEF OnboardingInv, TypeOK
  <2>5. Sound(t)'
    BY <2>4 DEF OnboardingInv, Insert, progress, Sound, OnTrack, GrantsAll
  <2>6. QED
    BY <2>2, <2>3, <2>5, StepSound DEF OnboardingInv, TypeOK, Insert, progress
<1>3. QED
  BY <1>1, <1>2

LEMMA CommitKeeps ==
    ASSUME OnboardingInv, NEW t \in Tasks, Commit(t)
    PROVE  OnboardingInv'
<1>1. /\ task' = [task EXCEPT ![t] = AfterCommit(t)]
      /\ AfterCommit(t) \in TaskType /\ AfterCommit(t).pc \in {"idle", "job"}
  BY IdleType DEF OnboardingInv, TypeOK, TaskType, Commit, AfterCommit, Idle, Phases
<1>2. done' = 6 /\ reached' = 6 /\ reached <= 6
  BY SixSteps DEF OnboardingInv, TypeOK, Commit, SetDone
<1>3. \A k \in Tools : row'[k] = IF k \in task[t].new THEN "REQUESTED" ELSE row[k]
  BY DEF Commit
<1>4. TypeOK'
  BY <1>1, <1>2, SixSteps DEF OnboardingInv, TypeOK, TaskType, Commit, Statuses
<1>5. Sound(t)'
  BY <1>1 DEF OnboardingInv, TypeOK, Sound, OnTrack, GrantsAll
<1>6. Unlocks'
  BY <1>3 DEF OnboardingInv, GrantsAll, Commit, Unlocks
<1>7. QED
  BY <1>1, <1>2, <1>3, <1>4, <1>5, <1>6, StepSound DEF OnboardingInv, TypeOK, Commit

(* What the job goes on with after a row.                                  *)
LEMMA JobReturnsType ==
    ASSUME TypeOK, NEW t \in Tasks, NEW k, task[t].pc \in {"job", "serving"}
    PROVE  JobReturns(t, k) \in TaskType /\ JobReturns(t, k).pc \in {"idle", "job"}
BY IdleType DEF TypeOK, TaskType, JobReturns, Phases

LEMMA LoadKeeps ==
    ASSUME OnboardingInv, NEW t \in Tasks, NEW k \in Tools, Load(t, k)
    PROVE  OnboardingInv'
<1> DEFINE loaded == [task[t] EXCEPT !.pc = "loaded", !.tool = k]
           after == IF row[k] = "REQUESTED" THEN loaded ELSE JobReturns(t, k)
<1>1. loaded \in TaskType /\ loaded.pc = "loaded"
  BY DEF OnboardingInv, TypeOK, TaskType, Phases
<1>2. task' = [task EXCEPT ![t] = after]
  BY DEF Load, OnboardingInv, TypeOK
<1>3. after \in TaskType /\ after.pc \in {"idle", "job", "loaded"}
  BY <1>1, JobReturnsType DEF OnboardingInv, Load
<1> HIDE DEF after
<1>4. TypeOK'
  BY <1>2, <1>3 DEF OnboardingInv, TypeOK, TaskType, Load, progress
<1>5. Sound(t)'
  BY <1>2, <1>3 DEF OnboardingInv, TypeOK, Sound, OnTrack, GrantsAll
<1>6. QED
  BY <1>2, <1>4, <1>5, StepSound DEF OnboardingInv, TypeOK, Load, progress

LEMMA ClaimKeeps ==
    ASSUME OnboardingInv, NEW t \in Tasks, Claim(t)
    PROVE  OnboardingInv'
<1> DEFINE after == [task[t] EXCEPT !.pc = "serving"]
<1>1. /\ after \in TaskType /\ task' = [task EXCEPT ![t] = after]
      /\ after.pc = "serving"
  BY DEF OnboardingInv, TypeOK, TaskType, Claim, Phases
<1>2. row' \in [Tools -> Statuses] /\ \A j \in Tools : row[j] # "absent" => row'[j] # "absent"
  BY DEF OnboardingInv, TypeOK, Claim, Statuses
<1>3. UNCHANGED <<commitFirst, done, completed, reached, denied, restarts>>
  BY DEF Claim, progress
<1> HIDE DEF after
<1>4. TypeOK'
  BY <1>1, <1>2, <1>3 DEF OnboardingInv, TypeOK, TaskType
<1>5. Sound(t)'
  BY <1>1 DEF OnboardingInv, TypeOK, Sound, OnTrack, GrantsAll
<1>6. QED
  BY <1>1, <1>2, <1>3, <1>4, <1>5, StepSound DEF OnboardingInv, TypeOK

LEMMA ServeKeeps ==
    ASSUME OnboardingInv, NEW t \in Tasks, Serve(t)
    PROVE  OnboardingInv'
<1> DEFINE after == JobReturns(t, task[t].tool)
<1>1. task' = [task EXCEPT ![t] = after]
  BY DEF Serve
<1>2. after \in TaskType /\ after.pc \in {"idle", "job", "serving"}
  BY JobReturnsType DEF OnboardingInv, Serve
<1>3. row' \in [Tools -> Statuses] /\ \A j \in Tools : row[j] # "absent" => row'[j] # "absent"
  BY DEF OnboardingInv, TypeOK, Serve, Statuses
<1> HIDE DEF after
<1>4. TypeOK'
  BY <1>1, <1>2, <1>3 DEF OnboardingInv, TypeOK, TaskType, Serve, progress
<1>5. Sound(t)'
  BY <1>1, <1>2 DEF OnboardingInv, TypeOK, Sound, OnTrack, GrantsAll
<1>6. QED
  BY <1>1, <1>3, <1>4, <1>5, StepSound DEF OnboardingInv, TypeOK, Serve, progress

(* What others do to an access leaves a row, or is the denial that is      *)
(* remembered.                                                             *)
LEMMA OthersKeep ==
    ASSUME OnboardingInv, NEW k \in Tools,
           RequestAccess(k) \/ Grant(k) \/ Approve(k) \/ Deny(k) \/ Revoke(k)
    PROVE  OnboardingInv'
<1>1. PICK to \in Statuses : row' = [row EXCEPT ![k] = to] /\ (to = "absent" => k \in denied')
  BY DEF RequestAccess, Grant, Approve, Deny, Revoke, Others, Statuses
<1>2. /\ UNCHANGED <<commitFirst, done, completed, reached, task, restarts>>
      /\ denied \subseteq denied' /\ denied' \subseteq Tools
  BY DEF OnboardingInv, TypeOK, RequestAccess, Grant, Approve, Deny, Revoke, Others, progress
<1>3. TypeOK'
  BY <1>1, <1>2 DEF OnboardingInv, TypeOK
<1>4. \A j \in Tools \ denied' : row[j] # "absent" => row'[j] # "absent"
  BY <1>1 DEF OnboardingInv, TypeOK
<1>5. \A t \in Tasks : Sound(t)'
  BY <1>2, <1>3, <1>4, OthersSound DEF OnboardingInv, Sound, TypeOK
<1>6. Unlocks'
  BY <1>2, <1>4 DEF OnboardingInv, Unlocks
<1>7. QED
  BY <1>2, <1>3, <1>5, <1>6 DEF OnboardingInv, Sound

LEMMA RestartKeeps ==
    ASSUME OnboardingInv, Restart
    PROVE  OnboardingInv'
<1>1. TypeOK'
  BY IdleType DEF OnboardingInv, TypeOK, TaskType, Restart, progress
<1>2. \A t \in Tasks : Sound(t)'
  BY IdleType DEF Restart, Sound, OnTrack, GrantsAll
<1>3. QED
  BY <1>1, <1>2 DEF OnboardingInv, Sound, Restart, progress, Unlocks

LEMMA InvStep == OnboardingInv /\ [Next]_vars => OnboardingInv'
<1> SUFFICES ASSUME OnboardingInv, [Next]_vars PROVE OnboardingInv'
  OBVIOUS
<1>1. CASE UNCHANGED vars
  BY <1>1 DEF vars, OnboardingInv, TypeOK, Unlocks, OnTrack, GrantsAll
<1>2. ASSUME NEW t \in Tasks, Advance(t) \/ Visit(t) \/ Complete(t) PROVE OnboardingInv'
  BY <1>2, AdvanceKeeps, VisitKeeps, CompleteKeeps
<1>3. ASSUME NEW t \in Tasks, Step(t) PROVE OnboardingInv'
  BY <1>3, SaveStepKeeps, FlushKeeps, InsertKeeps, CommitKeeps, LookUpKeeps, LoadKeeps,
     ClaimKeeps, ServeKeeps DEF Step
<1>4. QED
  BY <1>1, <1>2, <1>3, OthersKeep, RestartKeeps DEF Next

(* What a request knows between its read and its commit holds then.        *)
THEOREM Invariant == Spec => []OnboardingInv
BY InvInit, InvStep, PTL DEF Spec

-----------------------------------------------------------------------------
(* Completions take turns, and their rows are not there before the commit. *)

(* A step after which who has the record, or is about to, is where it was, *)
(* and the rows of the keys it holds are not touched.                      *)
LEMMA RecordKeeps ==
    ASSUME CompletionInv,
           \A u \in Tasks : task'[u].pc \in Locking \cup {"completing"} => task'[u] = task[u],
           \A u \in Tasks, k \in Tools : HoldsKey(u, k) /\ HoldsKey(u, k)' => row'[k] = row[k]
    PROVE  OneCompletes' /\ KeysKept' /\ NothingNew'
<1>1. OneCompletes'
  BY DEF CompletionInv, OneCompletes
<1>2. KeysKept'
  BY DEF CompletionInv, KeysKept, HoldsKey
<1>3. NothingNew'
  BY DEF CompletionInv, NothingNew
<1>4. QED
  BY <1>1, <1>2, <1>3

(* A step that gives no job a tool and puts no job to work, and after      *)
(* which a tool that is worked on is what it was, or revoked.              *)
LEMMA JobsKeep ==
    ASSUME CompletionInv,
           \A u \in Tasks : task'[u].pc \in Working =>
               task[u].pc \in Working /\ task'[u].new \subseteq task[u].new,
           \A u \in Tasks : task'[u].pc \in AtWork =>
               /\ task'[u] = task[u]
               /\ row'[task[u].tool] \in {row[task[u].tool], "REVOKED"},
           \A k \in Tools : row[k] \notin Undecided => row'[k] \notin Undecided
    PROVE  ServedByOne'
<1>1. ASSUME NEW t \in Tasks, NEW u \in Tasks, task'[t].pc \in Working, task'[u].pc \in Working,
             task'[t].new \cap task'[u].new # {}
      PROVE  t = u
  BY <1>1 DEF CompletionInv, ServedByOne
<1>2. ASSUME NEW t \in Tasks, task'[t].pc \in Working, NEW k \in Tools, k \in task'[t].new
      PROVE  row'[k] \notin Undecided
  BY <1>2 DEF CompletionInv, ServedByOne
<1>3. ASSUME NEW t \in Tasks, task'[t].pc \in AtWork
      PROVE  /\ task'[t].tool \in Tools /\ task'[t].tool \in task'[t].new
             /\ row'[task'[t].tool] \in
                    {"REVOKED", IF task'[t].pc = "loaded" THEN "REQUESTED" ELSE "PROVISIONING"}
  BY <1>3 DEF CompletionInv, ServedByOne
<1>4. QED
  BY <1>1, <1>2, <1>3 DEF ServedByOne

(* A step of task t that changes no row and is none of a job.              *)
LEMMA QuietKeeps ==
    ASSUME OnboardingInv, CompletionInv, NEW t \in Tasks, row' = row,
           \A u \in Tasks \ {t} : task'[u] = task[u],
           task'[t].pc \notin Working,
           task'[t].pc \in Locking =>
               \/ task[t].pc \in Locking
               \/ \A u \in Tasks \ {t} : task[u].pc \notin Locking,
           \A k \in Tools : HoldsKey(t, k)' => HoldsKey(t, k) \/ row[k] = "absent",
           task'[t].pc = "completing" => task'[t].new = {}
    PROVE  CompletionInv'
<1>1. OneCompletes'
  BY DEF CompletionInv, OneCompletes
<1>2. KeysKept'
  <2>1. ASSUME NEW u \in Tasks, NEW k \in Tools, HoldsKey(u, k)'
        PROVE  row[k] = "absent"
    <3>1. u # t => HoldsKey(u, k)
      BY <2>1 DEF HoldsKey
    <3>2. QED
      BY <2>1, <3>1 DEF CompletionInv, KeysKept
  <2>2. QED
    BY <2>1 DEF KeysKept
<1>3. ServedByOne'
  BY JobsKeep DEF Working, AtWork
<1>4. NothingNew'
  BY DEF CompletionInv, NothingNew
<1>5. QED
  BY <1>1, <1>2, <1>3, <1>4 DEF CompletionInv

LEMMA SoleCompletion ==
    ASSUME CompletionInv, NEW t \in Tasks, task[t].pc \in Locking
    PROVE  \A u \in Tasks \ {t} : task[u].pc \notin Locking
BY DEF CompletionInv, OneCompletes

LEMMA AdvancingKeeps ==
    ASSUME OnboardingInv, CompletionInv, NEW t \in Tasks,
           Advance(t) \/ Visit(t) \/ Complete(t) \/ SaveStep(t)
    PROVE  CompletionInv'
<1>1. row' = row
  BY DEF Advance, Visit, Complete, SaveStep
<1>2. \A u \in Tasks \ {t} : task'[u] = task[u]
  BY DEF OnboardingInv, TypeOK, Advance, Visit, Complete, SaveStep, Return
<1>3. task'[t].pc \in {"advancing", "visiting", "completing", "idle"}
  BY IdleType DEF OnboardingInv, TypeOK, Advance, Visit, Complete, SaveStep, Return
<1>4. task'[t].pc = "completing" => task'[t].new = {}
  BY IdleType DEF OnboardingInv, TypeOK, Advance, Visit, Complete, SaveStep, Return, Idle
<1>5. QED
  BY <1>1, <1>2, <1>3, <1>4, QuietKeeps DEF Locking, Working, HoldsKey

(* A new row belongs to the completion that inserts it.                    *)
LEMMA CompletingKeeps ==
    ASSUME OnboardingInv, CompletionInv, NEW t \in Tasks,
           \/ Flush(t) \/ Insert(t)
           \/ \E k \in Tools : LookUp(t, k)
    PROVE  CompletionInv'
<1>1. row' = row /\ \A u \in Tasks \ {t} : task'[u] = task[u]
  BY DEF OnboardingInv, TypeOK, Flush, Insert, LookUp, Return
<1>2. CASE Flush(t)
  <2>1. task'[t].pc = "granting" /\ \A u \in Tasks \ {t} : task[u].pc \notin Locking
    BY <1>2 DEF OnboardingInv, TypeOK, Flush, Waits, WaitsFor
  <2>2. \A k \in Tools : ~HoldsKey(t, k)'
    <3>1. task'[t].new = task[t].new
      BY <1>2 DEF OnboardingInv, TypeOK, Flush
    <3>2. task[t].new = {}
      BY <1>2 DEF CompletionInv, NothingNew, Flush
    <3>3. QED
      BY <3>1, <3>2 DEF HoldsKey
  <2>3. QED
    BY <1>1, <2>1, <2>2, QuietKeeps DEF Working
<1>3. CASE \E k \in Tools : LookUp(t, k)
  <2>1. PICK k \in Tools : LookUp(t, k)
    BY <1>3
  <2>2. /\ task[t].pc = "granting" /\ task'[t].pc \in {"granting", "inserting"}
        /\ task'[t].new = task[t].new
    <3> DEFINE here == IF row[k] = "absent" THEN "inserting" ELSE task[t].pc
               tool == IF row[k] = "absent" THEN k ELSE task[t].tool
    <3>1. task'[t] = [task[t] EXCEPT !.left = @ \ {k}, !.pc = here, !.tool = tool]
      BY <2>1 DEF OnboardingInv, TypeOK, LookUp
    <3>2. task[t] \in TaskType /\ task[t].pc = "granting"
      BY <2>1 DEF OnboardingInv, TypeOK, TaskType, LookUp
    <3>3. task'[t].pc = here /\ task'[t].new = task[t].new
      BY <3>1, <3>2 DEF TaskType
    <3>4. QED
      BY <3>2, <3>3
  <2>3. QED
    BY <1>1, <2>2, QuietKeeps DEF HoldsKey, Locking, Working
<1>4. CASE Insert(t)
  <2>1. task[t].pc \in Locking /\ task'[t].pc \in {"idle", "granting"}
    BY <1>4, IdleType DEF OnboardingInv, TypeOK, Insert, Return, Locking
  <2>2. task'[t].pc = "granting" =>
            row[task[t].tool] = "absent" /\ task'[t].new = task[t].new \cup {task[t].tool}
    BY <1>4, IdleType DEF OnboardingInv, TypeOK, Insert, Return
  <2>3. QED
    BY <1>1, <2>1, <2>2, QuietKeeps DEF HoldsKey, Locking, Working
<1>5. QED
  BY <1>2, <1>3, <1>4

LEMMA CommitKeepsRows ==
    ASSUME OnboardingInv, CompletionInv, NEW t \in Tasks, Commit(t)
    PROVE  CompletionInv'
<1>1. /\ task'[t].pc \in {"idle", "job"} /\ task'[t].new \subseteq task[t].new
      /\ \A u \in Tasks \ {t} : task'[u] = task[u]
  BY IdleType DEF OnboardingInv, TypeOK, Commit, AfterCommit, Idle
<1>2. /\ task[t].pc \in Locking
      /\ \A u \in Tasks \ {t} : task[u].pc \notin Locking
  BY SoleCompletion DEF Commit, Locking
<1>3. \A u \in Tasks : task'[u].pc \in Locking \cup {"completing"} => task'[u] = task[u]
  BY <1>1 DEF Locking
<1>4. \A u \in Tasks, k \in Tools : ~ (HoldsKey(u, k) /\ HoldsKey(u, k)')
  BY <1>1, <1>2 DEF HoldsKey, Locking
<1>5. /\ \A k \in Tools : k \in task[t].new => row[k] = "absent" /\ row'[k] = "REQUESTED"
      /\ \A k \in Tools : k \notin task[t].new => row'[k] = row[k]
      /\ task[t].new \subseteq Tools
  BY <1>2 DEF OnboardingInv, TypeOK, CompletionInv, KeysKept, HoldsKey, Commit
<1>6. ServedByOne'
  <2>1. ASSUME NEW u \in Tasks \ {t}, task'[u].pc \in Working
        PROVE  /\ task[u].pc \in Working /\ task[u].new \cap task'[t].new = {}
               /\ \A k \in Tools : k \in task[u].new => row'[k] = row[k]
    BY <1>1, <1>5, <2>1 DEF CompletionInv, ServedByOne, Undecided
  <2>2. \A u \in Tasks, v \in Tasks : task'[u].pc \in Working /\ task'[v].pc \in Working
            /\ task'[u].new \cap task'[v].new # {} => u = v
    BY <1>1, <2>1 DEF CompletionInv, ServedByOne
  <2>3. ASSUME NEW u \in Tasks, task'[u].pc \in Working, NEW k \in Tools, k \in task'[u].new
        PROVE  row'[k] \notin Undecided
    BY <1>1, <1>5, <2>1, <2>3 DEF CompletionInv, ServedByOne, Undecided
  <2>4. ASSUME NEW u \in Tasks, task'[u].pc \in AtWork
        PROVE  /\ u # t /\ task'[u] = task[u] /\ task[u].tool \in Tools
               /\ task[u].tool \in task[u].new /\ row'[task[u].tool] = row[task[u].tool]
    BY <1>1, <2>1, <2>4 DEF CompletionInv, ServedByOne, Working, AtWork
  <2>5. \A u \in Tasks : task'[u].pc \in AtWork =>
            /\ task'[u].tool \in Tools /\ task'[u].tool \in task'[u].new
            /\ row'[task'[u].tool] \in
                   {"REVOKED", IF task'[u].pc = "loaded" THEN "REQUESTED" ELSE "PROVISIONING"}
    BY <2>4 DEF CompletionInv, ServedByOne
  <2>6. QED
    BY <2>2, <2>3, <2>5 DEF ServedByOne
<1>7. QED
  BY <1>3, <1>4, <1>6, RecordKeeps DEF CompletionInv

(* Going on to the next tool, or to the end.                               *)
LEMMA JobReturnsKeeps ==
    ASSUME OnboardingInv, NEW t \in Tasks, NEW k \in Tools, task[t].pc \in {"job", "serving"},
           task' = [task EXCEPT ![t] = JobReturns(t, k)]
    PROVE  /\ task'[t].pc \in {"idle", "job"} /\ task'[t].new \subseteq task[t].new
           /\ \A u \in Tasks \ {t} : task'[u] = task[u]
<1>1. JobReturns(t, k).pc \in {"idle", "job"}
  BY JobReturnsType DEF OnboardingInv
<1>2. JobReturns(t, k).new \subseteq task[t].new
  BY DEF OnboardingInv, TypeOK, JobReturns, Idle
<1>3. QED
  BY <1>1, <1>2 DEF OnboardingInv, TypeOK

LEMMA LoadKeepsRows ==
    ASSUME OnboardingInv, CompletionInv, NEW t \in Tasks, NEW k \in Tools, Load(t, k)
    PROVE  CompletionInv'
<1>1. row' = row /\ \A u \in Tasks \ {t} : task'[u] = task[u]
  BY DEF OnboardingInv, TypeOK, Load
<1>2. CASE row[k] # "REQUESTED"
  <2>1. task' = [task EXCEPT ![t] = JobReturns(t, k)] /\ task[t].pc = "job"
    BY <1>2 DEF Load
  <2>2. task'[t].pc \in {"idle", "job"} /\ task'[t].new \subseteq task[t].new
    BY <2>1, JobReturnsKeeps
  <2>3. ServedByOne'
    BY <1>1, <2>1, <2>2, JobsKeep DEF Working, AtWork
  <2>4. OneCompletes' /\ KeysKept' /\ NothingNew'
    BY <1>1, <2>2, RecordKeeps DEF Locking
  <2>5. QED
    BY <2>3, <2>4 DEF CompletionInv
<1>3. CASE row[k] = "REQUESTED"
  <2>1. /\ task'[t].pc = "loaded" /\ task'[t].tool = k /\ task'[t].new = task[t].new
        /\ task[t].pc = "job" /\ k \in task[t].new
    BY <1>3 DEF OnboardingInv, TypeOK, Load
  <2>2. OneCompletes' /\ KeysKept' /\ NothingNew'
    BY <1>1, <2>1, RecordKeeps DEF Locking
  <2>3. \A u \in Tasks : (task'[u].pc \in Working <=> task[u].pc \in Working) /\ task'[u].new = task[u].new
    BY <1>1, <2>1 DEF Working
  <2>4. \A u \in Tasks : task'[u].pc \in AtWork =>
            /\ task'[u].tool \in Tools /\ task'[u].tool \in task'[u].new
            /\ row'[task'[u].tool] \in
                   {"REVOKED", IF task'[u].pc = "loaded" THEN "REQUESTED" ELSE "PROVISIONING"}
    BY <1>1, <1>3, <2>1 DEF CompletionInv, ServedByOne
  <2>5. ServedByOne'
    BY <1>1, <2>3, <2>4 DEF CompletionInv, ServedByOne
  <2>6. QED
    BY <2>2, <2>5 DEF CompletionInv
<1>4. QED
  BY <1>2, <1>3

LEMMA ClaimKeepsRows ==
    ASSUME OnboardingInv, CompletionInv, NEW t \in Tasks, Claim(t)
    PROVE  CompletionInv'
<1> DEFINE k == task[t].tool
<1>1. /\ task[t].pc = "loaded" /\ task'[t].pc = "serving"
      /\ task'[t].tool = k /\ task'[t].new = task[t].new
      /\ \A u \in Tasks \ {t} : task'[u] = task[u]
  BY DEF OnboardingInv, TypeOK, Claim
<1>2. k \in Tools /\ k \in task[t].new /\ row[k] \notin Undecided
  BY <1>1 DEF CompletionInv, ServedByOne, Working, AtWork
<1>3. row'[k] = "PROVISIONING" /\ \A j \in Tools \ {k} : row'[j] = row[j]
  BY <1>2 DEF OnboardingInv, TypeOK, Claim
<1>4. \A u \in Tasks : ~HoldsKey(u, k)
  BY <1>2 DEF CompletionInv, KeysKept, Undecided
<1> HIDE DEF k
<1>5. OneCompletes' /\ KeysKept' /\ NothingNew'
  BY <1>1, <1>3, <1>4, RecordKeeps DEF Locking
<1>6. \A u \in Tasks : (task'[u].pc \in Working <=> task[u].pc \in Working) /\ task'[u].new = task[u].new
  BY <1>1 DEF Working
<1>7. ASSUME NEW u \in Tasks \ {t}, task'[u].pc \in AtWork
      PROVE  task'[u] = task[u] /\ task[u].tool # k
  <2>1. task[u].tool \in task[u].new
    BY <1>1, <1>7 DEF CompletionInv, ServedByOne
  <2>2. task[u].new \cap task[t].new = {}
    BY <1>1, <1>7 DEF CompletionInv, ServedByOne, Working, AtWork
  <2>3. QED
    BY <1>1, <1>2, <2>1, <2>2
<1>8. \A u \in Tasks : task'[u].pc \in AtWork =>
          /\ task'[u].tool \in Tools /\ task'[u].tool \in task'[u].new
          /\ row'[task'[u].tool] \in
                 {"REVOKED", IF task'[u].pc = "loaded" THEN "REQUESTED" ELSE "PROVISIONING"}
  BY <1>1, <1>2, <1>3, <1>7 DEF CompletionInv, ServedByOne
<1>9. \A u \in Tasks : task'[u].pc \in Working =>
          \A j \in Tools : j \in task'[u].new => row'[j] \notin Undecided
  BY <1>3, <1>6 DEF CompletionInv, ServedByOne, Undecided
<1>10. \A u, v \in Tasks : task'[u].pc \in Working /\ task'[v].pc \in Working
           /\ task'[u].new \cap task'[v].new # {} => u = v
  BY <1>6 DEF CompletionInv, ServedByOne
<1>11. QED
  BY <1>5, <1>8, <1>9, <1>10 DEF CompletionInv, ServedByOne

LEMMA ServeKeepsRows ==
    ASSUME OnboardingInv, CompletionInv, NEW t \in Tasks, Serve(t)
    PROVE  CompletionInv'
<1>1. /\ task[t].pc = "serving" /\ task[t].tool \in Tools /\ task[t].tool \in task[t].new
      /\ row[task[t].tool] # "absent"
  BY DEF CompletionInv, ServedByOne, Serve, Working, AtWork, Undecided
<1>2. /\ task'[t].pc \in {"idle", "job"} /\ task'[t].new \subseteq task[t].new
      /\ \A u \in Tasks \ {t} : task'[u] = task[u]
  BY <1>1, JobReturnsKeeps DEF Serve
<1>3. /\ row'[task[t].tool] \in {"ACTIVE", "FAILED"}
      /\ \A k \in Tools \ {task[t].tool} : row'[k] = row[k]
  BY <1>1 DEF OnboardingInv, TypeOK, Serve
<1>4. \A u \in Tasks, k \in Tools : HoldsKey(u, k) => row'[k] = row[k]
  BY <1>1, <1>3 DEF CompletionInv, KeysKept
<1>5. OneCompletes' /\ KeysKept' /\ NothingNew'
  BY <1>2, <1>4, RecordKeeps DEF Locking
<1>6. ASSUME NEW u \in Tasks, task'[u].pc \in AtWork
      PROVE  task'[u] = task[u] /\ row'[task[u].tool] = row[task[u].tool]
  <2>1. u # t /\ task'[u] = task[u]
    BY <1>2, <1>6 DEF AtWork
  <2>2. task[u].tool \in Tools /\ task[u].tool \in task[u].new
    BY <1>6, <2>1 DEF CompletionInv, ServedByOne
  <2>3. task[u].new \cap task[t].new = {}
    BY <1>1, <1>6, <2>1 DEF CompletionInv, ServedByOne, Working, AtWork
  <2>4. QED
    BY <1>1, <1>3, <2>1, <2>2, <2>3
<1>7. \A u \in Tasks : task'[u].pc \in Working =>
          task[u].pc \in Working /\ task'[u].new \subseteq task[u].new
  BY <1>1, <1>2 DEF Working
<1>8. \A k \in Tools : row[k] \notin Undecided => row'[k] \notin Undecided
  BY <1>3 DEF Undecided
<1>9. ServedByOne'
  BY <1>6, <1>7, <1>8, JobsKeep
<1>10. QED
  BY <1>5, <1>9 DEF CompletionInv

(* Nobody inserts a row of a key that is held; of a row that has its job   *)
(* there is only the revocation.                                           *)
LEMMA OthersKeepRows ==
    ASSUME OnboardingInv, CompletionInv, NEW k \in Tools,
           RequestAccess(k) \/ Grant(k) \/ Approve(k) \/ Deny(k) \/ Revoke(k)
    PROVE  CompletionInv'
<1>1. task' = task /\ \A j \in Tools \ {k} : row'[j] = row[j]
  BY DEF OnboardingInv, TypeOK, RequestAccess, Grant, Approve, Deny, Revoke, Others
<1>2. ASSUME NEW u \in Tasks
      PROVE  ~HoldsKey(u, k)
  <2>1. row[k] = "absent" => ~HoldsKey(u, k)
    BY DEF RequestAccess, Grant, Approve, Deny, Revoke, Others
  <2>2. QED
    BY <2>1 DEF CompletionInv, KeysKept
<1>3. row[k] \notin Undecided => row'[k] = "REVOKED"
  BY DEF OnboardingInv, TypeOK, RequestAccess, Grant, Approve, Deny, Revoke, Others, Undecided
<1>4. ASSUME NEW u \in Tasks, task'[u].pc \in AtWork
      PROVE  row'[task[u].tool] \in {row[task[u].tool], "REVOKED"}
  <2>1. task[u].tool \in Tools /\ row[task[u].tool] \notin Undecided
    BY <1>1, <1>4 DEF CompletionInv, ServedByOne, Working, AtWork
  <2>2. QED
    BY <1>1, <1>3, <2>1
<1>5. \A j \in Tools : row[j] \notin Undecided => row'[j] \notin Undecided
  BY <1>1, <1>3 DEF Undecided
<1>6. ServedByOne'
  BY <1>1, <1>4, <1>5, JobsKeep
<1>7. OneCompletes' /\ KeysKept' /\ NothingNew'
  BY <1>1, <1>2, RecordKeeps
<1>8. QED
  BY <1>6, <1>7 DEF CompletionInv

LEMMA CompletionInit == Init => CompletionInv
BY IdleType DEF Init, CompletionInv, OneCompletes, KeysKept, NothingNew, ServedByOne, HoldsKey, Locking, Working, AtWork

LEMMA CompletionStep == OnboardingInv /\ CompletionInv /\ [Next]_vars => CompletionInv'
<1> SUFFICES ASSUME OnboardingInv, CompletionInv, [Next]_vars PROVE CompletionInv'
  OBVIOUS
<1>1. CASE UNCHANGED vars
  BY <1>1 DEF vars, CompletionInv, OneCompletes, KeysKept, NothingNew, ServedByOne, HoldsKey
<1>2. ASSUME NEW t \in Tasks, Advance(t) \/ Visit(t) \/ Complete(t) PROVE CompletionInv'
  BY <1>2, AdvancingKeeps
<1>3. ASSUME NEW t \in Tasks, Step(t) PROVE CompletionInv'
  BY <1>3, AdvancingKeeps, CompletingKeeps, CommitKeepsRows, LoadKeepsRows, ClaimKeepsRows,
     ServeKeepsRows DEF Step
<1>4. CASE Restart
  BY <1>4, IdleType DEF Restart, CompletionInv, OneCompletes, KeysKept, NothingNew, ServedByOne,
     HoldsKey, Locking, Working, AtWork
<1>5. QED
  BY <1>1, <1>2, <1>3, <1>4, OthersKeepRows DEF Next

(* Completions take turns, what they have inserted is not there before     *)
(* their commit, and a tool is served by one job.                          *)
THEOREM Completions == Spec => []CompletionInv
BY CompletionInit, CompletionStep, Invariant, PTL DEF Spec

-----------------------------------------------------------------------------
(* The theorems.                                                           *)

(* The record, the rows and the requests keep their types.                 *)
THEOREM Typing == Spec => []TypeOK
BY Invariant, PTL DEF OnboardingInv

(* A completed onboarding has unlocked every tool, but for requests that   *)
(* were denied in its place.                                               *)
THEOREM UnlocksAll == Spec => []Unlocks
BY Invariant, PTL DEF OnboardingInv

LEMMA SaveStepInOrder ==
    ASSUME OnboardingInv, NEW t \in Tasks, SaveStep(t)
    PROVE  UNCHANGED completed /\ GetsFurther
<1>1. /\ task[t].seen \in 0 .. 4 /\ task[t].seen <= reached /\ reached \in 0 .. 6
      /\ task[t].pc \in {"advancing", "visiting"}
  BY SixSteps DEF OnboardingInv, TypeOK, OnTrack, SaveStep
<1>2. /\ reached' = IF task[t].seen + 1 > reached THEN task[t].seen + 1 ELSE reached
      /\ UNCHANGED completed
  BY DEF SaveStep, SetDone
<1>3. ASSUME reached' # reached
      PROVE  reached' = reached + 1 /\ reached' = task[t].seen + 1
  BY <1>1, <1>2, <1>3
<1>4. task[t].pc \in Enders[Steps[task[t].seen + 1]]
  <2>1. CASE task[t].pc = "visiting"
    BY <2>1 DEF OnboardingInv, OnTrack, Enders
  <2>2. CASE task[t].pc = "advancing"
    <3>1. Steps[task[t].seen + 1] \in {"button", "navigate"}
      BY <1>1 DEF Steps
    <3>2. QED
      BY <2>2, <3>1 DEF Enders
  <2>3. QED
    BY <1>1, <2>1, <2>2
<1>5. task'[t] # task[t]
  BY <1>1, IdleType DEF OnboardingInv, TypeOK, SaveStep, Return
<1>6. QED
  BY <1>2, <1>3, <1>4, <1>5 DEF GetsFurther

LEMMA CommitInOrder ==
    ASSUME OnboardingInv, NEW t \in Tasks, Commit(t)
    PROVE  reached >= Len(Steps) - 1 /\ GetsFurther
<1>1. /\ task[t].pc = "granting" /\ reached \in 0 .. 6 /\ reached >= 5
      /\ reached' = 6
  BY SixSteps DEF OnboardingInv, TypeOK, OnTrack, Commit, SetDone
<1>2. task[t].pc \in Enders[Steps[6]]
  BY <1>1, SixSteps DEF Enders
<1>3. task'[t] # task[t]
  BY <1>1, IdleType DEF OnboardingInv, TypeOK, Commit, AfterCommit
<1>4. QED
  BY <1>1, <1>2, <1>3, SixSteps DEF GetsFurther

(* The list of steps is gone through in its order, each step ended by a    *)
(* request the code takes for it, and only who has read that all but the   *)
(* checklist are done completes.  That a step was really done is not said  *)
(* and not so: a click ends a step that wants a visit.                     *)
THEOREM InOrder == Spec => StepByStep
<1>1. ASSUME OnboardingInv, [Next]_vars
      PROVE  [/\ GetsFurther
              /\ ~completed /\ completed' => reached >= Len(Steps) - 1]_vars
  <2>1. ASSUME NEW t \in Tasks, Advance(t) \/ Visit(t) \/ Complete(t)
        PROVE  UNCHANGED <<completed, reached>>
    BY <2>1 DEF Advance, Visit, Complete, progress
  <2>2. ASSUME NEW t \in Tasks, Flush(t) \/ Insert(t) \/ Claim(t) \/ Serve(t)
        PROVE  UNCHANGED <<completed, reached>>
    BY <2>2 DEF Flush, Insert, Claim, Serve, progress
  <2>3. ASSUME NEW t \in Tasks, NEW k \in Tools, LookUp(t, k) \/ Load(t, k)
        PROVE  UNCHANGED <<completed, reached>>
    BY <2>3 DEF LookUp, Load, progress
  <2>4. ASSUME NEW k \in Tools,
               RequestAccess(k) \/ Grant(k) \/ Approve(k) \/ Deny(k) \/ Revoke(k)
        PROVE  UNCHANGED <<completed, reached>>
    BY <2>4 DEF RequestAccess, Grant, Approve, Deny, Revoke, Others, progress
  <2>5. ASSUME Restart
        PROVE  UNCHANGED <<completed, reached>>
    BY <2>5 DEF Restart, progress
  <2>6. UNCHANGED <<completed, reached>> => GetsFurther
    BY DEF GetsFurther
  <2>7. QED
    BY <1>1, <2>1, <2>2, <2>3, <2>4, <2>5, <2>6, SaveStepInOrder, CommitInOrder DEF Next, Step
<1>2. QED
  BY <1>1, Invariant, PTL DEF Spec, StepByStep

(* No set of requests waits in itself, however many tools are unlocked and *)
(* in whichever order: who has the record waits for nobody.                *)
THEOREM DeadlockFree == Spec => []NoDeadlock
<1>1. ASSUME CompletionInv
      PROVE  NoDeadlock
  <2>1. \A t, u \in Tasks : WaitsFor(t, u) => task[t].pc \notin Locking /\ task[u].pc \in Locking
    BY <1>1 DEF CompletionInv, OneCompletes, WaitsFor, HoldsKey, Locking
  <2>2. QED
    BY <2>1 DEF NoDeadlock
<1>2. QED
  BY <1>1, Completions, PTL

-----------------------------------------------------------------------------
(* Rows that wait to be served.                                            *)

LEMMA InHandAfterStep ==
    ASSUME OnboardingInv, CompletionInv, \A k \in Tools : InHand(k), commitFirst,
           NEW t \in Tasks, Step(t)
    PROVE  \A k \in Tools : InHand(k)'
<1>1. CASE SaveStep(t) \/ Flush(t) \/ Insert(t) \/ \E k \in Tools : LookUp(t, k)
  <2>1. /\ row' = row /\ \A u \in Tasks \ {t} : task'[u] = task[u]
        /\ task[t].pc \notin {"job", "loaded", "serving"}
    BY <1>1 DEF OnboardingInv, TypeOK, SaveStep, Flush, Insert, LookUp, Return
  <2>2. QED
    BY <2>1 DEF InHand
<1>2. CASE Commit(t)
  <2>1. /\ task[t].pc = "granting" /\ \A u \in Tasks \ {t} : task'[u] = task[u]
        /\ \A k \in Tools : row'[k] = IF k \in task[t].new THEN "REQUESTED" ELSE row[k]
        /\ task'[t] = AfterCommit(t)
    BY <1>2 DEF OnboardingInv, TypeOK, Commit
  <2>2. task[t].new # {} => task'[t].pc = "job" /\ task'[t].new = task[t].new
    BY <2>1 DEF AfterCommit, Idle
  <2>3. ASSUME NEW k \in Tools
        PROVE  InHand(k)'
    BY <2>1, <2>2 DEF InHand
  <2>4. QED
    BY <2>3
<1>3. CASE \E k \in Tools : Load(t, k)
  <2>1. PICK k \in Tools : Load(t, k)
    BY <1>3
  <2>2. row' = row /\ task[t].pc = "job" /\ \A u \in Tasks \ {t} : task'[u] = task[u]
    BY <2>1 DEF OnboardingInv, TypeOK, Load
  <2>3. CASE row[k] = "REQUESTED"
    <3>1. task'[t].pc = "loaded" /\ task'[t].new = task[t].new
      BY <2>1, <2>3 DEF OnboardingInv, TypeOK, Load
    <3>2. QED
      BY <2>2, <3>1 DEF InHand
  <2>4. CASE row[k] # "REQUESTED"
    <3>1. task'[t] = JobReturns(t, k)
      BY <2>1, <2>4 DEF OnboardingInv, TypeOK, Load
    <3>2. \A j \in Tools \ {k} : j \in task[t].new =>
              task'[t].pc = "job" /\ j \in task'[t].new
      BY <2>2, <3>1 DEF OnboardingInv, TypeOK, JobReturns
    <3>3. ASSUME NEW j \in Tools
          PROVE  InHand(j)'
      BY <2>2, <2>4, <3>2 DEF InHand
    <3>4. QED
      BY <3>3
  <2>5. QED
    BY <2>3, <2>4
<1>4. CASE Claim(t)
  <2>1. /\ task[t].pc = "loaded" /\ task[t].tool \in Tools
        /\ task'[t].pc = "serving" /\ task'[t].tool = task[t].tool /\ task'[t].new = task[t].new
        /\ \A u \in Tasks \ {t} : task'[u] = task[u]
    BY <1>4 DEF OnboardingInv, TypeOK, CompletionInv, ServedByOne, AtWork, Claim
  <2>2. /\ row'[task[t].tool] = "PROVISIONING"
        /\ \A j \in Tools \ {task[t].tool} : row'[j] = row[j]
    BY <1>4, <2>1 DEF OnboardingInv, TypeOK, Claim
  <2>3. ASSUME NEW j \in Tools
        PROVE  InHand(j)'
    BY <2>1, <2>2 DEF InHand
  <2>4. QED
    BY <2>3
<1>5. CASE Serve(t)
  <2>1. task[t].pc = "serving" /\ task[t].tool \in Tools /\ task'[t] = JobReturns(t, task[t].tool)
    BY <1>5 DEF OnboardingInv, TypeOK, CompletionInv, ServedByOne, Serve, AtWork
  <2>2. /\ \A u \in Tasks \ {t} : task'[u] = task[u]
        /\ row'[task[t].tool] \in {"ACTIVE", "FAILED"}
        /\ \A j \in Tools \ {task[t].tool} : row'[j] = row[j]
    BY <1>5, <2>1 DEF OnboardingInv, TypeOK, Serve
  <2>3. \A j \in Tools \ {task[t].tool} : j \in task[t].new =>
            task'[t].pc = "job" /\ j \in task'[t].new
    BY <2>1 DEF OnboardingInv, TypeOK, JobReturns
  <2>4. ASSUME NEW j \in Tools
        PROVE  InHand(j)'
    BY <2>1, <2>2, <2>3 DEF InHand
  <2>5. QED
    BY <2>4
<1>6. QED
  BY <1>1, <1>2, <1>3, <1>4, <1>5 DEF Step

LEMMA InHandStep ==
    ASSUME OnboardingInv, CompletionInv, NothingAbandoned, [Next]_vars
    PROVE  NothingAbandoned'
<1> SUFFICES ASSUME commitFirst', restarts' = 0
             PROVE  \A k \in Tools : InHand(k)'
  BY DEF NothingAbandoned
<1>1. CASE UNCHANGED vars
  BY <1>1 DEF vars, NothingAbandoned, InHand
<1>2. ASSUME NEW t \in Tasks, Advance(t) \/ Visit(t) \/ Complete(t)
      PROVE  \A k \in Tools : InHand(k)'
  <2>1. /\ row' = row /\ \A u \in Tasks \ {t} : task'[u] = task[u]
        /\ task[t].pc = "idle" /\ commitFirst /\ restarts = 0
    BY <1>2, IdleType DEF OnboardingInv, TypeOK, Advance, Visit, Complete
  <2>2. QED
    BY <2>1 DEF NothingAbandoned, InHand
<1>3. ASSUME NEW t \in Tasks, Step(t)
      PROVE  \A k \in Tools : InHand(k)'
  <2>1. commitFirst /\ restarts = 0
    BY <1>3 DEF Step, SaveStep, Flush, Insert, Commit, LookUp, Load, Claim, Serve
  <2>2. QED
    BY <1>3, <2>1, InHandAfterStep DEF NothingAbandoned
<1>4. ASSUME NEW k \in Tools,
             RequestAccess(k) \/ Grant(k) \/ Approve(k) \/ Deny(k) \/ Revoke(k)
      PROVE  \A j \in Tools : InHand(j)'
  <2>1. /\ UNCHANGED <<task, commitFirst, restarts>>
        /\ row'[k] \in {"absent", "PENDING_APPROVAL", "ACTIVE", "REVOKED"}
        /\ \A j \in Tools \ {k} : row'[j] = row[j]
    BY <1>4 DEF OnboardingInv, TypeOK, RequestAccess, Grant, Approve, Deny, Revoke, Others
  <2>2. QED
    BY <2>1 DEF NothingAbandoned, InHand
<1>5. ~Restart
  <2>1. restarts \in Nat
    BY DEF OnboardingInv, TypeOK
  <2>2. restarts' # restarts + 1
    BY <2>1
  <2>3. QED
    BY <2>2 DEF Restart
<1>6. QED
  BY <1>1, <1>2, <1>3, <1>4, <1>5 DEF Next

(* In a build that commits first every row that waits to be served has its *)
(* job, until a restart.                                                   *)
THEOREM NobodyForgotten == Spec => []NothingAbandoned
<1>1. Init => NothingAbandoned
  BY DEF Init, NothingAbandoned, InHand
<1>2. QED
  BY <1>1, InHandStep, Invariant, Completions, PTL DEF Spec

-----------------------------------------------------------------------------
(* Onboarding implements Unlocking.                                        *)

LEMMA UnlockedInit == Init => Unlocked!Init
BY DEF Init, Unlocked!Init

(* Nothing shows of a completion that is under way.                        *)
LEMMA HiddenSteps ==
    ASSUME NEW t \in Tasks,
           \/ Advance(t) \/ Visit(t) \/ Complete(t) \/ Flush(t) \/ Insert(t)
           \/ \E k \in Tools : LookUp(t, k) \/ Load(t, k)
    PROVE  UNCHANGED Unlocked!vars
BY DEF Advance, Visit, Complete, Flush, Insert, LookUp, Load, progress, Unlocked!vars

LEMMA SaveStepShows ==
    ASSUME OnboardingInv, NEW t \in Tasks, SaveStep(t)
    PROVE  \E n \in 1 .. Len(Steps) : Unlocked!Advance(n)
<1> DEFINE n == task[t].seen + 1
<1>1. /\ n \in 1 .. 5 /\ n <= reached + 1 /\ reached \in 0 .. 6
  BY SixSteps DEF OnboardingInv, TypeOK, OnTrack, SaveStep
<1>2. /\ done' = n /\ reached' = (IF n > reached THEN n ELSE reached)
      /\ UNCHANGED <<completed, row, denied>>
  BY DEF SaveStep, SetDone
<1>3. Unlocked!Advance(n)
  BY <1>1, <1>2, SixSteps DEF Unlocked!Advance
<1>4. n \in 1 .. Len(Steps)
  BY <1>1, SixSteps
<1>5. QED
  BY <1>3, <1>4

LEMMA CommitShows ==
    ASSUME OnboardingInv, CompletionInv, NEW t \in Tasks, Commit(t)
    PROVE  \E given \in SUBSET Unlocked!Missing : Unlocked!Complete(given)
<1>1. task[t].new \in SUBSET Unlocked!Missing
  BY DEF OnboardingInv, TypeOK, CompletionInv, KeysKept, HoldsKey, Locking, Commit,
         Unlocked!Missing
<1>2. Unlocked!Missing \ denied \subseteq task[t].new
  BY DEF OnboardingInv, GrantsAll, Commit, Unlocked!Missing
<1>3. /\ reached >= Len(Steps) - 1
      /\ done' = Len(Steps) /\ reached' = Len(Steps) /\ completed'
  BY SixSteps DEF OnboardingInv, TypeOK, OnTrack, Commit, SetDone
<1>4. Unlocked!Complete(task[t].new)
  BY <1>2, <1>3 DEF Commit, Unlocked!Complete
<1>5. QED
  BY <1>1, <1>4

(* The job takes a status on that its read, or its claim, has left there,  *)
(* or takes a revocation back.                                             *)
LEMMA JobShows ==
    ASSUME OnboardingInv, CompletionInv, NEW t \in Tasks, Claim(t) \/ Serve(t)
    PROVE  \E k \in Tools, to \in {"PROVISIONING", "ACTIVE", "FAILED"} : Unlocked!Move(k, to)
<1>1. CASE Claim(t)
  <2>1. task[t].tool \in Tools /\ row[task[t].tool] \in {"REQUESTED", "REVOKED"}
    BY <1>1 DEF CompletionInv, ServedByOne, AtWork, Claim
  <2>2. Unlocked!Move(task[t].tool, "PROVISIONING")
    BY <1>1, <2>1 DEF Claim, progress, Unlocked!Move, Unlocked!Moves
  <2>3. QED
    BY <2>1, <2>2
<1>2. CASE Serve(t)
  <2>1. task[t].tool \in Tools /\ row[task[t].tool] \in {"PROVISIONING", "REVOKED"}
    BY <1>2 DEF CompletionInv, ServedByOne, AtWork, Serve
  <2>2. PICK to \in {"ACTIVE", "FAILED"} : row' = [row EXCEPT ![task[t].tool] = to]
    BY <1>2 DEF Serve
  <2>3. Unlocked!Move(task[t].tool, to)
    BY <1>2, <2>1, <2>2 DEF Serve, progress, Unlocked!Move, Unlocked!Moves
  <2>4. QED
    BY <2>1, <2>3
<1>3. QED
  BY <1>1, <1>2

LEMMA OthersShow ==
    ASSUME OnboardingInv, NEW k \in Tools,
           RequestAccess(k) \/ Grant(k) \/ Approve(k) \/ Deny(k) \/ Revoke(k)
    PROVE  \/ \E to \in {"PENDING_APPROVAL", "ACTIVE"} : Unlocked!Move(k, to)
           \/ Unlocked!Revoke(k) \/ Unlocked!Deny(k)
<1>1. CASE RequestAccess(k)
  BY <1>1 DEF RequestAccess, Others, progress, Unlocked!Move, Unlocked!Moves
<1>2. CASE Grant(k)
  BY <1>2 DEF Grant, Others, progress, Unlocked!Move, Unlocked!Moves
<1>3. CASE Approve(k)
  BY <1>3 DEF Approve, Others, progress, Unlocked!Move, Unlocked!Moves
<1>4. CASE Deny(k)
  BY <1>4 DEF Deny, Others, progress, Unlocked!Deny
<1>5. CASE Revoke(k)
  BY <1>5 DEF Revoke, Others, progress, Unlocked!Revoke
<1>6. QED
  BY <1>1, <1>2, <1>3, <1>4, <1>5

LEMMA UnlockedStep ==
    ASSUME OnboardingInv, CompletionInv, [Next]_vars
    PROVE  Unlocked!Next \/ UNCHANGED Unlocked!vars
<1>1. CASE UNCHANGED vars
  BY <1>1 DEF vars, Unlocked!vars
<1>2. CASE Restart
  BY <1>2 DEF Restart, progress, Unlocked!vars
<1>3. ASSUME NEW t \in Tasks, Advance(t) \/ Visit(t) \/ Complete(t) \/ Step(t)
      PROVE  Unlocked!Next \/ UNCHANGED Unlocked!vars
  <2>1. CASE SaveStep(t)
    BY <2>1, SaveStepShows DEF Unlocked!Next
  <2>2. CASE Commit(t)
    BY <2>2, CommitShows DEF Unlocked!Next
  <2>3. CASE Claim(t) \/ Serve(t)
    BY <2>3, JobShows DEF Unlocked!Next
  <2>4. QED
    BY <1>3, <2>1, <2>2, <2>3, HiddenSteps DEF Step
<1>4. ASSUME NEW k \in Tools,
             RequestAccess(k) \/ Grant(k) \/ Approve(k) \/ Deny(k) \/ Revoke(k)
      PROVE  Unlocked!Next
  BY <1>4, OthersShow DEF Unlocked!Next
<1>5. QED
  BY <1>1, <1>2, <1>3, <1>4 DEF Next

(* A completion is one atomic step, taken at its commit; it touches no     *)
(* access that is there.                                                   *)
THEOREM Implements == Spec => UnlockedAtomically
BY UnlockedInit, UnlockedStep, Invariant, Completions, PTL
   DEF Spec, UnlockedAtomically, Unlocked!Spec

=============================================================================

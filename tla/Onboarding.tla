------------------------------ MODULE Onboarding ------------------------------
(***************************************************************************)
(* The onboarding of one contributor in one lab: the progress record, the  *)
(* handlers of modules/onboarding/router.py that take it through its       *)
(* steps, and the tools its completion grants in one transaction.          *)
(*                                                                         *)
(* steps_completed is a prefix of the lab's steps in every row a handler   *)
(* writes, so the model keeps its length.  The tools in question are the   *)
(* enabled ones of the organization that the lab's policy marks            *)
(* AUTO_ONBOARD.  What a manager or the contributor does to the access to  *)
(* one of them, and the job that comes with it, is one step here: module   *)
(* ToolAccess has the details.                                             *)
(***************************************************************************)
EXTENDS Naturals, Sequences

CONSTANTS
    Tasks,      \* asyncio tasks that may serve a request at the same time
    Tools,      \* the AUTO_ONBOARD tools
    Builds,     \* the builds to look at: TRUE commits a request before its job
    MaxRestarts \* bound on restarts of the server process

ASSUME BuildAssumption == Builds \subseteq BOOLEAN
ASSUME BoundAssumption == MaxRestarts \in Nat

VARIABLES
    commitFirst, \* the build that runs; it never changes
    done,        \* how many steps steps_completed has
    completed,   \* completed_at is set
    row,         \* the provisioning_status of the access to each tool
    task,        \* what each asyncio task is doing
    (* history *)
    reached,     \* the most steps the record ever had
    denied,      \* tools whose pending request was denied
    restarts

vars == <<commitFirst, done, completed, row, task, reached, denied, restarts>>
progress == <<done, completed, reached>>

(* How each step is left: with a click, by visiting a page, or by the      *)
(* checklist, whose click completes the onboarding.                        *)
Steps == <<"button", "navigate", "button", "navigate", "button", "complete">>

Statuses == {"absent", "PENDING_APPROVAL", "REQUESTED", "PROVISIONING", "ACTIVE",
             "FAILED", "REVOKED"}

(* "advancing", "visiting", "completing": the handler of /advance, of      *)
(* /advance-navigate, of /complete has read the record; "granting": it has *)
(* flushed the record and is about to look for the access to the next      *)
(* tool; "inserting": there was none.  "job": the job is between two       *)
(* tools; "loaded": it has read the row of one; "serving": it has          *)
(* committed PROVISIONING and the connector is at work.                    *)
Phases == {"idle", "advancing", "visiting", "completing", "granting", "inserting",
           "job", "loaded", "serving"}

(* seen: the steps the handler read; left: the tools it has still to look  *)
(* at; tool: the one it is at; new: the rows it inserted and, later, the   *)
(* rows its job has still to serve.                                        *)
Idle == [pc |-> "idle", seen |-> 0, left |-> {}, tool |-> "none", new |-> {}]

TypeOK ==
    /\ commitFirst \in BOOLEAN
    /\ done \in 0 .. Len(Steps) /\ reached \in 0 .. Len(Steps)
    /\ completed \in BOOLEAN
    /\ row \in [Tools -> Statuses]
    /\ task \in [Tasks -> [pc: Phases, seen: 0 .. Len(Steps), left: SUBSET Tools,
                           tool: Tools \cup {"none"}, new: SUBSET Tools]]
    /\ denied \subseteq Tools
    /\ restarts \in Nat

Init ==
    /\ commitFirst \in Builds
    /\ done = 0 /\ reached = 0
    /\ completed = FALSE
    /\ row = [k \in Tools |-> "absent"]
    /\ task = [t \in Tasks |-> Idle]
    /\ denied = {}
    /\ restarts = 0

-----------------------------------------------------------------------------
(* Transactions.                                                           *)

(* Who completes holds the record locked until the commit, and the unique  *)
(* keys of the rows inserted so far.                                       *)
Locking == {"granting", "inserting"}

HoldsKey(t, k) == task[t].pc \in Locking /\ k \in task[t].new

WaitsFor(t, u) ==
    /\ u # t
    /\ \/ task[t].pc \in {"advancing", "visiting", "completing"} /\ task[u].pc \in Locking
       \/ task[t].pc = "inserting" /\ HoldsKey(u, task[t].tool)

Waits(t) == \E u \in Tasks : WaitsFor(t, u)

Return(t) == task' = [task EXCEPT ![t] = Idle]

SetDone(n) == done' = n /\ reached' = IF n > reached THEN n ELSE reached

-----------------------------------------------------------------------------
(* The steps.                                                              *)

(* Mutation of Advance: the current step is not looked at.                 *)
AdvanceAnyway(t) ==
    /\ task[t] = Idle
    /\ ~completed
    /\ task' = [task EXCEPT ![t].pc = "advancing", ![t].seen = done]
    /\ UNCHANGED <<commitFirst, progress, row, denied, restarts>>

(* advance_onboarding takes any step but the last, those that are left by  *)
(* visiting a page included: it does not ask how a step is left.           *)
Advance(t) ==
    /\ task[t] = Idle
    /\ ~completed
    /\ done < Len(Steps) /\ Steps[done + 1] # "complete"
    /\ task' = [task EXCEPT ![t].pc = "advancing", ![t].seen = done]
    /\ UNCHANGED <<commitFirst, progress, row, denied, restarts>>

(* advance_onboarding_navigate: the page of the current step was visited.  *)
Visit(t) ==
    /\ task[t] = Idle
    /\ ~completed
    /\ done < Len(Steps) /\ Steps[done + 1] = "navigate"
    /\ task' = [task EXCEPT ![t].pc = "visiting", ![t].seen = done]
    /\ UNCHANGED <<commitFirst, progress, row, denied, restarts>>

(* The list that was read, longer by one, replaces the list that is there. *)
SaveStep(t) ==
    /\ task[t].pc \in {"advancing", "visiting"}
    /\ ~Waits(t)
    /\ SetDone(task[t].seen + 1)
    /\ Return(t)
    /\ UNCHANGED <<commitFirst, completed, row, denied, restarts>>

-----------------------------------------------------------------------------
(* complete_onboarding and grant_onboarding_tools.                         *)

(* Mutation of MayComplete: the current step is not looked at.             *)
MayCompleteAnyway == ~completed

(* All steps but the checklist are done; a completed onboarding is         *)
(* answered without a change.                                              *)
MayComplete == ~completed /\ done >= Len(Steps) - 1

Complete(t) ==
    /\ task[t] = Idle
    /\ MayComplete
    /\ task' = [task EXCEPT ![t].pc = "completing", ![t].seen = done]
    /\ UNCHANGED <<commitFirst, progress, row, denied, restarts>>

(* Mutations of Flush: completing is committed by itself; the record is    *)
(* written after the tools, without a lock until then.                     *)
FlushAndCommit(t) ==
    /\ task[t].pc = "completing"
    /\ ~Waits(t)
    /\ SetDone(Len(Steps)) /\ completed' = TRUE
    /\ task' = [task EXCEPT ![t].pc = "granting", ![t].left = Tools]
    /\ UNCHANGED <<commitFirst, row, denied, restarts>>

FlushLater(t) ==
    /\ task[t].pc = "completing"
    /\ task' = [task EXCEPT ![t].pc = "granting", ![t].left = Tools]
    /\ UNCHANGED <<commitFirst, progress, row, denied, restarts>>

(* The query for the policies flushes the record, and so locks it.         *)
Flush(t) ==
    /\ task[t].pc = "completing"
    /\ ~Waits(t)
    /\ task' = [task EXCEPT ![t].pc = "granting", ![t].left = Tools]
    /\ UNCHANGED <<commitFirst, progress, row, denied, restarts>>

(* A tool the contributor has a row for, in whatever status, is skipped.   *)
LookUp(t, k) ==
    /\ task[t].pc = "granting"
    /\ k \in task[t].left
    /\ task' = [task EXCEPT ![t].left = @ \ {k},
                            ![t].pc = IF row[k] = "absent" THEN "inserting" ELSE @,
                            ![t].tool = IF row[k] = "absent" THEN k ELSE @]
    /\ UNCHANGED <<commitFirst, progress, row, denied, restarts>>

(* Mutation of Insert: a row that is there by then is overwritten.         *)
InsertOrReplace(t) ==
    /\ task[t].pc = "inserting"
    /\ ~Waits(t)
    /\ task' = [task EXCEPT ![t].pc = "granting", ![t].tool = "none",
                            ![t].new = @ \cup {task[t].tool}]
    /\ UNCHANGED <<commitFirst, progress, row, denied, restarts>>

(* A row that somebody has committed meanwhile fails all of it: 500.       *)
Insert(t) ==
    /\ task[t].pc = "inserting"
    /\ ~Waits(t)
    /\ IF row[task[t].tool] # "absent" THEN Return(t)
       ELSE task' = [task EXCEPT ![t].pc = "granting", ![t].tool = "none",
                                 ![t].new = @ \cup {task[t].tool}]
    /\ UNCHANGED <<commitFirst, progress, row, denied, restarts>>

(* Mutation of AfterCommit: the job is handed the last row only.           *)
AfterCommitOne(t) ==
    IF commitFirst /\ task[t].new # {}
    THEN [Idle EXCEPT !.pc = "job", !.new = {CHOOSE k \in task[t].new : TRUE}] ELSE Idle

(* The job over all new rows runs after the commit, or has run before it   *)
(* and found none of them.                                                 *)
AfterCommit(t) ==
    IF commitFirst /\ task[t].new # {}
    THEN [Idle EXCEPT !.pc = "job", !.new = task[t].new] ELSE Idle

Commit(t) ==
    /\ task[t].pc = "granting" /\ task[t].left = {}
    /\ SetDone(Len(Steps)) /\ completed' = TRUE
    /\ row' = [k \in Tools |-> IF k \in task[t].new THEN "REQUESTED" ELSE row[k]]
    /\ task' = [task EXCEPT ![t] = AfterCommit(t)]
    /\ UNCHANGED <<commitFirst, denied, restarts>>

-----------------------------------------------------------------------------
(* The job: process_access for one row after the other, in one session.    *)

JobReturns(t, k) == IF task[t].new = {k} THEN Idle
                    ELSE [task[t] EXCEPT !.pc = "job", !.tool = "none", !.new = @ \ {k}]

(* The status is looked at once, when the row is read.                     *)
Load(t, k) ==
    /\ task[t].pc = "job" /\ k \in task[t].new
    /\ IF row[k] = "REQUESTED"
       THEN task' = [task EXCEPT ![t].pc = "loaded", ![t].tool = k]
       ELSE task' = [task EXCEPT ![t] = JobReturns(t, k)]
    /\ UNCHANGED <<commitFirst, progress, row, denied, restarts>>

(* The queries for the tool and the user are over: PROVISIONING replaces   *)
(* whatever the status is by then.                                         *)
Claim(t) ==
    /\ task[t].pc = "loaded"
    /\ row' = [row EXCEPT ![task[t].tool] = "PROVISIONING"]
    /\ task' = [task EXCEPT ![t].pc = "serving"]
    /\ UNCHANGED <<commitFirst, progress, denied, restarts>>

(* The connector fails on some: the job goes on with the others.           *)
Serve(t) ==
    /\ task[t].pc = "serving"
    /\ \E outcome \in {"ACTIVE", "FAILED"} : row' = [row EXCEPT ![task[t].tool] = outcome]
    /\ task' = [task EXCEPT ![t] = JobReturns(t, task[t].tool)]
    /\ UNCHANGED <<commitFirst, progress, denied, restarts>>

-----------------------------------------------------------------------------
(* What others do to the access to a tool; requests and grants wait for an *)
(* uncommitted row of the same key.                                        *)
Others(k, from, to) ==
    /\ row[k] \in from
    /\ from = {"absent"} => \A t \in Tasks : ~HoldsKey(t, k)
    /\ row' = [row EXCEPT ![k] = to]
    /\ UNCHANGED <<commitFirst, progress, task, restarts>>

RequestAccess(k) == Others(k, {"absent"}, "PENDING_APPROVAL") /\ UNCHANGED denied

Grant(k) == Others(k, {"absent"}, "ACTIVE") /\ UNCHANGED denied

Approve(k) == Others(k, {"PENDING_APPROVAL"}, "ACTIVE") /\ UNCHANGED denied

Deny(k) == Others(k, {"PENDING_APPROVAL"}, "absent") /\ denied' = denied \cup {k}

Revoke(k) == Others(k, Statuses \ {"absent"}, "REVOKED") /\ UNCHANGED denied

(* The process is restarted: open transactions roll back, jobs are gone.   *)
Restart ==
    /\ restarts < MaxRestarts
    /\ \E t \in Tasks : task[t] # Idle
    /\ task' = [t \in Tasks |-> Idle]
    /\ restarts' = restarts + 1
    /\ UNCHANGED <<commitFirst, progress, row, denied>>

Step(t) ==
    \/ SaveStep(t)
    \/ Flush(t) \/ Insert(t) \/ Commit(t)
    \/ \E k \in Tools : LookUp(t, k) \/ Load(t, k)
    \/ Claim(t) \/ Serve(t)

Next ==
    \/ \E t \in Tasks : Advance(t) \/ Visit(t) \/ Complete(t) \/ Step(t)
    \/ \E k \in Tools : RequestAccess(k) \/ Grant(k) \/ Approve(k) \/ Deny(k) \/ Revoke(k)
    \/ Restart

Spec == Init /\ [][Next]_vars

(* What runs goes on, and PostgreSQL hands a row lock to its waiters in    *)
(* turn; nobody has to send a request.                                     *)
Fairness ==
    \A t \in Tasks : WF_vars(Step(t)) /\ SF_vars(SaveStep(t) \/ Flush(t))

FairSpec == Spec /\ Fairness

-----------------------------------------------------------------------------
(* Properties.                                                             *)

(* Completing is all or nothing, through unique violations and restarts:   *)
(* once an onboarding is completed, every tool it unlocks has its row,     *)
(* unless a pending request stood in its place and was denied.             *)
Unlocks == completed => \A k \in Tools \ denied : row[k] # "absent"

(* The requests that may end a step, by how the step is left.              *)
Enders == [button |-> {"advancing"}, navigate |-> {"advancing", "visiting"},
           complete |-> {"granting"}]

(* The record gets further than it ever was by one step, the next one, at  *)
(* the commit of a request that may end this step.                         *)
GetsFurther ==
    reached' # reached =>
        /\ reached' = reached + 1
        /\ \E t \in Tasks : task[t].pc \in Enders[Steps[reached']] /\ task'[t] # task[t]

(* No step of the list is passed over: whatever late writes take back and  *)
(* put there again, the list grows by the step that comes next, a visit    *)
(* ends no step that wants a click, and completion finds all steps but the *)
(* checklist.  This is about the list, not about whether a step was done:  *)
(* the comment at ONBOARDING_STEPS says of a navigate step that it         *)
(* completes when the page is visited, but /advance takes it like any      *)
(* other, and the second of two clicks on the step before ends it unseen.  *)
StepByStep ==
    [][/\ GetsFurther
       /\ ~completed /\ completed' => reached >= Len(Steps) - 1]_vars

(* Every tool granted by the completion is served, by one job, whichever   *)
(* fail or are revoked on the way; a restart or a late commit loses it.    *)
Served ==
    \A k \in Tools :
        row[k] \in {"REQUESTED", "PROVISIONING"} ~>
            \/ row[k] \notin {"REQUESTED", "PROVISIONING"}
            \/ restarts > 0
            \/ ~commitFirst

(* As long as the process has not been restarted, a build that commits     *)
(* first has a job at hand for every row that waits to be served: one that *)
(* has still to come to it, or is at it.                                   *)
InHand(k) ==
    /\ row[k] = "REQUESTED" => \E t \in Tasks :
           /\ task[t].pc \in {"job", "loaded", "serving"} /\ k \in task[t].new
           /\ ~ (task[t].pc = "serving" /\ task[t].tool = k)
    /\ row[k] = "PROVISIONING" => \E t \in Tasks :
           task[t].pc = "serving" /\ task[t].tool = k

NothingAbandoned == commitFirst /\ restarts = 0 => \A k \in Tools : InHand(k)

(* No set of requests ever waits in itself: two completions insert the     *)
(* same rows in any order, but the record, locked first, lets one of them  *)
(* only come to that.                                                      *)
NoDeadlock ==
    \A waiting \in (SUBSET Tasks) \ {{}} :
        \E t \in waiting : \A u \in waiting : ~WaitsFor(t, u)

(* To everybody else a completion is one step of Unlocking, which touches  *)
(* no access that is there, and so is every step of a job, whatever fails, *)
(* is cut off or is revoked on the way: the job may take back a revocation *)
(* that comes between its read and its end, and moves no other status but  *)
(* the two it is for.                                                      *)
Unlocked == INSTANCE Unlocking WITH Last <- Len(Steps)

UnlockedAtomically == Unlocked!Spec

(* Every request ends, with its job.  Two completions insert the same rows *)
(* in any order, and the record, locked first, keeps them from waiting for *)
(* each other.                                                             *)
EveryTaskEnds == \A t \in Tasks : task[t] # Idle ~> task[t] = Idle
-----------------------------------------------------------------------------
(* Why they hold: what a request knows between its read and its commit.    *)

(* Who advances has read a step that is there to be left; who completes    *)
(* has read that all but the checklist are done.                           *)
OnTrack(t) ==
    /\ task[t].pc \in {"advancing", "visiting"} =>
           task[t].seen < Len(Steps) - 1 /\ task[t].seen <= reached
    /\ task[t].pc = "advancing" => Steps[task[t].seen + 1] # "complete"
    /\ task[t].pc = "visiting" => Steps[task[t].seen + 1] = "navigate"
    /\ task[t].pc \in {"completing", "granting", "inserting"} => reached >= Len(Steps) - 1
    /\ task[t].pc = "inserting" => task[t].tool \in Tools

(* A tool that a completion need not look at again has a row, there or     *)
(* flushed, or had one until its request was denied.                       *)
GrantsAll(t) ==
    task[t].pc \in {"granting", "inserting"} =>
        \A k \in Tools \ denied :
            \/ k \in task[t].left \cup task[t].new
            \/ task[t].pc = "inserting" /\ k = task[t].tool
            \/ row[k] # "absent"

OnboardingInv ==
    /\ TypeOK
    /\ done <= reached
    /\ Unlocks
    /\ \A t \in Tasks : OnTrack(t) /\ GrantsAll(t)

(* One completion at a time has the record; the rows it has inserted are   *)
(* not there before its commit.                                            *)
OneCompletes ==
    \A t, u \in Tasks : task[t].pc \in Locking /\ task[u].pc \in Locking => t = u

KeysKept == \A t \in Tasks, k \in Tools : HoldsKey(t, k) => row[k] = "absent"

NothingNew == \A t \in Tasks : task[t].pc = "completing" => task[t].new = {}

(* The tools of a job are its own, and their rows stay.  Between the job's *)
(* read of a row and its claim, and while the connector is at work, the    *)
(* tool can only be revoked.                                               *)
Working == {"job", "loaded", "serving"}
AtWork == {"loaded", "serving"}
Undecided == {"absent", "PENDING_APPROVAL"}

ServedByOne ==
    /\ \A t, u \in Tasks : task[t].pc \in Working /\ task[u].pc \in Working
           /\ task[t].new \cap task[u].new # {} => t = u
    /\ \A t \in Tasks : task[t].pc \in Working =>
           \A k \in Tools : k \in task[t].new => row[k] \notin Undecided
    /\ \A t \in Tasks : task[t].pc \in AtWork =>
           /\ task[t].tool \in Tools /\ task[t].tool \in task[t].new
           /\ row[task[t].tool] \in
                  {"REVOKED", IF task[t].pc = "loaded" THEN "REQUESTED" ELSE "PROVISIONING"}

CompletionInv == OneCompletes /\ KeysKept /\ NothingNew /\ ServedByOne
=============================================================================

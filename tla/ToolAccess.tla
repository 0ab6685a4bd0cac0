------------------------------ MODULE ToolAccess ------------------------------
(***************************************************************************)
(* One (tool, user) pair of the research-tool registry: the tool_access    *)
(* row, the HTTP handlers that change it, the background job each of them  *)
(* schedules, and the account in the external system behind the connector. *)
(* The unique key uq_tool_access gives a pair at most one row, and no      *)
(* handler of modules/tools/router.py writes the rows of two pairs, so     *)
(* pairs do not interact and one of them is the whole story.               *)
(*                                                                         *)
(* A request is served by one asyncio task: the handler loads the row and  *)
(* checks it (Check), flushes its write (Grant ... Revoke), and then the   *)
(* same task runs the job it scheduled (Load ... Finish) in a session of   *)
(* its own.  PostgreSQL runs at READ COMMITTED and nothing is locked by a  *)
(* read, so other tasks may run between any two of these steps.            *)
(*                                                                         *)
(* pyproject.toml asks for fastapi>=0.115.0 and pins nothing.  FastAPI     *)
(* 0.115-0.117 leaves a `yield` dependency (get_db, hence the COMMIT)      *)
(* before the response and its background tasks; from 0.118 on it leaves   *)
(* it after them.  commitFirst tells the two builds apart; it never changes. *)
(***************************************************************************)
EXTENDS Naturals, FiniteSets

CONSTANTS
    Tasks,        \* asyncio tasks that may serve a request at the same time
    Builds,       \* may the build commit a request before its job (TRUE) or after
    Capabilities, \* what the tool's connector lists of "provision", "revoke"
    MayFail,      \* the connector calls that may raise
    MaxId,        \* bound: no new row is asked for once MaxId were inserted
    MaxRestarts   \* bound on restarts of the server process

ASSUME BuildAssumption == Builds \subseteq BOOLEAN
ASSUME ConnectorAssumption == Capabilities \cup MayFail \subseteq {"provision", "revoke"}
ASSUME BoundAssumption == MaxId \in Nat /\ MaxRestarts \in Nat

VARIABLES
    commitFirst, \* the build commits a request before it runs its job
    id,         \* number of rows ever committed: the id of the latest one
    status,     \* its provisioning_status, "absent" while there is no row
    task,       \* what each asyncio task is doing
    accounts,   \* live accounts of the user in the external system
    (* history *)
    granted,    \* ids some manager granted or approved (committed)
    revoked,    \* ids whose revocation was answered with 200
    overlapped, \* two requests were ever in flight together
    restarts

CanProvision == "provision" \in Capabilities
CanRevoke == "revoke" \in Capabilities

row == <<id, status>>
history == <<granted, revoked, overlapped>>
vars == <<commitFirst, id, status, task, accounts, granted, revoked, overlapped, restarts>>

Statuses == {"PENDING_APPROVAL", "REQUESTED", "PROVISIONING", "ACTIVE",
             "FAILED", "REVOKING", "REVOKED"}

(* Mutation of Admits: approve does not look at the status.                *)
AdmitsAnyApproval == [grant   |-> {"absent"},
                      request |-> {"absent"},
                      approve |-> Statuses,
                      deny    |-> {"PENDING_APPROVAL"},
                      revoke  |-> Statuses]

(* The statuses a handler goes on from; any other one is a 404 or a 409.   *)
Admits == [grant   |-> {"absent"},
           request |-> {"absent"},
           approve |-> {"PENDING_APPROVAL"},
           deny    |-> {"PENDING_APPROVAL"},
           revoke  |-> Statuses]

(* Mutation of Writes: a request skips the approval.                       *)
WritesWithoutApproval == [grant   |-> "REQUESTED",
                          request |-> "REQUESTED",
                          approve |-> "REQUESTED",
                          deny    |-> "absent",
                          revoke  |-> "REVOKING"]

(* The status it writes: deny deletes the row.                             *)
Writes == [grant   |-> "REQUESTED",
           request |-> "PENDING_APPROVAL",
           approve |-> "REQUESTED",
           deny    |-> "absent",
           revoke  |-> "REVOKING"]

Operations == DOMAIN Writes

(* Mutations of Outcome: the exception of the connector is lost; a status  *)
(* no other part of the system knows.                                      *)
OutcomeIgnoringErrors == [provisioned   |-> "ACTIVE",
                          refused       |-> "ACTIVE",
                          deprovisioned |-> "REVOKED"]

OutcomeUnknown == [provisioned   |-> "ACTIVE",
                   refused       |-> "FAILED",
                   deprovisioned |-> "DELETED"]

(* What process_access writes when the connector is done.                  *)
Outcome == [provisioned   |-> "ACTIVE",
            refused       |-> "FAILED",
            deprovisioned |-> "REVOKED"]

(* "checked": the handler has read the row; "scheduled": its job is next;  *)
(* "loaded": the job read REQUESTED; "provisioning", "deprovisioning": the *)
(* connector call is in flight; then its outcome; "ended": the job is over *)
(* and the request has still to commit.                                    *)
Phases == {"idle", "checked", "scheduled", "loaded", "provisioning",
           "deprovisioning", "ended"} \cup DOMAIN Outcome

(* key: the access id the task works on; seen: the status its handler      *)
(* read; open: its write is flushed, holds the row lock, is not committed. *)
Idle == [pc |-> "idle", op |-> "none", key |-> 0, seen |-> "absent", open |-> FALSE]

TaskStates ==
    {Idle} \cup [pc: Phases \ {"idle"}, op: Operations, key: Nat,
                 seen: Statuses \cup {"absent"}, open: BOOLEAN]

TypeOK ==
    /\ commitFirst \in BOOLEAN
    /\ id \in Nat
    /\ status \in Statuses \cup {"absent"}
    /\ task \in [Tasks -> TaskStates]
    /\ accounts \in Nat
    /\ granted \subseteq Nat
    /\ revoked \subseteq Nat
    /\ overlapped \in BOOLEAN
    /\ restarts \in Nat

Init ==
    /\ commitFirst \in Builds
    /\ id = 0
    /\ status = "absent"
    /\ task = [t \in Tasks |-> Idle]
    /\ accounts = 0
    /\ granted = {}
    /\ revoked = {}
    /\ overlapped = FALSE
    /\ restarts = 0

-----------------------------------------------------------------------------
(* The table, as one statement sees it.                                    *)

(* Mutation of Present: an UPDATE of a row that is gone inserts it again.  *)
PresentAnyway(k) == id = k

(* There is a row k: a DELETE takes the latest, and ids are not used twice. *)
Present(k) == id = k /\ status # "absent"

(* No other transaction holds the lock on the row (or on the unique key);  *)
(* a statement that writes waits until then.                               *)
Unlocked(t) == \A u \in Tasks \ {t} : ~task[u].open

(* The write of operation o on row k is committed.                         *)
Publish(k, o) ==
    /\ id' = k
    /\ status' = Writes[o]
    /\ granted' = IF o \in {"grant", "approve"} THEN granted \cup {k} ELSE granted

Goto(t, p) == task' = [task EXCEPT ![t].pc = p]
Return(t) == task' = [task EXCEPT ![t] = Idle]

(* The transaction of the task fails (unique violation, or StaleDataError  *)
(* as the row it updates is gone): 500, rolled back, nothing scheduled.    *)
Abort(t) == Return(t) /\ UNCHANGED <<row, granted>>

-----------------------------------------------------------------------------
(* The handlers.                                                           *)

(* A handler loads the row and checks it; what it then does to the row it  *)
(* does to this copy, however old.                                         *)
Check(t, o) ==
    /\ task[t] = Idle
    /\ status \in Admits[o]
    /\ status = "absent" => id < MaxId
    /\ task' = [task EXCEPT ![t] = [pc |-> "checked", op |-> o, key |-> id,
                                    seen |-> status, open |-> FALSE]]
    /\ overlapped' = (overlapped \/ \E u \in Tasks \ {t} : task[u] # Idle)
    /\ UNCHANGED <<row, accounts, granted, revoked, restarts, commitFirst>>

Handles(t, o) == task[t].pc = "checked" /\ task[t].op = o

(* Mutations of Save: no job is scheduled; the request is never committed  *)
(* before its job, whatever the build.                                     *)
SaveOnly(t, k) ==
    /\ Return(t)
    /\ IF commitFirst THEN Publish(k, task[t].op) ELSE UNCHANGED <<row, granted>>

SaveHolding(t, k) ==
    /\ task' = [task EXCEPT ![t].pc = "scheduled", ![t].key = k, ![t].open = TRUE]
    /\ UNCHANGED <<row, granted>>

(* Flush and schedule the job.  The commit comes before the job or after.  *)
Save(t, k) ==
    /\ task' = [task EXCEPT ![t].pc = "scheduled", ![t].key = k,
                            ![t].open = ~commitFirst]
    /\ IF commitFirst THEN Publish(k, task[t].op)
                      ELSE UNCHANGED <<row, granted>>

Grant(t) ==
    /\ Handles(t, "grant")
    /\ Unlocked(t)
    /\ IF status = "absent" THEN Save(t, id + 1) ELSE Abort(t)
    /\ UNCHANGED <<accounts, revoked, overlapped, restarts, commitFirst>>

RequestAccess(t) ==
    /\ Handles(t, "request")
    /\ Unlocked(t)
    /\ IF status = "absent" THEN Publish(id + 1, "request") /\ Return(t)
                            ELSE Abort(t)
    /\ UNCHANGED <<accounts, revoked, overlapped, restarts, commitFirst>>

Approve(t) ==
    /\ Handles(t, "approve")
    /\ Unlocked(t)
    /\ IF Present(task[t].key) THEN Save(t, task[t].key) ELSE Abort(t)
    /\ UNCHANGED <<accounts, revoked, overlapped, restarts, commitFirst>>

(* DELETE of a row that is gone already only logs a warning.               *)
Deny(t) ==
    /\ Handles(t, "deny")
    /\ Unlocked(t)
    /\ IF Present(task[t].key) THEN Publish(id, "deny")
                               ELSE UNCHANGED <<row, granted>>
    /\ Return(t)
    /\ UNCHANGED <<accounts, revoked, overlapped, restarts, commitFirst>>

(* A row loaded as REVOKING does not change: no UPDATE is sent, but the    *)
(* job is scheduled and the caller is told the access is being revoked.    *)
Revoke(t) ==
    /\ Handles(t, "revoke")
    /\ \/ /\ task[t].seen = "REVOKING"
          /\ Goto(t, "scheduled")
          /\ revoked' = revoked \cup {task[t].key}
          /\ UNCHANGED <<row, granted>>
       \/ /\ task[t].seen # "REVOKING"
          /\ Unlocked(t)
          /\ Present(task[t].key)
          /\ Save(t, task[t].key)
          /\ revoked' = revoked \cup {task[t].key}
       \/ /\ task[t].seen # "REVOKING"
          /\ Unlocked(t)
          /\ ~Present(task[t].key)
          /\ Abort(t)
          /\ UNCHANGED revoked
    /\ UNCHANGED <<accounts, overlapped, restarts, commitFirst>>

-----------------------------------------------------------------------------
(* The job: run_provisioning_job and process_access.                       *)

(* It reads the committed row and finds its work, or returns.              *)
Load(t) ==
    /\ task[t].pc = "scheduled"
    /\ \/ /\ Present(task[t].key) /\ status = "REQUESTED"
          /\ Goto(t, "loaded")
       \/ /\ Present(task[t].key) /\ status = "REVOKING"
          /\ Goto(t, IF CanRevoke THEN "deprovisioning" ELSE "deprovisioned")
       \/ /\ ~(Present(task[t].key) /\ status \in {"REQUESTED", "REVOKING"})
          /\ IF task[t].open THEN Goto(t, "ended") ELSE Return(t)
    /\ UNCHANGED <<row, accounts, history, restarts, commitFirst>>

(* Mutation of JobWrites: the job does not wait for the row lock.          *)
JobWritesUnlocked(t, s) ==
    /\ status' = IF Present(task[t].key) THEN s ELSE status
    /\ UNCHANGED <<id, accounts, history, restarts, commitFirst>>

(* A job is a second session: the row its own request holds locked is      *)
(* locked for it too.  A row that is gone ends it with StaleDataError.     *)
JobWrites(t, s) ==
    /\ \A u \in Tasks : ~task[u].open
    /\ status' = IF Present(task[t].key) THEN s ELSE status
    /\ UNCHANGED <<id, accounts, history, restarts, commitFirst>>

Begin(t) ==
    /\ task[t].pc = "loaded"
    /\ JobWrites(t, "PROVISIONING")
    /\ IF Present(task[t].key)
       THEN Goto(t, IF CanProvision THEN "provisioning" ELSE "provisioned")
       ELSE Return(t)

Provision(t) ==
    /\ task[t].pc = "provisioning"
    /\ \/ Goto(t, "provisioned") /\ accounts' = accounts + 1
       \/ "provision" \in MayFail /\ Goto(t, "refused") /\ UNCHANGED accounts
    /\ UNCHANGED <<row, history, restarts, commitFirst>>

(* What connector.revoke raises is swallowed: REVOKED comes next anyway.   *)
Deprovision(t) ==
    /\ task[t].pc = "deprovisioning"
    /\ Goto(t, "deprovisioned")
    /\ accounts' = 0 \/ ("revoke" \in MayFail /\ UNCHANGED accounts)
    /\ UNCHANGED <<row, history, restarts, commitFirst>>

Finish(t) ==
    /\ task[t].pc \in DOMAIN Outcome
    /\ JobWrites(t, Outcome[task[t].pc])
    /\ Return(t)

(* The build that commits last: the request commits once its job is over.  *)
Commit(t) ==
    /\ task[t].pc = "ended"
    /\ Publish(task[t].key, task[t].op)
    /\ Return(t)
    /\ UNCHANGED <<accounts, revoked, overlapped, restarts, commitFirst>>

-----------------------------------------------------------------------------
(* The process is restarted: requests and jobs are gone, open transactions *)
(* roll back, and no start-up code looks for rows left half way.           *)
Restart ==
    /\ restarts < MaxRestarts
    /\ \E t \in Tasks : task[t] # Idle
    /\ task' = [t \in Tasks |-> Idle]
    /\ restarts' = restarts + 1
    /\ UNCHANGED <<row, accounts, history, commitFirst>>

Handle(t) == Grant(t) \/ RequestAccess(t) \/ Approve(t) \/ Deny(t) \/ Revoke(t)
Job(t) == Load(t) \/ Begin(t) \/ Provision(t) \/ Deprovision(t) \/ Finish(t)
Step(t) == Handle(t) \/ Job(t) \/ Commit(t)

Next ==
    \/ \E t \in Tasks, o \in Operations : Check(t, o)
    \/ \E t \in Tasks : Step(t)
    \/ Restart

Spec == Init /\ [][Next]_vars

(* The event loop, the database and the connectors (bounded sleeps) let    *)
(* every task that can move move; nobody has to send a request.            *)
Fairness == \A t \in Tasks : WF_vars(Step(t))

FairSpec == Spec /\ Fairness

-----------------------------------------------------------------------------
(* Properties.                                                             *)

Working == {"loaded", "provisioning", "provisioned", "refused"}

(* Nothing is provisioned that nobody granted: a row gets past             *)
(* PENDING_APPROVAL, and a connector is asked for an account, only for an  *)
(* access id whose grant or approval has committed, whatever jobs, denials *)
(* and stale handlers run in between.                                      *)
GrantedBeforeUse ==
    /\ status \in {"REQUESTED", "PROVISIONING", "ACTIVE", "FAILED"} => id \in granted
    /\ \A t \in Tasks : task[t].pc \in Working => task[t].key \in granted
    /\ accounts > 0 => granted # {}

(* No request is forgotten: as long as the process has not been restarted, *)
(* a build that commits first has a task at work on every row found in a   *)
(* status the job is to leave, however the requests interleave.            *)
Duty == [REQUESTED    |-> {"scheduled", "loaded"},
         PROVISIONING |-> {"provisioning", "provisioned", "refused"},
         REVOKING     |-> {"scheduled", "deprovisioning", "deprovisioned"}]

InHand ==
    status \in DOMAIN Duty =>
        \E t \in Tasks : task[t].key = id /\ task[t].pc \in Duty[status]

NothingAbandoned == commitFirst /\ restarts = 0 => InHand

(* As long as requests for the pair have never overlapped, and through any *)
(* restart, the row tells the truth about the external system: ACTIVE has  *)
(* its one account, and a row that was refused, denied, not yet served or, *)
(* where the connector can revoke and does not fail, revoked has none.     *)
AccountsTrue ==
    /\ accounts <= 1
    /\ status = "ACTIVE" /\ CanProvision => accounts = 1
    /\ status \in {"absent", "PENDING_APPROVAL", "REQUESTED", "FAILED"} => accounts = 0
    /\ status = "REVOKED" /\ CanRevoke /\ "revoke" \notin MayFail => accounts = 0

AccountsMatchRow == ~overlapped => AccountsTrue

(* As long as requests have never overlapped, in a build that commits      *)
(* first, an access whose revocation was answered is revoked or about to   *)
(* be, for good.                                                           *)
RevokedForGood == commitFirst /\ id \in revoked => status \in {"REVOKING", "REVOKED"}

RevocationHolds == ~overlapped => RevokedForGood

(* The build that commits a request after its job serves no grant: the job *)
(* does not see the row it was scheduled for, or waits for the lock of the *)
(* very request it belongs to.  Until requests overlap no account exists   *)
(* and no row is shown as provisioning, active or failed.                  *)
NothingServed == ~commitFirst => accounts = 0 /\ status \notin {"PROVISIONING", "ACTIVE", "FAILED"}

NeverServed == ~overlapped => NothingServed

(* What a request, a grant, a denial or a revocation does is what          *)
(* AccessLifecycle allows at the commit, and so is every step of a job, in *)
(* both builds and through any restart.  Its graph is that of the documents*)
(* with the account behind it, but for revocations, which it allows from   *)
(* every status, as the code does.  Once requests have overlapped what is  *)
(* left of it holds: no stale write makes a second row, or brings back one *)
(* that was denied.                                                        *)
Lifecycle == INSTANCE AccessLifecycle WITH disturbed <- overlapped

FollowsLifecycle == Lifecycle!Spec

(* Until the process is restarted, a build that commits first leaves no row *)
(* for ever in a status it shows as in progress.                           *)
Settles ==
    commitFirst /\ status \in DOMAIN Duty ~> status \notin DOMAIN Duty \/ restarts > 0

(* In a build that commits first every request and its job come to an end: *)
(* none waits for another's lock for ever.                                 *)
EveryTaskEnds == \A t \in Tasks : commitFirst /\ task[t] # Idle ~> task[t] = Idle

-----------------------------------------------------------------------------
(* Why the properties of requests that never overlap hold: there is one    *)
(* request in flight, what it saw is still so, and the phase of its job    *)
(* tells the status of the row and the state of the account.               *)
PhaseStatus == [loaded         |-> "REQUESTED",
                provisioning   |-> "PROVISIONING",
                provisioned    |-> "PROVISIONING",
                refused        |-> "PROVISIONING",
                deprovisioning |-> "REVOKING",
                deprovisioned  |-> "REVOKING"]

Alone == \A t, u \in Tasks : task[t] # Idle /\ task[u] # Idle => t = u

CurrentView(t) ==
    /\ task[t].pc = "checked" \/ task[t].open =>
           status = task[t].seen /\ status \in Admits[task[t].op]
    /\ task[t].pc = "checked" => task[t].key = id /\ ~task[t].open
    /\ task[t].pc = "scheduled" /\ ~task[t].open =>
           /\ task[t].key = id
           /\ status \in {"REQUESTED", "REVOKING"}
           /\ ~commitFirst => status = "REVOKING"
    /\ task[t].open =>
           /\ task[t].pc \in {"scheduled", "loaded", "ended"}
           /\ task[t].op \in {"grant", "approve", "revoke"}
           /\ task[t].seen # "REVOKING"
           /\ task[t].key = IF task[t].op = "grant" THEN id + 1 ELSE id
    /\ task[t].pc = "ended" => task[t].open
    /\ task[t].pc = "loaded" /\ ~commitFirst => task[t].open
    /\ task[t].pc \in DOMAIN PhaseStatus => status = PhaseStatus[task[t].pc] /\ task[t].key = id

CurrentAccount(t) ==
    /\ task[t].pc \in {"provisioning", "refused"} => commitFirst /\ accounts = 0
    /\ task[t].pc = "provisioned" => commitFirst
    /\ task[t].pc = "provisioned" /\ CanProvision => accounts = 1
    /\ task[t].pc = "deprovisioned" /\ CanRevoke /\ "revoke" \notin MayFail => accounts = 0

SerialNow ==
    /\ AccountsTrue
    /\ NothingServed
    /\ RevokedForGood
    /\ Alone
    /\ \A t \in Tasks : CurrentView(t) /\ CurrentAccount(t)
    /\ revoked \subseteq 0..id
    /\ commitFirst => \A t \in Tasks : ~task[t].open

SerialInv == ~overlapped => SerialNow

-----------------------------------------------------------------------------
(* What holds of requests that overlap, too: a write that is flushed and   *)
(* not committed is the only one, and the row is as it will meet it.       *)
Flushed(t) ==
    /\ task[t].pc = "checked" => ~task[t].open
    /\ task[t].pc = "ended" => task[t].open
    /\ task[t].open =>
           /\ task[t].op \in {"grant", "approve", "revoke"}
           /\ IF task[t].op = "grant" THEN task[t].key = id + 1 /\ status = "absent"
                                     ELSE Present(task[t].key)

(* A job calls what its connector has.                                     *)
Capable(t) ==
    /\ task[t].pc = "provisioning" => CanProvision
    /\ task[t].pc = "refused" => "provision" \in MayFail
    /\ task[t].pc = "deprovisioning" => CanRevoke

OneWriter == \A t, u \in Tasks : task[t].open /\ task[u].open => t = u

WriteInv == OneWriter /\ \A t \in Tasks : Flushed(t) /\ Capable(t)

-----------------------------------------------------------------------------
(* What the documents say of every run; the code does not keep to it.      *)

(* DESIGN.md, tool access: ACTIVE -> REVOKING -> REVOKED; an access whose  *)
(* revocation was answered is not ACTIVE (launchable) again.               *)
RevokedIsNotActive == id \in revoked => status # "ACTIVE"

(* DESIGN.md, reliability: jobs check the current state before acting, so  *)
(* retrying a grant cannot create a duplicate account.                     *)
NoDuplicateAccount == accounts <= 1

(* DESIGN.md, tool access: a manager's request creates a REQUESTED record; *)
(* a queued job then calls the connector.                                  *)
GrantIsServed == status = "REQUESTED" ~> status # "REQUESTED"

=============================================================================

------------------------------- MODULE Workspace -------------------------------
(***************************************************************************)
(* The Google Workspace of one lab: its lab_google_workspace row, the jobs *)
(* that provision it, and the chat in the store of the mock client, which  *)
(* lives in the memory of the server (connectors/google_workspace_client). *)
(* lab_id is unique, so labs do not interact.                              *)
(*                                                                         *)
(* Unlike a tool's job, this one is started again: by every listing of the *)
(* workspaces while the row is in progress.  Jobs of one workspace may     *)
(* therefore run side by side, each with the row as it loaded it.          *)
(***************************************************************************)
EXTENDS Naturals

CONSTANTS
    Tasks,      \* asyncio tasks that may serve a request at the same time
    Builds,     \* the builds to look at: TRUE commits a request before its job
    MaxPosts,   \* bound on chat messages
    MaxRestarts \* bound on restarts of the server process

ASSUME BuildAssumption == Builds \subseteq BOOLEAN
ASSUME BoundAssumption == MaxPosts \in Nat /\ MaxRestarts \in Nat

VARIABLES
    commitFirst, \* the build that runs; it never changes
    status,      \* provisioning_status, "absent" while there is no row
    store,       \* the workspace's entry of _workspace_store: posted messages
    task,        \* what each asyncio task is doing
    (* history *)
    posted,      \* messages answered with 200 since the process started
    sent,        \* messages answered with 200, ever
    overlapped,  \* two jobs ever worked on the workspace together
    restarts

vars == <<commitFirst, status, store, task, posted, sent, overlapped, restarts>>
history == <<posted, sent, overlapped, restarts>>

InProgress == {"REQUESTED", "PROVISIONING"}
Statuses == {"absent", "ACTIVE"} \cup InProgress

(* No entry, or the number of messages after the two seeded ones.          *)
NoEntry == [up |-> FALSE, posts |-> 0]
Seeded == [up |-> TRUE, posts |-> 0]

(* "creating": no row was found, the INSERT is next; "starting": the job   *)
(* is next; "loaded", "claimed", "seeded": the job has read the row, has   *)
(* written PROVISIONING, has seeded the store; "ended": the job is over    *)
(* and its request has still to commit; "posting": the chat handler has    *)
(* seen an active workspace.                                               *)
Working == {"loaded", "claimed", "seeded"}
Phases == {"idle", "creating", "starting", "ended", "posting"} \cup Working

(* seen: the status the job loaded; open: the INSERT is not committed.     *)
Idle == [pc |-> "idle", seen |-> "absent", open |-> FALSE]

TypeOK ==
    /\ commitFirst \in BOOLEAN
    /\ status \in Statuses
    /\ store \in [up: BOOLEAN, posts: Nat]
    /\ task \in [Tasks -> [pc: Phases, seen: Statuses, open: BOOLEAN]]
    /\ posted \in Nat /\ sent \in Nat
    /\ overlapped \in BOOLEAN
    /\ restarts \in Nat

Init ==
    /\ commitFirst \in Builds
    /\ status = "absent"
    /\ store = NoEntry
    /\ task = [t \in Tasks |-> Idle]
    /\ posted = 0 /\ sent = 0
    /\ overlapped = FALSE
    /\ restarts = 0

Goto(t, p) == task' = [task EXCEPT ![t].pc = p]
Return(t) == task' = [task EXCEPT ![t] = Idle]

-----------------------------------------------------------------------------
(* The requests.                                                           *)

(* provision_google_workspace and request_lab_google_workspace find none;  *)
(* an ACTIVE one is a 409, or left as it is.                               *)
Provision(t) ==
    /\ task[t] = Idle
    /\ status = "absent"
    /\ Goto(t, "creating")
    /\ UNCHANGED <<commitFirst, status, store, history>>

(* Mutation of Create: the job is left to the next listing.                *)
CreateWithoutJob(t) ==
    /\ task[t].pc = "creating"
    /\ \A u \in Tasks \ {t} : ~task[u].open
    /\ status' = IF status = "absent" THEN "REQUESTED" ELSE status
    /\ Return(t)
    /\ UNCHANGED <<commitFirst, store, history>>

(* INSERT, waiting for whoever inserts another; a row that is there by     *)
(* then fails it, rolled back, and no job starts.                          *)
Create(t) ==
    /\ task[t].pc = "creating"
    /\ \A u \in Tasks \ {t} : ~task[u].open
    /\ IF status # "absent" THEN Return(t) /\ UNCHANGED status
       ELSE /\ task' = [task EXCEPT ![t].pc = "starting", ![t].open = ~commitFirst]
            /\ status' = IF commitFirst THEN "REQUESTED" ELSE status
    /\ UNCHANGED <<commitFirst, store, history>>

(* list_google_workspace, or provisioning again: one more job for a        *)
(* workspace in progress.                                                  *)
List(t) ==
    /\ task[t] = Idle
    /\ status \in InProgress
    /\ Goto(t, "starting")
    /\ UNCHANGED <<commitFirst, status, store, history>>

(* post_chat reads the row, then the lab.                                  *)
CheckPost(t) ==
    /\ task[t] = Idle
    /\ status = "ACTIVE" /\ sent < MaxPosts
    /\ Goto(t, "posting")
    /\ UNCHANGED <<commitFirst, status, store, history>>

(* Mutation of Post: the store is initialized whether it has an entry.     *)
PostAfresh(t) ==
    /\ task[t].pc = "posting"
    /\ store' = [up |-> TRUE, posts |-> 1]
    /\ posted' = posted + 1 /\ sent' = sent + 1
    /\ Return(t)
    /\ UNCHANGED <<commitFirst, status, overlapped, restarts>>

(* ensure_workspace_initialized and send_chat_message, without an await    *)
(* between them.                                                           *)
Post(t) ==
    /\ task[t].pc = "posting"
    /\ store' = [up |-> TRUE, posts |-> (IF store.up THEN store.posts ELSE 0) + 1]
    /\ posted' = posted + 1 /\ sent' = sent + 1
    /\ Return(t)
    /\ UNCHANGED <<commitFirst, status, overlapped, restarts>>

-----------------------------------------------------------------------------
(* The job: run_workspace_provisioning and process_workspace.              *)

(* Mutations of Wanted: only a workspace nobody claimed needs a job; the   *)
(* job does not look at the status.                                        *)
WantedOnlyRequested == status = "REQUESTED"

WantedAlways == status # "absent"

(* The job goes on with a workspace in progress only.                      *)
Wanted == status \in InProgress

(* Where its request has not committed yet it finds no row, however long   *)
(* it slept first.                                                         *)
Load(t) ==
    /\ task[t].pc = "starting"
    /\ \/ /\ Wanted
          /\ task' = [task EXCEPT ![t].pc = "loaded", ![t].seen = status]
          /\ overlapped' = (overlapped \/ \E u \in Tasks \ {t} : task[u].pc \in Working)
       \/ /\ ~Wanted
          /\ IF task[t].open THEN Goto(t, "ended") ELSE Return(t)
          /\ UNCHANGED overlapped
    /\ UNCHANGED <<commitFirst, status, store, posted, sent, restarts>>

(* Mutation of Claim: a status no other part of the system knows.          *)
ClaimMisspelt(t) ==
    /\ task[t].pc = "loaded"
    /\ status' = IF task[t].seen = "PROVISIONING" THEN status ELSE "IN_PROGRESS"
    /\ Goto(t, "claimed")
    /\ UNCHANGED <<commitFirst, store, history>>

(* A row loaded as PROVISIONING does not change: no UPDATE is sent.        *)
Claim(t) ==
    /\ task[t].pc = "loaded"
    /\ status' = IF task[t].seen = "PROVISIONING" THEN status ELSE "PROVISIONING"
    /\ Goto(t, "claimed")
    /\ UNCHANGED <<commitFirst, store, history>>

(* Mutation of Seed: the store is left to the first reader.                *)
SeedNothing(t) ==
    /\ task[t].pc = "claimed"
    /\ Goto(t, "seeded")
    /\ UNCHANGED <<commitFirst, status, store, history>>

(* initialize_workspace replaces the entry, before the commit.             *)
Seed(t) ==
    /\ task[t].pc = "claimed"
    /\ store' = Seeded
    /\ Goto(t, "seeded")
    /\ UNCHANGED <<commitFirst, status, history>>

Activate(t) ==
    /\ task[t].pc = "seeded"
    /\ status' = "ACTIVE"
    /\ Return(t)
    /\ UNCHANGED <<commitFirst, store, history>>

(* The build that commits last: the request commits once its job is over.  *)
Commit(t) ==
    /\ task[t].pc = "ended"
    /\ status' = "REQUESTED"
    /\ Return(t)
    /\ UNCHANGED <<commitFirst, store, history>>

-----------------------------------------------------------------------------
(* The process is restarted: requests, jobs and the store are gone.        *)
Restart ==
    /\ restarts < MaxRestarts
    /\ status # "absent" \/ \E t \in Tasks : task[t] # Idle
    /\ task' = [t \in Tasks |-> Idle]
    /\ store' = NoEntry
    /\ posted' = 0
    /\ restarts' = restarts + 1
    /\ UNCHANGED <<commitFirst, status, sent, overlapped>>

Step(t) ==
    \/ Create(t) \/ Post(t)
    \/ Load(t) \/ Claim(t) \/ Seed(t) \/ Activate(t)
    \/ Commit(t)

Next ==
    \/ \E t \in Tasks : Provision(t) \/ List(t) \/ CheckPost(t) \/ Step(t)
    \/ Restart

Spec == Init /\ [][Next]_vars

(* What runs goes on, and an open page lists the workspaces every two or   *)
(* three seconds (refetchInterval of ToolsPage and AdminLabsPage).         *)
Fairness ==
    /\ \A t \in Tasks : WF_vars(Step(t))
    /\ WF_vars(\E t \in Tasks : List(t))

FairSpec == Spec /\ Fairness

-----------------------------------------------------------------------------
(* Properties.                                                             *)

(* Until the server restarts, no message that was answered with 200 is     *)
(* lost, as long as no two jobs worked on the workspace together.          *)
MessagesKept == ~overlapped => store.posts = posted

(* An active workspace stays active, through restarts too, as long as no   *)
(* two jobs worked on it together.                                         *)
ActiveStays == [][status = "ACTIVE" /\ ~overlapped => status' = "ACTIVE"]_vars

(* In every build, and whatever jobs a restart or a late commit has lost,  *)
(* a workspace that is asked for is active in the end, for good, as long   *)
(* as somebody looks at the list.                                          *)
ActiveInTheEnd == status # "absent" ~> [](status = "ACTIVE")

(* A workspace in progress has a job that will see to it, or is at it:     *)
(* where requests commit before their jobs, whatever jobs overlap, only a  *)
(* restart leaves one to the next listing.                                 *)
NothingAbandoned ==
    commitFirst /\ restarts = 0 /\ status \in InProgress =>
        \E t \in Tasks : task[t].pc \in {"starting"} \cup Working

(* Members are not let in before the store is ready: whoever finds the     *)
(* workspace active finds its store seeded, or the server has restarted.   *)
ReadyWhenActive == status = "ACTIVE" => store.up \/ restarts > 0
-----------------------------------------------------------------------------
(* Why they hold.                                                          *)

(* One INSERT at most is not committed, and while it is not there is no    *)
(* row, and no job at work.                                                *)
OneInsert ==
    /\ \A t \in Tasks : task[t].open => status = "absent" /\ task[t].pc \in {"starting", "ended"}
    /\ \A t \in Tasks : task[t].pc = "ended" => task[t].open
    /\ \A t, u \in Tasks : task[t].open /\ task[u].open => t = u
    /\ \A t \in Tasks : task[t].pc \in Working => status # "absent"

(* Until jobs overlap there is one at most, on a row in progress, and      *)
(* messages are posted, and were posted, to an active workspace only.      *)
OneJob ==
    /\ \A t, u \in Tasks : task[t].pc \in Working /\ task[u].pc \in Working => t = u
    /\ \A t \in Tasks : task[t].pc \in Working => status \in InProgress
    /\ \A t \in Tasks : task[t].pc = "posting" => status = "ACTIVE"
    /\ status # "ACTIVE" => posted = 0
    /\ store.posts = posted
    /\ ~store.up => posted = 0

(* A job that is about to activate the workspace has seeded the store.     *)
SeededFirst ==
    \A t \in Tasks : task[t].pc = "seeded" => store.up \/ restarts > 0

(* Where requests commit first, no INSERT stays open over a job.           *)
NoneOpen == commitFirst => \A t \in Tasks : ~task[t].open

JobInv == OneInsert /\ (~overlapped => OneJob) /\ SeededFirst /\ ReadyWhenActive
=============================================================================

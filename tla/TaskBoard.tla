------------------------------ MODULE TaskBoard ------------------------------
(***************************************************************************)
(* One task of a lab's task board: the tasks row and its comments and      *)
(* attachments, the handlers of modules/tasks/router.py, the lab's active  *)
(* members (the possible assignees) and the copies its editors hold in     *)
(* their browsers.  Handlers touch one task each, so tasks do not interact.*)
(*                                                                         *)
(* A handler loads the row, checks the version, the transition and the     *)
(* assignee against it in Python, and flushes the changed columns with     *)
(* UPDATE ... WHERE id = ...: nothing in the statement mentions the        *)
(* version.  Other requests run between these steps.  As in ToolAccess,    *)
(* commitFirst tells apart the builds that commit before answering from    *)
(* those that answer first.  In either an answer may be lost on its way,   *)
(* with the connection or with the process.                                *)
(*                                                                         *)
(* The editors are managers and contributors of the lab (tasks:create to   *)
(* tasks:delete).  assignee stands for every column that is simply set:    *)
(* title, description, priority and due date only lack its check.          *)
(***************************************************************************)
EXTENDS Naturals

CONSTANTS
    Clients,     \* editors, one request in flight each
    People,      \* users who may be members of the lab
    Nobody,      \* the NULL assignee
    Named,       \* the statuses that clients name
    Builds,      \* may the build commit a request before it answers (TRUE) or after
    MaxVersion,  \* bound, for each build: no edit of a task at this version
    MaxRestarts  \* bound on restarts of the server process

ASSUME NobodyAssumption == Nobody \notin People
ASSUME BuildAssumption == Builds \subseteq BOOLEAN
ASSUME BoundAssumption == MaxVersion \in [BOOLEAN -> Nat] /\ MaxRestarts \in Nat

VARIABLES
    commitFirst, \* the build commits a request before it answers; never changes
    row,      \* the committed task, NoTask before it exists and once deleted
    stage,    \* whether it was created, and deleted
    children, \* it has comments or attachments
    members,  \* users with an ACTIVE lab_memberships row
    copy,     \* the last TaskOut each client got
    req,      \* the request each client has in flight
    open,     \* the flushed, uncommitted task of the build that commits last
    (* history *)
    raced,    \* a PATCH has overwritten a row that was no longer the one it loaded
    lastBy,   \* the client whose write was flushed last
    missed,   \* clients that never got the answer to a write of theirs, nor read since
    joined,   \* users who were ever active members
    restarts

vars == <<commitFirst, row, stage, children, members, copy, req, open,
          raced, lastBy, missed, joined, restarts>>

TaskTransitions ==
    [BACKLOG     |-> {"TODO"},
     TODO        |-> {"IN_PROGRESS", "BACKLOG"},
     IN_PROGRESS |-> {"BLOCKED", "DONE", "TODO"},
     BLOCKED     |-> {"IN_PROGRESS"},
     DONE        |-> {}]

TaskStatuses == DOMAIN TaskTransitions

(* The column is a string: "OTHER" stands for every status out of the      *)
(* table, "" for the empty one, that the handlers treat differently.       *)
Strings == TaskStatuses \cup {"OTHER", ""}

ASSUME NamedAssumption == Named \subseteq Strings

ValidTransition(current, new) ==
    current = new \/ (current \in TaskStatuses /\ new \in TaskTransitions[current])

NoTask == [status |-> "NONE", assignee |-> Nobody, version |-> 0]

Rows == [status: Strings \cup {"NONE"}, assignee: People \cup {Nobody}, version: Nat]

(* pc: the step the handler is at, "answer" when only its answer is under  *)
(* way; seen: the row an edit has loaded; new: what it writes and answers.  *)
Requests ==
    [pc: {"idle", "validate", "write", "answer", "delete", "attach"}, seen: Rows, new: Rows]

Idle == [pc |-> "idle", seen |-> NoTask, new |-> NoTask]

TypeOK ==
    /\ commitFirst \in BOOLEAN
    /\ row \in Rows
    /\ stage \in {"none", "live", "deleted"}
    /\ stage = "live" <=> row.status \in Strings
    /\ children \in BOOLEAN
    /\ members \subseteq People
    /\ copy \in [Clients -> Rows]
    /\ req \in [Clients -> Requests]
    /\ open \in Rows
    /\ raced \in BOOLEAN
    /\ lastBy \in Clients \cup {Nobody}
    /\ missed \subseteq Clients
    /\ joined \subseteq People
    /\ restarts \in Nat

Init ==
    /\ commitFirst \in Builds
    /\ row = NoTask
    /\ stage = "none"
    /\ children = FALSE
    /\ members \in SUBSET People
    /\ copy = [c \in Clients |-> NoTask]
    /\ req = [c \in Clients |-> Idle]
    /\ open = NoTask
    /\ raced = FALSE
    /\ lastBy = Nobody
    /\ missed = {}
    /\ joined = members
    /\ restarts = 0

-----------------------------------------------------------------------------
(* The handlers: load and check, then write, then answer.                  *)

db == <<row, stage, children, open>>
answers == <<copy, missed>>
writes == <<lastBy, raced>>
lab == <<members, joined>>

IsIdle(c) == req[c] = Idle
Start(c, p, seen, new) ==
    req' = [req EXCEPT ![c] = [pc |-> p, seen |-> seen, new |-> new]]
End(c) == req' = [req EXCEPT ![c] = Idle]

(* get_task and list_tasks: the client takes a copy of the committed row.  *)
Get(c) ==
    /\ IsIdle(c) /\ stage = "live"
    /\ copy' = [copy EXCEPT ![c] = row]
    /\ missed' = missed \ {c}
    /\ UNCHANGED <<db, lab, req, writes, restarts, commitFirst>>

(* create_task: any status the caller names, the first one for none or an  *)
(* empty one; an assignee is checked.                                      *)
Create(c, s, a) ==
    /\ stage = "none" /\ open = NoTask
    /\ \A d \in Clients : IsIdle(d)
    /\ Start(c, IF a = Nobody THEN "write" ELSE "validate", NoTask,
             [status |-> IF s = "" THEN "BACKLOG" ELSE s, assignee |-> a, version |-> 1])
    /\ UNCHANGED <<db, lab, answers, writes, restarts, commitFirst>>

(* Mutation of Stale: the version is compared after it was incremented.    *)
StaleAfterBump(c) == copy[c] # NoTask /\ copy[c].version # row.version + 1

(* The client has a task, of another version than the table.               *)
Stale(c) == copy[c] # NoTask /\ copy[c].version # row.version

(* Mutation of Patch: a finished task may be taken up again.               *)
PatchReopens(c, s, a) ==
    /\ IsIdle(c) /\ stage = "live"
    /\ row.version < MaxVersion[commitFirst]
    /\ copy[c] # NoTask /\ ~Stale(c)
    /\ s = "" \/ row.status = "DONE" \/ ValidTransition(row.status, s)
    /\ Start(c, IF a = row.assignee THEN "write" ELSE "validate", row,
             [status |-> s, assignee |-> a, version |-> row.version + 1])
    /\ UNCHANGED <<db, lab, answers, writes, restarts, commitFirst>>

(* update_task: the client edits the copy it has.  None in the body, and a *)
(* value equal to the loaded one, leave a column alone; an assignee cannot *)
(* be taken away.  An empty status skips the check of the transition, as   *)
(* it counts as false, and is written, as it is not None.  The assignee is *)
(* looked up only when it changes.                                         *)
Patch(c, s, a) ==
    /\ IsIdle(c) /\ stage = "live"
    /\ row.version < MaxVersion[commitFirst]
    /\ copy[c] # NoTask /\ ~Stale(c)
    /\ s = "" \/ ValidTransition(row.status, s)
    /\ Start(c, IF a = row.assignee THEN "write" ELSE "validate", row,
             [status |-> s, assignee |-> a, version |-> row.version + 1])
    /\ UNCHANGED <<db, lab, answers, writes, restarts, commitFirst>>

(* 409 "Task was modified by another user - refresh and retry".            *)
Conflict(c) ==
    /\ IsIdle(c) /\ stage = "live" /\ Stale(c)
    /\ UNCHANGED vars

(* Mutation of Validate: the assignee is not looked up.                    *)
ValidateNothing(c) ==
    /\ req[c].pc = "validate"
    /\ req' = [req EXCEPT ![c].pc = "write"]
    /\ UNCHANGED <<db, lab, answers, writes, restarts, commitFirst>>

(* _validate_assignee_in_lab, a query of its own: 403 unless a member.     *)
Validate(c) ==
    /\ req[c].pc = "validate"
    /\ IF req[c].new.assignee \in members
       THEN req' = [req EXCEPT ![c].pc = "write"]
       ELSE End(c)
    /\ UNCHANGED <<db, lab, answers, writes, restarts, commitFirst>>

(* Mutations of Updated: the version stays; a column the client left out   *)
(* is set to NULL.                                                         *)
UpdatedSameVersion(seen, new) ==
    [status   |-> IF new.status # seen.status THEN new.status ELSE row.status,
     assignee |-> IF new.assignee # seen.assignee THEN new.assignee ELSE row.assignee,
     version  |-> seen.version]

UpdatedWithNulls(seen, new) ==
    [status   |-> IF new.status # seen.status THEN new.status ELSE "NONE",
     assignee |-> IF new.assignee # seen.assignee THEN new.assignee ELSE Nobody,
     version  |-> new.version]

(* The UPDATE sets the columns that differ from the loaded ones; the rest  *)
(* keep whatever the row has by now.                                       *)
Updated(seen, new) ==
    [status   |-> IF new.status # seen.status THEN new.status ELSE row.status,
     assignee |-> IF new.assignee # seen.assignee THEN new.assignee ELSE row.assignee,
     version  |-> new.version]

(* Flush, refresh and, in the build that does so first, commit.  A row     *)
(* that is gone meanwhile is a StaleDataError, hence a 500.                *)
Write(c) ==
    LET r == req[c]
        result == IF r.seen = NoTask THEN r.new ELSE Updated(r.seen, r.new)
    IN  /\ r.pc = "write" /\ open = NoTask
        /\ IF stage = "deleted" THEN End(c) /\ UNCHANGED <<db, writes>>
           ELSE /\ Start(c, "answer", NoTask, result)
                /\ raced' = (raced \/ row # r.seen)
                /\ lastBy' = c
                /\ row' = IF commitFirst THEN result ELSE row
                /\ stage' = IF commitFirst THEN "live" ELSE stage
                /\ open' = IF commitFirst THEN NoTask ELSE result
                /\ UNCHANGED children
        /\ UNCHANGED <<answers, lab, restarts, commitFirst>>

(* The client gets the answer, or never does: the connection is gone.      *)
Answer(c) ==
    /\ req[c].pc = "answer"
    /\ copy' = [copy EXCEPT ![c] = req[c].new]
    /\ missed' = missed \ {c}
    /\ End(c)
    /\ UNCHANGED <<db, lab, writes, restarts, commitFirst>>

LoseAnswer(c) ==
    /\ req[c].pc = "answer"
    /\ missed' = missed \cup {c}
    /\ End(c)
    /\ UNCHANGED <<db, lab, copy, writes, restarts, commitFirst>>

(* The build that commits last.                                            *)
Commit ==
    /\ open # NoTask
    /\ row' = open /\ stage' = "live" /\ open' = NoTask
    /\ UNCHANGED <<children, req, lab, answers, writes, restarts, commitFirst>>

(* delete_task, add_comment and add_attachment load the task first.        *)
Begin(c, p) ==
    /\ IsIdle(c) /\ stage = "live"
    /\ Start(c, p, NoTask, NoTask)
    /\ UNCHANGED <<db, lab, answers, writes, restarts, commitFirst>>

(* The relationships of Task have no delete cascade: the flush sets the    *)
(* task_id of the children to NULL, a column that is NOT NULL, so a task   *)
(* with children stays and the request fails.  Deleting a row that is gone *)
(* is only a warning.                                                      *)
Delete(c) ==
    /\ req[c].pc = "delete" /\ open = NoTask
    /\ IF children \/ stage = "deleted"
       THEN UNCHANGED <<row, stage>>
       ELSE row' = NoTask /\ stage' = "deleted"
    /\ End(c)
    /\ UNCHANGED <<children, open, lab, answers, writes, restarts, commitFirst>>

(* Mutation of Attach: nothing ties a comment to an existing task.         *)
AttachBlindly(c) ==
    /\ req[c].pc = "attach"
    /\ children' = TRUE
    /\ End(c)
    /\ UNCHANGED <<row, stage, open, lab, answers, writes, restarts, commitFirst>>

(* The foreign key refuses a comment or attachment of a deleted task.      *)
Attach(c) ==
    /\ req[c].pc = "attach"
    /\ children' = (children \/ stage = "live")
    /\ End(c)
    /\ UNCHANGED <<row, stage, open, lab, answers, writes, restarts, commitFirst>>

-----------------------------------------------------------------------------
(* Lab memberships come and go; the tasks router does not hear of it.      *)
Activate(u) ==
    /\ u \notin members
    /\ members' = members \cup {u}
    /\ joined' = joined \cup {u}
    /\ UNCHANGED <<db, req, answers, writes, restarts, commitFirst>>

Deactivate(u) ==
    /\ u \in members
    /\ members' = members \ {u}
    /\ UNCHANGED <<db, req, answers, writes, joined, restarts, commitFirst>>

(* The process is restarted: requests and their answers are gone and open  *)
(* transactions roll back; the browsers keep their copies, of use if the   *)
(* task is there.                                                          *)
Restart ==
    /\ restarts < MaxRestarts
    /\ open # NoTask \/ \E c \in Clients : ~IsIdle(c)
    /\ req' = [c \in Clients |-> Idle]
    /\ open' = NoTask
    /\ copy' = IF stage = "none" THEN [c \in Clients |-> NoTask] ELSE copy
    /\ missed' = missed \cup {c \in Clients : req[c].pc = "answer"}
    /\ restarts' = restarts + 1
    /\ UNCHANGED <<row, stage, children, lab, writes, commitFirst>>

Next ==
    \/ \E c \in Clients, s \in Named, a \in People \cup {Nobody} : Create(c, s, a)
    \/ \E c \in Clients, s \in Named, a \in People \cup {row.assignee} : Patch(c, s, a)
    \/ \E c \in Clients : Get(c) \/ Conflict(c) \/ Validate(c) \/ Write(c)
    \/ \E c \in Clients : Answer(c) \/ LoseAnswer(c)
    \/ \E c \in Clients, p \in {"delete", "attach"} : Begin(c, p)
    \/ \E c \in Clients : Delete(c) \/ Attach(c)
    \/ Commit
    \/ \E u \in People : Activate(u) \/ Deactivate(u)
    \/ Restart

Spec == Init /\ [][Next]_vars

-----------------------------------------------------------------------------
(* Properties.                                                             *)

(* The tasks the clients have, and those on their way to them.             *)
Known ==
    {copy[c] : c \in Clients} \cup {req[c].new : c \in {d \in Clients : req[d].pc = "answer"}}

(* What optimistic locking rests on, in a build that commits first and as  *)
(* long as no PATCH has overwritten a row it had not loaded: a version     *)
(* number names one content of the task.  No client is ahead of the row,   *)
(* one at its version holds its content, and so do two clients at the same *)
(* version, however they read, write, fail or are cut off by restarts and  *)
(* whichever answers are late or lost.                                     *)
SameVersionSameTask ==
    commitFirst /\ ~raced /\ stage = "live" =>
        /\ \A k \in Known : k.version <= row.version
        /\ \A k \in Known : k.version = row.version => k = row
        /\ \A k, l \in Known : k.version = l.version => k = l

(* In either build and under every race and restart, the assignee of the   *)
(* task, committed or about to be, is nobody or a user who has been an     *)
(* active member of the lab: columns of two requests may mix, an unchecked *)
(* assignee never gets in.                                                 *)
AssigneeWasMember ==
    \A r \in {row, open} : r.assignee \in joined \cup {Nobody}

(* In a build that commits first, a client that is told that another user  *)
(* modified the task, when the last write was its own, is one that missed  *)
(* the answer to that write and has not read the task since.               *)
ConflictIsReal ==
    commitFirst /\ stage = "live" =>
        \A c \in Clients : IsIdle(c) /\ Stale(c) /\ lastBy = c => c \in missed

(* In either build, a write that overwrites what it loaded moves the       *)
(* version by exactly one, and the status along an allowed transition or   *)
(* to the empty string; out of a status that is not in the table the empty *)
(* string is the only way.                                                 *)
SerialEdits ==
    [][~raced' /\ stage = "live" /\ stage' = "live" =>
          /\ row'.version = row.version + 1
          /\ row'.status = "" \/ ValidTransition(row.status, row'.status)]_row

(* A task that has comments or attachments is there for as long as they    *)
(* are: no delete, edit or restart takes it away from under them.          *)
ChildrenKeepTask == children => stage = "live" /\ row # NoTask

-----------------------------------------------------------------------------
(* Why they hold: what a request carries from its checks to its write.     *)
Editing(c) == req[c].pc \in {"validate", "write"}

Moves(current, new) == new = "" \/ ValidTransition(current, new)

Creating(c) == Editing(c) /\ req[c].seen = NoTask

(* A request that edits carries the next version of the row it loaded; one *)
(* that creates is alone.                                                  *)
Carried ==
    /\ \A c \in Clients : Editing(c) => req[c].new.status \in Strings
    /\ \A c \in Clients : Editing(c) /\ ~Creating(c) =>
           /\ stage # "none"
           /\ req[c].new.version = req[c].seen.version + 1
           /\ Moves(req[c].seen.status, req[c].new.status)
    /\ \A c \in Clients : Creating(c) =>
           /\ stage = "none" /\ open = NoTask /\ req[c].new.version = 1
           /\ \A d \in Clients \ {c} : IsIdle(d)

(* What is flushed is the next version of the committed row, or a new task.*)
Flushed ==
    open # NoTask =>
        /\ ~commitFirst /\ stage # "deleted" /\ open.status \in Strings
        /\ stage = "live" /\ ~raced =>
              open.version = row.version + 1 /\ Moves(row.status, open.status)

(* Nothing that was not committed or created is in a browser or a row.     *)
Unborn ==
    stage = "none" =>
        /\ row = NoTask
        /\ open = NoTask => Known \subseteq {NoTask}

EditInv == Carried /\ Flushed /\ Unborn

AssigneeInv ==
    /\ AssigneeWasMember
    /\ members \subseteq joined
    /\ \A c \in Clients : req[c].pc = "write" => req[c].new.assignee \in joined \cup {Nobody}

-----------------------------------------------------------------------------
(* What the documents say of every run; the code does not keep to it.      *)

(* DESIGN.md, tasks: if two people edit the same task at once, the second  *)
(* write receives a conflict response, so every write moves the version on *)
(* by one.                                                                 *)
VersionAdvances ==
    [][stage = "live" /\ stage' = "live" => row'.version = row.version + 1]_row
=============================================================================

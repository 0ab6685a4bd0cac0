# Corvinus Labs portal: a TLA+ model of its coordination logic

The portal is a FastAPI service over PostgreSQL with a React front end. Organizations have labs;
people join them by invitation, are onboarded, work on a task board, and get access to research
tools and a Google Workspace per lab. Nearly every write is "load the row, check it in Python, write
it back", and everything slow runs in background tasks of the same process. This directory models
that logic, model-checks it with TLC and proves part of it with TLAPS.

Paths below are relative to `src/backend/app` unless they start with `docs/` or `frontend/` (both
under `src/`).

## 1. What all modules share

* **One transaction per request.** `get_db` (core/database.py:16) opens a session, commits when the
  handler has returned, rolls back on an exception. The isolation level is PostgreSQL's default, READ
  COMMITTED: each statement sees what is committed when it starts.
* **Reads lock nothing.** No query uses `FOR UPDATE`. An `UPDATE`, `INSERT` or `DELETE` holds its row
  (or unique key) until the commit; others that write it wait, then go on with the newer row.
* **SQLAlchemy writes the difference.** `UPDATE ... WHERE id = ...` sets the columns that differ from
  the *loaded* values. Two requests that loaded one row may so mix their columns. A pending write is
  flushed before the next query (autoflush). Updating a row that is gone raises `StaleDataError`
  (500); deleting one that is gone only warns.
* **asyncio interleaves at awaits**: between any two statements other requests and jobs may run. Code
  without an await between (the in-memory chat store) is atomic.
* **Two builds.** `pyproject.toml:6` asks for `fastapi>=0.115.0`. FastAPI 0.115 to 0.117 runs the code
  after a dependency's `yield` (here the COMMIT) *before* the response is sent and its background tasks
  are run; from 0.118 on it runs *after* them. The dependency is not pinned, so both are builds of this
  program. `commitFirst`, chosen in `Init` from the constant `Builds` and never changed, tells them
  apart: TRUE commits before the job and the answer. Memberships and Tenancy need no such switch: they
  start no job a property is about, and a commit is a step of its own there.
* **Restarts.** Requests, background tasks and the chat store live in the memory of one process. A
  restart loses them, open transactions roll back, and no start-up code looks for rows left half way.

`Restart` models the last point in every module, and every model splits a handler at the awaits where
the property could tell the difference: usually *read and check*, then *write (and commit)*.

## 2. Inventory

| Component | State | Operations | Interacts with | Hard because | Correct if |
|---|---|---|---|---|---|
| Tool access (modules/tools/router.py, workers/provisioning.py) | `tool_access` row of a (tool, user) pair; account behind the connector | request, approve, deny, grant, revoke; job `process_access` | onboarding inserts rows; connectors | a job works on a row for seconds while others change it; commit order; lost jobs | nothing is provisioned without a grant, status and account agree, no request is forgotten, revocation holds |
| Connectors (connectors/) | mock accounts | provision, revoke (may raise) | called by the job | partial failure | see above |
| Redis worker (workers/provisioning.py:70, run_worker.py) | queue `tool_provisioning` | pop and process | nobody pushes | - | - |
| Task board (modules/tasks/router.py, core/permissions.py) | `tasks` row with a version, comments, attachments | create, patch, delete, comment, attach | lab memberships | optimistic locking in Python | no silent overwrite, transitions as listed, assignee is a member |
| Invitations (modules/invitations/router.py) | invitation: status, expiry | create, accept | users, memberships, onboarding record | one long transaction over five tables | single use, all or nothing, not after expiry |
| Memberships (modules/memberships/router.py) | organization and lab membership of a person | add to lab, change role or status | invitations, tasks, access checks | admins race with acceptances | no lab without organization, no way back in |
| Onboarding (modules/onboarding/) | progress record | advance, navigate, complete, dismiss notice | inserts tool access, one job over several rows | list written back whole, several inserts in one transaction | steps in order, all tools unlocked or none, all served |
| Google Workspace (modules/google_workspace/, workers/google_workspace.py, connectors/google_workspace_client.py) | row of the lab; chat store in memory | provision, list, chat; job | create_lab | every listing starts another job; store lost by restart | in the end active, messages kept |
| Organizations and labs (modules/organizations/router.py) | organizations, labs | create, archive, settings, dashboard | starts workspaces, invites managers | - | single-row writes |
| Platform staff (modules/platform/router.py) | organizations, roles | create with roles and first invitation, disable | invitations, every request of the organization | requests in flight when it is disabled | nobody governs a disabled organization |
| Authentication and tenant context (core/auth.py, core/permissions.py, modules/auth/router.py) | none | token to user, organization, membership, lab, role; `authorize` | every handler | three queries of different moments, stale at the write | whoever writes may do so at that moment; the last admin; a disabled organization |
| Audit log, notifications (core/audit.py, modules/audit/router.py) | append-only rows | write in the transaction of the change | every handler | - | row iff change |
| Front end (frontend/src/) | cached answers | polls lists every 2 to 3 seconds, patches with the version it has | API | - | - |
| Models, schemas, configuration, migrations, seeds | - | - | - | - | - |

`PROJECT.json` lists each with its status and the reason where something is left out, and under
"hazards" what in this code is hard to test, at its line.

## 3. Modules

### ToolAccess (`ToolAccess.tla`, `MCToolAccess.tla`, `ToolAccessProofs.tla`)

One (tool, user) pair; the unique key `uq_tool_access` makes pairs independent. `id`/`status` are the
row (a row created after a denial is a new `id`), `accounts` counts live accounts in the external
system. A request and the job it schedules are one asyncio task:

| Code | Action |
|---|---|
| a handler reads the row and checks it (router.py:284-470) | `Check(t, op)`, with the statuses in `Admits` |
| it flushes and schedules the job; in one build it commits here | `Grant`, `RequestAccess`, `Approve`, `Deny`, `Revoke` through `Save` or `Publish` |
| `process_access` reads the row, claims it, calls the connector, writes the outcome | `Load`, `Begin`, `Provision` / `Deprovision`, `Finish` |
| the other build commits after the job | `Commit` |

`overlapped` (history) becomes TRUE once two requests were in flight together. Several properties are
stated for histories without overlap because the code has races (section 5) that break them otherwise;
what they show is that these races are the *only* way to break them: no sequence of requests, failures
and restarts does.

### AccessLifecycle (`AccessLifecycle.tla`): what ToolAccess implements

The abstract specification of an access: the status graph of the code with the account behind it, one
action per edge, no tasks, sessions, locks or restarts (`Serial`). It is the graph of docs/ARCHITECTURE.md
and DESIGN.md except for one action: they let a revocation start from ACTIVE only, `revoke_access` asks for
no status and `Revoke` therefore starts from every one (section 5). From the moment on that two
requests overlap (`Disturb`) it promises less, and still something (`Racing`): a row is made only where
there is none and starts as a request or a grant, whoever writes last wins but over a row that is there
only, so a row that was denied is not brought back by a stale approval or a late job, none becomes
pending again, and one call of the connector adds one account or removes them. The mapping
`Lifecycle == INSTANCE AccessLifecycle WITH disturbed <- overlapped` forgets tasks and histories; handlers
show at their commit, jobs at their commits and calls. `FollowsLifecycle == Lifecycle!Spec` is a PROPERTY of
`ToolAccess_builds` and a theorem.

### TaskBoard (`TaskBoard.tla`, `MCTaskBoard.tla`, `TaskBoardProofs.tla`)

One task with its version, status and assignee (which stands for all columns that are simply set), its
comments and attachments, the lab's members, and the copy each editor's browser holds. `Patch` is the
load and the version and transition checks of `update_task`, `Validate` its assignee query, `Write` the
UPDATE of the columns that differ from the loaded ones, with its commit in the build that commits first;
`Answer` and `LoseAnswer` are what becomes of the answer after that, which a lost connection or a restart
may take from the client; `Commit` is the late commit. `raced` (history) becomes TRUE when a PATCH
overwrites a row it had not loaded, `missed` has the clients that lost an answer and have not read since.

A status is any of the five in `TASK_TRANSITIONS`, the empty string, or `"OTHER"`, which stands for all
other strings (`Strings`): `create_task` stores what it is given, and `update_task` checks a status if it is
true (modules/tasks/router.py:166) but writes it whenever it is not None (line 181), so the empty string is
written from every status, DONE included, and nothing but another empty string leads out of it, as out of
any status the table does not have. There is no CANCELLED in the code, although docs/PRD.md:362 lets it be
reached from any state: a PATCH to it is answered 409.

### Memberships (`Memberships.tla`, `MCMemberships.tla`, `MembershipsProofs.tla`)

One person in one organization and one lab. `accept_invitation` is split at each of its reads, as each
flushes, and so locks, what was written before: `Accept`, `FindUser`, `JoinOrg`, `JoinLab`, `Onboard`,
`Consume`. What a request holds locked, and what it will have to lock next, is derived from how far it is and
from what it changes (`Holds`, `Needs`), and so is who waits for whom (`WaitsFor`). `AddLabMember`,
`UpdateLabMember`, `UpdateMember` with `SaveLab`, `SaveOrg` are the admins' handlers. `add_lab_member` asks
for an active membership in the organization of the *path* and never whether the lab is in it: a request with
another organization in its path (`elsewhere`) finds the person there, and inserts the lab row whether or not
they are a member of the organization the lab belongs to; `strayed` (history) remembers that it did.

`MemberRows.tla` has what Memberships and Tenancy share: the rows, what an invitation makes of them
(`JoinedOrg`, `JoinedLab`), and a write as a pair of the row seen and the row wanted (`Plans`), whose
difference `Result` applies.

### Admissions (`Admissions.tla`): what Memberships implements

The abstract specification of joining: an invitation is accepted in one step (`Admit`), which uses it up
and gives all it offers; an admin's change is one step; there are no requests, locks, conflicts,
expiry or restarts. `Admitted == INSTANCE Admissions` in Memberships maps the invitations to their
status and offer and every row to itself; requests and what they hold have no counterpart, so
all their steps but the commit are stutters. `AdmittedAtomically == Admitted!Spec` is a PROPERTY of
`Memberships_joining` and a theorem. `Admit` leaves one freedom, since the code does: a column that an
admin has changed after the acceptance read it, and that the acceptance does not write, keeps the
admin's value (`Mixed`).

### Tenancy (`Tenancy.tla`, `MCTenancy.tla`, `TenancyProofs.tla`)

Who may do what in one organization, for all of its people, labs and pending invitations.

| Code | Action |
|---|---|
| `get_tenant_context`: organization, membership, lab and role there, one query each (core/auth.py:58-110) | `Enter`, `FindMember`, `FindLab` |
| `effective_role`, the matrix, `authorize` (core/audit.py:39, core/permissions.py:29, 110) | `EffectiveRole`, `RolePermissions`, `Authorized` |
| a handler checks its target (memberships, organizations, invitations routers) | `UpdateMember`, `AddLabMember`, `UpdateLabMember`, `CreateLab`, `Invite` |
| it flushes and commits; a unique key or a consumed invitation may refuse it | `Save` |
| every other handler: reads, refusals | `Answer` |
| `accept_invitation`, which asks for no context | `Accept`, then `Save` |
| the staff's `create_organization`, `deactivate_organization` | `CreateOrganization`, `Deactivate` |

An admin who changes *himself* works on the row that his session loaded at authorization (`Loaded`): the
ORM's identity map does not refresh it, so a role that was taken from him in between is not seen. What an
acceptance does between its reads is Memberships; here it reads in one step and writes in another.
`overlapped` (history) becomes TRUE once a request starts, or the staff acts, while another is in flight.

The organization that is authorized is the one in the header of a request, the one that is written to is
the one in its path, and the handlers of the table never compare them. The front end sends the same in both
(frontend/src/api/client.ts); a request that does not is `EnterElsewhere`: its queries find an admin of
another, active organization (one of `Outsiders`), all they read is there, and so nothing that changes in
this organization matters to it but its target. From there on it is handled like any other, marked
`elsewhere`; and each property says what it says of the others.

### Onboarding (`Onboarding.tla`, `MCOnboarding.tla`, `OnboardingProofs.tla`)

The progress record of one contributor (as the number of steps done: every list a handler writes is a prefix
of the lab's steps, and all three labs have the same kinds of steps) and the access to each AUTO_ONBOARD tool.
`Advance` is the read of `/advance`, which takes every step but the last, `Visit` that of `/advance-navigate`,
which takes a step that is left by visiting a page, `SaveStep` the write of both; `Complete`, `Flush`,
`LookUp`, `Insert`, `Commit` are `complete_onboarding` with `grant_onboarding_tools`. `Load`, `Claim`, `Serve`
are the job over all new rows, row by row as in ToolAccess: it reads the status, commits PROVISIONING over
whatever the status is by then, and writes what the connector came to. Who completes holds the progress record
from `Flush` on, and the unique keys of what it has inserted (`HoldsKey`). What others do to a tool's access
is one step here; its details are ToolAccess. The model has one lab: a completion of the same person in
another lab, which shares tools but not the record, shows as a row that somebody else inserts (`Grant`), and
that it may hold its keys for a while is left out (section 7).

### Unlocking (`Unlocking.tla`): what Onboarding implements

The abstract specification of an onboarding, without requests, locks, jobs, conflicts and restarts: steps are
done one after the other, and it is completed in one step (`Complete`), by who has done all but the checklist,
which gives the contributor all the tools that are missing and leaves every access alone that is there,
whatever its status. The job moves a row on from REQUESTED; as the code has it, its claim and its end also
take a revocation back that came in between (`Moves`). A tool whose pending request was denied may be left
out, since the completion may have found the request before it was denied (`denied`). `Unlocked == INSTANCE
Unlocking` in Onboarding maps each variable to itself; a completion shows at its commit. `UnlockedAtomically
== Unlocked!Spec` is a PROPERTY of `Onboarding_unlocking` and a theorem.

### Workspace (`Workspace.tla`, `MCWorkspace.tla`, `WorkspaceProofs.tla`)

The workspace of one lab and its chat. `Provision`/`Create` are the two places that request one, `List`
the listing that starts another job for a row in progress, `CheckPost`/`Post` the chat, `Load`, `Claim`,
`Seed`, `Activate` the job. `overlapped` (history) becomes TRUE once two jobs are at work at the same time. With
pages that list every two or three seconds and a job that sleeps for two and a half this is common and not the
exception: what `MessagesKept` and `ActiveStays` promise, they promise until it happens first; the
properties without that guard (`ReadyWhenActive`, `NothingAbandoned`, `ActiveInTheEnd`) hold however
jobs overlap.

The modules share no variable: each is about rows of its own (a pair, a task, a person, a record, a lab,
an organization), and where one touches another's row the step of the other is stated in it (Onboarding
inserts access rows; lab members come and go in TaskBoard; Memberships ends with the onboarding record
Onboarding starts with). Memberships and Tenancy see the same rows from two sides: all the steps of one
person's acceptance, and everybody's rows with the authority of those who change them; MemberRows is
what ties them together.

## 4. Runs

Each passing run takes between a few seconds and three minutes on two cores.

| Run | Question | Bounds |
|---|---|---|
| ToolAccess_builds | Does it implement AccessLifecycle; is everything ToolAccess promises kept in the build that commits first, and what is left of it in the other: safety, but nothing is ever served? | 2 tasks, 2 rows, 2 restarts, provision may fail, both builds |
| TaskBoard_builds | Versions, assignees, children, edits, conflicts | 2 editors, 1 user who joins and leaves, versions up to 3 (2 in the build that commits last), four of the five statuses, the empty and another one, any answer may be lost, 1 restart, both builds |
| Memberships_joining | Do acceptances and admins keep the rows of a person consistent, and does each look atomic? | 2 requests, 2 invitations, admins of this and of another organization, restarts at any time |
| Tenancy_authority | Does whoever writes have the authority then; who can leave an organization without an admin, and does it stay so? | 2 people, both of whom may come from elsewhere, 1 lab, 2 requests, lab role MANAGER, restarts at any time |
| Onboarding_unlocking | Do steps and completions race safely, do they look atomic, is everything served? | 2 requests, 2 tools, all 6 steps, 1 restart, both builds |
| Workspace_polled | Does polling repair every lost job, and is none lost but by a restart? | 3 requests, 2 messages, 1 restart, both builds |
| ToolAccess_revoke_race, _double_approve, _job_first, TaskBoard_lost_update, Memberships_expired, Tenancy_any_manager | The six disagreements of section 5 | small |

**Why these bounds are enough to be interesting.** Every race in this code is between two requests (or a
request and a job) over one row: two tasks reach all of them, and in ToolAccess a task carries its job with
it. Two rows let a stale handler meet the row after a denial. Two tools are what makes insertion order matter,
and three tasks in Workspace let two jobs overlap while somebody posts. Two restarts let a restart hit the
repair of an earlier one. In Tenancy two people and two requests let admins demote each other at once, a
person act on another and on himself, and an acceptance meet an admin's change; which lab role somebody has
matters for `AnyManagerDecides` only, so that run has both roles and the other one of them. In
TaskBoard_builds `Named` leaves BLOCKED out, which has one edge in and one out; the small runs have all
statuses. The proofs (section 6) do not depend on any of these bounds; `MaxId`, `MaxVersion`, `MaxPosts`,
`MaxRestarts` only cap counters, in the guards of the actions that raise them.

**`CHECK_DEADLOCK FALSE`** everywhere: a server with nothing to do, or one whose bounds are used up,
may stop (an organization that is disabled and has no offers left does). That nothing waits for ever is
stated by properties instead: `NoDeadlock` (Memberships, Onboarding) says that in every set of requests
there is one that waits for nobody of the set, so no cycle of any length ever forms in who waits for
whose lock; `EveryTaskEnds` (ToolAccess, Onboarding) and `ActiveInTheEnd` (Workspace) are liveness.

**Fairness.** `WF` of the step a task is about to take: the event loop runs what can run, connector calls are
bounded sleeps, and the database answers. Nobody is obliged to send a request, with one exception: in
Workspace somebody keeps a page open that lists the workspaces (`refetchInterval: 3000` in
frontend/src/pages/admin/AdminLabsPage.tsx:45, `2000` in pages/tools/ToolsPage.tsx:273). Onboarding has `SF`
of the writes that wait for the progress record, since PostgreSQL serves the waiters of a row lock in turn and
other requests may take and release the lock again and again. Restarts are bounded in the modules with
liveness, so a liveness property speaks of the time after the last one, or excludes restarts where the code
has no repair.

**What the properties say**, beyond one type invariant per module:

* ToolAccess. `GrantedBeforeUse`: no row past PENDING_APPROVAL and no connector call without a committed
  grant, under every interleaving. `NothingAbandoned`: without a restart, a row in progress has a task at
  the right phase. `AccountsMatchRow`, `RevocationHolds`: without overlap the status tells the
  truth about the account and revocation is for good. `FollowsLifecycle`: the refinement of
  AccessLifecycle, with and without overlap. `NeverServed`: in
  the build that commits last nothing is ever provisioned. `Settles`, `EveryTaskEnds`: liveness.
* TaskBoard. `SameVersionSameTask`: until an overwrite, a version names one content of the task, across
  all browsers. `AssigneeWasMember`, `ChildrenKeepTask`: even mixed writes let no stranger in and no
  delete takes a task from under its comments. `ConflictIsReal`: nobody is told of another's edit when the
  last edit was their own and they got the answer to it (without that they may be). `SerialEdits`: next version,
  and a transition of the allow-list or to the empty string.
* Memberships. `UsedOnce`, `AcceptedInFull`, `LabWithinOrg`: single use, all or nothing, and of the rows of a
  person none without the one it rests on: no membership without an account, no onboarding without a lab
  membership, and no lab membership without an organization membership unless it came by way of another
  organization. `NoWayBackIn`: a removed member returns, or rises, only by an
  admin or in the very step that consumes a pending invitation to that role. `NoDeadlock`: no requests
  wait for each other's rows. `AdmittedAtomically`: the refinement of Admissions.
* Tenancy, of requests whose header and path agree (section 5 has the others). `SerialAuthority`: while
  requests do not overlap, memberships, labs and invitations change only by the hand of an active admin of an
  active organization, or by an acceptance of a pending invitation. `LastAdminResigns`: then only the last
  admin himself leaves the organization without one. `UngovernedForGood`, under every interleaving: an
  organization without an admin, an offer to become one and a request in flight that could make one, and
  likewise a disabled one, stays so until a request from elsewhere writes there; only acceptances of what was
  offered before change it. The first two say nothing of requests that overlap: that a request outlives the
  authority it was given is what their guard leaves out, and `UngovernedForGood` is what is left then.
* Onboarding. `Unlocks`: completed means every tool has its row, unless a pending request was denied in its
  place. `StepByStep`: the list grows by the step that comes next and by a request that may end it, although
  late writes may take the list back, and completion finds all steps but the checklist; it is about the list,
  not about whether a step was really done. `Served`: one job serves all new rows; `NothingAbandoned`: without
  a restart, in the build that commits first, there is a job for every such row at every moment. `NoDeadlock`,
  `EveryTaskEnds`: two completions that insert the same rows in opposite orders do not block each other,
  because both lock the progress record first. `UnlockedAtomically`: the refinement of Unlocking.
* Workspace. `ActiveInTheEnd`: whatever jobs were lost, polling brings the workspace to ACTIVE for good.
  `MessagesKept`, `ActiveStays`: until two jobs overlap no answered message is lost and no active workspace is
  taken back. `ReadyWhenActive`: the store is seeded before members get in. `NothingAbandoned`: in the build
  that commits first only a restart leaves a workspace in progress to the next listing, however jobs overlap.

## 5. Where the code and its documents disagree

Listed in `PROJECT.json` as findings, each with a run that shows the counterexample:

1. `ToolAccess_revoke_race`: a job inside the connector overwrites REVOKING by ACTIVE
   (docs/DESIGN.md:291).
2. `ToolAccess_double_approve`: two approvals, two jobs, two accounts (docs/DESIGN.md:349).
3. `ToolAccess_job_first`: with FastAPI 0.118 and later the job runs before the commit and serves
   nothing (docs/DESIGN.md:366).
4. `TaskBoard_lost_update`: two PATCHes of one version are both answered 200 (docs/DESIGN.md:274).
5. `Memberships_expired`: the UPDATE that consumes an invitation does not look at the expiry
   (docs/DESIGN.md:215).
6. `Tenancy_any_manager`: a manager of one lab is refused a decision on a request while working in another
   lab, or in none, because `authorize` goes by the lab of the header (modules/tools/router.py:5 and 291).
   An admin is refused too, although the line after it makes an exception for admins.

Six more have no run of their own: each is one step of the model, with nothing to search for, and the
properties of the passing runs say what the code does instead.

* An access in any status is revoked (modules/tools/router.py:464-471), where docs/ARCHITECTURE.md:308 and
  docs/DESIGN.md:291 have the one edge from ACTIVE. `Revoke` of AccessLifecycle, which is the graph of the
  code and in this not the documented one.
* A PATCH with the empty string as status passes the allow-list, from every status (modules/tasks/router.py:166
  and 181-182 against docs/DESIGN.md:273), and a task is created with any status (line 128). `Patch` and
  `Create` have both, and `SerialEdits` allows the empty string by name.
* A client that lost the answer to its own PATCH is told at the next one that another user modified the task
  (modules/tasks/router.py:164). `LoseAnswer` and `missed`; `ConflictIsReal` makes an exception of that client.
* `add_lab_member` checks the membership in the organization of the path and never whether the lab is in it
  (modules/memberships/router.py:141-162), where docs/SCHEMA.md:92 leaves the match to the application.
  `strayed` in Memberships; `LabWithinOrg` and Admissions have the exception.
* A request is authorized by the organization of its header and writes to the one of its path
  (modules/memberships/router.py:137, 188 and 232, organizations/router.py:236, invitations/router.py:86),
  where docs/DESIGN.md:144 denies who has no membership. `EnterElsewhere` in Tenancy; its properties name
  such requests as the exception.
* `/advance` ends a step that completes when its page is visited (modules/onboarding/service.py:30,
  router.py:136 and 158), so the second of two clicks on the step before ends it unseen. `Enders` in
  Onboarding has both requests for such a step.

Also seen while modelling: a task that has comments or attachments cannot be deleted (500: the relationships
have no delete cascade and `task_id` is NOT NULL; `Delete` and `ChildrenKeepTask` have it). A lost update can
take a task along a forbidden transition; docs/PRD.md:362 has a status Cancelled that the code lacks. In the
build that commits last a client that saves twice may be told of a conflict with another user, and a
revocation's job may wait for the lock of its own request, so the request never ends. A tool with a pending
request is skipped by the completion of an onboarding (`denied` in `Unlocks`; docs/ARCHITECTURE.md:317). A
FAILED or REVOKED row blocks further grants. `add_lab_member` creates no onboarding record for a contributor
(docs/PRD.md:320). Overlapping workspace jobs empty the chat of an active workspace. Two admins who demote
each other at once leave the organization without one, and a disabled organization still gains members from
the invitations it had sent (`UngovernedForGood` has both). The demo login offers the first lab of a person
whatever the status of that membership (modules/auth/router.py:135).

## 6. Proofs

`ToolAccessProofs`, `TaskBoardProofs`, `WorkspaceProofs`, `MembershipsProofs`, `TenancyProofs` and
`OnboardingProofs` prove theorems of `Spec` for every value of the constants: any number of tasks, editors,
people, labs, invitations and tools, either build, any capabilities and failures of the connector, any
bounds. They rest on the named assumptions of the modules only (`BuildAssumption`, `ConnectorAssumption`,
`BoundAssumption`, `NobodyAssumption`, `NamedAssumption`, `LabRolesAssumption`, `OutsidersAssumption`).

* `Typing` (each module): `TypeOK` is inductive, by itself or with what requests carry.
* `GrantedFirst`, `NobodyForgotten` (ToolAccess): `GrantedBeforeUse` needs to know that a task that will
  publish a grant carries the id it will publish, and `NothingAbandoned` that whoever moves the status also
  moves itself to the phase that has the duty; each is strengthened by that and proved action by action.
* `Serial` (ToolAccess): without overlap at most one task is busy (`Alone`), what its handler has seen is
  still so (`CurrentView`) and its phase tells status and account (`CurrentAccount`): `SerialInv`.
  `AccountsTrue`, `RevokedForGood` and `NothingServed` are not inductive by themselves, as they say
  nothing of a job half way. `SerialAccounts`, `SerialRevocation`, `SerialService` are its
  consequences.
* `Writers`, `Implements` (ToolAccess): `SerialInv` says nothing once requests overlap. `WriteInv` does: at
  most one flushed write is not committed (`OneWriter`), the row is as it will meet it (`Flushed`: none for a
  grant, its own for an approval or a revocation), and a job calls only what its connector has (`Capable`).
  `Published` derives from it what a handler, or its late commit, does to the row. With both, every step of a
  task is one of `Serial` before an overlap (`SerialRefines`), and one of `Racing` after (`RacingRefines`).
* `Carries` (TaskBoard): `EditInv` says what a request carries from its checks to its write and what an open
  transaction holds. `Assignees` uses `AssigneeInv`; `Children`, `Edits`, `Versions` follow.
* `Jobs` (Workspace): `JobInv` has an uncommitted insert at most, during which there is no row and no job at
  work (`OneInsert`); until jobs overlap, one job at most, on a row in progress, and posts to an active
  workspace only (`OneJob`); and a store seeded before the workspace is activated (`SeededFirst`).
  `NobodyForgotten` needs in addition that in the build that commits first no insert stays open over a job
  (`NoneOpen`): whoever ends without a successor has activated the workspace or found it not in progress.
  `MessagesKept` needs all of `OneJob`: only a second job could empty a store that members already post to,
  and only a job on a row in progress keeps `Seed` from meeting messages. `Messages`, `Ready` and
  `StaysActive` follow.

* `Conflicts` (TaskBoard): `ConflictIsReal` says nothing of the browsers; it needs that the client that wrote
  last holds the task as it is, once it has the answer (`LastWriterInv`).
* `Invariant` (Memberships): `MembershipsInv` says what a request carries from its reads to its commit
  (`Carried`): it plans what the invitation offers, and rows it has found are still there, since nothing is
  deleted. `CommitEffect` derives from it what a commit does to all rows at once; `WithinOrg`, `SingleUse`,
  `AllOrNothing` and `NoReturn` follow.
* `DeadlockFree` (Memberships): every request locks in the order user, organization, lab, since its phase tells
  what it holds and what it needs (`Got` ranks the phases). Whoever is waited for is further than who waits
  (`WaitsForFurther`), so the furthest of any set waits for nobody in it (`Furthest`). This needs no
  invariant: it is the order of the flushes alone that keeps requests from blocking each other.
* `Implements` (Memberships): every step of Memberships is a step of Admissions or a stutter. The commit of
  `Consume` is `Admit`, since the invitation is still PENDING in the table there, `Result` of a plan is one
  of the `Mixed` rows, and a contributor's record is there or made; `SaveOrg` and `SaveLab` are the admin's
  changes, and of the latter Admissions asks for an account only, as the code does.
* `Invariant` (Tenancy): `TenancyInv` has, under every interleaving, that a prepared write fits the rows it will
  meet and that an acceptance gives one person what one invitation offers (`Prepared`), and, until something
  happens beside a request, that it is alone and all it has read of this organization is current
  (`Undisturbed`; of one from elsewhere there is nothing to keep).
  `AuthorityHolds` and `LastAdmin` follow; `Ungoverned` needs `Prepared` only: an acceptance without an offer of
  ADMIN never makes an admin, as `JoinedOrg` gives a former member the role that is offered.
* `Invariant` (Onboarding): `OnboardingInv` has that who advances has read a step that is there to be left, who
  completes has read that the rest is done (`OnTrack`, with the kind of step each request may end: what
  `StepByStep` needs at the late write), and
  that every tool a completion is done with has a row, flushed or committed, or was denied (`GrantsAll`,
  what `Unlocks` needs at the commit).
* `Completions` (Onboarding): `CompletionInv` has that one completion at a time is past the flush of the record
  (`OneCompletes`), that what it inserted is not there for others before the commit (`KeysKept`,
  `NothingNew`), and that no two jobs share a tool, whose row stays and can only be revoked between the job's
  read and its claim, and its claim and its end (`ServedByOne`). `DeadlockFree` follows from the
  first: who waits for a key is a completion, and the only one with keys. `NobodyForgotten` needs the
  last: a row in progress has its own job, and only that job takes it on. `Implements`: a step of an advance is
  `Advance`, the commit of a completion is `Complete` since its new rows are absent in the table (`KeysKept`)
  and every other missing one was denied (`GrantsAll`), and jobs and others are moves along `Moves`.

Only model-checked: liveness under fairness, which is beyond the prover: `Settles` and `EveryTaskEnds`
(ToolAccess), `Served` and `EveryTaskEnds` (Onboarding), `ActiveInTheEnd` (Workspace). Every other property of
every passing run is a theorem. The invariants the proofs rest on were found with TLC, as invariants of the
runs' instances.

## 7. Not modelled, and why

Tokens and the log-in pages: a signature check and a read. The suspension of users: no code sets it. Audit
rows and notifications are written in the transaction of their change and read by no logic. Tool catalogue,
launch and health endpoints, Drive, calendar and meet only read or return mock data. The Redis worker never
gets a job. Organization settings, profiles, lab names and the tool registry are single-row writes of an admin
that no property is about; the uniqueness of an organization's slug is left to the database's key. Two
completions of one person in two labs that unlock the same tools have no record in common, so they may wait
for each other's keys if the database lists the tools in different orders; Onboarding has one lab, and its
`NoDeadlock` and `EveryTaskEnds` are about that. A `provision` that raises after half of its work is left out:
the mock connectors do all of it or nothing. Migrations, seeds, configuration, acceptance scripts and the
layout of the front end have no behaviour to check.

## 8. Plan

1. *Done*: ToolAccess, TaskBoard, Memberships, Onboarding, Workspace and Tenancy, checked and proved;
   Admissions, Unlocking and AccessLifecycle, implemented by Memberships, Onboarding and ToolAccess;
   freedom from deadlock where requests take more than one lock.
2. An abstract task with optimistic locking, implemented by TaskBoard until a PATCH overwrites what it has
   not read.
3. Composition of Memberships and TaskBoard over the lab membership, and of Onboarding and ToolAccess
   over the access row, where each now states the step of the other.
4. Launching: the implicit right of a lab's manager against the access row and the policy of the lab.

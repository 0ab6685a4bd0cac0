---------------------------- MODULE TaskBoardProofs ----------------------------
(***************************************************************************)
(* Theorems about TaskBoard for every set of editors and users, either     *)
(* build and every bound.                                                  *)
(***************************************************************************)
EXTENDS TaskBoard, TLAPS

USE NobodyAssumption, BuildAssumption, BoundAssumption, NamedAssumption

Pcs == {"idle", "validate", "write", "answer", "delete", "attach"}

LEMMA NoneIsNoStatus == "NONE" \notin Strings /\ "BACKLOG" \in Strings
BY DEF Strings, TaskStatuses, TaskTransitions

LEMMA NoTaskType == NoTask \in Rows /\ NoTask.status = "NONE" /\ Idle \in Requests
BY DEF NoTask, Rows, Idle, Requests

LEMMA LiveRow ==
    ASSUME TypeOK
    PROVE  stage = "live" <=> row # NoTask /\ row.status \in Strings
BY NoneIsNoStatus, NoTaskType DEF TypeOK

(* A running process does not change its build.                            *)
LEMMA BuildFixed ==
    ASSUME [Next]_vars
    PROVE  commitFirst' = commitFirst
BY DEF Next, Create, Patch, Get, Conflict, Validate, Write, Answer, LoseAnswer, Begin, Delete, Attach,
   Commit, Activate, Deactivate, Restart, vars

LEMMA StartEffect ==
    ASSUME TypeOK, NEW c \in Clients, NEW p \in Pcs, NEW seen \in Rows, NEW new \in Rows,
           Start(c, p, seen, new)
    PROVE  /\ req' \in [Clients -> Requests]
           /\ req'[c] = [pc |-> p, seen |-> seen, new |-> new]
           /\ \A d \in Clients \ {c} : req'[d] = req[d]
BY DEF TypeOK, Start, Requests, Pcs

LEMMA EndEffect ==
    ASSUME TypeOK, NEW c \in Clients, End(c)
    PROVE  /\ req' \in [Clients -> Requests]
           /\ req'[c] = Idle
           /\ \A d \in Clients \ {c} : req'[d] = req[d]
BY NoTaskType DEF TypeOK, End

(* A request that ends without being heard adds nothing to what is known.  *)
LEMMA EndKnows ==
    ASSUME TypeOK, NEW c \in Clients, End(c), UNCHANGED copy
    PROVE  Known' \subseteq Known
BY EndEffect DEF Known, Idle

LEMMA RequestType ==
    ASSUME TypeOK, NEW c \in Clients
    PROVE  /\ req[c] \in Requests
           /\ req[c].pc \in Pcs /\ req[c].seen \in Rows /\ req[c].new \in Rows
BY DEF TypeOK, Requests, Pcs

LEMMA UpdatedType ==
    ASSUME NEW seen \in Rows, NEW new \in Rows, row \in Rows
    PROVE  Updated(seen, new) \in Rows
BY DEF Updated, Rows

LEMMA FlushedStays ==
    ASSUME Flushed, UNCHANGED <<commitFirst, row, stage, open, raced>>
    PROVE  Flushed'
BY DEF Flushed, Moves, ValidTransition

(* A request that edits begins.                                            *)
LEMMA RequestStarts ==
    ASSUME TypeOK, EditInv, commitFirst' = commitFirst,
           NEW c \in Clients, NEW p \in Pcs, NEW seen \in Rows,
           NEW new \in Rows, Start(c, p, seen, new), p # "answer",
           UNCHANGED <<db, copy, raced>>,
           stage = "live" \/ (p \in {"validate", "write"} /\ seen = NoTask),
           p \in {"validate", "write"} => new.status \in Strings,
           p \in {"validate", "write"} /\ seen # NoTask =>
              /\ stage = "live"
              /\ new.version = seen.version + 1
              /\ Moves(seen.status, new.status),
           p \in {"validate", "write"} /\ seen = NoTask =>
              /\ stage = "none" /\ open = NoTask /\ new.version = 1
              /\ \A d \in Clients \ {c} : IsIdle(d)
    PROVE  EditInv'
<1>1. /\ req'[c] = [pc |-> p, seen |-> seen, new |-> new]
      /\ \A d \in Clients \ {c} : req'[d] = req[d]
  BY StartEffect
<1>2. UNCHANGED <<row, stage, open, copy, raced>>
  BY DEF db
<1>3. Carried'
  <2>1. \A d \in Clients : Editing(d)' => (req[d].new.status)' \in Strings
    BY <1>1 DEF EditInv, Carried, Editing
  <2>2. \A d \in Clients : (Editing(d) /\ ~Creating(d))' =>
           /\ stage' # "none"
           /\ req'[d].new.version = req'[d].seen.version + 1
           /\ Moves(req'[d].seen.status, req'[d].new.status)
    BY <1>1, <1>2 DEF EditInv, Carried, Editing, Creating
  <2>3. ASSUME NEW d \in Clients, Creating(d)'
        PROVE  /\ stage' = "none" /\ open' = NoTask /\ req'[d].new.version = 1
               /\ \A e \in Clients \ {d} : IsIdle(e)'
    <3>1. CASE d = c
      BY <1>1, <1>2, <2>3, <3>1 DEF Creating, Editing, IsIdle
    <3>2. CASE d # c
      <4>1. Creating(d)
        BY <1>1, <2>3, <3>2 DEF Creating, Editing
      <4>2. stage = "none" /\ IsIdle(d)
        BY <3>2, <4>1 DEF EditInv, Carried
      <4>3. QED
        BY <4>1, <4>2 DEF Creating, Editing, IsIdle, Idle
    <3>3. QED
      BY <3>1, <3>2
  <2>4. QED
    BY <2>1, <2>2, <2>3 DEF Carried, Moves, ValidTransition
<1>4. Known' \subseteq Known
  BY <1>1, <1>2 DEF Known
<1>5. Unborn'
  <2>1. Unborn
    BY DEF EditInv
  <2>2. row' = row /\ stage' = stage /\ open' = open
    BY <1>2
  <2>3. QED
    BY <1>4, <2>1, <2>2 DEF Unborn
<1>6. Flushed'
  BY <1>2, FlushedStays DEF EditInv
<1>7. QED
  BY <1>3, <1>5, <1>6 DEF EditInv

(* A request ends, perhaps with an answer, or nothing that EditInv speaks  *)
(* of changes.                                                             *)
LEMMA RequestEnds ==
    ASSUME TypeOK, EditInv, commitFirst' = commitFirst, NEW c \in Clients, End(c),
           UNCHANGED <<row, stage, open, raced>>, Known' \subseteq Known
    PROVE  EditInv'
<1>1. req'[c] = Idle /\ \A d \in Clients \ {c} : req'[d] = req[d]
  BY EndEffect
<1>2. ASSUME NEW d \in Clients, Editing(d)'
      PROVE  d # c /\ req'[d] = req[d] /\ Editing(d) /\ Creating(d)' = Creating(d)
  BY <1>1, <1>2 DEF Editing, Creating, Idle
<1>3. Carried'
  <2>1. \A d \in Clients : Editing(d)' => (req[d].new.status)' \in Strings
    BY <1>2 DEF EditInv, Carried
  <2>2. \A d \in Clients : (Editing(d) /\ ~Creating(d))' =>
           /\ stage' # "none"
           /\ req'[d].new.version = req'[d].seen.version + 1
           /\ Moves(req'[d].seen.status, req'[d].new.status)
    BY <1>2 DEF EditInv, Carried
  <2>3. ASSUME NEW d \in Clients, Creating(d)'
        PROVE  /\ stage' = "none" /\ open' = NoTask /\ req'[d].new.version = 1
               /\ \A e \in Clients \ {d} : IsIdle(e)'
    <3>1. Creating(d) /\ req'[d] = req[d]
      BY <1>2, <2>3 DEF Creating
    <3>2. QED
      BY <1>1, <3>1 DEF EditInv, Carried, IsIdle
  <2>4. QED
    BY <2>1, <2>2, <2>3 DEF Carried, Moves, ValidTransition
<1>4. Unborn'
  BY DEF EditInv, Unborn
<1>5. Flushed'
  BY DEF EditInv, Flushed, Moves, ValidTransition
<1>6. QED
  BY <1>3, <1>4, <1>5 DEF EditInv

LEMMA Quiet ==
    ASSUME EditInv, UNCHANGED <<commitFirst, row, stage, open, copy, raced, req>>
    PROVE  EditInv'
BY DEF EditInv, Carried, Flushed, Unborn, Known, Editing, Creating, IsIdle, Moves, ValidTransition

(* What a write leads to: the row it writes, and the next version of it as *)
(* long as nobody has come in between.                                     *)
LEMMA WriteResult ==
    ASSUME TypeOK, EditInv, NEW c \in Clients, req[c].pc = "write", stage # "deleted",
           NEW result, result = IF req[c].seen = NoTask THEN req[c].new
                                ELSE Updated(req[c].seen, req[c].new)
    PROVE  /\ result \in Rows /\ result.status \in Strings /\ result # NoTask
           /\ stage = "none" <=> req[c].seen = NoTask
           /\ req[c].seen = NoTask =>
                 row = NoTask /\ result.version = 1 /\ \A d \in Clients \ {c} : IsIdle(d)
           /\ stage = "live" /\ row = req[c].seen =>
                 result.version = row.version + 1 /\ Moves(row.status, result.status)
<1>1. req[c].seen \in Rows /\ req[c].new \in Rows /\ row \in Rows
  BY RequestType DEF TypeOK
<1>2. result \in Rows
  BY <1>1, UpdatedType
<1>3. Editing(c) /\ req[c].new.status \in Strings
  BY DEF Editing, EditInv, Carried
<1>4. CASE req[c].seen = NoTask
  <2>1. stage = "none" /\ req[c].new.version = 1 /\ \A d \in Clients \ {c} : IsIdle(d)
    BY <1>3, <1>4 DEF Creating, EditInv, Carried
  <2>2. QED
    BY <1>2, <1>3, <1>4, <2>1, NoTaskType, NoneIsNoStatus DEF EditInv, Unborn
<1>5. CASE req[c].seen # NoTask
  <2>1. /\ stage # "none" /\ req[c].new.version = req[c].seen.version + 1
        /\ Moves(req[c].seen.status, req[c].new.status)
    BY <1>3, <1>5 DEF Creating, EditInv, Carried
  <2>2. stage = "live" /\ row.status \in Strings
    BY <2>1 DEF TypeOK
  <2>3. result = Updated(req[c].seen, req[c].new)
    BY <1>5
  <2>4. result.status \in Strings /\ result.version = req[c].new.version
    BY <1>3, <2>2, <2>3 DEF Updated
  <2>5. row = req[c].seen => result.status = req[c].new.status
    BY <2>3 DEF Updated
  <2>6. result # NoTask
    BY <2>4, NoTaskType, NoneIsNoStatus
  <2>7. QED
    BY <1>2, <1>5, <2>1, <2>2, <2>4, <2>5, <2>6
<1>6. QED
  BY <1>4, <1>5

LEMMA WriteStep ==
    ASSUME TypeOK, EditInv, commitFirst' = commitFirst, NEW c \in Clients, Write(c)
    PROVE  TypeOK' /\ EditInv'
<1> DEFINE r == req[c]
           result == IF r.seen = NoTask THEN r.new ELSE Updated(r.seen, r.new)
<1>1. r.pc = "write" /\ open = NoTask /\ UNCHANGED <<lab, answers, restarts>>
  BY DEF Write
<1>3. CASE stage = "deleted"
  <2>1. End(c) /\ UNCHANGED <<db, answers, writes>>
    BY <1>3 DEF Write
  <2>2. TypeOK'
    BY <1>1, <2>1, EndEffect DEF TypeOK, db, answers, writes, lab
  <2>3. QED
    BY <1>1, <2>1, <2>2, EndKnows, RequestEnds DEF db, answers, writes
<1>4. CASE stage # "deleted"
  <2>1. /\ Start(c, "answer", NoTask, result)
        /\ raced' = (raced \/ row # r.seen)
        /\ lastBy' = c
        /\ row' = IF commitFirst THEN result ELSE row
        /\ stage' = IF commitFirst THEN "live" ELSE stage
        /\ open' = IF commitFirst THEN NoTask ELSE result
        /\ UNCHANGED children
    BY <1>4 DEF Write
  <2>2. /\ result \in Rows /\ result.status \in Strings /\ result # NoTask
        /\ stage = "none" <=> r.seen = NoTask
        /\ r.seen = NoTask => row = NoTask /\ \A d \in Clients \ {c} : IsIdle(d)
        /\ stage = "live" /\ row = r.seen =>
              result.version = row.version + 1 /\ Moves(row.status, result.status)
    BY <1>1, <1>4, WriteResult
  <2> HIDE DEF result
  <2>a. /\ req' \in [Clients -> Requests]
        /\ req'[c] = [pc |-> "answer", seen |-> NoTask, new |-> result]
        /\ \A d \in Clients \ {c} : req'[d] = req[d]
    BY <2>1, <2>2, NoTaskType, StartEffect DEF Pcs
  <2>3. TypeOK'
    <3>1. row' \in Rows /\ open' \in Rows
      BY <2>1, <2>2, NoTaskType DEF TypeOK
    <3>2. stage' \in {"none", "live", "deleted"} /\ (stage' = "live" <=> row'.status \in Strings)
      BY <2>1, <2>2 DEF TypeOK
    <3>3. QED
      BY <1>1, <2>a, <2>1, <3>1, <3>2 DEF TypeOK, lab, answers
  <2>4. Carried'
    <3>1. ASSUME NEW d \in Clients, Editing(d)'
          PROVE  d # c /\ Editing(d) /\ req'[d] = req[d] /\ r.seen # NoTask /\ stage = "live"
                 /\ stage' = "live"
      <4>1. d # c /\ req'[d] = req[d]
        BY <2>a, <3>1 DEF Editing
      <4>2. Editing(d)
        BY <3>1, <4>1 DEF Editing
      <4>3. r.seen # NoTask
        BY <2>2, <4>1, <4>2 DEF Editing, IsIdle, Idle
      <4>4. stage = "live"
        BY <1>4, <2>2, <4>3 DEF TypeOK
      <4>5. QED
        BY <2>1, <4>1, <4>2, <4>3, <4>4
    <3>2. ASSUME NEW d \in Clients, Creating(d)' PROVE FALSE
      <4>1. Creating(d) /\ stage = "live"
        BY <3>1, <3>2 DEF Creating
      <4>2. QED
        BY <4>1 DEF EditInv, Carried
    <3>3. QED
      BY <3>1, <3>2 DEF EditInv, Carried, Creating, Moves, ValidTransition
  <2>5. Flushed'
    <3>1. CASE commitFirst
      BY <2>1, <3>1 DEF Flushed
    <3>2. CASE ~commitFirst
      <4>1. open' = result /\ row' = row /\ stage' = stage
        BY <2>1, <3>2
      <4>2. ~raced' => row = r.seen
        BY <2>1
      <4>3. QED
        BY <1>4, <2>2, <3>2, <4>1, <4>2 DEF Flushed, Moves, ValidTransition
    <3>3. QED
      BY <3>1, <3>2
  <2>6. Unborn'
    BY <2>1, <2>2 DEF Unborn
  <2>7. QED
    BY <2>3, <2>4, <2>5, <2>6 DEF EditInv
<1>5. QED
  BY <1>3, <1>4

(* Every variable keeps its type, a request carries the next version of    *)
(* what it loaded, and an open transaction the next version of the row.    *)
LEMMA StepInv ==
    ASSUME TypeOK, EditInv, [Next]_vars
    PROVE  TypeOK' /\ EditInv'
<1>a. NoTask \in Rows /\ row \in Rows
  BY NoTaskType DEF TypeOK
<1>b. commitFirst' = commitFirst
  BY BuildFixed
<1> USE <1>b
<1>1. ASSUME NEW c \in Clients, NEW s \in Named, NEW a \in People \cup {Nobody},
             Create(c, s, a)
      PROVE  TypeOK' /\ EditInv'
  <2> DEFINE p == IF a = Nobody THEN "write" ELSE "validate"
             new == [status |-> IF s = "" THEN "BACKLOG" ELSE s, assignee |-> a, version |-> 1]
  <2>1. /\ stage = "none" /\ open = NoTask /\ \A d \in Clients : IsIdle(d)
        /\ Start(c, p, NoTask, new) /\ UNCHANGED <<db, lab, answers, writes, restarts>>
    BY <1>1 DEF Create
  <2>2. p \in Pcs /\ p \in {"validate", "write"} /\ p # "answer" /\ new \in Rows
    BY NoneIsNoStatus DEF Pcs, Rows
  <2>3. TypeOK'
    BY <1>a, <2>1, <2>2, StartEffect DEF TypeOK, db, lab, answers, writes
  <2>4. EditInv'
    <3> HIDE DEF p
    <3>1. UNCHANGED <<db, copy, raced>> /\ new.status \in Strings /\ new.version = 1
      BY <2>1, NoneIsNoStatus DEF answers, writes
    <3> HIDE DEF new
    <3>2. QED
      BY <1>a, <2>1, <2>2, <3>1, RequestStarts
  <2>5. QED
    BY <2>3, <2>4
<1>2. ASSUME NEW c \in Clients, NEW s \in Named, NEW a \in People \cup {row.assignee},
             Patch(c, s, a)
      PROVE  TypeOK' /\ EditInv'
  <2> DEFINE p == IF a = row.assignee THEN "write" ELSE "validate"
             new == [status |-> s, assignee |-> a, version |-> row.version + 1]
  <2>1. /\ stage = "live" /\ Moves(row.status, s)
        /\ Start(c, p, row, new) /\ UNCHANGED <<db, lab, answers, writes, restarts>>
    BY <1>2 DEF Patch, Moves
  <2>2. p \in Pcs /\ p \in {"validate", "write"} /\ p # "answer" /\ new \in Rows
    BY <1>a DEF Pcs, Rows
  <2>3. TypeOK'
    BY <1>a, <2>1, <2>2, StartEffect DEF TypeOK, db, lab, answers, writes
  <2>4. EditInv'
    <3> HIDE DEF p
    <3>1. /\ UNCHANGED <<db, copy, raced>> /\ row # NoTask
          /\ new.status = s /\ new.version = row.version + 1
      BY <2>1, LiveRow DEF answers, writes
    <3> HIDE DEF new
    <3>2. QED
      BY <1>a, <2>1, <2>2, <3>1, RequestStarts
  <2>5. QED
    BY <2>3, <2>4
<1>3. ASSUME NEW c \in Clients, Get(c) PROVE TypeOK' /\ EditInv'
  <2>1. TypeOK'
    BY <1>3 DEF Get, TypeOK, db, lab, writes
  <2>2. EditInv'
    <3>1. stage = "live" /\ UNCHANGED <<row, stage, open, raced, req>>
      BY <1>3 DEF Get, db, writes
    <3>2. Carried'
      BY <3>1 DEF EditInv, Carried, Editing, Creating, IsIdle, Moves, ValidTransition
    <3>3. Flushed' /\ Unborn'
      BY <3>1 DEF EditInv, Flushed, Unborn, Moves, ValidTransition
    <3>4. QED
      BY <3>2, <3>3 DEF EditInv
  <2>3. QED
    BY <2>1, <2>2
<1>4. ASSUME NEW c \in Clients, Conflict(c) PROVE TypeOK' /\ EditInv'
  <2>1. TypeOK'
    BY <1>4 DEF Conflict, TypeOK, vars
  <2>2. QED
    BY <1>4, <2>1, Quiet DEF Conflict, vars
<1>5. ASSUME NEW c \in Clients, Validate(c) PROVE TypeOK' /\ EditInv'
  <2>1. UNCHANGED <<row, stage, open, copy, raced>> /\ req[c].pc = "validate"
    BY <1>5 DEF Validate, db, answers, writes
  <2>2. CASE End(c)
    <3>1. TypeOK'
      BY <1>5, <2>2, EndEffect DEF Validate, TypeOK, db, lab, answers, writes
    <3>2. QED
      BY <2>1, <2>2, <3>1, EndKnows, RequestEnds
  <2>3. CASE req' = [req EXCEPT ![c].pc = "write"]
    <3>1. /\ req' = [req EXCEPT ![c] = [req[c] EXCEPT !.pc = "write"]]
          /\ req[c] \in Requests
      BY <2>3, RequestType DEF TypeOK
    <3>2. req' \in [Clients -> Requests]
      BY <3>1 DEF TypeOK, Requests
    <3>3. TypeOK'
      BY <1>5, <3>2 DEF Validate, TypeOK, db, lab, answers, writes
    <3>4. /\ req'[c].pc = "write" /\ req'[c].seen = req[c].seen /\ req'[c].new = req[c].new
          /\ \A d \in Clients \ {c} : req'[d] = req[d]
      BY <3>1 DEF TypeOK, Requests
    <3>5. \A d \in Clients : /\ Editing(d)' = Editing(d) /\ Creating(d)' = Creating(d)
                             /\ req'[d].seen = req[d].seen /\ req'[d].new = req[d].new
      BY <2>1, <3>4 DEF Editing, Creating
    <3>6. \A d \in Clients : IsIdle(d) => IsIdle(d)'
      BY <2>1, <3>4 DEF IsIdle, Idle
    <3>7. Carried'
      BY <2>1, <3>5, <3>6 DEF EditInv, Carried, Moves, ValidTransition
    <3>8. Flushed' /\ Unborn'
      <4>1. Known' \subseteq Known
        BY <2>1, <3>4 DEF Known
      <4>2. QED
        BY <2>1, <4>1 DEF EditInv, Flushed, Unborn, Moves, ValidTransition
    <3>9. QED
      BY <3>3, <3>7, <3>8 DEF EditInv
  <2>4. QED
    BY <1>5, <2>2, <2>3 DEF Validate
<1>6. ASSUME NEW c \in Clients, NEW p \in {"delete", "attach"}, Begin(c, p)
      PROVE  TypeOK' /\ EditInv'
  <2>1. /\ stage = "live" /\ Start(c, p, NoTask, NoTask) /\ p \in Pcs
        /\ UNCHANGED <<db, lab, answers, writes, restarts>>
    BY <1>6 DEF Begin, Pcs
  <2>2. TypeOK'
    BY <1>a, <2>1, StartEffect DEF TypeOK, db, lab, answers, writes
  <2>3. UNCHANGED <<db, copy, raced>>
    BY <2>1 DEF answers, writes
  <2>4. QED
    BY <1>a, <2>1, <2>2, <2>3, RequestStarts
<1>7. ASSUME NEW c \in Clients, Delete(c) PROVE TypeOK' /\ EditInv'
  <2>1. /\ req[c].pc = "delete" /\ open = NoTask /\ End(c)
        /\ UNCHANGED <<children, open, lab, answers, writes, restarts>>
    BY <1>7 DEF Delete
  <2>2. /\ req' \in [Clients -> Requests]
        /\ req'[c] = Idle /\ \A d \in Clients \ {c} : req'[d] = req[d]
    BY <2>1, EndEffect
  <2>3. CASE UNCHANGED <<row, stage>>
    <3>1. TypeOK'
      BY <2>1, <2>2, <2>3 DEF TypeOK, lab, answers, writes
    <3>2. QED
      BY <2>1, <2>3, <3>1, EndKnows, RequestEnds DEF answers, writes
  <2>4. CASE row' = NoTask /\ stage' = "deleted"
    <3>1. TypeOK'
      BY <1>a, <2>1, <2>2, <2>4, NoTaskType, NoneIsNoStatus DEF TypeOK, lab, answers, writes
    <3>2. \A d \in Clients : Editing(d)' => Editing(d) /\ req'[d] = req[d]
      BY <2>2 DEF Editing, Idle
    <3>3. \A d \in Clients : ~Creating(d)
      BY <2>1 DEF EditInv, Carried, IsIdle, Idle, Creating, Editing
    <3>4. Carried'
      BY <2>4, <3>2, <3>3 DEF EditInv, Carried, Creating, Moves, ValidTransition
    <3>5. Flushed' /\ Unborn'
      BY <2>1, <2>4 DEF Flushed, Unborn
    <3>6. QED
      BY <3>1, <3>4, <3>5 DEF EditInv
  <2>5. QED
    BY <1>7, <2>3, <2>4 DEF Delete
<1>8. ASSUME NEW c \in Clients, Attach(c) PROVE TypeOK' /\ EditInv'
  <2>1. TypeOK'
    BY <1>8, EndEffect DEF Attach, TypeOK, lab, answers, writes
  <2>2. QED
    BY <1>8, <2>1, EndKnows, RequestEnds DEF Attach, answers, writes
<1>9. CASE Commit
  <2>1. /\ open # NoTask /\ row' = open /\ stage' = "live" /\ open' = NoTask
        /\ UNCHANGED <<children, req, lab, answers, writes, restarts>>
    BY <1>9 DEF Commit
  <2>2. open.status \in Strings
    BY <2>1 DEF EditInv, Flushed
  <2>3. TypeOK'
    BY <1>a, <2>1, <2>2 DEF TypeOK, lab, answers, writes
  <2>4. \A d \in Clients : ~Creating(d)
    BY <2>1 DEF EditInv, Carried
  <2>5. Carried'
    BY <2>1, <2>4 DEF EditInv, Carried, Creating, Editing, Moves, ValidTransition
  <2>6. Flushed' /\ Unborn'
    BY <2>1 DEF Flushed, Unborn
  <2>7. QED
    BY <2>3, <2>5, <2>6 DEF EditInv
<1>10. ASSUME NEW u \in People, Activate(u) \/ Deactivate(u) PROVE TypeOK' /\ EditInv'
  <2>1. TypeOK'
    BY <1>10 DEF Activate, Deactivate, TypeOK, db, answers, writes
  <2>2. QED
    BY <1>10, <2>1, Quiet DEF Activate, Deactivate, db, answers, writes
<1>11. CASE Restart
  <2>1. /\ req' = [c \in Clients |-> Idle] /\ open' = NoTask /\ restarts' = restarts + 1
        /\ copy' = IF stage = "none" THEN [c \in Clients |-> NoTask] ELSE copy
        /\ missed' \subseteq missed \cup Clients
        /\ UNCHANGED <<row, stage, children, lab, writes>>
    BY <1>11 DEF Restart
  <2>2. TypeOK'
    BY <1>a, <2>1, NoTaskType DEF TypeOK, lab, writes
  <2>3. \A d \in Clients : ~Editing(d)'
    BY <2>1 DEF Editing, Idle
  <2>4. Carried' /\ Flushed'
    BY <2>1, <2>3 DEF Carried, Flushed, Creating
  <2>5. Unborn'
    BY <2>1 DEF EditInv, Unborn, Known, Idle
  <2>6. QED
    BY <2>2, <2>4, <2>5 DEF EditInv
<1>a1. ASSUME NEW c \in Clients, Answer(c) PROVE TypeOK' /\ EditInv'
  <2>1. /\ req[c].pc = "answer" /\ End(c) /\ copy' = [copy EXCEPT ![c] = req[c].new]
        /\ missed' = missed \ {c} /\ UNCHANGED <<db, lab, writes, restarts>>
    BY <1>a1 DEF Answer
  <2>2. /\ req' \in [Clients -> Requests]
        /\ req'[c] = Idle /\ \A d \in Clients \ {c} : req'[d] = req[d]
    BY <2>1, EndEffect
  <2>3. copy' \in [Clients -> Rows]
    BY <2>1, RequestType DEF TypeOK
  <2>4. TypeOK'
    BY <2>1, <2>2, <2>3 DEF TypeOK, db, lab, writes
  <2>5. \A d \in Clients : copy'[d] \in Known
    BY <2>1 DEF Known, TypeOK
  <2>6. \A d \in Clients : req'[d].pc = "answer" => req'[d].new \in Known
    BY <2>2 DEF Known, Idle
  <2>7. Known' \subseteq Known
    BY <2>5, <2>6 DEF Known
  <2>8. QED
    BY <2>1, <2>4, <2>7, RequestEnds DEF db, writes
<1>a2. ASSUME NEW c \in Clients, LoseAnswer(c) PROVE TypeOK' /\ EditInv'
  <2>1. TypeOK'
    BY <1>a2, EndEffect DEF LoseAnswer, TypeOK, db, lab, writes
  <2>2. QED
    BY <1>a2, <2>1, EndKnows, RequestEnds DEF LoseAnswer, db, writes
<1>12. CASE UNCHANGED vars
  <2>1. TypeOK'
    BY <1>12 DEF vars, TypeOK
  <2>2. QED
    BY <1>12, <2>1, Quiet DEF vars
<1>13. QED
  BY <1>1, <1>2, <1>3, <1>4, <1>5, <1>6, <1>7, <1>8, <1>9, <1>10, <1>11, <1>12,
     <1>a1, <1>a2, WriteStep DEF Next

(* The strengthening of TaskBoard is inductive together with the types.    *)
THEOREM Carries == Spec => [](TypeOK /\ EditInv)
<1>1. Init => TypeOK /\ EditInv
  <2> SUFFICES ASSUME Init PROVE TypeOK /\ EditInv
    OBVIOUS
  <2>1. TypeOK
    BY NoTaskType, NoneIsNoStatus DEF Init, TypeOK
  <2>2. EditInv
    BY DEF Init, EditInv, Carried, Flushed, Unborn, Known, Editing, Creating, Idle
  <2>3. QED
    BY <2>1, <2>2
<1>2. TypeOK /\ EditInv /\ [Next]_vars => (TypeOK /\ EditInv)'
  BY StepInv
<1>3. QED
  BY <1>1, <1>2, PTL DEF Spec

(* Every variable keeps its type.                                          *)
THEOREM Typing == Spec => []TypeOK
BY Carries, PTL

(* In either build, whatever edits mix: nobody but users who were members  *)
(* of the lab is ever an assignee.                                         *)
THEOREM Assignees == Spec => []AssigneeWasMember
<1>1. Init => AssigneeInv
  BY DEF Init, AssigneeInv, AssigneeWasMember, NoTask, Idle
<1>2. TypeOK /\ EditInv /\ AssigneeInv /\ [Next]_vars => AssigneeInv'
  <2> SUFFICES ASSUME TypeOK, EditInv, AssigneeInv, [Next]_vars PROVE AssigneeInv'
    OBVIOUS
  <2>a. /\ row.assignee \in joined \cup {Nobody} /\ open.assignee \in joined \cup {Nobody}
        /\ \A c \in Clients : req[c].pc = "write" => req[c].new.assignee \in joined \cup {Nobody}
        /\ members \subseteq joined /\ NoTask.assignee = Nobody
    BY DEF AssigneeInv, AssigneeWasMember, NoTask
  (* The row and the members stay, one request moves.                      *)
  <2>b. ASSUME NEW c \in Clients, UNCHANGED <<row, open, lab>>,
               \A d \in Clients \ {c} : req'[d] = req[d],
               req'[c].pc = "write" => req'[c].new.assignee \in joined \cup {Nobody}
        PROVE  AssigneeInv'
    BY <2>a, <2>b DEF AssigneeInv, AssigneeWasMember, lab
  (* The row changes, and no request is about to write that was not.       *)
  <2>c. ASSUME UNCHANGED lab,
               row'.assignee \in joined \cup {Nobody}, open'.assignee \in joined \cup {Nobody},
               \A d \in Clients : req'[d].pc = "write" => req'[d] = req[d]
        PROVE  AssigneeInv'
    BY <2>a, <2>c DEF AssigneeInv, AssigneeWasMember, lab
  <2>1. ASSUME NEW c \in Clients, NEW s \in Named, NEW a \in People \cup {Nobody},
               Create(c, s, a)
        PROVE  AssigneeInv'
    <3> DEFINE p == IF a = Nobody THEN "write" ELSE "validate"
               new == [status |-> IF s = "" THEN "BACKLOG" ELSE s, assignee |-> a, version |-> 1]
    <3>1. Start(c, p, NoTask, new) /\ UNCHANGED <<row, open, lab>>
      BY <2>1 DEF Create, db
    <3>2. p \in Pcs /\ new \in Rows
      BY NoneIsNoStatus DEF Pcs, Rows
    <3>3. req'[c] = [pc |-> p, seen |-> NoTask, new |-> new]
          /\ \A d \in Clients \ {c} : req'[d] = req[d]
      <4> HIDE DEF p, new
      <4>1. QED
        BY <3>1, <3>2, NoTaskType, StartEffect
    <3>4. req'[c].pc = "write" => req'[c].new.assignee \in joined \cup {Nobody}
      <4>1. new.assignee = a /\ (p = "write" => a = Nobody)
        OBVIOUS
      <4> HIDE DEF p, new
      <4>2. QED
        BY <3>3, <4>1
    <3> HIDE DEF p, new
    <3>5. QED
      BY <2>b, <3>1, <3>3, <3>4
  <2>2. ASSUME NEW c \in Clients, NEW s \in Named, NEW a \in People \cup {row.assignee},
               Patch(c, s, a)
        PROVE  AssigneeInv'
    <3> DEFINE p == IF a = row.assignee THEN "write" ELSE "validate"
               new == [status |-> s, assignee |-> a, version |-> row.version + 1]
    <3>1. Start(c, p, row, new) /\ UNCHANGED <<row, open, lab>>
      BY <2>2 DEF Patch, db
    <3>2. p \in Pcs /\ new \in Rows /\ row \in Rows
      BY DEF Pcs, Rows, TypeOK
    <3>3. req'[c] = [pc |-> p, seen |-> row, new |-> new]
          /\ \A d \in Clients \ {c} : req'[d] = req[d]
      <4> HIDE DEF p, new
      <4>1. QED
        BY <3>1, <3>2, StartEffect
    <3>4. QED
      BY <2>a, <2>b, <3>1, <3>3
  <2>3. ASSUME NEW c \in Clients, Get(c) \/ Conflict(c) PROVE AssigneeInv'
    BY <2>3, <2>a DEF Get, Conflict, vars, db, lab, AssigneeInv, AssigneeWasMember
  <2>4. ASSUME NEW c \in Clients, Validate(c) PROVE AssigneeInv'
    <3>1. CASE End(c)
      BY <2>4, <2>b, <3>1, EndEffect DEF Validate, db, Idle
    <3>2. CASE ~End(c)
      <4>1. /\ req' = [req EXCEPT ![c] = [req[c] EXCEPT !.pc = "write"]]
            /\ req[c] \in Requests /\ req[c].new.assignee \in members
            /\ UNCHANGED <<row, open, lab>>
        BY <2>4, <3>2, RequestType DEF Validate, TypeOK, db
      <4>2. /\ req'[c].new = req[c].new /\ \A d \in Clients \ {c} : req'[d] = req[d]
        BY <4>1 DEF TypeOK, Requests
      <4>3. QED
        BY <2>a, <2>b, <4>1, <4>2
    <3>3. QED
      BY <3>1, <3>2
  <2>5. ASSUME NEW c \in Clients, Write(c) PROVE AssigneeInv'
    <3> DEFINE r == req[c]
               result == IF r.seen = NoTask THEN r.new ELSE Updated(r.seen, r.new)
    <3>1. r.pc = "write" /\ UNCHANGED lab /\ (End(c) \/ Start(c, "answer", NoTask, result))
      BY <2>5 DEF Write
    <3>2. result.assignee \in joined \cup {Nobody}
      BY <3>1, <2>a DEF Updated
    <3>3. row' \in {row, result} /\ open' \in {open, NoTask, result}
      BY <2>5 DEF Write, db
    <3>4. result \in Rows
      BY RequestType, UpdatedType DEF TypeOK
    <3> HIDE DEF result
    <3>5. \A d \in Clients : req'[d].pc = "write" => req'[d] = req[d]
      <4>1. CASE End(c)
        BY <4>1, EndEffect DEF Idle
      <4>2. CASE Start(c, "answer", NoTask, result)
        <5>1. /\ req'[c] = [pc |-> "answer", seen |-> NoTask, new |-> result]
              /\ \A d \in Clients \ {c} : req'[d] = req[d]
          BY <4>2, <3>4, NoTaskType, StartEffect DEF Pcs
        <5>2. QED
          BY <5>1
      <4>3. QED
        BY <3>1, <4>1, <4>2
    <3>6. QED
      BY <2>a, <2>c, <3>1, <3>2, <3>3, <3>5
  <2>6. ASSUME NEW c \in Clients, NEW p \in {"delete", "attach"}, Begin(c, p)
        PROVE  AssigneeInv'
    <3>1. Start(c, p, NoTask, NoTask) /\ UNCHANGED <<row, open, lab>> /\ p \in Pcs
      BY <2>6 DEF Begin, db, Pcs
    <3>2. /\ req'[c] = [pc |-> p, seen |-> NoTask, new |-> NoTask]
          /\ \A d \in Clients \ {c} : req'[d] = req[d]
      BY <3>1, NoTaskType, StartEffect
    <3>3. req'[c].pc # "write"
      BY <2>6, <3>2
    <3>4. QED
      BY <2>b, <3>1, <3>2, <3>3
  <2>7. ASSUME NEW c \in Clients, Delete(c) \/ Attach(c) PROVE AssigneeInv'
    <3>1. /\ row' \in {row, NoTask} /\ open' = open /\ UNCHANGED lab /\ End(c)
      BY <2>7 DEF Delete, Attach
    <3>2. \A d \in Clients : req'[d].pc = "write" => req'[d] = req[d]
      BY <3>1, EndEffect DEF Idle
    <3>3. QED
      BY <2>a, <2>c, <3>1, <3>2
  <2>8. CASE Commit
    BY <2>8, <2>a, <2>c DEF Commit
  <2>9. ASSUME NEW u \in People, Activate(u) \/ Deactivate(u) PROVE AssigneeInv'
    BY <2>9, <2>a DEF Activate, Deactivate, db, AssigneeInv, AssigneeWasMember
  <2>10. CASE Restart
    BY <2>10, <2>a, <2>c DEF Restart, Idle
  <2>10a. ASSUME NEW c \in Clients, Answer(c) \/ LoseAnswer(c) PROVE AssigneeInv'
    <3>1. UNCHANGED <<row, open, lab>> /\ End(c)
      BY <2>10a DEF Answer, LoseAnswer, db
    <3>2. QED
      BY <2>a, <2>c, <3>1, EndEffect DEF Idle
  <2>11. CASE UNCHANGED vars
    BY <2>11, <2>a DEF vars, AssigneeInv, AssigneeWasMember
  <2>12. QED
    BY <2>1, <2>2, <2>3, <2>4, <2>5, <2>6, <2>7, <2>8, <2>9, <2>10, <2>10a, <2>11 DEF Next
<1>3. QED
  BY <1>1, <1>2, Carries, PTL DEF Spec, AssigneeInv

(* What happens to the row in one step: nothing, the write of a request, a *)
(* commit, or its removal.                                                 *)
LEMMA RowSteps ==
    ASSUME TypeOK, EditInv, [Next]_vars
    PROVE  \/ UNCHANGED <<row, stage>>
           \/ \E c \in Clients : Write(c)
           \/ Commit
           \/ stage' = "deleted" /\ children' = children /\ ~children
BY DEF Next, Create, Patch, Get, Conflict, Validate, Answer, LoseAnswer, Begin, Delete, Attach, Activate,
   Deactivate, Restart, vars, db

(* A task with comments or attachments is there, in either build.          *)
THEOREM Children == Spec => []ChildrenKeepTask
<1>1. Init => ChildrenKeepTask
  BY DEF Init, ChildrenKeepTask
<1>2. TypeOK /\ EditInv /\ ChildrenKeepTask /\ [Next]_vars => ChildrenKeepTask'
  <2> SUFFICES ASSUME TypeOK, EditInv, ChildrenKeepTask, [Next]_vars, children'
               PROVE  stage' = "live" /\ row' # NoTask
    BY DEF ChildrenKeepTask
  <2>1. children \/ stage = "live"
    BY DEF Next, Create, Patch, Get, Conflict, Validate, Write, Answer, LoseAnswer, Begin, Delete, Attach,
       Activate, Deactivate, Restart, Commit, vars, db
  <2>2. stage = "live"
    BY <2>1 DEF ChildrenKeepTask
  <2>3. stage' = "live"
    BY <2>2, RowSteps DEF Write, Commit, db
  <2>4. row' # NoTask
    BY <2>3, StepInv, NoTaskType, NoneIsNoStatus DEF TypeOK
  <2>5. QED
    BY <2>3, <2>4
<1>3. QED
  BY <1>1, <1>2, Carries, PTL DEF Spec

(* A write that overwrites what it loaded is the next version, along a     *)
(* transition of the allow-list or to the empty status, in either build.   *)
THEOREM Edits == Spec => SerialEdits
<1>1. TypeOK /\ EditInv /\ [Next]_vars =>
         [~raced' /\ stage = "live" /\ stage' = "live" =>
             /\ row'.version = row.version + 1
             /\ Moves(row.status, row'.status)]_row
  <2> SUFFICES ASSUME TypeOK, EditInv, [Next]_vars, row' # row, ~raced',
                      stage = "live", stage' = "live"
               PROVE  row'.version = row.version + 1 /\ Moves(row.status, row'.status)
    OBVIOUS
  <2>1. ASSUME NEW c \in Clients, Write(c)
        PROVE  row'.version = row.version + 1 /\ Moves(row.status, row'.status)
    <3> DEFINE r == req[c]
               result == IF r.seen = NoTask THEN r.new ELSE Updated(r.seen, r.new)
    <3>1. r.pc = "write" /\ row' = result /\ row = r.seen
      BY <2>1 DEF Write, db
    <3>2. stage = "live" /\ row = req[c].seen =>
             result.version = row.version + 1 /\ Moves(row.status, result.status)
      BY <3>1, WriteResult
    <3> HIDE DEF result
    <3>3. QED
      BY <3>1, <3>2
  <2>2. ASSUME Commit
        PROVE  row'.version = row.version + 1 /\ Moves(row.status, row'.status)
    BY <2>2 DEF Commit, writes, EditInv, Flushed
  <2>3. QED
    BY <2>1, <2>2, RowSteps
<1>2. QED
  BY <1>1, Carries, PTL DEF Spec, SerialEdits, Moves

LEMMA KnownType ==
    ASSUME TypeOK
    PROVE  Known \subseteq Rows
BY RequestType DEF Known, TypeOK

LEMMA WriteKnows ==
    ASSUME TypeOK, NEW c \in Clients, Write(c), stage # "deleted",
           NEW result \in Rows,
           result = IF req[c].seen = NoTask THEN req[c].new ELSE Updated(req[c].seen, req[c].new)
    PROVE  Known' \subseteq Known \cup {result}
<1>1. Start(c, "answer", NoTask, result) /\ UNCHANGED copy
  BY DEF Write, answers
<1>2. /\ req'[c] = [pc |-> "answer", seen |-> NoTask, new |-> result]
      /\ \A d \in Clients \ {c} : req'[d] = req[d]
  BY <1>1, NoTaskType, StartEffect DEF Pcs
<1>3. QED
  BY <1>1, <1>2 DEF Known

LEMMA RacedStays ==
    ASSUME [Next]_vars, ~raced'
    PROVE  ~raced
BY DEF Next, Create, Patch, Get, Conflict, Validate, Write, Answer, LoseAnswer, Begin, Delete,
   Attach, Activate, Deactivate, Restart, Commit, vars, db, answers, writes

(* The requests that begin or go on bring nothing new to be answered.      *)
LEMMA Unanswered ==
    ASSUME TypeOK, NEW c \in Clients,
           \/ \E s \in Named, a \in People \cup {Nobody} : Create(c, s, a)
           \/ \E s \in Named, a \in People \cup {row.assignee} : Patch(c, s, a)
           \/ \E p \in {"delete", "attach"} : Begin(c, p)
           \/ Validate(c) \/ Delete(c) \/ Attach(c) \/ (Write(c) /\ stage = "deleted")
    PROVE  /\ \A d \in Clients : req[d].pc = "answer" => req'[d] = req[d]
           /\ \A d \in Clients : req'[d].pc = "answer" => req'[d] = req[d]
<1>1. req[c].pc # "answer"
  <2>1. IsIdle(c) => req[c].pc = "idle"
    BY DEF IsIdle, Idle
  <2>2. QED
    BY <2>1 DEF Create, Patch, Begin, Validate, Delete, Attach, Write
<1>2. /\ req'[c].pc # "answer"
      /\ \A d \in Clients \ {c} : req'[d] = req[d]
  <2>1. ASSUME NEW p \in {"validate", "write", "delete", "attach"}, NEW seen, NEW new,
               Start(c, p, seen, new)
        PROVE  req'[c].pc # "answer" /\ \A d \in Clients \ {c} : req'[d] = req[d]
    BY <2>1 DEF Start, TypeOK
  <2>2. CASE End(c)
    BY <2>2, EndEffect DEF Idle
  <2>3. CASE Validate(c) /\ ~End(c)
    <3>1. req' = [req EXCEPT ![c] = [req[c] EXCEPT !.pc = "write"]] /\ req[c] \in Requests
      BY <2>3, RequestType DEF Validate, TypeOK
    <3>2. req'[c].pc = "write" /\ \A d \in Clients \ {c} : req'[d] = req[d]
      BY <3>1 DEF TypeOK, Requests
    <3>3. QED
      BY <3>2
  <2>4. ASSUME NEW s \in Named, NEW a \in People \cup {Nobody}, Create(c, s, a)
        PROVE  req'[c].pc # "answer" /\ \A d \in Clients \ {c} : req'[d] = req[d]
    BY <2>1, <2>4 DEF Create
  <2>5. ASSUME NEW s \in Named, NEW a \in People \cup {row.assignee}, Patch(c, s, a)
        PROVE  req'[c].pc # "answer" /\ \A d \in Clients \ {c} : req'[d] = req[d]
    BY <2>1, <2>5 DEF Patch
  <2>6. ASSUME NEW p \in {"delete", "attach"}, Begin(c, p)
        PROVE  req'[c].pc # "answer" /\ \A d \in Clients \ {c} : req'[d] = req[d]
    BY <2>1, <2>6 DEF Begin
  <2>7. QED
    BY <2>2, <2>3, <2>4, <2>5, <2>6 DEF Delete, Attach, Write
<1>3. QED
  BY <1>1, <1>2

(* The steps that neither write nor answer with anything but the row.      *)
LEMMA QuietSteps ==
    ASSUME TypeOK, EditInv, [Next]_vars, commitFirst, stage' = "live"
    PROVE  \/ \E c \in Clients : Write(c) /\ stage # "deleted"
           \/ \E c \in Clients : Get(c) \/ Answer(c) \/ LoseAnswer(c)
           \/ Restart
           \/ /\ UNCHANGED <<row, stage, lastBy, copy, missed>>
              /\ \A d \in Clients : req[d].pc = "answer" => req'[d] = req[d]
              /\ \A d \in Clients : req'[d].pc = "answer" => req'[d] = req[d]
<1>1. ~Commit
  BY DEF Commit, EditInv, Flushed
<1>2. ASSUME NEW c \in Clients,
             \/ \E s \in Named, a \in People \cup {Nobody} : Create(c, s, a)
             \/ \E s \in Named, a \in People \cup {row.assignee} : Patch(c, s, a)
             \/ \E p \in {"delete", "attach"} : Begin(c, p)
             \/ Validate(c) \/ Delete(c) \/ Attach(c) \/ (Write(c) /\ stage = "deleted")
      PROVE  /\ UNCHANGED <<row, stage, lastBy, copy, missed>>
             /\ \A d \in Clients : req[d].pc = "answer" => req'[d] = req[d]
             /\ \A d \in Clients : req'[d].pc = "answer" => req'[d] = req[d]
  <2>1. UNCHANGED <<row, stage, lastBy, copy, missed>>
    BY <1>2 DEF Create, Patch, Begin, Validate, Delete, Attach, Write, db, answers, writes
  <2>2. QED
    BY <1>2, <2>1, Unanswered
<1>3. ASSUME (\E c \in Clients : Conflict(c)) \/ (\E u \in People : Activate(u) \/ Deactivate(u))
             \/ UNCHANGED vars
      PROVE  UNCHANGED <<row, stage, lastBy, copy, missed, req>>
  BY <1>3 DEF Conflict, Activate, Deactivate, vars, db, answers, writes
<1>4. QED
  BY <1>1, <1>2, <1>3 DEF Next

(* What is known after a step: what was, what is written, and the row.     *)
LEMMA KnownSteps ==
    ASSUME TypeOK, EditInv, [Next]_vars, commitFirst, stage' = "live"
    PROVE  \/ \E c \in Clients : Write(c) /\ stage # "deleted"
           \/ row' = row /\ stage = "live" /\ Known' \subseteq Known \cup {row}
<1>1. ASSUME NEW c \in Clients, Get(c)
      PROVE  row' = row /\ stage = "live" /\ Known' \subseteq Known \cup {row}
  BY <1>1 DEF Get, db, Known, TypeOK
<1>2. ASSUME NEW c \in Clients, Answer(c)
      PROVE  row' = row /\ stage = "live" /\ Known' \subseteq Known
  <2>1. /\ req[c].pc = "answer" /\ End(c) /\ copy' = [copy EXCEPT ![c] = req[c].new]
        /\ row' = row /\ stage' = stage
    BY <1>2 DEF Answer, db
  <2>2. \A d \in Clients : copy'[d] \in Known
    BY <2>1 DEF Known, TypeOK
  <2>3. \A d \in Clients : req'[d].pc = "answer" => req'[d].new \in Known
    BY <2>1, EndEffect DEF Known, Idle
  <2>4. QED
    BY <2>1, <2>2, <2>3 DEF Known
<1>3. ASSUME NEW c \in Clients, LoseAnswer(c)
      PROVE  row' = row /\ stage = "live" /\ Known' \subseteq Known
  BY <1>3, EndKnows DEF LoseAnswer, db
<1>4. ASSUME Restart
      PROVE  row' = row /\ stage = "live" /\ Known' \subseteq Known
  BY <1>4 DEF Restart, Known, Idle
<1>5. ASSUME UNCHANGED <<row, stage, copy>>,
             \A d \in Clients : req'[d].pc = "answer" => req'[d] = req[d]
      PROVE  row' = row /\ stage = "live" /\ Known' \subseteq Known
  BY <1>5 DEF Known
<1>6. QED
  BY <1>1, <1>2, <1>3, <1>4, <1>5, QuietSteps

(* What optimistic locking rests on: in a build that commits first, until  *)
(* a PATCH overwrites a row it had not loaded, a version number names one  *)
(* content of the task.                                                    *)
THEOREM Versions == Spec => []SameVersionSameTask
<1>1. Init => SameVersionSameTask
  BY DEF Init, SameVersionSameTask
<1>2. TypeOK /\ EditInv /\ SameVersionSameTask /\ [Next]_vars => SameVersionSameTask'
  <2> SUFFICES ASSUME TypeOK, EditInv, SameVersionSameTask, [Next]_vars,
                      commitFirst, ~raced', stage' = "live"
               PROVE  /\ \A k \in Known' : k.version <= row'.version
                      /\ \A k \in Known' : k.version = row'.version => k = row'
                      /\ \A k, l \in Known' : k.version = l.version => k = l
    BY BuildFixed DEF SameVersionSameTask
  <2>1. CASE row' = row /\ stage = "live" /\ Known' \subseteq Known \cup {row}
    <3>1. ~raced
      BY RacedStays
    <3>2. /\ \A k \in Known : k.version <= row.version
          /\ \A k \in Known : k.version = row.version => k = row
          /\ \A k, l \in Known : k.version = l.version => k = l
      BY <2>1, <3>1 DEF SameVersionSameTask
    <3>3. row.version <= row.version
      BY DEF TypeOK, Rows
    <3>4. QED
      BY <2>1, <3>2, <3>3
  <2>2. ASSUME NEW c \in Clients, Write(c), stage # "deleted"
        PROVE  /\ \A k \in Known' : k.version <= row'.version
               /\ \A k \in Known' : k.version = row'.version => k = row'
               /\ \A k, l \in Known' : k.version = l.version => k = l
    <3> DEFINE r == req[c]
               result == IF r.seen = NoTask THEN r.new ELSE Updated(r.seen, r.new)
    <3>1. /\ r.pc = "write" /\ row = r.seen /\ row' = result /\ ~raced /\ open = NoTask
      BY <2>2 DEF Write
    <3>2. /\ result \in Rows
          /\ stage = "none" <=> r.seen = NoTask
          /\ r.seen = NoTask => result.version = 1
          /\ stage = "live" => result.version = row.version + 1
      BY <2>2, <3>1, WriteResult
    <3>5. Known' \subseteq Known \cup {result}
      BY <2>2, <3>2, WriteKnows
    <3> HIDE DEF result
    <3>3. \A k \in Known : k \in Rows /\ k.version < result.version
      <4>1. CASE stage = "none"
        <5>1. \A k \in Known : k.version = 0
          BY <3>1, <4>1 DEF EditInv, Unborn, NoTask
        <5>2. result.version = 1
          BY <3>2, <4>1
        <5>3. QED
          BY <5>1, <5>2, KnownType
      <4>2. CASE stage = "live"
        <5>1. \A k \in Known : k.version <= row.version
          BY <2>2, <3>1, <4>2 DEF SameVersionSameTask
        <5>2. \A k \in Known : k \in Rows /\ k.version \in Nat
          BY KnownType DEF Rows
        <5>3. row.version \in Nat
          BY DEF TypeOK, Rows
        <5>4. QED
          BY <3>2, <4>2, <5>1, <5>2, <5>3
      <4>3. QED
        BY <2>2, <4>1, <4>2 DEF TypeOK
    <3>4. \A k, l \in Known : k.version = l.version => k = l
      <4>1. CASE stage = "none"
        BY <3>1, <4>1 DEF EditInv, Unborn
      <4>2. CASE stage = "live"
        BY <2>2, <3>1, <4>2 DEF SameVersionSameTask
      <4>3. QED
        BY <2>2, <4>1, <4>2 DEF TypeOK
    <3>6. result.version \in Nat /\ \A k \in Known : k.version \in Nat
      BY <3>2, <3>3 DEF Rows
    <3>7. QED
      BY <3>1, <3>3, <3>4, <3>5, <3>6
  <2>3. QED
    BY <2>1, <2>2, KnownSteps
<1>3. QED
  BY <1>1, <1>2, Carries, PTL DEF Spec

(* In a build that commits first the client that wrote last has the task   *)
(* in its browser as it is, or on its way, or missed the answer.           *)
LastWriterInv ==
    commitFirst /\ stage = "live" =>
        /\ lastBy \in Clients
        /\ req[lastBy].pc = "answer" => req[lastBy].new = row
        /\ req[lastBy].pc # "answer" /\ lastBy \notin missed => copy[lastBy] = row

(* In a build that commits first nobody who has the answer to the last     *)
(* write, which was their own, is told of a conflict with another user.    *)
THEOREM Conflicts == Spec => []ConflictIsReal
<1>1. Init => LastWriterInv
  BY DEF Init, LastWriterInv
<1>2. TypeOK /\ EditInv /\ LastWriterInv /\ [Next]_vars => LastWriterInv'
  <2> SUFFICES ASSUME TypeOK, EditInv, LastWriterInv, [Next]_vars, commitFirst, stage' = "live"
               PROVE  /\ lastBy' \in Clients
                      /\ req'[lastBy'].pc = "answer" => req'[lastBy'].new = row'
                      /\ req'[lastBy'].pc # "answer" /\ lastBy' \notin missed' =>
                            copy'[lastBy'] = row'
    BY BuildFixed DEF LastWriterInv
  <2> DEFINE Goal == /\ lastBy' \in Clients
                     /\ req'[lastBy'].pc = "answer" => req'[lastBy'].new = row'
                     /\ req'[lastBy'].pc # "answer" /\ lastBy' \notin missed' =>
                           copy'[lastBy'] = row'
  <2>1. ASSUME NEW c \in Clients, Write(c), stage # "deleted"
        PROVE  Goal
    <3> DEFINE r == req[c]
               result == IF r.seen = NoTask THEN r.new ELSE Updated(r.seen, r.new)
    <3>1. /\ lastBy' = c /\ row' = result /\ Start(c, "answer", NoTask, result)
          /\ r.pc = "write"
      BY <2>1 DEF Write
    <3>2. result \in Rows
      BY <2>1, <3>1, WriteResult
    <3> HIDE DEF result
    <3>3. req'[c] = [pc |-> "answer", seen |-> NoTask, new |-> result]
      BY <3>1, <3>2, NoTaskType, StartEffect DEF Pcs
    <3>4. QED
      BY <3>1, <3>3
  <2>2. CASE /\ UNCHANGED <<row, stage, lastBy, copy, missed>>
             /\ \A d \in Clients : req[d].pc = "answer" => req'[d] = req[d]
             /\ \A d \in Clients : req'[d].pc = "answer" => req'[d] = req[d]
    BY <2>2 DEF LastWriterInv
  <2>3. ASSUME NEW c \in Clients, Get(c)
        PROVE  Goal
    BY <2>3 DEF Get, IsIdle, Idle, db, writes, LastWriterInv, TypeOK
  <2>4. ASSUME NEW c \in Clients, Answer(c)
        PROVE  Goal
    <3>1. /\ req[c].pc = "answer" /\ copy' = [copy EXCEPT ![c] = req[c].new]
          /\ missed' = missed \ {c} /\ UNCHANGED <<row, stage, lastBy>> /\ End(c)
      BY <2>4 DEF Answer, db, writes
    <3>2. req'[c].pc # "answer" /\ \A d \in Clients \ {c} : req'[d] = req[d]
      BY <3>1, EndEffect DEF Idle
    <3>3. CASE lastBy = c
      BY <3>1, <3>2, <3>3 DEF LastWriterInv, TypeOK
    <3>4. CASE lastBy # c
      BY <3>1, <3>2, <3>4 DEF LastWriterInv, TypeOK
    <3>5. QED
      BY <3>3, <3>4
  <2>5. ASSUME NEW c \in Clients, LoseAnswer(c)
        PROVE  Goal
    <3>1. /\ missed' = missed \cup {c} /\ UNCHANGED <<row, stage, lastBy, copy>> /\ End(c)
      BY <2>5 DEF LoseAnswer, db, writes
    <3>2. req'[c].pc # "answer" /\ \A d \in Clients \ {c} : req'[d] = req[d]
      BY <3>1, EndEffect DEF Idle
    <3>3. QED
      BY <3>1, <3>2 DEF LastWriterInv
  <2>6. CASE Restart
    BY <2>6 DEF Restart, Idle, writes, LastWriterInv
  <2>7. QED
    BY <2>1, <2>2, <2>3, <2>4, <2>5, <2>6, QuietSteps
<1>3. TypeOK /\ LastWriterInv => ConflictIsReal
  <2> SUFFICES ASSUME TypeOK, LastWriterInv, commitFirst, stage = "live",
                      NEW c \in Clients, IsIdle(c), Stale(c), lastBy = c, c \notin missed
               PROVE  FALSE
    BY DEF ConflictIsReal
  <2>1. copy[c] = row
    BY DEF LastWriterInv, IsIdle, Idle
  <2>2. QED
    BY <2>1 DEF Stale
<1>4. QED
  BY <1>1, <1>2, <1>3, Carries, PTL DEF Spec

=============================================================================

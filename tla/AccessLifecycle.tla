---------------------------- MODULE AccessLifecycle ----------------------------
(***************************************************************************)
(* What ToolAccess promises of the access of one user to one tool, without *)
(* tasks, sessions, locks and restarts: the status graph of the code, with *)
(* the account behind the connector, for as long as one request is served  *)
(* at a time; and what is left of it from the moment on that two requests  *)
(* overlap: a row is made only where there is none, for a request or a     *)
(* grant, and a row that was denied is not brought back.  The documents    *)
(* draw the same graph, but for Revoke.                                    *)
(***************************************************************************)
EXTENDS Naturals

CONSTANTS
    CanProvision, CanRevoke, \* what the tool's connector lists
    MayFail                  \* the connector calls that may raise

VARIABLES
    id,        \* the latest row
    status,    \* its status, "absent" while there is none
    accounts,  \* live accounts of the user in the external system
    disturbed  \* two requests have overlapped

vars == <<id, status, accounts, disturbed>>

Init ==
    /\ id = 0 /\ status = "absent"
    /\ accounts = 0
    /\ disturbed = FALSE

NewRow(first) ==
    /\ status = "absent"
    /\ id' = id + 1 /\ status' = first
    /\ UNCHANGED accounts

Become(from, to) ==
    /\ status \in from
    /\ status' = to
    /\ UNCHANGED <<id, accounts>>

-----------------------------------------------------------------------------
(* One request at a time.                                                  *)

Shown == {"PENDING_APPROVAL", "REQUESTED", "PROVISIONING", "ACTIVE", "FAILED",
          "REVOKING", "REVOKED"}

Request == NewRow("PENDING_APPROVAL")
Grant == NewRow("REQUESTED") \/ Become({"PENDING_APPROVAL"}, "REQUESTED")
Deny == Become({"PENDING_APPROVAL"}, "absent")

(* revoke_access asks for no status: the code revokes what is pending, in  *)
(* progress, failed or revoked already, where ARCHITECTURE.md and          *)
(* DESIGN.md have the one edge from ACTIVE: here this graph is the code's. *)
Revoke == Become(Shown, "REVOKING")

(* The job tries once: an account, or a refusal and none.                  *)
Start == Become({"REQUESTED"}, "PROVISIONING")

Connect ==
    /\ status = "PROVISIONING" /\ CanProvision /\ accounts = 0
    /\ accounts' = 1
    /\ UNCHANGED <<id, status>>

Activate == (CanProvision => accounts = 1) /\ Become({"PROVISIONING"}, "ACTIVE")

Refuse ==
    /\ "provision" \in MayFail /\ accounts = 0
    /\ Become({"PROVISIONING"}, "FAILED")

(* What the connector can remove, and does not fail to, is gone first.     *)
Disconnect ==
    /\ status = "REVOKING" /\ CanRevoke
    /\ accounts' = 0
    /\ UNCHANGED <<id, status>>

Retire ==
    /\ CanRevoke /\ "revoke" \notin MayFail => accounts = 0
    /\ Become({"REVOKING"}, "REVOKED")

Serial ==
    \/ Request \/ Grant \/ Deny \/ Revoke
    \/ Start \/ Connect \/ Activate \/ Refuse
    \/ Disconnect \/ Retire

-----------------------------------------------------------------------------
(* Requests that overlap.                                                  *)

Disturb == disturbed' = TRUE /\ UNCHANGED <<id, status, accounts>>

(* Whoever writes last wins, but only over a row that is there, and no row *)
(* is pending for a second time.                                           *)
Overwrite == \E to \in (Shown \ {"PENDING_APPROVAL"}) \cup {"absent"} : Become(Shown, to)

(* Each job adds an account, or removes them all.                          *)
Call ==
    /\ \/ CanProvision /\ accounts' = accounts + 1
       \/ CanRevoke /\ accounts' = 0
    /\ UNCHANGED <<id, status>>

Racing == Request \/ NewRow("REQUESTED") \/ Overwrite \/ Call

-----------------------------------------------------------------------------
Next ==
    \/ ~disturbed /\ Serial /\ UNCHANGED disturbed
    \/ disturbed /\ Racing /\ UNCHANGED disturbed
    \/ Disturb

Spec == Init /\ [][Next]_vars
=============================================================================

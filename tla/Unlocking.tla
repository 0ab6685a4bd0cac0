------------------------------- MODULE Unlocking -------------------------------
(***************************************************************************)
(* What Onboarding promises, without requests, locks, jobs and restarts:   *)
(* an onboarding is completed in one step, by who has done all steps but   *)
(* the checklist, and this step gives the contributor all the tools that   *)
(* are missing.  It leaves every access alone that is there, whatever its  *)
(* status: nobody gets a revoked tool back by completing once more.        *)
(*                                                                         *)
(* The list of steps may be taken back by a late write.  A tool that is    *)
(* revoked when its job has read the row, or while the connector is at     *)
(* work, is provisioned nevertheless and becomes active in the end.        *)
(***************************************************************************)
EXTENDS Naturals

CONSTANTS
    Tools,   \* the tools the onboarding unlocks
    Last     \* how many steps there are; the last one completes

VARIABLES done, reached, completed, row, denied

vars == <<done, reached, completed, row, denied>>

Init ==
    /\ done = 0 /\ reached = 0
    /\ completed = FALSE
    /\ row = [k \in Tools |-> "absent"]
    /\ denied = {}

(* A step is done, the first time or once more; the last one is not among  *)
(* those.                                                                  *)
Advance(n) ==
    /\ n < Last /\ n <= reached + 1
    /\ done' = n
    /\ reached' = IF n > reached THEN n ELSE reached
    /\ UNCHANGED <<completed, row, denied>>

Missing == {k \in Tools : row[k] = "absent"}

(* All that are missing are given at once; one whose request was denied    *)
(* may have been found requested, and stays out.                           *)
Complete(given) ==
    /\ reached >= Last - 1
    /\ Missing \ denied \subseteq given
    /\ done' = Last /\ reached' = Last
    /\ completed' = TRUE
    /\ row' = [k \in Tools |-> IF k \in given THEN "REQUESTED" ELSE row[k]]
    /\ UNCHANGED denied

(* The access to a tool is served, or decided on by others; the job may    *)
(* take a revocation back when it starts and when it ends.                 *)
Moves ==
    ({"REQUESTED", "REVOKED"} \X {"PROVISIONING"})
    \cup ({"PROVISIONING", "REVOKED"} \X {"ACTIVE", "FAILED"})
    \cup ({"absent"} \X {"PENDING_APPROVAL", "ACTIVE"})
    \cup {<<"PENDING_APPROVAL", "ACTIVE">>}

Move(k, to) ==
    /\ <<row[k], to>> \in Moves
    /\ row' = [row EXCEPT ![k] = to]
    /\ UNCHANGED <<done, reached, completed, denied>>

Revoke(k) ==
    /\ row[k] # "absent"
    /\ row' = [row EXCEPT ![k] = "REVOKED"]
    /\ UNCHANGED <<done, reached, completed, denied>>

Deny(k) ==
    /\ row[k] = "PENDING_APPROVAL"
    /\ row' = [row EXCEPT ![k] = "absent"]
    /\ denied' = denied \cup {k}
    /\ UNCHANGED <<done, reached, completed>>

Next ==
    \/ \E n \in 1 .. Last : Advance(n)
    \/ \E given \in SUBSET Missing : Complete(given)
    \/ \E k \in Tools, to \in {"PENDING_APPROVAL", "PROVISIONING", "ACTIVE", "FAILED"} : Move(k, to)
    \/ \E k \in Tools : Revoke(k) \/ Deny(k)

Spec == Init /\ [][Next]_vars
=============================================================================

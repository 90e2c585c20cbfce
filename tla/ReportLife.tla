----------------------------- MODULE ReportLife -----------------------------
(***************************************************************************)
(* What report generation promises, without jobs, leases and recovery: a   *)
(* report that was asked for is tried a bounded number of times, each try  *)
(* ends in a result, in failure or in another try, a failed report can be  *)
(* asked for again, and a finished one never changes.                      *)
(***************************************************************************)
EXTENDS Naturals

CONSTANT MaxAttempts   \* tries before a report counts as failed

VARIABLES phase, tries

Ask == /\ phase \in {"ABSENT", "FAILED"}
       /\ phase' = "PENDING"
       /\ tries' = 0

\* A try also takes over one whose worker has gone silent.
Try == /\ phase \in {"PENDING", "GENERATING"}
       /\ phase' = "GENERATING"
       /\ tries' \in (tries + 1) .. MaxAttempts

GiveBack == /\ phase = "GENERATING"
            /\ phase' = "PENDING"
            /\ UNCHANGED tries

Conclude == /\ phase = "GENERATING"
            /\ phase' \in {"READY", "FAILED"}
            /\ UNCHANGED tries

Init == phase = "ABSENT" /\ tries = 0
Next == Ask \/ Try \/ GiveBack \/ Conclude
Spec == Init /\ [][Next]_<<phase, tries>>
=============================================================================

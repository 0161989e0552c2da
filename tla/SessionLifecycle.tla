-------------------------- MODULE SessionLifecycle --------------------------
(***************************************************************************)
(* What the operator promises of one session, whatever its reconciler      *)
(* does: the session holds compute, network exposure and a disk only until *)
(* it is reported as over; compute and exposure come and go, the disk is   *)
(* given up only when the session is closing, and last; and over is over.  *)
(* LabOperator implements this specification.                              *)
(***************************************************************************)

VARIABLES
    verdict,  \* "open", "closing" once its end is decided, "Expired" or "gone"
    holds     \* what of Resources the session has

vars == <<verdict, holds>>

Transient == {"compute", "exposure"}

Resources == Transient \cup {"disk"}

Over == {"Expired", "gone"}

TypeOK ==
    /\ verdict \in {"open", "closing"} \cup Over
    /\ holds \subseteq Resources

Init == verdict = "open" /\ holds = {}

\* A reconciliation under way may still acquire what the session no longer needs.
Acquire ==
    /\ verdict \notin Over
    /\ holds' \in {holds \cup r : r \in SUBSET Resources}
    /\ UNCHANGED verdict

Release ==
    /\ \E r \in SUBSET Transient : holds' = holds \ r
    /\ UNCHANGED verdict

DropDisk ==
    /\ verdict = "closing" /\ holds = {"disk"}
    /\ holds' = {}
    /\ UNCHANGED verdict

\* The deadline, the learner or an administrator ends the session.
Close == verdict = "open" /\ verdict' = "closing" /\ UNCHANGED holds

Report ==
    /\ holds = {}
    /\ \/ verdict = "closing" /\ verdict' = "Expired"
       \/ verdict' = "gone"
    /\ UNCHANGED holds

Next == Acquire \/ Release \/ DropDisk \/ Close \/ Report

Spec == Init /\ [][Next]_vars
=============================================================================

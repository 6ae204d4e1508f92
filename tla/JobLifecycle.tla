---------------------------- MODULE JobLifecycle ----------------------------
(***************************************************************************)
(* What the desktop queue promises of one job: it waits, runs, may go      *)
(* through post-processing, and settles once, as what its download came    *)
(* to; only a settled job leaves the queue.                                *)
(***************************************************************************)
VARIABLES
    status,   \* what the queue shows
    outcome   \* what the download has come to

Active == {"running", "processing"}

(* The status that tells each outcome. *)
Shown == [o \in {"ok", "failed", "cancelled"} |->
             CASE o = "ok" -> "completed"
               [] o = "failed" -> "failed"
               [] o = "cancelled" -> "cancelled"]

Settled == {Shown[o] : o \in DOMAIN Shown}

LInit == status = "pending" /\ outcome = "none"

Begin == status = "pending" /\ status' = "running" /\ UNCHANGED outcome

Process == status \in Active /\ status' = "processing" /\ UNCHANGED outcome

Conclude ==
    /\ outcome = "none"
    /\ outcome' \in DOMAIN Shown \cup {"panicked"}
    /\ UNCHANGED status

Settle ==
    /\ status \in Active /\ outcome \in DOMAIN Shown
    /\ status' = Shown[outcome]
    /\ UNCHANGED outcome

Leave == status \in Settled /\ status' = "removed" /\ UNCHANGED outcome

LNext == Begin \/ Process \/ Conclude \/ Settle \/ Leave

LSpec == LInit /\ [][LNext]_<<status, outcome>>
=============================================================================

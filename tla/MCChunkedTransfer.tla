------------------------- MODULE MCChunkedTransfer --------------------------
(* ChunkedTransfer on two representations.  Three scenarios the code comes *)
(* through: runs that are broken off anywhere while the resource stays as  *)
(* it is, and one that is replaced while runs are broken off fetching or   *)
(* sweeping by the same process or, outside the merges and the sweep, by   *)
(* others.  One that it does not: a recovery fails and the resource is     *)
(* replaced.                                                               *)
EXTENDS ChunkedTransfer

CONSTANTS v1, v2

Unchanged == [stops |-> {"fresh", "fetch", "sweep", "failed", "merge",
                         "recover", "consume", "resume"},
              restarts |-> TRUE, changes |-> 0, faults |-> 2]
Replaced  == [stops |-> {"fetch", "sweep", "failed", "resume"},
              restarts |-> FALSE, changes |-> 1, faults |-> 1]
Restarted == [stops |-> {"fetch", "failed", "resume"}, restarts |-> TRUE,
              changes |-> 1, faults |-> 2]

FailedRecovery == [stops |-> {"fetch", "recover"}, restarts |-> FALSE,
                   changes |-> 1, faults |-> 3]

FailingRecovery == {FailedRecovery}
AllScenarios == {Unchanged, Replaced, Restarted}
=============================================================================

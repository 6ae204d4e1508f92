---------------------------- MODULE DownloadJob -----------------------------
(***************************************************************************)
(* One desktop download: the task RdlpClient::download spawns              *)
(* (rdlp-api client/mod.rs, orchestrator/state/mod.rs), the bounded        *)
(* channel its events go through, the event loop start_download spawns     *)
(* (rdlp-desktop commands/download.rs) and the job of the DownloadQueue    *)
(* (state/download_queue.rs) that loop keeps up to date.                   *)
(*                                                                         *)
(* Events that change no status are "info", those of the post-processing   *)
(* callbacks "post"; a terminal event carries the outcome it reports.      *)
(***************************************************************************)
EXTENDS Naturals, Sequences

CONSTANTS
    Capacity,    \* events the channel holds
    MaxRetries,  \* MAX_REEXTRACT_RETRIES
    MaxSkips,    \* bound: 1 if the URL may be a playlist or filtered out
    MaxPanics,   \* bound: panics of the task
    MaxEmits     \* bound: progress events of one attempt

ASSUME DownloadJobAssumption ==
    /\ Capacity \in Nat \ {0} /\ MaxRetries \in Nat
    /\ MaxSkips \in Nat /\ MaxPanics \in Nat /\ MaxEmits \in Nat

VARIABLES
    phase,      \* where the task is
    attempt,    \* re-extractions so far
    emits,      \* progress events of this attempt
    chan,       \* events sent and not yet received
    report,     \* the terminal event the task is sending
    outcome,    \* what the task's join handle gives
    token,      \* whether the cancellation token is cancelled
    status,     \* the job's status in the queue, "removed" once it left
    cancelFn,   \* whether the queue holds the job's cancel function
    loop        \* the event loop

taskVars  == <<phase, attempt, emits, report, outcome>>
queueVars == <<status, cancelFn, loop>>
vars == <<phase, attempt, emits, chan, report, outcome, token, status,
          cancelFn, loop>>

Outcomes == {"ok", "failed", "cancelled"}
Working  == {"extract", "transfer", "post"}

Job == INSTANCE JobLifecycle WITH status <- status, outcome <- outcome

(* start_download has added the job and is about to spawn the task.        *)
Init ==
    /\ phase = "new" /\ attempt = 0 /\ emits = 0
    /\ chan = <<>> /\ report = "none" /\ outcome = "none"
    /\ token = FALSE /\ status = "pending" /\ cancelFn = FALSE
    /\ loop = "unborn"

(***************************************************************************)
(* The channel: emit uses try_send and gives up when it is full, the       *)
(* client's own events wait for room.                                      *)
(***************************************************************************)
Room == Len(chan) < Capacity

(* Mutant: the channel is unbounded. *)
Emit_Unbounded(e) == chan' = Append(chan, e)

Emit(e) == chan' = IF Room THEN Append(chan, e) ELSE chan

Send(e) == Room /\ chan' = Append(chan, e)

End(o) == phase' = "over" /\ outcome' = o

(***************************************************************************)
(* The task.                                                               *)
(***************************************************************************)
(* RdlpClient::download spawns the task; a request that does not merge     *)
(* into a valid configuration only reports its failure.                    *)
Spawn ==
    /\ phase = "new"
    /\ \/ phase' = "extract" /\ UNCHANGED report
       \/ phase' = "report" /\ report' = "failed"
    /\ UNCHANGED <<attempt, emits, chan, outcome, token, queueVars>>

Extracted ==
    /\ phase = "extract"
    /\ Emit("info")
    /\ phase' = "transfer"
    /\ UNCHANGED <<attempt, emits, report, outcome, token, queueVars>>

(* A playlist has been downloaded, or the archive or a filter skips the    *)
(* video: the orchestrator returns None without an event.                  *)
Skipped ==
    /\ phase = "extract" /\ MaxSkips > 0
    /\ End("cancelled")
    /\ UNCHANGED <<attempt, emits, chan, report, token, queueVars>>

Progress ==
    /\ phase = "transfer" /\ emits < MaxEmits
    /\ emits' = emits + 1 /\ Emit("info")
    /\ UNCHANGED <<phase, attempt, report, outcome, token, queueVars>>

Transferred ==
    /\ phase = "transfer"
    /\ phase' = "post"
    /\ UNCHANGED <<attempt, emits, chan, report, outcome, token, queueVars>>

(* The token ends the transfer: Cancelled is emitted and the task's result *)
(* is UserCancelled.                                                       *)
TransferCancelled ==
    /\ phase = "transfer" /\ token
    /\ Emit("cancelled") /\ End("cancelled")
    /\ UNCHANGED <<attempt, emits, report, token, queueVars>>

(* Mutant: a stage that was not joined goes on after the task's report. *)
PostProgress_Unjoined ==
    /\ phase \in {"post", "report", "over"} /\ emits < MaxEmits
    /\ emits' = emits + 1 /\ Emit("post")
    /\ UNCHANGED <<phase, attempt, report, outcome, token, queueVars>>

PostProgress ==
    /\ phase = "post" /\ emits < MaxEmits
    /\ emits' = emits + 1 /\ Emit("post")
    /\ UNCHANGED <<phase, attempt, report, outcome, token, queueVars>>

Finished ==
    /\ phase = "post"
    /\ phase' = "report" /\ report' = "ok"
    /\ UNCHANGED <<attempt, emits, chan, outcome, token, queueVars>>

(* The pipeline joins its stages and returns Cancelled.                    *)
PostCancelled ==
    /\ phase = "post" /\ token
    /\ phase' = "report" /\ report' = "cancelled"
    /\ UNCHANGED <<attempt, emits, chan, outcome, token, queueVars>>

(* Mutant: every error of the pipeline is reported as a cancel. *)
Fails_AsCancel ==
    /\ phase \in Working
    /\ phase' = "report" /\ report' = "cancelled"
    /\ UNCHANGED <<attempt, emits, chan, outcome, token, queueVars>>

Fails ==
    /\ phase \in Working
    /\ phase' = "report" /\ report' = "failed"
    /\ UNCHANGED <<attempt, emits, chan, outcome, token, queueVars>>

(* An answer of 403 or 503 or a bad playlist is tried again from the       *)
(* extraction, after a pause the token does not cut short.                 *)
FailsReextractable ==
    /\ phase \in Working /\ attempt < MaxRetries
    /\ phase' = "backoff"
    /\ UNCHANGED <<attempt, emits, chan, report, outcome, token, queueVars>>

(* Mutant: re-extractions are not counted. *)
Retry_Uncounted ==
    /\ phase = "backoff"
    /\ Send("info")
    /\ emits' = 0
    /\ phase' = "extract"
    /\ UNCHANGED <<attempt, report, outcome, token, queueVars>>

Retry ==
    /\ phase = "backoff"
    /\ Send("info")
    /\ attempt' = attempt + 1 /\ emits' = 0
    /\ phase' = "extract"
    /\ UNCHANGED <<report, outcome, token, queueVars>>

(* Mutant: the terminal event gives up on a full channel. *)
Report_TrySend ==
    /\ phase = "report"
    /\ Emit(report) /\ End(report)
    /\ UNCHANGED <<attempt, emits, report, token, queueVars>>

Report ==
    /\ phase = "report"
    /\ Send(report) /\ End(report)
    /\ UNCHANGED <<attempt, emits, report, token, queueVars>>

Panics ==
    /\ phase \in Working /\ MaxPanics > 0
    /\ End("panicked")
    /\ UNCHANGED <<attempt, emits, chan, report, token, queueVars>>

(***************************************************************************)
(* The desktop: start_download goes on to start_job and spawns the loop.   *)
(***************************************************************************)
StartJob ==
    /\ phase # "new" /\ loop = "unborn"
    /\ status' = "running" /\ cancelFn' = TRUE
    /\ loop' = "receiving"
    /\ UNCHANGED <<taskVars, chan, token>>

(* What an event makes of the job; a job that has left is not touched.     *)
StatusAfter(e) ==
    IF status = "removed" THEN status
    ELSE IF e \in Outcomes THEN Job!Shown[e]
    ELSE IF e = "post" THEN "processing" ELSE status

Receive ==
    /\ loop = "receiving" /\ chan # <<>>
    /\ status' = StatusAfter(Head(chan))
    /\ chan' = Tail(chan)
    /\ UNCHANGED <<taskVars, token, cancelFn, loop>>

(* recv gives None once the task's senders are gone and nothing is left.   *)
LoopEnds ==
    /\ loop = "receiving" /\ chan = <<>> /\ phase = "over"
    /\ loop' = "ended"
    /\ UNCHANGED <<taskVars, chan, token, status, cancelFn>>

(* cancel_download takes the cancel function out of the queue.             *)
Cancel ==
    /\ cancelFn
    /\ cancelFn' = FALSE /\ token' = TRUE
    /\ UNCHANGED <<taskVars, chan, status, loop>>

(* remove_job, clear_completed: settled jobs only.                         *)
Remove ==
    /\ status \in Job!Settled
    /\ status' = "removed" /\ cancelFn' = FALSE
    /\ UNCHANGED <<taskVars, chan, token, loop>>

Task == \/ Spawn \/ Extracted \/ Skipped \/ Transferred \/ TransferCancelled
        \/ Finished \/ PostCancelled \/ Fails \/ FailsReextractable
        \/ Retry \/ Report

Desktop == StartJob \/ Receive \/ LoopEnds

(* Both are done: the user has only the job left to deal with.              *)
Done == phase = "over" /\ loop = "ended" /\ UNCHANGED vars

Next == Task \/ Progress \/ PostProgress \/ Panics \/ Desktop \/ Cancel \/ Remove
        \/ Done

(* The runtime polls the task and the loop until both are done.            *)
Spec     == Init /\ [][Next]_vars
FairSpec == Spec /\ WF_vars(Task) /\ WF_vars(Desktop)
-----------------------------------------------------------------------------
TypeOK ==
    /\ phase \in Working \cup {"new", "backoff", "report", "over"}
    /\ attempt \in 0 .. MaxRetries /\ emits \in 0 .. MaxEmits
    /\ chan \in Seq(Outcomes \cup {"info", "post"}) /\ Len(chan) <= Capacity
    /\ report \in Outcomes \cup {"none"}
    /\ outcome \in Outcomes \cup {"none", "panicked"}
    /\ token \in BOOLEAN /\ cancelFn \in BOOLEAN
    /\ status \in Job!Active \cup Job!Settled \cup {"pending", "removed"}
    /\ loop \in {"unborn", "receiving", "ended"}

(* The job goes through the queue's lifecycle: nothing moves it once it    *)
(* has settled, and it settles as what the download came to, however the   *)
(* task, the loop and the user interleave.                                 *)
Lifecycle == Job!LSpec

(* A download is shown as cancelled only at the user's word: "Download was          *)
(* cancelled by the user." (JobStatus)                                     *)
CancelledOnRequest == status = "cancelled" => token

(* A download that succeeds or fails is shown as what it came to, however  *)
(* full the channel, or its job has been removed.  A cancel's only event   *)
(* may be dropped.                                                         *)
OutcomeShown == /\ outcome = "ok" ~> status \in {"completed", "removed"}
                /\ outcome = "failed" ~> status \in {"failed", "removed"}

(* A cancelled token brings the task to an end.                            *)
CancelEnds == token ~> phase = "over"
=============================================================================

------------------------- MODULE DownloadJob_proofs -------------------------
(***************************************************************************)
(* For every capacity of the channel and every number of retries, emitted  *)
(* events, skips and panics: the job of a download goes through the        *)
(* lifecycle JobLifecycle promises, and is shown as cancelled only when    *)
(* the user asked for it.                                                  *)
(***************************************************************************)
EXTENDS DownloadJob, TLAPS

USE DownloadJobAssumption

Statuses == Job!Active \cup Job!Settled \cup {"pending", "removed"}

LEMMA ShownValues ==
    /\ Job!Shown["ok"] = "completed" /\ Job!Shown["failed"] = "failed"
    /\ Job!Shown["cancelled"] = "cancelled"
    /\ DOMAIN Job!Shown = Outcomes
    /\ Job!Settled = {"completed", "failed", "cancelled"}
    /\ Job!Active = {"running", "processing"}
  BY DEF Job!Shown, Job!Settled, Job!Active, Outcomes

(* A task that is over has an outcome, one that reports a cancel has been  *)
(* asked for it, and one that pauses has a re-extraction left.             *)
Reporting ==
    /\ outcome = "none" <=> phase # "over"
    /\ phase = "report" =>
         report \in Outcomes /\ (report = "cancelled" => token)
    /\ phase = "backoff" => attempt < MaxRetries

(* A terminal event is the last the channel will ever hold.                *)
Terminal ==
    \A i \in 1 .. Len(chan) :
        chan[i] \in Outcomes =>
            /\ phase = "over" /\ i = Len(chan) /\ chan[i] = outcome
            /\ chan[i] = "cancelled" => token

(* A settled job has no event left to receive.                             *)
Showing ==
    /\ loop = "unborn" <=> status = "pending"
    /\ phase = "new" => loop = "unborn"
    /\ status \in Job!Settled \cup {"removed"} => phase = "over" /\ chan = <<>>
    /\ status = "cancelled" => token

IInv == TypeOK /\ Reporting /\ Terminal /\ Showing

LEMMA InitInv == Init => IInv
<1> SUFFICES ASSUME Init PROVE IInv
    OBVIOUS
<1>1. TypeOK
  <2>1. Len(chan) <= Capacity /\ chan \in Seq(Outcomes \cup {"info", "post"})
        BY DEF Init
  <2>2. attempt \in 0 .. MaxRetries /\ emits \in 0 .. MaxEmits
        BY DEF Init
  <2>3. status \in Job!Active \cup Job!Settled \cup {"pending", "removed"}
        BY DEF Init
  <2> QED BY <2>1, <2>2, <2>3 DEF Init, TypeOK
<1>2. Reporting /\ Terminal
      BY DEF Init, Reporting, Terminal
<1>3. Showing
      BY ShownValues DEF Init, Showing
<1> QED BY <1>1, <1>2, <1>3 DEF IInv

-----------------------------------------------------------------------------
(* An event the task emits while it is not over keeps the channel in       *)
(* order.                                                                  *)
LEMMA EmitKeeps ==
    ASSUME TypeOK, Terminal, phase # "over",
           NEW e \in Outcomes \cup {"info", "post"}, Emit(e)
    PROVE  /\ chan' \in Seq(Outcomes \cup {"info", "post"})
           /\ Len(chan') <= Capacity
           /\ \A i \in 1 .. Len(chan') :
                chan'[i] \in Outcomes => i = Len(chan') /\ chan'[i] = e
  BY DEF TypeOK, Terminal, Emit, Room

LEMMA SendKeeps ==
    ASSUME TypeOK, Terminal, phase # "over",
           NEW e \in Outcomes \cup {"info", "post"}, Send(e)
    PROVE  /\ chan' \in Seq(Outcomes \cup {"info", "post"})
           /\ Len(chan') <= Capacity
           /\ \A i \in 1 .. Len(chan') :
                chan'[i] \in Outcomes => i = Len(chan') /\ chan'[i] = e
  BY DEF TypeOK, Terminal, Send, Room

(* While the task is not over the channel holds no terminal event, and     *)
(* taking the first event away brings the others nearer.                   *)
LEMMA TailKeeps ==
    ASSUME TypeOK, Terminal, chan # <<>>, chan' = Tail(chan),
           phase' = phase, outcome' = outcome, token' = token
    PROVE  /\ chan' \in Seq(Outcomes \cup {"info", "post"})
           /\ Len(chan') <= Capacity
           /\ Terminal'
           /\ Head(chan) \in Outcomes \cup {"info", "post"}
           /\ Head(chan) \in Outcomes =>
                /\ phase = "over" /\ chan' = <<>> /\ Head(chan) = outcome
                /\ Head(chan) = "cancelled" => token
  BY DEF TypeOK, Terminal

-----------------------------------------------------------------------------
(* The phases in which the task has neither ended nor its report to send.  *)
Quiet == {"new", "backoff"} \cup Working

(* A step of the task that emits at most an event of no consequence.       *)
LEMMA QuietStep ==
    ASSUME IInv, phase \in Quiet, phase' \in Quiet \ {"new"},
           UNCHANGED <<report, outcome, token, status, cancelFn, loop>>,
           attempt' \in 0 .. MaxRetries, emits' \in 0 .. MaxEmits,
           phase' = "backoff" => attempt' < MaxRetries,
           \/ UNCHANGED chan
           \/ \E e \in {"info", "post"} : Emit(e) \/ Send(e)
    PROVE  IInv'
<1> phase # "over" /\ phase' # "over" /\ phase' # "report" /\ phase' # "new"
    BY DEF Quiet, Working
<1>1. /\ chan' \in Seq(Outcomes \cup {"info", "post"}) /\ Len(chan') <= Capacity
      /\ \A i \in 1 .. Len(chan') : chan'[i] \notin Outcomes
  <2>1. CASE UNCHANGED chan
        BY <2>1 DEF IInv, TypeOK, Terminal
  <2>2. CASE \E e \in {"info", "post"} : Emit(e) \/ Send(e)
    <3>1. PICK e \in {"info", "post"} : Emit(e) \/ Send(e)
          BY <2>2
    <3>2. e \notin Outcomes
          BY DEF Outcomes
    <3> QED BY <3>1, <3>2, EmitKeeps, SendKeeps DEF IInv
  <2> QED BY <2>1, <2>2
<1>2. TypeOK'
      BY <1>1 DEF IInv, TypeOK, Quiet
<1>3. Reporting'
      BY DEF IInv, Reporting
<1>4. Terminal'
      BY <1>1 DEF Terminal
<1>5. Showing'
      BY DEF IInv, Showing
<1> QED BY <1>2, <1>3, <1>4, <1>5 DEF IInv

(* A step that leaves the task with a terminal event to send.              *)
LEMMA ToReport ==
    ASSUME IInv, phase \in Quiet, phase' = "report",
           report' \in Outcomes, report' = "cancelled" => token,
           UNCHANGED <<attempt, emits, chan, outcome, token, status, cancelFn,
                       loop>>
    PROVE  IInv'
<1> phase # "over"
    BY DEF Quiet, Working
<1>1. TypeOK'
      BY DEF IInv, TypeOK
<1>2. Reporting' /\ Terminal' /\ Showing'
      BY DEF IInv, Reporting, Terminal, Showing
<1> QED BY <1>1, <1>2 DEF IInv

(* A step that ends the task with an outcome, its event sent or lost.      *)
LEMMA ToOver ==
    ASSUME IInv, phase \in Quiet \cup {"report"}, phase' = "over",
           phase # "new",
           outcome' \in Outcomes \cup {"panicked"},
           \/ UNCHANGED chan
           \/ /\ outcome' \in Outcomes /\ (outcome' = "cancelled" => token)
              /\ Emit(outcome') \/ Send(outcome'),
           UNCHANGED <<attempt, emits, report, token, status, cancelFn, loop>>
    PROVE  IInv'
<1> phase # "over"
    BY DEF Quiet, Working
<1>1. /\ chan' \in Seq(Outcomes \cup {"info", "post"}) /\ Len(chan') <= Capacity
      /\ Terminal'
  <2>1. CASE UNCHANGED chan
        BY <2>1 DEF IInv, TypeOK, Terminal
  <2>2. CASE ~UNCHANGED chan
        BY <2>2, EmitKeeps, SendKeeps DEF IInv, Terminal
  <2> QED BY <2>1, <2>2
<1>2. TypeOK'
      BY <1>1 DEF IInv, TypeOK
<1>3. outcome' # "none"
      BY DEF Outcomes
<1>4. Reporting' /\ Showing'
      BY <1>3 DEF IInv, Reporting, Showing
<1> QED BY <1>1, <1>2, <1>4 DEF IInv

(* The steps of the task.                                                  *)
LEMMA TaskStep == IInv /\ (Task \/ Progress \/ PostProgress \/ Panics) => IInv'
<1> SUFFICES ASSUME IInv, Task \/ Progress \/ PostProgress \/ Panics PROVE IInv'
    OBVIOUS
<1> USE DEF queueVars, Quiet, Working, Outcomes
<1>0. attempt \in 0 .. MaxRetries /\ emits \in 0 .. MaxEmits
      BY DEF IInv, TypeOK
<1>1. CASE Spawn
  <2>1. CASE phase' = "extract"
        BY <1>0, <1>1, <2>1, QuietStep DEF Spawn
  <2>2. CASE phase' = "report"
        BY <1>1, <2>2, ToReport DEF Spawn
  <2> QED BY <1>1, <2>1, <2>2 DEF Spawn
<1>2. CASE Extracted
      BY <1>0, <1>2, QuietStep DEF Extracted
<1>3. CASE Skipped
      BY <1>3, ToOver DEF Skipped, End
<1>4. CASE Transferred
      BY <1>0, <1>4, QuietStep DEF Transferred
<1>5. CASE TransferCancelled
  <2>1. outcome' = "cancelled" /\ Emit(outcome') /\ token
        BY <1>5 DEF TransferCancelled, End
  <2> QED BY <1>5, <2>1, ToOver DEF TransferCancelled, End
<1>6. CASE Finished \/ PostCancelled \/ Fails
      BY <1>6, ToReport DEF Finished, PostCancelled, Fails
<1>7. CASE FailsReextractable
      BY <1>0, <1>7, QuietStep DEF FailsReextractable
<1>8. CASE Retry
  <2>1. attempt' \in 0 .. MaxRetries /\ emits' \in 0 .. MaxEmits
        BY <1>0, <1>8 DEF Retry, IInv, Reporting
  <2> QED BY <1>8, <2>1, QuietStep DEF Retry
<1>9. CASE Report
  <2>1. /\ outcome' = report /\ report \in Outcomes
        /\ report = "cancelled" => token
        BY <1>9 DEF Report, End, IInv, Reporting
  <2> QED BY <1>9, <2>1, ToOver DEF Report, End
<1>10. CASE Progress \/ PostProgress
  <2>1. emits' \in 0 .. MaxEmits
        BY <1>0, <1>10 DEF Progress, PostProgress
  <2> QED BY <1>0, <1>10, <2>1, QuietStep DEF Progress, PostProgress
<1>11. CASE Panics
      BY <1>11, ToOver DEF Panics, End
<1> QED BY <1>1, <1>2, <1>3, <1>4, <1>5, <1>6, <1>7, <1>8, <1>9, <1>10, <1>11
        DEF Task

(* The steps of the desktop and of the user.                               *)
LEMMA DesktopStep == IInv /\ (Desktop \/ Cancel \/ Remove) => IInv'
<1> SUFFICES ASSUME IInv, Desktop \/ Cancel \/ Remove PROVE IInv'
    OBVIOUS
<1> USE DEF taskVars
<1>1. CASE StartJob
  <2>1. TypeOK' /\ Reporting' /\ Terminal'
        BY <1>1, ShownValues DEF StartJob, IInv, TypeOK, Reporting, Terminal
  <2>2. Showing'
        BY <1>1, ShownValues DEF StartJob, IInv, Showing
  <2> QED BY <2>1, <2>2 DEF IInv
<1>2. CASE Receive
  <2>1. /\ chan' \in Seq(Outcomes \cup {"info", "post"})
        /\ Len(chan') <= Capacity /\ Terminal'
        /\ Head(chan) \in Outcomes \cup {"info", "post"}
        /\ Head(chan) \in Outcomes =>
             /\ phase = "over" /\ chan' = <<>> /\ Head(chan) = outcome
             /\ Head(chan) = "cancelled" => token
        BY <1>2, TailKeeps DEF Receive, IInv
  <2>2. status \in Job!Active
        BY <1>2, ShownValues DEF Receive, IInv, Showing, TypeOK
  <2>3. \/ status' = status
        \/ status' = "processing"
        \/ Head(chan) \in Outcomes /\ status' = Job!Shown[Head(chan)]
        BY <1>2 DEF Receive, StatusAfter
  <2>4. TypeOK' /\ Reporting'
        BY <1>2, <2>1, <2>2, <2>3, ShownValues
           DEF Receive, IInv, TypeOK, Reporting, Outcomes
  <2>5. Showing'
        BY <1>2, <2>1, <2>2, <2>3, ShownValues
           DEF Receive, IInv, Showing, Outcomes
  <2> QED BY <2>1, <2>4, <2>5 DEF IInv
<1>3. CASE LoopEnds
      BY <1>3 DEF LoopEnds, IInv, TypeOK, Reporting, Terminal, Showing
<1>4. CASE Cancel
      BY <1>4 DEF Cancel, IInv, TypeOK, Reporting, Terminal, Showing
<1>5. CASE Remove
  <2>1. TypeOK' /\ Reporting' /\ Terminal'
        BY <1>5 DEF Remove, IInv, TypeOK, Reporting, Terminal
  <2>2. Showing'
        BY <1>5, ShownValues DEF Remove, IInv, Showing
  <2> QED BY <2>1, <2>2 DEF IInv
<1> QED BY <1>1, <1>2, <1>3, <1>4, <1>5 DEF Desktop

LEMMA Inductive == Spec => []IInv
<1>1. IInv /\ UNCHANGED vars => IInv'
      BY DEF vars, IInv, TypeOK, Reporting, Terminal, Showing
<1>2. IInv /\ [Next]_vars => IInv'
      BY <1>1, TaskStep, DesktopStep DEF Next, Done
<1> QED BY InitInv, <1>2, PTL DEF Spec

-----------------------------------------------------------------------------
(* Every reachable state is well typed: the channel never overfills.       *)
THEOREM TypeCorrect == Spec => []TypeOK
<1>1. IInv => TypeOK
      BY DEF IInv
<1> QED BY Inductive, <1>1, PTL

(* Nothing but the user's cancel makes a job show as cancelled, however    *)
(* many retries, failures or panics the download goes through.             *)
THEOREM CancelledByUser == Spec => []CancelledOnRequest
<1>1. IInv => CancelledOnRequest
      BY DEF IInv, Showing, CancelledOnRequest
<1> QED BY Inductive, <1>1, PTL

(* The event loop and the task implement the job's lifecycle: a settled    *)
(* job never moves again and shows what its download came to.              *)
THEOREM JobImplementsLifecycle == Spec => Lifecycle
<1>1. Init => Job!LInit
      BY DEF Init, Job!LInit
<1>2. IInv /\ [Next]_vars => [Job!LNext]_<<status, outcome>>
  <2> SUFFICES ASSUME IInv, [Next]_vars,
                      ~UNCHANGED <<status, outcome>>
               PROVE  Job!LNext
      OBVIOUS
  <2>1. CASE Task \/ Progress \/ PostProgress \/ Panics
    <3>1. UNCHANGED status
          BY <2>1 DEF Task, Spawn, Extracted, Skipped, Transferred,
             TransferCancelled, Finished, PostCancelled, Fails,
             FailsReextractable, Retry, Report, Progress, PostProgress, Panics,
             queueVars
    <3>2. UNCHANGED outcome \/ (phase # "over" /\ outcome' \in Outcomes \cup {"panicked"})
          BY <2>1 DEF Task, Spawn, Extracted, Skipped, Transferred,
             TransferCancelled, Finished, PostCancelled, Fails,
             FailsReextractable, Retry, Report, Progress, PostProgress, Panics,
             Working, End, Outcomes, IInv, Reporting
    <3>3. Job!Conclude
          BY <3>1, <3>2, ShownValues DEF Job!Conclude, IInv, Reporting
    <3> QED BY <3>3 DEF Job!LNext
  <2>2. CASE StartJob
        BY <2>2 DEF StartJob, taskVars, IInv, Showing, Job!Begin, Job!LNext
  <2>3. CASE Receive
    <3>1. /\ Head(chan) \in Outcomes \cup {"info", "post"}
          /\ Head(chan) \in Outcomes => Head(chan) = outcome
          BY <2>3, TailKeeps DEF Receive, taskVars, IInv
    <3>2. status \in Job!Active /\ UNCHANGED outcome
          BY <2>3, ShownValues DEF Receive, taskVars, IInv, Showing, TypeOK
    <3>3. \/ status' = "processing"
          \/ Head(chan) \in Outcomes /\ status' = Job!Shown[Head(chan)]
          BY <2>3, <3>2 DEF Receive, StatusAfter
    <3>4. Job!Process \/ Job!Settle
          BY <3>1, <3>2, <3>3, ShownValues DEF Job!Process, Job!Settle
    <3> QED BY <3>4 DEF Job!LNext
  <2>4. CASE Remove
        BY <2>4 DEF Remove, taskVars, Job!Leave, Job!LNext
  <2>5. CASE LoopEnds \/ Cancel \/ Done \/ UNCHANGED vars
        BY <2>5 DEF LoopEnds, Cancel, Done, taskVars, vars
  <2> QED BY <2>1, <2>2, <2>3, <2>4, <2>5 DEF Next, Desktop
<1> QED BY <1>1, <1>2, Inductive, PTL DEF Spec, Lifecycle, Job!LSpec
=============================================================================

------------------------ MODULE PipelineFiles_proofs ------------------------
(***************************************************************************)
(* For any chain of stages and any files: type correctness, and the files  *)
(* the run promises to keep, to name and to remove, provided merges are    *)
(* processed.                                                              *)
(***************************************************************************)
EXTENDS PipelineFiles, TLAPS

USE PipelineFilesAssumption

(* A merge has FFmpeg and some stage to run: requires_ffmpeg gates the     *)
(* former, the latter is a choice of the user's (see run pipeline_unmerged)*)
MergesProcessed ==
    \A p \in Plans : p.kind = "merge" => p.ffmpeg /\ p.config # {}

Outs == {Out(s) : s \in Stages}

Early   == {"transfer", "seam", "sidecars", "start"}
Chained == {"run", "join", "error"}

-----------------------------------------------------------------------------
Busy    == {s \in Stages : task[s] = "busy"}
Message == chan # None \/ Busy # {}
Holding == Message \/ phase \in {"cleanup", "finalize"}
Lost    == \/ err # "none" \/ panicked
           \/ \E s \in Stages : task[s] \in {"failed", "refused"}

(* There is one message; it waits for a stage that will take it, or one    *)
(* stage is at work on it, or it has arrived.                              *)
OneMessage ==
    /\ phase \in Early => /\ chan = None /\ err = "none" /\ ~panicked
                         /\ \A s \in Stages : task[s] = "none"
    /\ Message => phase \in Chained
    /\ Holding => ~Lost
    /\ chan # None => Busy = {}
    /\ \A s, t \in Busy : s = t
    /\ phase \in Chained => \A s \in Stages : task[s] # "none"
    /\ \A s \in Stages : chan = s - 1 => task[s] = "wait"
    /\ phase \in {"join", "error"} => task[NumStages] = "done" /\ chan # NumStages

(* A stage is done because it passed the message on, or a stage above it   *)
(* lost it for a reason that is recorded, or the run was cancelled.        *)
Explained ==
    /\ phase = "run" /\ ~token =>
          \A s \in Stages : task[s] = "done" =>
              Lost \/ chan >= s \/ \E t \in Busy : t > s
    /\ phase = "error" => Lost

Chain == /\ OneMessage /\ Explained
         /\ result # "none" <=> phase = "done"
         /\ ErrorSurfaced

(* The tracker's current files are the inputs, or one file. *)
Shape == Holding => \/ tracker.current = Inputs
                    \/ \E f \in Files : tracker.current = {f}

(* What may be borrowed. *)
Own == IF Local THEN Inputs ELSE {}

Good(tr) == /\ tr.current \subseteq Inputs \cup Outs
            /\ tr.issued \subseteq Outs
            /\ tr.temps \cap Own = {}
            /\ Local => tr.temps \subseteq Outs
            /\ tr.borrowed \subseteq Own

Sound ==
    /\ ~Holding => tracker = NoTracker
    /\ Good(tracker)
    /\ Message \/ phase = "cleanup" => tracker.borrowed = Own
    /\ phase = "finalize" =>
          tracker.issued = {} /\ tracker.temps = {} /\ tracker.borrowed = {}
    /\ tracker.issued \subseteq tracker.temps \cup tracker.current
                                  \cup {Out(s) : s \in Busy}
    /\ held \subseteq tracker.issued

(* Which file may have which kind of name, and when. *)
Names ==
    /\ \A f \in Files :
          /\ where[f] = "beside" => f \in Sidecars
          /\ where[f] = "own" => f \in Own
          /\ where[f] = "part" => f \in Inputs \ Own
          /\ where[f] \in {"temp", "kept", "clean"} => f \in (Inputs \cup Outs) \ Own
    /\ Local => phase \notin {"transfer", "seam", "sidecars"} /\ fetched = {}

Known == tracker.issued \cup tracker.current \cup tracker.temps

PartTime == \/ phase \in {"transfer", "seam", "dead"} \/ result = "abandoned"
            \/ phase = "done" /\ plan.kind # "merge"
TempTime(f) == \/ phase \in {"seam", "sidecars", "start"} /\ f \in Inputs
               \/ phase = "dead" \/ result = "abandoned" \/ f \in Known
               \/ result = "complete" /\ ~MergesProcessed
KeptTime == ~Holding /\ phase \notin Early

Times ==
    \A f \in Files : /\ where[f] = "part" => PartTime
                     /\ where[f] = "temp" => TempTime(f)
                     /\ where[f] \in {"kept", "clean"} => KeptTime

(* The files the message carries hold every piece, and are one file from   *)
(* the first stage on.                                                     *)
PastMerge == chan > 0 \/ Busy \ {Merge} # {} \/ phase = "cleanup"
Alone   == \E f \in Files : tracker.current = {f}
Carries(F) == \A i \in Inputs : \E f \in F : i \in content[f]

Whole ==
    /\ PastMerge => Alone
    /\ Holding => Carries(tracker.current)
    /\ \A i \in Inputs : content[i] = {} \/ i \in content[i]
    /\ phase \notin {"transfer", "dead", "done"} => \A i \in Inputs : i \in content[i]

Delivered == DeliveredWhole /\ (result = "complete" => final \in Files)

(* With merges processed, the end of the run has one file. *)
Single ==
    /\ MergesProcessed /\ phase = "finalize" => Alone
    /\ MergesProcessed => Delivered

(* A file in use does not turn old, and a refusal keeps the media. *)
Refused == err = "refused" \/ result = "refused"
             \/ \E s \in Stages : task[s] = "refused"

Preserved ==
    /\ phase \notin {"done", "dead"} => old = {}
    /\ phase \in {"seam", "sidecars", "start"} => \A i \in Inputs : where[i] # "none"
    /\ phase = "transfer" => \A i \in Inputs : content[i] # {} => where[i] # "none"
    /\ Message => \A f \in tracker.current \cup tracker.issued : where[f] # "none"
    /\ Refused /\ phase # "dead" => \A i \in Inputs : \E f \in Files :
                        where[f] \in {"kept", "own"} /\ i \in content[f]

-----------------------------------------------------------------------------
(* The numbering of files and stages, and the operators on trackers.       *)
LEMMA FileFacts ==
    /\ Merge \in Stages /\ NumStages \in Stages
    /\ \A s \in Stages : Out(s) \in Files /\ s + 4 = Out(s) /\ s \in Nat
    /\ Outs \subseteq Files /\ Sidecars \subseteq Files
    /\ Thumb \in Sidecars /\ Subs \in Sidecars
    /\ Inputs \subseteq Files /\ Video \in Inputs
    /\ Outs \cap Sidecars = {} /\ Outs \cap Inputs = {}
    /\ Inputs \cap Sidecars = {} /\ Own \subseteq Inputs
  BY DEF Merge, Stages, Out, Files, Outs, Sidecars, Inputs, Video, Audio, Thumb,
         Subs, Own

LEMMA TrackerTypes ==
    ASSUME NEW tr \in Trackers
    PROVE  /\ \A f \in Files : Replaced(tr, f) \in Trackers
           /\ \A F \in SUBSET Files : [tr EXCEPT !.temps = @ \cup F] \in Trackers
           /\ \A F \in SUBSET Files : [tr EXCEPT !.issued = @ \cup F] \in Trackers
           /\ \A c \in Sidecars : Disposed(tr, c) \in Trackers
           /\ Deletable(tr) \subseteq Files
  BY FileFacts DEF Trackers, Replaced, Disposed, Deletable

LEMMA NoTrackerTyped == NoTracker \in Trackers
  BY DEF NoTracker, Trackers

LEMMA WithoutTyped ==
    ASSUME TypeOK, NEW F
    PROVE  Without(F) \in [Files -> Places]
  BY DEF TypeOK, Without, Places

LEMMA FirstIn ==
    ASSUME NEW F, F = Inputs \/ \E f \in Files : F = {f}
    PROVE  First(F) \in F
<1>1. CASE F = Inputs
      BY <1>1 DEF First, Inputs, Video, Audio
<1>2. CASE \E f \in Files : F = {f}
      BY <1>2 DEF First, Files
<1> QED BY <1>1, <1>2

-----------------------------------------------------------------------------
TInv == TypeOK /\ Shape /\ Chain

LEMMA InitTyped == Init => TInv
<1> SUFFICES ASSUME Init PROVE TInv
    OBVIOUS
<1>1. TypeOK
      BY FileFacts, NoTrackerTyped DEF Init, TypeOK, Places, None
<1>2. Shape
      BY DEF Init, Shape, Holding, Message, Busy, None
<1>3. Chain
  <2>0. /\ \A s \in Stages : task[s] = "none"
        /\ chan = None /\ err = "none" /\ ~panicked /\ phase \in Early
        BY DEF Init, Early
  <2>1. OneMessage
    <3>1. ~Message
          BY <2>0 DEF Message, Busy
    <3>2. \A s \in Stages : chan # s - 1
          BY <2>0 DEF None, Stages
    <3> QED BY <2>0, <3>1, <3>2 DEF OneMessage, Holding, Early, Chained, Busy
  <2>2. Explained
        BY DEF Init, Explained
  <2> QED BY <2>1, <2>2 DEF Init, Chain, ErrorSurfaced
<1> QED BY <1>1, <1>2, <1>3 DEF TInv

Tasks == {"none", "wait", "busy", "failed", "refused", "done"}

(* A tracker dropped, and the message handed on.                           *)
LEMMA DropTyped ==
    ASSUME TypeOK, NEW tr \in Trackers, Drop(tr)
    PROVE  /\ where' \in [Files -> Places] /\ held' \subseteq Files
           /\ tracker' \in Trackers
  BY WithoutTyped, NoTrackerTyped DEF Drop, TypeOK

LEMMA ForwardTyped ==
    ASSUME TypeOK, NEW s \in Stages, NEW tr \in Trackers, Forward(s, tr)
    PROVE  /\ where' \in [Files -> Places] /\ held' \subseteq Files
           /\ tracker' \in Trackers
           /\ chan' \in 0 .. NumStages \cup {None}
           /\ task' \in [Stages -> Tasks]
           /\ Busy' \subseteq Busy \ {s}
           /\ chan' = None \/ tracker' = tr
<1>1. task' \in [Stages -> Tasks]
      BY DEF Forward, TypeOK, Tasks
<1>2. Busy' \subseteq Busy \ {s}
      BY DEF Forward, TypeOK, Busy
<1>3. CASE s < NumStages /\ task[s + 1] = "done"
  <2>1. chan' = None /\ Drop(tr)
        BY <1>3 DEF Forward, ToNext
  <2> QED BY <1>1, <1>2, <2>1, DropTyped
<1>4. CASE ~(s < NumStages /\ task[s + 1] = "done")
  <2>1. chan' = s /\ tracker' = tr /\ where' = where /\ held' = held
        BY <1>4 DEF Forward, ToNext
  <2>2. chan' \in 0 .. NumStages
        BY <2>1 DEF Stages
  <2> QED BY <1>1, <1>2, <2>1, <2>2 DEF TypeOK
<1> QED BY <1>3, <1>4

(* What the steps of a stage leave alone.                                  *)
Rest == /\ plan \in Plans /\ old \subseteq Files /\ fetched \subseteq Sidecars
        /\ phase \in {"transfer", "seam", "sidecars", "start", "run", "join",
                      "error", "cleanup", "finalize", "done", "dead"}
        /\ result \in {"none", "complete", "cancelled", "failed", "refused",
                       "no error", "abandoned"}
        /\ final \in Files \cup {None} /\ token \in BOOLEAN

LEMMA RestTyped ==
    ASSUME TypeOK, UNCHANGED <<plan, old, fetched, phase, result, final, token>>
    PROVE  Rest'
  BY DEF TypeOK, Rest

(* The steps of a stage's task. *)
LEMMA StageTyped ==
    ASSUME TInv, NEW s \in Stages,
           Work(s) \/ Fail(s) \/ Refuse(s) \/ Panic(s)
    PROVE  TypeOK'
<1>0. TypeOK /\ Shape
      BY DEF TInv
<1> USE <1>0
<1> SUFFICES /\ where' \in [Files -> Places] /\ content' \in [Files -> SUBSET Files]
             /\ held' \subseteq Files /\ tracker' \in Trackers
             /\ chan' \in 0 .. NumStages \cup {None}
             /\ task' \in [Stages -> Tasks]
             /\ err' \in {"none", "failed", "refused"} /\ panicked' \in BOOLEAN
  <2>1. Rest'
        BY RestTyped DEF Work, StageCancelled, NoInput, Skip, Begin, Issue,
           Succeed, Tolerate, Report, Fail, Refuse, Panic, others
  <2> QED BY <2>1 DEF Rest, TypeOK, Tasks
<1> USE DEF others
<1>1. CASE StageCancelled(s)
  <2>1. CASE chan = s - 1
        BY <1>1, <2>1, DropTyped DEF StageCancelled, TypeOK, Tasks
  <2>2. CASE chan # s - 1
        BY <1>1, <2>2 DEF StageCancelled, TypeOK, Tasks
  <2> QED BY <2>1, <2>2
<1>2. CASE NoInput(s)
      BY <1>2 DEF NoInput, TypeOK, Tasks
<1>3. CASE Skip(s)
  <2>1. Forward(s, tracker) /\ tracker \in Trackers
        BY <1>3 DEF Skip, TypeOK
  <2>2. UNCHANGED <<content, err, panicked>>
        BY <1>3 DEF Skip
  <2> QED BY <2>1, <2>2, ForwardTyped DEF TypeOK
<1>4. CASE Begin(s)
      BY <1>4 DEF Begin, TypeOK, Tasks
<1>5. CASE Issue(s)
  <2>1. Out(s) \in Files /\ tracker' \in Trackers
        BY <1>5, FileFacts, TrackerTypes DEF Issue, TypeOK
  <2>2. where' \in [Files -> Places] /\ held' \subseteq Files
        BY <1>5, <2>1 DEF Issue, TypeOK, Places
  <2> QED BY <1>5, <2>1, <2>2 DEF Issue, TypeOK, Tasks
<1>6. CASE Succeed(s)
  <2> DEFINE tr == Replaced(tracker, Out(s))
  <2>1. tr \in Trackers /\ Disposed(tr, Thumb) \in Trackers /\ Out(s) \in Files
        BY TrackerTypes, FileFacts DEF TypeOK
  <2>2. UNCHANGED <<err, panicked>>
        BY <1>6 DEF Succeed
  <2>3. Forward(s, tr) \/ Forward(s, Disposed(tr, Thumb))
        BY <1>6 DEF Succeed
  <2>4. content' \in [Files -> SUBSET Files]
    <3> DEFINE read == IF s = Merge THEN tracker.current
                                    ELSE {First(tracker.current)}
               thumb == IF s = ThumbnailStage /\ where[Thumb] = "beside"
                        THEN {Thumb} ELSE {}
               new == thumb \cup UNION {content[f] : f \in read}
    <3>1. content' = [content EXCEPT ![Out(s)] = new]
          BY <1>6 DEF Succeed
    <3>2. read \subseteq Files
          BY <1>6, FirstIn DEF Succeed, Shape, Holding, Message, Busy, TypeOK,
             Trackers, Inputs, Files, Video, Audio
    <3>3. thumb \subseteq Files
          BY FileFacts
    <3>4. content \in [Files -> SUBSET Files] /\ Out(s) \in Files
          BY <2>1 DEF TypeOK
    <3> HIDE DEF read, thumb
    <3>5. \A f \in read : content[f] \subseteq Files
          BY <3>2, <3>4
    <3>6. new \subseteq Files
          BY <3>3, <3>5
    <3> HIDE DEF new
    <3> QED BY <3>1, <3>4, <3>6
  <2> HIDE DEF tr
  <2> QED BY <2>1, <2>2, <2>3, <2>4, ForwardTyped DEF TypeOK
<1>7. CASE Tolerate(s)
  <2> DEFINE tr == [tracker EXCEPT !.temps = @ \cup (tracker.issued \cap {Out(s)})]
  <2>1. tr \in Trackers /\ Disposed(tr, Subs) \in Trackers
          /\ Disposed(tr, Thumb) \in Trackers
        BY TrackerTypes, FileFacts DEF TypeOK
  <2>2. UNCHANGED <<content, err, panicked>>
        BY <1>7 DEF Tolerate
  <2>3. \/ Forward(s, tr) \/ Forward(s, Disposed(tr, Subs))
        \/ Forward(s, Disposed(tr, Thumb))
        BY <1>7 DEF Tolerate
  <2> HIDE DEF tr
  <2> QED BY <2>1, <2>2, <2>3, ForwardTyped DEF TypeOK
<1>8. CASE Report(s)
      BY <1>8 DEF Report, TypeOK, Tasks
<1>9. CASE Fail(s)
      BY <1>9, DropTyped DEF Fail, TypeOK, Tasks
<1>10. CASE Refuse(s)
  <2>1. where' \in [Files -> Places]
        BY <1>10, WithoutTyped DEF Refuse, Kept, TypeOK, Places
  <2>2. held' \subseteq Files
        BY <1>10 DEF Refuse, TypeOK
  <2> QED BY <1>10, <2>1, <2>2, NoTrackerTyped DEF Refuse, TypeOK, Tasks
<1>11. CASE Panic(s)
      BY <1>11, DropTyped DEF Panic, TypeOK, Tasks
<1> QED BY <1>1, <1>2, <1>3, <1>4, <1>5, <1>6, <1>7, <1>8, <1>9, <1>10, <1>11
        DEF Work

StepOfStage(s) == Work(s) \/ Fail(s) \/ Refuse(s) \/ Panic(s)

LEMMA StepTyped ==
    ASSUME TInv, [Next]_vars
    PROVE  TypeOK'
<1>0. TypeOK /\ Shape
      BY DEF TInv
<1> USE <1>0 DEF diskVars, chainVars, Return
<1>1. CASE \E f \in Files : Transfer(f)
  <2> PICK f \in Files : Transfer(f)
      BY <1>1
  <2>1. CASE where[f] = "none"
        BY <2>1 DEF Transfer, TypeOK, Places
  <2>2. CASE where[f] # "none"
    <3>1. content' = [content EXCEPT ![f] = {f}] /\ phase' \in {"transfer", "seam"}
            /\ where' = where
          BY <2>2 DEF Transfer
    <3>2. content' \in [Files -> SUBSET Files]
          BY <3>1 DEF TypeOK
    <3> QED BY <3>1, <3>2 DEF Transfer, TypeOK
  <2> QED BY <2>1, <2>2
<1>2. CASE \E f \in Files : Seam(f)
      BY <1>2 DEF Seam, TypeOK, Places
<1>3. CASE FetchSidecars
  <2>1. fetched' \subseteq Sidecars /\ where' \in [Files -> Places]
    <3>1. Wanted \subseteq Sidecars
          BY DEF Wanted, TypeOK, PlanType
    <3> QED BY <1>3, <3>1 DEF FetchSidecars, TypeOK, Places
  <2> QED BY <1>3, <2>1 DEF FetchSidecars, TypeOK
<1>4. CASE Unprocessed
      BY <1>4, FileFacts DEF Unprocessed, TypeOK, NoTracker, Trackers
<1>5. CASE Run
  <2>1. tracker' \in Trackers
        BY <1>5, FileFacts DEF Run, NoTracker, Trackers
  <2>2. chan' \in 0 .. NumStages \cup {None} /\ task' \in [Stages -> Tasks]
        BY <1>5 DEF Run, Tasks
  <2> QED BY <1>5, <2>1, <2>2 DEF Run, TypeOK, Tasks
<1>6. CASE Receive
      BY <1>6 DEF Receive, TypeOK
<1>7. CASE NoOutput
      BY <1>7 DEF NoOutput, TypeOK
<1>8. CASE Cancelled
      BY <1>8, WithoutTyped DEF Cancelled, TypeOK
<1>9. CASE Failed
      BY <1>9 DEF Failed, TypeOK
<1>10. CASE NoError
      BY <1>10 DEF NoError, TypeOK
<1>11. CASE Cleanup
      BY <1>11, WithoutTyped DEF Cleanup, TypeOK, NoTracker, Trackers
<1>12. CASE Finalize
  <2>1. First(tracker.current) \in Files
        BY <1>12, FirstIn, FileFacts DEF Finalize, Shape, Holding
  <2>2. where' \in [Files -> Places]
        BY <1>12 DEF Finalize, TypeOK, Places
  <2> QED BY <1>12, <2>1, <2>2, NoTrackerTyped DEF Finalize, TypeOK
<1>13. CASE FinalizeFails
      BY <1>13, NoTrackerTyped DEF FinalizeFails, TypeOK
<1>14. CASE TransferEnds
      BY <1>14, WithoutTyped DEF TransferEnds, TypeOK
<1>15. CASE Abandon
      BY <1>15 DEF Abandon, TypeOK
<1>16. CASE Cancel
      BY <1>16 DEF Cancel, TypeOK
<1>17. CASE EndProcess
      BY <1>17, WithoutTyped, NoTrackerTyped DEF EndProcess, TypeOK
<1>18. CASE \E f \in Files : Age(f) \/ Sweep(f)
  <2> PICK f \in Files : Age(f) \/ Sweep(f)
      BY <1>18
  <2>1. CASE Age(f)
        BY <2>1 DEF Age, TypeOK
  <2>2. CASE Sweep(f)
        BY <2>2 DEF Sweep, TypeOK, Places
  <2> QED BY <2>1, <2>2
<1>19. CASE \E s \in Stages : StepOfStage(s)
      BY <1>19, StageTyped DEF StepOfStage
<1>20. CASE UNCHANGED vars
      BY <1>20 DEF vars, TypeOK
<1> QED BY <1>1, <1>2, <1>3, <1>4, <1>5, <1>6, <1>7, <1>8, <1>9, <1>10, <1>11,
           <1>12, <1>13, <1>14, <1>15, <1>16, <1>17, <1>18, <1>19, <1>20
        DEF Next, Coordinate, StepOfStage

-----------------------------------------------------------------------------
(* The chain: one message, and the explanation of its loss.                *)
LEMMA ForwardChain ==
    ASSUME TypeOK, Chain, NEW s \in Stages, NEW tr, Forward(s, tr),
           task[s] = "busy" \/ (task[s] = "wait" /\ chan = s - 1),
           UNCHANGED <<phase, result, token, err, panicked>>
    PROVE  Chain'
<1>1. Message /\ phase \in Chained /\ ~Lost /\ Busy \subseteq {s}
      BY DEF Chain, OneMessage, Holding, Message, Busy, None, Stages
<1>2. /\ task' \in [Stages -> Tasks] /\ task' = [task EXCEPT ![s] = "done"]
      /\ task \in [Stages -> Tasks]
      BY DEF Forward, TypeOK, Tasks
<1>3. Busy' = {} /\ ~Lost'
      BY <1>1, <1>2 DEF Busy, Lost
<1>4. \A t \in Stages \ {s} : task[t] \in {"wait", "done"} /\ task'[t] = task[t]
      BY <1>1, <1>2 DEF Lost, Busy, Chain, OneMessage, Holding, Tasks
<1>5. s \in Nat /\ NumStages \in Nat /\ chan \in Int
        /\ \A t \in Stages : t \in Nat /\ t <= NumStages /\ t >= 1
  <2>1. chan \in 0 .. NumStages \cup {None}
        BY DEF TypeOK
  <2> QED BY <2>1 DEF Stages, None
<1>6. CASE s < NumStages /\ task[s + 1] = "done"
  <2>1. chan' = None
        BY <1>6 DEF Forward, ToNext
  <2>2. ~Message'
        BY <2>1, <1>3 DEF Message
  <2>3. phase = "run" => token
    <3> SUFFICES ASSUME phase = "run", ~token PROVE FALSE
        OBVIOUS
    <3>1. s + 1 \in Stages
          BY <1>5, <1>6 DEF Stages
    <3>2. chan >= s + 1 \/ \E t \in Busy : t > s + 1
          BY <3>1, <1>1, <1>6 DEF Chain, Explained
    <3>3. chan = None \/ chan = s - 1
          BY <1>5 DEF Chain, OneMessage, Holding, Busy
    <3> QED BY <1>1, <1>5, <3>2, <3>3 DEF None
  <2>4. OneMessage'
        BY <1>1, <1>2, <1>3, <1>4, <2>1, <2>2, <1>5
        DEF OneMessage, Holding, Chain, None, Early, Chained
  <2>5. Explained'
        BY <2>3, <1>1 DEF Explained, Chain, Chained
  <2> QED BY <2>4, <2>5 DEF Chain, ErrorSurfaced
<1>7. CASE ~(s < NumStages /\ task[s + 1] = "done")
  <2>1. chan' = s
        BY <1>7 DEF Forward, ToNext
  <2>2. \A t \in Stages : chan' = t - 1 => task'[t] = "wait"
    <3> TAKE t \in Stages
    <3> HAVE chan' = t - 1
    <3>1. t = s + 1 /\ s < NumStages
          BY <2>1, <1>5
    <3> QED BY <3>1, <1>4, <1>5, <1>7
  <2>3. phase \in {"join", "error"} => task'[NumStages] = "done" /\ chan' # NumStages
    <3>1. phase \in {"join", "error"} => task[NumStages] = "done" /\ NumStages # s
          BY DEF Chain, OneMessage, Holding
    <3> QED BY <3>1, <1>2, <2>1, <1>5
  <2>4. OneMessage'
        BY <1>1, <1>2, <1>3, <1>4, <2>1, <2>2, <2>3
        DEF OneMessage, Holding, Chain, Early, Chained
  <2>5. phase = "run" /\ ~token => \A t \in Stages : task'[t] = "done" => chan' >= t
    <3> SUFFICES ASSUME phase = "run", ~token, NEW t \in Stages,
                        task'[t] = "done", t # s
                 PROVE  s >= t
        BY <2>1, <1>5
    <3>1. chan >= t \/ \E u \in Busy : u > t
          BY <1>1, <1>4 DEF Chain, Explained
    <3>2. chan = None \/ chan = s - 1
          BY <1>5 DEF Chain, OneMessage, Holding, Busy
    <3> QED BY <3>1, <3>2, <1>1, <1>5 DEF None
  <2>6. Explained'
        BY <2>5, <1>1 DEF Explained, Chain
  <2> QED BY <2>4, <2>6 DEF Chain, ErrorSurfaced
<1> QED BY <1>6, <1>7

(* The message of a stage at work is gone, and the reason recorded. *)
LEMMA LostChain ==
    ASSUME TypeOK, Chain, NEW s \in Stages, task[s] = "busy",
           NEW v \in {"failed", "refused", "done"}, task' = [task EXCEPT ![s] = v],
           v = "done" => panicked',  panicked => panicked',
           UNCHANGED <<phase, result, token, err, chan>>
    PROVE  Chain'
<1>1. /\ chan = None /\ phase \in Chained /\ Busy \subseteq {s}
      /\ task[s] # "wait"
      BY DEF Chain, OneMessage, Holding, Message, Busy
<1>2. task \in [Stages -> Tasks]
      BY DEF TypeOK, Tasks
<1>3. Lost' /\ task'[s] = v /\ \A t \in Stages \ {s} : task'[t] = task[t]
      BY <1>2 DEF Lost
<1>4. Busy' = {} /\ ~Message'
      BY <1>1, <1>2, <1>3 DEF Busy, Message
<1>5. \A t \in Stages : chan # t - 1
      BY <1>1 DEF None, Stages
<1>6. phase \in {"join", "error"} => task'[NumStages] = "done"
      BY <1>3, FileFacts DEF Chain, OneMessage, Holding
<1>7. OneMessage'
      BY <1>1, <1>3, <1>4, <1>5, <1>6
      DEF Chain, OneMessage, Holding, Early, Chained
<1>8. Explained'
      BY <1>3 DEF Explained
<1> QED BY <1>7, <1>8 DEF Chain, ErrorSurfaced

LEMMA StageChain ==
    ASSUME TypeOK, Chain, NEW s \in Stages,
           Work(s) \/ Fail(s) \/ Refuse(s) \/ Panic(s)
    PROVE  Chain'
<1>1. UNCHANGED <<phase, result, token>> /\ task \in [Stages -> Tasks]
      BY
      DEF Work, StageCancelled, NoInput, Skip, Begin, Issue, Succeed, Tolerate,
         Report, Fail, Refuse, Panic, others, TypeOK, Tasks
<1>2. s \in Nat /\ NumStages \in Nat /\ chan \in Int
        /\ \A t \in Stages : t \in Nat /\ t <= NumStages /\ t >= 1
  <2>1. chan \in 0 .. NumStages \cup {None}
        BY DEF TypeOK
  <2> QED BY <2>1 DEF Stages, None
<1>3. CASE StageCancelled(s)
  <2>1. /\ task[s] = "wait" /\ token /\ task' = [task EXCEPT ![s] = "done"]
        /\ chan' = None \/ (chan' = chan /\ chan # s - 1)
        /\ UNCHANGED <<err, panicked>>
        BY <1>3 DEF StageCancelled, others
  <2>2. Busy' = Busy /\ Lost' = Lost /\ (Message' => Message)
        BY <1>1, <2>1 DEF Busy, Lost, Message
  <2>3. \A t \in Stages : chan' = t - 1 => task'[t] = "wait"
        BY <1>1, <1>2, <2>1 DEF Chain, OneMessage, Holding, None
  <2>4. phase \in {"join", "error"} => task'[NumStages] = "done" /\ chan' # NumStages
        BY <1>1, <1>2, <2>1, FileFacts DEF Chain, OneMessage, Holding, None
  <2>5. chan' # None => Busy' = {}
        BY <2>1, <2>2 DEF Chain, OneMessage, Holding
  <2>6. phase \notin Early /\ \A t \in Stages : task[t] # "none" => task'[t] # "none"
        BY <1>1, <2>1 DEF Chain, OneMessage, Holding
  <2>7. OneMessage'
        BY <1>1, <2>2, <2>3, <2>4, <2>5, <2>6 DEF Chain, OneMessage, Holding
  <2>8. Explained'
        BY <1>1, <2>1, <2>2 DEF Chain, Explained
  <2> QED BY <1>1, <2>1, <2>7, <2>8 DEF Chain, ErrorSurfaced
<1>4. CASE NoInput(s)
  <2>1. /\ task[s] = "wait" /\ chan # s - 1 /\ s > 1 /\ task[s - 1] = "done"
        /\ task' = [task EXCEPT ![s] = "done"] /\ UNCHANGED <<chan, err, panicked>>
        BY <1>4 DEF NoInput, others
  <2>2. Busy' = Busy /\ Lost' = Lost /\ Message' = Message
        BY <1>1, <2>1 DEF Busy, Lost, Message
  <2>3. \A t \in Stages : chan' = t - 1 => task'[t] = "wait"
        BY <1>1, <1>2, <2>1 DEF Chain, OneMessage, Holding
  <2>4. phase \in {"join", "error"} => task'[NumStages] = "done" /\ chan' # NumStages
        BY <1>1, <1>2, <2>1, FileFacts DEF Chain, OneMessage, Holding
  <2>5. phase \notin Early /\ \A t \in Stages : task[t] # "none" => task'[t] # "none"
        BY <1>1, <2>1 DEF Chain, OneMessage, Holding
  <2>6. OneMessage'
        BY <1>1, <2>1, <2>2, <2>3, <2>4, <2>5 DEF Chain, OneMessage, Holding
  <2>7. phase = "run" /\ ~token => Lost \/ chan >= s \/ \E t \in Busy : t > s
    <3>1. s - 1 \in Stages
          BY <1>2, <2>1 DEF Stages
    <3>2. phase = "run" /\ ~token =>
             Lost \/ chan >= s - 1 \/ \E t \in Busy : t > s - 1
          BY <3>1, <2>1 DEF Chain, Explained
    <3>3. \A t \in Busy : t > s - 1 => t > s
      <4> TAKE t \in Busy
      <4>1. t # s /\ t \in Nat
            BY <1>2, <2>1 DEF Busy
      <4> QED BY <4>1, <1>2
    <3>4. chan >= s - 1 => chan >= s
          BY <2>1, <1>2
    <3> QED BY <3>2, <3>3, <3>4
  <2>8. Explained'
        BY <1>1, <2>1, <2>2, <2>7 DEF Chain, Explained
  <2> QED BY <1>1, <2>1, <2>6, <2>8 DEF Chain, ErrorSurfaced
<1>5. CASE Skip(s)
      BY <1>1, <1>5, ForwardChain DEF Skip, others
<1>6. CASE Begin(s)
  <2>1. /\ task[s] = "wait" /\ chan = s - 1 /\ task' = [task EXCEPT ![s] = "busy"]
        /\ chan' = None /\ UNCHANGED <<err, panicked>>
        BY <1>6 DEF Begin, others
  <2>2. Busy = {} /\ ~Lost /\ phase \in Chained
        BY <1>2, <2>1 DEF Chain, OneMessage, Holding, Message, None
  <2>3. Busy' = {s} /\ ~Lost' /\ task'[s] = "busy"
        BY <1>1, <2>1, <2>2 DEF Busy, Lost
  <2>4. \A t \in Stages : chan' # t - 1
        BY <1>2, <2>1 DEF None
  <2>5. phase \in {"join", "error"} => task'[NumStages] = "done" /\ chan' # NumStages
        BY <1>1, <1>2, <2>1, FileFacts DEF Chain, OneMessage, Holding, None
  <2>6. phase \in Chained /\ \A t \in Stages : task[t] # "none" => task'[t] # "none"
        BY <1>1, <2>1, <2>2
  <2>7. OneMessage'
        BY <1>1, <2>1, <2>2, <2>3, <2>4, <2>5, <2>6
        DEF Chain, OneMessage, Holding, Early, Chained
  <2>8. phase = "run" /\ ~token =>
           \A t \in Stages : task'[t] = "done" => \E u \in Busy' : u > t
    <3> SUFFICES ASSUME phase = "run", ~token, NEW t \in Stages, task'[t] = "done"
                 PROVE  s > t
        BY <2>3
    <3>1. task[t] = "done"
          BY <1>1, <2>1
    <3>2. chan >= t
          BY <3>1, <2>2 DEF Chain, Explained
    <3> QED BY <3>2, <2>1, <1>2
  <2>9. Explained'
        BY <1>1, <2>2, <2>8 DEF Chain, Explained
  <2> QED BY <1>1, <2>1, <2>7, <2>9 DEF Chain, ErrorSurfaced
<1>7. CASE Issue(s)
  <2>1. UNCHANGED <<phase, result, token, chan, task, err, panicked>>
        BY <1>7 DEF Issue, others
  <2> QED BY <2>1
          DEF Chain, OneMessage, Holding, Explained, Lost, Message, Busy,
             ErrorSurfaced
<1>8. CASE Succeed(s)
  <2>1. /\ task[s] = "busy" /\ UNCHANGED <<err, panicked>>
        /\ \E tr : Forward(s, tr)
        BY <1>8 DEF Succeed, others
  <2> QED BY <1>1, <2>1, ForwardChain
<1>9. CASE Tolerate(s)
  <2>1. /\ task[s] = "busy" /\ UNCHANGED <<err, panicked>>
        /\ \E tr : Forward(s, tr)
        BY <1>9 DEF Tolerate, others
  <2> QED BY <1>1, <2>1, ForwardChain
<1>10. CASE Report(s)
  <2>1. /\ task[s] \in {"failed", "refused"} /\ task' = [task EXCEPT ![s] = "done"]
        /\ err' = task[s] /\ UNCHANGED <<chan, panicked>>
        BY <1>10 DEF Report, others
  <2>2. Lost /\ Lost' /\ Busy' = Busy
        BY <1>1, <2>1 DEF Lost, Busy
  <2>3. chan = None /\ Busy = {}
        BY <2>2 DEF Chain, OneMessage, Holding, Message
  <2>4. \A t \in Stages : chan # t - 1
        BY <1>2, <2>3 DEF None
  <2>5. phase \in {"join", "error"} => task'[NumStages] = "done" /\ chan' # NumStages
        BY <1>1, <1>2, <2>1, FileFacts DEF Chain, OneMessage, Holding
  <2>6. phase \notin Early /\ \A t \in Stages : task[t] # "none" => task'[t] # "none"
        BY <1>1, <2>1 DEF Chain, OneMessage, Holding
  <2>7. OneMessage'
        BY <1>1, <2>1, <2>2, <2>3, <2>4, <2>5, <2>6
        DEF Chain, OneMessage, Holding, Message
  <2>8. Explained'
        BY <2>2 DEF Explained
  <2> QED BY <1>1, <2>1, <2>7, <2>8 DEF Chain, ErrorSurfaced
<1>11. CASE Fail(s) \/ Refuse(s)
  <2>1. /\ task[s] = "busy" /\ UNCHANGED <<chan, err, panicked>>
        /\ \E v \in {"failed", "refused"} : task' = [task EXCEPT ![s] = v]
        BY <1>11 DEF Fail, Refuse, others
  <2> QED BY <1>1, <2>1, LostChain
<1>12. CASE Panic(s)
      BY <1>1, <1>12, LostChain DEF Panic
<1> QED BY <1>3, <1>4, <1>5, <1>6, <1>7, <1>8, <1>9, <1>10, <1>11, <1>12
        DEF Work

(* The steps outside the chain leave it alone, start it or end it. *)
ChainAlone == UNCHANGED <<chan, task, err, panicked>>

LEMMA AloneChain ==
    ASSUME Chain, ChainAlone,
           phase' \in Early => phase \in Early,
           phase' \in Chained => phase' = phase,
           Message => phase' = phase,
           phase' \in {"cleanup", "finalize"} =>
              phase \in Early \cup {"cleanup", "finalize"},
           token => token',
           result' = result /\ (phase' = "done" <=> phase = "done")
    PROVE  Chain'
<1>1. Busy' = Busy /\ Lost' = Lost /\ Message' = Message
      BY DEF ChainAlone, Busy, Lost, Message
<1>2. phase \in Early => ~Lost
      BY DEF Chain, OneMessage, Lost
<1>3. OneMessage'
      BY <1>1, <1>2 DEF Chain, OneMessage, Holding, ChainAlone, Chained
<1>4. Explained'
      BY <1>1 DEF Chain, Explained, ChainAlone, Chained
<1> QED BY <1>3, <1>4 DEF Chain, ErrorSurfaced, ChainAlone

(* The run returns. *)
LEMMA ReturnChain ==
    ASSUME Chain, ChainAlone, ~Message, phase' = "done", result' # "none",
           result' = "no error" => panicked
    PROVE  Chain'
<1>1. Busy' = Busy /\ Message' = Message
      BY DEF ChainAlone, Busy, Message
<1>2. OneMessage'
      BY <1>1 DEF Chain, OneMessage, Holding, ChainAlone, Chained, Early
<1>3. Explained'
      BY DEF Explained
<1> QED BY <1>2, <1>3 DEF Chain, ErrorSurfaced, ChainAlone

LEMMA StepChain ==
    ASSUME TypeOK, Chain, [Next]_vars
    PROVE  Chain'
<1> USE DEF chainVars, diskVars, Return, ChainAlone
<1>0. phase \notin Chained => ~Message
      BY DEF Chain, OneMessage, Holding
<1>1. CASE \E f \in Files : Transfer(f) \/ Seam(f)
  <2>1. ChainAlone /\ phase \in {"transfer", "seam"} /\ UNCHANGED <<token, result>>
          /\ phase' \in {"transfer", "seam", "sidecars"}
        BY <1>1 DEF Transfer, Seam
  <2> QED BY <2>1, <1>0, AloneChain DEF Early, Chained
<1>2. CASE FetchSidecars
      BY <1>2, <1>0, AloneChain DEF FetchSidecars, Early, Chained
<1>3. CASE Unprocessed
      BY <1>3, <1>0, AloneChain DEF Unprocessed, Early, Chained
<1>4. CASE Run
  <2>1. /\ phase = "start" /\ phase' = "run" /\ chan' = 0
        /\ task' = [s \in Stages |-> "wait"]
        /\ UNCHANGED <<result, token, err, panicked>>
        BY <1>4 DEF Run
  <2>2. Busy' = {} /\ ~Lost'
        BY <2>1 DEF Busy, Lost, Chain, OneMessage, Holding, Early
  <2>3. OneMessage'
        BY <2>1, <2>2 DEF OneMessage, Holding, Early, Chained
  <2>4. Explained'
        BY <2>1 DEF Explained
  <2> QED BY <2>1, <2>3, <2>4 DEF Chain, ErrorSurfaced
<1>5. CASE Receive
  <2>1. /\ phase = "run" /\ phase' = "cleanup" /\ chan = NumStages /\ chan' = None
        /\ UNCHANGED <<task, result, token, err, panicked>>
        BY <1>5 DEF Receive
  <2>2. Busy' = {} /\ ~Message' /\ ~Lost'
        BY <2>1 DEF Busy, Message, Chain, OneMessage, Holding, None, Lost
  <2>3. \A t \in Stages : chan' # t - 1
        BY <2>1 DEF None, Stages
  <2>4. OneMessage'
        BY <2>1, <2>2, <2>3 DEF OneMessage, Holding, Early, Chained
  <2>5. Explained'
        BY <2>1 DEF Explained
  <2> QED BY <2>1, <2>4, <2>5 DEF Chain, ErrorSurfaced
<1>6. CASE NoOutput
  <2>1. /\ phase = "run" /\ phase' = IF token THEN "join" ELSE "error"
        /\ task[NumStages] = "done" /\ chan # NumStages
        /\ UNCHANGED <<result, token>> /\ ChainAlone
        BY <1>6 DEF NoOutput
  <2>2. Busy' = Busy /\ Lost' = Lost /\ Message' = Message
        BY <2>1 DEF Busy, Lost, Message
  <2>3. ~token => Lost
    <3>1. \A t \in Busy : ~(t > NumStages)
          BY DEF Busy, Stages
    <3>2. chan \in 0 .. NumStages \cup {None}
          BY DEF TypeOK
    <3>3. ~(chan >= NumStages)
          BY <2>1, <3>2 DEF None
    <3> QED BY <2>1, <3>1, <3>3, FileFacts DEF Chain, Explained
  <2>4. OneMessage'
        BY <2>1, <2>2 DEF Chain, OneMessage, Holding, Early, Chained
  <2>5. Explained'
        BY <2>1, <2>2, <2>3 DEF Explained
  <2> QED BY <2>1, <2>4, <2>5 DEF Chain, ErrorSurfaced
<1>7. CASE Cancelled
  <2>1. ~Message
        BY <1>7
        DEF Cancelled, Joined, AllDone, Chain, OneMessage, Holding, Message, Busy,
                    Stages, None, TypeOK
  <2> QED BY <1>7, <2>1, ReturnChain DEF Cancelled
<1>8. CASE Failed
  <2>1. ~Message
        BY <1>8 DEF Failed, Chain, OneMessage, Holding, Lost
  <2>2. err \notin {"none", "no error"}
        BY <1>8 DEF Failed, TypeOK
  <2> QED BY <1>8, <2>1, <2>2, ReturnChain DEF Failed
<1>9. CASE NoError
  <2>1. ~Message /\ Lost
        BY <1>9 DEF NoError, Chain, OneMessage, Holding, Explained
  <2>2. panicked
        BY <1>9, <2>1 DEF NoError, Closed, AllDone, Lost
  <2> QED BY <1>9, <2>1, <2>2, ReturnChain DEF NoError
<1>10. CASE Cleanup
      BY <1>10, <1>0, AloneChain DEF Cleanup, Early, Chained
<1>11. CASE Finalize
      BY <1>11, <1>0, ReturnChain DEF Finalize, Chained
<1>12. CASE FinalizeFails
      BY <1>12, <1>0, ReturnChain DEF FinalizeFails, Chained
<1>13. CASE TransferEnds
      BY <1>13, <1>0, ReturnChain DEF TransferEnds, Chained
<1>14. CASE Abandon
      BY <1>14, <1>0, ReturnChain DEF Abandon, Chained
<1>15. CASE Cancel
      BY <1>15, AloneChain DEF Cancel
<1>16. CASE EndProcess
  <2>1. /\ phase # "done" /\ phase' = "dead" /\ chan' = None
        /\ task' = [s \in Stages |-> "none"] /\ UNCHANGED <<result, panicked>>
        BY <1>16 DEF EndProcess
  <2>2. Busy' = {} /\ ~Message'
        BY <2>1 DEF Busy, Message
  <2>3. \A t \in Stages : chan' # t - 1
        BY <2>1 DEF None, Stages
  <2>4. OneMessage'
        BY <2>1, <2>2, <2>3 DEF OneMessage, Holding, Early, Chained
  <2>5. Explained'
        BY <2>1 DEF Explained
  <2> QED BY <2>1, <2>4, <2>5 DEF Chain, ErrorSurfaced
<1>17. CASE \E f \in Files : Age(f) \/ Sweep(f)
  <2>1. ChainAlone /\ UNCHANGED <<phase, result, token>>
        BY <1>17 DEF Age, Sweep
  <2> QED BY <2>1, AloneChain
<1>18. CASE \E s \in Stages : StepOfStage(s)
      BY <1>18, StageChain DEF StepOfStage
<1>19. CASE UNCHANGED vars
      BY <1>19, AloneChain DEF vars
<1> QED BY <1>1, <1>2, <1>3, <1>4, <1>5, <1>6, <1>7, <1>8, <1>9, <1>10, <1>11,
           <1>12, <1>13, <1>14, <1>15, <1>16, <1>17, <1>18, <1>19
        DEF Next, Coordinate, StepOfStage

-----------------------------------------------------------------------------
(* What a step of a stage does to the message: it leaves it alone, takes   *)
(* it up, issues a temporary, refuses, or passes on or drops a successor   *)
(* of the tracker in it.                                                   *)
Unmoved == /\ UNCHANGED <<tracker, where, held, content>>
           /\ chan' = chan /\ Busy' = Busy

(* The trackers a stage at work may pass on, and those it may drop.        *)
Made(s, tr) ==
    /\ s \in Busy /\ Out(s) \in tracker.issued
    /\ tr \in {Replaced(tracker, Out(s)),
               Disposed(Replaced(tracker, Out(s)), Thumb)}
Gave(s, tr) ==
    /\ s \in Busy \ Fatal /\ content' = content
    /\ LET marked == [tracker EXCEPT !.temps = @ \cup (tracker.issued \cap {Out(s)})]
       IN  tr \in {marked, Disposed(marked, Thumb), Disposed(marked, Subs)}
Same(tr) == tr = tracker /\ content' = content

Passes(s, tr) == /\ Message /\ tracker' = tr /\ UNCHANGED <<where, held>>
                 /\ chan' = s /\ Busy' = {}
Drops(tr) == Message /\ Drop(tr) /\ ~Message'

Outcome(s) ==
    \/ Unmoved
    \/ Begin(s)
    \/ Issue(s)
    \/ Refuse(s) /\ Message /\ ~Message'
    \/ Skip(s) /\ Passes(s, tracker)
    \/ Same(tracker) /\ Drops(tracker)
    \/ \E tr : /\ Gave(s, tr) \/ (Made(s, tr) /\ Succeed(s))
               /\ Passes(s, tr) \/ Drops(tr)

(* The part of the run that a stage does not touch.                        *)
Apart == UNCHANGED <<plan, fetched, phase, result, final, token, old>>

LEMMA Proceeds ==
    ASSUME TypeOK, NEW s \in Stages, NEW tr, Forward(s, tr), Busy \subseteq {s},
           Message
    PROVE  Passes(s, tr) \/ Drops(tr)
<1>0. task \in [Stages -> Tasks] /\ task' = [task EXCEPT ![s] = "done"]
      BY DEF Forward, TypeOK, Tasks
<1>1. Busy' = {}
      BY <1>0 DEF Busy
<1>2. CASE s < NumStages /\ task[s + 1] = "done"
      BY <1>1, <1>2 DEF Forward, ToNext, Drops, Message
<1>3. CASE ~(s < NumStages /\ task[s + 1] = "done")
      BY <1>1, <1>3 DEF Forward, ToNext, Passes
<1> QED BY <1>2, <1>3

LEMMA Outcomes ==
    ASSUME TypeOK, Chain, NEW s \in Stages,
           Work(s) \/ Fail(s) \/ Refuse(s) \/ Panic(s)
    PROVE  Outcome(s) /\ Apart
<1>0. Apart
      BY
      DEF Work, StageCancelled, NoInput, Skip, Begin, Issue, Succeed, Tolerate,
         Report, Fail, Refuse, Panic, others, Apart
<1>1. task \in [Stages -> Tasks]
      BY DEF TypeOK, Tasks
<1>2. s - 1 # None
      BY DEF Stages, None
<1>3. task[s] = "busy" => chan = None /\ Busy = {s}
      BY DEF Chain, OneMessage, Busy
<1>4. chan = s - 1 => Busy = {} /\ Message
      BY <1>2 DEF Chain, OneMessage, Message
<1>5. CASE StageCancelled(s)
  <2>0. task[s] = "wait" /\ task' = [task EXCEPT ![s] = "done"]
        BY <1>5 DEF StageCancelled
  <2>1. Busy' = Busy
        BY <1>1, <2>0 DEF Busy
  <2>2. CASE chan = s - 1
    <3>1. Drop(tracker) /\ chan' = None /\ content' = content
          BY <1>5, <2>2 DEF StageCancelled
    <3> QED BY <1>0, <1>4, <2>1, <2>2, <3>1 DEF Outcome, Same, Drops, Message
  <2>3. CASE chan # s - 1
        BY <1>0, <1>5, <2>1, <2>3 DEF StageCancelled, Outcome, Unmoved
  <2> QED BY <2>2, <2>3
<1>6. CASE NoInput(s) \/ Report(s)
  <2>0. task[s] # "busy" /\ task' = [task EXCEPT ![s] = "done"]
        BY <1>6 DEF NoInput, Report
  <2>1. Busy' = Busy
        BY <1>1, <2>0 DEF Busy
  <2> QED BY <1>0, <1>6, <2>1 DEF NoInput, Report, Outcome, Unmoved
<1>7. CASE Skip(s)
  <2>1. Passes(s, tracker) \/ Drops(tracker)
        BY <1>4, <1>7, Proceeds DEF Skip
  <2> QED BY <1>0, <1>7, <2>1 DEF Outcome, Same, Skip
<1>8. CASE Begin(s) \/ Issue(s)
      BY <1>0, <1>8 DEF Outcome
<1>9. CASE Succeed(s)
  <2>0. Message
        BY <1>3, <1>9 DEF Succeed, Message
  <2>1. PICK tr \in {Replaced(tracker, Out(s)),
                     Disposed(Replaced(tracker, Out(s)), Thumb)} : Forward(s, tr)
        BY <1>9 DEF Succeed
  <2>2. Made(s, tr)
        BY <1>3, <1>9, <2>1 DEF Succeed, Made
  <2>3. Passes(s, tr) \/ Drops(tr)
        BY <1>3, <1>9, <2>0, <2>1, Proceeds DEF Succeed
  <2> QED BY <1>0, <1>9, <2>2, <2>3 DEF Outcome
<1>10. CASE Tolerate(s)
  <2> DEFINE marked == [tracker EXCEPT !.temps = @ \cup (tracker.issued \cap {Out(s)})]
  <2>0. Message
        BY <1>3, <1>10 DEF Tolerate, Message
  <2>1. PICK tr \in {marked, Disposed(marked, Thumb), Disposed(marked, Subs)} :
           Forward(s, tr)
        BY <1>10 DEF Tolerate
  <2>2. Gave(s, tr)
        BY <1>3, <1>10, <2>1 DEF Tolerate, Gave
  <2>3. Passes(s, tr) \/ Drops(tr)
        BY <1>3, <1>10, <2>0, <2>1, Proceeds DEF Tolerate
  <2> QED BY <1>0, <2>2, <2>3 DEF Outcome
<1>11. CASE Fail(s) \/ Refuse(s) \/ Panic(s)
  <2>0. /\ task[s] = "busy" /\ chan' = chan /\ content' = content
        /\ \E v \in {"failed", "refused", "done"} : task' = [task EXCEPT ![s] = v]
        BY <1>11 DEF Fail, Refuse, Panic, others
  <2>1. Message /\ Busy' = {} /\ ~Message'
        BY <1>1, <1>3, <2>0 DEF Busy, Message
  <2>2. CASE Refuse(s)
        BY <1>0, <2>1, <2>2 DEF Outcome
  <2>3. CASE Fail(s) \/ Panic(s)
    <3>1. Drop(tracker)
          BY <2>3 DEF Fail, Panic
    <3> QED BY <1>0, <2>0, <2>1, <3>1 DEF Outcome, Same, Drops
  <2> QED BY <1>11, <2>2, <2>3
<1> QED BY <1>5, <1>6, <1>7, <1>8, <1>9, <1>10, <1>11 DEF Work

-----------------------------------------------------------------------------
(* The tracker holds the inputs or one file while there is something to    *)
(* hold.                                                                   *)
LEMMA StageShape ==
    ASSUME TInv, NEW s \in Stages, Outcome(s) /\ Apart, Chain'
    PROVE  Shape'
<1>0. /\ TypeOK /\ Chain /\ Shape /\ Inputs' = Inputs
      /\ phase \in {"cleanup", "finalize"} => ~Message
      BY DEF TInv, Inputs, Apart, Chain, OneMessage, Chained
<1>1. Out(s) \in Files
      BY FileFacts
<1> SUFFICES ASSUME Holding'
             PROVE  \/ tracker'.current = Inputs
                    \/ \E f \in Files : tracker'.current = {f}
    BY <1>0 DEF Shape
<1>2. CASE Unmoved
      BY <1>0, <1>2 DEF Unmoved, Shape, Holding, Message, Apart
<1>3. CASE Begin(s) \/ Issue(s)
  <2>1. Message
        BY <1>3 DEF Begin, Issue, Message, Busy, Stages, None
  <2> QED BY <1>0, <1>3, <2>1 DEF Begin, Issue, Shape, Holding, TypeOK, Trackers
<1>4. CASE Skip(s) /\ Passes(s, tracker)
  <2>1. Message
        BY <1>4 DEF Skip, Message, Stages, None
  <2> QED BY <1>0, <1>4, <2>1 DEF Passes, Shape, Holding
<1>5. CASE Message /\ ~Message'
      BY <1>0, <1>5 DEF Holding, Apart
<1>6. CASE \E tr : /\ Gave(s, tr) \/ (Made(s, tr) /\ Succeed(s))
                   /\ Passes(s, tr)
  <2>1. PICK tr : /\ Gave(s, tr) \/ (Made(s, tr) /\ Succeed(s))
                  /\ Passes(s, tr)
        BY <1>6
  <2>2. tr.current = tracker.current \/ tr.current = {Out(s)}
        BY <2>1, <1>0 DEF Gave, Made, Replaced, Disposed, TypeOK, Trackers
  <2>3. Message
        BY <2>1 DEF Gave, Made, Message
  <2> QED BY <1>0, <1>1, <2>1, <2>2, <2>3 DEF Passes, Shape, Holding
<1> QED BY <1>2, <1>3, <1>4, <1>5, <1>6 DEF Outcome, Drops

(* The steps outside the chain, and what they do to the message. *)
Aside == \/ \E f \in Files : Transfer(f) \/ Seam(f) \/ Age(f) \/ Sweep(f)
         \/ FetchSidecars \/ Cancelled \/ Failed \/ NoError
         \/ TransferEnds \/ Abandon \/ Cancel \/ NoOutput
         \/ UNCHANGED vars

LEMMA AsideFacts ==
    ASSUME TypeOK, Chain, Aside
    PROVE  /\ UNCHANGED <<tracker, held, chan, task, plan, err>>
           /\ Message' = Message /\ Busy' = Busy
           /\ Holding' = Holding
           /\ \A p \in {"cleanup", "finalize"} : phase' = p <=> phase = p
<1>1. UNCHANGED <<tracker, held, chan, task, plan, err>>
      BY
      DEF Aside, Transfer, Seam, Age, Sweep, FetchSidecars, Cancelled, Failed,
             NoError, TransferEnds, Abandon, Cancel, NoOutput, chainVars, vars
<1>2. Message' = Message /\ Busy' = Busy
      BY <1>1 DEF Message, Busy
<1>3. \A p \in {"cleanup", "finalize"} : phase' = p <=> phase = p
      BY
      DEF Aside, Transfer, Seam, Age, Sweep, FetchSidecars, Cancelled, Joined,
             Failed, NoError, TransferEnds, Abandon, Cancel, NoOutput, Return, vars
<1> QED BY <1>1, <1>2, <1>3 DEF Holding

LEMMA StepShape ==
    ASSUME TInv, [Next]_vars, Chain'
    PROVE  Shape'
<1>0. TypeOK /\ Chain /\ Shape
      BY DEF TInv
<1> SUFFICES ASSUME Holding'
             PROVE  \/ tracker'.current = Inputs'
                    \/ \E f \in Files : tracker'.current = {f}
    BY DEF Shape
<1>1. CASE Aside
      BY <1>0, <1>1, AsideFacts DEF Shape, Inputs
<1>2. CASE Unprocessed \/ Run
      BY <1>2 DEF Unprocessed, Run, Inputs, NoTracker
<1>3. CASE Receive
      BY <1>0, <1>3, FileFacts DEF Receive, Inputs, Shape, Holding, Message,
         chainVars, None
<1>4. CASE Cleanup
      BY <1>0, <1>4 DEF Cleanup, Inputs, Shape, Holding, NoTracker
<1>5. CASE Finalize \/ FinalizeFails \/ EndProcess
      BY <1>5 DEF Finalize, FinalizeFails, EndProcess, Return, Holding, Chain,
                  OneMessage, Chained
<1>6. CASE \E s \in Stages : StepOfStage(s)
      BY <1>0, <1>6, Outcomes, StageShape DEF StepOfStage, Shape
<1> QED BY <1>1, <1>2, <1>3, <1>4, <1>5, <1>6
        DEF Next, Coordinate, StepOfStage, Aside

LEMMA StepInv == TInv /\ [Next]_vars => TInv'
  BY StepTyped, StepChain, StepShape DEF TInv

LEMMA Invariant == Spec => []TInv
<1>1. TInv /\ UNCHANGED vars => TInv'
      BY StepInv
<1> QED BY InitTyped, StepInv, PTL DEF Spec

(* Every variable keeps its type, whatever the chain and the plans. *)
THEOREM TypeCorrect == Spec => []TypeOK
<1>1. TInv => TypeOK
      BY DEF TInv
<1> QED BY <1>1, Invariant, PTL

(* #632: a run that ends without a message names its failure; it reports   *)
(* none only when a stage has panicked.                                    *)
THEOREM FailuresSurface == Spec => []ErrorSurfaced
<1>1. TInv => ErrorSurfaced
      BY DEF TInv, Chain
<1> QED BY <1>1, Invariant, PTL

-----------------------------------------------------------------------------
(* The tracker knows every temporary it has to delete, and nothing of the  *)
(* user's.                                                                 *)
LEMMA PlanFixed ==
    ASSUME plan' = plan
    PROVE  Inputs' = Inputs /\ Own' = Own /\ Local' = Local
  BY DEF Inputs, Own, Local

LEMMA Successor ==
    ASSUME TInv, Sound, Message, NEW s \in Stages, NEW tr,
           Gave(s, tr) \/ Made(s, tr)
    PROVE  /\ Good(tr) /\ tr.borrowed = Own /\ tr.issued = tracker.issued
           /\ tr.issued \subseteq tr.temps \cup tr.current
           /\ Known \ Own \subseteq tr.issued \cup tr.current \cup tr.temps
<1>1. /\ tracker \in Trackers /\ Good(tracker) /\ tracker.borrowed = Own
      /\ s \in Busy /\ Out(s) \in Outs
      BY DEF TInv, TypeOK, Sound, Gave, Made, Outs
<1>2. tracker.issued \subseteq tracker.temps \cup tracker.current \cup {Out(s)}
  <2>1. \A t \in Busy : t = s
        BY <1>1 DEF TInv, Chain, OneMessage
  <2> QED BY <2>1 DEF Sound
<1>3. Local => Own # {}
      BY FileFacts DEF Own
<1>4. CASE Gave(s, tr)
  <2> DEFINE marked == [tracker EXCEPT !.temps = @ \cup (tracker.issued \cap {Out(s)})]
  <2>1. /\ tr.current = tracker.current /\ tr.issued = tracker.issued
        /\ tr.borrowed = tracker.borrowed
        /\ \/ tr.temps = tracker.temps \cup (tracker.issued \cap {Out(s)})
           \/ /\ tracker.borrowed = {}
              /\ \E c \in Sidecars : tr.temps =
                    tracker.temps \cup (tracker.issued \cap {Out(s)}) \cup {c}
        BY <1>1, <1>4, FileFacts DEF Gave, Disposed, Trackers
  <2>2. Good(tr)
        BY <1>1, <1>3, <2>1, FileFacts DEF Good
  <2> QED BY <1>1, <1>2, <2>1, <2>2 DEF Known
<1>5. CASE Made(s, tr)
  <2>1. /\ tr.current = {Out(s)} /\ tr.issued = tracker.issued
        /\ tr.borrowed = tracker.borrowed
        /\ \/ tr.temps = tracker.temps \cup (tracker.current \ tracker.borrowed)
           \/ /\ tracker.borrowed = {}
              /\ \E c \in Sidecars : tr.temps =
                    tracker.temps \cup (tracker.current \ tracker.borrowed) \cup {c}
        BY <1>1, <1>5, FileFacts DEF Made, Replaced, Disposed, Trackers
  <2>2. Local => tr.temps \subseteq Outs
        BY <1>1, <1>3, <2>1 DEF Good, Own
  <2>3. tr.temps \cap Own = {}
        BY <1>1, <2>1, FileFacts DEF Good
  <2>4. tr.issued \subseteq tr.temps \cup tr.current
        BY <1>1, <1>2, <2>1, FileFacts DEF Good
  <2> QED BY <1>1, <2>1, <2>2, <2>3, <2>4 DEF Good, Known
<1> QED BY <1>4, <1>5

(* Nothing is held when the message is gone. *)
LEMMA Released ==
    ASSUME Sound, NEW tr, Good(tr), tr.issued = tracker.issued, Drop(tr)
    PROVE  held' = {} /\ tracker' = NoTracker
  BY FileFacts DEF Sound, Good, Drop, Deletable

LEMMA NothingGood == Good(NoTracker) /\ NoTracker.issued = {}
  BY DEF Good, NoTracker

LEMMA StageSound ==
    ASSUME TInv, Sound, NEW s \in Stages, Outcome(s), Apart, Chain'
    PROVE  Sound'
<1>0. /\ tracker \in Trackers /\ Chain /\ Inputs' = Inputs /\ Own' = Own
      /\ Local' = Local /\ phase' = phase
      /\ Message => phase \in Chained
      BY PlanFixed DEF TInv, TypeOK, Apart, Chain, OneMessage
<1>1. CASE Unmoved
      BY <1>0, <1>1 DEF Unmoved, Sound, Good, Holding, Message
<1>2. CASE Begin(s)
  <2>1. tracker' = tracker /\ held' = held /\ Busy = {} /\ Message /\ Message'
        BY <1>0, <1>2 DEF Begin, Message, Busy, Chain, OneMessage, Stages, None,
                         TInv, TypeOK, others
  <2> QED BY <1>0, <2>1 DEF Sound, Good, Holding, Chained
<1>3. CASE Issue(s)
  <2>1. /\ tracker' = [tracker EXCEPT !.issued = @ \cup {Out(s)}]
        /\ held' = held \cup {Out(s)} /\ Busy' = Busy /\ s \in Busy
        /\ Message /\ Message'
        BY <1>3 DEF Issue, Message, Busy
  <2>2. Good(tracker')
        BY <1>0, <2>1 DEF Sound, Good, Trackers, Outs
  <2> QED BY <1>0, <2>1, <2>2 DEF Sound, Good, Holding, Chained, Trackers
<1>4. CASE Refuse(s) /\ ~Message'
  <2>1. /\ tracker' = NoTracker
        /\ held' = held \ (tracker.current \cup
               Deletable([tracker EXCEPT !.borrowed = @ \cup tracker.current]))
        BY <1>4 DEF Refuse
  <2>2. held' = {}
        BY <1>0, <2>1, FileFacts DEF Sound, Good, Deletable, Trackers
  <2>3. phase \in Chained
        BY <1>0, <1>4 DEF Refuse, Message, Busy
  <2> QED BY <1>0, <1>4, <2>1, <2>2, <2>3, NothingGood
          DEF Sound, Good, Holding, Chained, NoTracker
<1>5. CASE Skip(s) /\ Passes(s, tracker)
  <2>1. tracker' = tracker /\ held' = held /\ Busy = {} /\ Message /\ Message'
        BY <1>0, <1>5
        DEF Skip, Passes, Message, Busy, Chain, OneMessage, Stages,
                         None
  <2> QED BY <1>0, <2>1 DEF Sound, Good, Holding, Chained
<1>6. ASSUME NEW tr, Drops(tr), Good(tr), tr.issued = tracker.issued
      PROVE  Sound'
  <2>1. held' = {} /\ tracker' = NoTracker /\ ~Message' /\ phase' \in Chained
        BY <1>0, <1>6, Released DEF Drops
  <2> QED BY <1>0, <2>1, NothingGood
          DEF Sound, Good, Holding, Chained, NoTracker
<1>7. ASSUME NEW tr, Gave(s, tr) \/ Made(s, tr), Passes(s, tr) \/ Drops(tr)
      PROVE  Sound'
  <2>1. Message
        BY <1>7 DEF Passes, Drops
  <2>2. /\ Good(tr) /\ tr.borrowed = Own /\ tr.issued = tracker.issued
        /\ tr.issued \subseteq tr.temps \cup tr.current
        BY <1>7, <2>1, Successor
  <2>3. CASE Passes(s, tr)
    <3>1. tracker' = tr /\ held' = held /\ Message' /\ phase' \in Chained
          BY <1>0, <2>1, <2>3 DEF Passes, Message, Stages, None
    <3> QED BY <1>0, <2>2, <3>1 DEF Sound, Good, Holding, Chained
  <2> QED BY <1>6, <1>7, <2>2, <2>3
<1>8. Good(tracker)
      BY DEF Sound
<1> QED BY <1>1, <1>2, <1>3, <1>4, <1>5, <1>6, <1>7, <1>8 DEF Outcome

LEMMA StepSound ==
    ASSUME TInv, Sound, [Next]_vars, Chain'
    PROVE  Sound'
<1>0. /\ TypeOK /\ Chain /\ tracker \in Trackers
      /\ phase \notin Chained => ~Message
      BY DEF TInv, TypeOK, Chain, OneMessage
<1>1. CASE Aside
  <2>1. Inputs' = Inputs /\ Own' = Own /\ Local' = Local
        BY <1>0, <1>1, AsideFacts, PlanFixed
  <2> QED BY <1>0, <1>1, <2>1, AsideFacts DEF Sound, Good
<1>2. CASE Unprocessed \/ Run
  <2>1. /\ plan' = plan /\ held' = held /\ phase = "start"
        /\ tracker'.current = Inputs /\ tracker'.issued = {} /\ tracker'.temps = {}
        BY <1>2 DEF Unprocessed, Run, NoTracker, diskVars
  <2>2. held = {}
        BY <1>0, <2>1, NothingGood DEF Sound, Holding, Chained
  <2>3. \/ phase' = "finalize" /\ tracker'.borrowed = {}
        \/ phase' = "run" /\ Message' /\ tracker'.borrowed = Own
    <3>1. CASE Unprocessed
          BY <3>1 DEF Unprocessed, NoTracker
    <3>2. CASE Run
      <4>1. phase' = "run" /\ chan' = 0 /\ tracker'.borrowed = Own
            BY <3>2 DEF Run, NoTracker, Own
      <4> QED BY <4>1 DEF Message, None
    <3> QED BY <1>2, <3>1, <3>2
  <2>4. Own' = Own /\ Inputs' = Inputs /\ Own \subseteq Inputs
        BY <2>1, PlanFixed, FileFacts
  <2>5. Good(tracker)'
        BY <2>1, <2>3, <2>4 DEF Good
  <2>6. phase' = "finalize" => ~Message'
        BY DEF Chain, OneMessage, Chained
  <2> QED BY <2>1, <2>2, <2>3, <2>4, <2>5, <2>6 DEF Sound, Holding
<1>3. CASE Receive
  <2>1. /\ UNCHANGED <<plan, tracker, held>> /\ Message /\ phase' = "cleanup"
        BY <1>0, <1>3, FileFacts DEF Receive, diskVars, Message, None
  <2>2. Busy = {}
        BY <1>0, <1>3, FileFacts DEF Receive, Chain, OneMessage, None
  <2> QED BY <2>1, <2>2, PlanFixed DEF Sound, Good, Holding
<1>4. CASE Cleanup
  <2>1. /\ plan' = plan /\ phase = "cleanup" /\ phase' = "finalize"
        /\ tracker' = [NoTracker EXCEPT !.current = tracker.current]
        /\ held' = held \ (tracker.temps \cup (tracker.current \ tracker.borrowed))
        BY <1>4 DEF Cleanup
  <2>2. Busy = {}
        BY <1>0, <2>1 DEF Message, Chained
  <2>3. held' = {}
        BY <2>1, <2>2, FileFacts DEF Sound, Good
  <2>4. ~Message'
        BY <2>1 DEF Chain, OneMessage, Chained
  <2> QED BY <2>1, <2>3, <2>4, PlanFixed DEF Sound, Good, Holding, NoTracker
<1>5. CASE Finalize \/ FinalizeFails \/ EndProcess
  <2>1. /\ plan' = plan /\ tracker' = NoTracker /\ phase' \in {"done", "dead"}
        /\ held' = {} \/ (held' = held /\ phase = "finalize")
        BY <1>5 DEF Finalize, FinalizeFails, EndProcess, Return, diskVars
  <2>2. held' = {}
        BY <2>1 DEF Sound
  <2>3. ~Message'
        BY <2>1 DEF Chain, OneMessage, Chained
  <2> QED BY <2>1, <2>2, <2>3, NothingGood DEF Sound, Good, Holding, NoTracker
<1>6. CASE \E s \in Stages : StepOfStage(s)
      BY <1>0, <1>6, Outcomes, StageSound DEF StepOfStage
<1> QED BY <1>1, <1>2, <1>3, <1>4, <1>5, <1>6
        DEF Next, Coordinate, StepOfStage, Aside

-----------------------------------------------------------------------------
(* Which kinds of names a file may have.                                   *)
LEMMA InitNames == Init => Names
<1> SUFFICES ASSUME Init PROVE Names
    OBVIOUS
<1>1. plan.brought \subseteq Sidecars
      BY DEF Init, PlanType
<1>2. \A f \in Files : \/ where[f] = "own" /\ f \in Own
                       \/ where[f] = "beside" /\ f \in Sidecars
                       \/ where[f] = "none"
      BY <1>1 DEF Init, Own
<1>3. fetched = {} /\ (Local => phase = "start")
      BY DEF Init
<1> QED BY <1>2, <1>3 DEF Names

Shrinks == \A f \in Files : where'[f] \in {where[f], "none"}

LEMMA ShrinksNames ==
    ASSUME Names, Shrinks, plan' = plan, fetched' = fetched,
           phase' \in {"transfer", "seam", "sidecars"} => phase' = phase
    PROVE  Names'
  BY PlanFixed DEF Names, Shrinks

LEMMA WithoutShrinks ==
    ASSUME NEW F, TypeOK, where' = Without(F) \/ where' = where
    PROVE  Shrinks
  BY DEF Without, Shrinks, TypeOK

LEMMA StageNames ==
    ASSUME TInv, Sound, Names, NEW s \in Stages, Outcome(s), Apart
    PROVE  Names'
<1>0. TypeOK /\ plan' = plan /\ phase' = phase /\ fetched' = fetched
      BY DEF TInv, Apart
<1>1. CASE Issue(s)
  <2>1. /\ Out(s) \in Outs \ Own /\ where' = [where EXCEPT ![Out(s)] = "temp"]
        /\ where \in [Files -> Places]
        BY <1>0, <1>1, FileFacts DEF Issue, Outs, TypeOK
  <2> QED BY <1>0, <2>1, PlanFixed DEF Names
<1>2. CASE Refuse(s)
  <2>1. \A f \in Files : \/ where'[f] = where[f] \/ where'[f] = "none"
                         \/ where[f] = "temp" /\ where'[f] = "kept"
        BY <1>2 DEF Refuse, Kept, Without
  <2> QED BY <1>0, <2>1, PlanFixed DEF Names
<1>3. CASE Unmoved \/ Begin(s) \/ \E tr : Passes(s, tr) \/ Drops(tr)
  <2>1. Shrinks
        BY <1>0, <1>3, WithoutShrinks DEF Unmoved, Begin, Passes, Drops, Drop
  <2> QED BY <1>0, <2>1, ShrinksNames
<1> QED BY <1>1, <1>2, <1>3 DEF Outcome

LEMMA StepNames ==
    ASSUME TInv, Sound, Names, [Next]_vars
    PROVE  Names'
<1>0. /\ TypeOK /\ Chain /\ where \in [Files -> Places]
      /\ plan.kind # "local" => Own = {}
      BY DEF TInv, TypeOK, Own, Local
<1> USE DEF diskVars, chainVars, Return
<1>1. CASE \E f \in Files : Transfer(f)
  <2> PICK f \in Files : Transfer(f)
      BY <1>1
  <2>1. /\ f \in Inputs /\ ~Local /\ UNCHANGED <<plan, fetched>>
        /\ where' = where \/ where' = [where EXCEPT ![f] = "part"]
        /\ phase' \in {"transfer", "seam"}
        BY DEF Transfer, Missing, Names
  <2> QED BY <1>0, <2>1, PlanFixed DEF Names, Local
<1>2. CASE \E f \in Files : Seam(f)
  <2> PICK f \in Files : Seam(f)
      BY <1>2
  <2>1. /\ f \in Inputs /\ ~Local /\ UNCHANGED <<plan, fetched>>
        /\ where' = [where EXCEPT ![f] = "temp"]
        BY DEF Seam, Names
  <2> QED BY <1>0, <2>1, PlanFixed DEF Names, Local
<1>3. CASE FetchSidecars
  <2>1. PICK got \in SUBSET Wanted :
           where' = [f \in Files |-> IF f \in got THEN "beside" ELSE where[f]]
        BY <1>3 DEF FetchSidecars
  <2>2. Wanted \subseteq Sidecars
        BY <1>0 DEF Wanted, TypeOK, PlanType
  <2>3. plan' = plan /\ phase' = "start" /\ ~Local
        BY <1>3 DEF FetchSidecars, Names
  <2> QED BY <1>0, <2>1, <2>2, <2>3, PlanFixed DEF Names
<1>4. CASE Finalize
  <2>1. /\ UNCHANGED <<plan, fetched>> /\ phase' = "done"
        /\ \A f \in Files : \/ where'[f] = where[f] \/ where'[f] = "none"
                            \/ where[f] = "temp" /\ where'[f] = "clean"
        BY <1>4 DEF Finalize
  <2> QED BY <1>0, <2>1, PlanFixed DEF Names
<1>5. CASE \E f \in Files : Age(f) \/ Sweep(f)
  <2>1. Shrinks /\ UNCHANGED <<plan, phase, fetched>>
        BY <1>0, <1>5 DEF Age, Sweep, Shrinks
  <2> QED BY <2>1, ShrinksNames
<1>6. CASE \/ Cancelled \/ TransferEnds \/ Cleanup \/ EndProcess
  <2>1. \E F : where' = Without(F) \/ where' = where
        BY <1>6 DEF Cancelled, TransferEnds, Cleanup, EndProcess
  <2>2. UNCHANGED <<plan, fetched>> /\ phase' \in {"done", "finalize", "dead"}
        BY <1>6 DEF Cancelled, TransferEnds, Cleanup, EndProcess
  <2> QED BY <1>0, <2>1, <2>2, WithoutShrinks, ShrinksNames
<1>7. CASE \/ Unprocessed \/ Run \/ Receive \/ NoOutput \/ Failed \/ NoError
           \/ FinalizeFails \/ Abandon \/ Cancel \/ UNCHANGED vars
  <2>1. Shrinks /\ UNCHANGED <<plan, fetched>> /\ (phase' = phase
           \/ phase' \in {"finalize", "run", "cleanup", "join", "error", "done"})
        BY <1>7 DEF Unprocessed, Run, Receive, NoOutput, Failed, NoError,
           FinalizeFails, Abandon, Cancel, vars, Shrinks
  <2> QED BY <2>1, ShrinksNames
<1>8. CASE \E s \in Stages : StepOfStage(s)
      BY <1>0, <1>8, Outcomes, StageNames DEF StepOfStage
<1> QED BY <1>1, <1>2, <1>3, <1>4, <1>5, <1>6, <1>7, <1>8
        DEF Next, Coordinate, StepOfStage

-----------------------------------------------------------------------------
(* When a file may have a kind of name: a temporary is known to the        *)
(* tracker, and what is kept or clean comes when the message is gone.      *)
LEMMA InitTimes == Init => Times
<1> SUFFICES ASSUME Init PROVE Times
    OBVIOUS
<1>1. \A f \in Files : where[f] \in {"own", "beside", "none"}
      BY DEF Init
<1> QED BY <1>1 DEF Times

LEMMA StageTimes ==
    ASSUME TInv, Sound, Names, Times, NEW s \in Stages, Outcome(s), Apart
    PROVE  Times'
<1>0. /\ TypeOK /\ Chain /\ plan' = plan /\ phase' = phase /\ result' = result
      /\ Inputs' = Inputs /\ where \in [Files -> Places] /\ tracker \in Trackers
      BY PlanFixed DEF TInv, Apart, TypeOK
<1>1. PartTime' = PartTime
      BY <1>0 DEF PartTime
<1>2. Message => phase \in Chained /\ result = "none"
      BY <1>0 DEF Chain, OneMessage, Chained
<1>3. Message => \A f \in Files : /\ where[f] \notin {"part", "kept", "clean"}
                                  /\ where[f] = "temp" => f \in Known \ Own
      BY <1>2 DEF Times, PartTime, TempTime, KeptTime, Holding, Chained, Names
<1>4. ASSUME Message, \A f \in Files : /\ where'[f] \notin {"part", "kept", "clean"}
                                       /\ where'[f] = "temp" => f \in Known'
      PROVE  Times'
      BY <1>4 DEF Times, TempTime
<1>5. CASE Unmoved
      BY <1>0, <1>1, <1>5
      DEF Unmoved, Times, TempTime, KeptTime, Known, Holding,
                              Message
<1>6. CASE Begin(s)
      BY <1>0, <1>3, <1>4, <1>6 DEF Begin, Message, Stages, None, Known
<1>7. CASE Issue(s)
  <2>1. /\ Message /\ where' = [where EXCEPT ![Out(s)] = "temp"]
        /\ Known' = Known \cup {Out(s)}
        BY <1>0, <1>7 DEF Issue, Message, Busy, Known, Trackers
  <2> QED BY <1>0, <1>3, <1>4, <2>1
<1>8. CASE Refuse(s) /\ Message /\ ~Message'
  <2>1. KeptTime'
        BY <1>0, <1>2, <1>8 DEF KeptTime, Holding, Chained, Early
  <2> DEFINE D == Deletable([tracker EXCEPT !.borrowed = @ \cup tracker.current])
  <2>2. \A f \in Files : where'[f] = IF f \in tracker.current THEN Kept(f)
                                     ELSE Without(D)[f]
        BY <1>8 DEF Refuse
  <2>3. D = (tracker.issued \cup tracker.current \cup tracker.temps)
               \ (tracker.borrowed \cup tracker.current)
        BY <1>0 DEF Deletable, Trackers
  <2>4. tracker.borrowed \subseteq Own
        BY DEF Sound, Good
  <2>5. \A f \in Files : where'[f] \notin {"part", "temp"}
        BY <1>3, <1>8, <2>2, <2>3, <2>4 DEF Kept, Without, Known
  <2> QED BY <2>1, <2>5 DEF Times
<1>9. CASE Skip(s) /\ Passes(s, tracker)
      BY <1>0, <1>3, <1>4, <1>9 DEF Passes, Known
<1>10. ASSUME NEW tr, Drops(tr), tr.borrowed \subseteq Own,
              Known \ Own \subseteq tr.issued \cup tr.current \cup tr.temps
       PROVE  Times'
  <2>1. \A f \in Files : where'[f] \in {where[f], "none"}
                           /\ (f \in Known \ Own => where'[f] = "none")
        BY <1>10 DEF Drops, Drop, Without, Deletable
  <2> QED BY <1>3, <1>4, <1>10, <2>1 DEF Drops
<1>11. ASSUME NEW tr, Gave(s, tr) \/ Made(s, tr), Passes(s, tr) \/ Drops(tr)
       PROVE  Times'
  <2>1. /\ Message /\ tr.borrowed = Own
        /\ Known \ Own \subseteq tr.issued \cup tr.current \cup tr.temps
        BY <1>11, Successor DEF Passes, Drops
  <2>2. CASE Passes(s, tr)
        BY <1>3, <1>4, <2>1, <2>2 DEF Passes, Known
  <2> QED BY <1>10, <1>11, <2>1, <2>2
<1>12. CASE Same(tracker) /\ Drops(tracker)
       BY <1>10, <1>12 DEF Sound, Good, Known
<1> QED BY <1>5, <1>6, <1>7, <1>8, <1>9, <1>11, <1>12 DEF Outcome

(* Steps that move no file, or only make files go away.                    *)
LEMMA ShrinksTimes ==
    ASSUME Times, Shrinks, PartTime => PartTime', KeptTime => KeptTime',
           \A f \in Files : where'[f] = "temp" /\ TempTime(f) => TempTime(f)'
    PROVE  Times'
  BY DEF Times, Shrinks

LEMMA StepTimes ==
    ASSUME TInv, Sound, Names, Times, Whole, Single, [Next]_vars, Chain'
    PROVE  Times'
<1>0. /\ TypeOK /\ Chain /\ Shape /\ where \in [Files -> Places]
      /\ result # "none" <=> phase = "done"
      BY DEF TInv, TypeOK, Chain
<1>a. Message => phase \in Chained
      BY <1>0 DEF Chain, OneMessage
<1>b. Message' => phase' \in Chained
      BY DEF Chain, OneMessage
<1>c. ~Holding => Known = {}
      BY DEF Sound, NoTracker, Known
<1>d. \A f \in Files : where[f] = "temp" => TempTime(f)
      BY DEF Times
<1> USE DEF diskVars, chainVars, Return
<1>1. CASE \E f \in Files : Transfer(f)
  <2> PICK f \in Files : Transfer(f)
      BY <1>1
  <2>1. /\ phase = "transfer" /\ phase' \in {"transfer", "seam"} /\ result' = result
        /\ where' = where \/ where' = [where EXCEPT ![f] = "part"]
        BY DEF Transfer
  <2>2. \A g \in Files : where[g] \notin {"temp", "kept", "clean"}
        BY <1>0, <1>a, <1>c, <2>1
        DEF Times, TempTime, KeptTime, Early, Chained, Holding
  <2>3. PartTime'
        BY <2>1 DEF PartTime
  <2> QED BY <1>0, <2>1, <2>2, <2>3 DEF Times
<1>2. CASE \E f \in Files : Seam(f)
  <2> PICK f \in Files : Seam(f)
      BY <1>2
  <2>1. /\ phase = "seam" /\ phase' \in {"seam", "sidecars"} /\ result' = result
        /\ where' = [where EXCEPT ![f] = "temp"] /\ f \in Inputs /\ Inputs' = Inputs
        BY PlanFixed DEF Seam
  <2>2. \A g \in Files : /\ where[g] \notin {"kept", "clean"}
                         /\ where[g] = "temp" => g \in Inputs
        BY <1>0, <1>a, <1>c, <2>1
        DEF Times, TempTime, KeptTime, Early, Chained, Holding
  <2>3. \A g \in Files : where'[g] = "part" => PartTime'
    <3> TAKE g \in Files
    <3> HAVE where'[g] = "part"
    <3>1. g # f /\ g \in Inputs /\ where[g] = "part"
          BY <1>0, <2>1 DEF Names
    <3>2. ~(g < f)
          BY <3>1 DEF Seam
    <3>3. g > f
          BY <2>1, <3>1, <3>2 DEF Inputs, Video, Audio
    <3>4. phase' = "seam"
          BY <3>1, <3>3 DEF Seam
    <3> QED BY <3>4 DEF PartTime
  <2> QED BY <1>0, <2>1, <2>2, <2>3 DEF Times, TempTime
<1>3. CASE FetchSidecars
  <2>1. /\ phase = "sidecars" /\ phase' = "start" /\ Inputs' = Inputs
        /\ \A f \in Files : where'[f] = where[f] \/ where'[f] = "beside"
        BY <1>3, PlanFixed DEF FetchSidecars
  <2>2. \A f \in Files : /\ where[f] \notin {"part", "kept", "clean"}
                         /\ where[f] = "temp" => f \in Inputs
        BY <1>0, <1>a, <1>c, <2>1
        DEF Times, PartTime, TempTime, KeptTime, Early, Chained, Holding
  <2> QED BY <2>1, <2>2 DEF Times, TempTime
<1>4. CASE TransferEnds
  <2>1. /\ phase = "transfer" /\ phase' = "done" /\ plan' = plan
        /\ where' = Without(Inputs) \/ (plan.kind # "merge" /\ Shrinks)
        BY <1>0, <1>4, WithoutShrinks DEF TransferEnds, Discarded
  <2>2. \A f \in Files : where[f] \notin {"temp", "kept", "clean"}
        BY <1>0, <1>a, <1>c, <2>1
        DEF Times, TempTime, KeptTime, Early, Chained, Holding
  <2>3. CASE where' = Without(Inputs)
    <3>1. \A f \in Files : where'[f] \notin {"part", "temp", "kept", "clean"}
          BY <2>2, <2>3 DEF Without, Names
    <3> QED BY <3>1 DEF Times
  <2>4. CASE plan.kind # "merge" /\ Shrinks
    <3>1. PartTime' /\ \A f \in Files : where'[f] \notin {"temp", "kept", "clean"}
          BY <2>1, <2>2, <2>4 DEF Shrinks, PartTime
    <3> QED BY <3>1 DEF Times
  <2> QED BY <2>1, <2>3, <2>4
<1>5. CASE Abandon \/ FinalizeFails
  <2>1. /\ result' = "abandoned" /\ phase' = "done" /\ where' = where
        /\ Holding \/ phase \in Early
        BY <1>5 DEF Abandon, FinalizeFails, Holding, Early
  <2> QED BY <2>1 DEF Times, PartTime, TempTime, KeptTime
<1>6. CASE Unprocessed \/ Run
  <2>1. /\ phase = "start" /\ where' = where /\ tracker'.current = Inputs
        BY <1>6 DEF Unprocessed, Run, NoTracker
  <2>2. \A f \in Files : /\ where[f] \notin {"part", "kept", "clean"}
                         /\ where[f] = "temp" => f \in Inputs
        BY <1>0, <1>a, <1>c, <2>1
        DEF Times, PartTime, TempTime, KeptTime, Early, Chained, Holding
  <2> QED BY <2>1, <2>2 DEF Times, TempTime, Known
<1>7. CASE Receive
  <2>1. /\ phase = "run" /\ Message /\ UNCHANGED <<where, tracker, result>>
        BY <1>7, FileFacts DEF Receive, Message, None
  <2>2. \A f \in Files : /\ where[f] \notin {"part", "kept", "clean"}
                         /\ where[f] = "temp" => f \in Known
        BY <1>0, <2>1 DEF Times, PartTime, TempTime, KeptTime, Holding
  <2> QED BY <2>1, <2>2 DEF Times, TempTime, Known
<1>8. CASE Cleanup
  <2>1. /\ phase = "cleanup" /\ where' = Without(tracker.temps)
        /\ tracker'.current = tracker.current /\ Busy = {}
        BY <1>8, <1>a DEF Cleanup, NoTracker, Message, Chained
  <2>2. \A f \in Files : /\ where[f] \notin {"part", "kept", "clean"}
                         /\ where[f] = "temp" => f \in Known
        BY <1>0, <2>1 DEF Times, PartTime, TempTime, KeptTime, Holding
  <2>3. tracker.issued \subseteq tracker.temps \cup tracker.current
        BY <2>1 DEF Sound
  <2> QED BY <2>1, <2>2, <2>3 DEF Times, TempTime, Known, Without
<1>9. CASE Finalize
  <2> DEFINE f == First(tracker.current)
  <2>1. /\ phase = "finalize" /\ phase' = "done" /\ result' = "complete"
        /\ \A g \in Files : where'[g] \in {where[g], "none", "clean"}
        /\ \A g \in Files : where[g] = "temp" /\ g = f => where'[g] = "clean"
        BY <1>9 DEF Finalize
  <2>2. \A g \in Files : /\ where[g] # "part"
                         /\ where[g] = "temp" => g \in tracker.current
        BY <1>0, <2>1 DEF Times, PartTime, TempTime, Holding, Known, Sound
  <2>3. KeptTime'
        BY <1>b, <2>1 DEF KeptTime, Holding, Early, Chained
  <2>4. \A g \in Files : where'[g] = "temp" => ~MergesProcessed
    <3> SUFFICES ASSUME NEW g \in Files, where'[g] = "temp", MergesProcessed
                 PROVE  FALSE
        OBVIOUS
    <3>1. PICK h \in Files : tracker.current = {h}
          BY <2>1 DEF Single, Alone
    <3>2. f = h
          BY <3>1, FirstIn
    <3> QED BY <2>1, <2>2, <3>1, <3>2
  <2> QED BY <2>1, <2>2, <2>3, <2>4 DEF Times, TempTime
<1>10. CASE EndProcess
  <2>1. phase' = "dead" /\ ~Holding'
        BY <1>10, <1>b DEF EndProcess, Holding, Chained
  <2> QED BY <2>1 DEF Times, PartTime, TempTime, KeptTime, Early
<1>11. CASE \/ \E f \in Files : Age(f) \/ Sweep(f)
            \/ Cancelled \/ Failed \/ NoError \/ Cancel \/ NoOutput \/ UNCHANGED vars
  <2>1. /\ UNCHANGED <<tracker, plan>> /\ Holding' = Holding /\ Shrinks
    <3>1. Aside
          BY <1>11 DEF Aside
    <3>2. Shrinks
          BY <1>0, <1>11, WithoutShrinks
          DEF Age, Sweep, Shrinks, Cancelled, Failed,
             NoError, Cancel, NoOutput, vars
    <3> QED BY <1>0, <3>1, <3>2, AsideFacts
  <2>2. \/ phase' = phase /\ result' = result
        \/ phase \in Chained /\ phase' \in {"join", "error", "done"}
        BY <1>11
        DEF Age, Sweep, Cancelled, Joined, Failed, NoError, Cancel, NoOutput,
           vars, Chained
  <2>3. Inputs' = Inputs /\ Known' = Known
        BY <2>1, PlanFixed DEF Known
  <2>4. PartTime => PartTime'
        BY <1>0, <2>1, <2>2 DEF PartTime, Chained
  <2>5. KeptTime => KeptTime'
        BY <2>1, <2>2 DEF KeptTime, Chained, Early
  <2>6. \A f \in Files : TempTime(f) => TempTime(f)'
        BY <1>0, <2>1, <2>2, <2>3 DEF TempTime, Chained
  <2> QED BY <2>1, <2>4, <2>5, <2>6, ShrinksTimes
<1>12. CASE \E s \in Stages : StepOfStage(s)
      BY <1>0, <1>12, Outcomes, StageTimes DEF StepOfStage
<1> QED BY <1>1, <1>2, <1>3, <1>4, <1>5, <1>6, <1>7, <1>8, <1>9, <1>10, <1>11,
           <1>12
        DEF Next, Coordinate, StepOfStage

-----------------------------------------------------------------------------
(* The pieces the message carries.                                         *)
LEMMA InitWhole == Init => Whole /\ Single
<1> SUFFICES ASSUME Init PROVE Whole /\ Single
    OBVIOUS
<1>1. chan = None /\ Busy = {} /\ phase \in {"start", "transfer"} /\ ~Holding
      BY DEF Init, Busy, Holding, Message
<1>2. ~PastMerge
      BY <1>1 DEF PastMerge, None
<1>3. \A i \in Inputs : content[i] = IF Local THEN {i} ELSE {}
  <2> TAKE i \in Inputs
  <2>1. i \in Files /\ i \notin Sidecars
        BY FileFacts
  <2>2. where[i] = "own" <=> Local
        BY <2>1 DEF Init
  <2> QED BY <2>1, <2>2 DEF Init
<1>4. phase # "transfer" => Local
      BY DEF Init
<1>5. Whole
      BY <1>1, <1>2, <1>3, <1>4 DEF Whole
<1>6. Single
      BY DEF Init, Single, Delivered, DeliveredWhole
<1> QED BY <1>5, <1>6

(* More than one file is two, which is what a merge asks for. *)
LEMMA MergeOrAlone ==
    ASSUME TInv, Holding, ~ShouldRun(Merge)
    PROVE  Alone
<1>1. CASE tracker.current = Inputs
      BY <1>1, FileFacts DEF Inputs, Alone, ShouldRun, Merge, Video, Audio
<1>2. CASE tracker.current # Inputs
      BY <1>2 DEF TInv, Shape, Alone
<1> QED BY <1>1, <1>2

LEMMA StageWhole ==
    ASSUME TInv, Whole, Single, NEW s \in Stages, Outcome(s), Apart, Chain'
    PROVE  Whole' /\ Single'
<1>0. /\ TypeOK /\ Chain /\ phase' = phase /\ result' = result /\ final' = final
      /\ Inputs' = Inputs /\ content \in [Files -> SUBSET Files]
      /\ tracker \in Trackers /\ Inputs \cap Outs = {} /\ Out(s) \in Outs
      /\ chan \in Int
  <2>1. chan \in 0 .. NumStages \cup {None}
        BY DEF TInv, TypeOK
  <2>2. chan \in Int
        BY <2>1 DEF None
  <2>3. Inputs' = Inputs
        BY PlanFixed DEF Apart
  <2> QED BY <2>2, <2>3, FileFacts DEF TInv, TypeOK, Apart, Outs
<1>1. Message => phase \in Chained /\ result = "none"
      BY <1>0 DEF Chain, OneMessage, Chained
<1>2. CASE Unmoved
  <2>1. PastMerge' = PastMerge /\ Holding' = Holding /\ Alone' = Alone
        BY <1>0, <1>2 DEF Unmoved, PastMerge, Holding, Message, Alone
  <2>2. UNCHANGED <<tracker, content, where>>
        BY <1>2 DEF Unmoved
  <2> QED BY <1>0, <2>1, <2>2
          DEF Whole, Single, Carries, Delivered, DeliveredWhole
<1>3. ASSUME Message, Single
      PROVE  Single'
      BY <1>0, <1>1, <1>3 DEF Single, Delivered, DeliveredWhole, Chained
<1>4. ASSUME Message,
             \A i \in Inputs : content'[i] = content[i],
             ~Message' \/ Carries(tracker.current)',
             PastMerge' => Alone'
      PROVE  Whole'
      BY <1>0, <1>1, <1>4 DEF Whole, Holding, Chained, Carries
<1>5. CASE Begin(s)
  <2>1. /\ Message /\ UNCHANGED <<tracker, content>> /\ chan = s - 1 /\ chan' = None
        /\ task' = [task EXCEPT ![s] = "busy"]
        BY <1>5 DEF Begin, Message, Stages, None
  <2>2. Busy = {} /\ task \in [Stages -> Tasks]
        BY <1>0, <2>1 DEF Chain, OneMessage, None, Stages, TypeOK, Tasks
  <2>3. Busy' = {s}
        BY <2>1, <2>2 DEF Busy
  <2>4. PastMerge' => PastMerge
        BY <1>0, <1>1, <2>1, <2>3 DEF PastMerge, None, Merge, Stages, Chained
  <2>5. PastMerge' => Alone'
        BY <2>1, <2>4 DEF Whole, Alone
  <2>6. Carries(tracker.current)'
        BY <1>0, <2>1 DEF Whole, Holding, Carries
  <2> QED BY <1>3, <1>4, <2>1, <2>5, <2>6
<1>6. CASE Issue(s)
  <2>1. /\ Message /\ UNCHANGED <<content, chan, task>>
        /\ tracker'.current = tracker.current
        BY <1>0, <1>6 DEF Issue, Message, Busy, Trackers
  <2>2. PastMerge' = PastMerge
        BY <1>0, <2>1 DEF PastMerge, Busy
  <2>3. PastMerge' => Alone'
        BY <2>1, <2>2 DEF Whole, Alone
  <2>4. Carries(tracker.current)'
        BY <1>0, <2>1 DEF Whole, Holding, Carries
  <2> QED BY <1>3, <1>4, <2>1, <2>3, <2>4
<1>7. ASSUME Message, ~Message', \A i \in Inputs : content'[i] = content[i]
      PROVE  Whole' /\ Single'
  <2>1. ~PastMerge'
        BY <1>0, <1>1, <1>7 DEF PastMerge, Message, None, Chained
  <2> QED BY <1>3, <1>4, <1>7, <2>1
<1>8. CASE Refuse(s) /\ Message /\ ~Message'
      BY <1>7, <1>8 DEF Refuse
<1>9. CASE Skip(s) /\ Passes(s, tracker)
  <2>1. Message /\ UNCHANGED <<tracker, content>> /\ chan = s - 1 /\ ~ShouldRun(s)
        BY <1>9 DEF Passes, Skip
  <2>2. Alone
    <3>1. CASE s = Merge
          BY <2>1, <3>1, MergeOrAlone DEF Holding
    <3>2. CASE s # Merge
          BY <1>0, <2>1, <3>2 DEF Whole, PastMerge, Stages, Merge
    <3> QED BY <3>1, <3>2
  <2>3. Carries(tracker.current)'
        BY <1>0, <2>1 DEF Whole, Holding, Carries
  <2> QED BY <1>3, <1>4, <2>1, <2>2, <2>3 DEF Alone
<1>10. CASE Same(tracker) /\ Drops(tracker)
       BY <1>7, <1>10 DEF Same, Drops
<1>11. ASSUME NEW tr, Gave(s, tr), Passes(s, tr) \/ Drops(tr)
       PROVE  Whole' /\ Single'
  <2>1. Message /\ content' = content /\ s \in Busy /\ s # Merge
        BY <1>11 DEF Gave, Passes, Drops
  <2>2. tr.current = tracker.current
        BY <1>0, <1>11 DEF Gave, Disposed, Trackers
  <2>3. Alone
        BY <2>1 DEF Whole, PastMerge
  <2>4. CASE Passes(s, tr)
    <3>1. Alone' /\ tracker'.current = tracker.current
          BY <2>2, <2>3, <2>4 DEF Passes, Alone
    <3>2. Carries(tracker.current)'
          BY <1>0, <2>1, <3>1 DEF Whole, Holding, Carries
    <3> QED BY <1>3, <1>4, <2>1, <3>1, <3>2
  <2>5. CASE Drops(tr)
        BY <1>7, <2>1, <2>5 DEF Drops
  <2> QED BY <1>11, <2>4, <2>5
<1>12. ASSUME NEW tr, Made(s, tr), Succeed(s), Passes(s, tr) \/ Drops(tr)
       PROVE  Whole' /\ Single'
  <2>1. Message /\ s \in Busy
        BY <1>12 DEF Made, Passes, Drops
  <2>2. tr.current = {Out(s)}
        BY <1>0, <1>12 DEF Made, Replaced, Disposed, Trackers
  <2>3. /\ \A f \in Files \ {Out(s)} : content'[f] = content[f]
        /\ \A f \in (IF s = Merge THEN tracker.current ELSE {First(tracker.current)}) :
              content[f] \subseteq content'[Out(s)]
    <3> DEFINE read == IF s = Merge THEN tracker.current
                                    ELSE {First(tracker.current)}
               thumb == IF s = ThumbnailStage /\ where[Thumb] = "beside"
                        THEN {Thumb} ELSE {}
               new == thumb \cup UNION {content[f] : f \in read}
    <3>1. content' = [content EXCEPT ![Out(s)] = new]
          BY <1>12 DEF Succeed
    <3>2. Out(s) \in Files
          BY FileFacts
    <3>3. \A f \in read : content[f] \subseteq new
          OBVIOUS
    <3> HIDE DEF read, new
    <3>4. content'[Out(s)] = new /\ \A f \in Files \ {Out(s)} : content'[f] = content[f]
          BY <1>0, <3>1, <3>2
    <3>5. \A f \in read : content[f] \subseteq content'[Out(s)]
          BY <3>3, <3>4
    <3> QED BY <3>4, <3>5 DEF read
  <2>4. \A i \in Inputs : i \in content'[Out(s)]
    <3>1. Carries(tracker.current)
          BY <2>1 DEF Whole, Holding
    <3>2. CASE s = Merge
          BY <2>3, <3>1, <3>2 DEF Carries
    <3>3. CASE s # Merge
      <4>1. PICK f \in Files : tracker.current = {f}
            BY <2>1, <3>3 DEF Whole, PastMerge, Alone
      <4>2. First(tracker.current) = f
            BY <4>1, FirstIn
      <4>3. \A i \in Inputs : i \in content[f]
            BY <3>1, <4>1 DEF Carries
      <4>4. content[f] \subseteq content'[Out(s)]
            BY <2>3, <3>3, <4>2
      <4> QED BY <4>3, <4>4
    <3> QED BY <3>2, <3>3
  <2>5. \A i \in Inputs : content'[i] = content[i]
        BY <1>0, <2>3, FileFacts
  <2>6. CASE Passes(s, tr)
    <3>1. tracker'.current = {Out(s)} /\ Out(s) \in Files
          BY <2>2, <2>6, FileFacts DEF Passes
    <3>2. Carries(tracker.current)'
          BY <1>0, <2>4, <3>1 DEF Carries
    <3> QED BY <1>3, <1>4, <2>1, <2>5, <3>1, <3>2 DEF Alone
  <2>7. CASE Drops(tr)
        BY <1>7, <2>1, <2>5, <2>7 DEF Drops
  <2> QED BY <1>12, <2>6, <2>7
<1> QED BY <1>2, <1>5, <1>6, <1>8, <1>9, <1>10, <1>11, <1>12 DEF Outcome

(* Steps that end the run or leave the files the message carries alone.    *)
LEMMA AsideWhole ==
    ASSUME TInv, Whole, Aside, Chain',
           \A i \in Inputs : content'[i] = content[i] \/ i \in content'[i],
           \A f \in Files : f \in Inputs \/ content'[f] = content[f],
           phase' \notin {"transfer", "dead", "done"} =>
              phase # "transfer" \/ \A i \in Inputs : i \in content'[i],
           phase # "transfer" => content' = content,
           phase' # phase => phase \notin {"dead", "done"}
    PROVE  Whole'
<1>0. /\ UNCHANGED <<tracker, chan, plan>> /\ Busy' = Busy /\ Holding' = Holding
      /\ phase' = "cleanup" <=> phase = "cleanup"
      BY AsideFacts DEF TInv
<1>1. Inputs' = Inputs
      BY <1>0, PlanFixed
<1>2. PastMerge' = PastMerge /\ Alone' = Alone
      BY <1>0 DEF PastMerge, Alone
<1>3. Holding => phase # "transfer"
      BY DEF TInv, Chain, OneMessage, Holding, Chained
<1>4. Holding' => Carries(tracker.current)'
      BY <1>0, <1>1, <1>3 DEF Whole, Carries
<1>5. \A i \in Inputs : content'[i] = {} \/ i \in content'[i]
      BY DEF Whole
<1>6. phase' \notin {"transfer", "dead", "done"} => \A i \in Inputs : i \in content'[i]
      BY DEF Whole
<1> QED BY <1>1, <1>2, <1>4, <1>5, <1>6 DEF Whole

LEMMA StepWhole ==
    ASSUME TInv, Sound, Names, Times, Whole, Single, [Next]_vars, Chain'
    PROVE  Whole'
<1>0. TypeOK /\ Chain /\ Shape
      BY DEF TInv
<1>a. content \in [Files -> SUBSET Files]
      BY <1>0 DEF TypeOK
<1>b. phase' \notin Chained => ~Message'
      BY DEF Chain, OneMessage
<1>c. ~Message' => chan' = None /\ Busy' = {}
      BY DEF Message
<1>d. ~Message' /\ phase' # "cleanup" => ~PastMerge'
      BY <1>c DEF PastMerge, None
<1> USE DEF diskVars, chainVars, Return
<1>1. CASE \E f \in Files : Transfer(f)
  <2> PICK f \in Files : Transfer(f)
      BY <1>1
  <2>1. /\ phase = "transfer" /\ f \in Inputs /\ Aside
        /\ \/ content' = content /\ phase' = phase
           \/ content' = [content EXCEPT ![f] = {f}]
        BY DEF Transfer, Missing, Aside
  <2>2. phase' # "transfer" => content' = [content EXCEPT ![f] = {f}] /\ Missing = {f}
        BY <2>1 DEF Transfer
  <2>3. phase' # "transfer" => \A i \in Inputs : i \in content'[i]
    <3> SUFFICES ASSUME phase' # "transfer", NEW i \in Inputs PROVE i \in content'[i]
        OBVIOUS
    <3>1. i # f => content[i] # {}
          BY <2>2 DEF Missing
    <3>2. i \in Files
          BY FileFacts
    <3> QED BY <1>a, <2>2, <3>1, <3>2 DEF Whole
  <2>4. /\ \A i \in Inputs : content'[i] = content[i] \/ i \in content'[i]
        /\ \A g \in Files : g \in Inputs \/ content'[g] = content[g]
        BY <1>a, <2>1, FileFacts
  <2> QED BY <2>1, <2>3, <2>4, AsideWhole
<1>2. CASE Aside /\ ~\E f \in Files : Transfer(f)
  <2>1. /\ content' = content
        /\ phase' = "transfer" \/ phase # "transfer" \/ phase' = "done"
        /\ phase' # phase => phase \notin {"dead", "done"}
        BY <1>2
        DEF Aside, Seam, Age, Sweep, FetchSidecars, Cancelled, Joined, Failed,
           NoError, TransferEnds, Abandon, Cancel, NoOutput, vars
  <2> QED BY <1>2, <2>1, AsideWhole
<1>3. CASE Unprocessed \/ Run
  <2>1. /\ phase = "start" /\ phase' # "cleanup" /\ tracker'.current = Inputs
        /\ UNCHANGED <<plan, content>>
        BY <1>3 DEF Unprocessed, Run, NoTracker
  <2>2. ~PastMerge'
    <3>1. CASE Unprocessed
          BY <1>b, <1>d, <3>1 DEF Unprocessed, Chained
    <3>2. CASE Run
      <4>1. chan' = 0 /\ Busy' = {}
            BY <3>2 DEF Run, Busy
      <4> QED BY <2>1, <4>1 DEF PastMerge
    <3> QED BY <1>3, <3>1, <3>2
  <2>3. \A i \in Inputs : i \in content[i]
        BY <2>1 DEF Whole
  <2> QED BY <2>1, <2>2, <2>3, PlanFixed DEF Whole, Carries
<1>4. CASE Receive
  <2>1. /\ phase = "run" /\ chan = NumStages /\ UNCHANGED <<plan, content, tracker>>
        BY <1>4 DEF Receive
  <2>2. Alone /\ Holding
        BY <2>1, FileFacts DEF Whole, PastMerge, Holding, Message, None
  <2>3. \A i \in Inputs : i \in content[i]
        BY <2>1 DEF Whole
  <2> QED BY <2>1, <2>2, <2>3, PlanFixed DEF Whole, Carries, Alone
<1>5. CASE Cleanup
  <2>1. /\ phase = "cleanup" /\ phase' = "finalize" /\ UNCHANGED <<plan, content>>
        /\ tracker'.current = tracker.current
        BY <1>5 DEF Cleanup, NoTracker
  <2>2. ~PastMerge' /\ Holding
        BY <1>b, <1>d, <2>1 DEF Chained, Holding
  <2>3. \A i \in Inputs : i \in content[i]
        BY <2>1 DEF Whole
  <2> QED BY <2>1, <2>2, <2>3, PlanFixed DEF Whole, Carries
<1>6. CASE Finalize \/ FinalizeFails \/ EndProcess
  <2>1. phase' \in {"done", "dead"} /\ UNCHANGED <<plan, content>>
        BY <1>6 DEF Finalize, FinalizeFails, EndProcess
  <2>2. ~PastMerge' /\ ~Holding'
        BY <1>b, <1>d, <2>1 DEF Chained, Holding
  <2> QED BY <2>1, <2>2, PlanFixed DEF Whole
<1>7. CASE \E s \in Stages : StepOfStage(s)
      BY <1>0, <1>7, Outcomes, StageWhole DEF StepOfStage
<1> QED BY <1>1, <1>2, <1>3, <1>4, <1>5, <1>6, <1>7
        DEF Next, Coordinate, StepOfStage, Aside

(* What the message carries when it is handed over is there, as a          *)
(* temporary or as the user's own file.                                    *)
LEMMA HandedOver ==
    ASSUME TInv, Sound, Names, Times, Whole, MergesProcessed, Single, Finalize
    PROVE  /\ final' \in Files /\ where'[final'] \in {"clean", "own"}
           /\ Inputs \subseteq content[final'] /\ content' = content /\ plan' = plan
<1>1. PICK f \in Files : tracker.current = {f}
      BY DEF Finalize, Single, Alone
<1>2. First(tracker.current) = f
      BY <1>1, FirstIn
<1>3. /\ phase = "finalize" /\ final' = f /\ where[f] # "none"
      /\ content' = content /\ plan' = plan
      /\ where'[f] = IF where[f] = "temp" THEN "clean" ELSE where[f]
      BY <1>2 DEF Finalize
<1>4. f \in Inputs \cup Outs /\ f \notin Sidecars
      BY <1>1, FileFacts DEF Sound, Good
<1>5. phase \notin {"done", "dead"} /\ result = "none"
      BY <1>3 DEF TInv, Chain
<1>6. where[f] \in {"temp", "own"}
      BY <1>3, <1>4, <1>5
      DEF TInv, TypeOK, Places, Names, Times, PartTime, KeptTime,
         Holding
<1>7. \A i \in Inputs : i \in content[f]
      BY <1>1, <1>3 DEF Whole, Holding, Carries
<1> QED BY <1>3, <1>6, <1>7

LEMMA StepSingle ==
    ASSUME TInv, Sound, Names, Times, Whole, Single, [Next]_vars, Chain'
    PROVE  Single'
<1>0. TypeOK /\ Chain /\ Shape /\ (result # "none" <=> phase = "done")
      BY DEF TInv, Chain
<1>a. Message => phase \in Chained
      BY <1>0 DEF Chain, OneMessage
<1> USE DEF diskVars, chainVars, Return
<1> SUFFICES ASSUME MergesProcessed
             PROVE  (phase' = "finalize" => Alone') /\ Delivered'
    BY DEF Single
<1>1. CASE Aside
  <2>1. phase' = "finalize" => Alone'
        BY <1>0, <1>1, AsideFacts DEF Single, Alone
  <2>2. Delivered'
    <3> SUFFICES ASSUME result' = "complete" PROVE Delivered'
        BY DEF Delivered, DeliveredWhole
    <3>1. result = "complete"
          BY <1>0, <1>1 DEF Aside, Transfer, Seam, Age, Sweep, FetchSidecars,
             Cancelled, Failed, NoError, TransferEnds, Abandon, Cancel, NoOutput,
             vars, TypeOK
    <3>2. phase = "done" /\ DeliveredWhole /\ final \in Files
          BY <1>0, <3>1 DEF Single, Delivered
    <3>3. /\ UNCHANGED <<content, final, plan>>
          /\ \A f \in Files : where'[f] = where[f] \/ where[f] = "temp"
          BY <1>0, <1>1, <3>2
          DEF Aside, Transfer, Seam, Age, Sweep, FetchSidecars,
             Cancelled, Joined, Failed, NoError, TransferEnds, Abandon, Cancel,
             NoOutput, vars, TypeOK
    <3>4. where'[final] = where[final]
          BY <3>1, <3>2, <3>3 DEF DeliveredWhole
    <3> QED BY <3>1, <3>2, <3>3, <3>4, PlanFixed DEF Delivered, DeliveredWhole
  <2> QED BY <2>1, <2>2
<1>2. CASE Unprocessed
  <2>1. plan.kind # "merge"
        BY <1>0, <1>2 DEF Unprocessed, MergesProcessed, TypeOK
  <2>2. tracker'.current = {Video} /\ Video \in Files
        BY <1>2, <2>1, FileFacts DEF Unprocessed, NoTracker, Inputs
  <2>3. result' # "complete"
        BY <1>0, <1>2 DEF Unprocessed
  <2> QED BY <2>2, <2>3 DEF Alone, Delivered, DeliveredWhole
<1>3. CASE Run \/ Receive \/ FinalizeFails \/ EndProcess
  <2>1. phase' # "finalize" /\ result' # "complete"
        BY <1>0, <1>3 DEF Run, Receive, FinalizeFails, EndProcess
  <2> QED BY <2>1 DEF Delivered, DeliveredWhole
<1>4. CASE Cleanup
  <2>1. phase = "cleanup" /\ tracker'.current = tracker.current /\ result' # "complete"
        BY <1>0, <1>4 DEF Cleanup, NoTracker
  <2> QED BY <2>1 DEF Whole, PastMerge, Alone, Delivered, DeliveredWhole
<1>5. CASE Finalize
  <2>1. phase' # "finalize"
        BY <1>5 DEF Finalize
  <2> QED BY <1>5, <2>1, HandedOver, PlanFixed DEF Delivered, DeliveredWhole
<1>6. CASE \E s \in Stages : StepOfStage(s)
  <2>1. Single'
        BY <1>0, <1>6, Outcomes, StageWhole DEF StepOfStage
  <2> QED BY <2>1 DEF Single, MergesProcessed
<1> QED BY <1>1, <1>2, <1>3, <1>4, <1>5, <1>6
        DEF Next, Coordinate, StepOfStage, Aside

-----------------------------------------------------------------------------
Inv == TInv /\ Sound /\ Names /\ Times /\ Whole /\ Single

LEMMA InitInv == Init => Inv
<1>1. Init => Sound
  <2> SUFFICES ASSUME Init PROVE Sound
      OBVIOUS
  <2>1. tracker = NoTracker /\ held = {} /\ ~Message /\ phase # "cleanup"
        BY DEF Init, Message, Busy
  <2> QED BY <2>1, NothingGood DEF Init, Sound, NoTracker
<1> QED BY <1>1, InitTyped, InitNames, InitTimes, InitWhole DEF Inv

LEMMA StepFull == Inv /\ [Next]_vars => Inv'
  BY StepInv, StepSound, StepNames, StepTimes, StepWhole, StepSingle
     DEF Inv, TInv

LEMMA FullInvariant == Spec => []Inv
<1>1. Inv /\ UNCHANGED vars => Inv'
      BY StepFull
<1> QED BY InitInv, StepFull, PTL DEF Spec

(* What is reported as complete is under its clean name and holds every    *)
(* stream, when a merge has FFmpeg and a stage to run.                     *)
THEOREM DeliversWhole ==
    ASSUME MergesProcessed
    PROVE  Spec => []DeliveredWhole
<1>1. Inv => DeliveredWhole
      BY DEF Inv, Single, Delivered
<1> QED BY <1>1, FullInvariant, PTL

(* #560, #404: a run that has returned leaves no stage at work, no lock    *)
(* held, no temporary name, and of a merge no partial stream.              *)
THEOREM LeavesClean ==
    ASSUME MergesProcessed
    PROVE  Spec => []ReturnsClean
<1>1. ASSUME Inv PROVE ReturnsClean
  <2> SUFFICES ASSUME phase = "done", result # "abandoned"
               PROVE  /\ \A s \in Stages : task[s] # "busy"
                      /\ held = {}
                      /\ \A f \in Files : where[f] # "temp"
                      /\ plan.kind = "merge" => \A f \in Inputs : where[f] # "part"
      BY DEF ReturnsClean
  <2>1. ~Message /\ ~Holding
        BY <1>1 DEF Inv, TInv, Chain, OneMessage, Chained, Holding
  <2>2. tracker = NoTracker /\ held = {} /\ Known = {}
        BY <1>1, <2>1, NothingGood DEF Inv, Sound, Known, NoTracker
  <2>3. \A s \in Stages : task[s] # "busy"
        BY <2>1 DEF Message, Busy
  <2>4. \A f \in Files : where[f] # "temp"
        BY <1>1, <2>2 DEF Inv, Times, TempTime
  <2>5. plan.kind = "merge" => \A f \in Inputs : where[f] # "part"
        BY <1>1, FileFacts DEF Inv, Times, PartTime
  <2> QED BY <2>2, <2>3, <2>4, <2>5
<1> QED BY <1>1, FullInvariant, PTL

-----------------------------------------------------------------------------
(* What is the user's, preserved or delivered stays.                       *)
Stays(f) == \/ where'[f] = where[f]
            \/ /\ where[f] = "own" /\ final' \in Files
               /\ where'[final'] = "clean"
               /\ f \in content[final']

LEMMA ProtectedFacts ==
    ASSUME Inv, NEW f \in Files, Protected(f)
    PROVE  \/ Local /\ where[f] = "own" /\ f \in Inputs /\ f \notin Outs
           \/ Local /\ where[f] = "beside" /\ f \in Sidecars
           \/ /\ where[f] \in {"kept", "clean"} /\ f \notin Sidecars
              /\ ~Holding /\ phase \notin Early
<1>1. CASE where[f] = "own"
      BY <1>1, FileFacts DEF Inv, Names, Own
<1>2. CASE Local /\ where[f] = "beside" /\ f \in plan.brought
      BY <1>2 DEF Inv, Names
<1>3. CASE where[f] \in {"kept", "clean"}
      BY <1>3, FileFacts DEF Inv, Names, Times, KeptTime, Own
<1> QED BY <1>1, <1>2, <1>3 DEF Protected

(* A tracker deletes nothing protected while there is a message. *)
LEMMA SparesProtected ==
    ASSUME Inv, NEW tr, Good(tr), tr.borrowed = Own, Message,
           NEW f \in Files, Protected(f)
    PROVE  f \notin Deletable(tr)
<1>1. \/ Local /\ f \in Inputs /\ f \notin Outs
      \/ Local /\ f \in Sidecars
      BY ProtectedFacts DEF Holding
<1> QED BY <1>1, FileFacts DEF Good, Deletable, Own

LEMMA StageSpares ==
    ASSUME Inv, NEW s \in Stages, Outcome(s),
           NEW f \in Files, Protected(f)
    PROVE  where'[f] = where[f]
<1>0. TInv /\ Sound /\ tracker \in Trackers /\ Good(tracker)
        /\ (Message => tracker.borrowed = Own)
      BY DEF Inv, TInv, TypeOK, Sound
<1>1. Message => \/ Local /\ where[f] = "own" /\ f \in Inputs /\ f \notin Outs
                 \/ Local /\ where[f] = "beside" /\ f \in Sidecars
      BY ProtectedFacts DEF Holding
<1>2. CASE Unmoved \/ Begin(s) \/ (Skip(s) /\ Passes(s, tracker))
      BY <1>2 DEF Unmoved, Begin, Passes
<1>3. CASE Issue(s)
      BY <1>1, <1>3, FileFacts DEF Issue, Message, Busy, Outs
<1>4. CASE Refuse(s) /\ Message
  <2> DEFINE D == Deletable([tracker EXCEPT !.borrowed = @ \cup tracker.current])
  <2>1. where'[f] = IF f \in tracker.current THEN Kept(f) ELSE Without(D)[f]
        BY <1>4 DEF Refuse
  <2>2. D \subseteq Deletable(tracker)
        BY <1>0 DEF Deletable, Trackers
  <2>3. f \notin D
        BY <1>0, <1>4, <2>2, SparesProtected
  <2> QED BY <1>1, <1>4, <2>1, <2>3 DEF Kept, Without
<1>5. ASSUME NEW tr, Drops(tr), Good(tr), tr.borrowed = Own
      PROVE  where'[f] = where[f]
      BY <1>5, SparesProtected DEF Drops, Drop, Without
<1>6. ASSUME NEW tr, Gave(s, tr) \/ Made(s, tr), Passes(s, tr) \/ Drops(tr)
      PROVE  where'[f] = where[f]
  <2>1. Good(tr) /\ tr.borrowed = Own
        BY <1>0, <1>6, Successor DEF Passes, Drops
  <2> QED BY <1>5, <1>6, <2>1 DEF Passes
<1>7. CASE Same(tracker) /\ Drops(tracker)
      BY <1>0, <1>5, <1>7 DEF Drops
<1> QED BY <1>2, <1>3, <1>4, <1>6, <1>7 DEF Outcome

LEMMA StepSpares ==
    ASSUME Inv, [Next]_vars, NEW f \in Files, Protected(f)
    PROVE  Stays(f)
<1>0. /\ TInv /\ TypeOK /\ Chain /\ Shape /\ Sound /\ Names /\ Times /\ Whole
      /\ where \in [Files -> Places]
      BY DEF Inv, TInv, TypeOK
<1>a. \/ Local /\ where[f] = "own" /\ f \in Inputs /\ f \notin Outs
      \/ Local /\ where[f] = "beside" /\ f \in Sidecars
      \/ /\ where[f] \in {"kept", "clean"} /\ f \notin Sidecars
         /\ ~Holding /\ phase \notin Early
      BY ProtectedFacts
<1>b. phase \notin {"transfer", "seam", "sidecars"}
      BY <1>0, <1>a DEF Names, Early
<1> USE DEF diskVars, chainVars, Return
<1>1. CASE \E g \in Files : Transfer(g) \/ Seam(g)
      BY <1>1, <1>b DEF Transfer, Seam
<1>2. CASE FetchSidecars \/ TransferEnds \/ Abandon
      BY <1>2, <1>b DEF FetchSidecars, TransferEnds, Abandon
<1>3. CASE \E g \in Files : Age(g) \/ Sweep(g)
      BY <1>0, <1>3, <1>a DEF Age, Sweep, Stays
<1>4. CASE Cancelled
  <2>1. where' = Without(fetched \cap {Thumb})
        BY <1>4 DEF Cancelled
  <2>2. f \notin fetched \cap {Thumb}
        BY <1>0, <1>a, FileFacts DEF Names
  <2> QED BY <2>1, <2>2 DEF Without, Stays
<1>5. CASE \/ Unprocessed \/ Run \/ Receive \/ NoOutput \/ Failed \/ NoError
           \/ FinalizeFails \/ Cancel \/ UNCHANGED vars
      BY <1>5 DEF Unprocessed, Run, Receive, NoOutput, Failed, NoError,
         FinalizeFails, Cancel, vars, Stays
<1>6. CASE Cleanup
  <2>1. where' = Without(tracker.temps) /\ Holding /\ Good(tracker)
        BY <1>0, <1>6 DEF Cleanup, Holding, Sound
  <2>2. f \notin tracker.temps
        BY <1>a, <2>1, FileFacts DEF Good, Own
  <2> QED BY <2>1, <2>2 DEF Without, Stays
<1>7. CASE EndProcess
  <2>1. where' = where \/ where' = Without(held)
        BY <1>7 DEF EndProcess
  <2>2. held \subseteq Outs /\ (~Holding => held = {})
        BY <1>0, NothingGood DEF Sound, Good
  <2>3. f \notin held
        BY <1>a, <2>2, FileFacts
  <2> QED BY <2>1, <2>3 DEF Without, Stays
<1>8. CASE Finalize
  <2> DEFINE h == First(tracker.current)
  <2>1. /\ phase = "finalize" /\ Holding /\ final' = h /\ where[h] # "none"
        /\ f \notin Inputs \/ f = h => where'[f] =
              IF f = h /\ where[f] = "temp" THEN "clean" ELSE where[f]
        /\ where'[f] \in {where[f], "none"} \/ (f = h /\ where[f] = "temp")
        /\ h \in Files /\ where[h] = "temp" => where'[h] = "clean"
        BY <1>8 DEF Finalize, Holding
  <2>2. Local /\ f \notin Outs /\ where[f] \in {"own", "beside"}
        BY <1>a, <2>1, FileFacts
  <2>3. CASE f \in Sidecars
        BY <2>1, <2>2, <2>3, FileFacts DEF Stays
  <2>4. CASE f \notin Sidecars /\ h = f
        BY <2>1, <2>2, <2>4 DEF Stays
  <2>5. CASE f \notin Sidecars /\ h # f
    <3>1. f \in Inputs /\ where[f] = "own" /\ Inputs = {Video} /\ f = Video
          BY <1>a, <2>5, <2>2, <2>1 DEF Inputs, Local
    <3>2. PICK g \in Files : tracker.current = {g}
          BY <1>0, <2>1, <3>1, FileFacts DEF Shape
    <3>3. h = g
          BY <3>2, FirstIn
    <3>4. f \in content[h]
          BY <1>0, <2>1, <3>1, <3>2, <3>3 DEF Whole, Carries
    <3>5. h \in Outs /\ h \notin Sidecars
          BY <1>0, <2>5, <3>1, <3>2, <3>3, FileFacts DEF Sound, Good
    <3>6. phase \notin {"done", "dead"} /\ result = "none"
          BY <1>0, <2>1 DEF Chain
    <3>7. where[h] = "temp"
          BY <1>0, <2>1, <3>2, <3>3, <3>5, <3>6, FileFacts
          DEF Names, Places, Times, KeptTime, PartTime
    <3> QED BY <2>1, <3>1, <3>2, <3>3, <3>4, <3>7 DEF Stays
  <2> QED BY <2>3, <2>4, <2>5
<1>9. CASE \E s \in Stages : StepOfStage(s)
  <2>1. \E s \in Stages : Outcome(s)
        BY <1>0, <1>9, Outcomes DEF StepOfStage
  <2> QED BY <2>1, StageSpares DEF Stays
<1> QED BY <1>1, <1>2, <1>3, <1>4, <1>5, <1>6, <1>7, <1>8, <1>9
        DEF Next, Coordinate, StepOfStage

(* #414: the user's file with its sidecars, a preserved file and a         *)
(* delivered one stay where they are; only the user's file gives way, to   *)
(* the result that was made of it.                                         *)
THEOREM PreservedRemains == Spec => PreservedStays
<1>1. ASSUME Inv, [Next]_vars
      PROVE  [\A f \in Files :
                 Protected(f) => \/ where'[f] = where[f]
                                 \/ /\ where[f] = "own" /\ final' \in Files
                                    /\ where'[final'] = "clean"
                                    /\ f \in content[final']]_vars
      BY <1>1, StepSpares DEF Stays
<1> QED BY <1>1, FullInvariant, PTL DEF Spec, PreservedStays

-----------------------------------------------------------------------------
(* A refusal keeps the media, when no file turns old while it is in use.   *)
Safe == \A i \in Inputs : \E f \in Files :
                   where[f] \in {"kept", "own"} /\ i \in content[f]

LEMMA NotRefused ==
    ASSUME TInv, Holding \/ phase \in Early
    PROVE  ~Refused
  BY DEF TInv, Chain, OneMessage, Lost, Refused, Holding, Chained, Early

LEMMA RefusedOnce ==
    ASSUME TInv, NEW s \in Stages, Work(s) \/ Fail(s) \/ Panic(s), Refused'
    PROVE  Refused
<1>1. task \in [Stages -> Tasks] /\ result' = result
      BY
      DEF TInv, TypeOK, Tasks, Work, StageCancelled, NoInput, Skip, Begin, Issue,
         Succeed, Tolerate, Report, Fail, Panic, others
<1>2. CASE Report(s)
      BY <1>1, <1>2 DEF Report, Refused
<1>3. CASE ~Report(s)
  <2>1. /\ err' = err
        /\ \E v \in {"done", "busy", "failed", task[s]} : task' = [task EXCEPT ![s] = v]
        BY <1>1, <1>3
        DEF Work, StageCancelled, NoInput, Skip, Begin, Issue, Succeed,
           Tolerate, Forward, Fail, Panic, others
  <2>2. \A t \in Stages : task'[t] = "refused" => task[t] = "refused"
        BY <1>1, <2>1
  <2> QED BY <1>1, <2>1, <2>2 DEF Refused
<1> QED BY <1>2, <1>3

LEMMA RefuseKeeps ==
    ASSUME Inv, Preserved, NEW s \in Stages, Refuse(s)
    PROVE  Safe'
<1>1. Message /\ phase \in Chained /\ plan' = plan /\ content' = content
      BY DEF Refuse, others, Message, Busy, Inv, TInv, Chain, OneMessage
<1>2. Inputs' = Inputs
      BY <1>1, PlanFixed
<1> SUFFICES ASSUME NEW i \in Inputs
             PROVE  \E f \in Files : where'[f] \in {"kept", "own"} /\ i \in content[f]
    BY <1>1, <1>2 DEF Safe
<1>3. PICK f \in tracker.current : i \in content[f]
      BY <1>1 DEF Inv, Whole, Holding, Carries
<1>4. f \in Files /\ f \notin Sidecars /\ where[f] # "none"
      BY <1>1, FileFacts DEF Inv, Sound, Good, Preserved
<1>5. phase \notin {"done", "dead"} /\ result = "none"
      BY <1>1 DEF Inv, TInv, Chain, Chained
<1>6. where[f] \in {"temp", "own"}
      BY <1>1, <1>4, <1>5 DEF Inv, TInv, TypeOK, Places, Names, Times, PartTime,
         KeptTime, Holding, Chained
<1>7. where'[f] = Kept(f)
      BY <1>3, <1>4 DEF Refuse
<1> QED BY <1>3, <1>4, <1>6, <1>7 DEF Kept

LEMMA StageKeeps ==
    ASSUME Inv, Preserved, NEW s \in Stages, StepOfStage(s), Outcome(s), Apart
    PROVE  Preserved'
<1>0. /\ TInv /\ tracker \in Trackers /\ phase' = phase /\ old' = old
      /\ Inputs' = Inputs /\ where \in [Files -> Places]
      /\ Message => phase \in Chained
      BY PlanFixed DEF Inv, TInv, TypeOK, Apart, Chain, OneMessage
<1>1. CASE Unmoved
  <2>1. ~Refuse(s) => (Refused' => Refused)
        BY <1>0, RefusedOnce DEF StepOfStage
  <2>2. CASE Refuse(s)
    <3>1. s \in Busy /\ Busy' = Busy
          BY <1>1, <2>2 DEF Refuse, Busy, Unmoved
    <3>2. task'[s] = "refused"
          BY <1>0, <2>2 DEF Refuse, TInv, TypeOK
    <3> QED BY <3>1, <3>2 DEF Busy
  <2> QED BY <1>0, <1>1, <2>1, <2>2 DEF Unmoved, Preserved, Message
<1>2. ASSUME Message, ~Refuse(s),
             Message' => \A f \in tracker'.current \cup tracker'.issued :
                            where'[f] # "none"
      PROVE  Preserved'
  <2>1. ~Refused'
        BY <1>0, <1>2, NotRefused, RefusedOnce DEF Holding, StepOfStage
  <2>2. old = {}
        BY <1>0, <1>2 DEF Preserved, Chained
  <2> QED BY <1>0, <1>2, <2>1, <2>2 DEF Preserved, Chained
<1>3. CASE Refuse(s) /\ ~Message'
  <2>1. Message
        BY <1>3 DEF Refuse, Message, Busy
  <2>2. Safe'
        BY <1>3, RefuseKeeps
  <2>3. old = {}
        BY <1>0, <2>1 DEF Preserved, Chained
  <2> QED BY <1>0, <1>3, <2>1, <2>2, <2>3 DEF Preserved, Safe, Chained
<1>4. CASE ~Refuse(s) /\ Begin(s)
  <2>1. Message /\ UNCHANGED <<tracker, where>>
        BY <1>4 DEF Begin, Message, Stages, None
  <2> QED BY <1>2, <1>4, <2>1 DEF Preserved
<1>5. CASE ~Refuse(s) /\ Issue(s)
  <2>1. /\ Message /\ where' = [where EXCEPT ![Out(s)] = "temp"]
        /\ tracker'.current = tracker.current
        /\ tracker'.issued = tracker.issued \cup {Out(s)}
        BY <1>0, <1>5 DEF Issue, Message, Busy, Trackers
  <2>2. \A f \in tracker.current \cup tracker.issued : f \in Files /\ where[f] # "none"
        BY <1>0, <2>1 DEF Preserved, Trackers
  <2>3. Out(s) \in Files
        BY FileFacts
  <2>4. \A f \in tracker'.current \cup tracker'.issued : where'[f] # "none"
        BY <1>0, <2>1, <2>2, <2>3
  <2> QED BY <1>2, <1>5, <2>1, <2>4
<1>6. CASE ~Refuse(s) /\ Passes(s, tracker)
      BY <1>2, <1>6 DEF Passes, Preserved
<1>7. CASE ~Refuse(s) /\ \E tr : Drops(tr)
      BY <1>2, <1>7 DEF Drops
<1>8. CASE ~Refuse(s) /\ \E tr : (Gave(s, tr) \/ Made(s, tr)) /\ Passes(s, tr)
  <2>1. PICK tr : (Gave(s, tr) \/ Made(s, tr)) /\ Passes(s, tr)
        BY <1>8
  <2>2. /\ tr.current = tracker.current
           \/ (tr.current = {Out(s)} /\ Out(s) \in tracker.issued)
        /\ tr.issued = tracker.issued
        BY <1>0, <2>1 DEF Gave, Made, Replaced, Disposed, Trackers
  <2>3. \A f \in tr.current \cup tr.issued : where[f] # "none"
        BY <2>1, <2>2 DEF Passes, Preserved
  <2> QED BY <1>2, <1>8, <2>1, <2>3 DEF Passes
<1>9. CASE Refuse(s)
  <2>1. Busy' = {} /\ ~Message'
    <3>1. s \in Busy /\ task \in [Stages -> Tasks]
          BY <1>0, <1>9 DEF Refuse, Busy, TInv, TypeOK, Tasks
    <3>2. Busy \subseteq {s} /\ chan = None
          BY <1>0, <3>1 DEF TInv, Chain, OneMessage
    <3> QED BY <1>9, <3>1, <3>2 DEF Refuse, Busy, Message
  <2> QED BY <1>3, <1>9, <2>1
<1> QED BY <1>1, <1>4, <1>5, <1>6, <1>7, <1>8, <1>9 DEF Outcome

LEMMA InitPreserved == Init => Preserved
<1> SUFFICES ASSUME Init PROVE Preserved
    OBVIOUS
<1>1. /\ old = {} /\ ~Refused /\ ~Message
      BY DEF Init, Refused, Message, Busy
<1>2. CASE Local
  <2>1. phase = "start" /\ \A i \in Inputs : where[i] = "own"
        BY <1>2, FileFacts DEF Init
  <2> QED BY <1>1, <2>1 DEF Preserved
<1>3. CASE ~Local
  <2>1. phase = "transfer" /\ \A i \in Inputs : content[i] = {}
    <3>1. \A i \in Inputs : where[i] # "own" /\ i \in Files /\ i \notin Sidecars
          BY <1>3, FileFacts DEF Init
    <3> QED BY <1>3, <3>1 DEF Init
  <2> QED BY <1>1, <2>1 DEF Preserved
<1> QED BY <1>2, <1>3

LEMMA StepPreserved ==
    ASSUME Inv, Preserved, ~Slow, [Next]_vars, Inv'
    PROVE  Preserved'
<1>0. /\ TInv /\ Chain
      /\ where \in [Files -> Places] /\ content \in [Files -> SUBSET Files]
      /\ Message => phase \in Chained
      /\ Holding \/ phase \in Early => result = "none"
      BY DEF Inv, TInv, TypeOK, Chain, OneMessage, Holding, Chained, Early
<1>a. Message' => phase' \in Chained
      BY DEF Inv, TInv, Chain, OneMessage
<1>b. phase \notin {"done", "dead"} => old = {}
      BY DEF Preserved
<1>c. UNCHANGED <<err, task>> /\ result' # "refused" => (Refused' => Refused)
      BY DEF Refused
<1>d. Holding \/ phase \in Early => ~Refused
      BY <1>0, NotRefused
<1> USE DEF diskVars, chainVars, Return
<1>1. CASE \E f \in Files : Transfer(f)
  <2> PICK f \in Files : Transfer(f)
      BY <1>1
  <2>1. /\ phase = "transfer" /\ f \in Inputs
        /\ UNCHANGED <<old, err, task, result, plan>>
        /\ phase' \in {"transfer", "seam"}
        /\ \/ /\ where' = [where EXCEPT ![f] = "part"] /\ content' = content
              /\ phase' = phase
           \/ /\ where[f] = "part" /\ where' = where
              /\ content' = [content EXCEPT ![f] = {f}]
              /\ phase' # "transfer" => Missing = {f}
        BY DEF Transfer, Missing
  <2>2. ~Refused' /\ ~Message' /\ Inputs' = Inputs
        BY <1>0, <1>a, <1>c, <1>d, <2>1, PlanFixed DEF Early, Chained
  <2>3. \A i \in Inputs : content'[i] # {} => where'[i] # "none"
    <3> TAKE i \in Inputs
    <3>1. i \in Files /\ (content[i] # {} => where[i] # "none")
          BY <2>1, FileFacts DEF Preserved
    <3> QED BY <1>0, <2>1, <3>1
  <2>4. phase' = "seam" => \A i \in Inputs : where'[i] # "none"
    <3> SUFFICES ASSUME phase' = "seam", NEW i \in Inputs PROVE where'[i] # "none"
        OBVIOUS
    <3>1. i \in Files /\ content'[i] # {}
          BY <1>0, <2>1, FileFacts DEF Missing
    <3> QED BY <2>3, <3>1
  <2> QED BY <1>b, <2>1, <2>2, <2>3, <2>4 DEF Preserved
<1>2. CASE \E f \in Files : Seam(f)
  <2> PICK f \in Files : Seam(f)
      BY <1>2
  <2>1. /\ phase = "seam" /\ UNCHANGED <<old, err, task, result, plan>>
        /\ phase' \in {"seam", "sidecars"} /\ where' = [where EXCEPT ![f] = "temp"]
        BY DEF Seam
  <2>2. ~Refused' /\ ~Message' /\ Inputs' = Inputs
        BY <1>0, <1>a, <1>c, <1>d, <2>1, PlanFixed DEF Early, Chained
  <2>3. \A i \in Inputs : where'[i] # "none"
        BY <1>0, <2>1, FileFacts DEF Preserved
  <2> QED BY <1>b, <2>1, <2>2, <2>3 DEF Preserved
<1>3. CASE FetchSidecars
  <2>1. /\ phase = "sidecars" /\ phase' = "start"
        /\ UNCHANGED <<old, err, task, result, plan>>
        /\ \A f \in Files : where'[f] = where[f] \/ where'[f] = "beside"
        BY <1>3 DEF FetchSidecars
  <2>2. ~Refused' /\ ~Message' /\ Inputs' = Inputs
        BY <1>0, <1>a, <1>c, <1>d, <2>1, PlanFixed DEF Early, Chained
  <2>3. \A i \in Inputs : where'[i] # "none"
        BY <2>1, FileFacts DEF Preserved
  <2> QED BY <1>b, <2>1, <2>2, <2>3 DEF Preserved
<1>4. CASE Unprocessed \/ Run
  <2>1. /\ phase = "start" /\ phase' \in {"finalize", "run"}
        /\ UNCHANGED <<err, result, where, old>>
        /\ tracker'.current = Inputs /\ tracker'.issued = {}
        BY <1>4 DEF Unprocessed, Run, NoTracker
  <2>2. ~Refused'
    <3>1. ~Refused
          BY <1>d, <2>1 DEF Early
    <3>2. task' = task \/ \A s \in Stages : task'[s] = "wait"
          BY <1>4 DEF Unprocessed, Run
    <3> QED BY <2>1, <3>1, <3>2 DEF Refused
  <2> QED BY <1>b, <2>1, <2>2 DEF Preserved
<1>5. CASE TransferEnds \/ Abandon \/ Finalize \/ FinalizeFails \/ Receive \/ Cleanup
  <2>1. /\ UNCHANGED <<old, err, task>> /\ result' # "refused"
        /\ phase' \in {"done", "cleanup", "finalize"}
        /\ Holding \/ phase \in Early
    <3>1. CASE Receive
          BY <1>0, <3>1, FileFacts DEF Receive, Holding, Message, None
    <3>2. CASE Cleanup \/ Finalize \/ FinalizeFails
          BY <1>0, <3>2 DEF Cleanup, Finalize, FinalizeFails, Holding
    <3>3. CASE TransferEnds \/ Abandon
          BY <3>3 DEF TransferEnds, Abandon, Early
    <3> QED BY <1>5, <3>1, <3>2, <3>3
  <2>2. ~Refused' /\ ~Message'
        BY <1>a, <1>c, <1>d, <2>1 DEF Chained
  <2>3. phase' # "done" => old' = {}
        BY <1>b, <1>5, <2>1 DEF TransferEnds, Abandon, Finalize, FinalizeFails,
           Receive, Cleanup
  <2> QED BY <2>1, <2>2, <2>3 DEF Preserved
<1>6. CASE EndProcess
  <2>1. phase' = "dead"
        BY <1>6 DEF EndProcess
  <2> QED BY <1>a, <2>1 DEF Preserved, Chained
<1>7. CASE \E f \in Files : Age(f) \/ Sweep(f)
  <2>1. /\ phase \in {"done", "dead"}
        /\ UNCHANGED <<phase, err, task, result, plan, content>>
        /\ \A f \in Files : where[f] # "temp" => where'[f] = where[f]
        BY <1>0, <1>7, <1>b DEF Age, Sweep
  <2>2. ~Message' /\ Refused' = Refused /\ Inputs' = Inputs
        BY <1>a, <2>1, PlanFixed DEF Chained, Refused
  <2> QED BY <2>1, <2>2 DEF Preserved
<1>8. CASE Cancelled \/ Failed \/ NoError
  <2>1. /\ phase' = "done" /\ UNCHANGED <<err, task, plan, content>>
        /\ result' = "refused" => err = "refused"
        /\ \A f \in Files \ Sidecars : where'[f] = where[f]
        /\ phase \in Chained
        BY <1>8
        DEF Cancelled, Joined, Failed, NoError, Without, Sidecars, Chained
  <2>2. ~Message' /\ Inputs' = Inputs /\ (Refused' => Refused)
        BY <1>a, <2>1, PlanFixed DEF Chained, Refused
  <2>3. \A f \in Files : where[f] \in {"kept", "own"} => where'[f] = where[f]
        BY <2>1, FileFacts DEF Inv, Names
  <2>4. Refused => Safe
        BY <2>1 DEF Preserved, Safe, Chained
  <2>5. Safe => Safe'
        BY <2>1, <2>2, <2>3 DEF Safe
  <2> QED BY <2>1, <2>2, <2>4, <2>5 DEF Preserved, Safe
<1>9. CASE Cancel \/ NoOutput \/ UNCHANGED vars
  <2>1. /\ UNCHANGED <<plan, old, where, content, tracker, chan, task, err, result>>
        /\ phase' = phase \/ (phase = "run" /\ phase' \in {"join", "error"})
        BY <1>9 DEF Cancel, NoOutput, vars
  <2>2. Message' = Message /\ Refused' = Refused /\ Inputs' = Inputs
        BY <2>1, PlanFixed DEF Message, Busy, Refused
  <2> QED BY <2>1, <2>2 DEF Preserved
<1>10. CASE \E s \in Stages : StepOfStage(s)
       BY <1>0, <1>10, Outcomes, StageKeeps DEF StepOfStage, TInv
<1> QED BY <1>1, <1>2, <1>3, <1>4, <1>5, <1>6, <1>7, <1>8, <1>9, <1>10
        DEF Next, Coordinate, StepOfStage

(* #577: a refused request costs none of the downloaded pieces, when no    *)
(* file turns an hour old while the run uses it.                           *)
THEOREM RefusalKeepsMedia ==
    ASSUME ~Slow
    PROVE  Spec => []RefusedMediaSurvives
<1>1. Inv /\ Preserved /\ [Next]_vars => (Inv /\ Preserved)'
      BY StepFull, StepPreserved
<1>2. Inv /\ Preserved => RefusedMediaSurvives
  <2> SUFFICES ASSUME Inv, Preserved, result = "refused" PROVE RefusedMediaSurvives
      BY DEF RefusedMediaSurvives
  <2>1. Refused /\ phase # "dead"
        BY DEF Refused, Inv, TInv, Chain
  <2> QED BY <2>1 DEF Preserved, RefusedMediaSurvives
<1> QED BY <1>1, <1>2, InitInv, InitPreserved, PTL DEF Spec
=============================================================================

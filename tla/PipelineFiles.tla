--------------------------- MODULE PipelineFiles ---------------------------
(***************************************************************************)
(* The files of one job from the transfers (rdlp-api orchestrator/state,   *)
(* merge_download.rs) through the seam and the post-processing run         *)
(* (rdlp-postprocess pipeline/) to the final name (naming.rs, and client   *)
(* process_local_file for a file of the user's).                           *)
(*                                                                         *)
(* A finished download leaves the .rdlp-part namespace for .rdlp-tmp- names (the  *)
(* seam), a chain of one task per stage passes a single message along, the *)
(* FileTracker in the message says what to delete when the message is      *)
(* dropped or the run commits, the TempRegistry locks the temporaries of a *)
(* live process, and other processes sweep temporaries that are old and    *)
(* not locked.  A file is a number and keeps it when it is renamed; its    *)
(* content is the set of downloaded pieces that went into it.              *)
(***************************************************************************)
EXTENDS Integers

CONSTANTS
    NumStages,      \* stages of the chain, the first of which merges
    Fatal,          \* stages whose failure ends the run
    Refusing,       \* fatal stages that may refuse the request as a policy
    SubtitleStage,  \* finds the subtitle beside the media
    ThumbnailStage, \* embeds the thumbnail beside the media
    Plans,          \* what is downloaded and configured, see PlanType
    Slow            \* whether a file may turn an hour old while it is in use

Stages == 1 .. NumStages
Merge  == 1

Thumb == 1
Subs  == 2
Video == 3
Audio == 4
Sidecars == {Thumb, Subs}
Out(s) == 4 + s
Files  == 1 .. 4 + NumStages

PlanType ==
    [kind    : {"single", "merge", "local"},
     ffmpeg  : BOOLEAN,            \* found, and usable
     config  : SUBSET (Stages \ {Merge}),    \* stages configured to run
     write   : SUBSET Sidecars,    \* --write-thumbnail, --write-subtitles
     brought : SUBSET Sidecars]    \* files the user already has there

ASSUME PipelineFilesAssumption ==
    /\ NumStages \in Nat \ {0}
    /\ Merge \in Refusing /\ Refusing \subseteq Fatal /\ Fatal \subseteq Stages
    /\ {SubtitleStage, ThumbnailStage} \subseteq Stages \ Fatal
    /\ SubtitleStage # ThumbnailStage
    /\ Plans \subseteq PlanType
    /\ Slow \in BOOLEAN

VARIABLES
    plan,      \* fixed for a behaviour
    where,     \* under which kind of name each file is, if it is
    content,   \* the pieces that went into each file
    old,       \* files not modified for an hour
    held,      \* TempRegistry: paths whose lock this process holds
    fetched,   \* sidecars this run downloaded
    phase,     \* the orchestrator, and Pipeline::run within it
    result,    \* what the run came to
    final,     \* the file it handed over
    token,     \* whether the cancellation token is cancelled
    chan,      \* the channel the message is in: chan i follows stage i
    task,      \* the task of each stage
    tracker,   \* the FileTracker in the message
    err,       \* the error channel
    panicked   \* whether a stage has panicked

diskVars  == <<where, content, old>>
chainVars == <<chan, task, tracker>>
vars == <<plan, where, content, old, held, fetched, phase, result, final,
          token, chan, task, tracker, err, panicked>>

None == -1
Places == {"none", "part", "temp", "kept", "clean", "own", "beside"}

Inputs == IF plan.kind = "merge" THEN {Video, Audio} ELSE {Video}
Local  == plan.kind = "local"

NoTracker == [current |-> {}, temps |-> {}, issued |-> {}, borrowed |-> {}]
Trackers  == [current : SUBSET Files, temps : SUBSET Files,
              issued : SUBSET Files, borrowed : SUBSET Files]

TypeOK ==
    /\ plan \in Plans
    /\ where \in [Files -> Places] /\ content \in [Files -> SUBSET Files]
    /\ old \subseteq Files /\ held \subseteq Files /\ fetched \subseteq Sidecars
    /\ phase \in {"transfer", "seam", "sidecars", "start", "run", "join",
                  "error", "cleanup", "finalize", "done", "dead"}
    /\ result \in {"none", "complete", "cancelled", "failed", "refused",
                   "no error", "abandoned"}
    /\ final \in Files \cup {None}
    /\ token \in BOOLEAN /\ panicked \in BOOLEAN
    /\ chan \in 0 .. NumStages \cup {None}
    /\ task \in [Stages -> {"none", "wait", "busy", "failed", "refused",
                            "done"}]
    /\ tracker \in Trackers
    /\ err \in {"none", "failed", "refused"}

Init ==
    /\ plan \in Plans
    /\ where = [f \in Files |->
                   IF Local /\ f \in Inputs THEN "own"
                   ELSE IF f \in plan.brought THEN "beside" ELSE "none"]
    /\ content = [f \in Files |->
                     IF f \in Sidecars \/ where[f] = "own" THEN {f} ELSE {}]
    /\ old = {} /\ held = {} /\ fetched = {}
    /\ phase = IF Local THEN "start" ELSE "transfer"
    /\ result = "none" /\ final = None /\ token = FALSE
    /\ chan = None /\ task = [s \in Stages |-> "none"] /\ tracker = NoTracker
    /\ err = "none" /\ panicked = FALSE

(***************************************************************************)
(* The orchestrator, up to the pipeline.                                   *)
(***************************************************************************)
Return(r) == phase' = "done" /\ result' = r

Without(F) == [f \in Files |-> IF f \in F THEN "none" ELSE where[f]]

Missing == {f \in Inputs : content[f] = {}}

(* The streams of a merge are transferred one after the other, video first.*)
Transfer(f) ==
    /\ phase = "transfer"
    /\ f \in Missing /\ \A g \in Missing : f <= g
    /\ \/ /\ where[f] = "none"
          /\ where' = [where EXCEPT ![f] = "part"]
          /\ UNCHANGED <<content, phase>>
       \/ /\ where[f] = "part"
          /\ content' = [content EXCEPT ![f] = {f}]
          /\ phase' = IF Missing = {f} THEN "seam" ELSE "transfer"
          /\ UNCHANGED where
    /\ UNCHANGED <<plan, old, held, fetched, result, final, token, chainVars,
                   err, panicked>>

(* The files a transfer that ended without success leaves nothing of: of a *)
(* merge both, of a single download the partial of a cancel; a failure or  *)
(* an interrupt keeps it for a resume.                                     *)
Discarded == IF plan.kind = "merge" THEN Inputs ELSE {}

TransferEnds ==
    /\ phase = "transfer"
    /\ \/ Return("failed")
       \/ token /\ Return("cancelled")
    /\ \/ where' = Without(Discarded)
       \/ result' = "cancelled" /\ where' = Without(Inputs)
    /\ UNCHANGED <<plan, content, old, held, fetched, final, token, chainVars,
                   err, panicked>>

(* finalize_part and seam_stream: video before audio, not registered.      *)
Seam(f) ==
    /\ phase = "seam"
    /\ f \in Inputs /\ where[f] = "part"
    /\ \A g \in Inputs : g < f => where[g] # "part"
    /\ where' = [where EXCEPT ![f] = "temp"]
    /\ phase' = IF \E g \in Inputs : g > f THEN "seam" ELSE "sidecars"
    /\ UNCHANGED <<plan, content, old, held, fetched, result, final, token,
                   chainVars, err, panicked>>

(* A failed rename, or --strict-subs with a subtitle missing.              *)
Abandon ==
    /\ phase \in {"seam", "sidecars"}
    /\ Return("abandoned")
    /\ UNCHANGED <<plan, diskVars, held, fetched, final, token, chainVars, err,
                   panicked>>

(* The thumbnail replaces a file of its name, a subtitle does not.         *)
Wanted ==
    plan.write \cup {c \in Sidecars :
                        \/ c = Thumb /\ ThumbnailStage \in plan.config
                        \/ c = Subs /\ SubtitleStage \in plan.config}

FetchSidecars ==
    /\ phase = "sidecars"
    /\ \E got \in SUBSET {c \in Wanted : c = Thumb \/ where[c] = "none"} :
          /\ fetched' = got
          /\ where' = [f \in Files |-> IF f \in got THEN "beside" ELSE where[f]]
    /\ phase' = "start"
    /\ UNCHANGED <<plan, content, old, held, result, final, token, chainVars,
                   err, panicked>>

(* No FFmpeg, or nothing configured: the files are returned as they are.   *)
Unprocessed ==
    /\ phase = "start" /\ (~plan.ffmpeg \/ plan.config = {})
    /\ tracker' = [NoTracker EXCEPT !.current = Inputs]
    /\ phase' = "finalize"
    /\ UNCHANGED <<plan, diskVars, held, fetched, result, final, token, chan,
                   task, err, panicked>>

(* Pipeline::run: only a local file is borrowed.                           *)
Run ==
    /\ phase = "start" /\ plan.ffmpeg /\ plan.config # {}
    /\ tracker' = [NoTracker EXCEPT !.current = Inputs,
                                    !.borrowed = IF Local THEN Inputs ELSE {}]
    /\ chan' = 0 /\ task' = [s \in Stages |-> "wait"]
    /\ phase' = "run"
    /\ UNCHANGED <<plan, diskVars, held, fetched, result, final, token, err,
                   panicked>>

(***************************************************************************)
(* The FileTracker.                                                        *)
(***************************************************************************)
First(F) == CHOOSE f \in F : \A g \in F : f <= g

(* Drop of an uncommitted tracker. *)
Deletable(tr) == (tr.issued \cup tr.current \cup tr.temps) \ tr.borrowed

Drop(tr) == /\ where' = Without(Deletable(tr))
            /\ held' = held \ Deletable(tr)
            /\ tracker' = NoTracker

(* Mutant: a superseded file is a temporary, whoever it belongs to. *)
Replaced_Owned(tr, f) == [tr EXCEPT !.current = {f}, !.temps = @ \cup tr.current,
                                    !.borrowed = {}]

(* replace: a borrowed input is only forgotten. *)
Replaced(tr, f) ==
    [tr EXCEPT !.current = {f}, !.temps = @ \cup (tr.current \ tr.borrowed)]

(* A sidecar found beside the media, once used: it is deleted unless it is *)
(* to be written, or the run began with a borrowed file.                   *)
Disposed(tr, c) ==
    IF where[c] = "beside" /\ c \notin plan.write /\ tr.borrowed = {}
    THEN [tr EXCEPT !.temps = @ \cup {c}] ELSE tr

(***************************************************************************)
(* The chain: a message goes to the next stage unless that one has gone.   *)
(***************************************************************************)
ToNext(s, tr) ==
    IF s < NumStages /\ task[s + 1] = "done"
    THEN chan' = None /\ Drop(tr)
    ELSE chan' = s /\ tracker' = tr /\ UNCHANGED <<where, held>>

Forward(s, tr) ==
    /\ task' = [task EXCEPT ![s] = "done"]
    /\ ToNext(s, tr)

others == <<plan, old, fetched, phase, result, final, token, panicked>>

(* The biased select: cancelled, a waiting stage drops its sender and its  *)
(* receiver, with the message that may be in it.                           *)
StageCancelled(s) ==
    /\ task[s] = "wait" /\ token
    /\ task' = [task EXCEPT ![s] = "done"]
    /\ IF chan = s - 1 THEN chan' = None /\ Drop(tracker)
                       ELSE UNCHANGED <<chan, tracker, where, held>>
    /\ UNCHANGED <<others, content, err>>

(* The stage above has gone without a message. *)
NoInput(s) ==
    /\ task[s] = "wait" /\ chan # s - 1
    /\ s > 1 /\ task[s - 1] = "done"
    /\ task' = [task EXCEPT ![s] = "done"]
    /\ UNCHANGED <<others, content, where, held, chan, tracker, err>>

(* Mutant: two files are not enough for a merge. *)
ShouldRun_Three(s) == s # Merge /\ s \in plan.config

ShouldRun(s) ==
    IF s = Merge
    THEN \E f, g \in tracker.current : f # g
    ELSE s \in plan.config

Skip(s) ==
    /\ task[s] = "wait" /\ chan = s - 1 /\ ~token /\ ~ShouldRun(s)
    /\ Forward(s, tracker)
    /\ UNCHANGED <<others, content, err>>

Begin(s) ==
    /\ task[s] = "wait" /\ chan = s - 1 /\ ~token /\ ShouldRun(s)
    /\ task' = [task EXCEPT ![s] = "busy"] /\ chan' = None
    /\ UNCHANGED <<others, content, where, held, tracker, err>>

(* temp_path registers and records the path before anything is written.    *)
Issue(s) ==
    /\ task[s] = "busy" /\ s # SubtitleStage
    /\ Out(s) \notin tracker.issued
    /\ tracker' = [tracker EXCEPT !.issued = @ \cup {Out(s)}]
    /\ held' = held \cup {Out(s)}
    /\ where' = [where EXCEPT ![Out(s)] = "temp"]
    /\ UNCHANGED <<others, content, chan, task, err>>

(* Only the merge reads every current file.  The thumbnail stage may have  *)
(* changed the container for nothing, when there is no thumbnail.          *)
Succeed(s) ==
    /\ task[s] = "busy" /\ Out(s) \in tracker.issued
    /\ LET read  == IF s = Merge THEN tracker.current
                                 ELSE {First(tracker.current)}
           thumb == IF s = ThumbnailStage /\ where[Thumb] = "beside"
                    THEN {Thumb} ELSE {}
           tr    == Replaced(tracker, Out(s))
       IN  /\ \A f \in read : where[f] # "none"
           /\ content' = [content EXCEPT
                             ![Out(s)] = thumb \cup UNION {content[f] : f \in read}]
           /\ Forward(s, IF thumb = {} THEN tr ELSE Disposed(tr, Thumb))
    /\ UNCHANGED <<others, err>>

(* A lenient stage that fails or finds nothing to do marks its temporary   *)
(* and, mostly, the thumbnail it did not embed.  The subtitle stage embeds *)
(* nothing and marks the subtitle if the container could hold one.         *)
Tolerate(s) ==
    /\ task[s] = "busy" /\ s \notin Fatal
    /\ LET tr == [tracker EXCEPT !.temps = @ \cup (tracker.issued \cap {Out(s)})]
       IN  \/ Forward(s, tr)
           \/ s = SubtitleStage /\ Forward(s, Disposed(tr, Subs))
           \/ s = ThumbnailStage /\ Forward(s, Disposed(tr, Thumb))
    /\ UNCHANGED <<others, content, err>>

(* The message is dropped before its error is sent; a cancel that FFmpeg   *)
(* noticed is a failure like any other.                                    *)
Fail(s) ==
    /\ task[s] = "busy" /\ s \in Fatal
    /\ Drop(tracker)
    /\ task' = [task EXCEPT ![s] = "failed"]
    /\ UNCHANGED <<others, content, chan, err>>

(* Mutant: what is preserved keeps its temporary name. *)
Kept_InPlace(f) == where[f]

(* The name a preserved file gets: out of the .rdlp-tmp- namespace.        *)
Kept(f) == IF where[f] = "temp" THEN "kept" ELSE where[f]

(* preserve_current_files, and then the drop of the message.               *)
Refuse(s) ==
    /\ task[s] = "busy" /\ s \in Refusing
    /\ LET tr == [tracker EXCEPT !.borrowed = @ \cup tracker.current]
       IN  /\ where' = [f \in Files |->
                           IF f \in tracker.current THEN Kept(f)
                           ELSE Without(Deletable(tr))[f]]
           /\ held' = held \ (tracker.current \cup Deletable(tr))
    /\ tracker' = NoTracker
    /\ task' = [task EXCEPT ![s] = "refused"]
    /\ UNCHANGED <<others, content, chan, err>>

(* Mutant: the message is gone, and its error with it. *)
Report_Lost(s) ==
    /\ task[s] \in {"failed", "refused"}
    /\ task' = [task EXCEPT ![s] = "done"]
    /\ UNCHANGED <<others, content, where, held, chan, tracker, err>>

(* Mutant: what is reported is the state the stage is left in. *)
Report_After(s) ==
    /\ task[s] \in {"failed", "refused"}
    /\ task' = [task EXCEPT ![s] = "done"]
    /\ err' = task'[s]
    /\ UNCHANGED <<others, content, where, held, chan, tracker>>

Report(s) ==
    /\ task[s] \in {"failed", "refused"}
    /\ err' = task[s]
    /\ task' = [task EXCEPT ![s] = "done"]
    /\ UNCHANGED <<others, content, where, held, chan, tracker>>

(* Unwinding drops the message. *)
Panic(s) ==
    /\ task[s] = "busy" /\ ~panicked
    /\ panicked' = TRUE
    /\ Drop(tracker)
    /\ task' = [task EXCEPT ![s] = "done"]
    /\ UNCHANGED <<plan, old, fetched, phase, result, final, token, content,
                   chan, err>>

(***************************************************************************)
(* Pipeline::run: the end of the chain.                                    *)
(***************************************************************************)
Receive ==
    /\ phase = "run" /\ chan = NumStages
    /\ chan' = None /\ phase' = "cleanup"
    /\ UNCHANGED <<plan, diskVars, held, fetched, result, final, token, task,
                   tracker, err, panicked>>

NoOutput ==
    /\ phase = "run" /\ task[NumStages] = "done" /\ chan # NumStages
    /\ phase' = IF token THEN "join" ELSE "error"
    /\ UNCHANGED <<plan, diskVars, held, fetched, result, final, token,
                   chainVars, err, panicked>>

AllDone == \A s \in Stages : task[s] = "done"

(* Mutant: Cancelled is returned as soon as the chain has closed. *)
Joined_AtOnce == phase = "join"

(* Every stage is joined before Cancelled is returned. *)
Joined == phase = "join" /\ AllDone

(* cleanup_cancelled_artifacts deletes the thumbnail this run downloaded.  *)
Cancelled ==
    /\ Joined
    /\ where' = Without(fetched \cap {Thumb})
    /\ Return("cancelled")
    /\ UNCHANGED <<plan, content, old, held, fetched, final, token, chainVars,
                   err, panicked>>

Failed ==
    /\ phase = "error" /\ err # "none"
    /\ Return(err)
    /\ UNCHANGED <<plan, diskVars, held, fetched, final, token, chainVars, err,
                   panicked>>

(* Mutant: run keeps a sender of the error channel. *)
Closed_Never == FALSE

(* Every sender of the error channel is gone. *)
Closed == AllDone

NoError ==
    /\ phase = "error" /\ err = "none" /\ Closed
    /\ Return("no error")
    /\ UNCHANGED <<plan, diskVars, held, fetched, final, token, chainVars, err,
                   panicked>>

(* FileTracker::cleanup deletes and commits; the survivors are released.   *)
Cleanup ==
    /\ phase = "cleanup"
    /\ where' = Without(tracker.temps)
    /\ held' = held \ (tracker.temps \cup (tracker.current \ tracker.borrowed))
    /\ tracker' = [NoTracker EXCEPT !.current = tracker.current]
    /\ phase' = "finalize"
    /\ UNCHANGED <<plan, content, old, fetched, result, final, token, chan,
                   task, err, panicked>>

(* finalize_survivor: the first file gets the clean name.  That of a local *)
(* file may be the user's own file, which is replaced.                     *)
Finalize ==
    /\ phase = "finalize"
    /\ LET f == First(tracker.current)
       IN  /\ where[f] # "none"
           /\ final' = f
           /\ \E lost \in SUBSET {g \in Inputs \ {f} : where[g] = "own"} :
                 where' = [g \in Files |->
                              IF g = f /\ where[f] = "temp" THEN "clean"
                              ELSE IF g \in lost THEN "none" ELSE where[g]]
    /\ tracker' = NoTracker
    /\ Return("complete")
    /\ UNCHANGED <<plan, content, old, held, fetched, token, chan, task, err,
                   panicked>>

FinalizeFails ==
    /\ phase = "finalize"
    /\ tracker' = NoTracker
    /\ Return("abandoned")
    /\ UNCHANGED <<plan, diskVars, held, fetched, final, token, chan, task,
                   err, panicked>>

(***************************************************************************)
(* The environment.                                                        *)
(***************************************************************************)
Cancel ==
    /\ ~token /\ phase \notin {"done", "dead"}
    /\ token' = TRUE
    /\ UNCHANGED <<plan, diskVars, held, fetched, phase, result, final,
                   chainVars, err, panicked>>

(* The process ends, after cleanup_all or killed: its locks are gone.      *)
EndProcess ==
    /\ phase \notin {"done", "dead"}
    /\ where' \in {where, Without(held)}
    /\ held' = {}
    /\ phase' = "dead"
    /\ chan' = None /\ tracker' = NoTracker
    /\ task' = [s \in Stages |-> "none"]
    /\ UNCHANGED <<plan, content, old, fetched, result, final, token, err,
                   panicked>>

Age(f) ==
    /\ where[f] = "temp" /\ f \notin old
    /\ Slow \/ phase \in {"done", "dead"}
    /\ old' = old \cup {f}
    /\ UNCHANGED <<plan, where, content, held, fetched, phase, result, final,
                   token, chainVars, err, panicked>>

(* cleanup_stale in another process.                                       *)
Sweep(f) ==
    /\ where[f] = "temp" /\ f \in old /\ f \notin held
    /\ where' = [where EXCEPT ![f] = "none"]
    /\ UNCHANGED <<plan, content, old, held, fetched, phase, result, final,
                   token, chainVars, err, panicked>>

Work(s) == \/ StageCancelled(s) \/ NoInput(s) \/ Skip(s) \/ Begin(s)
           \/ Issue(s) \/ Succeed(s) \/ Tolerate(s) \/ Report(s)

Coordinate == \/ (\E f \in Files : Transfer(f) \/ Seam(f))
              \/ FetchSidecars \/ Unprocessed \/ Run
              \/ Receive \/ NoOutput \/ Cancelled \/ Failed \/ NoError
              \/ Cleanup \/ Finalize

Next == \/ Coordinate \/ (\E s \in Stages : Work(s))
        \/ TransferEnds \/ Abandon \/ FinalizeFails
        \/ (\E s \in Stages : Fail(s) \/ Refuse(s) \/ Panic(s))
        \/ Cancel \/ EndProcess
        \/ \E f \in Files : Age(f) \/ Sweep(f)

Spec == Init /\ [][Next]_vars

(* The runtime polls the run and its stages, every FFmpeg call returns,    *)
(* time passes, and rdlp is started again now and then, which sweeps.      *)
FairSpec == /\ Spec
            /\ WF_vars(Coordinate)
            /\ \A s \in Stages : WF_vars(Work(s))
            /\ \A f \in Files : WF_vars(Age(f)) /\ WF_vars(Sweep(f))

-----------------------------------------------------------------------------
(* Single ownership (#560, #404): once the job has returned a file, a      *)
(* cancel or a failure, no stage is at work, nothing is registered, and no *)
(* file of it is left under a temporary name, nor one stream of a merge.   *)
ReturnsClean ==
    phase = "done" /\ result # "abandoned" =>
        /\ \A s \in Stages : task[s] # "busy"
        /\ held = {}
        /\ \A f \in Files : where[f] # "temp"
        /\ plan.kind = "merge" => \A f \in Inputs : where[f] # "part"

(* #632: a failed run names its failure; only a stage that died without    *)
(* returning leaves nothing to report.                                     *)
ErrorSurfaced == result = "no error" => panicked

(* #414: a local file and the sidecars the user has beside it, what a      *)
(* refusal preserved and what was delivered is never deleted, by a stage,  *)
(* a cancel, a failure, the end of the process or a sweep; the user's file *)
(* gives way to its own result.  Sidecars the user has at the output of a  *)
(* download are not protected: the code takes them for the run's own       *)
(* (SidecarOwnership::of), overwrites and deletes them.                    *)
Protected(f) == \/ where[f] \in {"own", "kept", "clean"}
                \/ Local /\ where[f] = "beside" /\ f \in plan.brought

PreservedStays ==
    [][\A f \in Files :
          Protected(f) => \/ where'[f] = where[f]
                          \/ /\ where[f] = "own" /\ final' \in Files
                             /\ where'[final'] = "clean"
                             /\ f \in content[final']]_vars

(* #577: a refused request never costs the download: all its pieces are    *)
(* still on disk, however much time passes and whoever sweeps.             *)
RefusedMediaSurvives ==
    result = "refused" =>
        \A i \in Inputs : \E f \in Files : where[f] # "none" /\ i \in content[f]

(* What is reported as complete is there under its name and holds every    *)
(* stream that was downloaded for it: mod.rs, requires_ffmpeg: "True for a *)
(* merge - two streams nothing else can join".                             *)
DeliveredWhole ==
    result = "complete" => /\ where[final] \in {"clean", "own"}
                           /\ Inputs \subseteq content[final]

(* The run returns or its process ends, and whatever it leaves under a     *)
(* temporary name is swept.                                                *)
Settles == <>[](/\ phase \in {"done", "dead"}
                /\ \A f \in Files : where[f] # "temp")
=============================================================================

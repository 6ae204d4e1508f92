---------------------------- MODULE PlaylistRun ----------------------------
(***************************************************************************)
(* A playlist downloaded by run after run of download_playlist_internal:   *)
(* what an earlier run left on disk decides what the next one downloads.   *)
(* Episodes are futures of one stream, polled by one loop that also        *)
(* watches the cancel token; failed ones are tried again in waves.  On     *)
(* disk there are the finished files, the partials, the covers written     *)
(* beside them, the download archive and the session state.                *)
(***************************************************************************)
EXTENDS Naturals, FiniteSets, Functions

CONSTANTS
    Episodes, Titles,
    Title,          \* [Episodes -> Titles]: the sanitized title of an episode
    Audios,         \* the audio selections a user may make
    Filtered,       \* episodes the match filters reject
    Doubtful,       \* episodes whose video may be taken for a partial later
    BigCovers,      \* episodes whose written cover exceeds the size check
    UseArchive,     \* --download-archive is given
    KeepPartials,   \* a cancel is an interrupt (CLI), not a discard (desktop)
    MaxFaults,      \* bound: failed episodes
    MaxStops,       \* bound: cancels and kills
    MaxMoves,       \* bound: finished files the user takes away between runs
    None

ASSUME PlaylistAssumption ==
    /\ IsFiniteSet(Episodes) /\ Episodes # {}
    /\ Title \in [Episodes -> Titles]
    /\ Filtered \subseteq Episodes /\ Doubtful \subseteq Episodes
    /\ BigCovers \subseteq Episodes
    /\ UseArchive \in BOOLEAN /\ KeepPartials \in BOOLEAN
    /\ MaxFaults \in Nat /\ MaxStops \in Nat /\ MaxMoves \in Nat
    /\ Audios # {}
    /\ None \notin Episodes \cup Audios
    /\ None \notin [ep : Episodes, audio : Audios, whole : BOOLEAN]

VARIABLES
    \* on disk
    file,           \* title -> the video under its clean name, or None
    cover,          \* titles with a cover that passes for a finished file
    part,           \* titles with a partial file
    archive,        \* episodes in the download archive
    state,          \* the selection in the session state file, or None
    \* the running process
    phase, task, recording, found, done, failed, wave, interrupted, audio, token,
    \* what the last run returned, and what happened so far
    result, faults, stops, moves

disk == <<file, cover, part, archive, state>>
run == <<phase, task, recording, found, done, failed, wave, interrupted, audio>>
budget == <<faults, stops, moves>>
vars == <<disk, run, token, result, budget>>

(* A video is whole if it is above the size check of a later run and, with *)
(* strict subtitles, has them beside it.                                   *)
Videos == [ep : Episodes, audio : Audios, whole : BOOLEAN]
Phases == {"idle", "download", "wait", "retry", "end"}
Stages == {"out", "queued", "transfer", "post", "saved"}
MaxRetryWaves == 3
AllOut == [e \in Episodes |-> "out"]

Saved(e) == file[Title[e]] # None /\ file[Title[e]].ep = e

(* Runs with other filters may have left videos of the filtered episodes.  *)
Init ==
    /\ file \in [Titles -> Videos \cup {None}]
    /\ \A t \in Titles : file[t] # None =>
           file[t].ep \in Filtered /\ Title[file[t].ep] = t /\ file[t].whole
    /\ cover = {} /\ part = {} /\ archive = {} /\ state = None
    /\ phase = "idle" /\ task = AllOut /\ recording = None
    /\ found = {} /\ done = {} /\ failed = {}
    /\ wave = 0 /\ interrupted = FALSE /\ audio = None /\ token = FALSE
    /\ result = "none"
    /\ faults = 0 /\ stops = 0 /\ moves = 0

(***************************************************************************)
(* The start of a run.                                                     *)
(***************************************************************************)
(* Mutant: leftovers count as finished. *)
Existing_Partials == {t \in Range(Title) : file[t] # None \/ t \in cover \/ t \in part}

(* detect_existing_playlist_files: any file of the episode's stem that     *)
(* passes the checks, except partials and unfinished remuxes.              *)
Existing == {t \in Range(Title) : (file[t] # None /\ file[t].whole) \/ t \in cover}

Total == Cardinality(Episodes)

AllDownloaded ==
    /\ phase = "idle" /\ Cardinality(Existing) = Total
    /\ found' = Existing /\ done' = {} /\ failed' = {}
    /\ state' \in {None, state} /\ result' = "ok"
    /\ UNCHANGED <<file, cover, part, archive, phase, task, recording, wave,
                   interrupted, audio, token, budget>>

(* The saved selection is restored; without one the user is asked and the  *)
(* answer saved before anything is downloaded.  Saving and deleting the    *)
(* state are best-effort, here and below: either may do nothing.           *)
Select ==
    \/ state # None /\ audio' = state /\ UNCHANGED state
    \/ /\ state = None
       /\ \E a \in Audios : audio' = a /\ state' \in {a, None}

ToDownload == {e \in Episodes \ Filtered : Title[e] \notin Existing /\ e \notin archive}

Begin ==
    /\ phase = "idle" /\ Cardinality(Existing) < Total
    /\ Select
    /\ found' = Existing /\ done' = {} /\ failed' = {}
    /\ task' = [e \in Episodes |-> IF e \in ToDownload THEN "queued" ELSE "out"]
    /\ phase' = "download" /\ wave' = 0 /\ interrupted' = FALSE
    /\ token' = FALSE /\ result' = "none"
    /\ UNCHANGED <<file, cover, part, archive, recording, budget>>

(***************************************************************************)
(* One episode.  Its future moves only while the loop polls the stream.    *)
(***************************************************************************)
Polled == phase \in {"download", "retry"} /\ recording = None
Running == {e \in Episodes : task[e] \in {"transfer", "post", "saved"}}
Concurrency == IF phase = "download" THEN 2 ELSE 4
Go(e, s) == task' = [task EXCEPT ![e] = s]

(* PartLock: another episode of the same title holds the partial's name.   *)
Busy(e) == \E o \in Episodes \ {e} : task[o] = "transfer" /\ Title[o] = Title[e]

Starts(e) ==
    /\ Polled /\ task[e] = "queued" /\ Cardinality(Running) < Concurrency
    /\ \/ ~Busy(e) /\ Go(e, "transfer")
          /\ part' = part \cup {Title[e]} /\ UNCHANGED failed
       \/ Busy(e) /\ Go(e, "out")
          /\ failed' = failed \cup {e} /\ UNCHANGED part
    /\ UNCHANGED <<file, cover, archive, state, phase, recording, found, done,
                   wave, interrupted, audio, token, result, budget>>

(* The partial leaves its name for the pipeline's; the cover is written.   *)
Transferred(e) ==
    /\ Polled /\ task[e] = "transfer" /\ Go(e, "post")
    /\ part' = part \ {Title[e]}
    /\ cover' = IF e \in BigCovers THEN cover \cup {Title[e]} ELSE cover
    /\ UNCHANGED <<file, archive, state, phase, recording, found, done, failed,
                   wave, interrupted, audio, token, result, budget>>

(* finalize_survivor renames on the blocking pool, polled or not; the      *)
(* thumbnail stage may have taken the cover away.                          *)
Finalized(e) ==
    /\ phase \in {"download", "retry"} /\ task[e] = "post" /\ Go(e, "saved")
    /\ \E w \in BOOLEAN :
           /\ w \/ e \in Doubtful
           /\ file' = [file EXCEPT ![Title[e]] = [ep |-> e, audio |-> audio, whole |-> w]]
    /\ cover' \in {cover, cover \ {Title[e]}}
    /\ UNCHANGED <<part, archive, state, phase, recording, found, done, failed,
                   wave, interrupted, audio, token, result, budget>>

(* Mutant: a failed retry is not put back among the failed. *)
Fails_Forgotten(e) ==
    /\ Polled /\ task[e] \in {"transfer", "post"} /\ faults < MaxFaults
    /\ Go(e, "out") /\ faults' = faults + 1
    /\ failed' = IF phase = "retry" THEN failed ELSE failed \cup {e}
    /\ UNCHANGED <<disk, phase, recording, found, done, wave, interrupted,
                   audio, token, result, stops, moves>>

Fails(e) ==
    /\ Polled /\ task[e] \in {"transfer", "post"} /\ faults < MaxFaults
    /\ Go(e, "out") /\ faults' = faults + 1
    /\ failed' = failed \cup {e}
    /\ UNCHANGED <<disk, phase, recording, found, done, wave, interrupted,
                   audio, token, result, stops, moves>>

(* Mutant: an episode without a result is recorded like a saved one. *)
TransferCancelled_Recorded(e) ==
    /\ Polled /\ token /\ task[e] = "transfer" /\ Go(e, "out")
    /\ part' = IF KeepPartials THEN part ELSE part \ {Title[e]}
    /\ recording' = IF UseArchive THEN e ELSE None
    /\ UNCHANGED <<file, cover, archive, state, phase, found, done,
                   failed, wave, interrupted, audio, token, result, budget>>

(* The transfer sees the token: Ok(None), and the partial goes with it     *)
(* unless the cancel is an interrupt.                                      *)
TransferCancelled(e) ==
    /\ Polled /\ token /\ task[e] = "transfer" /\ Go(e, "out")
    /\ part' = IF KeepPartials THEN part ELSE part \ {Title[e]}
    /\ UNCHANGED <<file, cover, archive, state, phase, recording, found, done,
                   failed, wave, interrupted, audio, token, result, budget>>

(* The pipeline sees it: an error, after cleanup_cancelled_artifacts.      *)
PostCancelled(e) ==
    /\ Polled /\ token /\ task[e] = "post" /\ Go(e, "out")
    /\ cover' = cover \ {Title[e]}
    /\ failed' = failed \cup {e}
    /\ UNCHANGED <<file, part, archive, state, phase, recording, found, done,
                   wave, interrupted, audio, token, result, budget>>

(* The loop takes a saved episode and awaits its archive record.           *)
Taken(e) ==
    /\ Polled /\ task[e] = "saved" /\ Go(e, "out")
    /\ done' = done \cup {e}
    /\ recording' = IF UseArchive THEN e ELSE None
    /\ UNCHANGED <<disk, phase, found, failed, wave, interrupted, audio, token,
                   result, budget>>

Record ==
    /\ recording # None
    /\ archive' = archive \cup {recording} /\ recording' = None
    /\ UNCHANGED <<file, cover, part, state, phase, task, found, done, failed,
                   wave, interrupted, audio, token, result, budget>>

(***************************************************************************)
(* The loop, the waves and the end of the run.                             *)
(***************************************************************************)
(* select! takes the token's branch: the stream is dropped with the        *)
(* episodes in it, wherever they are.                                      *)
Interrupted ==
    /\ token /\ (Polled \/ phase = "wait")
    /\ interrupted' = TRUE /\ phase' = "end" /\ task' = AllOut
    /\ UNCHANGED <<disk, recording, found, done, failed, wave, audio, token,
                   result, budget>>

(* Mutant: waves go on while something fails. *)
Drained_Endless ==
    /\ Polled /\ task = AllOut
    /\ phase' = IF failed # {} THEN "wait" ELSE "end"
    /\ UNCHANGED <<disk, task, recording, found, done, failed, wave,
                   interrupted, audio, token, result, budget>>

Drained ==
    /\ Polled /\ task = AllOut
    /\ phase' = IF failed # {} /\ wave < MaxRetryWaves THEN "wait" ELSE "end"
    /\ UNCHANGED <<disk, task, recording, found, done, failed, wave,
                   interrupted, audio, token, result, budget>>

WaveStarts ==
    /\ phase = "wait"
    /\ phase' = "retry" /\ wave' = wave + 1 /\ failed' = {}
    /\ task' = [e \in Episodes |-> IF e \in failed THEN "queued" ELSE "out"]
    /\ UNCHANGED <<disk, recording, found, done, interrupted, audio, token,
                   result, budget>>

Complete == ~interrupted /\ failed = {} /\ Cardinality(found) + Cardinality(done) = Total

Finish ==
    /\ phase = "end" /\ phase' = "idle"
    /\ state' \in {state, IF Complete THEN None ELSE audio}
    /\ result' = IF found = {} /\ done = {} THEN "error" ELSE "ok"
    /\ UNCHANGED <<file, cover, part, archive, task, recording, found, done,
                   failed, wave, interrupted, audio, token, budget>>

(***************************************************************************)
(* The user and the machine.                                               *)
(***************************************************************************)
Cancel ==
    /\ phase # "idle" /\ ~token /\ stops < MaxStops
    /\ token' = TRUE /\ stops' = stops + 1
    /\ UNCHANGED <<disk, run, result, faults, moves>>

Kill ==
    /\ phase # "idle" /\ stops < MaxStops
    /\ stops' = stops + 1
    /\ phase' = "idle" /\ task' = AllOut /\ recording' = None /\ result' = "none"
    /\ found' = {} /\ done' = {} /\ failed' = {} /\ wave' = 0
    /\ interrupted' = FALSE /\ audio' = None /\ token' = FALSE
    /\ UNCHANGED <<disk, faults, moves>>

MoveAway(t) ==
    /\ phase = "idle" /\ file[t] # None /\ moves < MaxMoves
    /\ file' = [file EXCEPT ![t] = None] /\ moves' = moves + 1
    /\ UNCHANGED <<cover, part, archive, state, run, token, result, faults, stops>>

Episode(e) ==
    \/ Starts(e) \/ Transferred(e) \/ Finalized(e) \/ Taken(e)
    \/ Fails(e) \/ TransferCancelled(e) \/ PostCancelled(e)
Loop == Record \/ Interrupted \/ Drained \/ WaveStarts \/ Finish
Next ==
    \/ AllDownloaded \/ Begin
    \/ \E e \in Episodes : Episode(e)
    \/ Loop
    \/ Cancel \/ Kill \/ \E t \in Titles : MoveAway(t)

Spec == Init /\ [][Next]_vars

(* The runtime polls the futures and the loop; whoever asked for the       *)
(* playlist asks again while it is not complete.                           *)
FairSpec ==
    /\ Spec
    /\ WF_vars(Begin) /\ WF_vars(Loop)
    /\ \A e \in Episodes :
           WF_vars(Starts(e) \/ Transferred(e) \/ Finalized(e) \/ Taken(e))

(***************************************************************************)
(* Properties.                                                             *)
(***************************************************************************)
TypeOK ==
    /\ file \in [Titles -> Videos \cup {None}]
    /\ cover \subseteq Titles /\ part \subseteq Titles /\ archive \subseteq Episodes
    /\ state \in Audios \cup {None} /\ audio \in Audios \cup {None}
    /\ phase \in Phases /\ task \in [Episodes -> Stages]
    /\ recording \in Episodes \cup {None}
    /\ found \subseteq Titles /\ done \subseteq Episodes /\ failed \subseteq Episodes
    /\ wave \in 0..MaxRetryWaves
    /\ interrupted \in BOOLEAN /\ token \in BOOLEAN
    /\ result \in {"none", "ok", "error"}
    /\ faults \in 0..MaxFaults /\ stops \in 0..MaxStops /\ moves \in 0..MaxMoves

(* Every episode a run counts as downloaded, found or fetched, has its own *)
(* video under its clean name.                                             *)
CountedIsSaved ==
    phase # "idle" =>
        \A e \in Episodes : Title[e] \in found \/ e \in done => Saved(e)

(* A run that ends on its own accounts for every episode that passes the   *)
(* filters: found on disk, archived, downloaded or failed.                 *)
Accounted ==
    phase = "end" /\ ~token =>
        \A e \in Episodes \ Filtered : Title[e] \in found \/ e \in archive \cup done \cup failed

(* An episode enters the archive only when its video is in place.          *)
ArchiveSound == [][\A e \in archive' \ archive : Saved(e)]_vars

(* The session state outlives every kill and cancel: it is deleted only    *)
(* when each episode's video is in place.                                  *)
StateUntilComplete ==
    [][state # None /\ state' = None => \A e \in Episodes : Saved(e)]_vars

(* While a session state lasts its selection never changes, and the videos *)
(* saved carry it, whichever run saves them.                               *)
OneSelection ==
    [][/\ state # None => state' \in {state, None}
       /\ \A t \in Titles : state # None /\ file'[t] \notin {file[t], None} =>
                               file'[t].audio = state]_vars

(* However runs are cut short, repeating the command leaves every episode  *)
(* that passes the filters on disk or in the archive.                      *)
EventuallyComplete == <>[](\A e \in Episodes \ Filtered : Saved(e) \/ e \in archive)
=============================================================================

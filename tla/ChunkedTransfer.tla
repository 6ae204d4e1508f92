--------------------------- MODULE ChunkedTransfer --------------------------
(***************************************************************************)
(* Parallel HTTP transfers and their recovery: one download splits a       *)
(* resource into chunk files next to the output (rdlp-downloader           *)
(* http/parallel.rs), records finished ones in a manifest                  *)
(* (http/chunk_manifest.rs), merges them, or sweeps them when a chunk      *)
(* fails (http/chunk_ledger.rs); a later run finds the chunk set an        *)
(* interrupted one left, merges its verified prefix and resumes from there *)
(* (rdlp-api orchestrator/resume.rs).                                      *)
(*                                                                         *)
(* A chunk is one unit of the resource, and a file is the sequence of the  *)
(* representations its units came from.  The resumed transfer after a      *)
(* recovery is one step here and HttpResume's subject.                     *)
(***************************************************************************)
EXTENDS Naturals, Sequences, FiniteSets, FiniteSetsExt

CONSTANTS
    Versions,     \* representations the resource may have, strongly named
    Chunks,       \* how many chunks a transfer is split into
    Conns,        \* chunk requests in flight at once
    Adaptive,     \* TRUE: the adaptive scheduler, FALSE: the static one
    ScanWindow,   \* MAX_DOWNLOAD_ID_SCAN
    Scenarios,    \* what may go wrong, see ScenarioType
    MaxId         \* bound: download ids one process hands out

ScenarioType ==
    [stops    : SUBSET {"fresh", "fetch", "sweep", "failed", "merge", "recover",
                        "consume", "resume"},
                     \* phases in which a run may be killed, cancelled or,
                     \* when it merges, fail
     restarts : BOOLEAN, \* whether a run may be made by a new process
     changes  : Nat, \* bound: replacements of the resource by the server
     faults   : Nat] \* bound: failed chunks and merges, stopped runs

ASSUME ChunkedTransferAssumption ==
    /\ Versions # {} /\ {"none", "partial", "nothing"} \cap Versions = {}
    /\ Chunks \in Nat \ {0} /\ Conns \in Nat \ {0}
    /\ Adaptive \in BOOLEAN
    /\ ScanWindow \in Nat /\ MaxId \in Nat
    /\ Scenarios \subseteq ScenarioType

VARIABLES
    pc,         \* what the run is doing, "idle" between runs
    id,         \* download id of the attempt, or of the set being recovered
    nextId,     \* DOWNLOAD_ID_COUNTER of the process
    job,        \* job[c]: how far the attempt has got with chunk c
    chunk,      \* chunk[i][c]: the chunk files on disk, per download id
    manifest,   \* manifest[i]: the chunks the manifest on disk lists
    memory,     \* the chunks the running attempt has recorded
    claim,      \* the chunks a recovery has found and merges
    late,       \* file creations still queued for futures already dropped
    part, buf,  \* the .rdlp-part file and what a merge has yet to flush
    sidecar,    \* the representation .http_state.json names
    serves,     \* the representation the server answers with
    delivered,  \* the file handed over as the finished download
    may,        \* the scenario, fixed for a behaviour
    changes, faults

diskVars == <<chunk, manifest, part, sidecar>>
runVars  == <<id, nextId, job, memory, claim>>
envVars  == <<late, serves, delivered, may, changes, faults>>
vars == <<pc, id, nextId, job, chunk, manifest, memory, claim, late, part,
          buf, sidecar, serves, delivered, may, changes, faults>>

Nothing == "nothing"
Ids     == 0 .. MaxId
Parts   == 0 .. Chunks - 1
NoFiles == [c \in Parts |-> "none"]
Waiting == [c \in Parts |-> "wait"]
Whole(v) == [n \in 1 .. Chunks |-> v]

Init ==
    /\ pc = "idle" /\ id = 0 /\ nextId = 0
    /\ job = Waiting /\ chunk = [i \in Ids |-> NoFiles]
    /\ manifest = [i \in Ids |-> {}] /\ memory = {} /\ claim = {}
    /\ late = {}
    /\ part = <<>> /\ buf = <<>> /\ sidecar = Nothing
    /\ serves \in Versions /\ delivered = <<>>
    /\ may \in Scenarios /\ changes = 0 /\ faults = 0

InFlight == {c \in Parts : job[c] \in {"asked", "open", "written"}}
Failed   == {c \in Parts : job[c] = "failed"}
OnDisk(i) == {c \in Parts : chunk[i][c] # "none"}

(* What a run knew goes with it; the counter is the process's.             *)
Forget == /\ id' = 0 /\ job' = Waiting /\ memory' = {} /\ claim' = {}
          /\ UNCHANGED nextId

Fault == faults < may.faults /\ faults' = faults + 1

(***************************************************************************)
(* Resume detection.                                                       *)
(***************************************************************************)
(* collect_contiguous_chunks: the listed chunks whose files have the       *)
(* recorded length, up to the first one missing or truncated.              *)
Intact(i) ==
    {c \in Parts : \A d \in 0 .. c : d \in manifest[i] /\ chunk[i][d] \in Versions}

(* detect_chunk_files looks at the first ScanWindow ids only.              *)
Found == {i \in Ids : i < ScanWindow /\ Intact(i) # {}}

(* A partial file that is not empty is resumed, chunk sets or not.         *)
BeginResume ==
    /\ pc = "idle" /\ part # <<>>
    /\ pc' = "resume"
    /\ UNCHANGED <<diskVars, runVars, envVars, buf>>

(* Otherwise the verified set with the highest id is merged ...            *)
BeginRecover ==
    /\ pc = "idle" /\ part = <<>> /\ Found # {}
    /\ id' = Max(Found) /\ claim' = Intact(id')
    /\ pc' = "recover"
    /\ UNCHANGED <<diskVars, nextId, job, memory, envVars, buf>>

(* ... or the transfer starts afresh.                                      *)
BeginFresh ==
    /\ pc = "idle" /\ part = <<>> /\ Found = {}
    /\ pc' = "fresh"
    /\ UNCHANGED <<diskVars, runVars, envVars, buf>>

(* Mutant: ids are counted per download, not per process. *)
StartAttempt_PerDownload ==
    /\ pc = "fresh"
    /\ sidecar' = serves
    /\ id' = 0 /\ UNCHANGED nextId
    /\ job' = Waiting /\ memory' = {}
    /\ pc' = "fetch"
    /\ UNCHANGED <<chunk, manifest, part, buf, claim, envVars>>

(* fresh_download probes, records the validator, takes a download id and   *)
(* an empty manifest that reaches the disk with the first finished chunk.  *)
StartAttempt ==
    /\ pc = "fresh" /\ nextId <= MaxId
    /\ sidecar' = serves
    /\ id' = nextId /\ nextId' = nextId + 1
    /\ job' = Waiting /\ memory' = {}
    /\ pc' = "fetch"
    /\ UNCHANGED <<chunk, manifest, part, buf, claim, envVars>>

(***************************************************************************)
(* Fetching chunks.  After the first failure the adaptive scheduler asks   *)
(* for no further chunk and waits for those in flight; the static one      *)
(* drops them.                                                             *)
(***************************************************************************)
Ask(c) ==
    /\ pc = "fetch" /\ Failed = {}
    /\ job[c] = "wait" /\ \A d \in 0 .. c - 1 : job[d] # "wait"
    /\ Cardinality(InFlight) < Conns
    /\ job' = [job EXCEPT ![c] = "asked"]
    /\ UNCHANGED <<diskVars, pc, id, nextId, memory, claim, buf, envVars>>

(* The answer is the representation of the sidecar: its file is created.   *)
Answer(c) ==
    /\ pc = "fetch" /\ job[c] = "asked" /\ serves = sidecar
    /\ chunk' = [chunk EXCEPT ![id][c] = "partial"]
    /\ job' = [job EXCEPT ![c] = "open"]
    /\ UNCHANGED <<manifest, part, sidecar, pc, id, nextId, memory, claim, buf, envVars>>

WriteChunk(c) ==
    /\ pc = "fetch" /\ job[c] = "open"
    /\ chunk' = [chunk EXCEPT ![id][c] = sidecar]
    /\ job' = [job EXCEPT ![c] = "written"]
    /\ UNCHANGED <<manifest, part, sidecar, pc, id, nextId, memory, claim, buf, envVars>>

(* record_and_save writes everything this attempt has recorded.            *)
RecordChunk(c) ==
    /\ pc = "fetch" /\ job[c] = "written"
    /\ memory' = memory \cup {c}
    /\ manifest' = [manifest EXCEPT ![id] = memory']
    /\ job' = [job EXCEPT ![c] = "done"]
    /\ UNCHANGED <<chunk, part, sidecar, pc, id, nextId, claim, buf, envVars>>

(* A broken transfer removes its file before the request is repeated.      *)
RetryChunk(c) ==
    /\ pc = "fetch" /\ job[c] = "open" /\ Fault
    /\ chunk' = [chunk EXCEPT ![id][c] = "none"]
    /\ job' = [job EXCEPT ![c] = "asked"]
    /\ UNCHANGED <<manifest, part, sidecar, pc, id, nextId, memory, claim, buf,
                   late, serves, delivered, may, changes>>

(* Creations of files that a dropped future has handed to the thread pool. *)
Abandoned == IF serves = sidecar
             THEN {<<id, c>> : c \in {d \in Parts : job[d] = "asked"}}
             ELSE {}

(* The retries of a chunk are used up, or it is answered by another        *)
(* representation; its own file is removed.                                *)
FailChunk(c) ==
    /\ pc = "fetch" /\ job[c] \in {"asked", "open"}
    /\ IF job[c] = "asked" /\ serves # sidecar THEN UNCHANGED faults ELSE Fault
    /\ chunk' = [chunk EXCEPT ![id][c] = "none"]
    /\ job' = [job EXCEPT ![c] = "failed"]
    /\ IF Adaptive
       THEN UNCHANGED <<pc, late>>
       ELSE pc' = "sweep" /\ late' = late \cup (Abandoned \ {<<id, c>>})
    /\ UNCHANGED <<manifest, part, sidecar, id, nextId, memory, claim, buf,
                   serves, delivered, may, changes>>

(* Mutant: the first error ends the drain. *)
Drained_AtFirstError ==
    /\ pc = "fetch" /\ Failed # {}
    /\ pc' = "sweep"
    /\ late' = late \cup Abandoned
    /\ UNCHANGED <<diskVars, runVars, buf, serves, delivered, may, changes, faults>>

(* drain_collecting_first_error has waited for every chunk in flight.      *)
Drained ==
    /\ Adaptive /\ pc = "fetch" /\ Failed # {} /\ InFlight = {}
    /\ pc' = "sweep"
    /\ UNCHANGED <<diskVars, runVars, buf, envVars>>

LateCreate(i, c) ==
    /\ pc # "done" /\ <<i, c>> \in late
    /\ late' = late \ {<<i, c>>}
    /\ chunk' = [chunk EXCEPT ![i][c] = "partial"]
    /\ UNCHANGED <<pc, runVars, manifest, part, buf, sidecar, serves, delivered,
                   may, changes, faults>>

(* ChunkLedger::cleanup removes the registered files in order, after which *)
(* the manifest goes and the attempt returns its error.                    *)
SweepChunk(c) ==
    /\ pc = "sweep" /\ c \in OnDisk(id) /\ c = Min(OnDisk(id))
    /\ chunk' = [chunk EXCEPT ![id][c] = "none"]
    /\ UNCHANGED <<manifest, part, sidecar, pc, runVars, buf, envVars>>

DeleteManifest ==
    /\ pc = "sweep" /\ OnDisk(id) = {}
    /\ manifest' = [manifest EXCEPT ![id] = {}]
    /\ pc' = "failed"
    /\ UNCHANGED <<chunk, part, sidecar, runVars, buf, envVars>>

ReportError ==
    /\ pc = "failed" /\ pc' = "idle"
    /\ Forget
    /\ UNCHANGED <<diskVars, buf, envVars>>

(***************************************************************************)
(* Merging: merge_chunks_ordered at the end of an attempt, which removes a *)
(* chunk once it is copied, and merge_chunk_files in a recovery, which     *)
(* removes chunks once the output is flushed.                              *)
(***************************************************************************)
Copied == Len(part) + Len(buf)

BeginMerge ==
    /\ pc = "fetch" /\ \A c \in Parts : job[c] = "done"
    /\ part' = <<>>
    /\ pc' = "merge"
    /\ UNCHANGED <<chunk, manifest, sidecar, runVars, buf, envVars>>

CopyChunk ==
    /\ pc = "merge" /\ Copied < Chunks
    /\ buf' = Append(buf, chunk[id][Copied])
    /\ chunk' = [chunk EXCEPT ![id][Copied] = "none"]
    /\ UNCHANGED <<manifest, part, sidecar, pc, runVars, envVars>>

(* Mutant: a recovered chunk is removed as soon as it is copied. *)
CopyRecovered_Deletes ==
    /\ pc = "recover" /\ Copied \in claim /\ chunk[id][Copied] \in Versions
    /\ buf' = Append(buf, chunk[id][Copied])
    /\ chunk' = [chunk EXCEPT ![id][Copied] = "none"]
    /\ UNCHANGED <<manifest, part, sidecar, pc, runVars, envVars>>

CopyRecovered ==
    /\ pc = "recover" /\ Copied \in claim /\ chunk[id][Copied] \in Versions
    /\ buf' = Append(buf, chunk[id][Copied])
    /\ UNCHANGED <<diskVars, pc, runVars, envVars>>

(* Mutant: flushed bytes stay in the buffer. *)
Flush_KeepsBuffer ==
    /\ pc \in {"merge", "recover"} /\ buf # <<>>
    /\ part' = part \o buf
    /\ UNCHANGED <<chunk, manifest, sidecar, pc, runVars, buf, envVars>>

(* A buffered writer hands its bytes over whenever its buffer is full.     *)
Flush ==
    /\ pc \in {"merge", "recover"} /\ buf # <<>>
    /\ part' = part \o buf /\ buf' = <<>>
    /\ UNCHANGED <<chunk, manifest, sidecar, pc, runVars, envVars>>

EndMerge ==
    /\ pc = "merge" /\ Len(part) = Chunks
    /\ manifest' = [manifest EXCEPT ![id] = {}]
    /\ pc' = "finish"
    /\ UNCHANGED <<chunk, part, sidecar, runVars, buf, envVars>>

EndCopy ==
    /\ pc = "recover" /\ Len(part) = Cardinality(claim)
    /\ pc' = "consume"
    /\ UNCHANGED <<diskVars, runVars, buf, envVars>>

ConsumeChunk(c) ==
    /\ pc = "consume" /\ c \in OnDisk(id) /\ c = Min(OnDisk(id)) /\ c \in claim
    /\ chunk' = [chunk EXCEPT ![id][c] = "none"]
    /\ UNCHANGED <<manifest, part, sidecar, pc, runVars, buf, envVars>>

(* The manifest stays when it lists chunks the merge could not reach.      *)
EndRecover ==
    /\ pc = "consume" /\ claim \cap OnDisk(id) = {}
    /\ manifest' = [manifest EXCEPT ![id] = IF @ = claim THEN {} ELSE @]
    /\ pc' = "resume"
    /\ UNCHANGED <<chunk, part, sidecar, runVars, buf, envVars>>

(* A failed recovery removes the output it was writing and starts afresh.  *)
(* A chunk that changed its size since it was found fails it.              *)
ChunkChanged == Copied \in claim /\ chunk[id][Copied] \notin Versions

RecoverFails ==
    /\ pc = "recover"
    /\ IF ChunkChanged THEN UNCHANGED faults ELSE pc \in may.stops /\ Fault
    /\ part' = <<>> /\ buf' = <<>>
    /\ pc' = "fresh"
    /\ UNCHANGED <<chunk, manifest, sidecar, runVars, late, serves, delivered,
                   may, changes>>

(* A failed merge returns its error at once: the chunks it has not copied  *)
(* and the manifest stay.                                                  *)
MergeFails ==
    /\ pc = "merge" /\ pc \in may.stops /\ Fault
    /\ buf' = <<>>
    /\ pc' = "failed"
    /\ UNCHANGED <<diskVars, runVars, late, serves, delivered, may, changes>>

(***************************************************************************)
(* The resumed transfer.                                                   *)
(***************************************************************************)
Resumed == part \o [n \in 1 .. Chunks - Len(part) |-> sidecar]

(* Mutant: the rest is taken from whatever the server has now. *)
ResumeTail_Unchecked ==
    /\ pc = "resume"
    /\ part' = part \o [n \in 1 .. Chunks - Len(part) |-> serves]
    /\ pc' = "finish"
    /\ UNCHANGED <<chunk, manifest, sidecar, runVars, buf, envVars>>

ResumeTail ==
    /\ pc = "resume" /\ sidecar = serves
    /\ part' = Resumed
    /\ pc' = "finish"
    /\ UNCHANGED <<chunk, manifest, sidecar, runVars, buf, envVars>>

(* A partial file of the size the extraction announced is not asked about. *)
AlreadyComplete ==
    /\ pc = "resume" /\ Len(part) = Chunks
    /\ pc' = "finish"
    /\ UNCHANGED <<diskVars, runVars, buf, envVars>>

ResumeBreaksOff ==
    /\ pc = "resume" /\ sidecar = serves /\ Len(part) < Chunks /\ Fault
    /\ part' = Append(part, sidecar)
    /\ pc' = "idle"
    /\ UNCHANGED <<chunk, manifest, sidecar, runVars, buf, late, serves,
                   delivered, may, changes>>

(* Mutant: a partial that cannot be resumed fails the run. *)
Restart_Fails ==
    /\ pc = "resume" /\ sidecar # serves
    /\ pc' = "idle"
    /\ UNCHANGED <<diskVars, runVars, buf, envVars>>

(* No validator, or another representation: discard and start afresh.      *)
Restart ==
    /\ pc = "resume" /\ sidecar # serves
    /\ part' = <<>> /\ sidecar' = Nothing
    /\ pc' = "fresh"
    /\ UNCHANGED <<chunk, manifest, runVars, buf, envVars>>

Finish ==
    /\ pc = "finish"
    /\ sidecar' = Nothing
    /\ delivered' = part /\ part' = <<>>
    /\ pc' = "done"
    /\ Forget
    /\ UNCHANGED <<chunk, manifest, buf, late, serves, may, changes, faults>>

(* The file is there: a further run is another download.                   *)
Done == pc = "done" /\ UNCHANGED vars

(***************************************************************************)
(* The environment.                                                        *)
(***************************************************************************)
(* A kill, or a cancel that drops the run's future.                        *)
Stop ==
    /\ pc \in may.stops /\ Fault
    /\ late' = IF pc = "fetch" THEN late \cup Abandoned ELSE late
    /\ buf' = <<>>
    /\ pc' = "idle"
    /\ Forget
    /\ UNCHANGED <<diskVars, serves, delivered, may, changes>>

(* The next run is made by another process: its ids start again at zero.   *)
ProcessExits ==
    /\ may.restarts /\ pc = "idle" /\ nextId # 0
    /\ nextId' = 0 /\ late' = {}
    /\ UNCHANGED <<diskVars, pc, id, job, memory, claim, buf, serves, delivered,
                   may, changes, faults>>

ServerChanges(v) ==
    /\ pc # "done" /\ changes < may.changes /\ changes' = changes + 1
    /\ serves # v /\ serves' = v
    /\ UNCHANGED <<diskVars, pc, runVars, buf, late, delivered, may, faults>>

Fetch(c) == Ask(c) \/ Answer(c) \/ WriteChunk(c) \/ RecordChunk(c)

Work == \/ BeginResume \/ BeginRecover \/ BeginFresh \/ StartAttempt
        \/ \E c \in Parts : Fetch(c) \/ SweepChunk(c) \/ ConsumeChunk(c)
        \/ Drained \/ DeleteManifest \/ ReportError
        \/ BeginMerge \/ CopyChunk \/ CopyRecovered \/ Flush
        \/ EndMerge \/ EndCopy \/ EndRecover
        \/ ResumeTail \/ AlreadyComplete \/ Restart \/ Finish

Next == \/ Work
        \/ \E c \in Parts : RetryChunk(c) \/ FailChunk(c)
        \/ \E i \in Ids, c \in Parts : LateCreate(i, c)
        \/ RecoverFails \/ MergeFails \/ ResumeBreaksOff \/ Done
        \/ Stop \/ ProcessExits
        \/ \E v \in Versions : ServerChanges(v)

Spec == Init /\ [][Next]_vars

(* A run is driven to its end and repeated by the user until it succeeds.  *)
(* A chunk answered by another representation fails, and so does a         *)
(* recovery whose chunk has changed.                                       *)
FairSpec == /\ Spec /\ WF_vars(Work)
            /\ \A c \in Parts : WF_vars(serves # sidecar /\ FailChunk(c))
            /\ WF_vars(ChunkChanged /\ RecoverFails)
-----------------------------------------------------------------------------
(* Type invariant; a merge never holds more than the whole transfer.       *)
TypeOK ==
    /\ pc \in {"idle", "fresh", "fetch", "sweep", "failed", "merge", "recover",
               "consume", "resume", "finish", "done"}
    /\ id \in Ids /\ nextId \in 0 .. MaxId + 1
    /\ job \in [Parts -> {"wait", "asked", "open", "written", "done", "failed"}]
    /\ chunk \in [Ids -> [Parts -> Versions \cup {"none", "partial"}]]
    /\ manifest \in [Ids -> SUBSET Parts] /\ memory \subseteq Parts
    /\ may \in Scenarios
    /\ claim \subseteq Parts /\ late \subseteq Ids \X Parts
    /\ sidecar \in Versions \cup {Nothing} /\ serves \in Versions
    /\ changes \in 0 .. may.changes /\ faults \in 0 .. may.faults
    /\ part \in Seq(Versions) /\ buf \in Seq(Versions) /\ Copied <= Chunks
    /\ delivered \in Seq(Versions)

(* HttpResumeState::validator is documented as "the strong validator of    *)
(* the representation whose bytes are on disk"; a resume appends to them   *)
(* on its word.  The code does not keep it where a recovery fails and      *)
(* leaves its chunks (RecoverFails) for a run after another attempt.       *)
SidecarDescribesPart ==
    sidecar # Nothing => \A n \in 1 .. Len(part) : part[n] = sidecar

(* A delivered file is one representation, complete and in order.          *)
DeliveredExact == delivered = <<>> \/ \E v \in Versions : delivered = Whole(v)

(* What recovery takes for one attempt's verified chunks is one attempt's: *)
(* "a manifest left behind by an unrelated attempt is never mistaken for   *)
(* this one's".                                                            *)
RecoversOneAttempt ==
    \A i \in Ids : \A c, d \in Intact(i) : chunk[i][c] = chunk[i][d]

(* An attempt given up because a chunk failed has taken its chunk files    *)
(* and its manifest with it, and no request of it that is still queued     *)
(* will create one again.  An attempt whose merge failed takes nothing     *)
(* with it: see MergeFails.                                                *)
FailedFetchSwept ==
    pc = "failed" /\ Failed # {} =>
        /\ OnDisk(id) = {} /\ manifest[id] = {}
        /\ \A c \in Parts : <<id, c>> \notin late

(* Interrupting a recovery deletes nothing: what is only in its buffer     *)
(* still has its chunk file.                                               *)
RecoveryKeepsChunks ==
    pc = "recover" => \A c \in Len(part) .. Copied - 1 : chunk[id][c] # "none"

(* Whatever was interrupted, repeating the download ends with a file.      *)
EventuallyDelivered == <>(delivered # <<>>)
=============================================================================

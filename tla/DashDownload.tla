---------------------------- MODULE DashDownload ----------------------------
(***************************************************************************)
(* One DASH download and its resumes (rdlp-downloader dash/download.rs and *)
(* dash/state.rs, dispatched by rdlp-api orchestrator/execution.rs).       *)
(*                                                                         *)
(* A fresh run fetches the fragments of the format that was chosen, which  *)
(* is FragmentStream's subject and one step here.  A run that finds a      *)
(* partial file resumes by the manifest's URL instead: it fetches the MPD, *)
(* takes up the parts whose length .dash_state.json recorded, provided the *)
(* manifest and the anchor are still the same, fetches the others, several *)
(* at once, joins the parts of each track and muxes video and audio.       *)
(*                                                                         *)
(* A part is the version of the media it came from and its length.         *)
(***************************************************************************)
EXTENDS Naturals, FiniteSets

CONSTANTS
    Versions,    \* of the media behind the manifest's URL
    Strong,      \* those whose anchor has a strong validator
    WithInit,    \* those whose manifest names init segments
    Manifest,    \* [Versions -> Nat]: what manifest_fingerprint tells apart
    Size,        \* [Versions -> Nat \ {0}]: the length of each part
    Segments,    \* media segments of a track
    Conns,       \* fetches in flight
    Batch,       \* STATE_SAVE_BATCH
    MaxChanges,  \* bound: replacements of the media by the server
    MaxFaults    \* bound: failed requests and muxes, kills and cancels

Nothing == "nothing"

ASSUME DashDownloadAssumption ==
    /\ Versions # {} /\ Nothing \notin Versions
    /\ Strong \subseteq Versions /\ WithInit \subseteq Versions
    /\ Manifest \in [Versions -> Nat] /\ Size \in [Versions -> Nat \ {0}]
    /\ {Segments, Conns, Batch} \subseteq Nat \ {0}
    /\ MaxChanges \in Nat /\ MaxFaults \in Nat

VARIABLES
    part,       \* the .rdlp-part file
    file,       \* file[t][i]: the parts on disk, 0 the init segment
    joined,     \* joined[t]: the parts in the intermediate file of a track
    sidecar,    \* .dash_state.json
    memory,     \* the state the run works with
    pc, track,  \* what the run is doing, and for which track
    mpd,        \* the version whose manifest it fetched
    job, got,   \* how far segment i is, and which version was fetched
    since,      \* segments recorded since the state was saved
    serves,     \* the version the server answers with
    moved,      \* whether it was replaced under a run that reads it
    delivered,  \* the finished download
    changes, faults

diskVars == <<part, file, joined, sidecar>>
runVars  == <<memory, track, mpd, job, got, since>>
envVars  == <<serves, moved, delivered, changes, faults>>
vars == <<part, file, joined, sidecar, memory, pc, track, mpd, job, got, since,
          serves, moved, delivered, changes, faults>>

Tracks == {"video", "audio"}
Segs   == 1 .. Segments
Parts  == 0 .. Segments
Named  == Versions \cup {Nothing}

File(v, n) == [rep |-> v, len |-> n]
NoFile     == File(Nothing, 0)
Whole(v)   == File(v, Size[v])
Files      == [rep : Named, len : Nat]
Lengths    == UNION {0 .. Size[v] : v \in Versions}

NewState(v) == [manifest |-> Manifest[v], anchor |-> Nothing,
                len |-> [t \in Tracks |-> [i \in Parts |-> 0]]]
NoState  == [manifest |-> 0, anchor |-> Nothing, len |-> <<>>]
States   == [manifest : Nat, anchor : Named, len : [Tracks -> [Parts -> Nat]]]

NoParts  == [i \in Parts |-> NoFile]
NoTracks == [t \in Tracks |-> NoParts]

Output(k, tracks) == [kind |-> k, of |-> tracks]
None    == Output("none", NoTracks)
Partial == Output("partial", NoTracks)   \* of the chosen format, or of a mux
Chosen  == Output("chosen", NoTracks)    \* the format that was chosen
Outputs == [kind : {"none", "partial", "chosen", "muxed"},
            of : [Tracks -> [Parts -> Files]]]

TypeOK ==
    /\ part \in Outputs /\ delivered \in Outputs
    /\ file \in [Tracks -> [Parts -> Files]]
    /\ joined \in [Tracks -> [Parts -> Files]]
    /\ sidecar \in States \cup {NoState} /\ memory \in States \cup {NoState}
    /\ pc \in {"idle", "fragments", "mpd", "load", "probe", "init", "save",
               "plan", "segments", "join", "clear", "mux", "finish", "done"}
    /\ track \in Tracks /\ mpd \in Named
    /\ job \in [Segs -> {"wait", "write", "written", "have", "failed"}]
    /\ got \in [Segs -> Named] /\ since \in 0 .. Batch - 1
    /\ Cardinality({i \in Segs : job[i] \in {"write", "written"}}) <= Conns
    /\ serves \in Versions /\ moved \in BOOLEAN
    /\ changes \in 0 .. MaxChanges /\ faults \in 0 .. MaxFaults

Init ==
    /\ part = None /\ sidecar = NoState /\ memory = NoState
    /\ file = NoTracks /\ joined = NoTracks
    /\ pc = "idle" /\ track = "video" /\ mpd = Nothing
    /\ job = [i \in Segs |-> "wait"] /\ got = [i \in Segs |-> Nothing]
    /\ since = 0
    /\ serves \in Versions /\ moved = FALSE /\ delivered = None
    /\ changes = 0 /\ faults = 0

Fault == faults < MaxFaults /\ faults' = faults + 1

(* What a run knew goes with it. *)
Forget ==
    /\ memory' = NoState /\ track' = "video" /\ mpd' = Nothing
    /\ job' = [i \in Segs |-> "wait"] /\ got' = [i \in Segs |-> Nothing]
    /\ since' = 0

(***************************************************************************)
(* The dispatch: only a fresh download gets the format that was chosen.    *)
(***************************************************************************)
Start ==
    /\ pc = "idle"
    /\ pc' = IF part = None THEN "fragments" ELSE "mpd"
    /\ UNCHANGED <<diskVars, runVars, envVars>>

FragmentsFinish ==
    /\ pc = "fragments"
    /\ delivered' = Chosen /\ part' = None
    /\ pc' = "done"
    /\ UNCHANGED <<file, joined, sidecar, runVars, serves, moved, changes, faults>>

(* Failed, killed, or cancelled: an explicit cancel discards the partial.  *)
FragmentsBreakOff ==
    /\ pc = "fragments" /\ Fault
    /\ part' \in {None, Partial}
    /\ pc' = "idle"
    /\ UNCHANGED <<file, joined, sidecar, runVars, serves, moved, delivered,
                   changes>>

(***************************************************************************)
(* run: the manifest, and the state that matches it.                       *)
(***************************************************************************)
FetchManifest ==
    /\ pc = "mpd"
    /\ mpd' = serves
    /\ pc' = "load"
    /\ UNCHANGED <<diskVars, memory, track, job, got, since, envVars>>

(* load_matching compares the fingerprint; URL path and ids never differ.  *)
Matching == sidecar # NoState /\ sidecar.manifest = Manifest[mpd]

Load ==
    /\ pc = "load"
    /\ memory' = IF Matching THEN sidecar ELSE NewState(mpd)
    /\ pc' = IF memory'.anchor # Nothing THEN "probe" ELSE "init"
    /\ UNCHANGED <<diskVars, track, mpd, job, got, since, envVars>>

(* Mutant: a changed anchor fails the run. *)
Probe_Refuses ==
    /\ pc = "probe"
    /\ IF serves = memory.anchor
       THEN pc' = "init" /\ UNCHANGED runVars
       ELSE pc' = "idle" /\ Forget
    /\ UNCHANGED <<diskVars, envVars>>

(* Another anchor: a new state in memory, the parts and the sidecar stay.  *)
Probe ==
    /\ pc = "probe"
    /\ memory' = IF serves = memory.anchor THEN memory ELSE NewState(mpd)
    /\ pc' = "init"
    /\ UNCHANGED <<diskVars, track, mpd, job, got, since, envVars>>

(***************************************************************************)
(* download_representation: the init segment.                              *)
(***************************************************************************)
(* Mutant: any part that was recorded is counted. *)
Intact_Recorded(t, i) == memory.len[t][i] > 0

(* recorded_part_len: the part has exactly the length recorded for it.     *)
Intact(t, i) == memory.len[t][i] > 0 /\ file[t][i].len = memory.len[t][i]

Recorded(t, i, v) == [memory EXCEPT !.len[t][i] = Size[v]]

(* record_anchor keeps an anchor it has. *)
Anchored(state, v) ==
    IF state.anchor = Nothing /\ v \in Strong THEN [state EXCEPT !.anchor = v]
                                              ELSE state

KeepInit ==
    /\ pc = "init" /\ (mpd \notin WithInit \/ Intact(track, 0))
    /\ pc' = "plan"
    /\ UNCHANGED <<diskVars, runVars, envVars>>

FetchInit ==
    /\ pc = "init" /\ mpd \in WithInit /\ ~Intact(track, 0)
    /\ file' = [file EXCEPT ![track][0] = Whole(serves)]
    /\ LET state == Recorded(track, 0, serves)
       IN  memory' = IF track = "video" THEN Anchored(state, serves) ELSE state
    /\ pc' = "save"
    /\ UNCHANGED <<part, joined, sidecar, track, mpd, job, got, since, envVars>>

(* fs::write truncates the file first; a stop finds it anywhere.           *)
InitGrows(n) ==
    /\ pc = "init" /\ mpd \in WithInit /\ ~Intact(track, 0)
    /\ n < Size[serves]
    /\ file' = [file EXCEPT ![track][0] = File(serves, n)]
    /\ UNCHANGED <<part, joined, sidecar, pc, runVars, envVars>>

(* A save that fails is only logged. *)
Save == sidecar' \in {sidecar, memory'}

SaveInit ==
    /\ pc = "save"
    /\ UNCHANGED memory /\ Save
    /\ pc' = "plan"
    /\ UNCHANGED <<part, file, joined, track, mpd, job, got, since, envVars>>

(***************************************************************************)
(* download_representation: the segments.                                  *)
(***************************************************************************)
(* A record that matches no file is forgotten. *)
Kept(t, i) == IF i \in Segs /\ ~Intact(t, i) THEN 0 ELSE memory.len[t][i]

Partition ==
    /\ pc = "plan"
    /\ job' = [i \in Segs |-> IF Intact(track, i) THEN "have" ELSE "wait"]
    /\ memory' = [memory EXCEPT !.len[track] = [i \in Parts |-> Kept(track, i)]]
    /\ since' = 0
    /\ pc' = "segments"
    /\ UNCHANGED <<diskVars, track, mpd, got, envVars>>

InFlight == {i \in Segs : job[i] \in {"write", "written"}}

Fetch(i) ==
    /\ pc = "segments" /\ job[i] = "wait" /\ Cardinality(InFlight) < Conns
    /\ job' = [job EXCEPT ![i] = "write"]
    /\ got' = [got EXCEPT ![i] = serves]
    /\ UNCHANGED <<diskVars, pc, memory, track, mpd, since, envVars>>

Grows(i, n) ==
    /\ pc = "segments" /\ job[i] = "write" /\ n < Size[got[i]]
    /\ file' = [file EXCEPT ![track][i] = File(got[i], n)]
    /\ UNCHANGED <<part, joined, sidecar, pc, runVars, envVars>>

Write(i) ==
    /\ pc = "segments" /\ job[i] = "write"
    /\ file' = [file EXCEPT ![track][i] = Whole(got[i])]
    /\ job' = [job EXCEPT ![i] = "written"]
    /\ UNCHANGED <<part, joined, sidecar, pc, memory, track, mpd, got, since,
                   envVars>>

(* Mutant: the count is not reset. *)
Saving_NotReset == since' = since + 1 /\ Save

(* Every Batch segments the state is saved. *)
Saving == IF since + 1 = Batch THEN since' = 0 /\ Save
                               ELSE since' = since + 1 /\ UNCHANGED sidecar

(* The consumer of the stream records what was written; without an init    *)
(* segment the first video segment is the anchor.                          *)
Record(i) ==
    /\ pc = "segments" /\ job[i] = "written"
    /\ LET state == Recorded(track, i, got[i])
       IN  memory' = IF track = "video" /\ mpd \notin WithInit /\ i = 1
                     THEN Anchored(state, got[i]) ELSE state
    /\ job' = [job EXCEPT ![i] = "have"]
    /\ got' = [got EXCEPT ![i] = Nothing]
    /\ Saving
    /\ UNCHANGED <<part, file, joined, pc, track, mpd, envVars>>

(* The retries of a fetch are used up, or its part cannot be written; the  *)
(* others are drained.                                                     *)
FetchFails(i) ==
    /\ pc = "segments" /\ job[i] \in {"wait", "write"} /\ Fault
    /\ job' = [job EXCEPT ![i] = "failed"]
    /\ UNCHANGED <<diskVars, pc, memory, track, mpd, got, since, serves, moved,
                   delivered, changes>>

Drained == pc = "segments" /\ \A i \in Segs : job[i] \in {"have", "failed"}

SegmentsEnd ==
    /\ Drained /\ \A i \in Segs : job[i] = "have"
    /\ UNCHANGED memory /\ Save
    /\ pc' = "join"
    /\ UNCHANGED <<part, file, joined, track, mpd, job, got, since, envVars>>

SegmentsFail ==
    /\ Drained /\ \E i \in Segs : job[i] = "failed"
    /\ sidecar' \in {sidecar, memory}
    /\ pc' = "idle" /\ Forget
    /\ UNCHANGED <<part, file, joined, envVars>>

(***************************************************************************)
(* The end of a track, and of the run.                                     *)
(***************************************************************************)
(* The parts are joined in order; an init segment is taken along whenever  *)
(* there is one on disk.                                                   *)
Join ==
    /\ pc = "join"
    /\ joined' = [joined EXCEPT ![track] = file[track]]
    /\ pc' = "clear"
    /\ UNCHANGED <<part, file, sidecar, runVars, envVars>>

(* The parts are removed, as far as that works. *)
Clear ==
    /\ pc = "clear"
    /\ file' \in {file, [file EXCEPT ![track] = NoParts]}
    /\ IF track = "video" THEN track' = "audio" /\ pc' = "init"
                          ELSE pc' = "mux" /\ UNCHANGED track
    /\ UNCHANGED <<part, joined, sidecar, memory, mpd, job, got, since, envVars>>

Mux ==
    /\ pc = "mux"
    /\ part' = Output("muxed", joined) /\ joined' = NoTracks
    /\ pc' = "finish"
    /\ UNCHANGED <<file, sidecar, runVars, envVars>>

(* The intermediates stay, and so may a beginning of the output.           *)
MuxFails ==
    /\ pc = "mux" /\ Fault
    /\ part' \in {part, Partial}
    /\ pc' = "idle" /\ Forget
    /\ UNCHANGED <<file, joined, sidecar, serves, moved, delivered, changes>>

Finish ==
    /\ pc = "finish"
    /\ sidecar' \in {sidecar, NoState}
    /\ delivered' = part /\ part' = None
    /\ pc' = "done" /\ Forget
    /\ UNCHANGED <<file, joined, serves, moved, changes, faults>>

Done == pc = "done" /\ UNCHANGED vars

(***************************************************************************)
(* The environment.                                                        *)
(***************************************************************************)
Reading == pc \notin {"idle", "fragments", "done"}

(* A request of the run itself fails, or the joining of the parts. *)
RunFails ==
    /\ pc \in {"mpd", "probe", "init", "join"} /\ Fault
    /\ pc' = "idle" /\ Forget
    /\ UNCHANGED <<diskVars, serves, moved, delivered, changes>>

(* A kill, or a cancel: an explicit one discards the partial and leaves    *)
(* the parts, the intermediate files and the state.                        *)
Stop ==
    /\ Reading /\ Fault
    /\ part' \in {part, None}
    /\ pc' = "idle" /\ Forget
    /\ UNCHANGED <<file, joined, sidecar, serves, moved, delivered, changes>>

ServerChanges(v) ==
    /\ pc # "done" /\ changes < MaxChanges /\ changes' = changes + 1
    /\ v # serves /\ serves' = v
    /\ moved' = (moved \/ Reading)
    /\ UNCHANGED <<diskVars, pc, runVars, delivered, faults>>

Work == \/ Start \/ FragmentsFinish \/ FetchManifest \/ Load \/ Probe
        \/ KeepInit \/ FetchInit \/ SaveInit \/ Partition
        \/ (\E i \in Segs : Fetch(i) \/ Write(i) \/ Record(i))
        \/ SegmentsEnd \/ SegmentsFail \/ Join \/ Clear \/ Mux \/ Finish

Writing == \E n \in Lengths : InitGrows(n) \/ \E i \in Segs : Grows(i, n)

Faulty == FragmentsBreakOff \/ RunFails \/ MuxFails \/ Stop
          \/ \E i \in Segs : FetchFails(i)

Next == Work \/ Writing \/ Faulty \/ Done
        \/ \E v \in Versions : ServerChanges(v)

Spec == Init /\ [][Next]_vars

(* The runtime drives a run to its end, and the user starts the download   *)
(* again after one that broke off.                                         *)
FairSpec == Spec /\ WF_vars(Work)

-----------------------------------------------------------------------------
(* Two versions that a resume tells apart: by their manifests, or by the   *)
(* strong validator of the one that was recorded.                          *)
Recognised ==
    {v \in Versions : \/ v \in Strong
                      \/ \A w \in Versions \ {v} : Manifest[w] # Manifest[v]}

ByManifest == delivered.kind = "muxed"

(* What a resume muxes and hands over is, in both tracks, every part of    *)
(* one version of the media, whole and in its place: whatever was torn,    *)
(* left by an earlier run or replaced on the server between two runs.  A   *)
(* replacement under a run that reads the media is not noticed, since no   *)
(* fetch of a segment is conditional.                                      *)
DeliveredExact ==
    ByManifest /\ ~moved /\ Versions \subseteq Recognised =>
        \E v \in Versions : \A t \in Tracks :
            /\ \A i \in Segs : delivered.of[t][i] = Whole(v)
            /\ delivered.of[t][0] = IF v \in WithInit THEN Whole(v) ELSE NoFile

(* Nothing a run leaves behind keeps the next one from finishing. *)
EventuallyDelivered == <>(delivered # None)

(* dash/mod.rs: pre-resolved fragments "are fetched directly without       *)
(* re-fetching or re-parsing the MPD", so the format that was chosen is    *)
(* the one delivered.                                                      *)
DeliveredChosen == ~ByManifest
=============================================================================

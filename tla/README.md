# rdlp: a TLA+ verification project for the download core

rdlp is a video downloader, a Rust workspace of nineteen crates whose `rdlp-api`
crate drives extraction, download and post-processing for a command line and a
desktop client. These modules model the part of it that has to survive
interruption: which bytes a path holds after crashes, cancels, retries and
replacements on the server, who owns a path, how a job ends, and what a
playlist remembers from one run to the next.

Paths below are relative to the repository; `api/` stands for
`crates/rdlp-api/src/`, `downloader/` for `crates/rdlp-downloader/src/`,
`postprocess/` for `crates/rdlp-postprocess/src/` and `desktop/` for
`crates/rdlp-desktop/src-tauri/src/`. `PROJECT.json` maps every definition to
the lines it models.

## 1. Inventory

### How the parts interact

```
 command line / desktop                      api/client            api/orchestrator
 ----------------------                      ----------            ----------------
 download() ------------------------------>  task per download --> download_inner
   |  DownloadHandle: events, token             retries 403            |-- playlist loop
   |                                            with a fresh           |-- claim the path
   +-- event loop <== bounded mpsc (256) ====   extraction             |-- plan the resume
         job status, cancel function                                   |-- CDN fallback chain
                                                                       |     `-- downloader (HTTP,
                                                                       |          chunks, HLS, DASH)
                                                                       |-- post-processing pipeline
                                                                       `-- rename to the final name
```

All of a process's tasks share the claim registry, the download-id counter and
the file system; two processes share the file system and the advisory locks on
it. A cancel is a token that every await races against; a kill can come at any
step, and what it leaves on disk is what the next run starts from.

### Components

| component | state | operations | what is hard | correct when |
|---|---|---|---|---|
| HTTP resume protocol (`downloader/http/{trait_impl,state,mod}.rs`, `api/orchestrator/{download,resume}.rs`) | the `.rdlp-part` file, the `.http_state.json` sidecar | fresh and resumed transfer, restart, rewrite, set aside, fallback to another URL, verification of the length | a stop between any two writes, a resource replaced between requests, a fallback that starts where another broke off | a delivered file is one representation; the sidecar names the one whose bytes are on disk; repeating the command delivers |
| Parallel transfer and recovery (`downloader/http/{parallel,chunk_manifest}.rs`, `api/orchestrator/resume.rs`) | chunk files, the manifest, the download-id counter | chunk requests, sweep, merge, detection and recovery by a later run | files created after they were swept, merges broken off, ids that restart with the process | recovery splices the chunks of one attempt; nothing fetched is lost or left behind |
| Adaptive concurrency controller (`downloader/adaptive.rs`) | window of samples, phase, level, semaphore | record a chunk, adjust the level | reports racing adjustments | the level stays in bounds and converges |
| HLS and DASH fragment downloads (`downloader/{fragments,fragments/state,revalidate,atomic}.rs`, `downloader/dash/`) | output, state sidecar with fingerprint, anchor and CRC; for an MPD a part file per segment and the lengths recorded for them | concurrent fetch and ordered write of fragments, resume after the last whole one, probe of the anchor, fallback playlists; segments fetched into parts, joined and muxed | a sidecar ahead of or behind the file, a write still owed when it is counted, holes after a power loss, one list for two encodes, torn and foreign parts | the output is the fragments in order, of one version where it can be told; an outage costs nothing confirmed; repeating the command delivers |
| Output path claim (`postprocess/pipeline/registry.rs`, `api/orchestrator/part_lock.rs`) | process-wide registry, `.rdlp-lock` sidecars and their locks | claim, release, stale sweep, sweep at exit | two processes, unlinking by name, a killed holder | one owner of a path; a claim is refused only while another has it |
| Post-processing pipeline (`postprocess/pipeline/`, `api/orchestrator/{postprocess,naming}.rs`) | the message with its file tracker, channels between the stages, the error channel, registry and locks of temporaries | stages in sequence, cancel that joins the running stage, refusal that preserves the media, clean-up, stale sweep, rename to the final name | deleting what the user owns, a stage still running after a cancel, an error lost with its message, media left under a name others sweep | inputs are deleted only when owned and superseded; a returned run leaves no temporary; an error is named; what is complete is whole |
| Download task, events and desktop queue (`api/client/`, `api/handle.rs`, `desktop/commands/download.rs`, `desktop/state/download_queue.rs`) | bounded channel, job status, cancel function | start, events, re-extraction, cancel, remove, clear | a full channel, a job whose task is done before it is marked running, ends without an event | a job settles once, as what its download came to |
| Playlists, session state and archive (`api/orchestrator/playlist/`, `archive.rs`, `session_state.rs`) | output folder, archive file, session state, the run's lists of done and failed | resume detection, loop, retry waves, record, finalize | a stop between a rename, a count and a record; leftovers taken for videos | what is counted is on disk; the state outlives every incomplete run; repeating the command completes |
| Video and audio merge downloads (`api/orchestrator/merge_download.rs`) | two partial files | two transfers, one merge | one of two failing, a merge nobody runs | what is reported complete holds both |
| Subtitles, thumbnails, sidecar files (`api/orchestrator/{thumbnail,cleanup}.rs`, `subtitle/`) | files beside the output | fetch, write, find and dispose in a stage, clean up on cancel | files the user already has | what the user brought stays |
| Retry and rate limiting (`downloader/retry.rs`, `crates/rdlp-ratelimit`) | attempt counters, token bucket | back off, delay | - | bounded retries |
| HTTP client, cookies, TLS; extractors; JavaScript bridge; plugin engine; FFmpeg bindings; security and redaction; types and configuration; command line; desktop settings; build tools | mostly none, or a library's | parsing, conversion, calls of libraries | - | - |

The last row is listed part by part in `PROJECT.json`, each with the reason it
is not modelled: they are stateless text processing, wrappers of libraries, or
user interface, and enter the models as the answers they can give.

### Hazards

`PROJECT.json` lists the hazards at their lines, with the properties that would
catch them. The recurring shapes are:

- a decision taken from a state of the disk that another step, run or process
  has since changed (the resume offset, the chunk lengths, the reported size);
- two writes that belong together with a stop between them (validator and
  bytes, chunk and manifest, rename and archive record, close and unlink);
- identities that are reused (download ids, file names made from titles);
- bounded resources (event channel, id scan, retry waves);
- ends that nobody announces (a task that returns nothing, a dropped stream).

## 2. Modules

| module | models | builds on |
|---|---|---|
| `ExactTransfer` | abstractly, what an output path promises: its partial file is always the prefix of one representation, and what is handed over is one of them | - |
| `HttpResume` | the resume protocol of a plain-HTTP download | `ExactTransfer`, which it implements |
| `MCHttpResume` | lengths of the representations and what is offered, for TLC | `HttpResume` |
| `HttpResume_proofs` | TLAPS proofs | `HttpResume` |
| `ChunkedTransfer` | the parallel transfer: chunk files, manifest, sweep, merge, recovery by a later run or process | - |
| `MCChunkedTransfer` | scenarios of what may be broken off, for TLC | `ChunkedTransfer` |
| `ChunkedTransfer_proofs` | TLAPS proofs | `ChunkedTransfer` |
| `FragmentStream` | an HLS download from a list of fragments: concurrent fetches, ordered writes, the sidecar, resume, fallbacks, power loss | - |
| `MCFragmentStream` | fragment sizes and list fingerprints, for TLC | `FragmentStream` |
| `FragmentStream_proofs` | TLAPS proofs | `FragmentStream` |
| `DashDownload` | a DASH download over its manifest: segment parts, the state with its fingerprint and anchor, join, mux, resume | - |
| `MCDashDownload` | manifests and sizes of three versions, for TLC | `DashDownload` |
| `DashDownload_proofs` | TLAPS proofs | `DashDownload` |
| `PipelineFiles` | the files of a job from the transfer through the post-processing chain to the final name | - |
| `MCPipelineFiles` | what may be configured, for TLC | `PipelineFiles` |
| `PipelineFiles_proofs` | TLAPS proofs | `PipelineFiles` |
| `PartClaim` | the claim on an output path: registries of several processes over one sidecar name | - |
| `MCPartClaim` | a desktop and a second process, for TLC | `PartClaim` |
| `PartClaim_proofs` | TLAPS proofs | `PartClaim` |
| `JobLifecycle` | abstractly, what a job of the queue promises: it settles once, as what its download came to | - |
| `DownloadJob` | the client's task, its bounded channel, the desktop's event loop, the queue entry | `JobLifecycle`, which it implements |
| `MCDownloadJob` | small instances, for TLC | `DownloadJob` |
| `DownloadJob_proofs` | TLAPS proofs | `DownloadJob` |
| `PlaylistRun` | a playlist over many runs: folder, archive, session state, loop, retry waves | - |
| `MCPlaylistRun` | distinct titles, for TLC | `PlaylistRun` |
| `PlaylistRun_proofs` | TLAPS proofs | `PlaylistRun` |

The modules meet where one abstracts what another details. `HttpResume` reduces
a parallel transfer to what it does to the partial file, and `ChunkedTransfer`
reduces a resume to its outcome; both assume the exclusive use of the path that
`PartClaim` is about. `DownloadJob` reduces a transfer to its end, and
`PlaylistRun` reduces an episode to its stages and takes the claim's refusal as
one of the ways an episode fails. `PipelineFiles` takes up a file where the
transfer modules hand it over and reduces each transfer to its end.

### HttpResume

State: `part` (which representation the bytes of `.rdlp-part` are a prefix of,
or `Mixed`, and how many there are), `sidecar` (the validator in
`.http_state.json`), `serves` (what each URL answers with), `offer` (how many
URLs there are and which sizes the extractor reports), and the run's
locals: `pc`, `url`, `offset` (`resume_from`), `body`. Bytes are abstracted to
"the next byte of representation v or not" by `Glue`, which is the whole of
what splicing means.

| code | actions |
|---|---|
| `plan_resume`, `resolve_resume` | `AlreadyComplete`, `BeginResume`, `SetAside`, `BeginFresh` |
| `fresh_download`, parallel and single | `Probe`, `FetchChunk`, `MergeChunks`, `GetWhole`, `Record`, `Create` |
| `resume_download` and the range verdict | `NoSidecar`, `Partial`, `Replaced`, `Mismatched`, `Unsatisfiable`, `ProbeConfirmsPartial`, `DiscardPartial`, `DropSidecar` |
| the body loop and `verify_output_size` | `Write`, `Verify`, `VerifyFails`, `ChunkRefused` |
| hand-over | `Finish`, `FinalizePart` |
| `download_with_cdn_fallback` | `NextUrl`, inside every failure |
| failures and the environment | `AttemptFails`, `Stop`, `CancelDiscard`, `ServerChanges` |

### ChunkedTransfer

State: per download id the chunk files and the manifest; the attempt's `id`,
`job` per chunk, in-memory ledger, the `late` file creations that the blocking
pool still owes; `part` and the merge's write buffer `buf`. The adaptive
scheduler drains its futures before it sweeps, the static one drops them
(`Adaptive`). `Intact` is `detect_chunk_files`: consecutive chunks from 0 that
the manifest vouches for. The two merges are a step per chunk, since they
differ in what they delete when (`CopyChunk` at once, `ConsumeChunk` after the
flush).

### FragmentStream

State: on disk `file` (every byte as the version it came from and its offset in
the complete stream, or a hole), `queue` (the last write, which tokio's file
still owes to the kernel), `state` (the sidecar) and `older` (the documents it
replaced, which a power loss may bring back); `serves` per URL; in the run `pc`,
`url`, `mem` (its `HlsResumeState` and running checksum) and `ahead` (what the
`buffered` stream has fetched but not yielded).

| code | actions |
|---|---|
| resume setup, anchor revalidation | `Load`, `Confirmed`, `Changed` |
| open, truncate, re-hash, seek or start over | `OpenResumed`, `Verify`, `OpenFresh` |
| the stream and its loop | `Fetch`, `Take`, `Save`, `SidecarFails` |
| end and hand-over | `Finish`, `RemoveState`, `FinalizePart` |
| `download_with_cdn_fallback`, `execute_download` | `NextUrl` and `Land` inside `AttemptFails`; `Cancel`, `CancelDiscard` |
| the environment | `Kill`, `PowerLoss`, `ServerChanges` |

A checksum is the bytes it was computed over, so it has no collisions. The
versions of a resource have fragments of equal sizes: a mix of them then shows
in no length, which is the hard case. An init segment counts as the start of
the fragment that needs it and comes from the same version. The list is read
when the run starts or a fallback is expanded, in one step with the resume
setup; retries and their budget are inside `Fetch` and `AttemptFails`. Writes
that the blocking pool still has when a run is dropped land before the next run
opens the file. `PowerLoss` keeps any length and any subset of the bytes and
any document the sidecar ever was, for a file that has not been handed over.

### DashDownload

State: `file` (per track and segment the part on disk, as the version it came
from and how much of it there is; part 0 is the init segment), `sidecar`
(`.dash_state.json`: fingerprint of the manifest, validator of the anchor, the
length recorded for each part), `memory` (the state the run works with),
`joined` (the intermediate file of a track), `part` (`.rdlp-part`); in the run
`pc`, `track`, `mpd` (the version whose manifest it has), `job` per segment.

| code | actions |
|---|---|
| dispatch on `resume_from` | `Start`; `FragmentsFinish`, `FragmentsBreakOff` for the chosen format's own fragments |
| manifest, state, probe of the anchor | `FetchManifest`, `Load`, `Probe` |
| init segment | `KeepInit`, `FetchInit`, `InitGrows`, `SaveInit` |
| partition, stream of fetches, consumer | `Partition`, `Fetch`, `Grows`, `Write`, `Record`, `FetchFails` |
| final save, join, removal of the parts | `SegmentsEnd`, `SegmentsFail`, `Join`, `Clear` |
| mux, hand-over | `Mux`, `MuxFails`, `Finish` |
| the environment | `RunFails`, `Stop`, `ServerChanges` |

A part is written in place, so a stop leaves any beginning of it (`Grows`); it
is recorded by the consumer of the stream, and the state is saved every `Batch`
records, at the end of the init segment and of a track. The parts of a version
have one length, and so have those of the versions TLC compares: then no length
tells them apart and only fingerprint and anchor can.

### PipelineFiles

State: `where` (under which kind of name each file is: `part`, `temp` for
`.rdlp-tmp-` names, `kept`, `clean`, the user's `own`, or `beside` the media),
`content` (the downloaded pieces that went into it), `held` (the registry's
locks), `tracker` (the `FileTracker` of the one message there is), `chan` (the
channel the message is in, if no stage has it), `task` per stage, `err` (the
error channel), and the run's `phase` and `result`.

| code | actions |
|---|---|
| transfers, `cleanup_merge_file`, the seam | `Transfer`, `TransferEnds`, `Seam`, `Abandon` |
| thumbnail and subtitles | `FetchSidecars` |
| `run_postprocessing`, `Pipeline::run` | `Unprocessed`, `Run`, `Receive`, `NoOutput`, `Cancelled`, `Failed`, `NoError` |
| a stage's task in `spawn_chain` | `StageCancelled`, `NoInput`, `Skip`, `Begin`, `Report`, `Panic` |
| `Stage::process` | `Issue` (`temp_path`), `Succeed`, `Tolerate`, `Fail`, `Refuse` |
| `FileTracker` | `Replaced`, `Disposed`, `Drop`, `Kept`, `Cleanup` |
| hand-over | `Finalize`, `FinalizeFails` |
| the environment | `Cancel`, `EndProcess`, `Age`, `Sweep` |

A stage is its effect on the files: the merge reads every current file, any
other stage the first; fatal ones end the run, refusing ones may preserve the
media first, lenient ones pass the message on. The subtitle stage finds the
subtitle and warns that it was not muxed in; it never issues a file.

### PartClaim

State: the sidecar file currently behind the name, the files that are locked,
each process's registry entry, each download's place in `try_claim` and
`release`. Opening, locking, inserting, closing and unlinking are steps of
their own, because each is a system call another process can slip between. A
process may be killed at any step, which drops its locks and leaves its files.

### DownloadJob

State: the task's `phase`, the channel, the token, the desktop's loop, the
entry's `status` and its cancel function. Terminal events are sent where the
code sends them: `Send` waits for room, `Emit` is the orchestrator's
`try_send` and drops the event when there is none.

### PlaylistRun

State: on disk, per output name the video in place, the covers large enough to
pass for one, the partials, the archive, the session state with its selection
(the audio variant); in the run, the stage of every episode, what was found,
counted, failed and is being recorded. `task` is the `buffered`/
`buffer_unordered` stream, `recording` the loop between taking a result and
writing the archive, during which nothing polls the episodes. The retry waves
are the first pass with other limits.

`Filtered` episodes fail the match filters and are never downloaded, though runs
with other filters may have left their videos. A video is `whole` if resume
detection takes it for one: it is larger than 1 MB and, with strict subtitles,
has them; only `Doubtful` episodes may end with one that is not. Writing and
deleting the session state is best-effort in the code and may do nothing here.

## 3. Runs

Every bound is a CONSTANT of the configuration that uses it. Two
representations are enough for a splice, three bytes for a beginning, an
interrupted middle and an end; two chunks for an order and three for a gap;
two processes for a race on a name; two episodes for a collision and three for
one to be saved, one to fail and one to be under way.

| run | instance | shows |
|---|---|---|
| `http_resume` | two strongly validated versions of different lengths, parallel transfers, 2 replacements, 3 faults; a download over one URL with an honest reported size, or over two URLs with reported sizes of none, 2 and 3 | over one URL, crashes, cancels and replacements never splice (`SidecarDescribesPart`, `DeliveredExact`) and the protocol implements `ExactTransfer` (`ExactSpec`); over two as well, neither the displaced file a stale offset leaves, nor a foreign sidecar, nor a partial set aside beside its sidecar wedges the download (`EventuallyDelivered`) |
| `chunks_transfer` | three chunks, two at a time, two representations, three scenarios: stops anywhere with new processes; a replacement and stops while fetching, sweeping or resuming; a replacement and stops by several processes outside the merges | recovery splices one attempt (`RecoversOneAttempt`) and keeps its chunks (`RecoveryKeepsChunks`), a fetch given up over a failed chunk is swept (`FailedFetchSwept`), `DeliveredExact`, repeating delivers |
| `fragments_resume` | two fragments of one and two bytes, fetched two at a time, two URLs, two versions behind one list of which one has a strong validator, 2 replacements, 2 faults, 1 loss | the delivered file is the list in order without a hole (`DeliveredWhole`), of one version where the sidecar can tell (`DeliveredExact`); failures cost no confirmed fragment (`ConfirmedIsKept`); repeating delivers |
| `dash_resume` | two tracks of two segments and an init segment, two fetches at a time, saves every two, three versions of which two share a manifest, 1 replacement, 2 faults | what a resume muxes is every part of one version, whole and in its place (`DeliveredExact`); repeating delivers |
| `pipeline_files` | a merge, two fatal (one refusing), a subtitle and a thumbnail stage; single, merged and local files, every configuration, sidecars the user brought, one panic | `ReturnsClean`, `ErrorSurfaced`, `PreservedStays`, `RefusedMediaSurvives`, `DeliveredWhole`; every temporary is swept in the end (`Settles`) |
| `claim_processes` | a desktop with two downloads and a second process, kills and sweeps at exit | until its sweep a process has one owner of the path and a live claim keeps its lock; a claim is refused only while another download has the path |
| `jobs_narrow` | a channel of one event, 2 re-extractions, a skip, a panic | the job follows `JobLifecycle`; completions and failures are shown (`OutcomeShown`); a cancel ends the task |
| `playlist_resume` | four episodes of distinct titles, one rejected by the filters, one whose video a later run may take for a partial; archive, state writes that may fail, 4 failures, 2 kills or cancels, 1 file moved away | counts and archive stay true, the waves are bounded, no episode that passes the filters drops out of the account, repeating the command completes |

What the bounded counters bound is the environment: replacements
(`MaxChanges`), faults, kills and cancels (`MaxFaults`, `MaxStops`), losses (`MaxLosses`), files the
user moves (`MaxMoves`), panics, skips and informational events. The claims
about interruption need two or three of them, one to leave something behind and
another while it is being repaired. `MaxFiles` and `MaxId` bound names that the
code never runs out of; nothing is claimed at the bound.

### Disagreements with what the repository says

Each of these runs checks one property that a comment of the repository states
and that the code does not keep; the trace is the shortest way to it, and
`PROJECT.json` quotes the line.

| run | what happens |
|---|---|
| `claim_unlinked_name` | release closes, then unlinks by name: two processes own the path |
| `pipeline_unmerged` | a merge with no stage configured skips the pipeline, its merge stage included: the video alone is delivered as complete |
| `chunks_failed_recovery` | a failed recovery leaves its chunk set, the resource is replaced, the fresh attempt names the new representation and breaks off: the next recovery merges the old chunks beside the new sidecar, and the resume after it appends the new tail |
| `dash_other_format` | a broken-off download of chosen DASH fragments is resumed through the manifest, which delivers its own best formats |

The passing runs exclude further situations, by constants that can be set to
show them; they are limits of what the runs and the proofs say:

- `HttpResume`: the safety properties speak of downloads that are `Direct`, over
  one URL with reported sizes that are not below the real one. Over two URLs a
  fallback records its validator beside the bytes the primary left
  (`SidecarDescribesPart`), and every fallback gets the offset computed for the
  primary although that has appended since, so that displaced bytes may be
  delivered (`DeliveredExact`); with a reported size equal to an interrupted
  partial's length, the partial is taken for complete (`DeliveredExact`). With
  `Parallel` and a weak validator, chunks of two representations are merged.
- `ChunkedTransfer`: with a replaced resource, stops and failures in the merges
  leave a chunk set that is merged beside a newer attempt's sidecar; the run
  `chunks_failed_recovery` shows it for a failed recovery, and no passing run
  checks `SidecarDescribesPart`. Stops in a sweep by several processes, or a
  second replacement, leave a manifest that vouches for an attempt of the same
  id (`RecoversOneAttempt`). A merge that fails at the end of a transfer
  (`MergeFails`: the `?` at `http/parallel.rs:341` returns before
  `manifest.delete`) leaves its uncopied chunks and a manifest that lists the
  copied ones as well, although `chunk_manifest.rs:196` has the manifest deleted
  on success and on failure "so a stale manifest never outlives the chunk files
  it describes"; `FailedFetchSwept` says nothing of it, the other properties
  hold over it. With `Adaptive = FALSE` the sweep misses file creations that are
  still queued (`FailedFetchSwept`); with a `ScanWindow` below the ids in use,
  chunks are overlooked.
- `FragmentStream`: a replacement under a run that reads the resource
  (`moved`) goes unnoticed, since no fragment request is conditional, and so
  does a resume from a version with no strong validator whose list another
  version shares (`Recognised`). A cancel after the last fragment leaves a
  sidecar that does not resume (`ConfirmedIsKept` excludes it).
- `DashDownload`: the same holds for its `moved` and `Recognised`. With
  `MaxChanges` of 2 a server that goes back to an earlier version can mix two,
  since a changed anchor discards the state in memory and leaves the sidecar.
  Without an init segment (`WithInit`), parts recorded before the first video
  segment are saved without an anchor, and an `init.m4s` an earlier manifest
  left is joined all the same. An explicit cancel leaves parts, intermediates
  and state on disk. A failed audio track costs the whole video again.
- `PipelineFiles`: with `Slow = TRUE` a run longer than an hour loses the seam's
  files, which are never registered, to another process's sweep; a later stage
  or the final rename then fails (`RefusedMediaSurvives` is violated, the other
  safety properties hold). The runs
  exclude merges that the pipeline does not process, see above. `ReturnsClean`
  excludes results under `abandoned`: after a failed rename or a missing subtitle
  in strict mode the complete download stays under its temporary name until it
  is swept. The subtitle stage says that the subtitle is kept beside the media
  and then marks it for deletion unless `--write-subtitles` is on. A thumbnail
  of the output's name that the user had is overwritten, and a subtitle of the
  user's at a download's output is marked for deletion like the run's own, since
  `SidecarOwnership::of` asks only whether the media is a local file: the run has
  such sidecars, and `PreservedStays` protects those of local files alone. A cancel removes
  the thumbnail it fetched and leaves the subtitles. A merge download holds no
  claim on its output path.
- `PartClaim`: after its sweep at exit, a process's live claims have no lock.
- `DownloadJob`: a task that has nothing to report (`Skipped`) leaves its job
  running, and a full channel drops the only event of a cancel (`Emit`), which
  `OutcomeShown` therefore does not claim to be shown.
- `PlaylistRun`: with a shared title, two episodes share one file and are both
  counted, and with a large cover (`BigCovers`) the cover of an unfinished episode
  is taken for its video (`CountedIsSaved`). A video renamed just before a kill
  never enters the archive, an episode that the filters reject keeps the playlist
  from counting as complete unless an earlier run left its video, and a cancel drops the transfers before they can
  discard their partials; no property says otherwise.

### Fairness

- `HttpResume`, `ChunkedTransfer`, `FragmentStream`: the async runtime polls a started run until
  it ends (`Work`), and the user repeats a command that failed (`Start`, the
  `Begin` actions). Requests may fail, but only boundedly often. `FailChunk`
  and `RecoverFails` are fair where the code cannot do anything but fail: the
  server answers with another representation, a verified chunk has changed.
- `DashDownload`: the runtime drives a started run, and the user starts a
  download that broke off again (`Work`). Faults are bounded.
- `PipelineFiles`: the runtime polls the run and every stage, each FFmpeg call
  returns (`Work`, `Coordinate`), time passes (`Age`) and rdlp is started again
  now and then, which sweeps (`Sweep`). Fatal failures, refusals, panics and
  cancels are not fair.
- `DownloadJob`: the runtime polls the task and the desktop's event loop. The
  user's cancel and remove, and panics, are not fair.
- `PlaylistRun`: the runtime polls every episode in the stream and the loop,
  and the user repeats the command. Failures, cancels, kills and moved files
  are not fair, and bounded.
- `PartClaim` has no liveness claim: a claim never waits.

## 4. Proofs

TLAPS checks these for every value of the constants, under the assumptions
named in the modules.

| module | theorem | statement |
|---|---|---|
| `HttpResume_proofs` | `TypeCorrect`, `SidecarSafe`, `DeliverySafe` | the invariants of `http_resume`, for any offers, representations, lengths, failures and replacements |
| | `ImplementsExact` | the protocol implements `ExactTransfer` |
| `ChunkedTransfer_proofs` | `TypeCorrect`, `KeepsChunks`, `FailureSwept` | a recovery under way still has the chunk file of every byte that is only in its buffer, an attempt given up over a failed chunk leaves neither chunks nor manifest: for any number of chunks, connections, ids, versions and faults |
| | `DeliveryExact`, `OneAttempt` | what is delivered is one representation, a recovery splices one attempt, in every scenario of the kind the run has |
| `FragmentStream_proofs` | `TypeCorrect`, `WholeSafe`, `ExactSafe` | the safety of what `fragments_resume` delivers, for any versions, lists, fragment sizes, concurrency, URLs and losses |
| | `ConfirmedKept` | no number of failures, fallbacks and cancels costs a fragment the sidecar counts |
| `DashDownload_proofs` | `TypeCorrect`, `DeliveryExact` | what a resume muxes is every part of one version, for any versions, segments, connections, batches and faults |
| `PartClaim_proofs` | `TypeCorrect`, `RegistryExclusion`, `ClaimHeld` | until it sweeps, a process has one owner of the path and a live claim keeps its lock, for any processes and downloads |
| | `NoSpuriousBusy` | a claim is refused only while another download has the path, sweeps included |
| `DownloadJob_proofs` | `TypeCorrect`, `CancelledByUser` | the channel stays within its capacity; a job shows as cancelled only if it was |
| | `JobImplementsLifecycle` | the job implements `JobLifecycle` |
| `PlaylistRun_proofs` | `TypeCorrect`, `CountSafe`, `ArchivedSafe`, `StateKept`, `SelectionKept` | the counts and the archive of `playlist_resume`; the session state is deleted only when every episode is in place (`StateUntilComplete`), and all runs under one state keep its selection (`OneSelection`), for any playlist, filters, failures, kills and moves |
| | `NoneForgotten` | a run that was not cancelled accounts for every episode that passes the filters, shared titles and large covers included |
| `PipelineFiles_proofs` | `TypeCorrect`, `FailuresSurface`, `PreservedRemains`, `RefusalKeepsMedia`, `LeavesClean`, `DeliversWhole` | all the safety of `pipeline_files`, for any number of stages and any choice of fatal and refusing ones |

Assumptions and invariants:

- *HttpResume.* `ChunksNamed`: a transfer is split only under strong validators.
  The properties themselves are about downloads that are `Direct`, which a
  download is from its start to its end (`StaysDirect`). What both exclude the
  code does, see above. None of the
  checked properties is inductive: the invariant adds that the partial is a
  prefix of one representation, that no byte is on disk where a fresh transfer
  writes its sidecar, that the run's offset is still the length of the partial,
  that a body to be written is whole and starts at zero, and that chunks come
  from the representation the sidecar names.
- *ChunkedTransfer.* Nothing for `TypeCorrect` and `KeepsChunks`, `Adaptive` for
  `FailureSwept` (the static scheduler's sweep does miss files), `Foreseen` for
  the others: the ids in use are within the scan window, and in each scenario
  either the resource is not replaced, or no stop breaks into a merge or a
  recovery and then either one process makes all the runs or there is one
  replacement and no stop in a sweep. The three scenarios of `chunks_transfer`
  are such (the bounds on everything else are arbitrary), and beyond them the
  properties fail, see above. That the sidecar names the bytes beside it is not
  claimed: the code does not keep it (`chunks_failed_recovery`). The invariant says that whatever a recovery would
  take, and whatever is copied, is of the representation the sidecar names
  (`Vouched`, `Uniform`, `InHand`). It stays so for one of two reasons: either
  the resource is done changing, and all that any manifest lists is of the one
  representation left (`Settled`), or at most one chunk set is verified, it is
  the running attempt's, and it is gone once its bytes are in the partial file
  (`Apart`). With two replacements and several processes the second fails: a
  recovery leaves the manifest of chunks it could not reach, and a later process
  that reuses the id is vouched for by it.
- *FragmentStream.* No assumption. `DeliveredWhole` needs an invariant over all
  sidecars that can ever come back, the current one, the older ones and the
  run's own: each is sound, its checksum being of the first fragments of the
  list in order; and a run past verification has written or still owes exactly
  what its checksum covers. For `DeliveredExact` a second invariant says that
  each of them names its origin: fingerprint and anchor are those of the version
  of its first byte, and, when that version can be told apart, all its bytes
  are of it. `ConfirmedIsKept` rests on a third (`KInv`): while nothing is lost
  or replaced, a sidecar that counts some but not all fragments fits the list,
  the server's validator and the beginning of the file, whatever has landed of
  the write that was still owed; so a run cannot but take it over.
- *DashDownload.* `Foreseen`: either every version has an init segment, or none
  has and there are no strong validators; and the server does not go back to a
  version it had (`MaxChanges <= 1`). Both exclusions are real, see above. The
  invariant says that a state *vouches* for its parts (manifest, anchor and
  lengths are the served version's, and a part of the recorded length is then
  that version's, whole), unless its manifest or anchor gives it away as stale
  (`SideInv`, `MemInv`); and that a run past its init segment names its anchor,
  has on disk what it counts, and has joined what it counts (`FileInv`,
  `JoinInv`). As `DeliveredExact` does, it speaks of versions that can be told
  apart and are not replaced under a run.
- *PartClaim.* No assumption. The invariant says that a lock has exactly one holder, a
  claim in flight or an entry of one registry, and that a registry's entry and
  a live `PartLock` of its process come together until the process sweeps.
- *DownloadJob.* No assumption. The invariant says that a terminal event is the
  last the channel will ever hold and names the outcome of a task that is over,
  and that a settled job has an empty channel: nothing is left that could move
  it.
- *PlaylistRun.* `OwnFiles`: distinct titles, and no cover that passes for a
  video. The state is deleted by counting paths, so the invariant carries that
  found, counted, failed and running episodes do not overlap, and a cardinality
  lemma turns the count back into "every episode". Type correctness and
  `Accounted` need no assumption; for the latter an episode that is in no list
  is still under way (`Covered`).
- *PipelineFiles.* `MergesProcessed` (a merge has FFmpeg and a stage to run) for
  `LeavesClean` and `DeliversWhole`, `Slow = FALSE` for
  `RefusalKeepsMedia`, nothing for the others. The
  invariant follows the one message: it waits for a stage that will take it, or
  one stage is at work on it, or it was lost for a reason on record (`Chain`).
  The tracker in it knows every temporary that exists and borrows exactly what
  is the user's (`Sound`, `Times`, with `Names`: which file may have which kind
  of name), and its current files hold every piece, in one file from the first
  stage on (`Whole`). The drop of a message, by a cancel, a failure, a panic or
  a stage that has gone, is then one lemma about the tracker dropped.

Every safety property that a passing run checks is stated by a theorem. Only
model-checked: liveness under fairness (TLAPS proves none), which is
`EventuallyDelivered`, `EventuallyComplete`, `Settles`, `OutcomeShown` and
`CancelEnds`, and every violation. Only proved, not checked by a run:
`StateUntilComplete` and `OneSelection`.

## 5. Plan

In order, the most important behaviour first; the first eight are done.

1. `HttpResume` with `ExactTransfer`: resume of one file. *Done, proved.*
2. `PartClaim`: ownership of a path. *Done, proved.*
3. `ChunkedTransfer`: parallel transfer and recovery. *Done, proved.*
4. `DownloadJob` with `JobLifecycle`: task, events, queue. *Done, proved.*
5. `PlaylistRun`: many runs over one folder. *Done, proved.*
6. `FragmentStream`: HLS fragments, the sidecar with its CRC against the bytes
   of the file, power loss. *Done, proved.*
7. `DashDownload`: DASH over an MPD. *Done, proved.*
8. `PipelineFiles`: inputs and temporaries over the stages. *Done, proved.*
9. `AdaptiveController`: the levels and phases, racing reports, the semaphore.
   To prove: the level stays within its bounds.
10. The claim and the resume protocol composed over two processes.

## 6. Not modelled

Extraction, parsing of manifests and pages, the JavaScript bridge, cookies,
TLS, the plugin host, FFmpeg, redaction and validation, settings, tables and the
user interface: see `PROJECT.json` for each. The local-file
task's terminal events (a failed final rename ends it without one) and output
to stdout are left out as well. Durability of single writes (what the file
system keeps after a power loss) is modelled in `FragmentStream` alone; in the other modules a stop is the end of the process.

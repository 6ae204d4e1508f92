---------------------------- MODULE HttpResume -----------------------------
(***************************************************************************)
(* The resume protocol of a plain-HTTP download over one output path:      *)
(* resume resolution (rdlp-api orchestrator/resume.rs), the CDN-fallback   *)
(* loop (orchestrator/download.rs), and the downloader's fresh and resumed *)
(* transfers with their validator sidecar (rdlp-downloader                 *)
(* http/{trait_impl,state,verdict,mod}.rs).  The server may replace the    *)
(* resource at any moment and rdlp may stop between any two file-system    *)
(* effects; one rdlp process works on the path at a time (PartClaim is the *)
(* module about that).                                                     *)
(*                                                                         *)
(* Bytes are kept only as "the next byte of representation v" or not: see  *)
(* Glue.  The parallel transfer is reduced to what it does to the partial  *)
(* file; its chunk files, manifest and recovery are in ChunkedTransfer.    *)
(***************************************************************************)
EXTENDS Naturals, FiniteSets

CONSTANTS
    Versions,    \* representations the resource may have
    Len,         \* [Versions -> Nat \ {0}]: their complete lengths in bytes
    Strong,      \* those the server names with a strong validator
    Offers,      \* what the extractor may offer a download, see OfferType
    Parallel,    \* whether a fresh transfer may be split into ranged chunks
    MaxChanges,  \* bound: replacements of the resource by a server
    MaxFaults    \* bound: failed requests, crashes and cancellations

(* "Length not disclosed"; a disclosed length is positive. *)
Unknown == 0

OfferType ==
    [urls  : Nat \ {0},  \* how many: the primary URL and its CDN fallbacks
     sizes : SUBSET Nat] \* sizes reported from run to run, or Unknown

Nothing == "nothing"
Mixed   == "mixed"

ASSUME HttpResumeAssumption ==
    /\ Versions # {} /\ Nothing \notin Versions /\ Mixed \notin Versions
    /\ Len \in [Versions -> Nat \ {0}]
    /\ Strong \subseteq Versions
    /\ Offers \subseteq OfferType
    /\ Parallel \in BOOLEAN
    /\ MaxChanges \in Nat /\ MaxFaults \in Nat

VARIABLES
    part,       \* the .rdlp-part file
    sidecar,    \* the representation .http_state.json names, or Nothing
    serves,     \* serves[i]: the representation URL i currently answers with
    pc,         \* what the rdlp process is doing; "idle" when none runs
    url,        \* the URL of the fallback chain being tried
    offset,     \* resume_from, fixed for the whole fallback chain
    body,       \* the response body, or the fetched chunks, being written
    after,      \* where discard_partial continues
    delivered,  \* the last file handed over as a finished download
    offer,      \* what this download is offered, fixed for a behaviour
    changes, faults

fileVars == <<part, sidecar>>
runVars  == <<url, offset, body, after>>
envVars  == <<serves, offer, changes, faults>>
vars == <<part, sidecar, serves, pc, url, offset, body, after, delivered,
          offer, changes, faults>>

Urls  == 1 .. offer.urls
Empty == [rep |-> Nothing, len |-> 0]
NoBody == [rep |-> Nothing, pos |-> 0, end |-> 0, total |-> Unknown]

Files  == [rep : Versions \cup {Nothing, Mixed}, len : Nat]
Bodies == [rep : Versions \cup {Nothing, Mixed}, pos : Nat, end : Nat,
           total : Nat]

(* Appending to file f the byte at position at of representation v: still  *)
(* a prefix of v only if f was the prefix of v that ends there.            *)
Glue(f, v, at) ==
    [rep |-> IF f.len = at /\ f.rep \in {Nothing, v} THEN v ELSE Mixed,
     len |-> f.len + 1]

(* HttpResumeState::record: a sidecar is written when the response offers  *)
(* a strong validator and removed when it does not.                        *)
Validator(v) == IF v \in Strong THEN v ELSE Nothing

(* Whether a response discloses the complete length is up to the server.   *)
Totals(v) == {Len[v], Unknown}

TypeOK ==
    /\ part \in Files /\ delivered \in Files
    /\ sidecar \in Strong \cup {Nothing}
    /\ serves \in [Urls -> Versions]
    /\ pc \in {"idle", "probe", "fetch", "chunks", "resume", "confirm",
               "discard", "record", "create", "write", "finish", "rename"}
    /\ url \in Urls /\ offset \in Nat
    /\ body \in Bodies /\ offer \in Offers
    /\ after \in {"probe", "record"}
    /\ changes \in 0 .. MaxChanges /\ faults \in 0 .. MaxFaults

Init ==
    /\ part = Empty /\ sidecar = Nothing
    /\ offer \in Offers /\ serves \in [Urls -> Versions]
    /\ pc = "idle" /\ url = 1 /\ offset = 0 /\ body = NoBody
    /\ after = "probe"
    /\ delivered = Empty
    /\ changes = 0 /\ faults = 0

(***************************************************************************)
(* Starting a run: plan_resume and resolve_resume decide from the size of  *)
(* the partial file, and n is the size the extractor reports.              *)
(***************************************************************************)
AlreadyComplete(n) ==
    /\ pc = "idle" /\ part.len > 0 /\ n = part.len
    /\ sidecar' = Nothing
    /\ pc' = "rename"
    /\ UNCHANGED <<part, runVars, delivered, envVars>>

BeginResume(n) ==
    /\ pc = "idle" /\ part.len > 0
    /\ n = Unknown \/ part.len < n
    /\ pc' = "resume" /\ url' = 1 /\ offset' = part.len
    /\ UNCHANGED <<fileVars, body, after, delivered, envVars>>

(* set_aside_oversized renames the partial away and starts fresh; the      *)
(* sidecar stays where it is.                                              *)
SetAside(n) ==
    /\ pc = "idle" /\ n # Unknown /\ part.len > n
    /\ part' = Empty
    /\ pc' = "probe" /\ url' = 1 /\ offset' = 0
    /\ UNCHANGED <<sidecar, body, after, delivered, envVars>>

BeginFresh ==
    /\ pc = "idle" /\ part.len = 0
    /\ pc' = "probe" /\ url' = 1 /\ offset' = 0
    /\ UNCHANGED <<fileVars, body, after, delivered, envVars>>

(***************************************************************************)
(* fresh_download: probe, record the probe's validator, then fetch either  *)
(* in parallel ranges or with one sequential GET.  A probe that gets no    *)
(* answer counts as one with no validator and no size.                     *)
(***************************************************************************)
Probe ==
    /\ pc = "probe"
    /\ LET w == serves[url] IN
       \/ /\ sidecar' = Validator(w)
          /\ body' = [rep |-> w, pos |-> 0, end |-> Len[w], total |-> Len[w]]
       \/ sidecar' = Nothing /\ body' = NoBody
    /\ pc' = "fetch"
    /\ UNCHANGED <<part, url, offset, after, delivered, envVars>>

(* One more range lands in a chunk file.  With a validator the range is    *)
(* accepted only from that representation; without one, only its span is   *)
(* checked.                                                                *)
FetchChunk ==
    /\ Parallel /\ pc \in {"fetch", "chunks"} /\ body.total # Unknown
    /\ body.pos < body.end
    /\ LET w == serves[url] IN
       /\ body.pos < Len[w]
       /\ sidecar # Nothing => w = sidecar
       /\ body' = [body EXCEPT !.rep = IF w = @ THEN @ ELSE Mixed,
                               !.pos = @ + 1]
    /\ pc' = "chunks"
    /\ UNCHANGED <<fileVars, url, offset, after, delivered, envVars>>

(* Every chunk is on disk: merge_chunks_ordered opens the output.          *)
MergeChunks ==
    /\ pc = "chunks" /\ body.pos = body.end
    /\ body' = [body EXCEPT !.pos = 0]
    /\ pc' = "create"
    /\ UNCHANGED <<fileVars, url, offset, after, delivered, envVars>>

(* download_sequential: the GET's own validator replaces the probe's.      *)
GetWhole ==
    /\ pc = "fetch"
    /\ LET w == serves[url] IN
       \E t \in Totals(w) :
          /\ sidecar' = Validator(w)
          /\ body' = [rep |-> w, pos |-> 0, end |-> Len[w], total |-> t]
    /\ pc' = "create"
    /\ UNCHANGED <<part, url, offset, after, delivered, envVars>>

(***************************************************************************)
(* download_with_resume_with_cancel: one ranged request carrying the       *)
(* sidecar's validator, and what each answer means for the partial.        *)
(***************************************************************************)
(* Mutant: a partial without a validator is refused instead of restarted.  *)
NoSidecar_Refuses ==
    /\ pc = "resume" /\ sidecar = Nothing
    /\ pc' = "idle"
    /\ UNCHANGED <<fileVars, runVars, delivered, envVars>>

NoSidecar ==
    /\ pc = "resume" /\ sidecar = Nothing
    /\ pc' = "discard" /\ after' = "probe"
    /\ UNCHANGED <<fileVars, url, offset, body, delivered, envVars>>

(* Mutant: the tail is appended without comparing validators. *)
Partial_Unchecked ==
    /\ pc = "resume" /\ sidecar # Nothing
    /\ offset < Len[serves[url]]
    /\ body' = [rep |-> serves[url], pos |-> offset, end |-> Len[serves[url]],
                total |-> Len[serves[url]]]
    /\ pc' = "write"
    /\ UNCHANGED <<fileVars, url, offset, after, delivered, envVars>>

(* 206: the tail of the same representation, appended at end of file.      *)
Partial ==
    /\ pc = "resume" /\ sidecar # Nothing
    /\ serves[url] = sidecar /\ offset < Len[sidecar]
    /\ \E t \in Totals(sidecar) :
          body' = [rep |-> sidecar, pos |-> offset, end |-> Len[sidecar],
                   total |-> t]
    /\ pc' = "write"
    /\ UNCHANGED <<fileVars, url, offset, after, delivered, envVars>>

(* Mutant: the new validator is recorded while the old bytes are there.    *)
Replaced_RecordFirst ==
    /\ pc = "resume" /\ sidecar # Nothing
    /\ LET w == serves[url] IN
          body' = [rep |-> w, pos |-> 0, end |-> Len[w], total |-> Len[w]]
    /\ pc' = "record"
    /\ UNCHANGED <<fileVars, url, offset, after, delivered, envVars>>

(* 200: the validator no longer matches, or the server ignored Range.      *)
Replaced ==
    /\ pc = "resume" /\ sidecar # Nothing
    /\ LET w == serves[url] IN
       \E t \in Totals(w) :
          IF w = sidecar /\ t = offset
          THEN pc' = "finish" /\ UNCHANGED <<body, after>>
          ELSE /\ body' = [rep |-> w, pos |-> 0, end |-> Len[w], total |-> t]
               /\ pc' = "discard" /\ after' = "record"
    /\ UNCHANGED <<fileVars, url, offset, delivered, envVars>>

(* 206 naming another representation, from a server ignoring If-Range.     *)
Mismatched ==
    /\ pc = "resume" /\ sidecar # Nothing
    /\ serves[url] # sidecar /\ offset < Len[serves[url]]
    /\ pc' = "discard" /\ after' = "probe"
    /\ UNCHANGED <<fileVars, url, offset, body, delivered, envVars>>

(* Mutant: a partial longer than the resource is refused, not restarted. *)
Unsatisfiable_Refuses ==
    /\ pc = "resume" /\ sidecar # Nothing /\ offset >= Len[serves[url]]
    /\ pc' = IF Len[serves[url]] < offset THEN "idle" ELSE "confirm"
    /\ UNCHANGED <<fileVars, runVars, delivered, envVars>>

(* 416: shorter than the partial restarts; a length equal to it, or none,  *)
(* is settled by one probe.                                                *)
Unsatisfiable ==
    /\ pc = "resume" /\ sidecar # Nothing /\ offset >= Len[serves[url]]
    /\ \/ /\ Len[serves[url]] < offset
          /\ pc' = "discard" /\ after' = "probe"
       \/ pc' = "confirm" /\ UNCHANGED after
    /\ UNCHANGED <<fileVars, url, offset, body, delivered, envVars>>

(* Mutant: a 416 alone counts as "already complete". *)
ProbeConfirmsPartial_Always ==
    /\ pc = "confirm" /\ pc' = "finish"
    /\ UNCHANGED <<fileVars, runVars, delivered, envVars>>

ProbeConfirmsPartial ==
    /\ pc = "confirm"
    /\ IF serves[url] = sidecar /\ Len[sidecar] = offset
       THEN pc' = "finish" /\ UNCHANGED after
       ELSE pc' = "discard" /\ after' = "probe"
    /\ UNCHANGED <<fileVars, url, offset, body, delivered, envVars>>

(* discard_partial truncates the partial first and drops its sidecar after *)
(* that; DropSidecar then continues with the restart or the rewrite.       *)
DiscardPartial ==
    /\ pc = "discard" /\ part.len > 0
    /\ part' = Empty
    /\ UNCHANGED <<sidecar, pc, runVars, delivered, envVars>>

DropSidecar ==
    /\ pc = "discard" /\ part.len = 0
    /\ sidecar' = Nothing
    /\ pc' = after
    /\ UNCHANGED <<part, runVars, delivered, envVars>>

(* The 200-rewrite records the validator of the body it is about to write. *)
Record ==
    /\ pc = "record"
    /\ sidecar' = Validator(body.rep)
    /\ pc' = "create"
    /\ UNCHANGED <<part, runVars, delivered, envVars>>

(***************************************************************************)
(* stream_to_file and merge_chunks_ordered.                                *)
(***************************************************************************)
(* Mutant: the output is opened without truncating it. *)
Create_KeepsOld ==
    /\ pc = "create" /\ pc' = "write"
    /\ UNCHANGED <<fileVars, runVars, delivered, envVars>>

Create ==
    /\ pc = "create"
    /\ part' = Empty
    /\ pc' = "write"
    /\ UNCHANGED <<sidecar, runVars, delivered, envVars>>

Write ==
    /\ pc = "write" /\ body.pos < body.end
    /\ part' = Glue(part, body.rep, body.pos)
    /\ body' = [body EXCEPT !.pos = @ + 1]
    /\ UNCHANGED <<sidecar, pc, url, offset, after, delivered, envVars>>

(* verify_output_size: the file must have the advertised length, when the  *)
(* response advertised one.                                                *)
SizeVerified == body.total = Unknown \/ part.len = body.total

Verify ==
    /\ pc = "write" /\ body.pos = body.end /\ SizeVerified
    /\ pc' = "finish"
    /\ UNCHANGED <<fileVars, runVars, delivered, envVars>>

Finish ==
    /\ pc = "finish"
    /\ sidecar' = Nothing
    /\ pc' = "rename"
    /\ UNCHANGED <<part, runVars, delivered, envVars>>

FinalizePart ==
    /\ pc = "rename"
    /\ delivered' = part
    /\ part' = Empty
    /\ pc' = "idle"
    /\ UNCHANGED <<sidecar, runVars, envVars>>

(***************************************************************************)
(* Failures.  An attempt that returns an error is followed by the next URL *)
(* of the chain with the SAME resume_from, or by the end of the run.       *)
(***************************************************************************)
(* Mutant: the chain is followed past its last URL. *)
NextUrl_Unbounded ==
    /\ url' = url + 1
    /\ pc' = IF offset > 0 THEN "resume" ELSE "probe"

NextUrl ==
    IF url < offer.urls
    THEN /\ url' = url + 1
         /\ pc' = IF offset > 0 THEN "resume" ELSE "probe"
    ELSE pc' = "idle" /\ UNCHANGED url

(* A range answered by another representation, or refused: the transfer    *)
(* fails, its chunk files are swept, the partial file was never touched.   *)
ChunkRefused ==
    /\ Parallel /\ pc \in {"fetch", "chunks"} /\ body.pos < body.end
    /\ \/ body.pos >= Len[serves[url]]
       \/ sidecar # Nothing /\ serves[url] # sidecar
    /\ NextUrl
    /\ UNCHANGED <<fileVars, offset, body, after, delivered, envVars>>

VerifyFails ==
    /\ pc = "write" /\ body.pos = body.end /\ ~SizeVerified
    /\ NextUrl
    /\ UNCHANGED <<fileVars, offset, body, after, delivered, envVars>>

AttemptFails ==
    /\ pc \notin {"idle", "finish", "rename"}
    /\ faults < MaxFaults /\ faults' = faults + 1
    /\ NextUrl
    /\ UNCHANGED <<fileVars, offset, body, after, delivered, serves, offer, changes>>

(* A crash, a kill, or a cancel that keeps the partial (Ctrl+C).           *)
Stop ==
    /\ pc # "idle"
    /\ faults < MaxFaults /\ faults' = faults + 1
    /\ pc' = "idle"
    /\ UNCHANGED <<fileVars, runVars, delivered, serves, offer, changes>>

(* An explicit cancel: discard_part removes the partial, not its sidecar.  *)
CancelDiscard ==
    /\ pc \notin {"idle", "finish", "rename"}
    /\ faults < MaxFaults /\ faults' = faults + 1
    /\ part' = Empty
    /\ pc' = "idle"
    /\ UNCHANGED <<sidecar, runVars, delivered, serves, offer, changes>>

(* The server replaces the resource behind a URL.                          *)
ServerChanges(i, v) ==
    /\ changes < MaxChanges /\ changes' = changes + 1
    /\ serves[i] # v
    /\ serves' = [serves EXCEPT ![i] = v]
    /\ UNCHANGED <<fileVars, pc, runVars, delivered, offer, faults>>

Start == BeginFresh \/ \E n \in offer.sizes :
             AlreadyComplete(n) \/ BeginResume(n) \/ SetAside(n)

Work == \/ Probe \/ FetchChunk \/ MergeChunks \/ GetWhole
        \/ NoSidecar \/ Partial \/ Replaced \/ Mismatched \/ Unsatisfiable
        \/ ProbeConfirmsPartial \/ DiscardPartial \/ DropSidecar \/ Record
        \/ Create \/ Write \/ Verify \/ VerifyFails \/ ChunkRefused \/ Finish \/ FinalizePart

Next == \/ Start \/ Work
        \/ AttemptFails \/ Stop \/ CancelDiscard
        \/ \E i \in Urls, v \in Versions : ServerChanges(i, v)

Spec == Init /\ [][Next]_vars

(* A started run is driven to its end by the runtime, and the user runs    *)
(* the same command again after a run that failed.                         *)
FairSpec == Spec /\ WF_vars(Start) /\ WF_vars(Work)

-----------------------------------------------------------------------------
(* One URL, and no reported size below a true length.  A fallback URL gets *)
(* the primary's offset and records its validator beside the primary's     *)
(* bytes, and a partial as long as the reported size is taken for the      *)
(* whole: of such downloads the three properties below say nothing.        *)
Direct ==
    /\ offer.urls = 1
    /\ \A n \in offer.sizes, v \in Versions : n = Unknown \/ Len[v] <= n

(* The sidecar's validator field, http/state.rs: "The strong validator of  *)
(* the representation whose bytes are on disk."  If it names another one,  *)
(* or the bytes are displaced, a later resume splices and no check sees it.*)
SidecarDescribesPart ==
    Direct /\ sidecar # Nothing /\ part.len > 0 => part.rep = sidecar

(* A file handed over as the finished download holds exactly the bytes of  *)
(* one representation of the resource, whatever was interrupted, replaced  *)
(* or retried on the way.                                                  *)
DeliveredExact ==
    Direct /\ delivered # Empty =>
        delivered.rep \in Versions /\ delivered.len = Len[delivered.rep]

(* No interruption leaves files that every later run trips over: once      *)
(* failures and replacements stop, re-running the command delivers, over   *)
(* any chain of URLs and whatever sizes are reported.                      *)
EventuallyDelivered == <>(delivered # Empty)

(* The partial file is the abstract transfer's; a download that is not     *)
(* Direct is mapped to a transfer that never starts.                       *)
Exact == INSTANCE ExactTransfer WITH
             Versions <- Versions, Len <- Len,
             part <- IF Direct THEN part ELSE Empty,
             delivered <- IF Direct THEN delivered ELSE Empty
ExactSpec == Exact!Spec
=============================================================================

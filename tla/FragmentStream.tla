--------------------------- MODULE FragmentStream ---------------------------
(***************************************************************************)
(* An HLS download from a pre-resolved list of fragments                   *)
(* (rdlp-downloader fragments.rs) into one output path, over many runs:    *)
(* the resume sidecar with its fingerprint, anchor and checksum            *)
(* (fragments/state.rs, revalidate.rs), the fragments fetched concurrently *)
(* and written in order, and the fallback chain around it (rdlp-api        *)
(* orchestrator/download.rs).  Nothing is synced: tokio's file still owes  *)
(* its last write when the sidecar that counts it is saved, a kill may     *)
(* lose that write, and a power loss may leave holes or an older sidecar.  *)
(*                                                                         *)
(* A byte is kept as the representation it came from and its offset in     *)
(* the complete stream.  Representations of one resource have fragments of *)
(* the same sizes, so that a mix of them need not show in any length, and  *)
(* the checksum has no collisions.  No size is reported for HLS formats.   *)
(***************************************************************************)
EXTENDS Integers, Sequences

CONSTANTS
    Versions,     \* representations the resource may have
    Total,        \* fragments in the list
    End,          \* End[i]: length of the first i, init segments included
    Fingerprint,  \* Fingerprint[v]: of the list that version v has
    Strong,       \* versions the server names with a strong validator
    NumUrls,      \* the primary playlist and its CDN fallbacks
    Concurrency,  \* concurrent_fragments
    MaxChanges,   \* bound: replacements of the resource by a server
    MaxFaults,    \* bound: failed attempts and cancels that keep the partial
    MaxLosses     \* bound: kills, power losses, failed saves, discards

Nothing == "nothing"

ASSUME FragmentStreamAssumption ==
    /\ Versions # {} /\ Nothing \notin Versions
    /\ Total \in Nat \ {0}
    /\ End \in [0 .. Total -> Nat]
    /\ End[0] = 0
    /\ \A i \in 1 .. Total : End[i - 1] < End[i]
    /\ DOMAIN Fingerprint = Versions
    /\ \A v \in Versions : Fingerprint[v] # Nothing
    /\ Strong \subseteq Versions
    /\ NumUrls \in Nat \ {0} /\ Concurrency \in Nat \ {0}
    /\ MaxChanges \in Nat /\ MaxFaults \in Nat /\ MaxLosses \in Nat

VARIABLES
    file,       \* the bytes of the .rdlp-part file
    queue,      \* bytes handed to the file that the kernel has not yet got
    state,      \* the .hls_state.json sidecar
    older,      \* sidecars it replaced, which a power loss may bring back
    serves,     \* serves[u]: the representation URL u currently answers with
    pc,         \* what the run is doing; "idle" when none is running
    url,        \* the URL of the fallback chain being tried
    mem,        \* the run's own HlsResumeState and running checksum
    ahead,      \* ahead[i]: the version fragment i was fetched from, if it is
    moved,      \* whether a resource was replaced under a run reading it
    delivered,  \* the last file handed over as a finished download
    changes, faults, losses

diskVars == <<file, queue, state, older>>
envVars  == <<serves, moved, changes>>
vars == <<file, queue, state, older, serves, pc, url, mem, ahead, moved,
          delivered, changes, faults, losses>>

Urls      == 1 .. NumUrls
Fragments == 1 .. Total

Hole  == [rep |-> Nothing, at |-> 0]
Cells == [rep : Versions \cup {Nothing}, at : Nat]

(* Fragment i as version v has it, preceded by its init segment if it      *)
(* opens an init group; both are taken to come from one version.           *)
Bytes(v, i) == [p \in 1 .. End[i] - End[i - 1] |->
                   [rep |-> v, at |-> End[i - 1] + p]]

(* The validator a response offers, recorded only when it is a strong one. *)
Validator(v) == IF v \in Strong THEN v ELSE Nothing

(* byte_len is Len(sum), and stream_crc32 the checksum of sum. *)
NewState(f) == [print |-> f, done |-> 0, sum |-> <<>>, anchor |-> Nothing]

(* A missing or unreadable sidecar: it matches no list. *)
NoState == NewState(Nothing)

States == [print : {Fingerprint[v] : v \in Versions} \cup {Nothing},
           done : 0 .. Total, sum : Seq(Cells),
           anchor : Strong \cup {Nothing}]

NotFetched == [i \in Fragments |-> Nothing]

TypeOK ==
    /\ file \in Seq(Cells) /\ queue \in Seq(Cells) /\ delivered \in Seq(Cells)
    /\ state \in States /\ mem \in States
    /\ \A s \in older : s \in States
    /\ serves \in [Urls -> Versions]
    /\ pc \in {"idle", "load", "probe", "open", "verify", "stream", "save",
               "remove", "rename"}
    /\ url \in Urls
    /\ ahead \in [Fragments -> Versions \cup {Nothing}]
    /\ moved \in BOOLEAN
    /\ changes \in 0 .. MaxChanges
    /\ faults \in 0 .. MaxFaults
    /\ losses \in 0 .. MaxLosses

Init ==
    /\ file = <<>> /\ queue = <<>> /\ delivered = <<>>
    /\ state = NoState /\ older = {}
    /\ \E v \in Versions : serves = [u \in Urls |-> v]
    /\ pc = "idle" /\ url = 1 /\ mem = NoState /\ ahead = NotFetched
    /\ moved = FALSE
    /\ changes = 0 /\ faults = 0 /\ losses = 0

(***************************************************************************)
(* Starting: the list is extracted from the primary, or a fallback is      *)
(* expanded again, and the sidecar is matched against it.                  *)
(***************************************************************************)
Start ==
    /\ pc = "idle"
    /\ pc' = "load" /\ url' = 1
    /\ UNCHANGED <<diskVars, mem, ahead, delivered, envVars, faults, losses>>

(* The sidecar is for the list, at a boundary the file reaches, and not at *)
(* the end of the list.                                                    *)
Resumable(f) == /\ state.print = f
                /\ Len(file) >= Len(state.sum)
                /\ state.done < Total

Load ==
    /\ pc = "load"
    /\ LET f == Fingerprint[serves[url]] IN
          mem' = IF Resumable(f) THEN state ELSE NewState(f)
    /\ pc' = IF mem'.anchor # Nothing THEN "probe" ELSE "open"
    /\ UNCHANGED <<diskVars, url, ahead, delivered, envVars, faults, losses>>

(* Mutant: the fingerprint of the list is taken for the version. *)
Confirmed_Always ==
    /\ pc = "probe"
    /\ pc' = "open"
    /\ UNCHANGED <<diskVars, url, mem, ahead, delivered, envVars, faults, losses>>

(* revalidate_anchor: one byte of fragment 0, conditional on the anchor.   *)
Confirmed ==
    /\ pc = "probe" /\ Validator(serves[url]) = mem.anchor
    /\ pc' = "open"
    /\ UNCHANGED <<diskVars, url, mem, ahead, delivered, envVars, faults, losses>>

Changed ==
    /\ pc = "probe" /\ Validator(serves[url]) # mem.anchor
    /\ mem' = NewState(mem.print)
    /\ pc' = "open"
    /\ UNCHANGED <<diskVars, url, ahead, delivered, envVars, faults, losses>>

(* A torn tail is cut off before the rest is verified.                     *)
OpenResumed ==
    /\ pc = "open" /\ mem.done > 0
    /\ file' = SubSeq(file, 1, Len(mem.sum))
    /\ pc' = "verify"
    /\ UNCHANGED <<queue, state, older, url, mem, ahead, delivered, envVars,
                   faults, losses>>

OpenFresh ==
    /\ pc = "open" /\ mem.done = 0
    /\ file' = <<>>
    /\ ahead' = NotFetched
    /\ pc' = "stream"
    /\ UNCHANGED <<queue, state, older, url, mem, delivered, envVars,
                   faults, losses>>

(* Mutant: a partial of the right length is trusted. *)
Verify_LengthOnly ==
    /\ pc = "verify"
    /\ ahead' = NotFetched /\ pc' = "stream"
    /\ UNCHANGED <<diskVars, url, mem, delivered, envVars, faults, losses>>

(* Mutant: a mismatch is an error, as a failed read is. *)
Verify_Refuses ==
    /\ pc = "verify"
    /\ IF file = mem.sum
       THEN pc' = "stream" /\ ahead' = NotFetched
       ELSE pc' = "idle" /\ UNCHANGED ahead
    /\ UNCHANGED <<diskVars, url, mem, delivered, envVars, faults, losses>>

(* The checksum of the prefix decides; a mismatch starts over.             *)
Verify ==
    /\ pc = "verify"
    /\ IF file = mem.sum
       THEN pc' = "stream" /\ ahead' = NotFetched /\ UNCHANGED mem
       ELSE pc' = "open" /\ mem' = NewState(mem.print) /\ UNCHANGED ahead
    /\ UNCHANGED <<diskVars, url, delivered, envVars, faults, losses>>

(***************************************************************************)
(* The stream: buffered(concurrency) fetches in any order within a window  *)
(* and yields in the order of the list.                                    *)
(***************************************************************************)
Fetch(i) ==
    /\ pc \in {"stream", "save"}
    /\ i \in mem.done + 1 .. mem.done + Concurrency
    /\ ahead[i] = Nothing
    /\ ahead' = [ahead EXCEPT ![i] = serves[url]]
    /\ UNCHANGED <<diskVars, pc, url, mem, delivered, envVars, faults, losses>>

(* write_all waits for the write before it, then owes this one.            *)
Take ==
    /\ pc = "stream" /\ mem.done < Total
    /\ LET i == mem.done + 1
           v == ahead[i]
       IN  /\ v # Nothing
           /\ file' = file \o queue
           /\ queue' = Bytes(v, i)
           /\ mem' = [mem EXCEPT !.done = i, !.sum = @ \o Bytes(v, i),
                                 !.anchor = IF i = 1 THEN Validator(v) ELSE @]
           /\ ahead' = [ahead EXCEPT ![i] = Nothing]
    /\ pc' = "save"
    /\ UNCHANGED <<state, older, url, delivered, envVars, faults, losses>>

Save ==
    /\ pc = "save"
    /\ state' = mem /\ older' = older \cup {state}
    /\ pc' = "stream"
    /\ UNCHANGED <<file, queue, url, mem, ahead, delivered, envVars, faults,
                   losses>>

(* note_sidecar_save tolerates a failed save, and the removal is a best    *)
(* effort.                                                                 *)
SidecarFails ==
    /\ pc \in {"save", "remove"}
    /\ losses < MaxLosses /\ losses' = losses + 1
    /\ pc' = IF pc = "save" THEN "stream" ELSE "rename"
    /\ UNCHANGED <<diskVars, url, mem, ahead, delivered, envVars, faults>>

Finish ==
    /\ pc = "stream" /\ mem.done = Total
    /\ file' = file \o queue /\ queue' = <<>>
    /\ pc' = "remove"
    /\ UNCHANGED <<state, older, url, mem, ahead, delivered, envVars, faults,
                   losses>>

RemoveState ==
    /\ pc = "remove"
    /\ state' = NoState /\ older' = older \cup {state}
    /\ pc' = "rename"
    /\ UNCHANGED <<file, queue, url, mem, ahead, delivered, envVars, faults,
                   losses>>

FinalizePart ==
    /\ pc = "rename"
    /\ delivered' = file /\ file' = <<>>
    /\ pc' = "idle"
    /\ UNCHANGED <<queue, state, older, url, mem, ahead, envVars, faults,
                   losses>>

(***************************************************************************)
(* Failures.                                                               *)
(***************************************************************************)
(* Mutant: the chain is followed past its last URL. *)
NextUrl_Unbounded == url' = url + 1 /\ pc' = "load"

NextUrl ==
    IF url < NumUrls
    THEN url' = url + 1 /\ pc' = "load"
    ELSE pc' = "idle" /\ UNCHANGED url

(* The first m bytes of the queue reach the file. *)
Land(m) == file' = file \o SubSeq(queue, 1, m) /\ queue' = <<>>

(* Mutant: an error is returned without the flush. *)
Owed_Dropped == 0 .. Len(queue)

(* A write_all that has not returned lands in part; one that has, lands    *)
(* whole: by a flush, or on tokio's blocking pool after the run is dropped.*)
Owed == IF pc = "save" THEN 0 .. Len(queue) ELSE {Len(queue)}

(* A playlist that cannot be expanded, an unanswered probe, a fragment     *)
(* that exhausts its retries, a failed read or write: the output is        *)
(* flushed, the sidecar kept, and the next URL is tried.                   *)
AttemptFails ==
    /\ pc \in {"load", "probe", "open", "verify", "stream", "save"}
    /\ faults < MaxFaults /\ faults' = faults + 1
    /\ \E m \in Owed : Land(m)
    /\ NextUrl
    /\ UNCHANGED <<state, older, mem, ahead, delivered, envVars, losses>>

(* A cancel that keeps the partial: the select! of execute_download may    *)
(* drop the transfer at any await; a save under way may still be made.     *)
Cancel ==
    /\ pc \notin {"idle", "rename"}
    /\ faults < MaxFaults /\ faults' = faults + 1
    /\ \/ /\ \E m \in Owed : Land(m)
          /\ UNCHANGED <<state, older>>
       \/ /\ pc = "save" /\ Land(Len(queue))
          /\ state' = mem /\ older' = older \cup {state}
    /\ pc' = "idle"
    /\ UNCHANGED <<url, mem, ahead, delivered, envVars, losses>>

(* An explicit cancel: discard_part removes the partial, not its sidecar.  *)
CancelDiscard ==
    /\ pc \notin {"idle", "rename"}
    /\ losses < MaxLosses /\ losses' = losses + 1
    /\ file' = <<>> /\ queue' = <<>>
    /\ pc' = "idle"
    /\ UNCHANGED <<state, older, url, mem, ahead, delivered, envVars, faults>>

Kill ==
    /\ pc # "idle"
    /\ losses < MaxLosses /\ losses' = losses + 1
    /\ \E m \in 0 .. Len(queue) : Land(m)
    /\ pc' = "idle"
    /\ UNCHANGED <<state, older, url, mem, ahead, delivered, envVars, faults>>

(* Size and data become durable in any order and none was ever synced; the *)
(* sidecar is an old or the new document, or not readable.                 *)
PowerLoss ==
    /\ losses < MaxLosses /\ losses' = losses + 1
    /\ \E n \in 0 .. Len(file \o queue) : \E lost \in SUBSET (1 .. n) :
          file' = [p \in 1 .. n |->
                      IF p \in lost THEN Hole ELSE (file \o queue)[p]]
    /\ queue' = <<>>
    /\ state' \in older \cup {state, NoState}
    /\ older' = {}
    /\ pc' = "idle"
    /\ UNCHANGED <<url, mem, ahead, delivered, envVars, faults>>

ServerChanges(u, v) ==
    /\ changes < MaxChanges /\ changes' = changes + 1
    /\ serves[u] # v
    /\ serves' = [serves EXCEPT ![u] = v]
    /\ moved' = (moved \/ (pc # "idle" /\ u = url))
    /\ UNCHANGED <<diskVars, pc, url, mem, ahead, delivered, faults, losses>>

Work == \/ Load \/ Confirmed \/ Changed \/ OpenResumed \/ OpenFresh \/ Verify
        \/ (\E i \in Fragments : Fetch(i)) \/ Take \/ Save
        \/ Finish \/ RemoveState \/ FinalizePart

Next == \/ Start \/ Work
        \/ SidecarFails \/ AttemptFails \/ Cancel \/ CancelDiscard
        \/ Kill \/ PowerLoss
        \/ \E u \in Urls, v \in Versions : ServerChanges(u, v)

Spec == Init /\ [][Next]_vars

(* A started run is driven to its end by the runtime, and the user runs    *)
(* the same command again after a run that failed.                         *)
FairSpec == Spec /\ WF_vars(Start) /\ WF_vars(Work)

-----------------------------------------------------------------------------
(* The file handed over is the list's fragments in order, each of them     *)
(* once and complete, without a hole: whatever was fetched out of order,   *)
(* torn, replaced on the server, lost by the kernel or rolled back.        *)
DeliveredWhole ==
    delivered # <<>> => /\ Len(delivered) = End[Total]
                        /\ \A p \in 1 .. Len(delivered) : delivered[p].at = p

(* Versions that the sidecar tells apart from every other one: by a strong *)
(* validator, or by a list no other version has.                           *)
Recognised == {v \in Versions : \/ v \in Strong
                                \/ \A w \in Versions \ {v} :
                                      Fingerprint[w] # Fingerprint[v]}

(* A download that began with a version the sidecar can tell apart holds   *)
(* only that version's bytes, however often it was resumed and whatever    *)
(* the server did between the runs.  A replacement under a run reading the *)
(* resource is not noticed: no fragment request is conditional.            *)
DeliveredExact ==
    delivered # <<>> /\ ~moved /\ delivered[1].rep \in Recognised =>
        \A p \in 1 .. Len(delivered) : delivered[p].rep = delivered[1].rep

(* revalidate.rs: "No answer" is never "changed": failures, fallbacks and  *)
(* cancels that keep the partial never cost a fragment the sidecar counts. *)
ConfirmedIsKept ==
    losses = 0 /\ changes = 0 /\ pc \in {"stream", "save"} /\ state.done < Total
        => mem.done >= state.done

(* No file and sidecar an interruption leaves wedges the download. *)
EventuallyDelivered == <>(delivered # <<>>)
=============================================================================

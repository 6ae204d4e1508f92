------------------------- MODULE DashDownload_proofs -------------------------
(***************************************************************************)
(* For any media versions, segments, concurrency, batches and faults: type *)
(* correctness, and that what a resume muxes and hands over is every part  *)
(* of one version.                                                         *)
(***************************************************************************)
EXTENDS DashDownload, FiniteSetTheorems, TLAPS

USE DashDownloadAssumption

-----------------------------------------------------------------------------
(* Type correctness.                                                       *)

(* From the manifest on, and from the state on. *)
Past == {"init", "save", "plan", "segments", "join", "clear", "mux", "finish"}

RunOK ==
    /\ pc \in {"load", "probe"} \cup Past => mpd \in Versions
    /\ pc \in {"probe"} \cup Past => memory \in States
    /\ \A i \in Segs : pc = "segments" /\ job[i] \in {"write", "written"} => got[i] \in Versions
    /\ pc = "segments" \/ InFlight = {}

TInv == TypeOK /\ RunOK

LEMMA Constants ==
    /\ Segments \in Nat /\ Segments > 0 /\ Conns \in Nat /\ Conns > 0
    /\ Batch \in Nat /\ Batch > 0
    /\ Segs \subseteq Parts /\ 0 \in Parts
    /\ \A v \in Versions : Manifest[v] \in Nat /\ Size[v] \in Nat /\ Size[v] > 0
    /\ "video" \in Tracks /\ "audio" \in Tracks
BY DEF Segs, Parts, Tracks

LEMMA FilesTyped ==
    /\ NoFile \in Files
    /\ \A v \in Versions : Whole(v) \in Files
    /\ \A v \in Versions, n \in Nat : File(v, n) \in Files
    /\ NoTracks \in [Tracks -> [Parts -> Files]] /\ NoParts \in [Parts -> Files]
    /\ \A v \in Versions : NewState(v) \in States
<1>1. /\ NoFile \in Files
      /\ \A v \in Versions : Whole(v) \in Files
      /\ \A v \in Versions, n \in Nat : File(v, n) \in Files
      BY Constants DEF NoFile, Whole, File, Files, Named
<1>2. NoParts \in [Parts -> Files]
      BY <1>1 DEF NoParts
<1>3. NoTracks \in [Tracks -> [Parts -> Files]]
      BY <1>2 DEF NoTracks
<1>4. \A v \in Versions : NewState(v) \in States
      BY Constants DEF NewState, States, Named
<1> QED BY <1>1, <1>2, <1>3, <1>4

LEMMA OutputsTyped ==
    /\ None \in Outputs /\ Partial \in Outputs /\ Chosen \in Outputs
    /\ \A J \in [Tracks -> [Parts -> Files]] : Output("muxed", J) \in Outputs
BY FilesTyped DEF None, Partial, Chosen, Output, Outputs

(* Recording a part, and an anchor, gives a state again. *)
LEMMA StatesTyped ==
    ASSUME memory \in States, NEW t \in Tracks, NEW i \in Parts, NEW v \in Versions
    PROVE  /\ Recorded(t, i, v) \in States
           /\ Anchored(Recorded(t, i, v), v) \in States
           /\ [memory EXCEPT !.len[t] = [j \in Parts |-> Kept(t, j)]] \in States
<1>1. Recorded(t, i, v) \in States
      BY Constants DEF Recorded, States
<1>2. Anchored(Recorded(t, i, v), v) \in States
      BY <1>1 DEF Anchored, States, Named
<1>3. \A j \in Parts : Kept(t, j) \in Nat
      BY DEF Kept, States
<1>4. [memory EXCEPT !.len[t] = [j \in Parts |-> Kept(t, j)]] \in States
      BY <1>3 DEF States
<1> QED BY <1>1, <1>2, <1>4

LEMMA LengthsTyped == Lengths \subseteq Nat
BY Constants DEF Lengths

(* A part put on disk leaves the disk well typed. *)
LEMMA DiskTyped ==
    ASSUME file \in [Tracks -> [Parts -> Files]], NEW t \in Tracks, NEW i \in Parts,
           NEW f \in Files
    PROVE  /\ [file EXCEPT ![t][i] = f] \in [Tracks -> [Parts -> Files]]
           /\ [file EXCEPT ![t] = NoParts] \in [Tracks -> [Parts -> Files]]
BY FilesTyped

LEMMA InitTyped == Init => TInv
<1> SUFFICES ASSUME Init PROVE TInv
    OBVIOUS
<1>1. InFlight = {}
      BY DEF Init, InFlight
<1>2. Cardinality({}) = 0
      BY FS_EmptySet
<1>3. Cardinality({i \in Segs : job[i] \in {"write", "written"}}) <= Conns
      BY <1>1, <1>2, Constants DEF InFlight
<1>4. /\ job \in [Segs -> {"wait", "write", "written", "have", "failed"}]
      /\ got \in [Segs -> Named] /\ since \in 0 .. Batch - 1
      /\ changes \in 0 .. MaxChanges /\ faults \in 0 .. MaxFaults
      BY Constants DEF Init, Named
<1>5. /\ part \in Outputs /\ delivered \in Outputs
      /\ file \in [Tracks -> [Parts -> Files]] /\ joined \in [Tracks -> [Parts -> Files]]
      BY FilesTyped, OutputsTyped DEF Init
<1>6. TypeOK
      BY <1>3, <1>4, <1>5, Constants DEF Init, TypeOK, Named
<1>7. RunOK
      BY <1>1 DEF Init, RunOK, Past
<1> QED BY <1>6, <1>7 DEF TInv

(* Fetching one more segment is one more in flight. *)
LEMMA StepInFlight ==
    ASSUME TInv, [Next]_vars
    PROVE  Cardinality(InFlight') <= Conns
<1> USE DEF diskVars, runVars, envVars, Forget
<1>0. /\ Cardinality(InFlight) <= Conns /\ InFlight \subseteq Segs
      /\ job \in [Segs -> {"wait", "write", "written", "have", "failed"}]
      BY DEF TInv, TypeOK, InFlight
<1>1. IsFiniteSet(Segs) /\ IsFiniteSet(InFlight) /\ Cardinality(InFlight) \in Nat
  <2>1. IsFiniteSet(Segs)
        BY Constants, FS_Interval DEF Segs
  <2> QED BY <1>0, <2>1, FS_Subset, FS_CardinalityType
<1>2. CASE \E i \in Segs : Fetch(i)
  <2>1. PICK i \in Segs : Fetch(i)
        BY <1>2
  <2>2. InFlight' \subseteq InFlight \cup {i}
        BY <1>0, <2>1 DEF Fetch, InFlight
  <2>3. Cardinality(InFlight \cup {i}) <= Conns /\ IsFiniteSet(InFlight \cup {i})
    <3>1. Cardinality(InFlight) < Conns
          BY <2>1 DEF Fetch
    <3>2. /\ IsFiniteSet(InFlight \cup {i})
          /\ Cardinality(InFlight \cup {i}) \in {Cardinality(InFlight), Cardinality(InFlight) + 1}
          BY <1>1, FS_AddElement
    <3> QED BY <1>1, <3>1, <3>2, Constants
  <2>4. Cardinality(InFlight') <= Cardinality(InFlight \cup {i}) /\ Cardinality(InFlight') \in Nat
        BY <2>2, <2>3, FS_Subset, FS_CardinalityType
  <2>5. Cardinality(InFlight \cup {i}) \in Nat
        BY <2>3, FS_CardinalityType
  <2> QED BY <2>3, <2>4, <2>5, Constants
<1>3. CASE InFlight' \subseteq InFlight
  <2>1. Cardinality(InFlight') <= Cardinality(InFlight) /\ Cardinality(InFlight') \in Nat
        BY <1>1, <1>3, FS_Subset, FS_CardinalityType
  <2> QED BY <1>0, <1>1, <2>1, Constants
<1>4. (\E i \in Segs : Fetch(i)) \/ InFlight' \subseteq InFlight
  <2>1. CASE UNCHANGED job
        BY <2>1 DEF InFlight
  <2>2. CASE job' = [i \in Segs |-> "wait"] \/ Partition
        BY <2>2 DEF InFlight, Partition
  <2>3. CASE \E i \in Segs : Write(i) \/ Record(i) \/ FetchFails(i)
        BY <1>0, <2>3 DEF Write, Record, FetchFails, InFlight
  <2> QED BY <2>1, <2>2, <2>3
         DEF Next, Work, Writing, Faulty, Start, FragmentsFinish, FetchManifest,
            Load, Probe,
         KeepInit, FetchInit, SaveInit, SegmentsEnd, SegmentsFail, Join, Clear, Mux,
            Finish,
         InitGrows, Grows, FragmentsBreakOff, RunFails, MuxFails, Stop, Done,
            ServerChanges,
         vars
<1> QED BY <1>2, <1>3, <1>4

LEMMA StepType ==
    ASSUME TInv, [Next]_vars
    PROVE  TypeOK'
<1> USE DEF diskVars, runVars, envVars, Forget, Fault, TypeOK
<1>0. /\ TypeOK /\ RunOK /\ serves \in Versions /\ NoState \in States \cup {NoState}
      /\ Nothing \in Named /\ Versions \subseteq Named
      /\ [i \in Segs |-> "wait"] \in [Segs -> {"wait", "write", "written", "have", "failed"}]
      /\ [i \in Segs |-> Nothing] \in [Segs -> Named]
      /\ 0 \in 0 .. Batch - 1
      BY Constants DEF TInv, Named
<1>a. Cardinality({i \in Segs : job'[i] \in {"write", "written"}}) <= Conns
      BY StepInFlight DEF InFlight
<1>b. Fault => faults' \in 0 .. MaxFaults
      BY <1>0
<1>1. CASE Start
      BY <1>0, <1>a, <1>1 DEF Start
<1>2. CASE FragmentsFinish
      BY <1>0, <1>a, <1>2, OutputsTyped DEF FragmentsFinish
<1>3. CASE FetchManifest
      BY <1>0, <1>a, <1>3 DEF FetchManifest, RunOK, Past
<1>4. CASE Load
      BY <1>0, <1>a, <1>4, FilesTyped DEF Load, RunOK, Past
<1>5. CASE Probe
      BY <1>0, <1>a, <1>5, FilesTyped DEF Probe, RunOK, Past
<1>6. CASE KeepInit
      BY <1>0, <1>a, <1>6 DEF KeepInit
<1>7. CASE FetchInit
  <2>1. memory' \in States
        BY <1>0, <1>7, StatesTyped, Constants DEF FetchInit, RunOK, Past
  <2>2. file' \in [Tracks -> [Parts -> Files]]
        BY <1>0, <1>7, FilesTyped, DiskTyped, Constants DEF FetchInit
  <2> QED BY <1>0, <1>a, <1>7, <2>1, <2>2 DEF FetchInit
<1>8. CASE SaveInit
      BY <1>0, <1>a, <1>8 DEF SaveInit, Save
<1>9. CASE Partition
  <2>1. memory' \in States
        BY <1>0, <1>9, StatesTyped, Constants DEF Partition, RunOK, Past
  <2>2. job' \in [Segs -> {"wait", "write", "written", "have", "failed"}]
        BY <1>9 DEF Partition
  <2> QED BY <1>0, <1>a, <1>9, <2>1, <2>2 DEF Partition
<1>10. CASE \E i \in Segs : Fetch(i)
      BY <1>0, <1>a, <1>10 DEF Fetch
<1>11. CASE \E i \in Segs : Write(i)
  <2>1. PICK i \in Segs : Write(i)
        BY <1>11
  <2>2. Whole(got[i]) \in Files /\ i \in Parts
        BY <1>0, <2>1, FilesTyped, Constants DEF Write, RunOK
  <2>3. file' \in [Tracks -> [Parts -> Files]]
        BY <1>0, <2>1, <2>2, DiskTyped DEF Write
  <2> QED BY <1>0, <1>a, <2>1, <2>3 DEF Write
<1>12. CASE \E i \in Segs : Record(i)
  <2> PICK i \in Segs : Record(i)
      BY <1>12
  <2>1. got[i] \in Versions /\ memory \in States /\ i \in Parts
        BY <1>0, Constants DEF Record, RunOK, Past
  <2>2. memory' \in States
        BY <1>0, <2>1, StatesTyped DEF Record
  <2>3. job' \in [Segs -> {"wait", "write", "written", "have", "failed"}]
        BY <1>0 DEF Record
  <2>4. since' \in 0 .. Batch - 1 /\ sidecar' \in States \cup {NoState}
        BY <1>0, <2>2, Constants DEF Record, Saving, Save
  <2>5. got' \in [Segs -> Named]
        BY <1>0 DEF Record
  <2> QED BY <1>0, <1>a, <2>2, <2>3, <2>4, <2>5 DEF Record
<1>13. CASE SegmentsEnd
      BY <1>0, <1>a, <1>13 DEF SegmentsEnd, Save
<1>14. CASE SegmentsFail
      BY <1>0, <1>a, <1>14, Constants DEF SegmentsFail
<1>15. CASE Join
      BY <1>0, <1>a, <1>15 DEF Join
<1>16. CASE Clear
  <2>1. file' \in [Tracks -> [Parts -> Files]]
        BY <1>0, <1>16, FilesTyped, DiskTyped, Constants DEF Clear
  <2>2. track' \in Tracks /\ pc' \in {"init", "mux"}
        BY <1>0, <1>16, Constants DEF Clear
  <2> QED BY <1>0, <1>a, <1>16, <2>1, <2>2 DEF Clear
<1>17. CASE Mux
      BY <1>0, <1>a, <1>17, FilesTyped, OutputsTyped DEF Mux
<1>18. CASE Finish
      BY <1>0, <1>a, <1>18, OutputsTyped, Constants DEF Finish
<1>19. CASE \E n \in Lengths : InitGrows(n)
  <2>1. file' \in [Tracks -> [Parts -> Files]]
        BY <1>0, <1>19, FilesTyped, DiskTyped, LengthsTyped, Constants DEF InitGrows
  <2> QED BY <1>0, <1>a, <1>19, <2>1 DEF InitGrows
<1>20. CASE \E n \in Lengths, i \in Segs : Grows(i, n)
  <2>1. PICK n \in Lengths, i \in Segs : Grows(i, n)
        BY <1>20
  <2>2. File(got[i], n) \in Files /\ i \in Parts
        BY <1>0, <2>1, FilesTyped, LengthsTyped, Constants DEF Grows, RunOK
  <2>3. file' \in [Tracks -> [Parts -> Files]]
        BY <1>0, <2>1, <2>2, DiskTyped DEF Grows
  <2> QED BY <1>0, <1>a, <2>1, <2>3 DEF Grows
<1>21. CASE FragmentsBreakOff
      BY <1>0, <1>a, <1>b, <1>21, OutputsTyped DEF FragmentsBreakOff
<1>22. CASE RunFails
      BY <1>0, <1>a, <1>b, <1>22, Constants DEF RunFails
<1>23. CASE MuxFails
      BY <1>0, <1>a, <1>b, <1>23, OutputsTyped, Constants DEF MuxFails
<1>24. CASE Stop
      BY <1>0, <1>a, <1>b, <1>24, OutputsTyped, Constants DEF Stop
<1>25. CASE \E i \in Segs : FetchFails(i)
      BY <1>0, <1>a, <1>b, <1>25 DEF FetchFails
<1>26. CASE \E v \in Versions : ServerChanges(v)
      BY <1>0, <1>a, <1>26 DEF ServerChanges
<1>27. CASE Done \/ UNCHANGED vars
      BY <1>0, <1>27 DEF Done, vars
<1> QED BY <1>1, <1>2, <1>3, <1>4, <1>5, <1>6, <1>7, <1>8, <1>9, <1>10, <1>11,
           <1>12, <1>13, <1>14, <1>15, <1>16, <1>17, <1>18, <1>19, <1>20, <1>21,
           <1>22, <1>23, <1>24, <1>25, <1>26, <1>27
        DEF Next, Work, Writing, Faulty

LEMMA StepRun ==
    ASSUME TInv, [Next]_vars
    PROVE  RunOK'
<1> USE DEF diskVars, runVars, envVars, Forget
<1>0. TypeOK /\ RunOK /\ TypeOK' /\ Nothing \notin Versions
      BY StepType, DashDownloadAssumption DEF TInv
<1>1. pc' \in {"load", "probe"} \cup Past => mpd' \in Versions
  <2>1. CASE FetchManifest
        BY <1>0, <2>1 DEF FetchManifest, TypeOK
  <2>2. CASE /\ mpd' = mpd
             /\ pc' \in {"load", "probe"} \cup Past => pc \in {"load", "probe"} \cup Past
        BY <1>0, <2>2 DEF RunOK
  <2>3. CASE pc' \notin {"load", "probe"} \cup Past
        BY <2>3
  <2>4. CASE Work
        BY <2>1, <2>2, <2>3, <2>4
         DEF Past, Work, Start, FragmentsFinish, Load, Probe, KeepInit, FetchInit,
         SaveInit, Partition, Fetch, Write, Record, SegmentsEnd, SegmentsFail, Join,
            Clear,
         Mux, Finish, Drained
  <2>5. CASE Writing \/ Faulty \/ Done \/ UNCHANGED vars \/ \E v \in Versions : ServerChanges(v)
        BY <2>1, <2>2, <2>3, <2>5
         DEF Past, Writing, Faulty, InitGrows, Grows, FragmentsBreakOff, RunFails,
            MuxFails,
         Stop, FetchFails, Done, ServerChanges, vars
  <2> QED BY <2>4, <2>5 DEF Next
<1>2. pc' \in {"probe"} \cup Past => memory' \in States
  <2>1. CASE Load
        BY <1>0, <2>1, FilesTyped DEF Load, Matching, RunOK, Past, TypeOK
  <2>2. CASE Probe
        BY <1>0, <2>2, FilesTyped DEF Probe, RunOK, Past
  <2>3. CASE FetchInit \/ Partition \/ \E i \in Segs : Record(i)
    <3>1. memory \in States /\ track \in Tracks /\ serves \in Versions
          BY <1>0, <2>3 DEF FetchInit, Partition, Record, RunOK, Past, TypeOK
    <3>2. CASE FetchInit
          BY <3>1, <3>2, StatesTyped, Constants DEF FetchInit
    <3>3. CASE Partition
          BY <3>1, <3>3, StatesTyped, Constants DEF Partition
    <3>4. CASE \E i \in Segs : Record(i)
      <4>1. PICK i \in Segs : Record(i)
            BY <3>4
      <4>2. got[i] \in Versions /\ i \in Parts
            BY <1>0, <4>1, Constants DEF Record, RunOK
      <4> QED BY <3>1, <4>1, <4>2, StatesTyped DEF Record
    <3> QED BY <2>3, <3>2, <3>3, <3>4
  <2>4. CASE memory' = memory /\ (pc' \in {"probe"} \cup Past => pc \in {"probe"} \cup Past)
        BY <1>0, <2>4 DEF RunOK
  <2>5. CASE pc' \notin {"probe"} \cup Past
        BY <2>5
  <2>6. CASE Work
        BY <2>1, <2>2, <2>3, <2>4, <2>5, <2>6
         DEF Past, Work, Start, FragmentsFinish, FetchManifest, KeepInit, SaveInit,
         Fetch, Write, SegmentsEnd, SegmentsFail, Join, Clear,
         Mux, Finish, Drained
  <2>7. CASE Writing \/ Faulty \/ Done \/ UNCHANGED vars \/ \E v \in Versions : ServerChanges(v)
        BY <2>1, <2>2, <2>3, <2>4, <2>5, <2>7
         DEF Past, Writing, Faulty, InitGrows, Grows, FragmentsBreakOff, RunFails,
            MuxFails,
         Stop, FetchFails, Done, ServerChanges, vars
  <2> QED BY <2>6, <2>7 DEF Next
<1>3. ASSUME NEW i \in Segs, pc' = "segments", job'[i] \in {"write", "written"}
      PROVE  got'[i] \in Versions
  <2>1. CASE Partition
        BY <1>3, <2>1 DEF Partition
  <2>2. CASE \E j \in Segs : Fetch(j) \/ Write(j) \/ Record(j) \/ FetchFails(j)
        BY <1>0, <1>3, <2>2 DEF Fetch, Write, Record, FetchFails, RunOK, TypeOK
  <2>3. CASE pc = "segments" /\ UNCHANGED <<job, got>>
        BY <1>0, <1>3, <2>3 DEF RunOK
  <2> QED BY <1>3, <2>1, <2>2, <2>3
        DEF Next, Work, Writing, Faulty, Start, FragmentsFinish,
        FetchManifest, Load, Probe, KeepInit, FetchInit, SaveInit,
        SegmentsEnd, SegmentsFail, Join, Clear, Mux, Finish, InitGrows, Grows,
        FragmentsBreakOff, RunFails, MuxFails, Stop, Done, ServerChanges, vars
<1>4. pc' = "segments" \/ InFlight' = {}
  <2>1. CASE \E j \in Segs : Fetch(j) \/ Write(j) \/ Record(j) \/ FetchFails(j)
        BY <2>1 DEF Fetch, Write, Record, FetchFails
  <2>2. CASE SegmentsEnd
        BY <2>2 DEF SegmentsEnd, InFlight
  <2>3. CASE Partition \/ job' = [i \in Segs |-> "wait"]
        BY <2>3 DEF Partition, InFlight
  <2>4. CASE job' = job /\ (pc' = "segments" \/ pc # "segments")
        BY <1>0, <2>4 DEF RunOK, InFlight
  <2> QED BY <2>1, <2>2, <2>3, <2>4
        DEF Next, Work, Writing, Faulty, Start, FragmentsFinish,
        FetchManifest, Load, Probe, KeepInit, FetchInit, SaveInit,
        SegmentsEnd, SegmentsFail, Join, Clear, Mux, Finish, InitGrows, Grows,
        FragmentsBreakOff, RunFails, MuxFails, Stop, Done, ServerChanges, vars
<1> QED BY <1>1, <1>2, <1>3, <1>4 DEF RunOK

LEMMA StepTyped == TInv /\ [Next]_vars => TInv'
BY StepType, StepRun DEF TInv

(* Every reachable state is well typed; in particular no more segments are *)
(* being fetched than there are connections.                               *)
THEOREM TypeCorrect == Spec => []TypeOK
<1>1. TInv => TypeOK
      BY DEF TInv
<1> QED BY InitTyped, StepTyped, <1>1, PTL DEF Spec

-----------------------------------------------------------------------------
(* What a resume delivers.  As long as nothing is replaced under a run,    *)
(* the parts a run counts as there are those of the version it reads: the  *)
(* state it took up was saved of that version, or the manifest or the      *)
(* anchor's validator has given the other one away.                        *)
Vouches(s, f, v) ==
    /\ s.manifest = Manifest[v] /\ s.anchor \in {Nothing, v}
    /\ \A t \in Tracks, i \in Parts : s.len[t][i] > 0 =>
          /\ s.len[t][i] = Size[v]
          /\ f[t][i].len = Size[v] => f[t][i] = Whole(v)
          /\ v \in Strong => s.anchor = v

Stale(s, v) == s.manifest # Manifest[v] \/ s.anchor \notin {Nothing, v}

(* One version's parts of a track, complete. *)
Good(J, v) == /\ J[0] = IF v \in WithInit THEN Whole(v) ELSE NoFile
              /\ \A i \in Segs : J[i] = Whole(v)

SideInv == \/ sidecar = NoState \/ Vouches(sidecar, file, serves)
           \/ changes = 1 /\ Stale(sidecar, serves)

(* From the first init segment on the state names its anchor.              *)
AnchorDue == pc \in Past /\ (pc # "init" \/ track = "audio")

MemInv ==
    /\ pc \in {"load", "probe"} \cup Past => mpd = serves
    /\ pc = "probe" => /\ memory.manifest = Manifest[serves]
                       /\ Vouches(memory, file, serves) \/ Stale(memory, serves)
    /\ pc \in Past => Vouches(memory, file, serves)
    /\ AnchorDue /\ serves \in Strong => memory.anchor = serves
    /\ pc \notin Past => track = "video"

FileInv ==
    /\ WithInit = {} => \A t \in Tracks : file[t][0] = NoFile
    /\ pc \in {"save", "plan", "segments", "join"} /\ WithInit # {}
          => file[track][0] = Whole(serves)
    /\ pc = "segments" => \A i \in Segs :
          /\ job[i] \in {"write", "written"} => got[i] = serves
          /\ job[i] \in {"written", "have"} => file[track][i] = Whole(serves)
    /\ pc = "join" => \A i \in Segs : file[track][i] = Whole(serves)

JoinInv ==
    /\ pc = "clear" => Good(joined[track], serves)
    /\ pc \in Past \ {"finish"} /\ track = "audio" => Good(joined["video"], serves)
    /\ pc = "mux" => Good(joined["audio"], serves) /\ track = "audio"
    /\ pc = "finish" => \A t \in Tracks : Good(part.of[t], serves)
    /\ pc = "done" /\ ByManifest => \A t \in Tracks : Good(delivered.of[t], serves)
    /\ pc # "done" => delivered = None

DInv == ~ moved /\ Versions \subseteq Recognised => SideInv /\ MemInv /\ FileInv /\ JoinInv

(* Either all the manifests name init segments or none does, and then the  *)
(* anchor cannot be recorded before other parts are; and the server does   *)
(* not go back to a version it had before.                                 *)
Foreseen == /\ WithInit = Versions \/ (WithInit = {} /\ Strong = {})
            /\ MaxChanges <= 1

LEMMA FilesKept ==
    ASSUME NEW s, NEW f, NEW g, NEW v, Vouches(s, f, v),
           \A t \in Tracks, i \in Parts :
              g[t][i] = f[t][i] \/ g[t][i].len # Size[v] \/ g[t][i] = Whole(v)
    PROVE  Vouches(s, g, v)
BY DEF Vouches

LEMMA NewVouches ==
    ASSUME NEW f, NEW v \in Versions
    PROVE  Vouches(NewState(v), f, v)
BY DEF Vouches, NewState

(* An intact part is one of the version the state vouches for.             *)
LEMMA IntactWhole ==
    ASSUME NEW v, Vouches(memory, file, v), NEW t \in Tracks, NEW i \in Parts,
       Intact(t, i)
    PROVE  file[t][i] = Whole(v) /\ (v \in Strong => memory.anchor = v)
BY DEF Vouches, Intact

(* What a step writes is a beginning, or the whole, of what is served.     *)
LEMMA StepFiles ==
    ASSUME TInv, Next, MemInv, FileInv
    PROVE  \A t \in Tracks, i \in Parts :
              \/ file'[t][i] = file[t][i] \/ file'[t][i].len # Size[serves]
              \/ file'[t][i] = Whole(serves)
<1> USE DEF diskVars, runVars, envVars
<1>0. /\ file \in [Tracks -> [Parts -> Files]] /\ track \in Tracks /\ serves \in Versions
      /\ Segs \subseteq Parts /\ 0 \in Parts /\ Size[serves] \in Nat /\ Size[serves] > 0
      BY Constants DEF TInv, TypeOK
<1>1. CASE FetchInit
      BY <1>0, <1>1 DEF FetchInit
<1>2. CASE \E n \in Lengths : InitGrows(n)
  <2>1. PICK n \in Lengths : InitGrows(n)
        BY <1>2
  <2>2. n \in Nat /\ n < Size[serves] /\ File(serves, n).len # Size[serves]
        BY <1>0, <2>1, LengthsTyped DEF InitGrows, File
  <2> QED BY <1>0, <2>1, <2>2 DEF InitGrows
<1>3. CASE \E n \in Lengths, i \in Segs : Grows(i, n)
  <2>1. PICK n \in Lengths, i \in Segs : Grows(i, n)
        BY <1>3
  <2>2. got[i] = serves
        BY <2>1 DEF Grows, FileInv
  <2>3. n \in Nat /\ n < Size[serves] /\ File(serves, n).len # Size[serves]
        BY <1>0, <2>1, <2>2, LengthsTyped DEF Grows, File
  <2> QED BY <1>0, <2>1, <2>2, <2>3 DEF Grows
<1>4. CASE \E i \in Segs : Write(i)
      BY <1>0, <1>4 DEF Write, FileInv
<1>5. CASE Clear
  <2>1. \A i \in Parts : NoParts[i].len # Size[serves]
        BY <1>0 DEF NoParts, NoFile, File
  <2> QED BY <1>0, <1>5, <2>1 DEF Clear
<1>6. CASE file' = file
      BY <1>6
<1> QED BY <1>1, <1>2, <1>3, <1>4, <1>5, <1>6
        DEF Next, Work, Writing, Faulty, Start, FragmentsFinish, FetchManifest, Load,
           Probe,
        KeepInit, SaveInit, Partition, Fetch, Record, SegmentsEnd, SegmentsFail,
           Join, Mux,
        Finish, FragmentsBreakOff, RunFails, MuxFails, Stop, FetchFails, Done,
           ServerChanges,
        vars
(* Between two runs a replacement turns a state that vouched for what was  *)
(* served into one the next run recognises.                                *)
LEMMA ServerReplaces ==
    ASSUME TInv, DInv, Foreseen, NEW v \in Versions, ServerChanges(v)
    PROVE  DInv'
<1> SUFFICES ASSUME ~ moved', Versions \subseteq Recognised
             PROVE  SideInv' /\ MemInv' /\ FileInv' /\ JoinInv'
    BY DEF DInv, Recognised
<1> USE DEF diskVars, runVars, envVars
<1>0. /\ pc \in {"idle", "fragments"} /\ ~ moved /\ pc' = pc /\ changes' = 1 /\ changes = 0
      /\ serves' = v /\ v # serves /\ serves \in Versions
      /\ UNCHANGED <<sidecar, file, track, delivered>>
  <2>1. ~ Reading /\ ~ moved /\ pc # "done"
        BY DEF ServerChanges
  <2>2. changes \in Nat /\ changes < MaxChanges /\ changes' = changes + 1
        BY DEF ServerChanges, TInv, TypeOK
  <2>3. changes = 0
        BY <2>2, DashDownloadAssumption DEF Foreseen
  <2> QED BY <2>1, <2>2, <2>3 DEF ServerChanges, Reading, TInv, TypeOK
<1>1. SideInv /\ MemInv /\ FileInv /\ JoinInv
      BY <1>0 DEF DInv
<1>2. SideInv'
  <2>1. CASE sidecar = NoState
        BY <1>0, <2>1 DEF SideInv
  <2>2. CASE sidecar # NoState
    <3>1. Vouches(sidecar, file, serves)
          BY <1>0, <1>1, <2>2 DEF SideInv
    <3>2. CASE Stale(sidecar, v)
          BY <1>0, <3>2 DEF SideInv
    <3>3. CASE ~ Stale(sidecar, v)
      <4>1. Manifest[v] = Manifest[serves] /\ sidecar.anchor = Nothing
            /\ sidecar.manifest = Manifest[v]
            BY <1>0, <3>1, <3>3 DEF Stale, Vouches
      <4>2. serves \in Strong
            BY <1>0, <4>1 DEF Recognised
      <4>3. \A t \in Tracks, i \in Parts : ~ (sidecar.len[t][i] > 0)
            BY <1>0, <3>1, <4>1, <4>2, DashDownloadAssumption DEF Vouches
      <4>4. Vouches(sidecar, file, v)
            BY <4>1, <4>3 DEF Vouches
      <4> QED BY <1>0, <4>4 DEF SideInv
    <3> QED BY <3>2, <3>3
  <2> QED BY <2>1, <2>2
<1>3. MemInv'
      BY <1>0, <1>1 DEF MemInv, AnchorDue, Past
<1>4. FileInv'
      BY <1>0, <1>1 DEF FileInv
<1>5. JoinInv'
      BY <1>0, <1>1 DEF JoinInv, Past
<1> QED BY <1>2, <1>3, <1>4, <1>5

(* Otherwise what is served stays. *)
LEMMA Served ==
    ASSUME TInv, Next, ~ \E v \in Versions : ServerChanges(v)
    PROVE  UNCHANGED <<serves, moved, changes>> /\ serves \in Versions
BY DEF Next, Work, Writing, Faulty, Start, FragmentsFinish, FetchManifest, Load,
   Probe,
    KeepInit, FetchInit, SaveInit, Partition, Fetch, Write, Record, SegmentsEnd,
    SegmentsFail, Join, Clear, Mux, Finish, Drained, InitGrows, Grows,
    FragmentsBreakOff, RunFails, MuxFails, Stop, FetchFails, Done, ServerChanges,
       vars,
    diskVars, runVars, envVars, TInv, TypeOK

LEMMA StepMem ==
    ASSUME TInv, Next, Foreseen, SideInv, MemInv, FileInv,
           ~ \E v \in Versions : ServerChanges(v)
    PROVE  MemInv'
<1> USE DEF diskVars, runVars, envVars, Forget
<1>0. /\ serves' = serves /\ serves \in Versions /\ TypeOK /\ RunOK /\ track \in Tracks
      /\ Nothing \notin Versions
      BY Served, DashDownloadAssumption DEF TInv, TypeOK
<1>f. \A s : Vouches(s, file, serves) => Vouches(s, file', serves)
      BY StepFiles, FilesKept
<1>1. pc' \in {"load", "probe"} \cup Past => mpd' = serves
  <2>1. CASE FetchManifest
        BY <2>1 DEF FetchManifest
  <2>2. CASE /\ mpd' = mpd
             /\ pc' \in {"load", "probe"} \cup Past => pc \in {"load", "probe"} \cup Past
        BY <2>2 DEF MemInv
  <2>3. CASE pc' \notin {"load", "probe"} \cup Past
        BY <2>3
  <2> QED BY <1>0, <2>1, <2>2, <2>3 
        DEF Next, Work, Writing, Faulty, Start, FragmentsFinish, Load, Probe,
           KeepInit,
        FetchInit, SaveInit, Partition, Fetch, Write, Record, SegmentsEnd,
           SegmentsFail,
        Join, Clear, Mux, Finish, Drained, InitGrows, Grows, FragmentsBreakOff,
        RunFails, MuxFails, Stop, FetchFails, Done, vars, Past
<1>2. pc' \notin Past => track' = "video"
  <2>1. CASE pc' \in Past \/ track' = "video"
        BY <2>1
  <2>2. CASE track' = track /\ pc \notin Past
        BY <2>2 DEF MemInv
  <2> QED BY <2>1, <2>2 
        DEF Next, Work, Writing, Faulty, Start, FragmentsFinish, FetchManifest, Load,
        Probe, KeepInit, FetchInit, SaveInit, Partition, Fetch, Write, Record,
        SegmentsEnd, SegmentsFail, Join, Clear, Mux, Finish, Drained, InitGrows,
           Grows,
        FragmentsBreakOff, RunFails, MuxFails, Stop, FetchFails, Done, vars, Past
<1>3. CASE Load
  <2>1. mpd = serves /\ track = "video" /\ track' = "video" /\ pc' \in {"probe", "init"} /\ file' = file
        /\ (pc' = "probe" <=> memory'.anchor # Nothing)
        BY <1>3 DEF Load, MemInv, Past
  <2>2. CASE Matching
    <3>1. memory' = sidecar /\ sidecar.manifest = Manifest[serves]
          BY <1>3, <2>1, <2>2 DEF Load, Matching
    <3>2. Vouches(sidecar, file, serves) \/ Stale(sidecar, serves)
          BY <2>2 DEF SideInv, Matching
    <3>3. pc' = "init" => Vouches(sidecar, file, serves)
          BY <2>1, <3>1, <3>2 DEF Stale
    <3> QED BY <1>0, <1>1, <2>1, <3>1, <3>2, <3>3 DEF MemInv, Past, AnchorDue
  <2>3. CASE ~ Matching
    <3>1. memory' = NewState(serves) /\ NewState(serves).anchor = Nothing
          BY <1>3, <2>1, <2>3 DEF Load, NewState
    <3> QED BY <1>0, <1>1, <2>1, <3>1, NewVouches DEF MemInv, Past, AnchorDue
  <2> QED BY <2>2, <2>3
<1>4. CASE Probe
  <2>1. mpd = serves /\ track = "video" /\ track' = "video" /\ pc = "probe" /\ pc' = "init"
        /\ file' = file
        BY <1>4 DEF Probe, MemInv, Past
  <2>2. Vouches(memory', file, serves)
    <3>1. CASE serves = memory.anchor
          BY <1>4, <2>1, <3>1 DEF Probe, MemInv, Stale
    <3>2. CASE serves # memory.anchor
          BY <1>0, <1>4, <2>1, <3>2, NewVouches DEF Probe
    <3> QED BY <3>1, <3>2
  <2> QED BY <1>0, <1>1, <2>1, <2>2 DEF MemInv, Past, AnchorDue
<1>5. CASE KeepInit
  <2>1. UNCHANGED <<memory, track, file>> /\ pc' = "plan" /\ pc = "init" /\ mpd = serves
        BY <1>5 DEF KeepInit, MemInv, Past
  <2>2. serves \in Strong => memory.anchor = serves
    <3>1. SUFFICES ASSUME serves \in Strong PROVE memory.anchor = serves
          OBVIOUS
    <3>2. Intact(track, 0)
          BY <1>0, <1>5, <2>1, <3>1 DEF KeepInit, Foreseen
    <3> QED BY <1>0, <2>1, <3>1, <3>2, IntactWhole, Constants DEF MemInv, Past
  <2> QED BY <1>0, <1>1, <2>1, <2>2 DEF MemInv, Past, AnchorDue
<1>6. CASE FetchInit
  <2>1. /\ pc = "init" /\ pc' = "save" /\ track' = track /\ memory \in States
        /\ Vouches(memory, file, serves) /\ Vouches(memory, file', serves)
        /\ file' = [file EXCEPT ![track][0] = Whole(serves)]
        BY <1>0, <1>6, <1>f DEF FetchInit, MemInv, Past, RunOK
  <2>2. /\ memory'.manifest = memory.manifest
        /\ memory'.anchor \in {Nothing, serves}
        /\ serves \in Strong => memory'.anchor = serves
    <3>1. CASE track = "video"
      <4>1. memory' = Anchored(Recorded("video", 0, serves), serves)
            BY <1>6, <3>1 DEF FetchInit
      <4>2. /\ Recorded("video", 0, serves).manifest = memory.manifest
            /\ Recorded("video", 0, serves).anchor = memory.anchor
            /\ Recorded("video", 0, serves) \in States
            BY <1>0, <2>1, StatesTyped, Constants DEF Recorded, States
      <4>3. memory.anchor \in {Nothing, serves}
            BY <2>1 DEF Vouches
      <4> HIDE DEF Recorded
      <4>4. CASE memory.anchor = Nothing /\ serves \in Strong
            BY <4>1, <4>2, <4>4 DEF Anchored, States
      <4>5. CASE ~ (memory.anchor = Nothing /\ serves \in Strong)
            BY <4>1, <4>2, <4>3, <4>5 DEF Anchored
      <4> QED BY <4>4, <4>5
    <3>2. CASE track # "video"
      <4>1. memory' = Recorded(track, 0, serves) /\ track = "audio"
            BY <1>0, <1>6, <3>2 DEF FetchInit, Tracks
      <4>2. memory'.manifest = memory.manifest /\ memory'.anchor = memory.anchor
            BY <2>1, <4>1 DEF Recorded, States
      <4> QED BY <2>1, <4>1, <4>2 DEF MemInv, AnchorDue, Past, Vouches
    <3> QED BY <3>1, <3>2
  <2>3. \A t \in Tracks, i \in Parts :
           memory'.len[t][i] = IF t = track /\ i = 0 THEN Size[serves] ELSE memory.len[t][i]
        BY <1>0, <1>6, <2>1, Constants DEF FetchInit, Recorded, Anchored, States
  <2>4. file'[track][0] = Whole(serves)
        BY <1>0, <2>1, Constants DEF TypeOK
  <2>5. Vouches(memory', file', serves)
        BY <2>1, <2>2, <2>3, <2>4 DEF Vouches
  <2> QED BY <1>0, <1>1, <2>1, <2>2, <2>5 DEF MemInv, Past, AnchorDue
<1>7. CASE \E i \in Segs : Record(i)
  <2> PICK i \in Segs : Record(i)
      BY <1>7
  <2>1. /\ pc = "segments" /\ pc' = "segments" /\ track' = track /\ memory \in States
        /\ file' = file /\ Vouches(memory, file, serves) /\ mpd = serves
        /\ got[i] = serves /\ file[track][i] = Whole(serves) /\ i \in Parts
        /\ serves \in Strong => memory.anchor = serves
        BY <1>0, Constants DEF Record, MemInv, Past, RunOK, FileInv, AnchorDue
  <2>2. memory' = Recorded(track, i, serves)
    <3>1. CASE mpd \in WithInit
          BY <2>1, <3>1 DEF Record
    <3>2. CASE mpd \notin WithInit
      <4>1. serves \notin Strong
            BY <1>0, <2>1, <3>2 DEF Foreseen
      <4> QED BY <2>1, <4>1 DEF Record, Anchored
    <3> QED BY <3>1, <3>2
  <2>3. /\ memory'.manifest = memory.manifest /\ memory'.anchor = memory.anchor
        /\ \A t \in Tracks, j \in Parts :
           memory'.len[t][j] = IF t = track /\ j = i THEN Size[serves] ELSE memory.len[t][j]
        BY <1>0, <2>1, <2>2 DEF Recorded, States
  <2>4. Vouches(memory', file', serves)
        BY <2>1, <2>3 DEF Vouches
  <2> QED BY <1>0, <1>1, <2>1, <2>3, <2>4 DEF MemInv, Past, AnchorDue
<1>8. CASE Partition
  <2>1. /\ pc = "plan" /\ pc' = "segments" /\ track' = track /\ memory \in States
        /\ file' = file /\ Vouches(memory, file, serves)
        /\ serves \in Strong => memory.anchor = serves
        BY <1>0, <1>8 DEF Partition, MemInv, Past, RunOK, AnchorDue
  <2>2. /\ memory'.manifest = memory.manifest /\ memory'.anchor = memory.anchor
        /\ \A t \in Tracks, j \in Parts : memory'.len[t][j] \in {0, memory.len[t][j]}
        BY <1>0, <1>8, <2>1 DEF Partition, Kept, States
  <2>3. Vouches(memory', file', serves)
        BY <2>1, <2>2 DEF Vouches
  <2> QED BY <1>0, <1>1, <2>1, <2>2, <2>3 DEF MemInv, Past, AnchorDue
<1>9. CASE Clear
  <2>1. /\ pc = "clear" /\ pc' \in {"init", "mux"} /\ memory' = memory
        /\ Vouches(memory, file', serves) /\ (serves \in Strong => memory.anchor = serves)
        BY <1>9, <1>f DEF Clear, MemInv, Past, AnchorDue
  <2> QED BY <1>0, <1>1, <2>1 DEF MemInv, Past, AnchorDue
<1>10. CASE /\ memory' = memory /\ track' = track /\ pc' # "probe" /\ pc \in Past /\ pc' \in Past
            /\ pc' = pc \/ pc # "init"
       BY <1>0, <1>1, <1>2, <1>10, <1>f DEF MemInv, Past, AnchorDue
<1>11. CASE pc' \notin Past \cup {"probe"}
       BY <1>0, <1>1, <1>2, <1>11 DEF MemInv, AnchorDue
<1>12. CASE pc' = "probe" /\ UNCHANGED <<pc, file, memory>>
       BY <1>0, <1>1, <1>2, <1>12 DEF MemInv, Past, AnchorDue
<1> QED BY <1>0, <1>3, <1>4, <1>5, <1>6, <1>7, <1>8, <1>9, <1>10, <1>11, <1>12 
        DEF Next, Work, Writing, Faulty, Start, FragmentsFinish, FetchManifest,
        SaveInit, Fetch, Write, SegmentsEnd, SegmentsFail, Join, Mux, Finish, Drained,
        InitGrows, Grows, FragmentsBreakOff, RunFails, MuxFails, Stop, FetchFails,
           Done,
        vars, Past
LEMMA StepSide ==
    ASSUME TInv, Next, Foreseen, SideInv, MemInv, FileInv,
           ~ \E v \in Versions : ServerChanges(v)
    PROVE  SideInv'
<1> USE DEF diskVars, runVars, envVars
<1>0. serves' = serves /\ changes' = changes /\ MemInv'
      BY Served, StepMem
<1>f. \A s : Vouches(s, file, serves) => Vouches(s, file', serves)
      BY StepFiles, FilesKept
<1>1. CASE sidecar' = sidecar
      BY <1>0, <1>1, <1>f DEF SideInv
<1>2. CASE sidecar' = NoState
      BY <1>2 DEF SideInv
<1>3. CASE SaveInit \/ SegmentsEnd \/ SegmentsFail
  <2>1. Vouches(memory, file, serves) /\ file' = file /\ sidecar' \in {sidecar, memory}
        BY <1>3 DEF SaveInit, SegmentsEnd, SegmentsFail, Drained, Save, MemInv, Past
  <2> QED BY <1>0, <1>1, <2>1 DEF SideInv
<1>4. CASE \E i \in Segs : Record(i)
  <2>1. pc' = "segments" /\ sidecar' \in {sidecar, memory'}
        BY <1>4 DEF Record, Saving, Save
  <2>2. Vouches(memory', file', serves)
        BY <1>0, <2>1 DEF MemInv, Past
  <2> QED BY <1>0, <1>1, <2>1, <2>2 DEF SideInv
<1> QED BY <1>1, <1>2, <1>3, <1>4
        DEF Next, Work, Writing, Faulty, Start, FragmentsFinish, FetchManifest, Load,
        Probe, KeepInit, FetchInit, Partition, Fetch, Write, Join, Clear, Mux, Finish,
        Drained, InitGrows, Grows, FragmentsBreakOff, RunFails, MuxFails, Stop,
        FetchFails, Done, vars

LEMMA StepFile ==
    ASSUME TInv, Next, Foreseen, MemInv, FileInv,
           ~ \E v \in Versions : ServerChanges(v)
    PROVE  FileInv'
<1> USE DEF diskVars, runVars, envVars, Forget
<1>0. /\ serves' = serves /\ serves \in Versions /\ TypeOK /\ RunOK /\ track \in Tracks
      /\ file \in [Tracks -> [Parts -> Files]] /\ 0 \in Parts /\ Segs \subseteq Parts
      /\ 0 \notin Segs
      BY Served, Constants DEF TInv, TypeOK, Segs
<1>1. WithInit = {} => \A t \in Tracks : file'[t][0] = NoFile
  <2> SUFFICES ASSUME WithInit = {}, NEW t \in Tracks PROVE file'[t][0] = NoFile
      OBVIOUS
  <2>0. file[t][0] = NoFile
        BY DEF FileInv
  <2>1. ~ FetchInit /\ ~ \E n \in Lengths : InitGrows(n)
        BY DEF FetchInit, InitGrows
  <2>2. CASE \E j \in Segs : Write(j) \/ \E n \in Lengths : Grows(j, n)
        BY <1>0, <2>0, <2>2 DEF Write, Grows
  <2>3. CASE Clear
        BY <1>0, <2>0, <2>3 DEF Clear, NoParts
  <2>4. CASE file' = file
        BY <2>0, <2>4
  <2> QED BY <2>1, <2>2, <2>3, <2>4
        DEF Next, Work, Writing, Faulty, Start, FragmentsFinish, FetchManifest, Load,
        Probe, KeepInit, SaveInit, Partition, Fetch, Record, SegmentsEnd,
           SegmentsFail,
        Join, Mux, Finish, Drained, FragmentsBreakOff, RunFails, MuxFails, Stop,
        FetchFails, Done, vars
<1>2. ASSUME pc' \in {"save", "plan", "segments", "join"}, WithInit # {}
      PROVE  file'[track'][0] = Whole(serves)
  <2>1. CASE KeepInit
    <3>1. mpd \in WithInit /\ Vouches(memory, file, serves) /\ file' = file /\ track' = track
          BY <1>0, <1>2, <2>1 DEF KeepInit, MemInv, Past, Foreseen
    <3>2. Intact(track, 0)
          BY <2>1, <3>1 DEF KeepInit
    <3> QED BY <1>0, <3>1, <3>2, IntactWhole
  <2>2. CASE FetchInit
        BY <1>0, <2>2 DEF FetchInit
  <2>3. CASE \E j \in Segs : Write(j) \/ \E n \in Lengths : Grows(j, n)
        BY <1>0, <1>2, <2>3 DEF Write, Grows, FileInv
  <2>4. CASE pc \in {"save", "plan", "segments", "join"} /\ file' = file /\ track' = track
        BY <1>2, <2>4 DEF FileInv
  <2> QED BY <1>0, <1>2, <2>1, <2>2, <2>3, <2>4
        DEF Next, Work, Writing, Faulty, Start, FragmentsFinish, FetchManifest, Load,
        Probe, SaveInit, Partition, Fetch, Record, SegmentsEnd, SegmentsFail, Join,
        Clear, Mux, Finish, Drained, InitGrows, FragmentsBreakOff, RunFails, MuxFails,
        Stop, FetchFails, Done, vars
<1>3. ASSUME pc' = "segments", NEW i \in Segs
      PROVE  /\ job'[i] \in {"write", "written"} => got'[i] = serves
             /\ job'[i] \in {"written", "have"} => file'[track'][i] = Whole(serves)
  <2>1. CASE Partition
    <3>1. /\ Vouches(memory, file, serves) /\ file' = file /\ track' = track
          /\ job'[i] = IF Intact(track, i) THEN "have" ELSE "wait"
          BY <1>3, <2>1 DEF Partition, MemInv, Past
    <3> QED BY <1>0, <3>1, IntactWhole
  <2>2. CASE \E j \in Segs : Fetch(j) \/ Record(j) \/ FetchFails(j)
        BY <1>0, <1>3, <2>2 DEF Fetch, Record, FetchFails, FileInv, TypeOK
  <2>3. CASE \E j \in Segs : Write(j)
        BY <1>0, <1>3, <2>3 DEF Write, FileInv, TypeOK
  <2>4. CASE \E j \in Segs, n \in Lengths : Grows(j, n)
        BY <1>0, <1>3, <2>4 DEF Grows, FileInv, TypeOK
  <2>5. CASE pc = "segments" /\ UNCHANGED <<file, track, job, got>>
        BY <1>3, <2>5 DEF FileInv
  <2> QED BY <1>0, <1>3, <2>1, <2>2, <2>3, <2>4, <2>5
        DEF Next, Work, Writing, Faulty, Start, FragmentsFinish, FetchManifest, Load,
        Probe, KeepInit, FetchInit, SaveInit, SegmentsEnd, SegmentsFail, Join, Clear,
        Mux, Finish, Drained, InitGrows, FragmentsBreakOff, RunFails, MuxFails, Stop,
        Done, vars
<1>4. ASSUME pc' = "join", NEW i \in Segs
      PROVE  file'[track'][i] = Whole(serves)
  <2>1. CASE SegmentsEnd
        BY <2>1 DEF SegmentsEnd, Drained, FileInv
  <2>2. CASE pc = "join" /\ UNCHANGED <<file, track>>
        BY <2>2 DEF FileInv
  <2> QED BY <1>0, <1>4, <2>1, <2>2
        DEF Next, Work, Writing, Faulty, Start, FragmentsFinish, FetchManifest, Load,
        Probe, KeepInit, FetchInit, SaveInit, Partition, Fetch, Write, Record,
        SegmentsFail, Join, Clear, Mux, Finish, Drained, InitGrows, Grows,
        FragmentsBreakOff, RunFails, MuxFails, Stop, FetchFails, Done, vars
<1> QED BY <1>0, <1>1, <1>2, <1>3, <1>4 DEF FileInv

LEMMA StepJoin ==
    ASSUME TInv, Next, Foreseen, MemInv, FileInv, JoinInv,
           ~ \E v \in Versions : ServerChanges(v)
    PROVE  JoinInv'
<1> USE DEF diskVars, runVars, envVars, Forget
<1>0. /\ serves' = serves /\ serves \in Versions /\ track \in Tracks
      /\ joined \in [Tracks -> [Parts -> Files]]
      BY Served DEF TInv, TypeOK
<1>1. CASE Join
  <2>1. /\ pc = "join" /\ pc' = "clear" /\ track' = track /\ joined'[track] = file[track]
        /\ track # "video" => joined'["video"] = joined["video"]
        /\ UNCHANGED <<part, delivered>>
        BY <1>0, <1>1, Constants DEF Join
  <2>2. Good(file[track], serves)
        BY <1>0, <2>1 DEF FileInv, Good, Foreseen
  <2> QED BY <1>0, <2>1, <2>2 DEF JoinInv, Past
<1>2. CASE Clear
      BY <1>0, <1>2 DEF Clear, JoinInv, Past, Tracks
<1>3. CASE Mux
  <2>1. part'.of = joined /\ pc = "mux" /\ pc' = "finish" /\ UNCHANGED delivered
        BY <1>3 DEF Mux, Output
  <2>2. Good(joined["video"], serves) /\ Good(joined["audio"], serves)
        BY <2>1 DEF JoinInv, Past
  <2> QED BY <1>0, <2>1, <2>2 DEF JoinInv, Tracks, Past
<1>4. CASE Finish
      BY <1>0, <1>4 DEF Finish, JoinInv, Past, ByManifest
<1>5. CASE FragmentsFinish
      BY <1>0, <1>5 DEF FragmentsFinish, JoinInv, ByManifest, Chosen, Output, Past
<1>6. CASE Done
      BY <1>0, <1>6 DEF Done, vars, JoinInv, ByManifest, Past
<1>7. CASE pc' = "idle" /\ pc # "done" /\ delivered' = delivered
      BY <1>7 DEF JoinInv, Past
<1>8. CASE /\ pc' \notin {"clear", "mux", "finish", "done"} /\ pc # "done"
           /\ UNCHANGED <<joined, delivered, track>>
           /\ pc' \in Past /\ track = "audio" => pc \in Past \ {"finish"}
      BY <1>0, <1>8 DEF JoinInv, Past
<1>9. CASE \/ \E n \in Lengths : InitGrows(n) \/ \E i \in Segs : Grows(i, n)
           \/ \E i \in Segs : Fetch(i) \/ Write(i) \/ Record(i) \/ FetchFails(i)
  <2>1. pc \in {"init", "segments"} /\ UNCHANGED <<pc, joined, delivered, track>>
        BY <1>9 DEF InitGrows, Grows, Fetch, Write, Record, FetchFails
  <2> QED BY <1>8, <2>1 DEF Past
<1>10. CASE RunFails \/ MuxFails \/ Stop \/ FragmentsBreakOff \/ SegmentsFail
       BY <1>7, <1>10
       DEF RunFails, MuxFails, Stop, FragmentsBreakOff, SegmentsFail, Drained, Reading
<1>11. CASE Start \/ FetchManifest \/ Load \/ Probe
  <2>1. track = "video"
        BY <1>11 DEF Start, FetchManifest, Load, Probe, MemInv, Past
  <2> QED BY <1>8, <1>11, <2>1 DEF Start, FetchManifest, Load, Probe, Past
<1>12. CASE KeepInit \/ FetchInit \/ SaveInit \/ Partition \/ SegmentsEnd
       BY <1>8, <1>12 DEF KeepInit, FetchInit, SaveInit, Partition, SegmentsEnd,
          Drained, Past
<1> QED BY <1>1, <1>2, <1>3, <1>4, <1>5, <1>6, <1>9, <1>10, <1>11, <1>12
        DEF Next, Work, Writing, Faulty

LEMMA StepDelivers ==
    ASSUME Foreseen, TInv, DInv, [Next]_vars
    PROVE  DInv'
<1>1. CASE \E v \in Versions : ServerChanges(v)
      BY <1>1, ServerReplaces
<1>2. CASE Next /\ ~ \E v \in Versions : ServerChanges(v)
  <2> SUFFICES ASSUME ~ moved', Versions \subseteq Recognised
               PROVE  SideInv' /\ MemInv' /\ FileInv' /\ JoinInv'
      BY DEF DInv, Recognised
  <2>1. SideInv /\ MemInv /\ FileInv /\ JoinInv
        BY <1>2, Served DEF DInv
  <2> QED BY <1>2, <2>1, StepSide, StepMem, StepFile, StepJoin
<1>3. CASE UNCHANGED vars
      BY <1>3 DEF vars, DInv, Recognised, SideInv, MemInv, FileInv, JoinInv,
         AnchorDue, ByManifest
<1> QED BY <1>1, <1>2, <1>3

LEMMA InitDelivers ==
    ASSUME Foreseen, Init
    PROVE  DInv
<1>1. \A t \in Tracks : file[t][0] = NoFile
      BY Constants DEF Init, NoTracks, NoParts
<1> QED BY <1>1 DEF Init, DInv, SideInv, MemInv, FileInv, JoinInv, AnchorDue, Past,
   ByManifest

(* What a resume muxes and hands over is, in both tracks, every part of    *)
(* one version of the media, whole and in its place, whatever was torn,    *)
(* left by an earlier run or replaced on the server between two runs.      *)
THEOREM DeliveryExact ==
    ASSUME Foreseen
    PROVE  Spec => []DeliveredExact
<1>1. TInv /\ DInv => DeliveredExact
  <2> SUFFICES ASSUME TInv, DInv, ByManifest, ~ moved, Versions \subseteq Recognised
               PROVE  \E v \in Versions : \A t \in Tracks :
                         /\ \A i \in Segs : delivered.of[t][i] = Whole(v)
                         /\ delivered.of[t][0] = IF v \in WithInit THEN Whole(v) ELSE NoFile
      BY DEF DeliveredExact
  <2>1. pc = "done"
        BY DEF DInv, JoinInv, ByManifest, None, Output
  <2>2. \A t \in Tracks : Good(delivered.of[t], serves)
        BY <2>1 DEF DInv, JoinInv
  <2>3. serves \in Versions
        BY DEF TInv, TypeOK
  <2> QED BY <2>2, <2>3 DEF Good
<1> QED BY InitTyped, StepTyped, InitDelivers, StepDelivers, <1>1, PTL DEF Spec
=============================================================================

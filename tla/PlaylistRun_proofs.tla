------------------------- MODULE PlaylistRun_proofs -------------------------
(***************************************************************************)
(* For every set of episodes and every bound on failures, stops and moved  *)
(* files: type correctness and a full account of the episodes, and, for    *)
(* playlists whose titles are distinct and whose covers are below the size *)
(* check, what the runs count, archive and forget.                         *)
(***************************************************************************)
EXTENDS PlaylistRun, FiniteSetTheorems, TLAPS

USE PlaylistAssumption

(* Each episode has files of its own, and no cover passes for a video.     *)
OwnFiles ==
    /\ \A d, e \in Episodes : Title[d] = Title[e] => d = e
    /\ BigCovers = {}

-----------------------------------------------------------------------------
Flags == interrupted \in BOOLEAN /\ token \in BOOLEAN

TInv ==
    /\ file \in [Titles -> Videos \cup {None}]
    /\ cover \subseteq Titles /\ part \subseteq Titles /\ archive \subseteq Episodes
    /\ state \in Audios \cup {None} /\ audio \in Audios \cup {None}
    /\ phase \in Phases /\ task \in [Episodes -> Stages]
    /\ recording \in Episodes \cup {None}
    /\ found \subseteq Titles /\ done \subseteq Episodes /\ failed \subseteq Episodes
    /\ wave \in 0..MaxRetryWaves /\ (phase = "wait" => wave < MaxRetryWaves)
    /\ (phase # "idle" => audio # None) /\ result \in {"none", "ok", "error"}
    /\ faults \in 0..MaxFaults /\ stops \in 0..MaxStops /\ moves \in 0..MaxMoves

LEMMA InitTyped == Init => TInv
  BY DEF Init, TInv, Phases, Stages, AllOut, MaxRetryWaves

LEMMA EpisodeTyped ==
    ASSUME TInv, NEW e \in Episodes, Episode(e)
    PROVE  TInv'
<1> USE DEF TInv, Polled, Go, Stages, MaxRetryWaves, budget
<1>0. Title[e] \in Titles
      OBVIOUS
<1>1. CASE Starts(e)         BY <1>0, <1>1 DEF Starts, Phases
<1>2. CASE Transferred(e)    BY <1>0, <1>2 DEF Transferred, Phases
<1>3. CASE Finalized(e)
  <2>1. file' \in [Titles -> Videos \cup {None}]
        BY <1>0, <1>3 DEF Finalized, Videos
  <2> QED BY <1>0, <1>3, <2>1 DEF Finalized, Phases
<1>4. CASE Taken(e)          BY <1>4 DEF Taken, disk, Phases
<1>5. CASE Fails(e)          BY <1>5 DEF Fails, disk, Phases
<1>6. CASE TransferCancelled(e)
      BY <1>0, <1>6 DEF TransferCancelled, Phases
<1>7. CASE PostCancelled(e)  BY <1>0, <1>7 DEF PostCancelled, Phases
<1> QED BY <1>1, <1>2, <1>3, <1>4, <1>5, <1>6, <1>7 DEF Episode

LEMMA StepTyped == TInv /\ [Next]_vars => TInv'
<1> SUFFICES ASSUME TInv, [Next]_vars PROVE TInv'
    OBVIOUS
<1> USE DEF TInv, disk, budget, MaxRetryWaves
<1>1. CASE AllDownloaded
      BY <1>1 DEF AllDownloaded, Existing, Range, Phases
<1>2. CASE Begin
  <2>1. audio' \in Audios /\ audio' # None /\ state' \in Audios \cup {None}
        BY <1>2 DEF Begin, Select
  <2>2. task' \in [Episodes -> Stages] /\ found' \subseteq Titles
        BY <1>2 DEF Begin, Stages, Existing, Range
  <2> QED BY <1>2, <2>1, <2>2 DEF Begin, Phases
<1>3. CASE \E e \in Episodes : Episode(e)
      BY <1>3, EpisodeTyped DEF TInv
<1>4. CASE Record            BY <1>4 DEF Record
<1>5. CASE Interrupted       BY <1>5 DEF Interrupted, Polled, AllOut, Stages, Phases
<1>6. CASE Drained           BY <1>6 DEF Drained, Polled, Phases
<1>7. CASE WaveStarts        BY <1>7 DEF WaveStarts, Stages, Phases
<1>8. CASE Finish            BY <1>8 DEF Finish, Phases
<1>9. CASE Cancel            BY <1>9 DEF Cancel, run
<1>10. CASE Kill             BY <1>10 DEF Kill, AllOut, Stages, Phases
<1>11. CASE \E t \in Titles : MoveAway(t)
       BY <1>11 DEF MoveAway, run
<1>12. CASE UNCHANGED vars   BY <1>12 DEF vars, run
<1> QED BY <1>1, <1>2, <1>3, <1>4, <1>5, <1>6, <1>7, <1>8, <1>9, <1>10,
           <1>11, <1>12 DEF Next, Loop

(* Every reachable state is well typed, whatever the playlist; the waves   *)
(* are bounded although failures need not be.                              *)
THEOREM TypeCorrect == Spec => []TypeOK
<1>1. Init => Flags
      BY DEF Init, Flags
<1>2. Flags /\ [Next]_vars => Flags'
  <2> SUFFICES ASSUME Flags, [Next]_vars PROVE Flags'
      OBVIOUS
  <2> QED BY Zenon DEF Flags, Next, Loop, Episode, AllDownloaded, Begin, Starts, Transferred,
        Finalized, Taken, Fails, TransferCancelled, PostCancelled, Record,
        Interrupted, Drained, WaveStarts, Finish, Cancel, Kill, MoveAway, run, vars
<1>3. TInv /\ Flags => TypeOK
      BY DEF TInv, Flags, TypeOK
<1> QED BY <1>1, <1>2, <1>3, InitTyped, StepTyped, PTL DEF Spec

-----------------------------------------------------------------------------
(* A file under an episode's name is that episode's video.                 *)
Named ==
    /\ cover = {}
    /\ \A t \in Titles : file[t] # None => Title[file[t].ep] = t

(* Outside the two streams no episode is under way.                        *)
Stream == phase \in {"idle", "wait", "end"} => task = AllOut /\ recording = None

(* What a run has found, fetched or is about to record is on disk, and     *)
(* what it found it leaves alone.                                          *)
Counted ==
    phase # "idle" =>
        /\ found \subseteq Range(Title)
        /\ \A t \in found : file[t] # None
        /\ \A e \in Episodes : e \in done \/ task[e] = "saved" \/ recording = e => Saved(e)
        /\ \A e \in Episodes : Title[e] \in found => e \notin done \cup failed /\ task[e] = "out"

(* While a run is on, the state file holds its selection, if it is there.  *)
Selected == phase # "idle" => state \in {None, audio}

IInv == TInv /\ Named /\ Stream /\ Counted /\ Selected

LEMMA InitInv == Init => IInv
  BY InitTyped DEF Init, IInv, Named, Stream, Counted, Selected

LEMMA NamedSaved ==
    ASSUME OwnFiles, TInv, Named, NEW e \in Episodes, file[Title[e]] # None
    PROVE  Saved(e)
<1>1. Title[e] \in Titles
      OBVIOUS
<1>2. file[Title[e]] \in Videos
      BY <1>1 DEF TInv
<1>3. file[Title[e]].ep \in Episodes /\ Title[file[Title[e]].ep] = Title[e]
      BY <1>1, <1>2 DEF Named, Videos
<1> QED BY <1>3 DEF OwnFiles, Saved

LEMMA EpisodeStep ==
    ASSUME OwnFiles, IInv, NEW e \in Episodes, Episode(e)
    PROVE  IInv'
<1>0. TInv' /\ Title[e] \in Titles
      BY EpisodeTyped DEF IInv
<1>1. phase' = phase /\ phase \in {"download", "retry"} /\ found' = found
      BY DEF Episode, Starts, Transferred, Finalized, Taken, Fails,
             TransferCancelled, PostCancelled, Polled
<1>2. Stream'
      BY <1>1 DEF Stream
<1>3. Selected'
      BY <1>1 DEF IInv, Selected, Episode, Starts, Transferred, Finalized, Taken,
                  Fails, TransferCancelled, PostCancelled, disk
<1>4. Named'
  <2> USE DEF IInv, TInv, Named
  <2>1. CASE Finalized(e)
    <3>1. cover' = {}
          BY <2>1 DEF Finalized
    <3>2. ASSUME NEW t \in Titles, file'[t] # None
          PROVE  Title[file'[t].ep] = t
          BY <1>0, <2>1, <3>2 DEF Finalized
    <3> QED BY <3>1, <3>2
  <2>2. CASE ~Finalized(e)
        BY <2>2 DEF Episode, Starts, Transferred, Taken, Fails, OwnFiles,
                    TransferCancelled, PostCancelled, disk
  <2> QED BY <2>1, <2>2
<1>5. task[e] # "out" /\ Title[e] \notin found
      BY <1>1 DEF IInv, Counted, Episode, Starts, Transferred, Finalized, Taken,
                  Fails, TransferCancelled, PostCancelled, Polled
<1>6. \A t \in Titles : file[t] # None => file'[t] # None
  <2> USE DEF IInv, TInv
  <2>1. CASE Finalized(e)
        BY <1>0, <2>1 DEF Finalized
  <2>2. CASE ~Finalized(e)
        BY <2>2 DEF Episode, Starts, Transferred, Taken, Fails,
                    TransferCancelled, PostCancelled, disk
  <2> QED BY <2>1, <2>2
<1>7. ASSUME NEW d \in Episodes, Saved(d) PROVE Saved(d)'
  <2> USE DEF IInv, TInv, Saved
  <2>1. CASE Finalized(e)
        BY <1>0, <1>7, <2>1 DEF Finalized, OwnFiles
  <2>2. CASE ~Finalized(e)
        BY <1>7, <2>2 DEF Episode, Starts, Transferred, Taken, Fails,
                    TransferCancelled, PostCancelled, disk
  <2> QED BY <2>1, <2>2
<1>8. task'[e] = "saved" => Saved(e)'
      BY <1>0 DEF IInv, TInv, Saved, Episode, Starts, Transferred, Finalized,
                  Taken, Fails, TransferCancelled, PostCancelled, Go
<1>9. /\ \A d \in Episodes \ {e} :
            /\ task'[d] = task[d] /\ (d \in done' <=> d \in done)
            /\ d \in failed' <=> d \in failed
            /\ recording' = d => recording = d
      /\ e \in done' \/ recording' = e => Saved(e)'
  <2>1. CASE Taken(e)
        BY <1>1, <1>7, <2>1 DEF IInv, TInv, Taken, Go, Polled, Counted
  <2>2. CASE ~Taken(e)
        BY <1>1, <1>7, <2>2 DEF IInv, TInv, Go, Counted, Episode, Starts,
              Transferred, Finalized, Fails, TransferCancelled, PostCancelled
  <2> QED BY <2>1, <2>2
<1>10. Counted'
  <2>1. \A t \in found' : file'[t] # None
        BY <1>1, <1>6 DEF IInv, TInv, Counted
  <2>2. \A d \in Episodes : d \in done' \/ task'[d] = "saved" \/ recording' = d => Saved(d)'
        BY <1>1, <1>7, <1>8, <1>9 DEF IInv, Counted
  <2>3. \A d \in Episodes : Title[d] \in found' => d \notin done' \cup failed' /\ task'[d] = "out"
        BY <1>1, <1>5, <1>9 DEF IInv, Counted
  <2> QED BY <1>1, <2>1, <2>2, <2>3 DEF IInv, Counted
<1> QED BY <1>0, <1>2, <1>3, <1>4, <1>10 DEF IInv

(* Counting is enough: a run whose files and downloads are as many as the  *)
(* episodes has them all.                                                  *)
LEMMA AllCounted ==
    ASSUME OwnFiles, NEW F \in SUBSET Range(Title), NEW D \in SUBSET Episodes,
           \A e \in D : Title[e] \notin F,
           Cardinality(F) + Cardinality(D) = Total
    PROVE  \A e \in Episodes : Title[e] \in F \/ e \in D
<1> DEFINE G == {e \in Episodes : Title[e] \in F}
           g == [e \in G |-> Title[e]]
<1>1. g \in Bijection(G, F)
  <2>1. g \in Injection(G, F)
        BY DEF OwnFiles, Injection, IsInjective
  <2>2. \A t \in F : \E e \in G : g[e] = t
        BY DEF Range
  <2>3. g \in Surjection(G, F)
        BY <2>1, <2>2 DEF Surjection, Injection
  <2> QED BY <2>1, <2>3 DEF Bijection
<1>2. IsFiniteSet(G) /\ IsFiniteSet(D)
      BY FS_Subset
<1>3. Cardinality(F) = Cardinality(G) /\ IsFiniteSet(F)
      BY <1>1, <1>2, FS_Bijection DEF ExistsBijection
<1>4. G \cap D = {}
      OBVIOUS
<1>5. Cardinality(G \cup D) = Cardinality(G) + Cardinality(D)
  <2>1. Cardinality(G) \in Nat /\ Cardinality(D) \in Nat
        BY <1>2, FS_CardinalityType
  <2>2. Cardinality(G \cap D) = 0
        BY <1>4, FS_EmptySet
  <2>3. Cardinality(G \cup D) = Cardinality(G) + Cardinality(D) - Cardinality(G \cap D)
        BY <1>2, FS_Union
  <2> HIDE DEF G
  <2> QED BY <2>1, <2>2, <2>3
<1>6. G \cup D = Episodes
      BY <1>3, <1>5, FS_Subset DEF Total
<1> QED BY <1>6

LEMMA StepInv == OwnFiles /\ IInv /\ [Next]_vars => IInv'
<1> SUFFICES ASSUME OwnFiles, IInv, [Next]_vars PROVE IInv'
    OBVIOUS
<1>0. TInv'
      BY StepTyped DEF IInv
<1> USE DEF IInv, Named, Stream, Counted, Selected, Saved, disk, budget
<1>1. CASE AllDownloaded
      BY <1>0, <1>1 DEF AllDownloaded
<1>2. CASE Begin
  <2>1. state' \in {None, audio'}
        BY <1>0, <1>2 DEF Begin, Select, TInv
  <2>2. Existing \subseteq Range(Title) /\ \A t \in Existing : file[t] # None
        BY DEF Existing
  <2>3. \A e \in Episodes : task'[e] # "saved" /\ (Title[e] \in Existing => task'[e] = "out")
        BY <1>2 DEF Begin, ToDownload
  <2> QED BY <1>0, <1>2, <2>1, <2>2, <2>3 DEF Begin, TInv
<1>3. CASE \E e \in Episodes : Episode(e)
      BY <1>3, EpisodeStep
<1>4. CASE Record
      BY <1>0, <1>4 DEF Record, TInv
<1>5. CASE Interrupted
      BY <1>0, <1>5 DEF Interrupted, Polled, AllOut, TInv
<1>6. CASE Drained
      BY <1>0, <1>6 DEF Drained, Polled, TInv
<1>7. CASE WaveStarts
      BY <1>0, <1>7 DEF WaveStarts, AllOut, TInv
<1>8. CASE Finish
      BY <1>0, <1>8 DEF Finish
<1>9. CASE Cancel
      BY <1>0, <1>9 DEF Cancel, run
<1>10. CASE Kill
      BY <1>0, <1>10 DEF Kill
<1>11. CASE \E t \in Titles : MoveAway(t)
      BY <1>0, <1>11 DEF MoveAway, run, TInv
<1>12. CASE UNCHANGED vars
      BY <1>0, <1>12 DEF vars, run
<1> QED BY <1>1, <1>2, <1>3, <1>4, <1>5, <1>6, <1>7, <1>8, <1>9, <1>10,
           <1>11, <1>12 DEF Next, Loop

LEMMA Always == ASSUME OwnFiles PROVE Spec => []IInv
<1>1. IInv /\ [Next]_vars => IInv'
      BY StepInv
<1> QED BY <1>1, InitInv, PTL DEF Spec

-----------------------------------------------------------------------------
(* Whatever was killed, cancelled or moved before, what a run counts as    *)
(* downloaded is that episode's video, in place.                           *)
THEOREM CountSafe == ASSUME OwnFiles PROVE Spec => []CountedIsSaved
<1>1. ASSUME IInv, phase # "idle", NEW e \in Episodes, Title[e] \in found \/ e \in done
      PROVE  Saved(e)
      BY <1>1, NamedSaved DEF IInv, Counted
<1>2. IInv => CountedIsSaved
      BY <1>1 DEF CountedIsSaved
<1> QED BY <1>2, Always, PTL

(* The archive never names an episode whose video is not in place at the   *)
(* moment it is recorded.                                                  *)
THEOREM ArchivedSafe == ASSUME OwnFiles PROVE Spec => ArchiveSound
<1>1. ASSUME IInv, [Next]_vars, NEW e \in archive' \ archive PROVE Saved(e)
  <2>1. Record /\ e = recording
        BY <1>1 DEF Next, Loop, Episode, AllDownloaded, Begin, Starts, Transferred,
             Finalized, Taken, Fails, TransferCancelled, PostCancelled, Record,
             Interrupted, Drained, WaveStarts, Finish, Cancel, Kill, MoveAway,
             disk, vars
  <2> QED BY <1>1, <2>1 DEF IInv, TInv, Stream, Counted, Record
<1>2. IInv /\ [Next]_vars => [\A e \in archive' \ archive : Saved(e)]_vars
      BY <1>1
<1> QED BY <1>2, Always, PTL DEF Spec, ArchiveSound

(* No cancel, kill or failure makes a run delete the session state before  *)
(* every episode's video is in place.                                      *)
THEOREM StateKept == ASSUME OwnFiles PROVE Spec => StateUntilComplete
<1>1. ASSUME IInv, [Next]_vars, state # None, state' = None, NEW e \in Episodes
      PROVE  Saved(e)
  <2> USE DEF IInv, TInv
  <2>1. AllDownloaded \/ (Finish /\ Complete)
        BY <1>1 DEF Next, Loop, Episode, AllDownloaded, Begin, Select, Starts,
             Transferred, Finalized, Taken, Fails, TransferCancelled, PostCancelled,
             Record, Interrupted, Drained, WaveStarts, Finish, Cancel, Kill,
             MoveAway, disk, vars, Selected
  <2>2. CASE AllDownloaded
    <3>1. Existing \subseteq Range(Title) /\ \A t \in Existing : file[t] # None
          BY <1>1 DEF Existing, Named
    <3>2. Cardinality(Existing) + Cardinality({}) = Total
          BY <2>2, FS_EmptySet, FS_CardinalityType DEF AllDownloaded, Total
    <3>3. Title[e] \in Existing
          BY <3>1, <3>2, AllCounted
    <3> QED BY <1>1, <3>1, <3>3, NamedSaved
  <2>3. CASE Finish /\ Complete
    <3>1. Title[e] \in found \/ e \in done
          BY <1>1, <2>3, AllCounted DEF Finish, Complete, Counted
    <3> QED BY <1>1, <2>3, <3>1, NamedSaved DEF Finish, Counted
  <2> QED BY <2>1, <2>2, <2>3
<1>2. IInv /\ [Next]_vars =>
        [state # None /\ state' = None => \A e \in Episodes : Saved(e)]_vars
      BY <1>1
<1> QED BY <1>2, Always, PTL DEF Spec, StateUntilComplete

(* One playlist, one selection: while there is a session state, every run  *)
(* saves videos of the selection it records, and nothing changes that.     *)
THEOREM SelectionKept == ASSUME OwnFiles PROVE Spec => OneSelection
<1> DEFINE A == /\ state # None => state' \in {state, None}
                /\ \A t \in Titles :
                      state # None /\ file'[t] \notin {file[t], None} =>
                          file'[t].audio = state
<1>1. ASSUME IInv, [Next]_vars, state # None PROVE state' \in {state, None}
      BY <1>1 DEF IInv, Selected, Next, Loop, Episode, AllDownloaded, Begin, Select,
           Starts, Transferred, Finalized, Taken, Fails, TransferCancelled,
           PostCancelled, Record, Interrupted, Drained, WaveStarts, Finish, Cancel,
           Kill, MoveAway, disk, vars
<1>2. ASSUME IInv, [Next]_vars, NEW t \in Titles, state # None,
             file'[t] \notin {file[t], None}
      PROVE  file'[t].audio = state
  <2> USE DEF IInv, TInv
  <2>1. CASE \E e \in Episodes : Finalized(e)
        BY <1>2, <2>1 DEF Finalized, Selected
  <2>2. CASE \E u \in Titles : MoveAway(u)
        BY <1>2, <2>2 DEF MoveAway
  <2>3. CASE UNCHANGED file
        BY <1>2, <2>3
  <2>4. (\E e \in Episodes : Finalized(e)) \/ (\E u \in Titles : MoveAway(u))
          \/ UNCHANGED file
        BY <1>2 DEF Next, Loop, Episode, AllDownloaded, Begin, Starts, Transferred,
             Taken, Fails, TransferCancelled, PostCancelled, Record, Interrupted,
             Drained, WaveStarts, Finish, Cancel, Kill, disk, vars
  <2> QED BY <2>1, <2>2, <2>3, <2>4
<1>3. IInv /\ [Next]_vars => [A]_vars
      BY <1>1, <1>2
<1> QED BY <1>3, Always, PTL DEF Spec, OneSelection
-----------------------------------------------------------------------------
(* Nothing drops out of a run unseen: until the token is set, an episode   *)
(* that passes the filters and is neither found nor archived is            *)
(* downloaded, failed or under way.                                        *)
Covered ==
    phase # "idle" /\ ~token =>
        \A e \in Episodes \ Filtered :
            \/ Title[e] \in found
            \/ e \in archive \cup done \cup failed
            \/ task[e] # "out"

AInv == TInv /\ Stream /\ Covered

LEMMA EpisodeCovered ==
    ASSUME AInv, NEW e \in Episodes, Episode(e)
    PROVE  Stream' /\ Covered'
<1> USE DEF AInv, TInv, Covered, Go
<1>1. /\ phase' = phase /\ phase \in {"download", "retry"}
      /\ found' = found /\ archive' = archive /\ token' = token
      BY DEF Episode, Starts, Transferred, Finalized, Taken, Fails,
             TransferCancelled, PostCancelled, Polled, disk
<1>2. Stream'
      BY <1>1 DEF Stream
<1>3. \A d \in Episodes \ {e} : task'[d] = task[d]
      BY DEF Episode, Starts, Transferred, Finalized, Taken, Fails,
             TransferCancelled, PostCancelled
<1>4. done \subseteq done' /\ failed \subseteq failed'
      BY DEF Episode, Starts, Transferred, Finalized, Taken, Fails,
             TransferCancelled, PostCancelled
<1>5. token \/ task'[e] # "out" \/ e \in done' \cup failed'
  <2>1. CASE Starts(e)             BY <2>1 DEF Starts
  <2>2. CASE Transferred(e)        BY <2>2 DEF Transferred
  <2>3. CASE Finalized(e)          BY <2>3 DEF Finalized
  <2>4. CASE Taken(e)              BY <2>4 DEF Taken
  <2>5. CASE Fails(e)              BY <2>5 DEF Fails
  <2>6. CASE TransferCancelled(e)  BY <2>6 DEF TransferCancelled
  <2>7. CASE PostCancelled(e)      BY <2>7 DEF PostCancelled
  <2> QED BY <2>1, <2>2, <2>3, <2>4, <2>5, <2>6, <2>7 DEF Episode
<1>6. Covered'
      BY <1>1, <1>3, <1>4, <1>5
<1> QED BY <1>2, <1>6

LEMMA StepCovered == AInv /\ [Next]_vars => AInv'
<1> SUFFICES ASSUME AInv, [Next]_vars PROVE Stream' /\ Covered'
    BY StepTyped DEF AInv
<1> USE DEF AInv, TInv, Stream, Covered, disk, budget
<1>1. CASE AllDownloaded     BY <1>1 DEF AllDownloaded
<1>2. CASE Begin
      BY <1>2 DEF Begin, ToDownload
<1>3. CASE \E e \in Episodes : Episode(e)
      BY <1>3, EpisodeCovered
<1>4. CASE Record            BY <1>4 DEF Record
<1>5. CASE Interrupted       BY <1>5 DEF Interrupted, Polled
<1>6. CASE Drained           BY <1>6 DEF Drained, Polled
<1>7. CASE WaveStarts        BY <1>7 DEF WaveStarts, AllOut
<1>8. CASE Finish            BY <1>8 DEF Finish
<1>9. CASE Cancel            BY <1>9 DEF Cancel, run
<1>10. CASE Kill             BY <1>10 DEF Kill
<1>11. CASE \E t \in Titles : MoveAway(t)
       BY <1>11 DEF MoveAway, run
<1>12. CASE UNCHANGED vars   BY <1>12 DEF vars, run
<1> QED BY <1>1, <1>2, <1>3, <1>4, <1>5, <1>6, <1>7, <1>8, <1>9, <1>10,
           <1>11, <1>12 DEF Next, Loop

(* A run that was not cancelled accounts for every episode that passes the *)
(* filters when it ends, whatever titles the episodes share and whatever   *)
(* covers were taken for videos: found, archived, downloaded or failed.    *)
THEOREM NoneForgotten == Spec => []Accounted
<1>1. Init => AInv
      BY InitTyped DEF Init, AInv, Stream, Covered
<1>2. AInv => Accounted
      BY DEF AInv, Stream, Covered, Accounted, AllOut
<1> QED BY <1>1, <1>2, StepCovered, PTL DEF Spec
=============================================================================

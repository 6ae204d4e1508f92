------------------------ MODULE FragmentStream_proofs -----------------------
(***************************************************************************)
(* For every list of fragments, every set of versions and every bound on   *)
(* failures, losses and replacements: type correctness, that what is       *)
(* handed over is the whole list in order, of one version where the        *)
(* sidecar can tell, and that failures cost no confirmed fragment.         *)
(***************************************************************************)
EXTENDS FragmentStream, SequenceTheorems, TLAPS

USE FragmentStreamAssumption

(* Bytes that are a beginning of the stream, each at its own offset.       *)
Aligned(s) == s \in Seq(Cells) /\ \A p \in 1 .. Len(s) : s[p].at = p

(* A resume state counts fragments whose checksum is that of a beginning   *)
(* of the stream that ends where its last counted fragment does.           *)
Sound(s) == Aligned(s.sum) /\ Len(s.sum) = End[s.done]

(* Every sidecar that may come back is sound, and a running transfer has   *)
(* written, or owes, exactly what its checksum covers.  The file itself    *)
(* may hold anything between runs; only Verify lets a run trust it.        *)
IInv ==
    /\ Sound(state) /\ Sound(mem) /\ \A s \in older : Sound(s)
    /\ pc \in {"stream", "save"} => file \o queue = mem.sum
    /\ pc \notin {"stream", "save"} => queue = <<>>
    /\ pc = "remove" => file = mem.sum /\ mem.done = Total
    /\ pc = "rename" => file = mem.sum /\ mem.done = Total
    /\ DeliveredWhole

-----------------------------------------------------------------------------
LEMMA EmptyTyped == <<>> \in Seq(Cells) /\ Len(<<>>) = 0 /\ Aligned(<<>>)
  BY EmptySeq DEF Aligned

LEMMA NewStateTyped ==
    ASSUME NEW f \in {Fingerprint[v] : v \in Versions} \cup {Nothing}
    PROVE  /\ NewState(f) \in States /\ Sound(NewState(f))
           /\ NewState(f).done = 0
  BY EmptyTyped DEF NewState, States, Sound

LEMMA FunctionIsSeq ==
    ASSUME NEW n \in Nat, NEW f \in [1 .. n -> Cells]
    PROVE  f \in Seq(Cells) /\ Len(f) = n
  OBVIOUS

(* Bytes(v, i) is what the list has between two of its boundaries.         *)
LEMMA BytesTyped ==
    ASSUME NEW v \in Versions, NEW i \in Fragments
    PROVE  /\ Bytes(v, i) \in Seq(Cells)
           /\ Len(Bytes(v, i)) = End[i] - End[i - 1]
           /\ \A p \in 1 .. Len(Bytes(v, i)) :
                 Bytes(v, i)[p].at = End[i - 1] + p
<1> DEFINE n == End[i] - End[i - 1]
<1>1. n \in Nat /\ End[i - 1] \in Nat
      BY DEF Fragments
<1>2. Bytes(v, i) \in [1 .. n -> Cells]
      BY <1>1 DEF Bytes, Cells
<1>3. Bytes(v, i) \in Seq(Cells) /\ Len(Bytes(v, i)) = n
      BY <1>1, <1>2, FunctionIsSeq
<1>4. \A p \in 1 .. n : Bytes(v, i)[p].at = End[i - 1] + p
      BY <1>1 DEF Bytes
<1> QED BY <1>3, <1>4

(* Appending the next fragment to a beginning of the stream. *)
LEMMA AlignedExtends ==
    ASSUME NEW s, Aligned(s), NEW v \in Versions, NEW i \in Fragments,
           Len(s) = End[i - 1]
    PROVE  Aligned(s \o Bytes(v, i)) /\ Len(s \o Bytes(v, i)) = End[i]
<1> DEFINE b == Bytes(v, i)
<1>1. s \in Seq(Cells) /\ b \in Seq(Cells)
      BY BytesTyped DEF Aligned
<1>2. /\ s \o b \in Seq(Cells) /\ Len(s \o b) = Len(s) + Len(b)
      /\ \A p \in 1 .. Len(s) + Len(b) :
            (s \o b)[p] = IF p <= Len(s) THEN s[p] ELSE b[p - Len(s)]
      BY <1>1, ConcatProperties
<1>3. Len(s) \in Nat /\ Len(b) \in Nat
      BY <1>1, LenProperties
<1>4. End[i] \in Nat /\ End[i - 1] \in Nat
      BY DEF Fragments
<1>5. Len(s \o b) = End[i]
      BY <1>2, <1>3, <1>4, BytesTyped
<1>6. ASSUME NEW p \in 1 .. Len(s \o b)
      PROVE  (s \o b)[p].at = p
  <2>1. CASE p <= Len(s)
        BY <1>2, <1>3, <2>1 DEF Aligned
  <2>2. CASE ~(p <= Len(s))
    <3>1. p - Len(s) \in 1 .. Len(b)
          BY <1>2, <1>3, <2>2
    <3>2. b[p - Len(s)].at = End[i - 1] + (p - Len(s))
          BY <3>1, BytesTyped
    <3>3. (s \o b)[p] = b[p - Len(s)]
          BY <1>2, <1>3, <2>2
    <3> QED BY <1>3, <1>4, <3>2, <3>3
  <2> QED BY <2>1, <2>2
<1> QED BY <1>2, <1>5, <1>6 DEF Aligned

(* The bytes that reach the file are of the type of the file. *)
LEMMA LandTyped ==
    ASSUME file \in Seq(Cells), queue \in Seq(Cells),
           NEW m \in 0 .. Len(queue), Land(m)
    PROVE  file' \in Seq(Cells) /\ queue' = <<>>
<1>1. Len(queue) \in Nat
      BY LenProperties
<1>2. \A p \in 1 .. m : queue[p] \in Cells
      BY <1>1, ElementOfSeq
<1>3. SubSeq(queue, 1, m) \in Seq(Cells)
      BY <1>1, <1>2, SubSeqProperties
<1> QED BY <1>3, ConcatProperties DEF Land

LEMMA OwedLands ==
    ASSUME queue \in Seq(Cells), NEW m \in Owed
    PROVE  m \in 0 .. Len(queue)
  BY LenProperties DEF Owed

LEMMA PowerLossTyped ==
    ASSUME TypeOK, PowerLoss
    PROVE  file' \in Seq(Cells)
<1> DEFINE w == file \o queue
<1>1. w \in Seq(Cells)
      BY ConcatProperties DEF TypeOK
<1>2. PICK n \in 0 .. Len(w) : \E lost \in SUBSET (1 .. n) :
          file' = [p \in 1 .. n |-> IF p \in lost THEN Hole ELSE w[p]]
      BY DEF PowerLoss
<1>3. PICK lost \in SUBSET (1 .. n) :
          file' = [p \in 1 .. n |-> IF p \in lost THEN Hole ELSE w[p]]
      BY <1>2
<1>4. n \in Nat /\ \A p \in 1 .. n : w[p] \in Cells
      BY <1>1, LenProperties, ElementOfSeq
<1>5. file' \in [1 .. n -> Cells]
      BY <1>3, <1>4 DEF Hole, Cells
<1> QED BY <1>4, <1>5

-----------------------------------------------------------------------------
(* A run that is about to resume has a file that reaches its boundary.     *)
TInv == /\ TypeOK
        /\ pc \in {"probe", "open"} /\ mem.done > 0
              => Len(mem.sum) <= Len(file)

LEMMA InitTyped == Init => TInv
<1> SUFFICES ASSUME Init PROVE TInv
    OBVIOUS
<1>1. NoState \in States
      BY NewStateTyped DEF NoState
<1>2. serves \in [Urls -> Versions] /\ 1 \in Urls
      BY DEF Init, Urls
<1>3. ahead \in [Fragments -> Versions \cup {Nothing}]
      BY DEF Init, NotFetched
<1>4. file \in Seq(Cells) /\ queue \in Seq(Cells) /\ delivered \in Seq(Cells)
      BY EmptyTyped DEF Init
<1>5. /\ changes \in 0 .. MaxChanges /\ faults \in 0 .. MaxFaults
      /\ losses \in 0 .. MaxLosses
      BY DEF Init
<1>6. TypeOK
      BY <1>1, <1>2, <1>3, <1>4, <1>5 DEF Init, TypeOK
<1> QED BY <1>6 DEF Init, TInv

LEMMA NextUrlTyped ==
    ASSUME TypeOK, NextUrl
    PROVE  url' \in Urls /\ pc' \in {"load", "idle"}
  BY DEF TypeOK, NextUrl, Urls

LEMMA TakeTyped ==
    ASSUME TypeOK, Take
    PROVE  /\ file' \in Seq(Cells) /\ queue' \in Seq(Cells)
           /\ mem' \in States
           /\ ahead' \in [Fragments -> Versions \cup {Nothing}]
<1> DEFINE i == mem.done + 1
           v == ahead[i]
<1>1. mem \in States /\ mem.done \in 0 .. Total /\ mem.sum \in Seq(Cells)
      BY DEF TypeOK, States
<1>2. i \in Fragments /\ mem.done < Total
      BY <1>1 DEF Take, Fragments
<1>3. v \in Versions
      BY <1>2 DEF Take, TypeOK
<1>4. Bytes(v, i) \in Seq(Cells)
      BY <1>2, <1>3, BytesTyped
<1>5. file' \in Seq(Cells) /\ queue' \in Seq(Cells)
      BY <1>4, ConcatProperties DEF Take, TypeOK
<1>6. mem.sum \o Bytes(v, i) \in Seq(Cells)
      BY <1>1, <1>4, ConcatProperties
<1>7. mem' = [mem EXCEPT !.done = i, !.sum = mem.sum \o Bytes(v, i),
                         !.anchor = IF i = 1 THEN Validator(v) ELSE mem.anchor]
      BY DEF Take
<1>8. (IF i = 1 THEN Validator(v) ELSE mem.anchor) \in Strong \cup {Nothing}
      BY <1>1 DEF Validator, States
<1>9. i \in 0 .. Total
      BY <1>2 DEF Fragments
<1>10. mem' \in States
  <2> HIDE DEF i, v
  <2> QED BY <1>1, <1>6, <1>7, <1>8, <1>9 DEF States
<1>11. ahead' \in [Fragments -> Versions \cup {Nothing}]
       BY DEF Take, TypeOK
<1> QED BY <1>5, <1>10, <1>11

LEMMA StepTyped == TInv /\ [Next]_vars => TInv'
<1> SUFFICES ASSUME TInv, [Next]_vars PROVE TInv'
    OBVIOUS
<1> USE DEF TInv, TypeOK, diskVars, envVars
<1>1. CASE Start
      BY <1>1 DEF Start, Urls
<1>2. CASE Load
  <2> DEFINE new == NewState(Fingerprint[serves[url]])
  <2>1. new \in States /\ new.done = 0
        BY NewStateTyped
  <2>2. \/ mem' = state /\ Len(file) >= Len(state.sum)
        \/ mem' = new
        BY <1>2 DEF Load, Resumable
  <2>3. Len(state.sum) \in Nat /\ Len(file) \in Nat
        BY LenProperties DEF States
  <2> HIDE DEF new
  <2>4. mem' \in States /\ (mem'.done > 0 => Len(mem'.sum) <= Len(file))
        BY <2>1, <2>2, <2>3
  <2> QED BY <1>2, <2>4 DEF Load
<1>3. CASE Confirmed
      BY <1>3 DEF Confirmed
<1>4. CASE Changed
  <2>1. NewState(mem.print) \in States /\ NewState(mem.print).done = 0
        BY NewStateTyped DEF States
  <2> QED BY <1>4, <2>1 DEF Changed
<1>5. CASE OpenResumed
  <2>1. /\ file' = SubSeq(file, 1, Len(mem.sum))
        /\ Len(mem.sum) \in 0 .. Len(file)
        BY <1>5, LenProperties DEF OpenResumed, States
  <2>2. file' \in Seq(Cells)
        BY <2>1, LenProperties, ElementOfSeq, SubSeqProperties
  <2> QED BY <1>5, <2>2 DEF OpenResumed
<1>6. CASE OpenFresh
      BY <1>6, EmptyTyped DEF OpenFresh, NotFetched
<1>7. CASE Verify
  <2>1. NewState(mem.print) \in States /\ NewState(mem.print).done = 0
        BY NewStateTyped DEF States
  <2> QED BY <1>7, <2>1 DEF Verify, NotFetched
<1>8. CASE \E i \in Fragments : Fetch(i)
      BY <1>8 DEF Fetch
<1>9. CASE Take
      BY <1>9, TakeTyped DEF Take
<1>10. CASE Save
       BY <1>10 DEF Save
<1>11. CASE SidecarFails
       BY <1>11 DEF SidecarFails
<1>12. CASE Finish
       BY <1>12, ConcatProperties, EmptyTyped DEF Finish
<1>13. CASE RemoveState
       BY <1>13, NewStateTyped DEF RemoveState, NoState
<1>14. CASE FinalizePart
       BY <1>14, EmptyTyped DEF FinalizePart
<1>15. CASE AttemptFails
  <2>1. file' \in Seq(Cells) /\ queue' = <<>>
        BY <1>15, OwedLands, LandTyped DEF AttemptFails
  <2> QED BY <1>15, <2>1, EmptyTyped, NextUrlTyped DEF AttemptFails
<1>16. CASE Cancel
  <2>1. Len(queue) \in 0 .. Len(queue)
        BY LenProperties
  <2>2. file' \in Seq(Cells) /\ queue' = <<>>
        BY <1>16, <2>1, OwedLands, LandTyped DEF Cancel
  <2> QED BY <1>16, <2>2, EmptyTyped DEF Cancel
<1>17. CASE CancelDiscard
       BY <1>17, EmptyTyped DEF CancelDiscard
<1>18. CASE Kill
  <2>1. file' \in Seq(Cells) /\ queue' = <<>>
        BY <1>18, LandTyped DEF Kill
  <2> QED BY <1>18, <2>1, EmptyTyped DEF Kill
<1>19. CASE PowerLoss
  <2>1. file' \in Seq(Cells)
        BY <1>19, PowerLossTyped
  <2>2. state' \in States
        BY <1>19, NewStateTyped DEF PowerLoss, NoState
  <2> QED BY <1>19, <2>1, <2>2, EmptyTyped DEF PowerLoss
<1>20. CASE \E u \in Urls, w \in Versions : ServerChanges(u, w)
       BY <1>20 DEF ServerChanges
<1>21. CASE UNCHANGED vars
       BY <1>21 DEF vars
<1> QED BY <1>1, <1>2, <1>3, <1>4, <1>5, <1>6, <1>7, <1>8, <1>9, <1>10,
           <1>11, <1>12, <1>13, <1>14, <1>15, <1>16, <1>17, <1>18, <1>19,
           <1>20, <1>21 DEF Next, Work

(* Every reachable state is well typed, whatever the list and the faults.  *)
THEOREM TypeCorrect == Spec => []TypeOK
<1>1. TInv => TypeOK
      BY DEF TInv
<1> QED BY InitTyped, StepTyped, <1>1, PTL DEF Spec

-----------------------------------------------------------------------------
LEMMA InitSafe == Init => IInv
<1> SUFFICES ASSUME Init PROVE IInv
    OBVIOUS
<1>1. Sound(NoState)
      BY NewStateTyped DEF NoState
<1> QED BY <1>1 DEF Init, IInv, DeliveredWhole

(* The next fragment continues what the checksum covers. *)
LEMMA TakeSafe ==
    ASSUME TypeOK, IInv, Take
    PROVE  Sound(mem') /\ file' \o queue' = mem'.sum
<1> DEFINE i == mem.done + 1
           v == ahead[i]
<1>1. mem \in States /\ mem.done \in 0 .. Total /\ mem.sum \in Seq(Cells)
      BY DEF TypeOK, States
<1>2. i \in Fragments /\ i - 1 = mem.done
      BY <1>1 DEF Take, Fragments
<1>3. v \in Versions
      BY <1>2 DEF Take, TypeOK
<1>4. Aligned(mem.sum) /\ Len(mem.sum) = End[i - 1]
      BY <1>2 DEF IInv, Sound
<1>5. /\ Aligned(mem.sum \o Bytes(v, i))
      /\ Len(mem.sum \o Bytes(v, i)) = End[i]
  <2> HIDE DEF i, v
  <2> QED BY <1>2, <1>3, <1>4, AlignedExtends
<1>6. mem'.done = i /\ mem'.sum = mem.sum \o Bytes(v, i)
      BY <1>1 DEF Take, States
<1>7. file' = mem.sum /\ queue' = Bytes(v, i)
      BY DEF Take, IInv
<1> QED BY <1>5, <1>6, <1>7 DEF Sound

LEMMA FinishSafe ==
    ASSUME TypeOK, IInv, FinalizePart
    PROVE  DeliveredWhole'
<1>1. delivered' = mem.sum /\ mem.done = Total
      BY DEF FinalizePart, IInv
<1>2. Aligned(mem.sum) /\ Len(mem.sum) = End[Total]
      BY <1>1 DEF IInv, Sound
<1> QED BY <1>1, <1>2 DEF DeliveredWhole, Aligned

LEMMA StepSafe == TypeOK /\ IInv /\ [Next]_vars => IInv'
<1> SUFFICES ASSUME TypeOK, IInv, [Next]_vars PROVE IInv'
    OBVIOUS
<1> USE DEF IInv, diskVars, envVars
<1>1. CASE Start
      BY <1>1 DEF Start, DeliveredWhole
<1>2. CASE Load
  <2>1. Sound(NewState(Fingerprint[serves[url]]))
        BY NewStateTyped DEF TypeOK
  <2> QED BY <1>2, <2>1 DEF Load, DeliveredWhole
<1>3. CASE Confirmed
      BY <1>3 DEF Confirmed, DeliveredWhole
<1>4. CASE Changed
  <2>1. Sound(NewState(mem.print))
        BY NewStateTyped DEF TypeOK, States
  <2> QED BY <1>4, <2>1 DEF Changed, DeliveredWhole
<1>5. CASE OpenResumed
      BY <1>5 DEF OpenResumed, DeliveredWhole
<1>6. CASE OpenFresh
  <2>1. mem.sum \in Seq(Cells) /\ Len(mem.sum) = 0
        BY <1>6 DEF OpenFresh, Sound, Aligned
  <2>2. mem.sum = <<>>
        BY <2>1, EmptySeq
  <2>3. file' \o queue' = <<>>
        BY <1>6, EmptyTyped, ConcatEmptySeq DEF OpenFresh
  <2> QED BY <1>6, <2>2, <2>3 DEF OpenFresh, DeliveredWhole
<1>7. CASE Verify
  <2>1. Sound(NewState(mem.print))
        BY NewStateTyped DEF TypeOK, States
  <2>2. file \o <<>> = file
        BY ConcatEmptySeq DEF TypeOK
  <2> QED BY <1>7, <2>1, <2>2 DEF Verify, DeliveredWhole
<1>8. CASE \E i \in Fragments : Fetch(i)
      BY <1>8 DEF Fetch, DeliveredWhole
<1>9. CASE Take
  <2>1. Sound(mem') /\ file' \o queue' = mem'.sum
        BY <1>9, TakeSafe
  <2> QED BY <1>9, <2>1 DEF Take, DeliveredWhole
<1>10. CASE Save
       BY <1>10 DEF Save, DeliveredWhole
<1>11. CASE SidecarFails
       BY <1>11 DEF SidecarFails, DeliveredWhole
<1>12. CASE Finish
       BY <1>12 DEF Finish, DeliveredWhole
<1>13. CASE RemoveState
  <2>1. Sound(NoState)
        BY NewStateTyped DEF NoState
  <2> QED BY <1>13, <2>1 DEF RemoveState, DeliveredWhole
<1>14. CASE FinalizePart
       BY <1>14, FinishSafe DEF FinalizePart
<1>15. CASE AttemptFails
  <2>1. queue' = <<>>
        BY <1>15 DEF AttemptFails, Land
  <2> QED BY <1>15, <2>1, NextUrlTyped DEF AttemptFails, DeliveredWhole
<1>16. CASE Cancel
       BY <1>16 DEF Cancel, Land, DeliveredWhole
<1>17. CASE CancelDiscard
       BY <1>17 DEF CancelDiscard, DeliveredWhole
<1>18. CASE Kill
       BY <1>18 DEF Kill, Land, DeliveredWhole
<1>19. CASE PowerLoss
  <2>1. Sound(NoState)
        BY NewStateTyped DEF NoState
  <2>2. Sound(state') /\ older' = {}
        BY <1>19, <2>1 DEF PowerLoss
  <2> QED BY <1>19, <2>2 DEF PowerLoss, DeliveredWhole
<1>20. CASE \E u \in Urls, w \in Versions : ServerChanges(u, w)
       BY <1>20 DEF ServerChanges, DeliveredWhole
<1>21. CASE UNCHANGED vars
       BY <1>21 DEF vars, DeliveredWhole
<1> QED BY <1>1, <1>2, <1>3, <1>4, <1>5, <1>6, <1>7, <1>8, <1>9, <1>10,
           <1>11, <1>12, <1>13, <1>14, <1>15, <1>16, <1>17, <1>18, <1>19,
           <1>20, <1>21 DEF Next, Work

(* What is handed over is the whole list in order, whatever the kernel     *)
(* lost, rolled back or tore, and whatever failed on the way.              *)
THEOREM WholeSafe == Spec => []DeliveredWhole
<1>1. IInv => DeliveredWhole
      BY DEF IInv
<1> QED BY TypeCorrect, InitSafe, StepSafe, <1>1, PTL DEF Spec

-----------------------------------------------------------------------------
(* The version a resume state's first fragment came from. *)
Origin(s) == s.sum[1].rep

(* A resume state names its origin as far as the server does; if that      *)
(* tells the origin from every other version, all its bytes are from it.   *)
Named(s) ==
    s.done > 0 =>
        /\ Origin(s) \in Versions
        /\ s.print = Fingerprint[Origin(s)] /\ s.anchor = Validator(Origin(s))
        /\ Origin(s) \in Recognised =>
              \A p \in 1 .. Len(s.sum) : s.sum[p].rep = Origin(s)

(* Unless the resource was replaced under a run, a run that passed the     *)
(* probe continues the version the server still names.                     *)
XInv ==
    ~moved =>
        /\ Named(state) /\ Named(mem) /\ \A s \in older : Named(s)
        /\ pc \in {"probe", "open", "verify", "stream", "save"}
              => mem.print = Fingerprint[serves[url]]
        /\ pc \in {"open", "verify", "stream", "save"} /\ mem.done > 0
              => (Origin(mem) \in Recognised => Origin(mem) = serves[url])
        /\ pc \in {"stream", "save"}
              => \A i \in Fragments : ahead[i] \in {Nothing, serves[url]}
        /\ DeliveredExact

LEMMA NewStateNamed == ASSUME NEW f PROVE Named(NewState(f))
  BY DEF Named, NewState

(* A version with the print and the validator of a recognised one is it.   *)
LEMMA RecognisedUnique ==
    ASSUME NEW v \in Recognised, NEW w \in Versions,
           Fingerprint[v] = Fingerprint[w],
           Validator(v) \in {Nothing, Validator(w)}
    PROVE  v = w
  BY DEF Recognised, Validator

(* A state that counts a fragment has a first byte. *)
LEMMA SumNonEmpty ==
    ASSUME NEW s \in States, Sound(s), s.done > 0
    PROVE  s.sum \in Seq(Cells) /\ Len(s.sum) \in Nat /\ 1 <= Len(s.sum)
<1>1. /\ s.done \in 1 .. Total /\ s.sum \in Seq(Cells)
      /\ Len(s.sum) = End[s.done] /\ Len(s.sum) \in Nat
      BY LenProperties DEF States, Sound
<1>2. \A i \in 1 .. Total : End[i - 1] \in Nat /\ End[i - 1] < End[i]
      OBVIOUS
<1>3. End[s.done - 1] \in Nat /\ End[s.done - 1] < End[s.done]
      BY <1>1, <1>2
<1>4. End[s.done] \in Nat
      BY <1>1
<1> QED BY <1>1, <1>3, <1>4

LEMMA AppendedReps ==
    ASSUME NEW s \in Seq(Cells), NEW v \in Versions, NEW i \in Fragments
    PROVE  /\ Len(s \o Bytes(v, i)) \in Nat /\ Len(s) < Len(s \o Bytes(v, i))
           /\ \A p \in 1 .. Len(s \o Bytes(v, i)) :
                 (s \o Bytes(v, i))[p].rep = IF p <= Len(s) THEN s[p].rep ELSE v
<1> DEFINE b == Bytes(v, i)
<1>1. b \in Seq(Cells) /\ Len(b) = End[i] - End[i - 1] /\ Len(b) \in Nat
      BY BytesTyped, LenProperties
<1>2. Len(b) > 0 /\ Len(s) \in Nat
      BY <1>1, LenProperties DEF Fragments
<1>3. /\ Len(s \o b) = Len(s) + Len(b)
      /\ \A p \in 1 .. Len(s) + Len(b) :
            (s \o b)[p] = IF p <= Len(s) THEN s[p] ELSE b[p - Len(s)]
      BY <1>1, ConcatProperties
<1>4. \A p \in 1 .. Len(b) : b[p].rep = v
      BY <1>1 DEF Bytes, Fragments
<1> HIDE DEF b
<1>5. Len(s \o b) \in Nat /\ Len(s) < Len(s \o b)
      BY <1>1, <1>2, <1>3
<1>6. ASSUME NEW p \in 1 .. Len(s \o b)
      PROVE  (s \o b)[p].rep = IF p <= Len(s) THEN s[p].rep ELSE v
  <2>1. CASE p <= Len(s)
        BY <1>1, <1>2, <1>3, <2>1
  <2>2. CASE ~(p <= Len(s))
    <3>1. p - Len(s) \in 1 .. Len(b)
          BY <1>1, <1>2, <1>3, <2>2
    <3>2. (s \o b)[p] = b[p - Len(s)]
          BY <1>1, <1>2, <1>3, <2>2
    <3> QED BY <1>4, <2>2, <3>1, <3>2
  <2> QED BY <2>1, <2>2
<1> QED BY <1>5, <1>6 DEF b

(* The fragment taken is the server's, and so is what came before it.      *)
LEMMA TakeNamed ==
    ASSUME TypeOK, IInv, XInv, ~moved, Take
    PROVE  /\ Named(mem') /\ mem'.print = mem.print
           /\ Origin(mem') \in Recognised => Origin(mem') = serves[url]
<1> DEFINE i == mem.done + 1
           v == ahead[i]
           t == mem.sum \o Bytes(v, i)
<1>1. mem \in States /\ mem.done \in 0 .. Total /\ mem.sum \in Seq(Cells)
      BY DEF TypeOK, States
<1>2. i \in Fragments
      BY <1>1 DEF Take, Fragments
<1>3. v \in Versions /\ v = serves[url]
      BY <1>2 DEF Take, TypeOK, XInv
<1>4. mem.print = Fingerprint[v]
      BY <1>3 DEF Take, XInv
<1>5. /\ mem'.done = i /\ mem'.sum = t /\ mem'.print = mem.print
      /\ mem'.anchor = IF i = 1 THEN Validator(v) ELSE mem.anchor
      BY <1>1 DEF Take, States
<1>6. /\ Len(t) \in Nat /\ Len(mem.sum) \in Nat /\ Len(mem.sum) < Len(t)
      /\ \A p \in 1 .. Len(t) :
            t[p].rep = IF p <= Len(mem.sum) THEN mem.sum[p].rep ELSE v
      BY <1>1, <1>2, <1>3, AppendedReps, LenProperties
<1> HIDE DEF v, t
<1>7. CASE mem.done = 0
  <2>1. Len(mem.sum) = 0 /\ i = 1
        BY <1>7 DEF IInv, Sound
  <2>2. \A p \in 1 .. Len(t) : t[p].rep = v
        BY <1>6, <2>1
  <2>3. Origin(mem') = v
        BY <1>5, <1>6, <2>1, <2>2 DEF Origin
  <2> QED BY <1>3, <1>4, <1>5, <2>1, <2>2, <2>3 DEF Named
<1>8. CASE mem.done > 0
  <2>1. 1 <= Len(mem.sum)
        BY <1>1, <1>8, SumNonEmpty DEF IInv
  <2>2. Origin(mem') = Origin(mem)
        BY <1>5, <1>6, <2>1 DEF Origin
  <2>3. Named(mem) /\ i # 1 /\ mem'.anchor = mem.anchor
        BY <1>5, <1>8, <1>1 DEF XInv
  <2>4. /\ Origin(mem) \in Versions
        /\ mem.print = Fingerprint[Origin(mem)] /\ mem.anchor = Validator(Origin(mem))
        BY <1>8, <2>3 DEF Named
  <2>5. ASSUME Origin(mem) \in Recognised
        PROVE  /\ Origin(mem) = serves[url]
               /\ \A p \in 1 .. Len(t) : t[p].rep = Origin(mem)
    <3>1. Origin(mem) = serves[url]
          BY <1>8, <2>5 DEF XInv, Take
    <3>2. \A p \in 1 .. Len(mem.sum) : mem.sum[p].rep = Origin(mem)
          BY <1>8, <2>3, <2>5 DEF Named
    <3>3. ASSUME NEW p \in 1 .. Len(t)
          PROVE  t[p].rep = Origin(mem)
      <4>1. CASE p <= Len(mem.sum)
        <5>1. p \in 1 .. Len(mem.sum) /\ t[p].rep = mem.sum[p].rep
              BY <1>6, <4>1
        <5> QED BY <3>2, <5>1
      <4>2. CASE ~(p <= Len(mem.sum))
            BY <1>3, <1>6, <3>1, <4>2
      <4> QED BY <4>1, <4>2
    <3> QED BY <3>1, <3>3
  <2> QED BY <1>5, <2>2, <2>3, <2>4, <2>5 DEF Named
<1> QED BY <1>1, <1>5, <1>7, <1>8

(* A sidecar that passed the fingerprint, and the probe if it has an       *)
(* anchor, is of the version the server names.                             *)
LEMMA MatchNamed ==
    ASSUME TypeOK, NEW s, Named(s), s.done > 0, Origin(s) \in Recognised,
           s.print = Fingerprint[serves[url]],
           s.anchor \in {Nothing, Validator(serves[url])}
    PROVE  Origin(s) = serves[url]
  BY RecognisedUnique DEF Named, TypeOK

LEMMA DeliveryNamed ==
    ASSUME TypeOK, IInv, XInv, ~moved, FinalizePart
    PROVE  DeliveredExact'
<1>1. delivered' = mem.sum /\ mem.done > 0 /\ Named(mem)
      BY DEF FinalizePart, IInv, XInv
<1> QED BY <1>1 DEF DeliveredExact, Named, Origin

LEMMA StepNamed == TInv /\ IInv /\ XInv /\ [Next]_vars => XInv'
<1> SUFFICES ASSUME TInv, TypeOK, IInv, XInv, [Next]_vars, ~moved' PROVE XInv'
    BY DEF TInv, XInv
<1>0. ~moved
      BY DEF Next, Work, vars, envVars, diskVars, Start, Load, Confirmed,
             Changed, OpenResumed, OpenFresh, Verify, Fetch, Take, Save,
             SidecarFails, Finish, RemoveState, FinalizePart, AttemptFails,
             Cancel, CancelDiscard, Kill, PowerLoss, ServerChanges
<1> USE <1>0 DEF XInv, diskVars, envVars
<1>1. CASE Start
      BY <1>1 DEF Start, DeliveredExact
<1>2. CASE Load
  <2> DEFINE f == Fingerprint[serves[url]]
  <2>1. (mem' = state /\ Resumable(f)) \/ mem' = NewState(f)
        BY <1>2 DEF Load
  <2>2. Named(mem') /\ mem'.print = f
        BY <2>1, NewStateNamed DEF Resumable, NewState
  <2>3. ASSUME pc' = "open", mem'.done > 0, Origin(mem') \in Recognised
        PROVE  Origin(mem') = serves[url]
    <3>1. mem'.anchor = Nothing
          BY <1>2, <2>3 DEF Load
    <3> QED BY <2>2, <2>3, <3>1, MatchNamed
  <2> QED BY <1>2, <2>2, <2>3 DEF Load, DeliveredExact
<1>3. CASE Confirmed
  <2>1. mem.done > 0 /\ Origin(mem) \in Recognised => Origin(mem) = serves[url]
        BY <1>3, MatchNamed DEF Confirmed
  <2> QED BY <1>3, <2>1 DEF Confirmed, DeliveredExact
<1>4. CASE Changed
  <2>1. Named(mem') /\ mem'.print = mem.print /\ mem'.done = 0
        BY <1>4, NewStateNamed DEF Changed, NewState
  <2> QED BY <1>4, <2>1 DEF Changed, DeliveredExact
<1>5. CASE OpenResumed
      BY <1>5 DEF OpenResumed, DeliveredExact
<1>6. CASE OpenFresh
      BY <1>6 DEF OpenFresh, NotFetched, DeliveredExact
<1>7. CASE Verify
  <2>1. Named(NewState(mem.print)) /\ NewState(mem.print).done = 0
        /\ NewState(mem.print).print = mem.print
        BY NewStateNamed DEF NewState
  <2> QED BY <1>7, <2>1 DEF Verify, NotFetched, DeliveredExact
<1>8. CASE \E i \in Fragments : Fetch(i)
      BY <1>8 DEF Fetch, TypeOK, DeliveredExact
<1>9. CASE Take
  <2>1. /\ Named(mem') /\ mem'.print = mem.print
        /\ Origin(mem') \in Recognised => Origin(mem') = serves[url]
        BY <1>9, TakeNamed
  <2> QED BY <1>9, <2>1 DEF Take, TypeOK, DeliveredExact
<1>10. CASE Save
       BY <1>10 DEF Save, DeliveredExact
<1>11. CASE SidecarFails
       BY <1>11 DEF SidecarFails, DeliveredExact
<1>12. CASE Finish
       BY <1>12 DEF Finish, DeliveredExact
<1>13. CASE RemoveState
       BY <1>13, NewStateNamed DEF RemoveState, NoState, DeliveredExact
<1>14. CASE FinalizePart
       BY <1>14, DeliveryNamed DEF FinalizePart
<1>15. CASE AttemptFails
       BY <1>15, NextUrlTyped DEF AttemptFails, Land, DeliveredExact
<1>16. CASE Cancel
       BY <1>16 DEF Cancel, Land, DeliveredExact
<1>17. CASE CancelDiscard
       BY <1>17 DEF CancelDiscard, DeliveredExact
<1>18. CASE Kill
       BY <1>18 DEF Kill, Land, DeliveredExact
<1>19. CASE PowerLoss
  <2>1. Named(state') /\ older' = {}
        BY <1>19, NewStateNamed DEF PowerLoss, NoState
  <2> QED BY <1>19, <2>1 DEF PowerLoss, DeliveredExact
<1>20. CASE \E u \in Urls, w \in Versions : ServerChanges(u, w)
  <2>1. pc # "idle" => serves'[url] = serves[url]
        BY <1>20 DEF ServerChanges, TypeOK
  <2> QED BY <1>20, <2>1 DEF ServerChanges, DeliveredExact
<1>21. CASE UNCHANGED vars
       BY <1>21 DEF vars, DeliveredExact
<1> QED BY <1>1, <1>2, <1>3, <1>4, <1>5, <1>6, <1>7, <1>8, <1>9, <1>10,
           <1>11, <1>12, <1>13, <1>14, <1>15, <1>16, <1>17, <1>18, <1>19,
           <1>20, <1>21 DEF Next, Work

LEMMA InitNamed == Init => XInv
  BY NewStateNamed DEF Init, XInv, NoState, DeliveredExact

(* A download that began with a version the sidecar can tell apart holds   *)
(* only that version's bytes, unless it was replaced under a run.          *)
THEOREM ExactSafe == Spec => []DeliveredExact
<1>1. XInv => DeliveredExact
      BY DEF XInv, DeliveredExact
<1>2. TInv => TypeOK
      BY DEF TInv
<1> QED BY <1>1, <1>2, InitTyped, StepTyped, InitSafe, StepSafe, InitNamed, StepNamed,
           PTL DEF Spec
-----------------------------------------------------------------------------
(* s is a beginning of f. *)
Begins(s, f) == Len(s) <= Len(f) /\ SubSeq(f, 1, Len(s)) = s

(* The sidecar counts fragments and does not yet count them all. *)
Pending == state.done > 0 /\ state.done < Total

(* What a resume state says of the version that every URL answers with.    *)
Mine(s) ==
    s.done > 0 => /\ s.print = Fingerprint[serves[1]]
                  /\ s.anchor = Validator(serves[1])

(* While nothing was lost and nothing replaced: a pending sidecar fits the *)
(* list, the server and the file, so that a run cannot but take it over,   *)
(* and its own state then starts from it.                                  *)
KInv ==
    losses = 0 /\ changes = 0 =>
        /\ \A u \in Urls : serves[u] = serves[1]
        /\ Mine(state) /\ Mine(mem)
        /\ pc \in {"probe", "open", "verify", "stream", "save"}
              => mem.print = Fingerprint[serves[1]]
        /\ pc \in {"stream", "save"}
              => \A i \in Fragments : ahead[i] \in {Nothing, serves[1]}
        /\ pc \in {"probe", "open", "verify", "stream"} /\ Pending => mem = state
        /\ pc \in {"idle", "load", "probe", "open"} /\ Pending
              => Begins(state.sum, file)
        /\ pc \in {"verify", "save"} /\ Pending => file = state.sum
        /\ pc = "save" /\ Pending => mem.done = state.done + 1
        /\ pc \in {"remove", "rename"} => ~Pending

LEMMA BeginsExtended ==
    ASSUME NEW s \in Seq(Cells), NEW t \in Seq(Cells)
    PROVE  Begins(s, s) /\ Begins(s, s \o t)
<1>1. SubSeq(s, 1, Len(s)) = s /\ Len(s) \in Nat /\ Len(t) \in Nat
      BY SubSeqFull, LenProperties
<1>2. Len(s \o t) = Len(s) + Len(t)
      BY ConcatProperties
<1>3. SubSeq(s \o t, 1, Len(s)) = s
  <2>1. CASE Len(s) = 0
        BY <2>1, SubSeqEmpty, EmptySeq
  <2>2. CASE Len(s) # 0
    <3>1. 1 \in 1 .. Len(s) /\ Len(s) \in 1 .. Len(s)
          BY <1>1, <2>2
    <3> QED BY <1>1, <3>1, SubSeqOfConcat1
  <2> QED BY <2>1, <2>2
<1> QED BY <1>1, <1>2, <1>3 DEF Begins

(* Where nothing is owed, what lands changes nothing. *)
LEMMA NothingLands ==
    ASSUME file \in Seq(Cells), queue = <<>>, NEW m \in 0 .. Len(queue), Land(m)
    PROVE  file' = file
<1>1. m = 0
      BY EmptyTyped
<1>2. SubSeq(queue, 1, m) = <<>>
      BY <1>1, SubSeqEmpty
<1> QED BY <1>2, ConcatEmptySeq DEF Land

(* Whatever lands of a fragment the sidecar does not count yet, or counts, *)
(* the file goes on beginning with what it counts.                         *)
LEMMA LandKeeps ==
    ASSUME TypeOK, IInv, KInv, losses = 0, changes = 0, Pending,
           pc \notin {"remove", "rename"}, NEW m \in Owed, Land(m)
    PROVE  Begins(state.sum, file')
<1>1. /\ state.sum \in Seq(Cells) /\ mem.sum \in Seq(Cells)
      /\ file \in Seq(Cells) /\ queue \in Seq(Cells) /\ m \in 0 .. Len(queue)
      BY OwedLands DEF TypeOK, States
<1>2. CASE pc = "stream"
  <2>1. m = Len(queue) /\ SubSeq(queue, 1, Len(queue)) = queue
        BY <1>1, <1>2, SubSeqFull DEF Owed
  <2>2. file' = mem.sum /\ mem = state
        BY <1>2, <2>1 DEF Land, IInv, KInv
  <2> QED BY <1>1, <2>2, BeginsExtended
<1>3. CASE pc = "save"
  <2>1. SubSeq(queue, 1, m) \in Seq(Cells)
        BY <1>1, LenProperties, ElementOfSeq, SubSeqProperties
  <2>2. file' = state.sum \o SubSeq(queue, 1, m)
        BY <1>3 DEF Land, KInv
  <2> QED BY <1>1, <2>1, <2>2, BeginsExtended
<1>4. CASE pc \notin {"stream", "save"}
  <2>1. file' = file
        BY <1>1, <1>4, NothingLands DEF IInv
  <2>2. pc \in {"idle", "load", "probe", "open", "verify"}
        BY <1>4 DEF TypeOK
  <2> QED BY <1>1, <2>1, <2>2, BeginsExtended DEF KInv
<1> QED BY <1>2, <1>3, <1>4

LEMMA InitKept == Init => KInv
<1> SUFFICES ASSUME Init PROVE KInv
    OBVIOUS
<1>1. \A u \in Urls : serves[u] = serves[1]
      BY DEF Init, Urls
<1>2. NoState.done = 0
      BY DEF NoState, NewState
<1> QED BY <1>1, <1>2 DEF Init, KInv, Mine, Pending

LEMMA TakeKept ==
    ASSUME TypeOK, IInv, KInv, losses = 0, changes = 0, Take
    PROVE  Mine(mem)' /\ mem'.print = mem.print /\ mem'.done = mem.done + 1
<1> DEFINE i == mem.done + 1
           v == ahead[i]
<1>1. mem \in States /\ mem.done \in 0 .. Total
      BY DEF TypeOK, States
<1>2. i \in Fragments /\ 1 \in Urls
      BY <1>1 DEF Take, Fragments, Urls
<1>3. v = serves[1] /\ mem.print = Fingerprint[serves[1]]
      BY <1>2 DEF Take, KInv
<1>4. /\ mem'.done = i /\ mem'.print = mem.print
      /\ mem'.anchor = IF i = 1 THEN Validator(v) ELSE mem.anchor
      BY <1>1 DEF Take, States
<1>5. i # 1 => mem.done > 0
      BY <1>1
<1>6. serves' = serves /\ Mine(mem)
      BY DEF Take, KInv, envVars
<1> HIDE DEF v
<1> QED BY <1>3, <1>4, <1>5, <1>6 DEF Mine

LEMMA StepKept == TInv /\ IInv /\ KInv /\ [Next]_vars => KInv'
<1> SUFFICES ASSUME TInv, TypeOK, IInv, KInv, [Next]_vars, losses' = 0, changes' = 0
             PROVE  KInv'
    BY DEF TInv, KInv
<1>0. losses = 0 /\ changes = 0
  <2> USE DEF diskVars, envVars, TypeOK
  <2>1. (losses = 0 /\ changes = 0) \/ losses' > 0 \/ changes' > 0
        BY DEF Next, Work, vars, Start, Load, Confirmed, Changed, OpenResumed,
               OpenFresh, Verify, Fetch, Take, Save, SidecarFails, Finish,
               RemoveState, FinalizePart, AttemptFails, Cancel, CancelDiscard,
               Kill, PowerLoss, ServerChanges
  <2> QED BY <2>1
<1>a. url \in Urls /\ serves[url] = serves[1] /\ \A u \in Urls : serves[u] = serves[1]
      BY <1>0 DEF TypeOK, KInv
<1>b. state \in States /\ mem \in States /\ state.done \in 0 .. Total
      /\ state.sum \in Seq(Cells) /\ mem.sum \in Seq(Cells)
      BY DEF TypeOK, States
<1> USE <1>0, <1>a, <1>b DEF KInv, diskVars, envVars, Mine, Pending
<1>1. CASE Start
      BY <1>1 DEF Start
<1>2. CASE Load
  <2> DEFINE f == Fingerprint[serves[url]]
  <2>1. mem' = IF Resumable(f) THEN state ELSE NewState(f)
        BY <1>2 DEF Load
  <2>2. Pending => Resumable(f)
        BY <1>2 DEF Load, Resumable, Begins
  <2>3. mem'.print = f /\ (mem'.done > 0 => mem' = state)
        BY <2>1 DEF Resumable, NewState
  <2> QED BY <1>2, <2>1, <2>2, <2>3 DEF Load
<1>3. CASE Confirmed
      BY <1>3 DEF Confirmed
<1>4. CASE Changed
  <2>1. ~Pending
        BY <1>4 DEF Changed
  <2>2. mem'.print = mem.print /\ mem'.done = 0
        BY <1>4 DEF Changed, NewState
  <2> QED BY <1>4, <2>1, <2>2 DEF Changed
<1>5. CASE OpenResumed
  <2>1. Pending => file' = state.sum
        BY <1>5 DEF OpenResumed, Begins
  <2> QED BY <1>5, <2>1 DEF OpenResumed
<1>6. CASE OpenFresh
  <2>1. ~Pending
        BY <1>6 DEF OpenFresh
  <2> QED BY <1>6, <2>1 DEF OpenFresh, NotFetched
<1>7. CASE Verify
  <2>1. Pending => file = mem.sum
        BY <1>7 DEF Verify
  <2>2. NewState(mem.print).print = mem.print /\ NewState(mem.print).done = 0
        BY DEF NewState
  <2> QED BY <1>7, <2>1, <2>2 DEF Verify, NotFetched
<1>8. CASE \E i \in Fragments : Fetch(i)
      BY <1>8 DEF Fetch, TypeOK
<1>9. CASE Take
  <2>1. Mine(mem)' /\ mem'.print = mem.print /\ mem'.done = mem.done + 1
        BY <1>9, TakeKept
  <2>2. Pending => file' = state.sum /\ mem = state
        BY <1>9 DEF Take, IInv
  <2> QED BY <1>9, <2>1, <2>2 DEF Take, TypeOK
<1>10. CASE Save
       BY <1>10 DEF Save
<1>11. CASE SidecarFails
       BY <1>11 DEF SidecarFails, TypeOK
<1>12. CASE Finish
       BY <1>12 DEF Finish
<1>13. CASE RemoveState
  <2>1. NoState.done = 0
        BY DEF NoState, NewState
  <2> QED BY <1>13, <2>1 DEF RemoveState
<1>14. CASE FinalizePart
       BY <1>14 DEF FinalizePart
<1>15. CASE AttemptFails
  <2>1. Pending => Begins(state.sum, file')
        BY <1>15, LandKeeps DEF AttemptFails
  <2> QED BY <1>15, <2>1, NextUrlTyped DEF AttemptFails
<1>16. CASE Cancel
  <2>1. CASE UNCHANGED <<state, older>>
    <3>1. Pending => Begins(state.sum, file')
      <4>1. Len(queue) \in Owed
            BY LenProperties DEF Owed, TypeOK
      <4>2. PICK m \in Owed : Land(m)
            BY <1>16, <4>1 DEF Cancel
      <4>3. Pending /\ pc # "remove" => Begins(state.sum, file')
            BY <1>16, <4>2, LandKeeps DEF Cancel
      <4> QED BY <1>16, <4>3 DEF Cancel
    <3> QED BY <1>16, <2>1, <3>1 DEF Cancel
  <2>2. CASE pc = "save" /\ Land(Len(queue)) /\ state' = mem
    <3>1. file' = mem.sum
          BY <2>2, SubSeqFull DEF Land, IInv, TypeOK
    <3>2. Begins(mem.sum, file')
          BY <3>1, BeginsExtended
    <3> QED BY <1>16, <2>2, <3>2 DEF Cancel
  <2> QED BY <1>16, <2>1, <2>2 DEF Cancel
<1>17. CASE CancelDiscard
       BY <1>17 DEF CancelDiscard, TypeOK
<1>18. CASE Kill
       BY <1>18 DEF Kill, TypeOK
<1>19. CASE PowerLoss
       BY <1>19 DEF PowerLoss, TypeOK
<1>20. CASE \E u \in Urls, w \in Versions : ServerChanges(u, w)
       BY <1>20 DEF ServerChanges, TypeOK
<1>21. CASE UNCHANGED vars
       BY <1>21 DEF vars
<1> QED BY <1>1, <1>2, <1>3, <1>4, <1>5, <1>6, <1>7, <1>8, <1>9, <1>10,
           <1>11, <1>12, <1>13, <1>14, <1>15, <1>16, <1>17, <1>18, <1>19,
           <1>20, <1>21 DEF Next, Work

(* Failed attempts, fallbacks and cancels that keep the partial, as many   *)
(* as there may be, cost no fragment that the sidecar counts.              *)
THEOREM ConfirmedKept == Spec => []ConfirmedIsKept
<1>1. TInv => TypeOK
      BY DEF TInv
<1>2. TypeOK /\ KInv => ConfirmedIsKept
      BY DEF KInv, Pending, ConfirmedIsKept, TypeOK, States
<1> QED BY <1>1, <1>2, InitTyped, StepTyped, InitSafe, StepSafe, InitKept, StepKept,
           PTL DEF Spec
=============================================================================

----------------------- MODULE ChunkedTransfer_proofs ------------------------
(***************************************************************************)
(* For any number of chunks, connections, ids, stops and faults: type      *)
(* correctness, that a recovery splices the chunks of one attempt and      *)
(* keeps them, that a failed fetch is swept, and that what is delivered    *)
(* is one representation.                                                  *)
(***************************************************************************)
EXTENDS ChunkedTransfer, FiniteSetTheorems, SequenceTheorems,
        WellFoundedInduction, TLAPS

USE ChunkedTransferAssumption

-----------------------------------------------------------------------------
(* Operators of the model. *)

LEMMA MaxIsElement ==
    ASSUME NEW N \in Nat, NEW S \in SUBSET (0 .. N), S # {}
    PROVE  Max(S) \in S /\ \A y \in S : y <= Max(S)
<1> DEFINE B == 0 .. N
           T == {x .. N : x \in S}
           R == StrictSubsetOrdering(B)
<1>1. IsFiniteSet(B)
      BY FS_Interval
<1>2. IsWellFoundedOn(R, SUBSET B)
      BY <1>1, FS_StrictSubsetOrderingWellFounded, FS_FiniteSubsetsOfFinite
<1>3. T # {}
      OBVIOUS
<1>4. \A t \in T : t \subseteq B
      OBVIOUS
<1>5. PICK m \in T : \A t \in T : ~ (<<t, m>> \in R)
  <2> HIDE DEF R, T
  <2> QED BY <1>2, <1>3, <1>4, WFMin
<1>6. PICK x \in S : m = x .. N
      OBVIOUS
<1>7. ASSUME NEW y \in S PROVE x >= y
  <2> SUFFICES ASSUME y > x PROVE FALSE
      OBVIOUS
  <2>1. x \notin y .. N /\ x \in x .. N /\ y .. N \subseteq x .. N
      OBVIOUS
  <2>2. y .. N \in T /\ y .. N \subseteq m /\ y .. N # m
      BY <1>6, <2>1
  <2>3. y .. N \in SUBSET B /\ m \in SUBSET B
      BY <1>4, <2>2
  <2> QED BY <1>5, <2>2, <2>3 DEF StrictSubsetOrdering
<1>8. Max(S) \in S /\ \A y \in S : Max(S) >= y
      BY <1>7 DEF Max
<1> QED BY <1>8

(* The sequence of n copies of a value. *)
LEMMA CopiesTyped ==
    ASSUME NEW n \in Nat, NEW v, NEW S, v \in S
    PROVE  /\ [m \in 1 .. n |-> v] \in Seq(S)
           /\ Len([m \in 1 .. n |-> v]) = n
<1>1. [m \in 1 .. n |-> v] \in [1 .. n -> S]
      OBVIOUS
<1> QED BY <1>1

(* What is verified is a beginning of the chunks. *)
LEMMA IntactIsPrefix ==
    ASSUME NEW i
    PROVE  Intact(i) # {} => \E k \in 1 .. Chunks : Intact(i) = 0 .. k - 1
<1> SUFFICES ASSUME Intact(i) # {}
             PROVE  \E k \in 1 .. Chunks : Intact(i) = 0 .. k - 1
    OBVIOUS
<1>1. Intact(i) \in SUBSET (0 .. Chunks - 1) /\ Chunks - 1 \in Nat
      BY DEF Intact, Parts
<1> DEFINE m == Max(Intact(i))
<1>2. m \in Intact(i) /\ \A c \in Intact(i) : c <= m
      BY <1>1, MaxIsElement
<1> HIDE DEF m
<1>3. m \in 0 .. Chunks - 1
      BY <1>1, <1>2
<1>4. ASSUME NEW c \in 0 .. m
      PROVE  c \in Intact(i)
      BY <1>2, <1>3 DEF Intact, Parts
<1>5. \A c \in Intact(i) : c \in 0 .. m
      BY <1>1, <1>2, <1>3
<1>6. Intact(i) = 0 .. m
      BY <1>4, <1>5
<1>7. m + 1 \in 1 .. Chunks /\ m = (m + 1) - 1
      BY <1>3
<1> QED BY <1>6, <1>7

-----------------------------------------------------------------------------
(* Type correctness.                                                       *)

(* A file creation that a dropped future still owes has the id of an       *)
(* earlier attempt, unless the attempt did not wait for its futures.       *)
LateInv ==
    /\ \A x \in late : x[1] < nextId
    /\ pc \in {"fetch", "sweep", "failed", "merge"} => id < nextId
    /\ pc \in {"fetch", "merge"} \/ (Adaptive /\ pc \in {"sweep", "failed"})
          => \A x \in late : x[1] # id

(* The chunks an attempt has written are of the representation it asked    *)
(* for, down to the merge that removes them as it copies.                  *)
FetchInv ==
    /\ pc \in {"fetch", "merge"} => sidecar \in Versions
    /\ pc = "fetch" =>
          /\ \A c \in Parts : job[c] \in {"written", "done"} => chunk[id][c] = sidecar
          /\ \A c \in memory : job[c] = "done"
    /\ pc = "merge" =>
          \A c \in Parts : job[c] = "done" /\ (c >= Copied => chunk[id][c] = sidecar)

(* How much a merge, and what follows it, have in hand. *)
CopyInv ==
    /\ pc \notin {"merge", "recover"} => buf = <<>>
    /\ pc \in {"recover", "consume"} => \E k \in 1 .. Chunks : claim = 0 .. k - 1
    /\ pc = "recover" => Copied <= Cardinality(claim)
    /\ pc = "fresh" => part = <<>>
    /\ pc = "finish" => Len(part) = Chunks

TInv == TypeOK /\ LateInv /\ FetchInv /\ CopyInv

LEMMA InitTyped == Init => TInv
<1> SUFFICES ASSUME Init PROVE TInv
    OBVIOUS
<1>1. part \in Seq(Versions) /\ buf \in Seq(Versions) /\ delivered \in Seq(Versions)
      /\ Len(part) = 0 /\ Len(buf) = 0
      BY DEF Init
<1>2. job \in [Parts -> {"wait"}] /\ chunk \in [Ids -> [Parts -> {"none"}]]
      BY DEF Init, Waiting, NoFiles
<1>3. may.changes \in Nat /\ may.faults \in Nat
      BY DEF Init, ScenarioType
<1>4. TypeOK
      BY <1>1, <1>2, <1>3 DEF Init, TypeOK, Ids, Parts, Copied, Nothing
<1>5. LateInv /\ FetchInv /\ CopyInv
      BY DEF Init, LateInv, FetchInv, CopyInv
<1> QED BY <1>4, <1>5 DEF TInv

(* A step leaves the scenario, and what it does not name, as it is. *)
LEMMA StepLate == TInv /\ [Next]_vars => LateInv'
<1> SUFFICES ASSUME TInv, [Next]_vars PROVE LateInv'
    OBVIOUS
<1> USE DEF TInv, LateInv, diskVars, runVars, envVars, Forget, Fault
<1>0. nextId \in Nat /\ id \in Nat /\ \A x \in late : x[1] \in Nat
      BY DEF TypeOK, Ids
<1>1. CASE StartAttempt
      BY <1>0, <1>1 DEF StartAttempt
<1>2. CASE \E c \in Parts : FailChunk(c)
      BY <1>0, <1>2 DEF FailChunk, Abandoned
<1>3. CASE Stop
      BY <1>0, <1>3 DEF Stop, Abandoned
<1>4. CASE \E i \in Ids, c \in Parts : LateCreate(i, c)
      BY <1>0, <1>4 DEF LateCreate
<1>5. CASE \/ BeginResume \/ BeginRecover \/ BeginFresh \/ Drained \/ DeleteManifest
           \/ ReportError \/ BeginMerge \/ MergeFails
      BY <1>5 DEF BeginResume, BeginRecover, BeginFresh, Drained, DeleteManifest,
         ReportError, BeginMerge, MergeFails
<1>6. CASE \E c \in Parts : Fetch(c) \/ SweepChunk(c) \/ ConsumeChunk(c) \/ RetryChunk(c)
      BY <1>6 DEF Fetch, Ask, Answer, WriteChunk, RecordChunk, SweepChunk,
         ConsumeChunk, RetryChunk
<1>7. CASE \/ CopyChunk \/ CopyRecovered \/ Flush \/ EndMerge \/ EndCopy \/ EndRecover
           \/ ResumeTail \/ AlreadyComplete \/ Restart \/ Finish
      BY <1>7 DEF CopyChunk, CopyRecovered, Flush, EndMerge, EndCopy, EndRecover,
         ResumeTail, AlreadyComplete, Restart, Finish
<1>8. CASE \/ RecoverFails \/ ResumeBreaksOff \/ Done \/ ProcessExits \/ UNCHANGED vars
           \/ \E v \in Versions : ServerChanges(v)
      BY <1>8 DEF RecoverFails, ResumeBreaksOff, Done, ProcessExits, vars,
         ServerChanges
<1> QED BY <1>1, <1>2, <1>3, <1>4, <1>5, <1>6, <1>7, <1>8 DEF Next, Work

LEMMA Lengths ==
    ASSUME TypeOK
    PROVE  Len(part) \in Nat /\ Len(buf) \in Nat /\ Copied \in Nat /\ Copied <= Chunks
<1>1. part \in Seq(Versions) /\ buf \in Seq(Versions)
      BY DEF TypeOK
<1> QED BY <1>1, LenProperties DEF TypeOK, Copied

LEMMA StepFetched == TInv /\ [Next]_vars => FetchInv'
<1> SUFFICES ASSUME TInv, [Next]_vars PROVE FetchInv'
    OBVIOUS
<1> USE DEF TInv, FetchInv, diskVars, runVars, envVars, Forget, Fault
<1>0. /\ id \in Ids /\ chunk \in [Ids -> [Parts -> Versions \cup {"none", "partial"}]]
      /\ job \in [Parts -> {"wait", "asked", "open", "written", "done", "failed"}]
      /\ Len(part) \in Nat /\ Len(buf) \in Nat /\ Copied \in Nat
      /\ memory \subseteq Parts
      BY Lengths DEF TypeOK
<1>1. CASE StartAttempt
      BY <1>1 DEF StartAttempt, TypeOK, Waiting
<1>2. CASE \E c \in Parts : Fetch(c) \/ RetryChunk(c)
      BY <1>0, <1>2 DEF Fetch, Ask, Answer, WriteChunk, RecordChunk, RetryChunk,
         Copied
<1>3. CASE \E c \in Parts : FailChunk(c)
      BY <1>0, <1>3 DEF FailChunk, Copied
<1>4. CASE \E i \in Ids, c \in Parts : LateCreate(i, c)
  <2> PICK i \in Ids, c \in Parts : LateCreate(i, c)
      BY <1>4
  <2>1. pc \in {"fetch", "merge"} => i # id
        BY DEF LateCreate, LateInv
  <2> QED BY <1>0, <2>1 DEF LateCreate, Copied
<1>5. CASE BeginMerge
      BY <1>0, <1>5 DEF BeginMerge
<1>6. CASE CopyChunk
  <2>1. Len(buf') = Len(buf) + 1
        BY <1>6, AppendProperties DEF CopyChunk, TypeOK
  <2>2. Copied' = Copied + 1
        BY <1>0, <1>6, <2>1 DEF CopyChunk, Copied
  <2>3. \A c \in Parts : c >= Copied + 1 => chunk'[id][c] = chunk[id][c] /\ c >= Copied
        BY <1>0, <1>6 DEF CopyChunk, Parts
  <2> QED BY <1>6, <2>2, <2>3 DEF CopyChunk
<1>7. CASE Flush
  <2>1. Copied' = Copied
        BY <1>0, <1>7, ConcatProperties DEF Flush, Copied, TypeOK
  <2> QED BY <1>7, <2>1 DEF Flush
<1>8. CASE \/ BeginResume \/ BeginRecover \/ BeginFresh \/ Drained \/ DeleteManifest
           \/ ReportError \/ MergeFails \/ Stop
      BY <1>8 DEF BeginResume, BeginRecover, BeginFresh, Drained, DeleteManifest,
         ReportError, MergeFails, Stop
<1>9. CASE \E c \in Parts : SweepChunk(c) \/ ConsumeChunk(c)
      BY <1>9 DEF SweepChunk, ConsumeChunk
<1>10. CASE \/ CopyRecovered \/ EndMerge \/ EndCopy \/ EndRecover
            \/ ResumeTail \/ AlreadyComplete \/ Restart \/ Finish
       BY <1>10 DEF CopyRecovered, EndMerge, EndCopy, EndRecover, ResumeTail,
          AlreadyComplete, Restart, Finish
<1>11. CASE \/ RecoverFails \/ ResumeBreaksOff \/ Done \/ ProcessExits \/ UNCHANGED vars
            \/ \E v \in Versions : ServerChanges(v)
       BY <1>11 DEF RecoverFails, ResumeBreaksOff, Done, ProcessExits, vars,
          ServerChanges, Copied
<1> QED BY <1>1, <1>2, <1>3, <1>4, <1>5, <1>6, <1>7, <1>8, <1>9, <1>10, <1>11
        DEF Next, Work

(* What the resumed transfer has at its end is complete. *)
LEMMA ResumedTyped ==
    ASSUME TypeOK, sidecar \in Versions
    PROVE  Resumed \in Seq(Versions) /\ Len(Resumed) = Chunks
<1>1. Chunks - Len(part) \in Nat /\ part \in Seq(Versions) /\ Len(part) \in Nat
      BY Lengths DEF TypeOK, Copied
<1>2. /\ [n \in 1 .. Chunks - Len(part) |-> sidecar] \in Seq(Versions)
      /\ Len([n \in 1 .. Chunks - Len(part) |-> sidecar]) = Chunks - Len(part)
      BY <1>1, CopiesTyped
<1> QED BY <1>1, <1>2, ConcatProperties DEF Resumed

LEMMA StepCopied == TInv /\ [Next]_vars => CopyInv'
<1> SUFFICES ASSUME TInv, [Next]_vars PROVE CopyInv'
    OBVIOUS
<1> USE DEF TInv, CopyInv, diskVars, runVars, envVars, Forget, Fault
<1>0. /\ Len(part) \in Nat /\ Len(buf) \in Nat /\ Copied = Len(part) + Len(buf)
      /\ Copied <= Chunks /\ Len(<<>>) = 0
      /\ part \in Seq(Versions) /\ buf \in Seq(Versions)
      BY Lengths DEF TypeOK, Copied
<1>1. Len(buf) = 0 => buf = <<>>
      BY <1>0
<1>2. pc \in {"recover", "consume"} =>
          \E k \in 1 .. Chunks : claim = 0 .. k - 1 /\ Cardinality(claim) = k
  <2> SUFFICES ASSUME NEW k \in 1 .. Chunks, claim = 0 .. k - 1
               PROVE  Cardinality(claim) = k
      OBVIOUS
  <2> QED BY FS_Interval
<1>3. CASE BeginRecover
  <2>1. id' \in Found
        BY <1>3, MaxIsElement DEF BeginRecover, Found, Ids
  <2>2. PICK j \in Ids : j = id' /\ Intact(j) # {} /\ claim' = Intact(j)
        BY <1>3, <2>1 DEF BeginRecover, Found
  <2>3. \E k \in 1 .. Chunks : claim' = 0 .. k - 1
        BY <2>2, IntactIsPrefix
  <2>4. Cardinality(claim') \in Nat
        BY <2>3, FS_Interval
  <2> QED BY <1>0, <1>3, <2>3, <2>4 DEF BeginRecover, Copied
<1>4. CASE CopyRecovered
  <2>1. Len(buf') = Len(buf) + 1
        BY <1>0, <1>4, AppendProperties DEF CopyRecovered
  <2> QED BY <1>0, <1>2, <1>4, <2>1 DEF CopyRecovered, Copied
<1>5. CASE Flush
  <2>1. Copied' = Copied
        BY <1>0, <1>5, ConcatProperties DEF Flush, Copied
  <2> QED BY <1>5, <2>1 DEF Flush
<1>6. CASE EndCopy
      BY <1>0, <1>1, <1>2, <1>6 DEF EndCopy
<1>7. CASE EndMerge
      BY <1>0, <1>1, <1>7 DEF EndMerge
<1>8. CASE ResumeTail
  <2>1. sidecar \in Versions
        BY <1>8 DEF ResumeTail, TypeOK
  <2> QED BY <1>8, <2>1, ResumedTyped DEF ResumeTail
<1>9. CASE AlreadyComplete \/ BeginFresh \/ BeginResume \/ Restart \/ RecoverFails
      BY <1>9 DEF AlreadyComplete, BeginFresh, BeginResume, Restart, RecoverFails
<1>10. CASE \/ StartAttempt \/ Drained \/ DeleteManifest \/ ReportError \/ MergeFails
            \/ Stop \/ BeginMerge \/ CopyChunk \/ EndRecover \/ Finish \/ ResumeBreaksOff
       BY <1>10 DEF StartAttempt, Drained, DeleteManifest, ReportError, MergeFails,
          Stop,
          BeginMerge, CopyChunk, EndRecover, Finish, ResumeBreaksOff
<1>11. CASE \E c \in Parts : \/ Fetch(c) \/ SweepChunk(c) \/ ConsumeChunk(c)
                             \/ RetryChunk(c) \/ FailChunk(c)
       BY <1>11 DEF Fetch, Ask, Answer, WriteChunk, RecordChunk, SweepChunk,
          ConsumeChunk,
          RetryChunk, FailChunk
<1>12. CASE \/ Done \/ ProcessExits \/ UNCHANGED vars
            \/ \E v \in Versions : ServerChanges(v)
            \/ \E i \in Ids, c \in Parts : LateCreate(i, c)
       BY <1>12 DEF Done, ProcessExits, vars, ServerChanges, LateCreate, Copied
<1> QED BY <1>3, <1>4, <1>5, <1>6, <1>7, <1>8, <1>9, <1>10, <1>11, <1>12
        DEF Next, Work

LEMMA StepType == TInv /\ [Next]_vars => TypeOK'
<1> SUFFICES ASSUME TInv, [Next]_vars PROVE TypeOK'
    OBVIOUS
<1> USE DEF TInv, TypeOK, diskVars, runVars, envVars, Forget, Fault
<1>0. /\ Len(part) \in Nat /\ Len(buf) \in Nat /\ Copied = Len(part) + Len(buf)
      /\ Len(<<>>) = 0 /\ <<>> \in Seq(Versions)
      /\ part \in Seq(Versions) /\ buf \in Seq(Versions)
      /\ 0 \in Ids /\ may.changes \in Nat /\ may.faults \in Nat
      /\ changes \in Nat /\ faults \in Nat
      /\ Waiting \in [Parts -> {"wait", "asked", "open", "written", "done", "failed"}]
      BY Lengths DEF Copied, Ids, Waiting, ScenarioType
<1>a. Fault => faults' \in 0 .. may.faults
      BY <1>0
<1>1. CASE BeginResume
      BY <1>0, <1>a, <1>1 DEF BeginResume, Copied
<1>2. CASE BeginFresh
      BY <1>0, <1>a, <1>2 DEF BeginFresh, Copied
<1>3. CASE Drained
      BY <1>0, <1>a, <1>3 DEF Drained, Copied
<1>4. CASE DeleteManifest
      BY <1>0, <1>a, <1>4 DEF DeleteManifest, Copied
<1>5. CASE ReportError
      BY <1>0, <1>a, <1>5 DEF ReportError, Copied
<1>6. CASE BeginRecover
  <2>1. Found \in SUBSET (0 .. MaxId) /\ Found # {} /\ id' = Max(Found)
        BY <1>6 DEF BeginRecover, Found, Ids
  <2>2. id' \in Ids
    <3> HIDE DEF TypeOK
    <3> QED BY <2>1, MaxIsElement DEF Ids
  <2>3. claim' \subseteq Parts
        BY <1>6 DEF BeginRecover, Intact
  <2> QED BY <1>0, <1>6, <2>2, <2>3 DEF BeginRecover, Copied
<1>7. CASE StartAttempt
      BY <1>0, <1>a, <1>7 DEF StartAttempt, Copied, Ids
<1>8. CASE \E c \in Parts : Ask(c)
      BY <1>0, <1>a, <1>8 DEF Ask, Copied
<1>9. CASE \E c \in Parts : Answer(c)
      BY <1>0, <1>a, <1>9 DEF Answer, Copied
<1>10. CASE \E c \in Parts : WriteChunk(c)
      BY <1>0, <1>a, <1>10 DEF WriteChunk, FetchInv, Copied
<1>11. CASE \E c \in Parts : RecordChunk(c)
      BY <1>0, <1>a, <1>11 DEF RecordChunk, Copied
<1>12. CASE \E c \in Parts : SweepChunk(c)
      BY <1>0, <1>a, <1>12 DEF SweepChunk, Copied
<1>13. CASE \E c \in Parts : ConsumeChunk(c)
      BY <1>0, <1>a, <1>13 DEF ConsumeChunk, Copied
<1>14. CASE \E c \in Parts : RetryChunk(c)
      BY <1>0, <1>a, <1>14 DEF RetryChunk, Copied
<1>15. CASE \E c \in Parts : FailChunk(c)
      BY <1>0, <1>a, <1>15 DEF FailChunk, Copied, Abandoned
<1>16. CASE BeginMerge
      BY <1>0, <1>a, <1>16 DEF BeginMerge, Copied
<1>17. CASE MergeFails
      BY <1>0, <1>a, <1>17 DEF MergeFails, Copied
<1>18. CASE RecoverFails
      BY <1>0, <1>a, <1>18 DEF RecoverFails, Copied
<1>19. CASE Restart
      BY <1>0, <1>a, <1>19 DEF Restart, Copied
<1>20. CASE Finish
      BY <1>0, <1>a, <1>20 DEF Finish, Copied
<1>21. CASE Stop
  <2>1. late' \subseteq Ids \X Parts
        BY <1>21 DEF Stop, Abandoned
  <2>2. job' = Waiting /\ memory' = {} /\ claim' = {} /\ id' = 0 /\ buf' = <<>>
        BY <1>21 DEF Stop
  <2>3. Copied' <= Chunks
        BY <1>0, <1>21, <2>2 DEF Stop, Copied
  <2>4. job' \in [Parts -> {"wait", "asked", "open", "written", "done", "failed"}]
        BY <1>0, <2>2
  <2>5. faults' \in 0 .. may'.faults /\ changes' \in 0 .. may'.changes
        BY <1>a, <1>21 DEF Stop
  <2>6. buf' \in Seq(Versions)
        BY <1>0, <2>2
  <2>7. pc' = "idle" /\ UNCHANGED <<diskVars, serves, delivered, may, changes, nextId>>
        BY <1>21 DEF Stop
  <2> QED BY <1>0, <2>1, <2>2, <2>3, <2>4, <2>5, <2>6, <2>7
<1>22. CASE CopyChunk
  <2>a. Copied \in Parts /\ pc = "merge"
        BY <1>0, <1>22 DEF CopyChunk, Parts
  <2>1. Copied \in Parts /\ chunk[id][Copied] \in Versions
        BY <1>0, <2>a DEF FetchInv
  <2>2. buf' \in Seq(Versions) /\ Len(buf') = Len(buf) + 1
        BY <1>0, <1>22, <2>1, AppendProperties DEF CopyChunk
  <2> QED BY <1>0, <1>22, <2>1, <2>2 DEF CopyChunk, Copied, Parts
<1>23. CASE CopyRecovered
  <2>1. Copied \in Parts /\ chunk[id][Copied] \in Versions
        BY <1>23 DEF CopyRecovered
  <2>2. buf' \in Seq(Versions) /\ Len(buf') = Len(buf) + 1
        BY <1>0, <1>23, <2>1, AppendProperties DEF CopyRecovered
  <2> QED BY <1>0, <1>23, <2>1, <2>2 DEF CopyRecovered, Copied, Parts
<1>24. CASE Flush
       BY <1>0, <1>24, ConcatProperties DEF Flush, Copied
<1>25. CASE EndMerge
      BY <1>0, <1>a, <1>25 DEF EndMerge, Copied
<1>26. CASE EndCopy
      BY <1>0, <1>a, <1>26 DEF EndCopy, Copied
<1>27. CASE EndRecover
      BY <1>0, <1>a, <1>27 DEF EndRecover, Copied
<1>28. CASE AlreadyComplete
      BY <1>0, <1>a, <1>28 DEF AlreadyComplete, Copied
<1>29. CASE ResumeTail
  <2>1. part' \in Seq(Versions) /\ Len(part') = Chunks /\ buf = <<>>
        BY <1>29, ResumedTyped DEF ResumeTail, CopyInv
  <2> QED BY <1>0, <1>29, <2>1 DEF ResumeTail, Copied
<1>30. CASE ResumeBreaksOff
  <2>1. part' \in Seq(Versions) /\ Len(part') = Len(part) + 1 /\ buf = <<>>
        BY <1>0, <1>30, AppendProperties DEF ResumeBreaksOff, CopyInv
  <2> QED BY <1>0, <1>a, <1>30, <2>1 DEF ResumeBreaksOff, Copied
<1>31. CASE Done \/ UNCHANGED vars
      BY <1>0, <1>a, <1>31 DEF Done, vars, Copied
<1>32. CASE ProcessExits
      BY <1>0, <1>a, <1>32 DEF ProcessExits, Copied
<1>33. CASE \E v \in Versions : ServerChanges(v)
      BY <1>0, <1>a, <1>33 DEF ServerChanges, Copied
<1>34. CASE \E i \in Ids, c \in Parts : LateCreate(i, c)
      BY <1>0, <1>a, <1>34 DEF LateCreate, Copied
<1> QED BY <1>1, <1>2, <1>3, <1>4, <1>5, <1>6, <1>7, <1>8, <1>9, <1>10, <1>11,
           <1>12, <1>13, <1>14, <1>15, <1>16, <1>17, <1>18, <1>19, <1>20, <1>21,
           <1>22, <1>23, <1>24, <1>25, <1>26, <1>27, <1>28, <1>29, <1>30, <1>31,
           <1>32, <1>33, <1>34
        DEF Next, Work, Fetch

LEMMA StepTyped == TInv /\ [Next]_vars => TInv'
  BY StepType, StepLate, StepFetched, StepCopied DEF TInv

(* Every reachable state is well typed; in particular no merge copies more *)
(* than there is.                                                          *)
THEOREM TypeCorrect == Spec => []TypeOK
<1>1. TInv => TypeOK
      BY DEF TInv
<1> QED BY InitTyped, StepTyped, <1>1, PTL DEF Spec

-----------------------------------------------------------------------------
(* An interrupted recovery, and a failed attempt.                          *)

LEMMA StepKept == TInv /\ RecoveryKeepsChunks /\ [Next]_vars => RecoveryKeepsChunks'
<1> SUFFICES ASSUME TInv, RecoveryKeepsChunks, [Next]_vars, pc' = "recover"
             PROVE  RecoveryKeepsChunks'
    BY DEF RecoveryKeepsChunks
<1> USE DEF RecoveryKeepsChunks, diskVars, runVars, envVars
<1>0. /\ Len(part) \in Nat /\ Len(buf) \in Nat /\ Copied = Len(part) + Len(buf)
      /\ part \in Seq(Versions) /\ buf \in Seq(Versions) /\ Len(<<>>) = 0
      BY Lengths DEF TInv, TypeOK, Copied
<1>1. CASE BeginRecover
  <2>1. part' = <<>> /\ buf' = <<>>
        BY <1>1 DEF BeginRecover, TInv, CopyInv
  <2>2. Len(part') = 0 /\ Copied' = 0
        BY <1>0, <2>1 DEF Copied
  <2> QED BY <2>2
<1>2. CASE CopyRecovered
  <2>1. Len(buf') = Len(buf) + 1 /\ part' = part /\ chunk' = chunk /\ id' = id /\ pc = "recover"
        BY <1>0, <1>2, AppendProperties DEF CopyRecovered
  <2>2. Copied' = Copied + 1
        BY <1>0, <2>1 DEF Copied
  <2>3. chunk[id][Copied] # "none"
        BY <1>2 DEF CopyRecovered
  <2> QED BY <1>0, <2>1, <2>2, <2>3
<1>3. CASE Flush
  <2>1. Len(part') = Copied /\ Copied' = Copied
        BY <1>0, <1>3, ConcatProperties DEF Flush, Copied
  <2> QED BY <1>0, <2>1
<1>4. CASE \E i \in Ids, c \in Parts : LateCreate(i, c)
  <2>1. PICK i \in Ids, c \in Parts : LateCreate(i, c)
        BY <1>4
  <2>2. \A d : chunk[id][d] # "none" => chunk'[id][d] # "none"
        BY <2>1 DEF LateCreate, TInv, TypeOK
  <2> QED BY <2>1, <2>2 DEF LateCreate, Copied
<1>5. CASE UNCHANGED vars \/ \E v \in Versions : ServerChanges(v)
      BY <1>5 DEF vars, ServerChanges, Copied
<1> QED
  <2>1. \/ BeginRecover \/ CopyRecovered \/ Flush \/ UNCHANGED vars
        \/ \E i \in Ids, c \in Parts : LateCreate(i, c)
        \/ \E v \in Versions : ServerChanges(v)
        BY DEF Next, Work, Fetch, BeginResume, BeginFresh, StartAttempt, Ask, Answer,
           WriteChunk, RecordChunk, SweepChunk, ConsumeChunk, Drained, DeleteManifest,
           ReportError, BeginMerge, CopyChunk, EndMerge, EndCopy, EndRecover,
              ResumeTail,
           AlreadyComplete, Restart, Finish, RetryChunk, FailChunk, RecoverFails,
           MergeFails, ResumeBreaksOff, Done, Stop, ProcessExits
  <2> QED BY <1>1, <1>2, <1>3, <1>4, <1>5, <2>1

(* An attempt ends without its files, or, in a failed merge, without a     *)
(* failed chunk.                                                           *)
SweptInv ==
    pc = "failed" => (Adaptive => OnDisk(id) = {} /\ manifest[id] = {}) \/ Failed = {}

LEMMA StepSwept == TInv /\ SweptInv /\ [Next]_vars => SweptInv'
<1> SUFFICES ASSUME TInv, SweptInv, [Next]_vars, pc' = "failed"
             PROVE  SweptInv'
    BY DEF SweptInv
<1> USE DEF SweptInv, diskVars, runVars, envVars
<1>0. id \in Ids /\ manifest \in [Ids -> SUBSET Parts]
      BY DEF TInv, TypeOK
<1>1. CASE DeleteManifest
      BY <1>0, <1>1 DEF DeleteManifest, OnDisk
<1>2. CASE MergeFails
      BY <1>2 DEF MergeFails, Failed, TInv, FetchInv
<1>3. CASE \E i \in Ids, c \in Parts : LateCreate(i, c)
  <2>1. PICK i \in Ids, c \in Parts : LateCreate(i, c)
        BY <1>3
  <2>2. Adaptive => i # id
        BY <2>1 DEF LateCreate, TInv, LateInv
  <2>3. Adaptive => chunk'[id] = chunk[id]
        BY <1>0, <2>1, <2>2 DEF LateCreate, TInv, TypeOK
  <2> QED BY <2>1, <2>3 DEF LateCreate, OnDisk, Failed
<1>4. CASE UNCHANGED vars \/ \E v \in Versions : ServerChanges(v)
      BY <1>4 DEF vars, ServerChanges, OnDisk, Failed
<1> QED
  <2>1. \/ DeleteManifest \/ MergeFails \/ UNCHANGED vars
        \/ \E i \in Ids, c \in Parts : LateCreate(i, c)
        \/ \E v \in Versions : ServerChanges(v)
        BY DEF Next, Work, Fetch, BeginResume, BeginRecover, BeginFresh,
           StartAttempt, Ask,
           Answer, WriteChunk, RecordChunk, SweepChunk, ConsumeChunk, Drained,
              ReportError,
           BeginMerge, CopyChunk, CopyRecovered, Flush, EndMerge, EndCopy, EndRecover,
           ResumeTail, AlreadyComplete, Restart, Finish, RetryChunk, FailChunk,
           RecoverFails, ResumeBreaksOff, Done, Stop, ProcessExits
  <2> QED BY <1>1, <1>2, <1>3, <1>4, <2>1

(* Interrupting a recovery deletes nothing, whatever happens around it.    *)
THEOREM KeepsChunks == Spec => []RecoveryKeepsChunks
<1>1. Init => RecoveryKeepsChunks
      BY DEF Init, RecoveryKeepsChunks
<1> QED BY InitTyped, StepTyped, StepKept, <1>1, PTL DEF Spec

(* With the adaptive scheduler, an attempt given up because a chunk failed *)
(* has taken its chunk files and its manifest with it, for good.           *)
THEOREM FailureSwept ==
    ASSUME Adaptive
    PROVE  Spec => []FailedFetchSwept
<1>1. Init => SweptInv
      BY DEF Init, SweptInv
<1>2. TInv /\ SweptInv => FailedFetchSwept
      BY DEF TInv, LateInv, SweptInv, FailedFetchSwept
<1> QED BY InitTyped, StepTyped, StepSwept, <1>1, <1>2, PTL DEF Spec

-----------------------------------------------------------------------------
(* One attempt's chunks.                                                   *)

Listed(i) == {c \in Parts : \A d \in 0 .. c : d \in manifest[i]}
Headed(i) == 0 \in manifest[i] /\ chunk[i][0] \in Versions

LEMMA IntactListed ==
    ASSUME NEW i \in Ids, TypeOK
    PROVE  /\ Intact(i) \subseteq Listed(i) /\ Listed(i) \subseteq manifest[i]
           /\ \A c \in Intact(i) : chunk[i][c] \in Versions
           /\ \A c \in Intact(i) : \A d \in 0 .. c : d \in Intact(i)
           /\ \A c \in Listed(i) : \A d \in 0 .. c : d \in Listed(i)
           /\ Intact(i) # {} => Headed(i)
           /\ Headed(i) => 0 \in Intact(i)
<1>0. 0 \in Parts /\ Parts \subseteq Nat /\ \A c \in Parts : 0 \in 0 .. c /\ c \in 0 .. c
      BY DEF Parts
<1>1. \A c \in Parts : \A d \in 0 .. c : d \in Parts /\ \A e \in 0 .. d : e \in 0 .. c
      BY DEF Parts
<1>2. \A e \in 0 .. 0 : e = 0
      OBVIOUS
<1> QED BY <1>0, <1>1, <1>2 DEF Intact, Listed, Headed

(* Steps that write no chunk to its end and list none: what is verified    *)
(* afterwards was verified before.                                         *)
Shrinks == \A i \in Ids :
    /\ manifest'[i] \subseteq manifest[i]
    /\ \A c \in Parts : chunk'[i][c] = chunk[i][c] \/ chunk'[i][c] \notin Versions

LEMMA ShrinksVerified ==
    ASSUME NEW i \in Ids, Shrinks
    PROVE  /\ Intact(i)' \subseteq Intact(i) /\ Listed(i)' \subseteq Listed(i)
           /\ Headed(i)' => Headed(i)
           /\ \A c \in Parts : chunk'[i][c] \in Versions => chunk'[i][c] = chunk[i][c]
           /\ \A c \in Listed(i) : chunk'[i][c] \in Versions => chunk[i][c] \in Versions
<1>0. 0 \in Parts /\ \A c \in Parts : \A d \in 0 .. c : d \in Parts
      BY DEF Parts
<1> QED BY <1>0 DEF Shrinks, Intact, Listed, Headed

LEMMA StepShrinks ==
    ASSUME TInv, [Next]_vars, ~ \E c \in Parts : WriteChunk(c) \/ RecordChunk(c)
    PROVE  Shrinks
<1> USE DEF diskVars, runVars, envVars
<1>0. /\ id \in Ids /\ manifest \in [Ids -> SUBSET Parts]
      /\ chunk \in [Ids -> [Parts -> Versions \cup {"none", "partial"}]]
      /\ "none" \notin Versions /\ "partial" \notin Versions
      BY DEF TInv, TypeOK
<1>1. CASE \E c \in Parts : Answer(c) \/ RetryChunk(c) \/ FailChunk(c) \/ SweepChunk(c)
                            \/ ConsumeChunk(c)
      BY <1>0, <1>1 DEF Answer, RetryChunk, FailChunk, SweepChunk, ConsumeChunk,
         Shrinks
<1>2. CASE \E i \in Ids, c \in Parts : LateCreate(i, c)
      BY <1>0, <1>2 DEF LateCreate, Shrinks
<1>3. CASE DeleteManifest \/ EndMerge \/ EndRecover
      BY <1>0, <1>3 DEF DeleteManifest, EndMerge, EndRecover, Shrinks
<1>4. CASE CopyChunk
      BY <1>0, <1>4 DEF CopyChunk, Shrinks
<1>5. CASE UNCHANGED <<chunk, manifest>>
      BY <1>5 DEF Shrinks
<1> QED BY <1>1, <1>2, <1>3, <1>4, <1>5
        DEF Next, Work, Fetch, BeginResume, BeginRecover, BeginFresh, StartAttempt,
           Ask,
        Drained, ReportError, BeginMerge, CopyRecovered, Flush, EndCopy, ResumeTail,
        AlreadyComplete, Restart, Finish, RecoverFails, MergeFails, ResumeBreaksOff,
           Done,
        Stop, ProcessExits, ServerChanges, vars

(* An attempt only touches its own files. *)
LEMMA OwnFiles ==
    ASSUME TInv, NEW c \in Parts, WriteChunk(c) \/ RecordChunk(c),
           NEW i \in Ids, i # id
    PROVE  /\ Intact(i)' = Intact(i) /\ Listed(i)' = Listed(i) /\ Headed(i)' = Headed(i)
           /\ chunk'[i] = chunk[i] /\ manifest'[i] = manifest[i]
<1>1. chunk'[i] = chunk[i] /\ manifest'[i] = manifest[i]
      BY DEF WriteChunk, RecordChunk, TInv, TypeOK
<1> QED BY <1>1 DEF Intact, Listed, Headed

(* What it has recorded is of its representation.                          *)
LEMMA RecordedVerified ==
    ASSUME TInv, NEW c \in Parts, RecordChunk(c)
    PROVE  /\ manifest'[id] = memory' /\ chunk' = chunk /\ memory' \subseteq Parts
           /\ \A d \in memory' : chunk'[id][d] = sidecar
<1>1. c \in memory' => chunk[id][c] = sidecar
      BY DEF RecordChunk, TInv, FetchInv
<1>2. \A d \in memory : chunk[id][d] = sidecar
      BY DEF RecordChunk, TInv, FetchInv, TypeOK
<1> QED BY <1>1, <1>2 DEF RecordChunk, TInv, TypeOK

-----------------------------------------------------------------------------
(* The argument.  Whatever a recovery would take, and whatever is copied   *)
(* or copied out, is of the representation the sidecar names.  That stays  *)
(* so for one of two reasons.  The resource may be done changing, when all *)
(* chunks that a manifest lists are of the one representation there is.    *)
(* Or at most one chunk set is verified, and it is the running attempt's:  *)
(* an attempt begins when nothing is verified, and what has been delivered *)
(* to the partial file has been taken from its chunks.                     *)
Vouched == pc # "done" => \A i \in Ids : \A c \in Intact(i) : chunk[i][c] = sidecar

Uniform == /\ \A n \in 1 .. Len(part) : part[n] = sidecar
           /\ \A n \in 1 .. Len(buf) : buf[n] = sidecar

InHand == /\ pc = "recover" => claim \subseteq Listed(id) /\ sidecar \in Versions
          /\ pc = "consume" => Len(part) = Cardinality(claim)
          /\ pc = "resume" => part # <<>>

Settled ==
    /\ changes = may.changes
    /\ sidecar \in {Nothing, serves}
    /\ \A i \in Ids : \A c \in Listed(i) : chunk[i][c] \in Versions => chunk[i][c] = serves

Quiet == may.stops \cap {"merge", "recover", "consume"} = {}

Alone ==
    /\ pc \in {"fresh", "resume"} \/ (part # <<>> /\ pc = "idle")
          => \A i \in Ids : ~ Headed(i)
    /\ pc \in {"fetch", "sweep", "failed", "merge", "recover", "consume"}
          => \A i \in Ids : i # id => ~ Headed(i)
    /\ pc = "idle" => \A i, j \in Ids : Headed(i) /\ Headed(j) => i = j
    /\ pc \in {"fetch", "sweep", "failed"} => part = <<>>
    /\ pc = "fetch" => Listed(id) \subseteq memory
    /\ \A x \in late : x[2] \notin Intact(x[1])
    /\ pc = "recover" => claim = Intact(id)

(* An id that one process has yet to hand out has no manifest.             *)
OneProcess == ~ may.restarts /\ \A i \in Ids : nextId <= i => manifest[i] = {}

(* With other processes the manifests left behind matter as well: none     *)
(* lists a chunk that is not there, or all of what it lists has been taken.*)
InPlace(i)  == \A c \in Listed(i) : chunk[i][c] \in Versions
Consumed(i) == \A c \in Listed(i) : chunk[i][c] \notin Versions

OneChange ==
    /\ "sweep" \notin may.stops /\ may.changes <= 1
    /\ changes = 0 => sidecar \in {Nothing, serves}
    /\ changes # 0 => sidecar # serves
    /\ pc \in {"fresh", "recover", "failed"} \/ (pc = "idle" /\ part = <<>>)
          => \A i \in Ids : InPlace(i)
    /\ pc \in {"fetch", "sweep", "merge"} => \A i \in Ids : i # id => InPlace(i)
    /\ pc = "consume" => Listed(id) \subseteq claim /\ \A i \in Ids : i # id => Listed(i) = {}
    /\ pc = "resume" \/ (pc = "idle" /\ part # <<>>) => \A i \in Ids : Consumed(i)

Apart == Quiet /\ Alone /\ (OneProcess \/ OneChange)

DInv == /\ Vouched /\ Uniform /\ InHand
        /\ RecoversOneAttempt /\ DeliveredExact
        /\ pc \notin {"done", "finish"} => Settled \/ Apart

LEMMA StepSettled ==
    ASSUME TInv, Settled, Next
    PROVE  Settled'
<1> USE DEF Settled, diskVars, runVars, envVars, Nothing
<1>0. ~ \E v \in Versions : ServerChanges(v)
      BY DEF ServerChanges, TInv, TypeOK, ScenarioType
<1>1. changes' = changes /\ may' = may /\ serves' = serves
      BY <1>0 DEF Next, Work, Fetch, BeginResume, BeginRecover, BeginFresh,
         StartAttempt,
        Ask, Answer, WriteChunk, RecordChunk, SweepChunk, ConsumeChunk, RetryChunk,
        FailChunk, Drained, DeleteManifest, ReportError, BeginMerge, CopyChunk,
        CopyRecovered, Flush, EndMerge, EndCopy, EndRecover, ResumeTail,
           AlreadyComplete,
        Restart, Finish, RecoverFails, MergeFails, ResumeBreaksOff, Done, Stop,
        ProcessExits, LateCreate, vars
<1>2. sidecar' \in {sidecar, Nothing, serves}
      BY DEF Next, Work, Fetch, BeginResume, BeginRecover, BeginFresh, StartAttempt,
         Ask,
        Answer, WriteChunk, RecordChunk, SweepChunk, ConsumeChunk, RetryChunk,
           FailChunk,
        Drained, DeleteManifest, ReportError, BeginMerge, CopyChunk, CopyRecovered,
           Flush,
        EndMerge, EndCopy, EndRecover, ResumeTail, AlreadyComplete, Restart, Finish,
        RecoverFails, MergeFails, ResumeBreaksOff, Done, Stop, ProcessExits,
           ServerChanges,
        LateCreate, vars
<1>3. ASSUME NEW i \in Ids, NEW d \in Listed(i)', chunk'[i][d] \in Versions
      PROVE  chunk'[i][d] = serves
  <2>1. CASE ~ \E c \in Parts : WriteChunk(c) \/ RecordChunk(c)
    <3>1. Shrinks
          BY <2>1, StepShrinks
    <3>2. d \in Listed(i) /\ d \in Parts
          BY <1>3, <3>1, ShrinksVerified DEF Listed
    <3>3. chunk'[i][d] = chunk[i][d]
          BY <1>3, <3>1, <3>2, ShrinksVerified
    <3> QED BY <1>3, <3>2, <3>3
  <2>2. CASE \E c \in Parts : WriteChunk(c) \/ RecordChunk(c)
    <3>1. PICK c \in Parts : WriteChunk(c) \/ RecordChunk(c)
          BY <2>2
    <3>2. pc = "fetch" /\ sidecar \in Versions
          BY <3>1 DEF WriteChunk, RecordChunk, TInv, FetchInv
    <3>3. sidecar = serves
          BY <3>2, ChunkedTransferAssumption
    <3>4. CASE i # id
          BY <1>3, <3>1, <3>4, OwnFiles
    <3>5. CASE i = id /\ WriteChunk(c)
      <4>1. d \in Listed(i) /\ chunk'[i][d] \in {chunk[i][d], sidecar}
            BY <1>3, <3>5 DEF WriteChunk, Listed, TInv, TypeOK
      <4> QED BY <1>3, <3>3, <4>1
    <3>6. CASE i = id /\ RecordChunk(c)
      <4>1. d \in manifest'[i]
            BY <1>3 DEF Listed, Parts
      <4> QED BY <3>3, <3>6, <4>1, RecordedVerified
    <3> QED BY <3>1, <3>4, <3>5, <3>6
  <2> QED BY <2>1, <2>2
<1> QED BY <1>1, <1>2, <1>3
(* Sequences of one value. *)
LEMMA AppendSame ==
    ASSUME NEW v, NEW S, NEW s \in Seq(S), v \in S, \A n \in 1 .. Len(s) : s[n] = v
    PROVE  \A n \in 1 .. Len(Append(s, v)) : Append(s, v)[n] = v
BY AppendProperties

LEMMA ConcatSame ==
    ASSUME NEW v, NEW S, NEW s \in Seq(S), NEW t \in Seq(S),
           \A n \in 1 .. Len(s) : s[n] = v, \A n \in 1 .. Len(t) : t[n] = v
    PROVE  \A n \in 1 .. Len(s \o t) : (s \o t)[n] = v
<1>1. Len(s) \in Nat /\ Len(t) \in Nat /\ Len(s \o t) = Len(s) + Len(t)
      BY ConcatProperties, LenProperties
<1>2. \A n \in 1 .. Len(s) + Len(t) :
          (s \o t)[n] = IF n <= Len(s) THEN s[n] ELSE t[n - Len(s)]
      BY ConcatProperties
<1> QED BY <1>1, <1>2

LEMMA RecoveredIsVouched ==
    ASSUME TInv, DInv, CopyRecovered
    PROVE  chunk[id][Copied] = sidecar /\ sidecar \in Versions
<1>0. /\ pc = "recover" /\ Copied \in claim /\ chunk[id][Copied] \in Versions
      /\ claim \subseteq Listed(id) /\ sidecar \in Versions /\ id \in Ids
      BY DEF CopyRecovered, DInv, InHand, TInv, TypeOK
<1>1. CASE Settled
      BY <1>0, <1>1, ChunkedTransferAssumption DEF Settled, Nothing
<1>2. CASE Apart
      BY <1>0, <1>2 DEF Apart, Alone, DInv, Vouched
<1> QED BY <1>0, <1>1, <1>2 DEF DInv

LEMMA StepUniform ==
    ASSUME TInv, DInv, Next
    PROVE  Uniform'
<1> USE DEF Uniform, diskVars, runVars, envVars
<1>0. /\ part \in Seq(Versions) /\ buf \in Seq(Versions) /\ Len(<<>>) = 0
      /\ Uniform /\ Len(part) \in Nat /\ Len(buf) \in Nat /\ Len(part) <= Chunks
      BY Lengths DEF TInv, TypeOK, DInv, Copied
<1>1. CASE StartAttempt
  <2>1. part' = <<>> /\ buf' = <<>>
        BY <1>1 DEF StartAttempt, TInv, CopyInv
  <2> QED BY <1>0, <2>1
<1>2. CASE Restart \/ Finish
  <2>1. part' = <<>> /\ buf' = <<>>
        BY <1>2 DEF Restart, Finish, TInv, CopyInv
  <2> QED BY <1>0, <2>1
<1>3. CASE CopyChunk
  <2>1. chunk[id][Copied] = sidecar /\ sidecar \in Versions
    <3>1. Copied \in Parts /\ pc = "merge"
          BY <1>3, Lengths DEF CopyChunk, TInv, Parts
    <3>2. Copied >= Copied
          BY <3>1 DEF Parts
    <3> QED BY <3>1, <3>2 DEF TInv, FetchInv
  <2>2. part' = part /\ sidecar' = sidecar /\ buf' = Append(buf, sidecar)
        BY <1>3, <2>1 DEF CopyChunk
  <2> QED BY <1>0, <2>1, <2>2, AppendSame
<1>4. CASE CopyRecovered
  <2>1. part' = part /\ sidecar' = sidecar /\ buf' = Append(buf, sidecar)
        BY <1>4, RecoveredIsVouched DEF CopyRecovered
  <2> QED BY <1>0, <1>4, <2>1, RecoveredIsVouched, AppendSame
<1>5. CASE Flush
  <2>1. part' = part \o buf /\ buf' = <<>> /\ sidecar' = sidecar
        BY <1>5 DEF Flush
  <2> QED BY <1>0, <2>1, ConcatSame
<1>6. CASE ResumeTail
  <2>1. part' = part \o [n \in 1 .. Chunks - Len(part) |-> sidecar]
        /\ sidecar' = sidecar /\ buf' = buf /\ sidecar \in Versions
        BY <1>6 DEF ResumeTail, Resumed, TInv, TypeOK
  <2>2. /\ [n \in 1 .. Chunks - Len(part) |-> sidecar] \in Seq(Versions)
        /\ Len([n \in 1 .. Chunks - Len(part) |-> sidecar]) = Chunks - Len(part)
        BY <1>0, <2>1, CopiesTyped
  <2>3. \A n \in 1 .. Chunks - Len(part) : [m \in 1 .. Chunks - Len(part) |-> sidecar][n] = sidecar
        OBVIOUS
  <2> HIDE DEF Uniform
  <2>4. \A n \in 1 .. Len(part') : part'[n] = sidecar
        BY <1>0, <2>1, <2>2, <2>3, ConcatSame DEF Uniform
  <2> QED BY <1>0, <2>1, <2>4 DEF Uniform
<1>7. CASE ResumeBreaksOff
  <2>1. part' = Append(part, sidecar) /\ sidecar' = sidecar /\ buf' = buf /\ sidecar \in Versions
        BY <1>7 DEF ResumeBreaksOff, TInv, TypeOK
  <2> QED BY <1>0, <2>1, AppendSame
<1>8. CASE BeginMerge \/ RecoverFails \/ MergeFails \/ Stop
      BY <1>0, <1>8 DEF BeginMerge, RecoverFails, MergeFails, Stop
<1>9. CASE UNCHANGED <<part, buf, sidecar>>
      BY <1>0, <1>9
<1> QED BY <1>1, <1>2, <1>3, <1>4, <1>5, <1>6, <1>7, <1>8, <1>9
        DEF Next, Work, Fetch, BeginResume, BeginRecover, BeginFresh, Ask, Answer,
        WriteChunk, RecordChunk, SweepChunk, ConsumeChunk, RetryChunk, FailChunk,
           Drained,
        DeleteManifest, ReportError, EndMerge, EndCopy, EndRecover, AlreadyComplete,
           Done,
        ProcessExits, ServerChanges, LateCreate, vars

LEMMA StepVouched ==
    ASSUME TInv, DInv, Next
    PROVE  Vouched'
<1> USE DEF diskVars, runVars, envVars
<1> SUFFICES ASSUME pc' # "done", NEW i \in Ids, NEW d \in Intact(i)'
             PROVE  chunk'[i][d] = sidecar'
    BY DEF Vouched
<1>0. /\ pc # "done" /\ id \in Ids /\ Vouched /\ d \in Parts
      /\ chunk \in [Ids -> [Parts -> Versions \cup {"none", "partial"}]]
  <2>1. pc # "done"
        BY DEF Next, Work, Fetch, BeginResume, BeginRecover, BeginFresh,
           StartAttempt, Ask,
        Answer, WriteChunk, RecordChunk, SweepChunk, ConsumeChunk, RetryChunk,
           FailChunk,
        Drained, DeleteManifest, ReportError, BeginMerge, CopyChunk, CopyRecovered,
           Flush,
        EndMerge, EndCopy, EndRecover, ResumeTail, AlreadyComplete, Restart, Finish,
        RecoverFails, MergeFails, ResumeBreaksOff, Done, ProcessExits, ServerChanges,
        LateCreate, vars, Stop, TInv, TypeOK, ScenarioType
  <2> QED BY <2>1 DEF TInv, TypeOK, DInv, Intact
<1>1. CASE StartAttempt \/ Restart
  <2>1. /\ chunk' = chunk /\ manifest' = manifest /\ Intact(i)' = Intact(i)
        /\ pc \in {"fresh", "resume"}
        BY <1>1 DEF StartAttempt, Restart, Intact
  <2>2. d \in Intact(i) /\ d \in Listed(i) /\ chunk[i][d] \in Versions /\ Headed(i)
        BY <2>1, IntactListed DEF TInv
  <2>3. ~ Apart
        BY <2>1, <2>2 DEF Apart, Alone
  <2>4. Settled /\ chunk[i][d] = serves /\ chunk[i][d] = sidecar
        BY <1>0, <2>1, <2>2, <2>3 DEF DInv, Settled, Vouched
  <2> QED BY <1>1, <2>1, <2>4 DEF StartAttempt, Restart
<1>2. CASE \E c \in Parts : WriteChunk(c)
  <2>1. PICK c \in Parts : WriteChunk(c)
        BY <1>2
  <2>2. CASE i # id
        BY <1>0, <2>1, <2>2, OwnFiles DEF Vouched, WriteChunk
  <2>3. CASE i = id
    <3>1. /\ Listed(i)' = Listed(i) /\ d \in Listed(i)
          /\ chunk' = [chunk EXCEPT ![id][c] = sidecar] /\ sidecar' = sidecar
          BY <2>1 DEF WriteChunk, Listed, Intact
    <3>2. CASE d = c
          BY <1>0, <2>3, <3>1, <3>2
    <3>3. CASE d # c /\ Settled
      <4>1. chunk'[i][d] = chunk[i][d] /\ chunk'[i][d] \in Versions
            BY <1>0, <2>3, <3>1, <3>3 DEF Intact, Parts
      <4>2. sidecar = serves
            BY <2>1, <3>3, ChunkedTransferAssumption
            DEF WriteChunk, TInv, FetchInv, Settled, Nothing
      <4> QED BY <3>1, <3>3, <4>1, <4>2 DEF Settled
    <3>4. CASE d # c /\ Apart
      <4>1. c \notin Listed(i)
            BY <2>1, <2>3, <3>4 DEF WriteChunk, Apart, Alone, TInv, FetchInv
      <4>2. \A e \in 0 .. d : e # c /\ e \in Parts
            BY <1>0, <3>1, <4>1, IntactListed DEF TInv, Parts
      <4>3. \A e \in 0 .. d : chunk'[i][e] = chunk[i][e]
            BY <1>0, <2>3, <3>1, <4>2
      <4>4. d \in Intact(i)
            BY <3>1, <4>3 DEF Intact, Listed
      <4> QED BY <1>0, <3>1, <4>3, <4>4 DEF Vouched, Parts
    <3>5. Settled \/ Apart
          BY <2>1 DEF WriteChunk, DInv
    <3> QED BY <3>2, <3>3, <3>4, <3>5
  <2> QED BY <2>2, <2>3
<1>3. CASE \E c \in Parts : RecordChunk(c)
  <2>1. PICK c \in Parts : RecordChunk(c)
        BY <1>3
  <2>2. CASE i # id
        BY <1>0, <2>1, <2>2, OwnFiles DEF Vouched, RecordChunk
  <2>3. CASE i = id
    <3>1. d \in manifest'[i]
          BY <1>0 DEF Intact, Parts
    <3> QED BY <2>1, <2>3, <3>1, RecordedVerified DEF RecordChunk
  <2> QED BY <2>2, <2>3
<1>4. CASE sidecar' = sidecar /\ ~ \E c \in Parts : WriteChunk(c) \/ RecordChunk(c)
  <2>1. Shrinks
        BY <1>4, StepShrinks
  <2>2. d \in Intact(i) /\ chunk'[i][d] \in Versions
        BY <2>1, ShrinksVerified DEF Intact, Parts
  <2>3. chunk'[i][d] = chunk[i][d]
        BY <1>0, <2>1, <2>2, ShrinksVerified
  <2> QED BY <1>0, <1>4, <2>2, <2>3 DEF Vouched
<1>5. CASE Finish
      BY <1>5 DEF Finish
<1>6. sidecar' = sidecar \/ StartAttempt \/ Restart \/ Finish
      BY DEF Next, Work, Fetch, BeginResume, BeginRecover, BeginFresh, StartAttempt,
         Ask,
        Answer, WriteChunk, RecordChunk, SweepChunk, ConsumeChunk, RetryChunk,
           FailChunk,
        Drained, DeleteManifest, ReportError, BeginMerge, CopyChunk, CopyRecovered,
           Flush,
        EndMerge, EndCopy, EndRecover, ResumeTail, AlreadyComplete, Restart, Finish,
        RecoverFails, MergeFails, ResumeBreaksOff, Done, Stop, ProcessExits,
           ServerChanges,
        LateCreate, vars
<1> QED BY <1>1, <1>2, <1>3, <1>4, <1>5, <1>6
LEMMA StepInHand ==
    ASSUME TInv, DInv, Next
    PROVE  InHand'
<1> USE DEF InHand, diskVars, runVars, envVars
<1>0. InHand
      BY DEF DInv
<1>1. CASE BeginRecover
  <2>1. id' \in Found
        BY <1>1, MaxIsElement DEF BeginRecover, Found, Ids
  <2>2. PICK j \in Ids : /\ j = id' /\ Intact(j) # {} /\ claim' = Intact(j)
                         /\ sidecar' = sidecar /\ manifest' = manifest
                         /\ pc = "idle" /\ pc' = "recover"
        BY <1>1, <2>1 DEF BeginRecover, Found
  <2>3. Intact(j) \subseteq Listed(j) /\ Listed(j)' = Listed(j)
        BY <2>2, IntactListed DEF TInv, Listed
  <2>4. sidecar \in Versions
        BY <2>2, IntactListed DEF TInv, DInv, Vouched
  <2>5. Listed(id)' = Listed(j)'
        BY <2>2 DEF Listed
  <2> QED BY <2>2, <2>3, <2>4, <2>5
<1>2. CASE EndCopy \/ BeginResume
      BY <1>2 DEF EndCopy, BeginResume
<1>3. CASE EndRecover
  <2>1. PICK k \in 1 .. Chunks : claim = 0 .. k - 1
        BY <1>3 DEF EndRecover, TInv, CopyInv
  <2>2. Cardinality(claim) = k
        BY <2>1, FS_Interval
  <2>3. Len(part) = k /\ part' = part
        BY <1>0, <1>3, <2>2 DEF EndRecover
  <2> QED BY <1>3, <2>3 DEF EndRecover, TInv, TypeOK
<1>4. CASE UNCHANGED <<pc, id, claim, manifest, sidecar, part>>
      BY <1>0, <1>4 DEF Listed
<1>5. CASE CopyRecovered \/ Flush
      BY <1>0, <1>5 DEF CopyRecovered, Flush, Listed
<1>6. CASE pc' \notin {"recover", "consume", "resume"}
      BY <1>6
<1> QED BY <1>1, <1>2, <1>3, <1>4, <1>5, <1>6
        DEF Next, Work, Fetch, BeginFresh, StartAttempt, Ask,
        Answer, WriteChunk, RecordChunk, SweepChunk, ConsumeChunk, RetryChunk,
           FailChunk,
        Drained, DeleteManifest, ReportError, BeginMerge, CopyChunk,
        EndMerge, ResumeTail, AlreadyComplete, Restart, Finish,
        RecoverFails, MergeFails, ResumeBreaksOff, Done, Stop, ProcessExits,
           ServerChanges,
        LateCreate, vars

LEMMA StepOneAttempt ==
    ASSUME TInv, DInv, Next
    PROVE  RecoversOneAttempt'
<1>1. CASE pc' # "done"
      BY <1>1, StepVouched DEF Vouched, RecoversOneAttempt
<1>2. CASE pc' = "done"
  <2>1. chunk' = chunk /\ manifest' = manifest
        BY <1>2 DEF Next, Work, Fetch, BeginResume, BeginRecover, BeginFresh,
           StartAttempt,
        Ask, Answer, WriteChunk, RecordChunk, SweepChunk, ConsumeChunk, RetryChunk,
           FailChunk,
        Drained, DeleteManifest, ReportError, BeginMerge, CopyChunk, CopyRecovered,
           Flush,
        EndMerge, EndCopy, EndRecover, ResumeTail, AlreadyComplete, Restart, Finish,
        RecoverFails, MergeFails, ResumeBreaksOff, Done, Stop, ProcessExits,
           ServerChanges,
        LateCreate, vars
  <2>2. \A i : Intact(i)' = Intact(i)
        BY <2>1 DEF Intact
  <2> QED BY <2>1, <2>2 DEF DInv, RecoversOneAttempt
<1> QED BY <1>1, <1>2

LEMMA StepExact ==
    ASSUME TInv, DInv, Next
    PROVE  DeliveredExact'
<1>1. CASE Finish
  <2>1. delivered' = part /\ part \in Seq(Versions) /\ Len(part) = Chunks
        /\ \A n \in 1 .. Chunks : part[n] = sidecar
        BY <1>1 DEF Finish, TInv, TypeOK, CopyInv, DInv, Uniform
  <2>2. sidecar = part[1] /\ sidecar \in Versions
        BY <2>1
  <2>3. part = Whole(sidecar)
        BY <2>1 DEF Whole
  <2> QED BY <2>1, <2>2, <2>3 DEF DeliveredExact
<1>2. CASE delivered' = delivered
      BY <1>2 DEF DInv, DeliveredExact
<1> QED BY <1>1, <1>2 DEF Next, Work, Fetch, BeginResume, BeginRecover, BeginFresh,
        StartAttempt, Ask, Answer, WriteChunk, RecordChunk, SweepChunk, ConsumeChunk,
        RetryChunk, FailChunk, Drained, DeleteManifest, ReportError, BeginMerge,
           CopyChunk,
        CopyRecovered, Flush, EndMerge, EndCopy, EndRecover, ResumeTail,
           AlreadyComplete,
        Restart, RecoverFails, MergeFails, ResumeBreaksOff, Done, Stop, ProcessExits,
        ServerChanges, LateCreate, vars, envVars

(* What one process has yet to number has no manifest. *)
LEMMA StepOneProcess ==
    ASSUME TInv, OneProcess, Next
    PROVE  OneProcess'
<1> USE DEF OneProcess, diskVars, runVars, envVars
<1>0. id \in Nat /\ nextId \in Nat
      BY DEF TInv, TypeOK, Ids
<1>a. may' = may
      BY DEF Next, Work, Fetch, BeginResume, BeginRecover, BeginFresh, StartAttempt,
        Ask, Answer, WriteChunk, RecordChunk, SweepChunk, ConsumeChunk, RetryChunk,
        FailChunk, Drained, DeleteManifest, ReportError, BeginMerge, CopyChunk,
        CopyRecovered, Flush, EndMerge, EndCopy, EndRecover, ResumeTail,
           AlreadyComplete,
        Restart, Finish, RecoverFails, MergeFails, ResumeBreaksOff, Done, Stop,
        ProcessExits, ServerChanges, LateCreate, vars, Forget
<1>b. nextId' \in {nextId, nextId + 1}
      BY DEF Next, Work, Fetch, BeginResume, BeginRecover, BeginFresh, StartAttempt,
        Ask, Answer, WriteChunk, RecordChunk, SweepChunk, ConsumeChunk, RetryChunk,
        FailChunk, Drained, DeleteManifest, ReportError, BeginMerge, CopyChunk,
        CopyRecovered, Flush, EndMerge, EndCopy, EndRecover, ResumeTail,
           AlreadyComplete,
        Restart, Finish, RecoverFails, MergeFails, ResumeBreaksOff, Done, Stop,
        ProcessExits, ServerChanges, LateCreate, vars, Forget
<1>1. may' = may /\ nextId' >= nextId
      BY <1>0, <1>a, <1>b
<1>2. nextId' \in Nat
      BY StepTyped DEF TInv, TypeOK
<1>3. CASE \E c \in Parts : WriteChunk(c) \/ RecordChunk(c)
  <2>1. PICK c \in Parts : WriteChunk(c) \/ RecordChunk(c)
        BY <1>3
  <2>2. id < nextId
        BY <2>1 DEF WriteChunk, RecordChunk, TInv, LateInv
  <2>3. \A i \in Ids : i # id => manifest'[i] = manifest[i]
        BY <2>1, OwnFiles
  <2>4. \A i \in Ids : nextId' <= i => nextId <= i /\ i # id
        BY <1>0, <1>1, <1>2, <2>2 DEF Ids
  <2> QED BY <1>1, <2>3, <2>4
<1>4. CASE ~ \E c \in Parts : WriteChunk(c) \/ RecordChunk(c)
  <2>1. \A i \in Ids : manifest'[i] \subseteq manifest[i]
        BY <1>4, StepShrinks DEF Shrinks
  <2>2. \A i \in Ids : nextId' <= i => nextId <= i
        BY <1>0, <1>1, <1>2 DEF Ids
  <2> QED BY <1>1, <2>1, <2>2
<1> QED BY <1>3, <1>4
(* With nothing verified and no manifest that lists a missing chunk, no    *)
(* manifest lists any.                                                     *)
LEMMA NothingListed ==
    ASSUME NEW i \in Ids, InPlace(i), ~ Headed(i)
    PROVE  Listed(i) = {}
<1>1. 0 \in Parts /\ \A c \in Parts : 0 \in 0 .. c
      BY DEF Parts
<1>2. \A d \in 0 .. 0 : d = 0
      OBVIOUS
<1> QED BY <1>1, <1>2 DEF InPlace, Headed, Listed

(* A chunk asked for, or still open, is not recorded. *)
LEMMA RecordedIsDone ==
    ASSUME TInv, Alone, pc = "fetch", NEW c \in Parts, job[c] # "done"
    PROVE  c \notin memory /\ c \notin Listed(id) /\ c \notin Intact(id)
BY IntactListed DEF Alone, TInv, TypeOK, FetchInv

(* A recovery that may not be broken off fails for no other reason. *)
LEMMA RecoveryGoesOn ==
    ASSUME TInv, Apart
    PROVE  ~ RecoverFails /\ ~ MergeFails /\ (Stop => pc \notin {"merge", "recover", "consume"})
<1>1. ~ RecoverFails
  <2> SUFFICES ASSUME RecoverFails PROVE FALSE
      OBVIOUS
  <2>1. pc = "recover" /\ claim = Intact(id) /\ id \in Ids
        BY DEF RecoverFails, Apart, Alone, TInv, TypeOK
  <2>2. ~ ChunkChanged
        BY <2>1, IntactListed DEF ChunkChanged, TInv
  <2> QED BY <2>1, <2>2 DEF RecoverFails, Apart, Quiet
<1> QED BY <1>1 DEF MergeFails, Stop, Apart, Quiet

LEMMA WriteAlone ==
    ASSUME TInv, Alone, NEW c \in Parts, WriteChunk(c) \/ RecordChunk(c)
    PROVE  Alone'
<1>0. /\ pc = "fetch" /\ pc' = "fetch" /\ id' = id /\ part' = part /\ late' = late
      /\ \A x \in late : x[1] \in Ids /\ x[1] # id
      BY DEF WriteChunk, RecordChunk, diskVars, envVars, TInv, LateInv, TypeOK
<1>1. \A i \in Ids : i # id' => ~ Headed(i)'
      BY <1>0, OwnFiles DEF Alone
<1>2. part' = <<>>
      BY <1>0 DEF Alone
<1>3. Listed(id)' \subseteq memory'
  <2>1. CASE WriteChunk(c)
        BY <1>0, <2>1 DEF WriteChunk, Listed, Alone
  <2>2. CASE RecordChunk(c)
    <3>1. manifest'[id] = memory'
          BY <2>2, RecordedVerified
    <3> QED BY <1>0, <3>1 DEF Listed, Parts
  <2> QED BY <2>1, <2>2
<1>4. \A x \in late' : x[2] \notin Intact(x[1])'
  <2> SUFFICES ASSUME NEW x \in late PROVE x[2] \notin Intact(x[1])'
      BY <1>0
  <2>1. Intact(x[1])' = Intact(x[1])
        BY <1>0, OwnFiles
  <2> QED BY <2>1 DEF Alone
<1> QED BY <1>0, <1>1, <1>2, <1>3, <1>4 DEF Alone

LEMMA StepAlone ==
    ASSUME MaxId < ScanWindow, TInv, DInv, Apart, Next
    PROVE  Alone'
<1> USE DEF diskVars, runVars, envVars, Forget
<1>1. CASE \E c \in Parts : WriteChunk(c) \/ RecordChunk(c)
      BY <1>1, WriteAlone DEF Apart
<1>2. CASE ~ \E c \in Parts : WriteChunk(c) \/ RecordChunk(c)
  <2>1. /\ \A i \in Ids : /\ Headed(i)' => Headed(i)
                          /\ Intact(i)' \subseteq Intact(i)
                          /\ Listed(i)' \subseteq Listed(i)
        /\ id \in Ids /\ id' \in Ids /\ Alone /\ late \subseteq Ids \X Parts
    <3>1. Shrinks /\ TInv'
          BY <1>2, StepShrinks, StepTyped
    <3> QED BY <3>1, ShrinksVerified DEF TInv, TypeOK, Apart
  <2>2. ASSUME pc' \in {"fresh", "resume"} \/ (part' # <<>> /\ pc' = "idle")
        PROVE  \A i \in Ids : ~ Headed(i)'
    <3>1. CASE BeginFresh
      <4>1. \A i \in Ids : i < ScanWindow
            BY DEF Ids
      <4>2. \A i \in Ids : Intact(i) = {}
            BY <3>1, <4>1 DEF BeginFresh, Found
      <4> QED BY <2>1, <4>2, IntactListed DEF TInv
    <3>2. CASE EndRecover
      <4>1. 0 \in claim /\ 0 \in Parts
            BY <3>2 DEF EndRecover, TInv, CopyInv, Parts
      <4>2. chunk'[id][0] = "none"
            BY <3>2, <4>1 DEF EndRecover, OnDisk
      <4>3. ~ Headed(id)'
            BY <3>2, <4>2 DEF EndRecover, Headed
      <4> QED BY <2>1, <3>2, <4>3 DEF EndRecover, Alone
    <3>3. CASE pc \in {"fresh", "resume"} \/ (part # <<>> /\ pc = "idle")
          BY <2>1, <3>3 DEF Alone
    <3>4. CASE pc \in {"fetch", "sweep", "failed"}
      <4>1. part = <<>>
            BY <2>1, <3>4 DEF Alone
      <4> QED BY <2>2, <3>4, <4>1
            DEF Next, Work, Fetch, BeginResume, BeginRecover, BeginFresh,
               StartAttempt, Ask,
            Answer, WriteChunk, RecordChunk, SweepChunk, ConsumeChunk, RetryChunk,
            FailChunk, Drained, DeleteManifest, ReportError, BeginMerge, CopyChunk,
            CopyRecovered, Flush, EndMerge, EndCopy, EndRecover, ResumeTail,
            AlreadyComplete, Restart, Finish, RecoverFails, MergeFails,
               ResumeBreaksOff,
            Done, Stop, ProcessExits, ServerChanges, LateCreate, vars
    <3>5. CASE pc \in {"merge", "recover", "consume", "finish", "done"} /\ ~ EndRecover
          BY <2>2, <3>5, RecoveryGoesOn
            DEF Next, Work, Fetch, BeginResume, BeginRecover, BeginFresh,
               StartAttempt, Ask,
            Answer, WriteChunk, RecordChunk, SweepChunk, ConsumeChunk, RetryChunk,
            FailChunk, Drained, DeleteManifest, ReportError, BeginMerge, CopyChunk,
            CopyRecovered, Flush, EndMerge, EndCopy, EndRecover, ResumeTail,
            AlreadyComplete, Restart, Finish, RecoverFails, MergeFails,
               ResumeBreaksOff,
            Done, Stop, ProcessExits, ServerChanges, LateCreate, vars, TInv, TypeOK,
            ScenarioType
    <3>6. CASE pc = "idle" /\ part = <<>> /\ ~ BeginFresh
          BY <2>2, <3>6
            DEF Next, Work, Fetch, BeginResume, BeginRecover, BeginFresh,
               StartAttempt, Ask,
            Answer, WriteChunk, RecordChunk, SweepChunk, ConsumeChunk, RetryChunk,
            FailChunk, Drained, DeleteManifest, ReportError, BeginMerge, CopyChunk,
            CopyRecovered, Flush, EndMerge, EndCopy, EndRecover, ResumeTail,
            AlreadyComplete, Restart, Finish, RecoverFails, MergeFails,
               ResumeBreaksOff,
            Done, Stop, ProcessExits, ServerChanges, LateCreate, vars
    <3> QED BY <3>1, <3>2, <3>3, <3>4, <3>5, <3>6 DEF TInv, TypeOK
  <2>3. ASSUME pc' \in {"fetch", "sweep", "failed", "merge", "recover", "consume"},
               NEW i \in Ids, i # id'
        PROVE  ~ Headed(i)'
    <3>1. CASE StartAttempt
          BY <2>1, <3>1 DEF StartAttempt, Alone
    <3>2. CASE BeginRecover
      <4>1. id' \in Found
            BY <3>2, MaxIsElement DEF BeginRecover, Found, Ids
      <4>2. PICK j \in Ids : j = id' /\ Intact(j) # {} /\ pc = "idle"
            BY <3>2, <4>1 DEF BeginRecover, Found
      <4>3. Headed(j)
            BY <4>2, IntactListed DEF TInv
      <4> QED BY <2>1, <2>3, <4>2, <4>3 DEF Alone
    <3>3. CASE /\ pc \in {"fetch", "sweep", "failed", "merge", "recover", "consume"}
               /\ id' = id
          BY <2>1, <2>3, <3>3 DEF Alone
    <3> QED BY <2>3, <3>1, <3>2, <3>3
            DEF Next, Work, Fetch, BeginResume, BeginRecover, BeginFresh,
               StartAttempt, Ask,
            Answer, WriteChunk, RecordChunk, SweepChunk, ConsumeChunk, RetryChunk,
            FailChunk, Drained, DeleteManifest, ReportError, BeginMerge, CopyChunk,
            CopyRecovered, Flush, EndMerge, EndCopy, EndRecover, ResumeTail,
            AlreadyComplete, Restart, Finish, RecoverFails, MergeFails,
               ResumeBreaksOff,
            Done, Stop, ProcessExits, ServerChanges, LateCreate, vars
  <2>4. ASSUME pc' = "idle", NEW i \in Ids, NEW j \in Ids, Headed(i)', Headed(j)'
        PROVE  i = j
    <3>1. Headed(i) /\ Headed(j)
          BY <2>1, <2>4
    <3>2. CASE pc \in {"finish", "done"}
          BY <2>4, <3>2
            DEF Next, Work, Fetch, BeginResume, BeginRecover, BeginFresh,
               StartAttempt, Ask,
            Answer, WriteChunk, RecordChunk, SweepChunk, ConsumeChunk, RetryChunk,
            FailChunk, Drained, DeleteManifest, ReportError, BeginMerge, CopyChunk,
            CopyRecovered, Flush, EndMerge, EndCopy, EndRecover, ResumeTail,
            AlreadyComplete, Restart, Finish, RecoverFails, MergeFails,
               ResumeBreaksOff,
            Done, Stop, ProcessExits, ServerChanges, LateCreate, vars, TInv, TypeOK,
            ScenarioType
    <3> QED BY <2>1, <3>1, <3>2 DEF Alone, TInv, TypeOK
  <2>5. pc' \in {"fetch", "sweep", "failed"} => part' = <<>>
        BY <2>1, RecoveryGoesOn
            DEF Next, Work, Fetch, BeginResume, BeginRecover, BeginFresh,
               StartAttempt, Ask,
            Answer, WriteChunk, RecordChunk, SweepChunk, ConsumeChunk, RetryChunk,
            FailChunk, Drained, DeleteManifest, ReportError, BeginMerge, CopyChunk,
            CopyRecovered, Flush, EndMerge, EndCopy, EndRecover, ResumeTail,
            AlreadyComplete, Restart, Finish, RecoverFails, MergeFails,
               ResumeBreaksOff,
            Done, Stop, ProcessExits, ServerChanges, LateCreate, vars, Alone, TInv,
            CopyInv
  <2>6. ASSUME pc' = "fetch"
        PROVE  Listed(id)' \subseteq memory'
    <3>1. CASE StartAttempt
      <4>1. PICK j \in Ids : j = id' /\ j = nextId /\ manifest' = manifest
            BY <2>1, <3>1 DEF StartAttempt
      <4>2. Listed(j) = {}
        <5>1. CASE OneProcess
          <6>1. manifest[j] = {}
                BY <4>1, <5>1 DEF OneProcess, Ids
          <6> QED BY <6>1 DEF Listed, Parts
        <5>2. CASE OneChange
              BY <2>1, <3>1, <5>2, NothingListed DEF StartAttempt, OneChange, Alone
        <5> QED BY <5>1, <5>2 DEF Apart
      <4>3. Listed(id)' = Listed(j)
            BY <4>1 DEF Listed
      <4> QED BY <4>2, <4>3
    <3>2. CASE pc = "fetch" /\ id' = id /\ memory' = memory
      <4>1. Listed(id)' \subseteq Listed(id)
            BY <2>1, <3>2 DEF Listed
      <4> QED BY <2>1, <3>2, <4>1 DEF Alone
    <3> QED BY <1>2, <2>6, <3>1, <3>2
            DEF Next, Work, Fetch, BeginResume, BeginRecover, BeginFresh,
               StartAttempt, Ask,
            Answer, WriteChunk, RecordChunk, SweepChunk, ConsumeChunk, RetryChunk,
            FailChunk, Drained, DeleteManifest, ReportError, BeginMerge, CopyChunk,
            CopyRecovered, Flush, EndMerge, EndCopy, EndRecover, ResumeTail,
            AlreadyComplete, Restart, Finish, RecoverFails, MergeFails,
               ResumeBreaksOff,
            Done, Stop, ProcessExits, ServerChanges, LateCreate, vars
  <2>7. ASSUME NEW x \in late'
        PROVE  x[2] \notin Intact(x[1])'
    <3>1. CASE x \in late
          BY <2>1, <3>1 DEF Alone
    <3>2. CASE x \notin late
      <4>1. pc = "fetch" /\ x \in Abandoned
            BY <2>7, <3>2
            DEF Next, Work, Fetch, BeginResume, BeginRecover, BeginFresh,
               StartAttempt, Ask,
            Answer, WriteChunk, RecordChunk, SweepChunk, ConsumeChunk, RetryChunk,
            FailChunk, Drained, DeleteManifest, ReportError, BeginMerge, CopyChunk,
            CopyRecovered, Flush, EndMerge, EndCopy, EndRecover, ResumeTail,
            AlreadyComplete, Restart, Finish, RecoverFails, MergeFails,
               ResumeBreaksOff,
            Done, Stop, ProcessExits, ServerChanges, LateCreate, vars
      <4>2. PICK c \in Parts : job[c] = "asked" /\ x = <<id, c>>
            BY <4>1 DEF Abandoned
      <4>3. c \notin Intact(id)
            BY <2>1, <4>1, <4>2, RecordedIsDone
      <4> QED BY <2>1, <4>2, <4>3
    <3> QED BY <3>1, <3>2
  <2>8. ASSUME pc' = "recover"
        PROVE  claim' = Intact(id)'
    <3>1. CASE BeginRecover
      <4>1. Intact(id)' = claim'
            BY <3>1 DEF BeginRecover, Intact
      <4> QED BY <4>1
    <3>2. CASE pc = "recover" /\ UNCHANGED <<chunk, manifest, claim, id>>
          BY <2>1, <3>2 DEF Alone, Intact
    <3>3. CASE \E i \in Ids, c \in Parts : LateCreate(i, c)
      <4>1. PICK i \in Ids, c \in Parts : LateCreate(i, c)
            BY <3>3
      <4>2. c \notin Intact(i) /\ pc = "recover" /\ claim' = claim /\ id' = id
            BY <2>1, <2>8, <4>1 DEF LateCreate, Alone
      <4>3. ASSUME NEW d \in Intact(id) PROVE d \in Intact(id)'
        <5>1. \A e \in 0 .. d : e \in Intact(id) /\ e \in Parts
              BY <2>1, IntactListed DEF TInv, Intact
        <5>2. \A e \in 0 .. d : chunk'[id][e] = chunk[id][e]
              BY <2>1, <4>1, <4>2, <5>1 DEF LateCreate, TInv, TypeOK
        <5> QED BY <4>1, <4>2, <5>2 DEF LateCreate, Intact
      <4>4. Intact(id)' \subseteq Intact(id)
            BY <2>1, <4>2 DEF Intact
      <4> QED BY <2>1, <4>2, <4>3, <4>4 DEF Alone
    <3> QED BY <2>8, <3>1, <3>2, <3>3
            DEF Next, Work, Fetch, BeginResume, BeginRecover, BeginFresh,
               StartAttempt, Ask,
            Answer, WriteChunk, RecordChunk, SweepChunk, ConsumeChunk, RetryChunk,
            FailChunk, Drained, DeleteManifest, ReportError, BeginMerge, CopyChunk,
            CopyRecovered, Flush, EndMerge, EndCopy, EndRecover, ResumeTail,
            AlreadyComplete, Restart, Finish, RecoverFails, MergeFails,
               ResumeBreaksOff,
            Done, Stop, ProcessExits, ServerChanges, LateCreate, vars
  <2> QED BY <2>2, <2>3, <2>4, <2>5, <2>6, <2>7, <2>8 DEF Alone
<1> QED BY <1>1, <1>2
(* Only a late file creation touches another set than the run's.           *)
LEMMA OthersUntouched ==
    ASSUME TInv, Next, NEW i \in Ids, i # id,
           ~ \E j \in Ids, c \in Parts : LateCreate(j, c)
    PROVE  chunk'[i] = chunk[i] /\ manifest'[i] = manifest[i]
<1> USE DEF diskVars, runVars, envVars
<1>0. /\ manifest \in [Ids -> SUBSET Parts]
      /\ chunk \in [Ids -> [Parts -> Versions \cup {"none", "partial"}]]
      BY DEF TInv, TypeOK
<1>1. chunk'[i] = chunk[i]
      BY <1>0
            DEF Next, Work, Fetch, BeginResume, BeginRecover, BeginFresh,
               StartAttempt,
            Ask, Answer, WriteChunk, RecordChunk, SweepChunk, ConsumeChunk,
               RetryChunk,
            FailChunk, Drained, DeleteManifest, ReportError, BeginMerge, CopyChunk,
            CopyRecovered, Flush, EndMerge, EndCopy, EndRecover, ResumeTail,
            AlreadyComplete, Restart, Finish, RecoverFails, MergeFails,
               ResumeBreaksOff,
            Done, Stop, ProcessExits, ServerChanges, LateCreate, vars
<1>2. manifest'[i] = manifest[i]
      BY <1>0
            DEF Next, Work, Fetch, BeginResume, BeginRecover, BeginFresh,
               StartAttempt,
            Ask, Answer, WriteChunk, RecordChunk, SweepChunk, ConsumeChunk,
               RetryChunk,
            FailChunk, Drained, DeleteManifest, ReportError, BeginMerge, CopyChunk,
            CopyRecovered, Flush, EndMerge, EndCopy, EndRecover, ResumeTail,
            AlreadyComplete, Restart, Finish, RecoverFails, MergeFails,
               ResumeBreaksOff,
            Done, Stop, ProcessExits, ServerChanges, LateCreate, vars
<1> QED BY <1>1, <1>2

LEMMA LateKeepsInPlace ==
    ASSUME TInv, Alone, NEW i \in Ids, NEW c \in Parts, LateCreate(i, c),
           NEW j \in Ids, InPlace(j)
    PROVE  InPlace(j)'
<1>1. Listed(j)' = Listed(j)
      BY DEF LateCreate, Listed
<1>2. ASSUME NEW d \in Listed(j) PROVE chunk'[j][d] = chunk[j][d]
  <2>1. d \in Intact(j)
        BY <1>2, IntactListed DEF InPlace, Intact, Listed, TInv, Parts
  <2>2. <<j, d>> # <<i, c>>
        BY <2>1 DEF LateCreate, Alone
  <2> QED BY <2>2 DEF LateCreate, TInv, TypeOK
<1> QED BY <1>1, <1>2 DEF InPlace

LEMMA StepOneChange ==
    ASSUME MaxId < ScanWindow, TInv, DInv, Quiet, Alone, OneChange, Next,
           pc \notin {"done", "finish"}, pc' \notin {"done", "finish"}
    PROVE  OneChange' \/ Settled'
<1> USE DEF diskVars, runVars, envVars, Forget
<1>0. /\ id \in Ids /\ serves \in Versions /\ may.changes \in Nat
      /\ changes \in 0 .. may.changes /\ Nothing \notin Versions
      /\ part \in Seq(Versions) /\ may' = may /\ Apart
      /\ TInv'
  <2>1. may' = may
        BY
            DEF Next, Work, Fetch, BeginResume, BeginRecover, BeginFresh,
               StartAttempt,
            Ask, Answer, WriteChunk, RecordChunk, SweepChunk, ConsumeChunk,
               RetryChunk,
            FailChunk, Drained, DeleteManifest, ReportError, BeginMerge, CopyChunk,
            CopyRecovered, Flush, EndMerge, EndCopy, EndRecover, ResumeTail,
            AlreadyComplete, Restart, Finish, RecoverFails, MergeFails,
               ResumeBreaksOff,
            Done, Stop, ProcessExits, ServerChanges, LateCreate, vars
  <2> QED BY <2>1, StepTyped DEF TInv, TypeOK, ScenarioType, Nothing, Apart
<1>1. CASE StartAttempt /\ changes # 0
  <2>1. \A i \in Ids : Listed(i) = {}
        BY <1>1, NothingListed DEF StartAttempt, Alone, OneChange
  <2>2. \A i \in Ids : Listed(i)' = Listed(i)
        BY <1>1 DEF StartAttempt, Listed
  <2>3. changes' = may'.changes /\ sidecar' = serves'
        BY <1>0, <1>1 DEF StartAttempt, OneChange
  <2> QED BY <2>1, <2>2, <2>3 DEF Settled
<1>2. CASE Restart
  <2>1. part # <<>> /\ Len(part) \in Nat
        BY <1>0, <1>2 DEF Restart, DInv, InHand
  <2>2. 1 \in 1 .. Len(part)
        BY <1>0, <2>1
  <2>3. sidecar \in Versions
        BY <1>0, <2>2 DEF DInv, Uniform
  <2>4. changes # 0
        BY <1>0, <1>2, <2>3 DEF Restart, OneChange
  <2>5. changes' = may'.changes /\ sidecar' = Nothing
        BY <1>0, <1>2, <2>4 DEF Restart, OneChange
  <2>6. \A i \in Ids : \A c \in Listed(i)' : chunk'[i][c] \notin Versions
        BY <1>2 DEF Restart, OneChange, Consumed, Listed
  <2> QED BY <2>5, <2>6 DEF Settled
<1>3. CASE ~ Restart /\ ~ (StartAttempt /\ changes # 0)
  <2>1. /\ changes' = 0 => sidecar' \in {Nothing, serves'}
        /\ changes' # 0 => sidecar' # serves'
    <3>1. CASE StartAttempt
          BY <1>0, <1>3, <3>1 DEF StartAttempt, OneChange
    <3>2. CASE \E v \in Versions : ServerChanges(v)
      <4>1. changes = 0 /\ changes' # 0 /\ sidecar' = sidecar
            BY <1>0, <3>2 DEF ServerChanges, OneChange
      <4> QED BY <1>0, <3>2, <4>1 DEF ServerChanges, OneChange
    <3>3. CASE UNCHANGED <<changes, sidecar, serves>>
          BY <3>3 DEF OneChange
    <3> QED BY <1>3, <3>1, <3>2, <3>3
            DEF Next, Work, Fetch, BeginResume, BeginRecover, BeginFresh,
               StartAttempt,
            Ask, Answer, WriteChunk, RecordChunk, SweepChunk, ConsumeChunk,
               RetryChunk,
            FailChunk, Drained, DeleteManifest, ReportError, BeginMerge, CopyChunk,
            CopyRecovered, Flush, EndMerge, EndCopy, EndRecover, ResumeTail,
            AlreadyComplete, Restart, Finish, RecoverFails, MergeFails,
               ResumeBreaksOff,
            Done, Stop, ProcessExits, ServerChanges, LateCreate, vars
  <2>2. ASSUME pc' \in {"fresh", "recover", "failed"} \/ (pc' = "idle" /\ part' = <<>>),
               NEW i \in Ids
        PROVE  InPlace(i)'
    <3>1. CASE \E j \in Ids, c \in Parts : LateCreate(j, c)
      <4>1. InPlace(i)
            BY <2>2, <3>1 DEF LateCreate, OneChange
      <4> QED BY <3>1, <4>1, LateKeepsInPlace
    <3>2. CASE DeleteManifest
      <4>1. CASE i = id
        <5>1. manifest'[i] = {}
              BY <1>0, <3>2, <4>1 DEF DeleteManifest, TInv, TypeOK
        <5>2. Listed(i)' = {}
              BY <5>1 DEF Listed, Parts
        <5> QED BY <5>2 DEF InPlace
      <4>2. CASE i # id
        <5>1. InPlace(i) /\ chunk'[i] = chunk[i] /\ manifest'[i] = manifest[i]
              BY <1>0, <3>2, <4>2 DEF DeleteManifest, OneChange, TInv, TypeOK
        <5> QED BY <5>1 DEF InPlace, Listed
      <4> QED BY <4>1, <4>2
    <3>3. CASE Stop /\ pc = "fetch"
      <4>1. InPlace(i)
        <5>1. CASE i = id
          <6>1. Listed(id) \subseteq memory /\ memory \subseteq Parts
                BY <3>3 DEF Alone, TInv, TypeOK
          <6> QED BY <3>3, <5>1, <6>1 DEF InPlace, TInv, FetchInv
        <5>2. CASE i # id
              BY <3>3, <5>2 DEF OneChange
        <5> QED BY <5>1, <5>2
      <4> QED BY <3>3, <4>1 DEF Stop, InPlace, Listed
    <3>4. CASE /\ pc \in {"fresh", "recover", "failed"} \/ (pc = "idle" /\ part = <<>>)
               /\ UNCHANGED <<chunk, manifest>>
          BY <3>4 DEF OneChange, InPlace, Listed
    <3>5. CASE Stop /\ pc # "fetch"
      <4>1. pc \in {"fresh", "failed"} \/ (pc = "resume" /\ part # <<>>)
            BY <1>0, <3>5, RecoveryGoesOn DEF Stop, OneChange, DInv, InHand, TInv,
               TypeOK,
               ScenarioType
      <4>2. pc \in {"fresh", "failed"} /\ UNCHANGED <<chunk, manifest>>
            BY <2>2, <3>5, <4>1 DEF Stop
      <4> QED BY <3>4, <4>2
    <3>6. CASE ResumeBreaksOff
      <4>1. Len(part') = Len(part) + 1 /\ Len(part) \in Nat /\ Len(<<>>) = 0
            BY <1>0, <3>6, AppendProperties DEF ResumeBreaksOff, TInv, TypeOK
      <4>2. part' # <<>>
            BY <4>1
      <4> QED BY <2>2, <3>6, <4>2 DEF ResumeBreaksOff
    <3>7. \/ DeleteManifest \/ Stop \/ ResumeBreaksOff
          \/ \E j \in Ids, c \in Parts : LateCreate(j, c)
          \/ /\ pc \in {"fresh", "recover", "failed"} \/ (pc = "idle" /\ part = <<>>)
             /\ UNCHANGED <<chunk, manifest>>
          BY <1>0, <1>3, <2>2, RecoveryGoesOn
            DEF Next, Work, Fetch, BeginResume, BeginRecover, BeginFresh,
               StartAttempt,
            Ask, Answer, WriteChunk, RecordChunk, SweepChunk, ConsumeChunk,
               RetryChunk,
            FailChunk, Drained, DeleteManifest, ReportError, BeginMerge, CopyChunk,
            CopyRecovered, Flush, EndMerge, EndCopy, EndRecover, ResumeTail,
            AlreadyComplete, Restart, Finish, RecoverFails, MergeFails,
               ResumeBreaksOff,
            Done, Stop, ProcessExits, ServerChanges, LateCreate, vars
    <3> QED BY <3>1, <3>2, <3>3, <3>4, <3>5, <3>6, <3>7
  <2>3. ASSUME pc' \in {"fetch", "sweep", "merge"}, NEW i \in Ids, i # id'
        PROVE  InPlace(i)'
    <3>1. CASE \E j \in Ids, c \in Parts : LateCreate(j, c)
      <4>1. InPlace(i)
            BY <2>3, <3>1 DEF LateCreate, OneChange
      <4> QED BY <3>1, <4>1, LateKeepsInPlace
    <3>2. CASE StartAttempt
          BY <3>2 DEF StartAttempt, OneChange, InPlace, Listed
    <3>3. CASE /\ pc \in {"fetch", "sweep", "merge"} /\ id' = id
               /\ ~ \E j \in Ids, c \in Parts : LateCreate(j, c)
      <4>1. InPlace(i) /\ chunk'[i] = chunk[i] /\ manifest'[i] = manifest[i]
            BY <2>3, <3>3, OthersUntouched DEF OneChange
      <4> QED BY <4>1 DEF InPlace, Listed
    <3> QED BY <2>3, <3>1, <3>2, <3>3
            DEF Next, Work, Fetch, BeginResume, BeginRecover, BeginFresh,
               StartAttempt,
            Ask, Answer, WriteChunk, RecordChunk, SweepChunk, ConsumeChunk,
               RetryChunk,
            FailChunk, Drained, DeleteManifest, ReportError, BeginMerge, CopyChunk,
            CopyRecovered, Flush, EndMerge, EndCopy, EndRecover, ResumeTail,
            AlreadyComplete, Restart, Finish, RecoverFails, MergeFails,
               ResumeBreaksOff,
            Done, Stop, ProcessExits, ServerChanges, LateCreate, vars
  <2>4. ASSUME pc' = "consume"
        PROVE  Listed(id)' \subseteq claim' /\ \A i \in Ids : i # id' => Listed(i)' = {}
    <3>1. CASE EndCopy
      <4>1. claim = Intact(id) /\ \A i \in Ids : InPlace(i) /\ (i # id => ~ Headed(i))
            BY <3>1 DEF EndCopy, Alone, OneChange
      <4>2. Listed(id) \subseteq claim
            BY <1>0, <4>1, IntactListed DEF Listed, Intact, InPlace, TInv, Parts
      <4>3. \A i \in Ids : i # id => Listed(i) = {}
            BY <4>1, NothingListed
      <4> QED BY <3>1, <4>2, <4>3 DEF EndCopy, Listed
    <3>2. CASE pc = "consume" /\ UNCHANGED <<id, claim, manifest>>
          BY <3>2 DEF OneChange, Listed
    <3> QED BY <2>4, <3>1, <3>2
            DEF Next, Work, Fetch, BeginResume, BeginRecover, BeginFresh,
               StartAttempt,
            Ask, Answer, WriteChunk, RecordChunk, SweepChunk, ConsumeChunk,
               RetryChunk,
            FailChunk, Drained, DeleteManifest, ReportError, BeginMerge, CopyChunk,
            CopyRecovered, Flush, EndMerge, EndCopy, EndRecover, ResumeTail,
            AlreadyComplete, Restart, Finish, RecoverFails, MergeFails,
               ResumeBreaksOff,
            Done, Stop, ProcessExits, ServerChanges, LateCreate, vars
  <2>5. ASSUME pc' = "resume" \/ (pc' = "idle" /\ part' # <<>>), NEW i \in Ids
        PROVE  Consumed(i)'
    <3>1. CASE EndRecover
      <4>1. Listed(i)' \subseteq Listed(i)
            BY <1>0, <3>1 DEF EndRecover, Listed, TInv, TypeOK
      <4>2. \A c \in claim : chunk[id][c] = "none"
            BY <3>1 DEF EndRecover, OnDisk, TInv, TypeOK
      <4>3. Consumed(i)
            BY <3>1, <4>2 DEF EndRecover, OneChange, Consumed
      <4> QED BY <3>1, <4>1, <4>3 DEF EndRecover, Consumed
    <3>2. CASE /\ pc = "resume" \/ (pc = "idle" /\ part # <<>>)
               /\ ~ \E c \in Parts : WriteChunk(c) \/ RecordChunk(c)
      <4>1. Consumed(i) /\ Shrinks
            BY <3>2, StepShrinks DEF OneChange
      <4> QED BY <4>1, ShrinksVerified DEF Consumed, Listed
    <3>3. CASE pc \in {"fetch", "sweep", "failed", "fresh"}
      <4>1. part = <<>>
            BY <3>3 DEF Alone, TInv, CopyInv
      <4> QED BY <2>5, <3>3, <4>1
            DEF Next, Work, Fetch, BeginResume, BeginRecover, BeginFresh,
               StartAttempt,
            Ask, Answer, WriteChunk, RecordChunk, SweepChunk, ConsumeChunk,
               RetryChunk,
            FailChunk, Drained, DeleteManifest, ReportError, BeginMerge, CopyChunk,
            CopyRecovered, Flush, EndMerge, EndCopy, EndRecover, ResumeTail,
            AlreadyComplete, Restart, Finish, RecoverFails, MergeFails,
               ResumeBreaksOff,
            Done, Stop, ProcessExits, ServerChanges, LateCreate, vars
    <3> QED BY <2>5, <3>1, <3>2, <3>3, RecoveryGoesOn, <1>0
            DEF Next, Work, Fetch, BeginResume, BeginRecover, BeginFresh,
               StartAttempt,
            Ask, Answer, WriteChunk, RecordChunk, SweepChunk, ConsumeChunk,
               RetryChunk,
            FailChunk, Drained, DeleteManifest, ReportError, BeginMerge, CopyChunk,
            CopyRecovered, Flush, EndMerge, EndCopy, EndRecover, ResumeTail,
            AlreadyComplete, Restart, Finish, RecoverFails, MergeFails,
               ResumeBreaksOff,
            Done, Stop, ProcessExits, ServerChanges, LateCreate, vars, TInv, TypeOK,
            ScenarioType
  <2>6. "sweep" \notin may'.stops /\ may'.changes <= 1
        BY <1>0 DEF OneChange
  <2> QED BY <2>1, <2>2, <2>3, <2>4, <2>5, <2>6 DEF OneChange
<1> QED BY <1>1, <1>2, <1>3

(* In the scenarios considered either the resource stays as it is, or the  *)
(* merges run to their end and either one process makes all the runs or    *)
(* the sweep does too and there is one replacement.                        *)
Foreseen ==
    /\ MaxId < ScanWindow
    /\ \A s \in Scenarios :
          \/ s.changes = 0
          \/ /\ s.stops \cap {"merge", "recover", "consume"} = {}
             /\ \/ ~ s.restarts
                \/ s.changes = 1 /\ "sweep" \notin s.stops

LEMMA InitDelivers ==
    ASSUME Foreseen, Init
    PROVE  DInv
<1>1. /\ \A i \in Ids : Listed(i) = {} /\ Intact(i) = {} /\ ~ Headed(i)
      /\ Len(part) = 0 /\ Len(buf) = 0
      BY DEF Init, Listed, Intact, Headed, Parts
<1>2. Vouched /\ Uniform /\ InHand /\ RecoversOneAttempt /\ DeliveredExact
      BY <1>1 DEF Init, Vouched, Uniform, InHand, RecoversOneAttempt, DeliveredExact
<1>3. CASE may.changes = 0
      BY <1>1, <1>2, <1>3 DEF Init, DInv, Settled
<1>4. CASE may.changes # 0
  <2>1. /\ Quiet /\ may \in Scenarios
        /\ ~ may.restarts \/ (may.changes = 1 /\ "sweep" \notin may.stops)
        BY <1>4 DEF Init, Foreseen, Quiet
  <2>2. Alone
        BY <1>1 DEF Init, Alone
  <2>3. CASE ~ may.restarts
        BY <1>2, <2>1, <2>2, <2>3 DEF Init, OneProcess, DInv, Apart
  <2>4. CASE may.changes = 1 /\ "sweep" \notin may.stops
    <3>1. OneChange
          BY <1>1, <2>4 DEF Init, OneChange, InPlace, Consumed
    <3> QED BY <1>2, <2>1, <2>2, <3>1 DEF DInv, Apart
  <2> QED BY <2>1, <2>3, <2>4
<1> QED BY <1>3, <1>4

LEMMA StepDelivers ==
    ASSUME Foreseen, TInv, DInv, [Next]_vars
    PROVE  DInv'
<1>1. CASE UNCHANGED vars
  <2> USE <1>1 DEF vars
  <2>1. \A i : Listed(i)' = Listed(i) /\ Intact(i)' = Intact(i) /\ Headed(i)' = Headed(i)
        BY DEF Listed, Intact, Headed
  <2>2. Vouched' /\ Uniform' /\ InHand' /\ RecoversOneAttempt' /\ DeliveredExact'
        BY <2>1 DEF DInv, Vouched, Uniform, InHand, RecoversOneAttempt, DeliveredExact
  <2>3. Settled => Settled'
        BY <2>1 DEF Settled
  <2>4. Alone => Alone'
        BY <2>1 DEF Alone
  <2>5. (Quiet => Quiet') /\ (OneProcess => OneProcess')
        BY DEF Quiet, OneProcess
  <2>6. OneChange => OneChange'
        BY <2>1 DEF OneChange, InPlace, Consumed
  <2> QED BY <2>2, <2>3, <2>4, <2>5, <2>6 DEF DInv, Apart
<1>2. CASE Next
  <2>1. /\ Vouched' /\ Uniform' /\ InHand' /\ RecoversOneAttempt' /\ DeliveredExact'
        BY <1>2, StepVouched, StepUniform, StepInHand, StepOneAttempt, StepExact
  <2>2. ASSUME pc' \notin {"done", "finish"}
        PROVE  Settled' \/ Apart'
    <3>1. pc \notin {"done", "finish"} /\ may' = may
          BY <1>2, <2>2
            DEF Next, Work, Fetch, BeginResume, BeginRecover, BeginFresh,
               StartAttempt,
            Ask, Answer, WriteChunk, RecordChunk, SweepChunk, ConsumeChunk,
               RetryChunk,
            FailChunk, Drained, DeleteManifest, ReportError, BeginMerge, CopyChunk,
            CopyRecovered, Flush, EndMerge, EndCopy, EndRecover, ResumeTail,
            AlreadyComplete, Restart, Finish, RecoverFails, MergeFails,
               ResumeBreaksOff,
            Done, Stop, ProcessExits, ServerChanges, LateCreate, vars, diskVars,
            runVars, envVars, TInv, TypeOK, ScenarioType
    <3>2. CASE Settled
          BY <1>2, <3>2, StepSettled
    <3>3. CASE Apart
      <4>1. Alone' /\ Quiet'
            BY <1>2, <3>1, <3>3, StepAlone DEF Foreseen, Apart, Quiet
      <4>2. OneProcess => OneProcess'
            BY <1>2, StepOneProcess
      <4>3. OneChange => OneChange' \/ Settled'
            BY <1>2, <2>2, <3>1, <3>3, StepOneChange DEF Foreseen, Apart
      <4> QED BY <3>3, <4>1, <4>2, <4>3 DEF Apart
    <3> QED BY <3>1, <3>2, <3>3 DEF DInv
  <2> QED BY <2>1, <2>2 DEF DInv
<1> QED BY <1>1, <1>2

LEMMA AlwaysDelivers ==
    ASSUME Foreseen
    PROVE  Spec => [](TInv /\ DInv)
BY InitTyped, StepTyped, InitDelivers, StepDelivers, PTL DEF Spec

(* A delivered file is one representation, complete and in order.          *)
THEOREM DeliveryExact ==
    ASSUME Foreseen
    PROVE  Spec => []DeliveredExact
<1>1. DInv => DeliveredExact
      BY DEF DInv
<1> QED BY AlwaysDelivers, <1>1, PTL

(* What recovery takes for one attempt's verified chunks is one attempt's. *)
THEOREM OneAttempt ==
    ASSUME Foreseen
    PROVE  Spec => []RecoversOneAttempt
<1>1. DInv => RecoversOneAttempt
      BY DEF DInv
<1> QED BY AlwaysDelivers, <1>1, PTL
=============================================================================

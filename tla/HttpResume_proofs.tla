------------------------- MODULE HttpResume_proofs --------------------------
(***************************************************************************)
(* With chunked transfers only under strong validators, a Direct download  *)
(* delivers exact files, for any set of representations, any lengths, any  *)
(* offers and any number of failures and replacements.  Whether a download *)
(* is Direct is settled when it starts; the strengthening IInv is          *)
(* inductive for those that are.                                           *)
(***************************************************************************)
EXTENDS HttpResume, TLAPS

ChunksNamed == Parallel => Strong = Versions

(* The partial file is a prefix of one representation. *)
PartIsPrefix == \/ part = Empty
                \/ part.rep \in Versions /\ part.len \in 1 .. Len[part.rep]

(* SidecarDescribesPart and DeliveredExact for a download that is Direct. *)
Named == sidecar # Nothing /\ part.len > 0 => part.rep = sidecar
Whole == delivered # Empty =>
             delivered.rep \in Versions /\ delivered.len = Len[delivered.rep]

(* Where no byte may be on disk. *)
CleanStart == pc \in {"probe", "fetch", "chunks", "record", "create"} =>
                  part = Empty

(* The offset of the run still is the length of the partial file. *)
OffsetHolds == pc \in {"resume", "confirm"} =>
                   part.len = offset /\ offset > 0

(* The body about to be written is a whole representation. *)
BodyWhole == \/ pc \in {"record", "create", "write", "chunks"}
             \/ pc = "fetch" /\ body.total # Unknown
             \/ pc = "discard" /\ after = "record"
             => body.rep \in Versions /\ body.end = Len[body.rep]

BodyAtZero == \/ pc \in {"record", "create"}
              \/ pc = "discard" /\ after = "record"
              => body.pos = 0

(* Every ranged chunk came from the representation the sidecar names. *)
ChunksOfSidecar ==
    /\ pc = "chunks" => Parallel /\ sidecar = body.rep
    /\ pc = "fetch" /\ body.total # Unknown /\ Parallel => sidecar = body.rep

(* What is on disk is what the body has written so far. *)
WriteInStep ==
    /\ pc \in {"create", "write"} => sidecar \in {Nothing, body.rep}
    /\ pc = "write" => /\ part.len = body.pos /\ body.pos <= body.end
                       /\ part.len > 0 => part.rep = body.rep

WholeAtEnd == pc \in {"finish", "rename"} =>
                  part.rep \in Versions /\ part.len = Len[part.rep]

IInv == /\ TypeOK /\ PartIsPrefix /\ Named /\ Whole
        /\ CleanStart /\ OffsetHolds /\ BodyWhole /\ BodyAtZero
        /\ ChunksOfSidecar /\ WriteInStep /\ WholeAtEnd

-----------------------------------------------------------------------------
LEMMA NextNat == \A n \in Nat : n + 1 \in Nat
  OBVIOUS

LEMMA BodyAdvances ==
    ASSUME NEW b \in Bodies, NEW r \in Versions \cup {Nothing, Mixed},
           NEW p \in Nat
    PROVE  /\ [b EXCEPT !.rep = r, !.pos = p] \in Bodies
           /\ [b EXCEPT !.pos = p] \in Bodies
  BY DEF Bodies

(* Every variable keeps its type: the run never asks for a URL past the    *)
(* end of the fallback chain, never records a validator that is not        *)
(* strong, and stays within its bounds.                                    *)
THEOREM TypeCorrect == Spec => []TypeOK
<1> USE HttpResumeAssumption DEF Files, Bodies, Nothing, Mixed, Unknown
<1>1. Init => TypeOK
  BY DEF Init, TypeOK, Empty, NoBody, OfferType, Urls
<1>2. TypeOK /\ [Next]_vars => TypeOK'
  <2> SUFFICES ASSUME TypeOK, [Next]_vars PROVE TypeOK'
    OBVIOUS
  <2> USE DEF TypeOK, fileVars, runVars, envVars, Empty, NoBody
  <2>0. /\ 1 \in Urls /\ (url < offer.urls => url + 1 \in Urls)
        /\ UNCHANGED offer => Urls' = Urls
    BY DEF OfferType, Urls
  <2>1. ASSUME NEW n \in offer.sizes, AlreadyComplete(n)
             PROVE  TypeOK'
    BY <2>1, <2>0 DEF AlreadyComplete
  <2>2. ASSUME NEW n \in offer.sizes, BeginResume(n)
             PROVE  TypeOK'
    BY <2>2, <2>0 DEF BeginResume
  <2>3. ASSUME NEW n \in offer.sizes, SetAside(n)
             PROVE  TypeOK'
    BY <2>3, <2>0 DEF SetAside
  <2>4. CASE BeginFresh
    BY <2>4, <2>0 DEF BeginFresh
  <2>5. CASE Probe
    <3>1. sidecar' \in Strong \cup {Nothing} /\ body' \in Bodies
      <4>1. serves[url] \in Versions /\ Len[serves[url]] \in Nat
        OBVIOUS
      <4>2. QED
        BY <2>5, <4>1 DEF Probe, Validator
    <3>2. QED
      BY <2>5, <3>1, <2>0 DEF Probe
  <2>6. CASE FetchChunk
    <3>1. body \in Bodies /\ body.rep \in Versions \cup {Nothing, Mixed}
          /\ body.pos \in Nat
      OBVIOUS
    <3>2. body' \in Bodies
      <4>1. PICK r \in Versions \cup {Nothing, Mixed} :
                body' = [body EXCEPT !.rep = r, !.pos = body.pos + 1]
        <5>1. DEFINE w == serves[url]
                     r == IF w = body.rep THEN body.rep ELSE Mixed
        <5>2. r \in Versions \cup {Nothing, Mixed}
          BY <3>1
        <5>3. body' = [body EXCEPT !.rep = r, !.pos = body.pos + 1]
          BY <2>6 DEF FetchChunk
        <5>4. QED
          BY <5>2, <5>3
      <4>2. QED
        BY <3>1, <4>1, BodyAdvances, NextNat
    <3>3. QED
      BY <2>6, <3>2, <2>0 DEF FetchChunk
  <2>7. CASE MergeChunks
    BY <2>7, <2>0 DEF MergeChunks
  <2>8. CASE GetWhole
    BY <2>8, <2>0 DEF GetWhole, Validator, Totals
  <2>9. CASE NoSidecar
    BY <2>9, <2>0 DEF NoSidecar
  <2>10. CASE Partial
    BY <2>10, <2>0 DEF Partial, Totals
  <2>11. CASE Replaced
    BY <2>11, <2>0 DEF Replaced, Totals
  <2>12. CASE Mismatched
    BY <2>12, <2>0 DEF Mismatched
  <2>13. CASE Unsatisfiable
    BY <2>13, <2>0 DEF Unsatisfiable
  <2>14. CASE ProbeConfirmsPartial
    BY <2>14, <2>0 DEF ProbeConfirmsPartial
  <2>15. CASE DiscardPartial
    BY <2>15, <2>0 DEF DiscardPartial
  <2>16. CASE DropSidecar
    BY <2>16, <2>0 DEF DropSidecar
  <2>17. CASE Record
    BY <2>17, <2>0 DEF Record, Validator
  <2>18. CASE Create
    BY <2>18, <2>0 DEF Create
  <2>19. CASE Write
    <3>1. PICK r \in Versions \cup {Nothing, Mixed} :
              part' = [rep |-> r, len |-> part.len + 1]
      BY <2>19, body.rep \in Versions \cup {Nothing, Mixed} DEF Write, Glue
    <3>2. part' \in Files
      BY <3>1, part.len \in Nat
    <3>3. body' \in Bodies
      <4>1. body \in Bodies /\ body' = [body EXCEPT !.pos = body.pos + 1]
        BY <2>19 DEF Write
      <4>2. body.pos + 1 \in Nat
        BY <4>1, NextNat
      <4>3. QED
        BY <4>1, <4>2, BodyAdvances
    <3>4. QED
      BY <2>19, <3>2, <3>3, <2>0 DEF Write
  <2>20. CASE Verify
    BY <2>20, <2>0 DEF Verify, SizeVerified
  <2>21. CASE VerifyFails
    BY <2>21, <2>0 DEF VerifyFails, SizeVerified, NextUrl
  <2>22. CASE ChunkRefused
    BY <2>22, <2>0 DEF ChunkRefused, NextUrl
  <2>23. CASE Finish
    BY <2>23, <2>0 DEF Finish
  <2>24. CASE FinalizePart
    BY <2>24, <2>0 DEF FinalizePart
  <2>25. CASE AttemptFails
    BY <2>25, <2>0 DEF AttemptFails, NextUrl
  <2>26. CASE Stop
    BY <2>26, <2>0 DEF Stop
  <2>27. CASE CancelDiscard
    BY <2>27, <2>0 DEF CancelDiscard
  <2>28. ASSUME NEW i \in Urls, NEW v \in Versions, ServerChanges(i, v)
             PROVE  TypeOK'
    <3>1. serves' \in [Urls -> Versions]
      BY <2>28 DEF ServerChanges
    <3>2. changes' \in 0 .. MaxChanges
      BY <2>28 DEF ServerChanges
    <3>3. Urls' = Urls
      BY <2>28 DEF ServerChanges, Urls
    <3>4. QED
      BY <2>28, <3>1, <3>2, <3>3 DEF ServerChanges
  <2>29. CASE UNCHANGED vars
    BY <2>29, <2>0 DEF vars
  <2>30. QED
    BY <2>1, <2>2, <2>3, <2>4, <2>5, <2>6, <2>7, <2>8, <2>9, <2>10, <2>11,
       <2>12, <2>13, <2>14, <2>15, <2>16, <2>17, <2>18, <2>19, <2>20, <2>21,
       <2>22, <2>23, <2>24, <2>25, <2>26, <2>27, <2>28, <2>29
       DEF Next, Start, Work
<1>3. QED
  BY <1>1, <1>2, PTL DEF Spec

(* The strengthening is inductive.  The delicate steps are Probe and        *)
(* Record, which name a representation before a byte of it is on disk, and *)
(* Partial, which appends at the offset the run started with.              *)
THEOREM Inductive ==
    ASSUME Direct, ChunksNamed, IInv, [Next]_vars, TypeOK'
    PROVE  IInv'
<1> USE HttpResumeAssumption
    DEF IInv, TypeOK, PartIsPrefix, Named, Whole,
        CleanStart, OffsetHolds, BodyWhole, BodyAtZero, ChunksOfSidecar,
        WriteInStep, WholeAtEnd, Urls, Files, Bodies, Nothing, Mixed, Unknown,
        Empty, fileVars, runVars, envVars, Direct, OfferType
<1>1. ASSUME NEW n \in offer.sizes, AlreadyComplete(n)
      PROVE  IInv'
  <2>1. part.rep \in Versions /\ part.len \in 1 .. Len[part.rep]
    BY <1>1 DEF AlreadyComplete
  <2>2. Len[part.rep] \in Nat /\ Len[part.rep] <= part.len
    <3>1. Len[part.rep] \in Nat
      BY <2>1
    <3>2. n # Unknown /\ n = part.len
      BY <1>1 DEF AlreadyComplete
    <3>3. Len[part.rep] <= n
      BY <2>1, <3>2
    <3>4. QED
      BY <3>1, <3>2, <3>3
  <2>3. part.len = Len[part.rep]
    <3>1. \A k, m \in Nat : k \in 1 .. m /\ m <= k => k = m
      OBVIOUS
    <3>2. part.len \in Nat
      OBVIOUS
    <3>3. QED
      BY <2>1, <2>2, <3>1, <3>2
  <2>4. QED
    BY <1>1, <2>1, <2>3 DEF AlreadyComplete
<1>2. ASSUME NEW n \in offer.sizes, BeginResume(n)
      PROVE  IInv'
  BY <1>2 DEF BeginResume
<1>3. ASSUME NEW n \in offer.sizes, SetAside(n)
      PROVE  IInv'
  BY <1>3 DEF SetAside
<1>4. CASE BeginFresh
  BY <1>4 DEF BeginFresh
<1>5. CASE Probe
  <2>1. part' = Empty /\ pc' = "fetch" /\ UNCHANGED <<after, delivered>>
    BY <1>5 DEF Probe
  <2>2. CASE sidecar' = Nothing /\ body' = NoBody
    BY <2>1, <2>2 DEF NoBody
  <2>3. ASSUME NEW w \in Versions,
               sidecar' = Validator(w),
               body' = [rep |-> w, pos |-> 0, end |-> Len[w], total |-> Len[w]]
        PROVE  IInv'
    <3>1. Parallel => w \in Strong
      BY ChunksNamed DEF ChunksNamed
    <3>2. QED
      BY <2>1, <2>3, <3>1 DEF Validator
  <2>4. QED
    BY <1>5, <2>2, <2>3 DEF Probe
<1>6. CASE FetchChunk
  BY <1>6 DEF FetchChunk
<1>7. CASE MergeChunks
  BY <1>7 DEF MergeChunks
<1>8. CASE GetWhole
  BY <1>8 DEF GetWhole, Validator, Totals
<1>9. CASE NoSidecar
  BY <1>9 DEF NoSidecar
<1>10. CASE Partial
  BY <1>10 DEF Partial, Totals
<1>11. CASE Replaced
  BY <1>11 DEF Replaced, Totals
<1>12. CASE Mismatched
  BY <1>12 DEF Mismatched
<1>13. CASE Unsatisfiable
  BY <1>13 DEF Unsatisfiable
<1>14. CASE ProbeConfirmsPartial
  BY <1>14 DEF ProbeConfirmsPartial
<1>15. CASE DiscardPartial
  BY <1>15 DEF DiscardPartial
<1>16. CASE DropSidecar
  BY <1>16 DEF DropSidecar
<1>17. CASE Record
  BY <1>17 DEF Record, Validator
<1>18. CASE Create
  BY <1>18 DEF Create
<1>19. CASE Write
  <2>1. /\ pc = "write" /\ pc' = "write" /\ body.pos < body.end
        /\ UNCHANGED <<sidecar, after, delivered, offset>>
        /\ body'.rep = body.rep /\ body'.end = body.end
        /\ body'.pos = body.pos + 1 /\ body'.total = body.total
    BY <1>19 DEF Write
  <2>2. body.rep \in Versions /\ body.end = Len[body.rep]
    BY <2>1
  <2>3. part' = [rep |-> body.rep, len |-> part.len + 1]
    BY <1>19, <2>1, <2>2 DEF Write, Glue
  <2>4. part'.rep = body.rep /\ part'.len = part.len + 1
        /\ part'.len = body'.pos /\ part'.len \in 1 .. Len[body.rep]
    BY <2>1, <2>2, <2>3
  <2>5. QED
    BY <2>1, <2>2, <2>4
<1>20. CASE Verify
  BY <1>20 DEF Verify, SizeVerified
<1>21. CASE VerifyFails
  BY <1>21 DEF VerifyFails, SizeVerified, NextUrl
<1>22. CASE ChunkRefused
  BY <1>22 DEF ChunkRefused, NextUrl
<1>23. CASE Finish
  BY <1>23 DEF Finish
<1>24. CASE FinalizePart
  BY <1>24 DEF FinalizePart
<1>25. CASE AttemptFails
  BY <1>25 DEF AttemptFails, NextUrl
<1>26. CASE Stop
  BY <1>26 DEF Stop
<1>27. CASE CancelDiscard
  BY <1>27 DEF CancelDiscard
<1>28. ASSUME NEW i \in Urls, NEW v \in Versions, ServerChanges(i, v)
      PROVE  IInv'
  BY <1>28 DEF ServerChanges
<1>29. CASE UNCHANGED vars
  BY <1>29 DEF vars
<1>30. QED
  BY <1>1, <1>2, <1>3, <1>4, <1>5, <1>6, <1>7, <1>8, <1>9, <1>10, <1>11,
     <1>12, <1>13, <1>14, <1>15, <1>16, <1>17, <1>18, <1>19, <1>20, <1>21,
     <1>22, <1>23, <1>24, <1>25, <1>26, <1>27, <1>28, <1>29
     DEF Next, Start, Work

LEMMA InitStrong == Init => IInv
  BY HttpResumeAssumption
     DEF Init, IInv, TypeOK, PartIsPrefix, Named, Whole,
         CleanStart, OffsetHolds, BodyWhole, BodyAtZero,
         ChunksOfSidecar, WriteInStep, WholeAtEnd, Urls, Files, Bodies,
         Nothing, Mixed, Unknown, Empty, NoBody, OfferType

LEMMA StaysDirect == [Next]_vars => (Direct' <=> Direct)
<1> SUFFICES ASSUME [Next]_vars PROVE offer' = offer
  BY DEF Direct
<1> QED
  BY DEF Next, Start, Work, AlreadyComplete, BeginResume, SetAside, BeginFresh,
         Probe, FetchChunk, MergeChunks, GetWhole, NoSidecar, Partial, Replaced,
         Mismatched, Unsatisfiable, ProbeConfirmsPartial, DiscardPartial,
         DropSidecar, Record, Create, Write, Verify, VerifyFails, ChunkRefused,
         Finish, FinalizePart, AttemptFails, Stop, CancelDiscard,
         ServerChanges, envVars, vars

LEMMA StrongInvariant ==
    ASSUME ChunksNamed
    PROVE  Spec => [](Direct => IInv)
<1>1. TypeOK' /\ (Direct => IInv) /\ [Next]_vars => (Direct => IInv)'
  BY Inductive, StaysDirect, ChunksNamed
<1>2. QED
  BY InitStrong, TypeCorrect, <1>1, PTL DEF Spec

(* The sidecar never names a representation other than the one whose bytes *)
(* are on disk, so no later If-Range can be satisfied by the wrong one.    *)
THEOREM SidecarSafe ==
    ASSUME ChunksNamed
    PROVE  Spec => []SidecarDescribesPart
<1>1. (Direct => IInv) => SidecarDescribesPart
  BY DEF IInv, Named, SidecarDescribesPart
<1>2. QED
  BY StrongInvariant, <1>1, ChunksNamed, PTL

(* Whatever is interrupted, replaced or retried, a delivered file holds    *)
(* exactly the bytes of one representation.                                *)
THEOREM DeliverySafe ==
    ASSUME ChunksNamed
    PROVE  Spec => []DeliveredExact
<1>1. (Direct => IInv) => DeliveredExact
  BY DEF IInv, Whole, DeliveredExact
<1>2. QED
  BY StrongInvariant, <1>1, ChunksNamed, PTL

-----------------------------------------------------------------------------
LEMMA StepRefines ==
    ASSUME Direct, Direct', IInv, [Next]_vars
    PROVE  [Exact!Next]_(Exact!avars)
<1> USE HttpResumeAssumption
    DEF Exact!Next, Exact!avars, Exact!Discard, Exact!Empty, Exact!Nothing,
        Nothing, Empty, fileVars, runVars, envVars
<1>1. ASSUME NEW n \in offer.sizes, AlreadyComplete(n)
      PROVE  [Exact!Next]_(Exact!avars)
  BY <1>1 DEF AlreadyComplete
<1>2. ASSUME NEW n \in offer.sizes, BeginResume(n)
      PROVE  [Exact!Next]_(Exact!avars)
  BY <1>2 DEF BeginResume
<1>3. ASSUME NEW n \in offer.sizes, SetAside(n)
      PROVE  [Exact!Next]_(Exact!avars)
  BY <1>3 DEF SetAside
<1>4. CASE BeginFresh
  BY <1>4 DEF BeginFresh
<1>5. CASE Probe
  BY <1>5 DEF Probe
<1>6. CASE FetchChunk
  BY <1>6 DEF FetchChunk
<1>7. CASE MergeChunks
  BY <1>7 DEF MergeChunks
<1>8. CASE GetWhole
  BY <1>8 DEF GetWhole
<1>9. CASE NoSidecar
  BY <1>9 DEF NoSidecar
<1>10. CASE Partial
  BY <1>10 DEF Partial
<1>11. CASE Replaced
  BY <1>11 DEF Replaced
<1>12. CASE Mismatched
  BY <1>12 DEF Mismatched
<1>13. CASE Unsatisfiable
  BY <1>13 DEF Unsatisfiable
<1>14. CASE ProbeConfirmsPartial
  BY <1>14 DEF ProbeConfirmsPartial
<1>15. CASE DiscardPartial
  BY <1>15 DEF DiscardPartial
<1>16. CASE DropSidecar
  BY <1>16 DEF DropSidecar
<1>17. CASE Record
  BY <1>17 DEF Record
<1>18. CASE Create
  BY <1>18 DEF Create
<1>19. CASE Write
  <2>1. body.rep \in Versions /\ body.end = Len[body.rep]
    BY <1>19 DEF Write, IInv, BodyWhole
  <2>2. /\ part.len = body.pos /\ body.pos < Len[body.rep]
        /\ part = Empty \/ part.rep = body.rep
    BY <1>19, <2>1 DEF Write, IInv, WriteInStep, PartIsPrefix
  <2>3. part' = [rep |-> body.rep, len |-> part.len + 1]
    BY <1>19, <2>1, <2>2 DEF Write, Glue
  <2>4. Exact!Grow(body.rep)
    BY <1>19, <2>1, <2>2, <2>3 DEF Write, Exact!Grow
  <2>5. QED
    BY <2>1, <2>4
<1>20. CASE Verify
  BY <1>20 DEF Verify
<1>21. CASE VerifyFails
  BY <1>21 DEF VerifyFails, NextUrl
<1>22. CASE ChunkRefused
  BY <1>22 DEF ChunkRefused, NextUrl
<1>23. CASE Finish
  BY <1>23 DEF Finish
<1>24. CASE FinalizePart
  <2>1. Exact!IsWhole(part)
    BY <1>24 DEF FinalizePart, IInv, WholeAtEnd, Exact!IsWhole
  <2>2. QED
    BY <1>24, <2>1 DEF FinalizePart, Exact!Deliver
<1>25. CASE AttemptFails
  BY <1>25 DEF AttemptFails, NextUrl
<1>26. CASE Stop
  BY <1>26 DEF Stop
<1>27. CASE CancelDiscard
  BY <1>27 DEF CancelDiscard
<1>28. ASSUME NEW i \in Urls, NEW v \in Versions, ServerChanges(i, v)
      PROVE  [Exact!Next]_(Exact!avars)
  BY <1>28 DEF ServerChanges
<1>29. CASE UNCHANGED vars
  BY <1>29 DEF vars
<1>30. QED
  BY <1>1, <1>2, <1>3, <1>4, <1>5, <1>6, <1>7, <1>8, <1>9, <1>10, <1>11,
     <1>12, <1>13, <1>14, <1>15, <1>16, <1>17, <1>18, <1>19, <1>20, <1>21,
     <1>22, <1>23, <1>24, <1>25, <1>26, <1>27, <1>28, <1>29
     DEF Next, Start, Work

(* Every step of the protocol is a step of the exact transfer: the partial *)
(* grows by the next byte of one representation, is discarded whole, or is *)
(* delivered when complete.                                                *)
THEOREM ImplementsExact ==
    ASSUME ChunksNamed
    PROVE  Spec => ExactSpec
<1>1. Init => Exact!Init
  BY DEF Init, Exact!Init, Exact!Empty, Exact!NoFile, Exact!Nothing, Empty,
         Nothing
<1>2. (Direct => IInv) /\ [Next]_vars => [Exact!Next]_(Exact!avars)
  <2>1. CASE Direct
    BY <2>1, StaysDirect, StepRefines
  <2>2. CASE ~ Direct
    BY <2>2, StaysDirect DEF Exact!avars
  <2> QED
    BY <2>1, <2>2
<1>3. QED
  BY StrongInvariant, <1>1, <1>2, ChunksNamed, PTL
     DEF Spec, ExactSpec, Exact!Spec
=============================================================================

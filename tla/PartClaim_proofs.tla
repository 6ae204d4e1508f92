-------------------------- MODULE PartClaim_proofs --------------------------
(***************************************************************************)
(* Proofs about PartClaim, for any number of processes and downloads.  A   *)
(* claim is refused only while somebody has the path; and until a process  *)
(* sweeps its registry at exit, that registry never has two owners of the  *)
(* path and a live PartLock has its lock.  Exclusion between processes is  *)
(* not here: it is what the run claim_unlinked_name refutes.               *)
(***************************************************************************)
EXTENDS PartClaim, TLAPS

(* A lock has exactly one holder: a claim about to be inserted, or an      *)
(* entry of a registry.                                                    *)
HandlesLocked == \A t \in Tasks : pc[t] = "locked" => handle[t] \in locked

HandlesDistinct ==
    \A t, u \in Tasks :
        pc[t] = "locked" /\ pc[u] = "locked" /\ handle[t] = handle[u] => t = u

EntriesLocked == \A p \in Procs : active[p] # 0 => active[p] \in locked

EntriesDistinct ==
    \A p, q \in Procs : active[p] # 0 /\ active[p] = active[q] => p = q

EntryOrHandle ==
    \A p \in Procs, t \in Tasks : pc[t] = "locked" => handle[t] # active[p]

LocksHeld ==
    \A f \in locked : \/ \E t \in Tasks : pc[t] = "locked" /\ handle[t] = f
                      \/ \E p \in Procs : active[p] = f

(* An entry and a live PartLock of its process come together, until that   *)
(* process sweeps.                                                         *)
OwnerHasEntry ==
    \A p \in Procs : down[p] = "up" /\ Owners(p) # {} => active[p] # 0

EntryHasOwner ==
    \A p \in Procs : active[p] # 0 =>
        \E t \in Tasks : ProcOf[t] = p /\ pc[t] = "owner"

(* A download that is past Open has a file open. *)
FileOpen == \A t \in Tasks : pc[t] \in {"opened", "locked"} => handle[t] # 0

TypeInv  == TypeOK /\ FileOpen
LockInv  == /\ HandlesLocked /\ HandlesDistinct /\ EntriesLocked
            /\ EntriesDistinct /\ EntryOrHandle /\ LocksHeld
OwnerInv == OwnerHasEntry /\ OneOwnerPerRegistry
IInv     == TypeInv /\ LockInv /\ EntryHasOwner

USE DEF Files

(* The initial state has no claim, no lock and no sidecar.                 *)
LEMMA InitInv == Init => IInv /\ OwnerInv
BY PartClaimAssumption
   DEF Init, IInv, TypeInv, FileOpen, TypeOK, LockInv, OwnerInv, HandlesLocked, HandlesDistinct,
       EntriesLocked, EntriesDistinct, EntryOrHandle, LocksHeld, OwnerHasEntry,
       EntryHasOwner, OneOwnerPerRegistry, Owners

(* Every step keeps the state well typed.                                  *)
LEMMA NextType == TypeInv /\ [Next]_vars => TypeInv'
<1> SUFFICES ASSUME TypeInv, [Next]_vars PROVE TypeInv'
    OBVIOUS
<1> USE PartClaimAssumption DEF TypeInv, TypeOK, FileOpen
<1>0. 0 \notin Files /\ Files \subseteq 0 .. MaxFiles /\ 0 \in 0 .. MaxFiles
      OBVIOUS
<1>1. ASSUME NEW t \in Tasks, Open(t) PROVE TypeInv'
  <2>1. name' \in 0 .. MaxFiles /\ name' # 0
        BY <1>1, <1>0 DEF Open, Gone
  <2> QED BY <1>1, <2>1 DEF Open, Goto
<1>2. ASSUME NEW t \in Tasks, TryLock(t) PROVE TypeInv'
  <2>1. handle[t] \in Files
        BY <1>2 DEF TryLock
  <2> QED BY <1>2, <2>1 DEF TryLock, Goto
<1>3. ASSUME NEW t \in Tasks, HeldElsewhere(t) PROVE TypeInv'
      BY <1>3 DEF HeldElsewhere, Goto
<1>4. ASSUME NEW t \in Tasks, Insert(t) PROVE TypeInv'
  <2> DEFINE p == ProcOf[t]
  <2>0. p \in Procs
        OBVIOUS
  <2>1. CASE active[p] = 0
        BY <1>4, <2>0, <2>1 DEF Insert, Goto
  <2>2. CASE active[p] # 0
    <3>1. locked' \subseteq Files
          BY <1>4, <2>2, Zenon DEF Insert
    <3> QED BY <1>4, <2>0, <2>2, <3>1 DEF Insert, Goto
  <2> QED BY <2>1, <2>2
<1>5. ASSUME NEW t \in Tasks, Release(t) PROVE TypeInv'
  <2>1. locked' \subseteq Files
        BY <1>5, Zenon DEF Release
  <2>2. active' \in [Procs -> 0 .. MaxFiles]
        BY <1>5, <1>0 DEF Release
  <2> QED BY <1>5, <2>1, <2>2 DEF Release, Goto
<1>6. ASSUME NEW t \in Tasks, Unlink(t) PROVE TypeInv'
      BY <1>6 DEF Unlink, Goto
<1>7. ASSUME NEW p \in Procs, Sweep(p) PROVE TypeInv'
  <2>1. locked' \subseteq Files
        BY <1>7, Zenon DEF Sweep
  <2> QED BY <1>7, <2>1 DEF Sweep
<1>8. ASSUME NEW p \in Procs, SweepUnlink(p) PROVE TypeInv'
      BY <1>8 DEF SweepUnlink
<1>9. ASSUME NEW p \in Procs, Die(p) PROVE TypeInv'
  <2>1. locked' \subseteq Files
        BY <1>9, Zenon DEF Die
  <2>2. active' \in [Procs -> 0 .. MaxFiles]
        BY <1>9, <1>0 DEF Die
  <2> QED BY <1>9, <1>0, <2>1, <2>2 DEF Die
<1>10. CASE UNCHANGED vars
      BY <1>10 DEF vars
<1> QED BY <1>1, <1>2, <1>3, <1>4, <1>5, <1>6, <1>7, <1>8, <1>9, <1>10
        DEF Next, Claim

(* Every step keeps each lock with exactly one holder.                     *)
LEMMA NextLock == TypeInv /\ LockInv /\ [Next]_vars => LockInv'
<1> SUFFICES ASSUME TypeInv, LockInv, [Next]_vars PROVE LockInv'
    OBVIOUS
<1> USE PartClaimAssumption
    DEF TypeInv, TypeOK, FileOpen, LockInv, HandlesLocked, HandlesDistinct,
        EntriesLocked, EntriesDistinct, EntryOrHandle, LocksHeld
<1>1. ASSUME NEW t \in Tasks, Open(t) PROVE LockInv'
      BY <1>1 DEF Open, Goto
<1>2. ASSUME NEW t \in Tasks, TryLock(t) PROVE LockInv'
      BY <1>2 DEF TryLock, Goto
<1>3. ASSUME NEW t \in Tasks, HeldElsewhere(t) PROVE LockInv'
      BY <1>3 DEF HeldElsewhere, Goto
<1>4. ASSUME NEW t \in Tasks, Insert(t) PROVE LockInv'
  <2>1. ProcOf[t] \in Procs /\ handle[t] # 0
        BY <1>4 DEF Insert
  <2>2. CASE active[ProcOf[t]] = 0
    <3>1. /\ active' = [active EXCEPT ![ProcOf[t]] = handle[t]]
          /\ pc' = [pc EXCEPT ![t] = "owner"]
          /\ handle' = [handle EXCEPT ![t] = 0]
          /\ locked' = locked
          BY <1>4, <2>2 DEF Insert, Goto
    <3>2. HandlesLocked' /\ HandlesDistinct'
          BY <3>1
    <3>3. EntriesLocked' /\ EntriesDistinct' /\ EntryOrHandle'
          BY <1>4, <2>1, <3>1 DEF Insert
    <3>4. LocksHeld'
          BY <1>4, <2>1, <2>2, <3>1 DEF Insert
    <3> QED BY <3>2, <3>3, <3>4
  <2>3. CASE active[ProcOf[t]] # 0
    <3>1. /\ active' = active
          /\ pc' = [pc EXCEPT ![t] = "idle"]
          /\ handle' = [handle EXCEPT ![t] = 0]
          /\ locked' = locked \ {handle[t]}
          BY <1>4, <2>3 DEF Insert, Goto
    <3>2. HandlesLocked' /\ HandlesDistinct'
          BY <1>4, <3>1 DEF Insert
    <3>3. EntriesLocked' /\ EntriesDistinct' /\ EntryOrHandle'
          BY <1>4, <3>1 DEF Insert
    <3>4. LocksHeld'
          BY <1>4, <3>1 DEF Insert
    <3> QED BY <3>2, <3>3, <3>4
  <2> QED BY <2>2, <2>3
<1>5. ASSUME NEW t \in Tasks, Release(t) PROVE LockInv'
      BY <1>5 DEF Release, Goto
<1>6. ASSUME NEW t \in Tasks, Unlink(t) PROVE LockInv'
      BY <1>6 DEF Unlink, Goto
<1>7. ASSUME NEW p \in Procs, Sweep(p) PROVE LockInv'
      BY <1>7 DEF Sweep
<1>8. ASSUME NEW p \in Procs, SweepUnlink(p) PROVE LockInv'
      BY <1>8 DEF SweepUnlink
<1>9. ASSUME NEW p \in Procs, Die(p) PROVE LockInv'
      BY <1>9 DEF Die
<1>10. CASE UNCHANGED vars
      BY <1>10 DEF vars
<1> QED BY <1>1, <1>2, <1>3, <1>4, <1>5, <1>6, <1>7, <1>8, <1>9, <1>10
        DEF Next, Claim

(* Every step leaves an entry only where a live PartLock is.               *)
LEMMA NextEntry == TypeInv /\ EntryHasOwner /\ [Next]_vars => EntryHasOwner'
<1> SUFFICES ASSUME TypeInv, EntryHasOwner, [Next]_vars PROVE EntryHasOwner'
    OBVIOUS
<1> USE PartClaimAssumption
    DEF TypeInv, TypeOK, FileOpen, EntryHasOwner
<1>1. ASSUME NEW t \in Tasks, Open(t) PROVE EntryHasOwner'
      BY <1>1 DEF Open, Goto
<1>2. ASSUME NEW t \in Tasks, TryLock(t) PROVE EntryHasOwner'
      BY <1>2 DEF TryLock, Goto
<1>3. ASSUME NEW t \in Tasks, HeldElsewhere(t) PROVE EntryHasOwner'
      BY <1>3 DEF HeldElsewhere, Goto
<1>4. ASSUME NEW t \in Tasks, Insert(t) PROVE EntryHasOwner'
  <2>1. ProcOf[t] \in Procs /\ handle[t] # 0
        BY <1>4 DEF Insert
  <2>2. CASE active[ProcOf[t]] = 0
        BY <1>4, <2>1, <2>2 DEF Insert, Goto
  <2>3. CASE active[ProcOf[t]] # 0
        BY <1>4, <2>1, <2>3 DEF Insert, Goto
  <2> QED BY <2>2, <2>3
<1>5. ASSUME NEW t \in Tasks, Release(t) PROVE EntryHasOwner'
      BY <1>5 DEF Release, Goto
<1>6. ASSUME NEW t \in Tasks, Unlink(t) PROVE EntryHasOwner'
      BY <1>6 DEF Unlink, Goto
<1>7. ASSUME NEW p \in Procs, Sweep(p) PROVE EntryHasOwner'
      BY <1>7 DEF Sweep
<1>8. ASSUME NEW p \in Procs, SweepUnlink(p) PROVE EntryHasOwner'
      BY <1>8 DEF SweepUnlink
<1>9. ASSUME NEW p \in Procs, Die(p) PROVE EntryHasOwner'
      BY <1>9 DEF Die
<1>10. CASE UNCHANGED vars
      BY <1>10 DEF vars
<1> QED BY <1>1, <1>2, <1>3, <1>4, <1>5, <1>6, <1>7, <1>8, <1>9, <1>10
        DEF Next, Claim

(* Until it sweeps, every step keeps a process's entry and owner together. *)
LEMMA NextOwner ==
  IInv /\ OwnerInv /\ [Next]_vars => OwnerInv'
<1> SUFFICES ASSUME IInv, OwnerInv, [Next]_vars PROVE OwnerInv'
    OBVIOUS
<1> USE PartClaimAssumption
    DEF IInv, TypeInv, TypeOK, FileOpen, OwnerInv, OwnerHasEntry,
        EntryHasOwner, OneOwnerPerRegistry, Owners
<1>1. ASSUME NEW t \in Tasks, Open(t) PROVE OwnerInv'
      BY <1>1 DEF Open, Goto
<1>2. ASSUME NEW t \in Tasks, TryLock(t) PROVE OwnerInv'
      BY <1>2 DEF TryLock, Goto
<1>3. ASSUME NEW t \in Tasks, HeldElsewhere(t) PROVE OwnerInv'
      BY <1>3 DEF HeldElsewhere, Goto
<1>4. ASSUME NEW t \in Tasks, Insert(t) PROVE OwnerInv'
  <2>1. ProcOf[t] \in Procs /\ handle[t] # 0
        BY <1>4 DEF Insert
  <2>2. CASE active[ProcOf[t]] = 0
        BY <1>4, <2>1, <2>2 DEF Insert, Goto
  <2>3. CASE active[ProcOf[t]] # 0
        BY <1>4, <2>1, <2>3 DEF Insert, Goto
  <2> QED BY <2>2, <2>3
<1>5. ASSUME NEW t \in Tasks, Release(t) PROVE OwnerInv'
      BY <1>5 DEF Release, Goto
<1>6. ASSUME NEW t \in Tasks, Unlink(t) PROVE OwnerInv'
      BY <1>6 DEF Unlink, Goto
<1>7. ASSUME NEW p \in Procs, Sweep(p) PROVE OwnerInv'
      BY <1>7 DEF Sweep
<1>8. ASSUME NEW p \in Procs, SweepUnlink(p) PROVE OwnerInv'
      BY <1>8 DEF SweepUnlink
<1>9. ASSUME NEW p \in Procs, Die(p) PROVE OwnerInv'
      BY <1>9 DEF Die
<1>10. CASE UNCHANGED vars
      BY <1>10 DEF vars
<1> QED BY <1>1, <1>2, <1>3, <1>4, <1>5, <1>6, <1>7, <1>8, <1>9, <1>10
        DEF Next, Claim

(* The invariant the theorems rest on, in every reachable state.           *)
LEMMA Inductive == Spec => []IInv
<1>1. IInv /\ [Next]_vars => IInv'
      BY NextType, NextLock, NextEntry DEF IInv
<1> QED BY InitInv, <1>1, PTL DEF Spec

(* And what holds besides until the process sweeps.                        *)
LEMMA OwnersKept == Spec => []OwnerInv
<1>1. IInv /\ OwnerInv /\ [Next]_vars => OwnerInv'
      BY NextOwner
<1> QED BY InitInv, Inductive, <1>1, PTL DEF Spec

(* Every reachable state is well typed.                                    *)
THEOREM TypeCorrect == Spec => []TypeOK
<1>1. IInv => TypeOK
      BY DEF IInv, TypeInv
<1> QED BY Inductive, <1>1, PTL

(* Two downloads of one process never both own the path.                   *)
THEOREM RegistryExclusion ==
  Spec => []OneOwnerPerRegistry
<1>1. OwnerInv => OneOwnerPerRegistry
      BY DEF OwnerInv
<1> QED BY OwnersKept, <1>1, PTL

(* A live PartLock still has its registry entry and the entry's lock.      *)
THEOREM ClaimHeld == Spec => []HeldWhileAlive
<1>1. IInv /\ OwnerInv => HeldWhileAlive
      BY PartClaimAssumption
         DEF IInv, LockInv, OwnerInv, EntriesLocked, OwnerHasEntry, HeldWhileAlive, Owners
<1> QED BY Inductive, OwnersKept, <1>1, PTL

(* A claim is refused only while another download has the path: neither a  *)
(* killed process, nor an orphaned sidecar, nor a swept one makes it busy. *)
THEOREM NoSpuriousBusy == Spec => RefusedOnlyWhenHeld
<1> DEFINE Held(t) == \E u \in Tasks \ {t} : pc[u] \in {"locked", "owner"}
<1>1. ASSUME IInv, NEW t \in Tasks, Refused(t) PROVE Held(t)
  <2>1. CASE HeldElsewhere(t)
        BY <1>1, <2>1
           DEF HeldElsewhere, IInv, TypeInv, FileOpen, LockInv, LocksHeld,
               EntryHasOwner
  <2>2. CASE Insert(t) /\ pc'[t] = "idle"
    <3>1. active[ProcOf[t]] # 0
          BY <1>1, <2>2 DEF Insert, Goto, IInv, TypeInv, TypeOK
    <3> QED BY <1>1, <2>2, <3>1, PartClaimAssumption
            DEF Insert, IInv, EntryHasOwner
  <2> QED BY <1>1, <2>1, <2>2 DEF Refused
<1>2. IInv /\ [Next]_vars =>
        [\A t \in Tasks : Refused(t) =>
            \E u \in Tasks \ {t} : pc[u] \in {"locked", "owner"}]_vars
      BY <1>1
<1> QED BY Inductive, <1>2, PTL DEF Spec, RefusedOnlyWhenHeld
=============================================================================

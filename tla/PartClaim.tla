----------------------------- MODULE PartClaim ------------------------------
(***************************************************************************)
(* The claim on one .rdlp-part path: PartLock (rdlp-api                    *)
(* orchestrator/part_lock.rs) over TempRegistry's Claim entries            *)
(* (rdlp-postprocess pipeline/registry.rs).  A claim is an advisory lock   *)
(* on a sidecar file plus an entry in the registry every download of one   *)
(* process shares.  The lock belongs to an open file, not to its name:     *)
(* once the sidecar is unlinked, the next claim creates another file under *)
(* the same name.                                                          *)
(***************************************************************************)
EXTENDS Naturals, FiniteSets

CONSTANTS
    Procs,      \* rdlp processes, each with one TempRegistry
    Tasks,      \* downloads that want the path
    ProcOf,     \* [Tasks -> Procs]
    Sweeps,     \* the processes that run cleanup_all while downloads live
    MaxFiles    \* bound: sidecar files that exist at once, named or not

ASSUME PartClaimAssumption ==
    /\ ProcOf \in [Tasks -> Procs]
    /\ Sweeps \subseteq Procs
    /\ MaxFiles \in Nat

VARIABLES
    pc,       \* what each download is doing with the path
    handle,   \* the sidecar file it has opened, 0 when none
    active,   \* active[p]: the file of registry p's entry, 0 when no entry
    locked,   \* the sidecar files that carry an exclusive lock
    name,     \* the file the sidecar's name refers to, 0 when unlinked
    down      \* down[p]: how far the shutdown of process p has got

vars == <<pc, handle, active, locked, name, down>>

Files == 1 .. MaxFiles

(* A file nobody has open and no name refers to is gone. *)
Gone == {f \in Files : /\ f # name
                       /\ \A t \in Tasks : handle[t] # f
                       /\ \A p \in Procs : active[p] # f}

TypeOK ==
    /\ pc \in [Tasks -> {"idle", "opened", "locked", "owner", "unlink"}]
    /\ handle \in [Tasks -> 0 .. MaxFiles]
    /\ active \in [Procs -> 0 .. MaxFiles]
    /\ locked \subseteq Files
    /\ name \in 0 .. MaxFiles
    /\ down \in [Procs -> {"up", "unlink", "swept"}]

Init ==
    /\ pc = [t \in Tasks |-> "idle"] /\ handle = [t \in Tasks |-> 0]
    /\ active = [p \in Procs |-> 0]
    /\ locked = {} /\ name = 0
    /\ down = [p \in Procs |-> "up"]

Goto(t, l) == pc' = [pc EXCEPT ![t] = l]

(* acquire: File::create opens the sidecar, creating it if need be.        *)
Open(t) ==
    /\ pc[t] = "idle"
    /\ IF name = 0 THEN name' \in Gone ELSE UNCHANGED name
    /\ handle' = [handle EXCEPT ![t] = name']
    /\ Goto(t, "opened")
    /\ UNCHANGED <<active, locked, down>>

(* Mutant: a shared lock is asked for. *)
TryLock_Shared(t) ==
    /\ pc[t] = "opened"
    /\ locked' = locked \cup {handle[t]}
    /\ Goto(t, "locked")
    /\ UNCHANGED <<handle, active, name, down>>

(* try_lock_exclusive, and the two answers it can have.                    *)
TryLock(t) ==
    /\ pc[t] = "opened" /\ handle[t] \notin locked
    /\ locked' = locked \cup {handle[t]}
    /\ Goto(t, "locked")
    /\ UNCHANGED <<handle, active, name, down>>

HeldElsewhere(t) ==
    /\ pc[t] = "opened" /\ handle[t] \in locked
    /\ handle' = [handle EXCEPT ![t] = 0]
    /\ Goto(t, "idle")
    /\ UNCHANGED <<active, locked, name, down>>

(* Mutant: a vacant entry is assumed, and the first holder's is replaced.  *)
Insert_Replaces(t) ==
    /\ pc[t] = "locked"
    /\ active' = [active EXCEPT ![ProcOf[t]] = handle[t]]
    /\ locked' = locked \ ({active[ProcOf[t]]} \ {handle[t]})
    /\ handle' = [handle EXCEPT ![t] = 0]
    /\ Goto(t, "owner")
    /\ UNCHANGED <<name, down>>

(* insert_or_conflict: the open file moves into the registry, unless       *)
(* another claim is there; then it is dropped, which unlocks it.           *)
Insert(t) ==
    /\ pc[t] = "locked"
    /\ IF active[ProcOf[t]] = 0
       THEN /\ active' = [active EXCEPT ![ProcOf[t]] = handle[t]]
            /\ Goto(t, "owner") /\ UNCHANGED locked
       ELSE /\ locked' = locked \ {handle[t]}
            /\ Goto(t, "idle") /\ UNCHANGED active
    /\ handle' = [handle EXCEPT ![t] = 0]
    /\ UNCHANGED <<name, down>>

(* Mutant: the sidecar goes, the registry entry and its lock stay.         *)
Release_KeepsEntry(t) ==
    /\ pc[t] = "owner"
    /\ Goto(t, "unlink")
    /\ UNCHANGED <<handle, active, locked, name, down>>

(* Dropping a PartLock: release takes whatever entry the path has, closes  *)
(* its file (one step: nothing looks at both), and only then removes the   *)
(* sidecar by name.                                                        *)
Release(t) ==
    /\ pc[t] = "owner"
    /\ active' = [active EXCEPT ![ProcOf[t]] = 0]
    /\ locked' = locked \ {active[ProcOf[t]]}
    /\ Goto(t, "unlink")
    /\ UNCHANGED <<handle, name, down>>

Unlink(t) ==
    /\ pc[t] = "unlink"
    /\ name' = 0
    /\ Goto(t, "idle")
    /\ UNCHANGED <<handle, active, locked, down>>

(* Mutant: the entries are taken out and never closed. *)
Sweep_KeepsLock(p) ==
    /\ p \in Sweeps /\ down[p] = "up"
    /\ active' = [active EXCEPT ![p] = 0]
    /\ down' = [down EXCEPT ![p] = "unlink"]
    /\ UNCHANGED <<pc, handle, locked, name>>

(* cleanup_all on shutdown drains the registry and closes the files while  *)
(* the downloads of the process still hold their PartLocks.                *)
Sweep(p) ==
    /\ p \in Sweeps /\ down[p] = "up"
    /\ locked' = locked \ {active[p]}
    /\ active' = [active EXCEPT ![p] = 0]
    /\ down' = [down EXCEPT ![p] = IF active[p] = 0 THEN "swept" ELSE "unlink"]
    /\ UNCHANGED <<pc, handle, name>>

SweepUnlink(p) ==
    /\ down[p] = "unlink"
    /\ name' = 0
    /\ down' = [down EXCEPT ![p] = "swept"]
    /\ UNCHANGED <<pc, handle, active, locked>>

(* The process ends, killed or not: the system closes its files, nobody    *)
(* removes the sidecar, and the next process of this slot starts afresh.   *)
Die(p) ==
    /\ \E t \in Tasks : ProcOf[t] = p /\ pc[t] # "idle"
    /\ locked' = locked \ ({active[p]} \cup
                  {handle[t] : t \in {u \in Tasks : ProcOf[u] = p /\ pc[u] = "locked"}})
    /\ active' = [active EXCEPT ![p] = 0]
    /\ pc' = [t \in Tasks |-> IF ProcOf[t] = p THEN "idle" ELSE pc[t]]
    /\ handle' = [t \in Tasks |-> IF ProcOf[t] = p THEN 0 ELSE handle[t]]
    /\ down' = [down EXCEPT ![p] = "up"]
    /\ UNCHANGED name

Claim(t) == Open(t) \/ TryLock(t) \/ HeldElsewhere(t) \/ Insert(t)

Next == \/ \E t \in Tasks : Claim(t) \/ Release(t) \/ Unlink(t)
        \/ \E p \in Procs : Sweep(p) \/ SweepUnlink(p) \/ Die(p)

Spec == Init /\ [][Next]_vars
-----------------------------------------------------------------------------
(* "Holding this lock IS the ownership claim on `path`": no two downloads  *)
(* write the path's partial and chunk files at once, in one process or two.*)
MutualExclusion ==
    \A t, u \in Tasks : pc[t] = "owner" /\ pc[u] = "owner" => t = u

(* The downloads of p that own the path.                                   *)
Owners(p) == {t \in Tasks : ProcOf[t] = p /\ pc[t] = "owner"}

(* Two downloads of one process, sharing its registry, never both own the  *)
(* path, whatever other processes do to the sidecar meanwhile; until the   *)
(* process sweeps its registry on its way out.                             *)
OneOwnerPerRegistry ==
    \A p \in Procs : down[p] = "up" => \A t, u \in Owners(p) : t = u

(* A PartLock is "the exclusive advisory claim ... for as long as this     *)
(* value is alive": its registry still has the entry and the entry's lock, *)
(* until that sweep.                                                       *)
HeldWhileAlive ==
    \A p \in Procs : down[p] = "up" /\ Owners(p) # {} =>
        active[p] # 0 /\ active[p] \in locked

Refused(t) == HeldElsewhere(t) \/ (Insert(t) /\ pc'[t] = "idle")

(* A claim is refused only because somebody has the path: a sidecar left   *)
(* by a killed process never makes it busy.                                *)
RefusedOnlyWhenHeld ==
    [][\A t \in Tasks : Refused(t) =>
          \E u \in Tasks \ {t} : pc[u] \in {"locked", "owner"}]_vars
=============================================================================

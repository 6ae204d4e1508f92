--------------------------- MODULE ExactTransfer ---------------------------
(***************************************************************************)
(* What one output path of a plain-HTTP download promises, whatever the    *)
(* resume protocol under it does: the partial file is always an exact      *)
(* prefix of ONE representation of the resource, it only grows by the next *)
(* byte of that representation or is thrown away as a whole, and it is     *)
(* handed over as the finished download only when that representation is   *)
(* complete.                                                               *)
(***************************************************************************)
EXTENDS Naturals

CONSTANTS Versions,   \* the representations the resource may have
          Len         \* [Versions -> Nat \ {0}], their complete lengths

VARIABLES part,       \* the partial file
          delivered   \* the last file handed over, NoFile before the first

avars == <<part, delivered>>

(* A file is the bytes 0 .. len-1 of representation rep.  A file whose     *)
(* bytes are not such a prefix has rep = Mixed.                            *)
Nothing == "nothing"
Mixed   == "mixed"
Empty   == [rep |-> Nothing, len |-> 0]
NoFile  == [rep |-> Nothing, len |-> 0]

IsPrefix(f) == \/ f = Empty
               \/ f.rep \in Versions /\ f.len \in 1 .. Len[f.rep]
IsWhole(f)  == f.rep \in Versions /\ f.len = Len[f.rep]

Init == part = Empty /\ delivered = NoFile

Grow(v) == /\ \/ part = Empty
              \/ part.rep = v
           /\ part.len < Len[v]
           /\ part' = [rep |-> v, len |-> part.len + 1]
           /\ UNCHANGED delivered

Discard == part' = Empty /\ UNCHANGED delivered

Deliver == IsWhole(part) /\ delivered' = part /\ part' = Empty

Next == Discard \/ Deliver \/ \E v \in Versions : Grow(v)

Spec == Init /\ [][Next]_avars
============================================================================

---------------------------- MODULE MCPartClaim -----------------------------
(* PartClaim with a desktop process of two downloads and a second process. *)
EXTENDS PartClaim

CONSTANTS desktop, cli, d1, d2, c1

TwoProcesses == [t \in Tasks |-> IF t = c1 THEN cli ELSE desktop]
=============================================================================

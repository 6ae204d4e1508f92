---------------------------- MODULE MCHttpResume ----------------------------
(* HttpResume on two small representations of the resource: one URL with   *)
(* honest sizes, and a chain of two URLs with sizes that may be too small. *)
EXTENDS HttpResume

CONSTANTS v1, v2

OtherLen == [v \in Versions |-> IF v = v1 THEN 3 ELSE 2]

OneUrl   == [urls |-> 1, sizes |-> {Unknown, 3}]
TwoUrls  == [urls |-> 2, sizes |-> {Unknown, 2, 3}]
BothOffers == {OneUrl, TwoUrls}
=============================================================================

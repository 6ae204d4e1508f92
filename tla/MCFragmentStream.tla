-------------------------- MODULE MCFragmentStream --------------------------
(* FragmentStream on two fragments, the second of two bytes, that two      *)
(* versions of the resource list alike.                                    *)
EXTENDS FragmentStream

CONSTANTS v1, v2

TwoEnds == [i \in 0 .. Total |-> CASE i = 0 -> 0 [] i = 1 -> 1 [] OTHER -> 3]
OneList == [v \in Versions |-> "list"]
=============================================================================

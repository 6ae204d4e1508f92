--------------------------- MODULE MCDashDownload ---------------------------
(* DashDownload with two versions behind one manifest, told apart by their *)
(* validators, and a third one, without any, behind a manifest of its own. *)
EXTENDS DashDownload

CONSTANTS v1, v2, v3

SharedManifest == [v \in Versions |-> IF v = v3 THEN 2 ELSE 1]
SizeTwo        == [v \in Versions |-> 2]
=============================================================================

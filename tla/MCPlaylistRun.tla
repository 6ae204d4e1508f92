--------------------------- MODULE MCPlaylistRun ---------------------------
(* An instance of PlaylistRun in which each episode has its own title.     *)
EXTENDS PlaylistRun
OwnTitle == [e \in Episodes |-> e]
=============================================================================

--------------------------- MODULE MCDownloadJob ----------------------------
(* DownloadJob needs no definitions of its own for its small instances.    *)
EXTENDS DownloadJob
=============================================================================

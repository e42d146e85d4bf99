--------------------------- MODULE MCStreamerLoop ---------------------------
(* Small instances of StreamerLoop for TLC. *)
EXTENDS StreamerLoop

CONSTANTS s1, s2, s3
=============================================================================

------------------------ MODULE MCStreamingService ------------------------
(* Small instances of StreamingService for TLC. *)
EXTENDS StreamingService

CONSTANTS c1, c2, c3, h1, h2, w1, w2, w3
=============================================================================

--------------------------- MODULE MCNodeFailure ---------------------------
(* Small instances of NodeFailure for TLC. *)
EXTENDS NodeFailure

CONSTANTS c1, c2

(* Each client on a host of its own. *)
MCOwnIp == [c \in {c1, c2} |-> c]
(* Every ex_client binds as "0.0.0.0" (ex_client.cpp:17). *)
MCSharedIp == [c \in {c1, c2} |-> "0.0.0.0"]
=============================================================================

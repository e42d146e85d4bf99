----------------------------- MODULE TeeBranches -----------------------------
(***************************************************************************)
(* multithread.c and the pipeline of app_src_sink.c: a tee gives every     *)
(* buffer of the source to a queue per branch, and a thread behind each    *)
(* queue makes what the branch's sink renders.  Until all sinks have got   *)
(* something to render (preroll) the pipeline does not play and a sink     *)
(* that has blocks its thread.  The main thread waits for the end, gives   *)
(* the request pads of the tee back and takes the pipeline down.           *)
(*                                                                         *)
(* External: a full queue blocks the thread of the tee, which serves the   *)
(* branches in turn; wavescope collects several buffers for one frame; the *)
(* source does not end.                                                    *)
(***************************************************************************)
EXTENDS Integers, FiniteSets

CONSTANTS NumBranches,
          Cap,     \* buffers a queue takes
          Needs    \* buffers a branch collects before its sink gets something

Branches == 1 .. NumBranches   \* in the order of the tee's request pads

(* What a branch collects fits into the other branches' queues.            *)
TeeAssumption ==
  /\ {NumBranches, Cap} \subseteq Nat \ {0}
  /\ Needs \subseteq 1 .. Cap + 1

VARIABLES
  need,       \* what each branch collects
  request,    \* branches with a request pad of the tee, linked to a queue
  turn,       \* the branch the tee serves next
  queued,     \* buffers in each queue
  collected,  \* buffers the branch has taken for its next output
  prerolled,  \* branches whose thread is blocked in its sink
  playing,    \* the pipeline has reached PLAYING
  main,       \* where the main thread is
  ended       \* an error or the end is on the bus

vars == <<need, request, turn, queued, collected, prerolled, playing, main, ended>>

TypeOK ==
  /\ need \in [Branches -> Needs \cup {1}]
  /\ request \in SUBSET Branches
  /\ turn \in Branches
  /\ queued \in [Branches -> 0 .. Cap]
  /\ collected \in [Branches -> 0 .. Cap] /\ \A b \in Branches : collected[b] < need[b]
  /\ prerolled \in SUBSET Branches
  /\ {playing, ended} \subseteq BOOLEAN
  /\ main \in {"setup", "wait", "release", "null", "exit"}

Init ==
  /\ need = [b \in Branches |-> 1]
  /\ request = {} /\ turn = 1
  /\ queued = [b \in Branches |-> 0] /\ collected = [b \in Branches |-> 0]
  /\ prerolled = {} /\ playing = FALSE
  /\ main = "setup" /\ ended = FALSE

-----------------------------------------------------------------------------
(* Request pads, linked to the queues, or a return; set_state(PLAYING).    *)
Setup ==
  /\ main = "setup"
  /\ need' \in [Branches -> Needs]
  /\ \/ main' = "wait" /\ request' = Branches
     \/ main' = "exit" /\ UNCHANGED request
  /\ UNCHANGED <<turn, queued, collected, prerolled, playing, ended>>

Streams == main \in {"wait", "release", "null"}

(* Mutated form: the branch is linked to the tee without a queue.          *)
AcceptsUnqueued(b) == queued[b] = 0 /\ b \notin prerolled
Accepts(b) == queued[b] < Cap

(* The thread of the source, in the tee.                                   *)
TeePush ==
  /\ Streams /\ request # {}
  /\ turn' = (turn % NumBranches) + 1
  /\ IF turn \in request
     THEN Accepts(turn) /\ queued' = [queued EXCEPT ![turn] = @ + 1]
     ELSE UNCHANGED queued
  /\ UNCHANGED <<need, request, collected, prerolled, playing, main, ended>>

(* The thread of a branch: new_sample for the appsink.                     *)
BranchPull(b) ==
  /\ Streams
  /\ queued[b] > 0 /\ b \notin prerolled
  /\ queued' = [queued EXCEPT ![b] = @ - 1]
  /\ collected' = [collected EXCEPT ![b] = (@ + 1) % need[b]]
  /\ prerolled' = IF collected'[b] = 0 /\ ~playing THEN prerolled \cup {b} ELSE prerolled
  /\ UNCHANGED <<need, request, turn, playing, main, ended>>

(* All sinks are prerolled: the pipeline plays and the sinks render.       *)
Preroll ==
  /\ Streams /\ ~playing
  /\ prerolled = Branches
  /\ playing' = TRUE /\ prerolled' = {}
  /\ UNCHANGED <<need, request, turn, queued, collected, main, ended>>

PostEnd ==
  /\ Streams /\ ~ended
  /\ ended' = TRUE
  /\ UNCHANGED <<need, request, turn, queued, collected, prerolled, playing, main>>

-----------------------------------------------------------------------------
(* gst_bus_timed_pop_filtered returns, or error_cb quits the loop.         *)
Popped ==
  /\ main = "wait" /\ ended
  /\ main' = "release"
  /\ UNCHANGED <<need, request, turn, queued, collected, prerolled, playing, ended>>

Release ==
  /\ main = "release"
  /\ LET b == CHOOSE x \in request : \A y \in request : x <= y
     IN request' = request \ {b}
  /\ main' = IF request' = {} THEN "null" ELSE "release"
  /\ UNCHANGED <<need, turn, queued, collected, prerolled, playing, ended>>

(* NULL flushes: queues are emptied, blocked threads return.               *)
SetNull ==
  /\ main = "null"
  /\ queued' = [b \in Branches |-> 0] /\ collected' = [b \in Branches |-> 0]
  /\ prerolled' = {} /\ playing' = FALSE
  /\ main' = "exit"
  /\ UNCHANGED <<need, request, turn, ended>>

MainStep == Setup \/ Popped \/ Release \/ SetNull

Next ==
  \/ MainStep \/ TeePush \/ Preroll \/ PostEnd
  \/ \E b \in Branches : BranchPull(b)

Spec == Init /\ [][Next]_vars

-----------------------------------------------------------------------------
(* The pipeline gets to play: no branch waits for buffers that the tee     *)
(* cannot give it because it is blocked on another branch's queue, which   *)
(* waits for that sink to preroll.                                         *)
Prerolls == main = "wait" ~> playing \/ ended

(* An error ends the program, threads blocked on queues and sinks or not.  *)
FailureEnds == main = "wait" /\ ended ~> main = "exit"
=============================================================================

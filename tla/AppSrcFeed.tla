----------------------------- MODULE AppSrcFeed -----------------------------
(***************************************************************************)
(* The feeding protocol of app_src_sink.c and appsrc_playbin.c, which are  *)
(* the same code: appsrc emits need-data on its streaming thread when its  *)
(* queue is empty, and start_feed adds push_data as an idle source of the  *)
(* main loop; appsrc emits enough-data from inside push-buffer, on the     *)
(* main thread, when the queue is full, and stop_feed removes the source.  *)
(* Both handlers use source_id without a lock.                             *)
(*                                                                         *)
(* appsrc is external: its queue is a number of buffers under a mutex of   *)
(* its own, it does not block in push-buffer (block is FALSE, so a full    *)
(* queue overflows by the buffer being pushed), and its thread waits on a  *)
(* condition when need-data brought nothing.  push-buffer returns          *)
(* GST_FLOW_OK as long as appsrc is not flushing, which it only does when  *)
(* the loop has ended, so push_data never returns FALSE here.  What the    *)
(* buffers contain is left out.                                            *)
(***************************************************************************)
EXTENDS Naturals, FiniteSets

CONSTANTS SourceIds,   \* ids that g_idle_add may return
          MaxBuffers,  \* level at which appsrc has enough
          Overshoot    \* bound: buffers the main loop pushes past that level
                       \* while the streaming thread stays inside start_feed

ASSUME AppSrcAssumption ==
  /\ 0 \notin SourceIds
  /\ MaxBuffers \in Nat \ {0}
  /\ Overshoot \in Nat

VARIABLES
  queue,      \* buffers in appsrc
  source_id,  \* CustomData.source_id, 0 when there is no source
  attached,   \* idle sources attached to the main context
  added,      \* what g_idle_add returned to the streaming thread
  main,       \* where the main thread is
  stream      \* where the streaming thread of appsrc is

vars == <<queue, source_id, attached, added, main, stream>>

MainPC   == {"setup", "loop", "stop_feed", "reset", "append", "teardown", "done"}
StreamPC == {"none", "create", "add", "store", "check", "waiting", "stopped"}

TypeOK ==
  /\ queue \in Nat
  /\ source_id \in SourceIds \cup {0}
  /\ attached \in SUBSET SourceIds
  /\ added \in SourceIds \cup {0}
  /\ main \in MainPC
  /\ stream \in StreamPC

Init ==
  /\ queue = 0
  /\ source_id = 0
  /\ attached = {}
  /\ added = 0
  /\ main = "setup"
  /\ stream = "none"

(* The signals are connected before the streaming thread starts.           *)
SourceSetup ==
  /\ main = "setup"
  /\ main' = "loop"
  /\ stream' = "create"
  /\ UNCHANGED <<queue, source_id, attached, added>>

Ended == main \in {"teardown", "done"}

-----------------------------------------------------------------------------
(* The streaming thread.                                                   *)

(* A buffer is taken and goes downstream.                                  *)
Pop ==
  /\ stream = "create" /\ ~Ended
  /\ queue > 0
  /\ queue' = queue - 1
  /\ UNCHANGED <<source_id, attached, added, main, stream>>

(* Mutated form: start_feed without the test of source_id.                 *)
NeedDataAlways ==
  /\ stream = "create" /\ ~Ended
  /\ queue = 0
  /\ stream' = "add"
  /\ UNCHANGED <<queue, source_id, attached, added, main>>
(* need-data: start_feed tests source_id ...                               *)
NeedData ==
  /\ stream = "create" /\ ~Ended
  /\ queue = 0
  /\ stream' = IF source_id = 0 THEN "add" ELSE "check"
  /\ UNCHANGED <<queue, source_id, attached, added, main>>

(* ... attaches the idle source, which the main loop may run at once ...   *)
StartFeedAdd ==
  /\ stream = "add"
  /\ \E id \in SourceIds \ (attached \cup {source_id}) :
       attached' = attached \cup {id} /\ added' = id
  /\ stream' = "store"
  /\ UNCHANGED <<queue, source_id, main>>

(* ... and only then stores its id.                                        *)
StartFeedStore ==
  /\ stream = "store"
  /\ source_id' = added
  /\ stream' = "check"
  /\ UNCHANGED <<queue, attached, added, main>>

(* After the signal appsrc looks at the queue again and waits if need be.  *)
CheckQueue ==
  /\ stream = "check" /\ ~Ended
  /\ stream' = IF queue > 0 THEN "create" ELSE "waiting"
  /\ UNCHANGED <<queue, source_id, attached, added, main>>

(* Mutated form: without set_state(NULL) a waiting thread is not woken.     *)
StreamStopsIfAwake ==
  /\ Ended
  /\ stream \in {"create", "check"}
  /\ stream' = "stopped"
  /\ UNCHANGED <<queue, source_id, attached, added, main>>
(* The pipeline goes to NULL: the task ends where it would get a buffer.   *)
StreamStops ==
  /\ Ended
  /\ stream \in {"create", "check", "waiting"}
  /\ stream' = "stopped"
  /\ UNCHANGED <<queue, source_id, attached, added, main>>

StreamStep == NeedData \/ StartFeedAdd \/ StartFeedStore \/ CheckQueue \/ StreamStops

-----------------------------------------------------------------------------
(* The main thread.                                                        *)

(* The buffer enters the queue and wakes the streaming thread.             *)
Enqueue ==
  /\ queue' = queue + 1
  /\ stream' = IF stream = "waiting" THEN "create" ELSE stream

(* The main loop runs push_data; the queue has room.                       *)
PushData ==
  /\ main = "loop" /\ attached # {}
  /\ queue < MaxBuffers
  /\ Enqueue
  /\ UNCHANGED <<source_id, attached, added, main>>

(* Mutated form: enough-data is not connected to stop_feed.                *)
PushDataNotConnected ==
  /\ main = "loop" /\ attached # {}
  /\ queue >= MaxBuffers
  /\ Enqueue
  /\ UNCHANGED <<source_id, attached, added, main>>
(* Mutated form: a buffer too many is dropped, and the source goes on.     *)
PushDataFullDrops ==
  /\ main = "loop" /\ attached # {}
  /\ queue >= MaxBuffers
  /\ UNCHANGED vars
(* The queue is full: enough-data is emitted before the buffer is queued.  *)
PushDataFull ==
  /\ main = "loop" /\ attached # {}
  /\ queue >= MaxBuffers
  /\ stream = "store" => queue < MaxBuffers + Overshoot
  /\ main' = "stop_feed"
  /\ UNCHANGED <<queue, source_id, attached, added, stream>>

(* stop_feed removes the source if source_id says that there is one ...    *)
StopFeed ==
  /\ main = "stop_feed"
  /\ attached' = attached \ {source_id}
  /\ main' = IF source_id = 0 THEN "append" ELSE "reset"
  /\ UNCHANGED <<queue, source_id, added, stream>>

(* Mutated form: source_id is not reset.                                   *)
StopFeedNoReset ==
  /\ main = "reset"
  /\ main' = "append"
  /\ UNCHANGED <<queue, source_id, attached, added, stream>>
(* ... and forgets its id.                                                 *)
StopFeedReset ==
  /\ main = "reset"
  /\ source_id' = 0
  /\ main' = "append"
  /\ UNCHANGED <<queue, attached, added, stream>>

(* push-buffer returns from the signal and queues the buffer all the same. *)
PushDataRest ==
  /\ main = "append"
  /\ Enqueue
  /\ main' = "loop"
  /\ UNCHANGED <<source_id, attached, added>>

(* An error quits the main loop, and main sets the pipeline to NULL ...    *)
error_cb ==
  /\ main = "loop"
  /\ main' = "teardown"
  /\ UNCHANGED <<queue, source_id, attached, added, stream>>

(* ... which returns when the streaming thread has ended.                  *)
Teardown ==
  /\ main = "teardown"
  /\ stream = "stopped"
  /\ main' = "done"
  /\ UNCHANGED <<queue, source_id, attached, added, stream>>

MainStep ==
  \/ SourceSetup \/ PushData \/ PushDataFull \/ StopFeed \/ StopFeedReset
  \/ PushDataRest \/ Teardown

Next == StreamStep \/ MainStep \/ Pop \/ error_cb

Spec == Init /\ [][Next]_vars

(* Both threads are scheduled.  Nothing makes downstream take a buffer or  *)
(* an error occur.                                                         *)
FairSpec == Spec /\ WF_vars(StreamStep) /\ WF_vars(MainStep)

-----------------------------------------------------------------------------
(* However the two handlers interleave, push_data is attached to the main  *)
(* loop at most once: a non-zero source_id is only changed by the main     *)
(* thread, a zero one only by the streaming thread.                        *)
OneFeeder == Cardinality(attached) <= 1

(* The queue passes the limit by the buffer in hand, and by what is pushed *)
(* while the streaming thread has attached the source and not yet stored   *)
(* its id, so that stop_feed does not see it.                              *)
QueueBounded == queue <= MaxBuffers + Overshoot + 1

(* An empty queue is filled: a need-data that start_feed ignores because   *)
(* stop_feed has not reset source_id yet is made good by the buffer that   *)
(* push-buffer queues after the signal, whose wake-up emits another one.   *)
NeverStarves == queue = 0 /\ main # "setup" ~> queue > 0 \/ Ended

(* If downstream stops taking buffers, feeding stops, even if stop_feed    *)
(* misses the source once.                                                 *)
BackPressure == []<><<Pop>>_vars \/ <>[](attached = {}) \/ <>Ended

(* After an error the program ends: the wait for the streaming thread in   *)
(* set_state is not a deadlock with start_feed.                            *)
ErrorEnds == main = "teardown" ~> main = "done"
=============================================================================

---------------------------- MODULE AppSrcProofs ----------------------------
(* Proofs about the feeding protocol of appsrc.                            *)
EXTENDS AppSrcFeed, FiniteSetTheorems, TLAPS

(* What source_id says of the attached sources, by where start_feed and    *)
(* stop_feed are: while the streaming thread is inside start_feed the main *)
(* thread finds 0 and changes nothing, and a non-zero id is left alone by  *)
(* the streaming thread.                                                   *)
ProtocolInv ==
  /\ stream = "add" => source_id = 0 /\ attached = {}
  /\ stream = "store" => source_id = 0 /\ added \in SourceIds /\ attached = {added}
  /\ stream \notin {"add", "store"} /\ main # "reset" =>
       attached = IF source_id = 0 THEN {} ELSE {source_id}
  /\ main = "reset" => source_id # 0 /\ attached = {}
  /\ main = "stop_feed" => attached # {}
  /\ main = "setup" => stream = "none" /\ source_id = 0

(* How far the queue is past the limit, by what is still to be removed.    *)
LevelInv ==
  /\ queue <= MaxBuffers + Overshoot + 1
  /\ attached # {} => queue <= MaxBuffers + Overshoot
  /\ main \in {"append", "reset"} => queue <= MaxBuffers + Overshoot
  /\ main = "append" /\ attached # {} => queue < MaxBuffers + Overshoot
  /\ main = "stop_feed" /\ stream = "store" => queue < MaxBuffers + Overshoot
  /\ stream = "add" => queue <= 1 /\ (main = "append" => queue = 0)

IInv == TypeOK /\ ProtocolInv /\ LevelInv

LEMMA InitIInv == Init => IInv
BY AppSrcAssumption DEF Init, IInv, TypeOK, ProtocolInv, LevelInv, MainPC, StreamPC

LEMMA TypeStep == TypeOK /\ [Next]_vars => TypeOK'
<1> SUFFICES ASSUME TypeOK, [Next]_vars PROVE TypeOK'
  OBVIOUS
<1> USE DEF TypeOK, MainPC, StreamPC, Ended
<1>1. CASE StreamStep
  BY <1>1 DEF StreamStep, NeedData, StartFeedAdd, StartFeedStore, CheckQueue, StreamStops
<1>2. CASE SourceSetup \/ PushData \/ PushDataFull \/ StopFeed
  BY <1>2 DEF SourceSetup, PushData, Enqueue, PushDataFull, StopFeed
<1>3. CASE StopFeedReset \/ PushDataRest \/ Teardown \/ error_cb
  BY <1>3 DEF StopFeedReset, PushDataRest, Enqueue, Teardown, error_cb
<1>4. CASE Pop
  BY <1>4 DEF Pop
<1>5. CASE UNCHANGED vars
  BY <1>5 DEF vars
<1> QED
  BY <1>1, <1>2, <1>3, <1>4, <1>5 DEF Next, MainStep

LEMMA ProtocolStep == TypeOK /\ ProtocolInv /\ [Next]_vars => ProtocolInv'
<1> SUFFICES ASSUME TypeOK, ProtocolInv, [Next]_vars PROVE ProtocolInv'
  OBVIOUS
<1> USE AppSrcAssumption DEF TypeOK, MainPC, StreamPC, ProtocolInv, Ended
<1>1. CASE NeedData
  BY <1>1 DEF NeedData
<1>2. CASE StartFeedAdd
  <2>1. PICK id \in SourceIds \ (attached \cup {source_id}) :
          attached' = attached \cup {id} /\ added' = id
    BY <1>2 DEF StartFeedAdd
  <2> QED
    BY <1>2, <2>1 DEF StartFeedAdd
<1>3. CASE StartFeedStore
  BY <1>3 DEF StartFeedStore
<1>4. CASE CheckQueue \/ StreamStops
  BY <1>4 DEF CheckQueue, StreamStops
<1>5. CASE SourceSetup
  BY <1>5 DEF SourceSetup
<1>6. CASE PushData \/ PushDataFull \/ PushDataRest
  BY <1>6 DEF PushData, Enqueue, PushDataFull, PushDataRest
<1>7. CASE StopFeed
  BY <1>7 DEF StopFeed
<1>8. CASE StopFeedReset
  BY <1>8 DEF StopFeedReset
<1>9. CASE Pop \/ error_cb \/ Teardown
  BY <1>9 DEF Pop, error_cb, Teardown
<1>10. CASE UNCHANGED vars
  BY <1>10 DEF vars
<1> QED
  BY <1>1, <1>2, <1>3, <1>4, <1>5, <1>6, <1>7, <1>8, <1>9, <1>10
  DEF Next, MainStep, StreamStep

LEMMA LevelStep == IInv /\ [Next]_vars => LevelInv'
<1> SUFFICES ASSUME IInv, [Next]_vars PROVE LevelInv'
  OBVIOUS
<1> USE AppSrcAssumption DEF IInv, TypeOK, MainPC, StreamPC, ProtocolInv, LevelInv, Ended
<1>1. CASE NeedData
  BY <1>1 DEF NeedData
<1>2. CASE StartFeedAdd
  BY <1>2 DEF StartFeedAdd
<1>3. CASE StartFeedStore
  BY <1>3 DEF StartFeedStore
<1>4. CASE CheckQueue \/ StreamStops
  BY <1>4 DEF CheckQueue, StreamStops
<1>5. CASE SourceSetup \/ error_cb \/ Teardown
  BY <1>5 DEF SourceSetup, error_cb, Teardown
<1>6. CASE PushData
  BY <1>6 DEF PushData, Enqueue
<1>7. CASE PushDataFull
  BY <1>7 DEF PushDataFull
<1>8. CASE StopFeed
  BY <1>8 DEF StopFeed
<1>9. CASE StopFeedReset
  BY <1>9 DEF StopFeedReset
<1>10. CASE PushDataRest
  BY <1>10 DEF PushDataRest, Enqueue
<1>11. CASE Pop
  BY <1>11 DEF Pop
<1>12. CASE UNCHANGED vars
  BY <1>12 DEF vars
<1> QED
  BY <1>1, <1>2, <1>3, <1>4, <1>5, <1>6, <1>7, <1>8, <1>9, <1>10, <1>11, <1>12
  DEF Next, MainStep, StreamStep

LEMMA AlwaysIInv == Spec => []IInv
<1>1. IInv /\ [Next]_vars => IInv'
  BY TypeStep, ProtocolStep, LevelStep DEF IInv
<1> QED
  BY InitIInv, <1>1, PTL DEF Spec

(* For any limit and any set of ids, push_data is attached to the main     *)
(* loop at most once (app_src_sink.c:72-90).                               *)
THEOREM AtMostOneFeeder == Spec => []OneFeeder
<1>1. IInv => OneFeeder
  <2> SUFFICES ASSUME IInv PROVE OneFeeder
    OBVIOUS
  <2>1. attached = {} \/ \E id \in SourceIds : attached = {id}
    BY DEF IInv, TypeOK, ProtocolInv, StreamPC, MainPC
  <2>2. CASE attached = {}
    BY <2>2, FS_EmptySet DEF OneFeeder
  <2>3. ASSUME NEW id \in SourceIds, attached = {id} PROVE OneFeeder
    <3>1. Cardinality({id}) = 1
      BY FS_Singleton
    <3> QED
      BY <2>3, <3>1 DEF OneFeeder
  <2> QED
    BY <2>1, <2>2, <2>3
<1> QED
  BY AlwaysIInv, <1>1, PTL

(* The queue of appsrc stays within the limit, the buffer in hand and what *)
(* is pushed while start_feed is between g_idle_add and the assignment.    *)
THEOREM QueueStaysBounded == Spec => []QueueBounded
<1>1. IInv => QueueBounded
  BY DEF IInv, LevelInv, QueueBounded
<1> QED
  BY AlwaysIInv, <1>1, PTL

(* Every variable of the feeding protocol keeps its type.                  *)
THEOREM FeedTypes == Spec => []TypeOK
BY AlwaysIInv, PTL DEF IInv

-----------------------------------------------------------------------------
(* Safety behind NeverStarves: what would fill the queue of a streaming    *)
(* thread that waits is there.                                             *)

(* Somebody is about to push a buffer: push_data is attached, or the main  *)
(* thread is inside it.  Nobody needs to when the program ends.            *)
BufferComes == attached # {} \/ main \in {"stop_feed", "reset", "append"} \/ Ended

FeedGoesOn == stream = "waiting" => queue = 0 /\ BufferComes

(* The thread may be about to wait as well.                                *)
WakeInv ==
  /\ stream = "waiting" => queue = 0
  /\ stream \in {"check", "waiting"} /\ queue = 0 => BufferComes

LEMMA WakeStep == IInv /\ WakeInv /\ [Next]_vars => WakeInv'
<1> SUFFICES ASSUME IInv, WakeInv, [Next]_vars PROVE WakeInv'
  OBVIOUS
<1> USE AppSrcAssumption DEF IInv, TypeOK, MainPC, StreamPC, ProtocolInv, WakeInv, BufferComes, Ended
(* A non-zero id is that of an attached source, or stop_feed resets it.    *)
<1>1. CASE NeedData
  BY <1>1 DEF NeedData
<1>2. CASE StartFeedAdd \/ StartFeedStore
  BY <1>2 DEF StartFeedAdd, StartFeedStore
<1>3. CASE CheckQueue \/ StreamStops
  BY <1>3 DEF CheckQueue, StreamStops
<1>4. CASE SourceSetup \/ error_cb \/ Teardown
  BY <1>4 DEF SourceSetup, error_cb, Teardown
<1>5. CASE PushData \/ PushDataRest
  BY <1>5 DEF PushData, PushDataRest, Enqueue
<1>6. CASE PushDataFull \/ StopFeed \/ StopFeedReset
  BY <1>6 DEF PushDataFull, StopFeed, StopFeedReset
<1>7. CASE Pop
  BY <1>7 DEF Pop
<1>8. CASE UNCHANGED vars
  BY <1>8 DEF vars
<1> QED
  BY <1>1, <1>2, <1>3, <1>4, <1>5, <1>6, <1>7, <1>8 DEF Next, MainStep, StreamStep

(* No wake-up is lost: whenever the streaming thread waits for a buffer    *)
(* the queue is empty, and push_data is attached or has one in hand unless *)
(* the program is ending, though start_feed and stop_feed test and change  *)
(* source_id without a lock.                                               *)
THEOREM FeedNeverStuck == Spec => []FeedGoesOn
<1>1. Init => WakeInv
  BY DEF Init, WakeInv
<1>2. WakeInv => FeedGoesOn
  BY DEF WakeInv, FeedGoesOn
<1> QED
  BY AlwaysIInv, WakeStep, <1>1, <1>2, PTL DEF Spec
=============================================================================

--------------------------- MODULE ServiceProofs ---------------------------
(***************************************************************************)
(* The server and a viewer together, for any number of clients and         *)
(* workers: the server is the one of RegistryProofs, which the viewer does *)
(* not touch, and the viewer's invariant does not depend on the server.    *)
(***************************************************************************)
EXTENDS StreamingService, RegistryProofs

(* References to the session by phase of the main thread: the creator's,   *)
(* the closures', and what is left of them.  rtpbin is never finalized,    *)
(* since the session, which its closures keep, refers to it.               *)
SessionInv ==
  /\ client \in {"bind", "sleep", "make"} => num_ref = 0 /\ closures = {}
  /\ client = "connect" => num_ref = 1 /\ closures = {}
  /\ client \in {"link", "unref"} => num_ref = 3
  /\ client \in {"run", "teardown", "done", "aborted"} => num_ref = 2
  /\ client \in {"link", "unref", "run", "teardown", "aborted"} => "session" \in rtp_bin_refs
  /\ client \in {"make", "connect", "link", "unref", "run", "teardown", "aborted"}
       => "pipeline" \in rtp_bin_refs

(* Streaming threads are in a handler only while the main loop runs and    *)
(* until the pipeline has gone to NULL.                                    *)
HandlerInv ==
  \A w \in Workers :
    MyViewer!InHandler(w) => client \in {"run", "teardown", "aborted"}

ViewerInv == MyViewer!TypeOK /\ SessionInv /\ HandlerInv

(* What the actions of the viewer are in the service.                      *)
ViewerAction ==
  \/ MyViewer!Next
  \/ UNCHANGED viewerVars

-----------------------------------------------------------------------------
LEMMA ServerKept == ServiceSpec => Spec
<1>1. ServiceInit => Init
  BY DEF ServiceInit
<1>2. [ServiceNext]_serviceVars => [Next]_vars
  BY DEF ServiceNext, serviceVars, BindCall, ViewerStep, Arrive, RtpHandlers
<1> QED BY <1>1, <1>2, PTL DEF ServiceSpec, Spec

LEMMA ViewerSteps == [ServiceNext]_serviceVars => ViewerAction
BY DEF ServiceNext, serviceVars, viewerVars, BindCall, ViewerStep, Arrive, RtpHandlers,
       ViewerAction, MyViewer!Next, MyViewer!ClientStep, MyViewer!RtpStep

LEMMA TwoSignals == MyViewer!Cardinality(MyViewer!Signals) = 2
<1>1. IsFiniteSet({}) /\ Cardinality({}) = 0
  BY FS_EmptySet
<1>2. IsFiniteSet({"pad-added"}) /\ Cardinality({"pad-added"}) = 1
  BY FS_Singleton
<1>3. {"pad-added"} \cup {"request-pt-map"} = MyViewer!Signals
  BY DEF MyViewer!Signals
<1>4. "request-pt-map" \notin {"pad-added"}
  OBVIOUS
<1>5. Cardinality({"pad-added"} \cup {"request-pt-map"}) = 1 + 1
  BY <1>2, <1>4, FS_AddElement
<1>6. MyViewer!Cardinality(MyViewer!Signals) = Cardinality(MyViewer!Signals)
  BY DEF MyViewer!Cardinality, Cardinality
<1> QED BY <1>3, <1>5, <1>6

LEMMA InitViewer == MyViewer!Init => ViewerInv
<1> SUFFICES ASSUME MyViewer!Init PROVE ViewerInv
  OBVIOUS
<1> USE DEF MyViewer!Init
<1>1. MyViewer!TypeOK
  <2>1. rtp \in [Workers -> MyViewer!RtpPC]
    BY DEF MyViewer!RtpPC
  <2>2. closures \subseteq MyViewer!Signals /\ rtp_bin_refs \subseteq {"pipeline", "session"}
    OBVIOUS
  <2>3. client \in MyViewer!ClientPC /\ num_ref \in 0 .. 3
    BY DEF MyViewer!ClientPC
  <2>4. linked \in Workers \cup {None}
    OBVIOUS
  <2>5. port_known \in BOOLEAN /\ in_pipeline \in BOOLEAN
    OBVIOUS
  <2> QED BY ONLY <2>1, <2>2, <2>3, <2>4, <2>5 DEF MyViewer!TypeOK
<1>2. SessionInv
  BY DEF SessionInv
<1>3. HandlerInv
  BY DEF HandlerInv, MyViewer!InHandler
<1> QED BY <1>1, <1>2, <1>3 DEF ViewerInv

(* One step per action of the main thread.                                 *)
LEMMA MainStepViewer ==
  ASSUME ViewerInv, MyViewer!ClientStep \/ MyViewer!LoopQuits
  PROVE  ViewerInv'
<1> USE DEF ViewerInv, MyViewer!TypeOK, MyViewer!ClientPC, MyViewer!RtpPC,
            SessionInv, HandlerInv, MyViewer!InHandler,
            MyViewer!objectVars, MyViewer!linkVars
<1>1. ASSUME NEW ok \in BOOLEAN, MyViewer!bind_request(ok) PROVE ViewerInv'
  BY <1>1 DEF MyViewer!bind_request
<1>2. CASE MyViewer!NewViewer
  BY <1>2 DEF MyViewer!NewViewer
<1>3. CASE MyViewer!make_video_session
  BY <1>3 DEF MyViewer!make_video_session
<1>4. CASE MyViewer!ConnectSignals
  <2>1. num_ref = 1 /\ num_ref' = num_ref + MyViewer!Cardinality(MyViewer!Signals)
    BY <1>4 DEF MyViewer!ConnectSignals
  <2>2. num_ref' = 3
    BY <2>1, TwoSignals
  <2> QED BY <1>4, <2>2 DEF MyViewer!ConnectSignals
<1>5. CASE MyViewer!LinkRtpPads
  BY <1>5 DEF MyViewer!LinkRtpPads, MyViewer!HasTargetPrefix
<1>6. CASE MyViewer!UnrefAndRun
  BY <1>6 DEF MyViewer!UnrefAndRun
<1>7. CASE MyViewer!LoopQuits
  BY <1>7 DEF MyViewer!LoopQuits
<1>8. CASE MyViewer!Teardown
  BY <1>8 DEF MyViewer!Teardown
<1> QED BY <1>1, <1>2, <1>3, <1>4, <1>5, <1>6, <1>7, <1>8 DEF MyViewer!ClientStep

(* One step per action of a streaming thread.                              *)
LEMMA RtpStepViewer ==
  ASSUME ViewerInv, NEW w \in Workers, MyViewer!RtpStep(w)
  PROVE  ViewerInv'
<1> USE DEF ViewerInv, MyViewer!TypeOK, MyViewer!ClientPC, MyViewer!RtpPC,
            SessionInv, HandlerInv, MyViewer!InHandler,
            MyViewer!objectVars, MyViewer!RtpAt
<1>1. CASE MyViewer!FirstPacket(w)
  BY <1>1 DEF MyViewer!FirstPacket, MyViewer!linkVars
<1>2. CASE MyViewer!request_pt_map(w)
  BY <1>2 DEF MyViewer!request_pt_map, MyViewer!linkVars
<1>3. CASE MyViewer!AddSessionBin(w)
  BY <1>3 DEF MyViewer!AddSessionBin
<1>4. CASE MyViewer!LinkPad(w)
  BY <1>4 DEF MyViewer!LinkPad
<1> QED BY <1>1, <1>2, <1>3, <1>4 DEF MyViewer!RtpStep

LEMMA ViewerInvariant == ServiceSpec => []ViewerInv
<1>1. ServiceInit => ViewerInv
  BY InitViewer DEF ServiceInit
<1>2. ViewerInv /\ [ServiceNext]_serviceVars => ViewerInv'
  <2> SUFFICES ASSUME ViewerInv, [ServiceNext]_serviceVars PROVE ViewerInv'
    OBVIOUS
  <2>1. CASE MyViewer!Next
    BY <2>1, MainStepViewer, RtpStepViewer DEF MyViewer!Next
  <2>2. CASE UNCHANGED viewerVars
    BY <2>2 DEF viewerVars, ViewerInv, MyViewer!TypeOK, SessionInv, HandlerInv,
                MyViewer!InHandler
  <2> QED BY <2>1, <2>2, ViewerSteps DEF ViewerAction
<1> QED BY <1>1, <1>2, PTL DEF ServiceSpec

-----------------------------------------------------------------------------
(* Every variable of the server and of the viewer keeps its type, also     *)
(* with overlapping bind calls.                                            *)
THEOREM ServiceTypes == ServiceSpec => []ServiceTypeOK
<1>1. ViewerInv => MyViewer!TypeOK
  BY DEF ViewerInv
<1> QED BY ViewerInvariant, ServerKept, TypeCorrect, <1>1, PTL DEF ServiceTypeOK

(* A handler of rtpbin that follows the pointer to the session finds it    *)
(* referenced, though its creator has given it up.                         *)
THEOREM SessionIsAlive == ServiceSpec => []SessionOutlivesHandlers
<1>1. ViewerInv => SessionOutlivesHandlers
  BY DEF ViewerInv, SessionInv, HandlerInv, SessionOutlivesHandlers, MyViewer!SessionAlive
<1> QED BY ViewerInvariant, <1>1, PTL

(* A handler that adds the session's bin finds rtpbin inside its pipeline. *)
THEOREM PipelineIsAlive == ServiceSpec => []PipelineOutlivesHandlers
<1>1. ViewerInv => PipelineOutlivesHandlers
  BY DEF ViewerInv, SessionInv, HandlerInv, MyViewer!InHandler, PipelineOutlivesHandlers,
         MyViewer!HandlersFindPipeline
<1> QED BY ViewerInvariant, <1>1, PTL
-----------------------------------------------------------------------------
(* With a single handler no two services share a port, a worker that runs  *)
(* a stream has one, and a sender whose packets have come in streams for   *)
(* Me and goes on doing so: streams do not end.                            *)
PortsDistinct == \A s, t \in Registered : s.port = t.port => s = t
RunInv == \A w \in Workers : wpc[w] = "run" => stream[w] # None
TalkInv ==
  \A w \in Workers : rtp[w] # "silent" => wpc[w] = "run" /\ stream[w].client = Me

LEMMA DistinctStep ==
  ASSUME IsFiniteSet(Clients), NEW h, Handlers = {h},
         TypeInv, TypeInv', CopyInv, OnceInv, SerialInv, PortsDistinct, [Next]_vars
  PROVE  PortsDistinct'
<1>1. [Registry!Next]_<<Registered, bound>>
  BY RegistryStep
<1>2. CASE Registered' = Registered
  BY <1>2 DEF PortsDistinct
<1>3. ASSUME NEW s \in Registry!Service, Registry!Register(s)
      PROVE  PortsDistinct'
  <2>1. Registered' = Registered \cup {s}
    BY <1>3 DEF Registry!Register
  <2>2. s \in BindInfo
    <3>1. PICK k \in DOMAIN service_table' :
            s = [client |-> service_table'[k].client, port |-> service_table'[k].port]
      BY <2>1 DEF Registered
    <3>2. service_table'[k] \in ServiceInfo
      BY DEF TypeInv, TypeOK, BinderTypeOK
    <3> QED BY <3>1, <3>2 DEF ServiceInfo, BindInfo
  <2>3. ASSUME NEW t \in Registered PROVE t.port # s.port
    <3>1. Registry!Block(t.port) \cap Registry!Block(s.port) = {}
      BY <1>3 DEF Registry!Register
    <3>2. s.port \in Registry!Block(s.port)
      BY <2>2 DEF Registry!Block, BindInfo
    <3> QED BY <3>1, <3>2
  <2> QED BY <2>1, <2>3 DEF PortsDistinct
<1> QED BY <1>1, <1>2, <1>3 DEF Registry!Next, Registry!Answer

LEMMA RunStep ==
  ASSUME TypeInv, RunInv, [Next]_vars
  PROVE  /\ RunInv'
         /\ \A w \in Workers : wpc[w] = "run" => wpc'[w] = "run" /\ stream'[w] = stream[w]
<1> USE ServerAssumption, ServiceAssumption
        DEF RunInv, TypeInv, TypeOK, Goto, workerVars
<1>1. CASE BinderNext /\ UNCHANGED workerVars
  BY <1>1
<1>2. ASSUME NEW w \in Workers, WorkerStep(w), ~CreateStreamer(w)
      PROVE  /\ stream' = stream /\ wpc'[w] # "run" /\ wpc[w] # "run"
             /\ \A v \in Workers \ {w} : wpc'[v] = wpc[v]
  BY <1>2 DEF WorkerStep, NextRound, SkipActivated, SpotNonActivated, LockTable, LoseRace,
              WinRace, SetActivated, TakeInfo
<1>3. ASSUME NEW w \in Workers, CreateStreamer(w)
      PROVE  /\ stream' = [stream EXCEPT ![w] = Pointee(w)] /\ wpc[w] # "run"
             /\ \A v \in Workers \ {w} : wpc'[v] = wpc[v]
             /\ Pointee(w) # None
  <2>1. i[w] \in DOMAIN service_table => service_table[i[w]] \in ServiceInfo
    BY DEF BinderTypeOK
  <2>2. Pointee(w) \in BindInfo \cup {Stray}
    BY <2>1 DEF Pointee, ServiceInfo, BindInfo
  <2> QED BY <1>3, <2>2 DEF CreateStreamer
<1>4. CASE UNCHANGED vars
  BY <1>4 DEF vars
<1>5. ~ \E w \in Workers : StreamerEnds(w)
  BY DEF StreamerEnds
<1>6. CASE \E w \in Workers : CreateStreamer(w)
  BY <1>3, <1>6
<1>7. CASE \E w \in Workers : WorkerStep(w) /\ ~CreateStreamer(w)
  BY <1>2, <1>7
<1> QED BY <1>1, <1>4, <1>5, <1>6, <1>7 DEF Next

(* What makes the packets of a worker reach Me: its stream goes to a port  *)
(* that was told to Me, and to nobody else.                                *)
LEMMA ArrivesFromMine ==
  ASSUME TypeInv, SerialInv, PortsDistinct, RunInv, NEW w \in Workers, Arrive(w)
  PROVE  wpc[w] = "run" /\ stream[w].client = Me
<1>1. wpc[w] = "run" /\ stream[w] \in Registered
  BY DEF Arrive, RunInv, SerialInv, StreamsOK
<1>2. PICK b \in bound : b.client = Me /\ b.port = stream[w].port
  BY DEF Arrive, MyPorts
<1>3. b = stream[w]
  BY <1>1, <1>2 DEF SerialInv, RegisteredOK, PortsDistinct
<1> QED BY <1>1, <1>2, <1>3

LEMMA TalkStep ==
  ASSUME TypeInv, SerialInv, PortsDistinct, RunInv, ViewerInv, TalkInv,
         [ServiceNext]_serviceVars
  PROVE  TalkInv'
<1> USE DEF TalkInv, ViewerInv, MyViewer!TypeOK
<1>1. [Next]_vars
  BY DEF ServiceNext, serviceVars, BindCall, ViewerStep, Arrive, RtpHandlers
<1>2. CASE rtp' = rtp
  BY <1>1, <1>2, RunStep
<1>3. ASSUME NEW w \in Workers, Arrive(w), UNCHANGED vars PROVE TalkInv'
  <2>1. \A v \in Workers \ {w} : rtp'[v] = rtp[v]
    BY <1>3 DEF Arrive, MyViewer!FirstPacket, MyViewer!RtpAt
  <2> QED BY <1>3, <2>1, ArrivesFromMine DEF vars, workerVars
<1>4. ASSUME NEW w \in Workers, RtpHandlers(w), UNCHANGED vars PROVE TalkInv'
  <2>1. rtp[w] # "silent" /\ \A v \in Workers \ {w} : rtp'[v] = rtp[v]
    BY <1>4 DEF RtpHandlers, MyViewer!request_pt_map, MyViewer!AddSessionBin,
                MyViewer!LinkPad, MyViewer!RtpAt
  <2> QED BY <1>4, <2>1 DEF vars, workerVars
<1>5. CASE BindCall \/ ViewerStep \/ MyViewer!LoopQuits
  <2>1. rtp' = rtp
    BY <1>5 DEF BindCall, ViewerStep, MyViewer!LoopQuits, MyViewer!bind_request,
                MyViewer!NewViewer, MyViewer!make_video_session, MyViewer!ConnectSignals,
                MyViewer!LinkRtpPads, MyViewer!UnrefAndRun, MyViewer!Teardown
  <2> QED BY <1>2, <2>1
<1> QED BY <1>2, <1>3, <1>4, <1>5 DEF ServiceNext, serviceVars, viewerVars

(* With a single handler what reaches the viewer of Me was bound by Me.    *)
THEOREM NobodyElsesStream ==
  ASSUME IsFiniteSet(Clients), NEW CONSTANT h, Handlers = {h}
  PROVE  ServiceSpec => []NoCrossTalk
<1> DEFINE ServerInv == TypeInv /\ CopyInv /\ OnceInv /\ SerialInv
           Inv == PortsDistinct /\ RunInv /\ TalkInv
<1>1. ServiceInit => Inv
  BY DEF ServiceInit, Init, BinderInit, MyViewer!Init, PortsDistinct, Registered, RunInv,
         TalkInv
<1>2. ServiceSpec => []ServerInv
  BY ServerKept, SerialInvariant, PTL
<1>3. Inv /\ ServerInv /\ ServerInv' /\ ViewerInv /\ [ServiceNext]_serviceVars => Inv'
  <2> SUFFICES ASSUME Inv, ServerInv, ServerInv', ViewerInv, [ServiceNext]_serviceVars
               PROVE  Inv'
    OBVIOUS
  <2>1. [Next]_vars
    BY DEF ServiceNext, serviceVars, BindCall, ViewerStep, Arrive, RtpHandlers
  <2> QED BY <2>1, DistinctStep, RunStep, TalkStep
<1>4. Inv => NoCrossTalk
  BY DEF TalkInv, NoCrossTalk
<1> QED BY <1>1, <1>2, <1>3, <1>4, ViewerInvariant, PTL DEF ServiceSpec
=============================================================================

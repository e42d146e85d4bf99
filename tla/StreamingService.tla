-------------------------- MODULE StreamingService --------------------------
(***************************************************************************)
(* The server and the viewer of one of its clients, Me.  The bind call of  *)
(* Me is a call of Server; the viewer learns the port from the reply; the  *)
(* senders of the viewer are the server's workers whose stream goes to     *)
(* that port.  All programs run on one machine with the address 0.0.0.0,   *)
(* as ex_server and ex_client do, so the port alone decides who receives.  *)
(***************************************************************************)
EXTENDS Server

CONSTANT Me

ASSUME ServiceAssumption == Me \in Clients /\ None \notin Workers /\ ~StreamsFail

VARIABLES client, port_known, num_ref, closures, rtp_bin_refs, in_pipeline, linked, rtp

viewerVars  == <<client, port_known, num_ref, closures, rtp_bin_refs, in_pipeline, linked, rtp>>
serviceVars == <<vars, viewerVars>>

MyViewer == INSTANCE Viewer WITH Senders <- Workers

ServiceInit == Init /\ MyViewer!Init

MyPorts == {b.port : b \in {x \in bound : x.client = Me}}

(* The reply has arrived, or the call has failed.                          *)
BindCall ==
  \/ MyPorts # {} /\ MyViewer!bind_request(TRUE)
  \/ MyViewer!bind_request(FALSE)

ViewerStep ==
  \/ MyViewer!NewViewer \/ MyViewer!make_video_session \/ MyViewer!ConnectSignals
  \/ MyViewer!LinkRtpPads \/ MyViewer!UnrefAndRun \/ MyViewer!Teardown

(* Packets of worker w come in on the port of Me.                          *)
Arrive(w) ==
  /\ wpc[w] = "run" /\ stream[w] # Stray
  /\ stream[w].port \in MyPorts
  /\ MyViewer!FirstPacket(w)

RtpHandlers(w) ==
  MyViewer!request_pt_map(w) \/ MyViewer!AddSessionBin(w) \/ MyViewer!LinkPad(w)

ServiceNext ==
  \/ Next /\ UNCHANGED viewerVars
  \/ /\ \/ BindCall \/ ViewerStep \/ MyViewer!LoopQuits
        \/ \E w \in Workers : Arrive(w) \/ RtpHandlers(w)
     /\ UNCHANGED vars

ServiceSpec == ServiceInit /\ [][ServiceNext]_serviceVars

(* As in Server and Viewer: every thread runs; nobody has to call, and no  *)
(* loop has to quit.  Of the threads that bring packets to the viewer it   *)
(* is enough that they do not all stand still.                             *)
FairServiceSpec ==
  /\ ServiceSpec
  /\ \A h \in Handlers : WF_callVars(BindStep(h))
  /\ \A w \in Workers : WF_workerVars(WorkerStep(w))
  /\ WF_viewerVars(ViewerStep)
  /\ WF_viewerVars(\E w \in Workers : Arrive(w) \/ RtpHandlers(w))

-----------------------------------------------------------------------------
(* What reaches the viewer of Me was bound by Me: no other client's stream *)
(* is shown there (when bind calls do not overlap).                        *)
NoCrossTalk ==
  \A w \in Workers : rtp[w] # "silent" => stream[w].client = Me

(* Every variable of the server and of the viewer keeps its type.          *)
ServiceTypeOK == TypeOK /\ MyViewer!TypeOK

(* The handlers of the viewer find the session, which its creator has      *)
(* given up, and the pipeline, which its destructor takes down, alive.     *)
SessionOutlivesHandlers == MyViewer!SessionAlive
PipelineOutlivesHandlers == MyViewer!HandlersFindPipeline

(* viewer.hpp:50 asserts that the pad of a new stream can be linked to the *)
(* session's bin, that is, that one stream only reaches a viewer.          *)
ViewerAssertion == MyViewer!AssertionHolds

(* A client whose bind succeeded sees its stream, unless an error ends its *)
(* viewer, every worker streams for others, or the worker that took the    *)
(* client's entry streams from a freed copy of it: the entry is marked, so *)
(* that other workers need never look at it again, idle as they may be.    *)
SentElsewhere(w) == wpc[w] = "run" /\ (stream[w] = Stray \/ stream[w].client # Me)
Misread(w) ==
  wpc[w] = "run" /\ stream[w] = Stray /\ service_table[i[w]].client = Me
ClientIsServed ==
  client = "sleep" /\ port_known ~>
    \/ linked # None
    \/ client \in {"teardown", "done"}
    \/ \A w \in Workers : SentElsewhere(w)
    \/ \E w \in Workers : Misread(w)
=============================================================================

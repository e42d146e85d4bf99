------------------------------- MODULE Viewer -------------------------------
(***************************************************************************)
(* The client: ex_client.cpp binds, sleeps, builds a Viewer, connects the  *)
(* signals of rtpbin with references to the stream session, links and runs *)
(* until an error quits its main loop.  For every sender whose packets     *)
(* arrive rtpbin asks for the payload-type map and adds a pad, each sender *)
(* on a streaming thread of its own.                                       *)
(*                                                                         *)
(* rtpbin is external: it emits pad-added for the request pads as well, on *)
(* the thread that links them; a pad that is linked cannot be linked again;*)
(* going to NULL waits for the streaming threads.  References to GObjects  *)
(* are named by who holds them.  Elements, caps and ports are left out.    *)
(***************************************************************************)
EXTENDS Naturals, FiniteSets

CONSTANTS Senders,  \* those that send to the port of this client
          None

VARIABLES
  client,        \* where ex_client's main thread is
  port_known,    \* bind succeeded and bind_info holds a port
  num_ref,       \* of the stream session; it is freed at 0
  closures,      \* signals whose closure holds a reference to the session
  rtp_bin_refs,  \* holders of a reference to rtpbin
  in_pipeline,   \* session->bin has been added to the pipeline
  linked,        \* the sender whose pad is linked to session->bin
  rtp            \* where the streaming thread of each sender is

vars == <<client, port_known, num_ref, closures, rtp_bin_refs, in_pipeline, linked, rtp>>
objectVars == <<num_ref, closures, rtp_bin_refs>>
linkVars   == <<in_pipeline, linked>>

Signals  == {"pad-added", "request-pt-map"}
ClientPC == {"bind", "sleep", "make", "connect", "link", "unref", "run",
             "teardown", "done", "aborted"}
RtpPC    == {"silent", "pt_map", "add", "link", "shown"}

TypeOK ==
  /\ client \in ClientPC
  /\ port_known \in BOOLEAN
  /\ num_ref \in 0 .. 3
  /\ closures \subseteq Signals
  /\ rtp_bin_refs \subseteq {"pipeline", "session"}
  /\ in_pipeline \in BOOLEAN
  /\ linked \in Senders \cup {None}
  /\ rtp \in [Senders -> RtpPC]

Init ==
  /\ client = "bind"
  /\ port_known = FALSE
  /\ num_ref = 0
  /\ closures = {}
  /\ rtp_bin_refs = {}
  /\ in_pipeline = FALSE
  /\ linked = None
  /\ rtp = [s \in Senders |-> "silent"]

-----------------------------------------------------------------------------
(* bind_request: when the call fails bind_info stays empty and the client  *)
(* goes on all the same.                                                   *)
bind_request(ok) ==
  /\ client = "bind"
  /\ port_known' = ok
  /\ client' = "sleep"
  /\ UNCHANGED <<objectVars, linkVars, rtp>>

(* Two seconds later the Viewer makes its pipeline and rtpbin.             *)
NewViewer ==
  /\ client = "sleep"
  /\ rtp_bin_refs' = {"pipeline"}
  /\ client' = "make"
  /\ UNCHANGED <<port_known, num_ref, closures, linkVars, rtp>>

(* The session is created with one reference, the creator's.               *)
make_video_session ==
  /\ client = "make"
  /\ num_ref' = 1
  /\ client' = "connect"
  /\ UNCHANGED <<port_known, closures, rtp_bin_refs, linkVars, rtp>>

(* Mutated form: the session is given to the closures without a reference. *)
ConnectUnreferenced ==
  /\ client = "connect"
  /\ rtp_bin_refs' = rtp_bin_refs \cup {"session"}
  /\ UNCHANGED <<closures, num_ref>>
  /\ client' = "link"
  /\ UNCHANGED <<port_known, linkVars, rtp>>
(* The session refers to rtpbin, and two closures of rtpbin to the session.*)
(* (request-aux-receiver gets the pointer as well and never follows it.)   *)
ConnectSignals ==
  /\ client = "connect"
  /\ rtp_bin_refs' = rtp_bin_refs \cup {"session"}
  /\ closures' = Signals
  /\ num_ref' = num_ref + Cardinality(Signals)
  /\ client' = "link"
  /\ UNCHANGED <<port_known, linkVars, rtp>>

(* Mutated form: any pad of rtpbin is taken for a stream.                  *)
HasTargetPrefixAny(pad) == TRUE
(* The pads of the session are told apart by the prefix of their names.    *)
HasTargetPrefix(pad) == pad = "recv_rtp_src"

(* Linking creates three request pads; rtp_pad_added_handler sees each, on *)
(* this thread.  Were one taken for a stream, linking it would fail.       *)
LinkRtpPads ==
  /\ client = "link"
  /\ client' = IF \E pad \in {"recv_rtp_sink", "recv_rtcp_sink", "send_rtcp_src"} :
                    HasTargetPrefix(pad)
               THEN "aborted" ELSE "unref"
  /\ UNCHANGED <<port_known, objectVars, linkVars, rtp>>

(* Mutated form: stream_session_ref in place of stream_session_unref.      *)
RefAndRun ==
  /\ client = "unref"
  /\ num_ref' = num_ref + 1
  /\ client' = "run"
  /\ UNCHANGED <<port_known, closures, rtp_bin_refs, linkVars, rtp>>
(* The creator gives up its reference, and the loop runs.                  *)
UnrefAndRun ==
  /\ client = "unref"
  /\ num_ref' = num_ref - 1
  /\ client' = "run"
  /\ UNCHANGED <<port_known, closures, rtp_bin_refs, linkVars, rtp>>

(* cb_error quits the loop and ~Viewer sets the pipeline to NULL ...       *)
LoopQuits ==
  /\ client = "run"
  /\ client' = "teardown"
  /\ UNCHANGED <<port_known, objectVars, linkVars, rtp>>

(* Mutated form: the pipeline is let go without going to NULL first.       *)
TeardownAtOnce ==
  /\ client = "teardown"
  /\ rtp_bin_refs' = rtp_bin_refs \ {"pipeline"}
  /\ client' = "done"
  /\ UNCHANGED <<port_known, num_ref, closures, linkVars, rtp>>
(* ... which waits for the handlers, and lets the pipeline go.  rtpbin is  *)
(* finalized, and its closures with it, only without other references.     *)
Teardown ==
  /\ client = "teardown"
  /\ \A s \in Senders : rtp[s] \in {"silent", "shown"}
  /\ rtp_bin_refs' = rtp_bin_refs \ {"pipeline"}
  /\ closures' = IF rtp_bin_refs' = {} THEN {} ELSE closures
  /\ num_ref' = IF rtp_bin_refs' = {} THEN num_ref - Cardinality(closures) ELSE num_ref
  /\ client' = "done"
  /\ UNCHANGED <<port_known, linkVars, rtp>>

ClientStep ==
  \/ \E ok \in BOOLEAN : bind_request(ok)
  \/ NewViewer \/ make_video_session \/ ConnectSignals \/ LinkRtpPads \/ UnrefAndRun
  \/ Teardown

-----------------------------------------------------------------------------
(* The streaming thread of sender s.                                       *)

RtpAt(s, pc) == rtp' = [rtp EXCEPT ![s] = pc]

(* The first packet that finds the udpsrc bound; earlier ones are lost.    *)
FirstPacket(s) ==
  /\ client = "run" /\ port_known
  /\ rtp[s] = "silent"
  /\ RtpAt(s, "pt_map")
  /\ UNCHANGED <<client, port_known, objectVars, linkVars>>

(* The only session has id 0 on both sides: the caps are found.            *)
request_pt_map(s) ==
  /\ rtp[s] = "pt_map" /\ client # "aborted"
  /\ RtpAt(s, "add")
  /\ UNCHANGED <<client, port_known, objectVars, linkVars>>

(* rtp_pad_added_handler adds the bin to the parent of rtpbin, which fails *)
(* without consequence when another sender's handler has done it, ...      *)
AddSessionBin(s) ==
  /\ rtp[s] = "add" /\ client # "aborted"
  /\ HasTargetPrefix("recv_rtp_src")
  /\ in_pipeline' = TRUE
  /\ RtpAt(s, "link")
  /\ UNCHANGED <<client, port_known, objectVars, linked>>

(* ... and links the pad, asserting that this succeeds.                    *)
LinkPad(s) ==
  /\ rtp[s] = "link" /\ client # "aborted"
  /\ linked' = IF linked = None THEN s ELSE linked
  /\ client' = IF linked = None THEN client ELSE "aborted"
  /\ RtpAt(s, "shown")
  /\ UNCHANGED <<port_known, objectVars, in_pipeline>>

RtpStep(s) == FirstPacket(s) \/ request_pt_map(s) \/ AddSessionBin(s) \/ LinkPad(s)

Next == ClientStep \/ LoopQuits \/ \E s \in Senders : RtpStep(s)

Spec == Init /\ [][Next]_vars

-----------------------------------------------------------------------------
(* rtp_pad_added_handler and request_pt_map never follow a pointer to a    *)
(* freed session, though its creator has given it up.                      *)
InHandler(s) == rtp[s] \in {"pt_map", "add", "link"}
SessionAlive ==
  (client = "link" \/ \E s \in Senders : InHandler(s)) => num_ref > 0

(* rtp_pad_added_handler finds rtpbin inside a pipeline to add the bin to. *)
HandlersFindPipeline ==
  \A s \in Senders : rtp[s] \in {"add", "link"} => "pipeline" \in rtp_bin_refs

(* With one sender on the port the assertion of rtp_pad_added_handler      *)
(* (viewer.hpp:50) holds.                                                  *)
AssertionHolds == client # "aborted"
=============================================================================

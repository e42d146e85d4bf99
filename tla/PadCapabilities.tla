--------------------------- MODULE PadCapabilities ---------------------------
(***************************************************************************)
(* pad_capabilities.c: the main thread prints the caps of the sink's pad   *)
(* under a heading for every state the pipeline reports, the current caps  *)
(* if there are any, else those it would accept, and ends at an error or   *)
(* the end.  The pipeline goes up on threads of its own and reports later, *)
(* its elements on the same bus; caps are negotiated with the first        *)
(* buffer, which the sink needs for PAUSED.                                *)
(***************************************************************************)
EXTENDS Naturals, Sequences

CONSTANT MaxBus   \* bound: messages on the bus

BusAssumption == MaxBus \in Nat

States == <<"NULL", "READY", "PAUSED", "PLAYING">>
Names == {States[n] : n \in DOMAIN States}

VARIABLES
  source, pipeline,   \* index of the state of the source and of the pipeline
  negotiated,         \* the sink's pad has current caps
  unread,             \* messages on the bus
  main,               \* where the main thread is
  printed             \* heading and caps printed last

vars == <<source, pipeline, negotiated, unread, main, printed>>

Messages == [type : {"STATE_CHANGED"}, src : {"source", "pipeline"}, new_state : Names]
            \cup [type : {"ERROR", "EOS"}]

TypeOK ==
  /\ {source, pipeline} \subseteq DOMAIN States
  /\ negotiated \in BOOLEAN
  /\ unread \in Seq(Messages)
  /\ main \in {"start", "loop", "exit"}
  /\ printed \in [heading : Names, caps : {"none", "current", "acceptable"}]

Init ==
  /\ source = 1 /\ pipeline = 1 /\ negotiated = FALSE
  /\ unread = <<>>
  /\ main = "start"
  /\ printed = [heading |-> "NULL", caps |-> "none"]

-----------------------------------------------------------------------------
print_pad_capabilities(heading) ==
  printed' = [heading |-> heading, caps |-> IF negotiated THEN "current" ELSE "acceptable"]

(* The caps in NULL; set_state(PLAYING), whose failure is only printed.    *)
Start ==
  /\ main = "start"
  /\ print_pad_capabilities("NULL")
  /\ main' = "loop"
  /\ UNCHANGED <<source, pipeline, negotiated, unread>>

Running == main = "loop" /\ Len(unread) < MaxBus
Changed(src, n) == [type |-> "STATE_CHANGED", src |-> src, new_state |-> States[n]]

SourceUp ==
  /\ Running /\ source < Len(States)
  /\ source' = source + 1
  /\ unread' = Append(unread, Changed("source", source'))
  /\ UNCHANGED <<pipeline, negotiated, main, printed>>

Negotiate ==
  /\ Running /\ source > 2 /\ pipeline > 1
  /\ negotiated' = TRUE
  /\ UNCHANGED <<source, pipeline, unread, main, printed>>

PipelineUp ==
  /\ Running /\ pipeline < source
  /\ pipeline > 1 => negotiated
  /\ pipeline' = pipeline + 1
  /\ unread' = Append(unread, Changed("pipeline", pipeline'))
  /\ UNCHANGED <<source, negotiated, main, printed>>

PostEnd ==
  /\ Running
  /\ \E type \in {"ERROR", "EOS"} : unread' = Append(unread, [type |-> type])
  /\ UNCHANGED <<source, pipeline, negotiated, main, printed>>

-----------------------------------------------------------------------------
(* Mutated form: states of every element are reported.                     *)
ReportedAny(msg) == msg.type = "STATE_CHANGED"
Reported(msg) == msg.type = "STATE_CHANGED" /\ msg.src = "pipeline"

(* One turn of the message loop; the teardown after the last.              *)
HandleMessage ==
  /\ main = "loop" /\ unread # <<>>
  /\ LET msg == Head(unread)
     IN /\ main' = IF msg.type \in {"ERROR", "EOS"} THEN "exit" ELSE "loop"
        /\ IF Reported(msg) THEN print_pad_capabilities(msg.new_state) ELSE UNCHANGED printed
  /\ unread' = Tail(unread)
  /\ UNCHANGED <<source, pipeline, negotiated>>

MainStep == Start \/ HandleMessage
Next == MainStep \/ SourceUp \/ Negotiate \/ PipelineUp \/ PostEnd
Spec == Init /\ [][Next]_vars

-----------------------------------------------------------------------------
(* What is printed under PAUSED and PLAYING are the caps the pipeline      *)
(* plays with, however far it was ahead of or behind its messages.         *)
CapsNegotiated == printed.heading \in {"PAUSED", "PLAYING"} => printed.caps = "current"

FailureEnds ==
  main = "loop" /\ (\E k \in DOMAIN unread : unread[k].type # "STATE_CHANGED") ~> main = "exit"
=============================================================================

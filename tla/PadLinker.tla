------------------------------ MODULE PadLinker ------------------------------
(***************************************************************************)
(* dynamic_pipeline.c and transcoder.c: uridecodebin adds its pads while   *)
(* the pipeline starts, each on the streaming thread that found it, and    *)
(* pad_added_handler links a raw audio or video pad to the sink pad of     *)
(* audioconvert, or of videoconvert (videoscale in transcoder.c), unless   *)
(* that one is linked already.  The main thread waits on the bus for an    *)
(* error or the end, and takes the pipeline down.                          *)
(*                                                                         *)
(* External: gst_pad_link refuses a sink pad that is linked or caps the    *)
(* sink cannot take; NULL waits for the streaming threads and unlinks.     *)
(* Printing, and the reference a handler takes on the sink pad, are left   *)
(* out.                                                                    *)
(***************************************************************************)
EXTENDS Naturals, Sequences

CONSTANTS Pads,      \* that uridecodebin may add
          NoPad,
          MaxBus     \* bound: messages on the bus

PadAssumption == NoPad \notin Pads /\ MaxBus \in Nat

Sinks == {"audio", "video"}
Kinds == Sinks \cup {"other", "no caps"}   \* what the caps of a pad say
MainPC == {"start", "loop", "null", "exit"}
Messages == {"ERROR", "EOS", "STATE_CHANGED"}

VARIABLES
  handler,   \* where pad_added_handler is, for each pad
  kind,      \* caps of each pad
  linked,    \* the pad each sink pad is linked to
  refused,   \* pads that gst_pad_link refused for their caps
  main,      \* where the main thread is
  bus

vars == <<handler, kind, linked, refused, main, bus>>

TypeOK ==
  /\ handler \in [Pads -> {"none", "link", "done"}]
  /\ kind \in [Pads -> Kinds]
  /\ linked \in [Sinks -> Pads \cup {NoPad}]
  /\ refused \in SUBSET Pads
  /\ main \in MainPC
  /\ bus \in Seq(Messages)

Init ==
  /\ handler = [p \in Pads |-> "none"]
  /\ kind = [p \in Pads |-> "no caps"]
  /\ linked = [s \in Sinks |-> NoPad]
  /\ refused = {}
  /\ main = "start"
  /\ bus = <<>>

Goto(p, to) == handler' = [handler EXCEPT ![p] = to]

-----------------------------------------------------------------------------
(* set_state(PLAYING); when it fails the program returns.                  *)
Start ==
  /\ main = "start"
  /\ main' \in {"loop", "exit"}
  /\ UNCHANGED <<handler, kind, linked, refused, bus>>

(* Mutated form: audio's pad is looked at for both.                        *)
IsLinkedAudio(s) == linked["audio"] # NoPad
IsLinked(s) == linked[s] # NoPad

(* The first part of the handler, up to gst_pad_is_linked.                 *)
pad_added_handler(p) ==
  /\ main \in {"loop", "null"} /\ handler[p] = "none"
  /\ \E k \in Kinds :
       /\ kind' = [kind EXCEPT ![p] = k]
       /\ Goto(p, IF k \in Sinks /\ ~IsLinked(k) THEN "link" ELSE "done")
  /\ UNCHANGED <<linked, refused, main, bus>>

(* gst_pad_link, which another thread may have come before.                *)
LinkPad(p) ==
  /\ handler[p] = "link"
  /\ \/ /\ linked[kind[p]] # NoPad
        /\ UNCHANGED <<linked, refused>>
     \/ /\ linked[kind[p]] = NoPad
        /\ linked' = [linked EXCEPT ![kind[p]] = p]
        /\ UNCHANGED refused
     \/ /\ linked[kind[p]] = NoPad
        /\ refused' = refused \cup {p}
        /\ UNCHANGED linked
  /\ Goto(p, "done")
  /\ UNCHANGED <<kind, main, bus>>

Post(m) ==
  /\ main = "loop" /\ Len(bus) < MaxBus
  /\ bus' = Append(bus, m)
  /\ UNCHANGED <<handler, kind, linked, refused, main>>

(* One turn of the message loop.                                           *)
HandleMessage ==
  /\ main = "loop" /\ bus # <<>>
  /\ bus' = Tail(bus)
  /\ main' = IF Head(bus) \in {"ERROR", "EOS"} THEN "null" ELSE "loop"
  /\ UNCHANGED <<handler, kind, linked, refused>>

SetNull ==
  /\ main = "null"
  /\ \A p \in Pads : handler[p] # "link"
  /\ linked' = [s \in Sinks |-> NoPad]
  /\ main' = "exit"
  /\ UNCHANGED <<handler, kind, refused, bus>>

MainStep == Start \/ HandleMessage \/ SetNull

Next ==
  \/ MainStep
  \/ \E p \in Pads : pad_added_handler(p) \/ LinkPad(p)
  \/ \E m \in Messages : Post(m)

Spec == Init /\ [][Next]_vars

-----------------------------------------------------------------------------
(* A sink pad is linked to a pad of its kind, and a raw pad whose handler  *)
(* has returned is left unlinked only if the sink pad has another or the   *)
(* link was refused for its caps, whichever threads came in between the    *)
(* question whether the sink is linked and the link.                       *)
RawPadsPlaced ==
  /\ \A s \in Sinks : linked[s] # NoPad => kind[linked[s]] = s
  /\ main # "exit" =>
       \A p \in Pads :
         handler[p] = "done" /\ kind[p] \in Sinks
           => p \in refused \/ linked[kind[p]] # NoPad

(* After an error or the end the program takes the pipeline down.          *)
FailureEnds ==
  main = "loop" /\ (\E i \in DOMAIN bus : bus[i] # "STATE_CHANGED") ~> main = "exit"
=============================================================================

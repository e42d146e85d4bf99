----------------------------- MODULE RateControl -----------------------------
(***************************************************************************)
(* playback_basic.c: keys change the rate, double it, halve it or turn it  *)
(* around, and every change is sent to the video sink as a seek to where   *)
(* the pipeline is.  The rate is kept as its power of two and its sign.    *)
(*                                                                         *)
(* External: a query may fail, the video sink may not be there yet, which  *)
(* makes the event lost, or may refuse a seek; playing goes on between     *)
(* query and seek.  Nobody watches the bus.                                *)
(***************************************************************************)
EXTENDS Integers

CONSTANTS End,       \* last position in the stream
          MaxSpeed   \* bound: doublings and halvings

RateAssumption == End \in Nat /\ MaxSpeed \in Nat

VARIABLES
  loop,               \* where the main thread is
  playing, rate, video_sink,   \* CustomData
  position,           \* what the query in send_seek_event gave
  applied, at,        \* rate and position of the pipeline
  asked,              \* state asked of the pipeline
  typed, passed       \* history: rate the keys ask for; positions since a key

vars == <<loop, playing, rate, video_sink, position, applied, at, asked, typed, passed>>

Rate == [speed : -MaxSpeed .. MaxSpeed, back : BOOLEAN]
Normal == [speed |-> 0, back |-> FALSE]

TypeOK ==
  /\ loop \in {"start", "idle", "send", "exit"}
  /\ playing \in BOOLEAN
  /\ {rate, applied, typed} \subseteq Rate
  /\ video_sink \in {"NULL", "sink"}
  /\ {position, at} \cup passed \subseteq 0 .. End
  /\ asked \in {"NULL", "PAUSED", "PLAYING"}

Init ==
  /\ loop = "start"
  /\ playing = FALSE /\ rate = Normal /\ video_sink = "NULL"
  /\ position = 0
  /\ applied = Normal /\ at = 0 /\ asked = "NULL"
  /\ typed = Normal /\ passed = {}

-----------------------------------------------------------------------------
Start ==
  /\ loop = "start"
  /\ \/ loop' = "idle" /\ playing' = TRUE /\ asked' = "PLAYING"
     \/ loop' = "exit" /\ UNCHANGED <<playing, asked>>
  /\ UNCHANGED <<rate, video_sink, position, applied, at, typed, passed>>

(* The pipeline plays on.                                                  *)
Play ==
  /\ loop \in {"idle", "send"} /\ asked = "PLAYING"
  /\ at' = IF applied.back THEN at - 1 ELSE at + 1
  /\ at' \in 0 .. End
  /\ passed' = IF loop = "send" THEN passed \cup {at'} ELSE {}
  /\ UNCHANGED <<loop, playing, rate, video_sink, position, applied, asked, typed>>

Changed(r, key) ==
  CASE key = "S" -> [r EXCEPT !.speed = @ + 1]
    [] key = "s" -> [r EXCEPT !.speed = @ - 1]
    [] key = "d" -> [r EXCEPT !.back = ~@]

(* Mutated form: the rate is changed once the position is known.           *)
RateKeyAfterQuery(key) ==
  /\ loop = "idle"
  /\ typed' = Changed(typed, key) /\ typed' \in Rate
  /\ passed' = {at}
  /\ \/ loop' = "send" /\ position' = at /\ rate' = Changed(rate, key)
     \/ UNCHANGED <<loop, position, rate>>
  /\ UNCHANGED <<playing, video_sink, applied, at, asked>>
(* The keys of the rate: the rate changes whether or not the query that    *)
(* send_seek_event begins with succeeds.                                   *)
RateKey(key) ==
  /\ loop = "idle"
  /\ rate' = Changed(rate, key) /\ rate' \in Rate
  /\ typed' = Changed(typed, key)
  /\ passed' = {at}
  /\ \/ loop' = "send" /\ position' = at
     \/ UNCHANGED <<loop, position>>
  /\ UNCHANGED <<playing, video_sink, applied, at, asked>>

Segment ==
  IF rate.back THEN [start |-> 0, stop |-> position] ELSE [start |-> position, stop |-> End]

GetSink == video_sink' \in IF video_sink = "NULL" THEN {"NULL", "sink"} ELSE {video_sink}

(* The rest of send_seek_event.  A seek plays from the start of its        *)
(* segment, backwards from its stop.                                       *)
SendSeek ==
  /\ loop = "send"
  /\ GetSink
  /\ \/ /\ video_sink' = "sink"
        /\ applied' = rate
        /\ at' = IF rate.back THEN Segment.stop ELSE Segment.start
     \/ UNCHANGED <<applied, at>>
  /\ loop' = "idle" /\ passed' = {}
  /\ UNCHANGED <<playing, rate, position, asked, typed>>

(* The other keys: p, n and q.                                             *)
TogglePlaying ==
  /\ loop = "idle"
  /\ playing' = ~playing
  /\ asked' = IF playing' THEN "PLAYING" ELSE "PAUSED"
  /\ UNCHANGED <<loop, rate, video_sink, position, applied, at, typed, passed>>

(* One frame, in the direction the pipeline plays.                         *)
StepFrame ==
  /\ loop = "idle"
  /\ GetSink
  /\ at' \in {at} \cup IF video_sink' = "NULL" THEN {}
                       ELSE {IF applied.back THEN at - 1 ELSE at + 1} \cap (0 .. End)
  /\ UNCHANGED <<loop, playing, rate, position, applied, asked, typed, passed>>

Quit ==
  /\ loop = "idle"
  /\ loop' = "exit" /\ asked' = "NULL" /\ video_sink' = "NULL"
  /\ UNCHANGED <<playing, rate, position, applied, at, typed, passed>>

Next ==
  \/ Start \/ Play \/ SendSeek \/ TogglePlaying \/ StepFrame \/ Quit
  \/ \E key \in {"S", "s", "d"} : RateKey(key)

Spec == Init /\ [][Next]_vars

-----------------------------------------------------------------------------
(* When the pipeline takes another rate it is the one that all keys ask    *)
(* for, those whose seek failed or was lost included, and it goes on from  *)
(* a place it was at since the last of them.                               *)
RateFollowsKeys == [][applied' # applied => applied' = typed /\ at' \in passed]_vars
=============================================================================

--------------------------- MODULE TimeManagement ---------------------------
(***************************************************************************)
(* The player of time_management.c: one thread takes messages from the bus *)
(* of playbin, and when none comes for 100 ms looks at the position and    *)
(* seeks once, past the tenth second, if the stream can be sought.         *)
(*                                                                         *)
(* playbin is external: it changes first and posts afterwards, on threads  *)
(* of its own; the bus is FIFO; queries may fail; a flushing seek loses    *)
(* PLAYING until the pipeline has prerolled again.  The position is only   *)
(* told apart by whether it is past the tenth second.                      *)
(***************************************************************************)
EXTENDS Integers, Sequences, SequencesExt

CONSTANTS Durations,   \* that the stream may have
          MaxPosts     \* bound: changes that playbin posts

NONE == -1             \* GST_CLOCK_TIME_NONE

TimeAssumption == Durations \subseteq Nat \ {0} /\ MaxPosts \in Nat

VARIABLES
  actual, length, seekable,  \* of playbin: state, duration, can it be sought
  past_tenth,                \* the position is past the tenth second
  unposted,                  \* messages playbin is about to post
  posts,                     \* messages posted so far
  bus,
  playing, terminated, seek_enabled, seek_done, duration,   \* CustomData
  failed                     \* history: an error or the end was posted

playbinVars == <<actual, length, seekable, past_tenth, unposted, posts>>
customData  == <<playing, terminated, seek_enabled, seek_done, duration>>
vars == <<actual, length, seekable, past_tenth, unposted, posts, bus,
          playing, terminated, seek_enabled, seek_done, duration, failed>>

Messages == {"ERROR", "EOS", "DURATION", "PAUSED", "PLAYING", "ELEMENT"}

TypeOK ==
  /\ actual \in {"READY", "PAUSED", "PLAYING"}
  /\ length \in Durations /\ seekable \in BOOLEAN /\ past_tenth \in BOOLEAN
  /\ unposted \in Seq(Messages)
  /\ posts \in Nat
  /\ bus \in Seq(Messages)
  /\ {playing, terminated, seek_enabled, seek_done, failed} \subseteq BOOLEAN
  /\ duration \in Durations \cup {NONE}

Init ==
  /\ actual = "READY" /\ length \in Durations /\ seekable \in BOOLEAN
  /\ past_tenth = FALSE
  /\ unposted = <<>> /\ posts = 0 /\ bus = <<>>
  /\ playing = FALSE /\ terminated = FALSE
  /\ seek_enabled = FALSE /\ seek_done = FALSE /\ duration = NONE
  /\ failed = FALSE

-----------------------------------------------------------------------------
(* playbin.                                                                *)

Begins(message) ==
  /\ unposted = <<>> /\ posts < MaxPosts
  /\ unposted' = <<message>>
  /\ posts' = posts + 1

ChangeDuration ==
  /\ Begins("DURATION")
  /\ length' \in Durations \ {length}
  /\ UNCHANGED <<actual, seekable, past_tenth, bus, customData, failed>>

(* An element inside playbin changes state.                                *)
ElementState ==
  /\ Begins("ELEMENT")
  /\ UNCHANGED <<actual, length, seekable, past_tenth, bus, customData, failed>>

Fail ==
  /\ \E message \in {"ERROR", "EOS"} : Begins(message)
  /\ failed' = TRUE
  /\ UNCHANGED <<actual, length, seekable, past_tenth, bus, customData>>

(* Preroll, then playing; nothing bounds how often a seek undoes it.       *)
ChangeState ==
  /\ unposted = <<>>
  /\ actual # "PLAYING"
  /\ actual' = IF actual = "READY" THEN "PAUSED" ELSE "PLAYING"
  /\ unposted' = <<actual'>>
  /\ UNCHANGED <<length, seekable, past_tenth, posts, bus, customData, failed>>

Post ==
  /\ unposted # <<>>
  /\ bus' = bus \o unposted
  /\ unposted' = <<>>
  /\ UNCHANGED <<actual, length, seekable, past_tenth, posts, customData, failed>>

Play ==
  /\ actual = "PLAYING" /\ ~past_tenth
  /\ past_tenth' = TRUE
  /\ UNCHANGED <<actual, length, seekable, unposted, posts, bus, customData, failed>>

-----------------------------------------------------------------------------
(* The loop of main.                                                       *)

Received(messages) ==
  /\ ~terminated
  /\ bus # <<>> /\ Head(bus) \in messages
  /\ bus' = Tail(bus)

(* Mutated form: the end of the stream is printed only.                    *)
HandleEndErrorOnly ==
  /\ Received({"ERROR", "EOS"})
  /\ terminated' = (terminated \/ Head(bus) = "ERROR")
  /\ UNCHANGED <<playbinVars, playing, seek_enabled, seek_done, duration, failed>>
HandleEnd ==
  /\ Received({"ERROR", "EOS"})
  /\ terminated' = TRUE
  /\ UNCHANGED <<playbinVars, playing, seek_enabled, seek_done, duration, failed>>

(* Mutated form: zero, a valid time, is taken for "not known".             *)
HandleDurationZero ==
  /\ Received({"DURATION"})
  /\ duration' = 0
  /\ UNCHANGED <<playbinVars, playing, terminated, seek_enabled, seek_done, failed>>
(* Mutated form: the duration stays as it was asked for first.             *)
HandleDurationIgnored ==
  /\ Received({"DURATION"})
  /\ UNCHANGED <<playbinVars, customData, failed>>
(* The cached duration is forgotten, to be asked for again.                *)
HandleDuration ==
  /\ Received({"DURATION"})
  /\ duration' = NONE
  /\ UNCHANGED <<playbinVars, playing, terminated, seek_enabled, seek_done, failed>>

(* Once PLAYING, the stream is asked whether it can be sought; if the      *)
(* query fails an earlier answer stays.                                    *)
HandleState ==
  /\ Received({"PAUSED", "PLAYING"})
  /\ playing' = (Head(bus) = "PLAYING")
  /\ seek_enabled' \in IF playing' THEN {seekable, seek_enabled} ELSE {seek_enabled}
  /\ UNCHANGED <<playbinVars, terminated, seek_done, duration, failed>>

(* Mutated form: its state is taken for that of playbin.                   *)
HandleElementTaken ==
  /\ Received({"ELEMENT"})
  /\ playing' \in BOOLEAN
  /\ UNCHANGED <<playbinVars, terminated, seek_enabled, seek_done, duration, failed>>
HandleElement ==
  /\ Received({"ELEMENT"})
  /\ UNCHANGED <<playbinVars, customData, failed>>

Due(known) == known /\ seek_enabled /\ ~seek_done /\ past_tenth

(* Nothing came for 100 ms.  known: the query of the position succeeds.    *)
Timeout ==
  /\ ~terminated /\ bus = <<>> /\ playing
  /\ duration' \in IF duration = NONE THEN {length, NONE} ELSE {duration}
  /\ \E known \in BOOLEAN :
       IF Due(known)
       THEN /\ seek_done' = TRUE
            /\ actual' \in {actual, "PAUSED"}
            /\ unposted' = IF actual' = actual THEN unposted ELSE Append(unposted, "PAUSED")
       ELSE UNCHANGED <<seek_done, actual, unposted>>
  /\ UNCHANGED <<length, seekable, past_tenth, posts, bus,
                 playing, terminated, seek_enabled, failed>>

MainStep == HandleEnd \/ HandleDuration \/ HandleState \/ HandleElement \/ Timeout

Next ==
  \/ ChangeDuration \/ ElementState \/ Fail \/ ChangeState \/ Post \/ Play
  \/ MainStep

Spec == Init /\ [][Next]_vars

-----------------------------------------------------------------------------
InFlight == bus \o unposted

(* A duration that is displayed is the stream's, or the message that makes *)
(* the loop forget it is on its way.                                       *)
DurationCoherent ==
  duration \in {NONE, length} \/ Contains(InFlight, "DURATION")

(* What the loop takes for the state of playbin is true, or the newest     *)
(* state message on its way says what it is.                               *)
StatesInFlight == {m \in DOMAIN InFlight : InFlight[m] \in {"PAUSED", "PLAYING"}}
PlayingCoherent ==
  /\ StatesInFlight = {} => (playing <=> actual = "PLAYING")
  /\ \A m \in StatesInFlight :
       (\A n \in StatesInFlight : n <= m) => InFlight[m] = actual

(* After an error or the end of the stream the loop ends, whatever else    *)
(* playbin posts before and after.                                         *)
FailureEndsLoop == failed ~> terminated
=============================================================================

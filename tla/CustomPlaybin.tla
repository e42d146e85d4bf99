---------------------------- MODULE CustomPlaybin ----------------------------
(***************************************************************************)
(* custom_playbin.c: the main loop handles bus messages and lines from the *)
(* keyboard; a number chooses the audio stream.  The number of streams is  *)
(* read when playbin has reached PLAYING.  CustomData is on the stack and  *)
(* never cleared: until then n_audio is whatever was there.                *)
(*                                                                         *)
(* playbin is external: it goes up to PLAYING by itself and posts each     *)
(* change of state afterwards.  An int has Width bits; what is typed may   *)
(* have more, as g_ascii_strtoull reads 64.                                *)
(***************************************************************************)
EXTENDS Integers, Sequences

CONSTANTS Streams,   \* number of audio streams in the file, an int
          Width,     \* bits of an int
          Typed      \* numbers that the user types

VARIABLES
  state,          \* of playbin
  bus,
  n_audio,        \* CustomData.n_audio
  current_audio,  \* the index last set on playbin, -1 before
  running         \* the main loop

vars == <<state, bus, n_audio, current_audio, running>>

(* main: handlers are connected and playbin is started; n_audio is not set.*)
Init ==
  /\ state = "READY" /\ bus = <<>>
  /\ n_audio \in -2^(Width - 1) .. 2^(Width - 1) - 1
  /\ current_audio = -1
  /\ running = TRUE

-----------------------------------------------------------------------------
GoUp ==
  /\ state # "PLAYING" /\ running
  /\ state' = IF state = "READY" THEN "PAUSED" ELSE "PLAYING"
  /\ bus' = Append(bus, state')
  /\ UNCHANGED <<n_audio, current_audio, running>>

PostEnd ==
  /\ running /\ bus = <<>>
  /\ \E end \in {"ERROR", "EOS"} : bus' = Append(bus, end)
  /\ UNCHANGED <<state, n_audio, current_audio, running>>

-----------------------------------------------------------------------------
(* PLAYING makes analyze_streams read the number of streams; an error or   *)
(* the end of the stream quits the loop.                                   *)
handle_message ==
  /\ running /\ bus # <<>>
  /\ bus' = Tail(bus)
  /\ n_audio' = IF Head(bus) = "PLAYING" THEN Streams ELSE n_audio
  /\ running' = (Head(bus) \notin {"ERROR", "EOS"})
  /\ UNCHANGED <<state, current_audio>>

(* The 64 bits read are assigned to an int.                                *)
ToInt(n) ==
  LET low == n % 2^Width IN IF low < 2^(Width - 1) THEN low ELSE low - 2^Width

(* A line that is no number reads as 0.                                    *)
handle_keyboard ==
  /\ running
  /\ \E n \in Typed \cup {0} :
       LET index == ToInt(n) IN
         IF index < 0 \/ index >= n_audio
         THEN UNCHANGED current_audio
         ELSE current_audio' = index
  /\ UNCHANGED <<state, bus, n_audio, running>>

Next == GoUp \/ PostEnd \/ handle_message \/ handle_keyboard

Spec == Init /\ [][Next]_vars

-----------------------------------------------------------------------------
(* "To select the proper stream, the metadata info is needed"              *)
(* (custom_playbin.c:2): an index beyond the streams of the file is        *)
(* refused ("Index out of bounds", 197), whenever it is typed.             *)
SelectsExisting == current_audio < Streams
=============================================================================

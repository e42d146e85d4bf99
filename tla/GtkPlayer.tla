------------------------------ MODULE GtkPlayer ------------------------------
(***************************************************************************)
(* The player of gtk_player.c.  Buttons, slider, refresh timer and bus     *)
(* messages are callbacks of the GTK main loop, one at a time; playbin     *)
(* changes state and finds tags on threads of its own, and tells the main  *)
(* loop by messages, tags_cb by posting one from the streaming thread.     *)
(*                                                                         *)
(* playbin is external: upward state changes complete later, downward ones *)
(* at once; each is posted after it has happened; a flushing seek loses    *)
(* PLAYING until the pipeline has prerolled again; the bus keeps messages  *)
(* of an earlier run.  There is one uri, so one duration; a position asked *)
(* for is unknown, the start or the end, never past it.  What tags say     *)
(* is one value per kind of stream; drawing and layout are left out.       *)
(***************************************************************************)
EXTENDS Integers, Sequences, SequencesExt

CONSTANTS Kinds,     \* video, audio and text, in the order they are listed
          TagValues, \* what tags may say
          Duration,  \* of the stream
          GST_SECOND,
          MaxBus     \* bound: messages on the bus when something else happens

NoTags == "none"

ASSUME GtkAssumption ==
  /\ Kinds \in Seq(STRING)
  /\ GST_SECOND \in Nat \ {0} /\ Duration \in Nat /\ Duration >= GST_SECOND
  /\ MaxBus \in Nat
  /\ NoTags \notin TagValues

VARIABLES
  current, target,  \* state of playbin, and the state asked for
  tags,             \* tags of each kind of stream
  announcing,       \* kinds whose streaming thread is inside tags-changed
  bus,              \* messages for the main loop
  state, duration,  \* CustomData: cached state, and duration or -1
  slider, range,    \* value and upper end of the slider
  stream_list,      \* the tags displayed
  listing,          \* kinds that analyze_streams has still to read
  moved, seeks      \* history: the user has moved the slider; a seek was made

playbinVars == <<current, target, tags, announcing>>
uiVars == <<state, duration, slider, range, moved, seeks>>
listVars == <<stream_list, listing>>
vars == <<playbinVars, bus, uiVars, listVars>>

States == {"VOID", "NULL", "READY", "PAUSED", "PLAYING"}
Rank == [VOID |-> 0, NULL |-> 1, READY |-> 2, PAUSED |-> 3, PLAYING |-> 4]
Prerolled(s) == Rank[s] >= Rank["PAUSED"]

StateMsg(src, old, new) == [type |-> "state-changed", src |-> src, old |-> old, new |-> new]
Note(type) == [type |-> type, src |-> "playbin", old |-> "VOID", new |-> "VOID"]
KindSet == {Kinds[k] : k \in DOMAIN Kinds}

TypeOK ==
  /\ current \in {"NULL", "READY", "PAUSED", "PLAYING"}
  /\ target \in {"NULL", "READY", "PAUSED", "PLAYING"}
  /\ tags \in [KindSet -> TagValues \cup {NoTags}]
  /\ announcing \subseteq KindSet
  /\ bus \in Seq([type : {"state-changed", "error", "eos", "tags-changed"},
                  src : {"playbin", "element"}, old : States, new : States])
  /\ state \in States
  /\ duration \in {-1, Duration}
  /\ range \in {100, Duration \div GST_SECOND}
  /\ slider \in 0 .. range
  /\ stream_list \in [KindSet -> TagValues \cup {NoTags}]
  /\ listing \in Seq(KindSet)
  /\ moved \in BOOLEAN /\ seeks \in BOOLEAN

(* main: playbin has been asked to play, and the main loop starts.         *)
Init ==
  /\ current = "READY" /\ target = "PLAYING"
  /\ tags = [k \in KindSet |-> NoTags]
  /\ announcing = {}
  /\ bus = <<StateMsg("playbin", "NULL", "READY")>>
  /\ state = "VOID"
  /\ duration = -1
  /\ slider = 0 /\ range = 100
  /\ stream_list = tags /\ listing = <<>>
  /\ moved = FALSE /\ seeks = FALSE

-----------------------------------------------------------------------------
(* playbin and its threads.                                                *)

Room == Len(bus) < MaxBus
Up == [NULL |-> "READY", READY |-> "PAUSED", PAUSED |-> "PLAYING"]

StateUp ==
  /\ Room
  /\ Rank[current] < Rank[target]
  /\ current' = Up[current]
  /\ bus' = Append(bus, StateMsg("playbin", current, current'))
  /\ UNCHANGED <<target, tags, announcing, uiVars, listVars>>

(* Elements inside playbin post their state changes as well.               *)
ElementState ==
  /\ Room
  /\ \E s \in {"READY", "PAUSED", "PLAYING"} :
       bus' = Append(bus, StateMsg("element", s, s))
  /\ UNCHANGED <<playbinVars, uiVars, listVars>>

PostEnd ==
  /\ Room
  /\ Prerolled(target)
  /\ \E type \in {"error", "eos"} : bus' = Append(bus, Note(type))
  /\ UNCHANGED <<playbinVars, uiVars, listVars>>

(* The tags of a stream change, and its thread emits tags-changed ...      *)
NewTags(k) ==
  /\ Room
  /\ Prerolled(target) /\ k \notin announcing
  /\ \E v \in TagValues : tags' = [tags EXCEPT ![k] = v]
  /\ announcing' = announcing \cup {k}
  /\ UNCHANGED <<current, target, bus, uiVars, listVars>>

(* Mutated form: the text tags are not connected.                          *)
tags_cbNoText(k) ==
  /\ k \in announcing
  /\ announcing' = announcing \ {k}
  /\ bus' = IF k = Last(Kinds) THEN bus ELSE Append(bus, Note("tags-changed"))
  /\ UNCHANGED <<current, target, tags, uiVars, listVars>>
(* ... where tags_cb posts a message for the main loop.                    *)
tags_cb(k) ==
  /\ k \in announcing
  /\ announcing' = announcing \ {k}
  /\ bus' = Append(bus, Note("tags-changed"))
  /\ UNCHANGED <<current, target, tags, uiVars, listVars>>

-----------------------------------------------------------------------------
(* The main loop.  A callback runs while no other one does.                *)

Idle == listing = <<>> /\ target # "NULL"

(* Going down happens at once, step by step.  To stop is to wait for the   *)
(* streaming threads and to forget the streams.                            *)
Down(to, rest) ==
  /\ Prerolled(to) \/ announcing = {}
  /\ target' = to
  /\ IF Rank[current] > Rank[to]
     THEN /\ current' = to
          /\ bus' = rest \o (IF current = "PLAYING" /\ to = "READY"
                             THEN <<StateMsg("playbin", "PLAYING", "PAUSED"),
                                    StateMsg("playbin", "PAUSED", "READY")>>
                             ELSE <<StateMsg("playbin", current, to)>>)
     ELSE bus' = rest /\ UNCHANGED current
  /\ tags' = IF Prerolled(to) THEN tags ELSE [k \in KindSet |-> NoTags]
  /\ UNCHANGED announcing

play_cb ==
  /\ Idle /\ Room
  /\ target' = "PLAYING"
  /\ UNCHANGED <<current, tags, announcing, bus, uiVars, listVars>>

pause_cb == Idle /\ Room /\ Down("PAUSED", bus) /\ UNCHANGED <<uiVars, listVars>>

stop_cb == Idle /\ Room /\ Down("READY", bus) /\ UNCHANGED <<uiVars, listVars>>

(* stop_cb, the main loop quits, and main sets playbin to NULL, which      *)
(* flushes the bus.                                                        *)
delete_event_cb ==
  /\ Idle /\ announcing = {}
  /\ target' = "NULL" /\ current' = "NULL"
  /\ tags' = [k \in KindSet |-> NoTags]
  /\ bus' = <<>>
  /\ UNCHANGED <<announcing, uiVars, listVars>>

(* gst_element_seek_simple: without preroll it fails; else playbin has to  *)
(* preroll again.                                                          *)
Seek(rest) ==
  /\ seeks' = TRUE
  /\ IF Prerolled(current)
     THEN current' = "PAUSED" /\ bus' = Append(rest, StateMsg("playbin", "PAUSED", "PAUSED"))
     ELSE bus' = rest /\ UNCHANGED current

(* GtkRange keeps its value inside its range.                              *)
Clamp(value, top) == IF value > top THEN top ELSE value

(* The user moves the slider, and slider_cb seeks.                         *)
MoveSlider ==
  /\ Idle /\ Room
  /\ \E v \in {0, Clamp(Duration \div GST_SECOND, range), range} \ {slider} : slider' = v
  /\ moved' = TRUE
  /\ Seek(bus)
  /\ UNCHANGED <<target, tags, announcing, state, duration, range, listVars>>

(* Mutated form: the slider is not in seconds.                             *)
SecondsUnscaled(time) == time
Seconds(time) == time \div GST_SECOND

(* Mutated form: slider_cb is not blocked while refresh_ui sets the value. *)
SetValueNotBlocked(value, clamped, rest) ==
  /\ slider' = value
  /\ IF clamped \/ value # slider THEN Seek(rest) ELSE bus' = rest /\ UNCHANGED <<current, seeks>>
(* The value is set with slider_cb blocked; only gtk_range_set_range, when *)
(* it has to clamp what the user chose, lets slider_cb seek.               *)
SetValue(value, clamped, rest) ==
  /\ slider' = value
  /\ IF clamped THEN Seek(rest) ELSE bus' = rest /\ UNCHANGED <<current, seeks>>

(* refresh_ui.  Queries may fail, and fail without preroll; the duration   *)
(* is asked for until it is known.                                         *)
refresh_ui(rest) ==
  \E known \in BOOLEAN, position \in {-1, 0, Duration} :
    /\ known \/ position # -1 => Prerolled(current)
    /\ LET learns == duration = -1 /\ known
           top == IF learns THEN Seconds(Duration) ELSE range
           low == Clamp(slider, top)
       IN /\ duration' = IF learns THEN Duration ELSE duration
          /\ range' = top
          /\ SetValue(IF position = -1 THEN low ELSE Clamp(Seconds(position), top), low # slider, rest)
    /\ UNCHANGED <<target, tags, announcing, moved>>

Refresh ==
  /\ Idle /\ Room
  /\ Prerolled(state)
  /\ refresh_ui(bus)
  /\ UNCHANGED <<state, listVars>>

Received(type) == Idle /\ bus # <<>> /\ Head(bus).type = type

(* error_cb and eos_cb stop playbin.                                       *)
end_cb ==
  /\ Received("error") \/ Received("eos")
  /\ Down("READY", Tail(bus))
  /\ UNCHANGED <<uiVars, listVars>>

(* Mutated form: state changes of any element are taken for playbin's.     *)
state_changed_cbAny ==
  /\ Received("state-changed")
  /\ state' = Head(bus).new
  /\ bus' = Tail(bus)
  /\ UNCHANGED <<playbinVars, duration, slider, range, moved, seeks, listVars>>
(* The state is cached, and after preroll the display refreshed at once.   *)
state_changed_cb ==
  /\ Received("state-changed")
  /\ LET msg == Head(bus) IN
       IF msg.src = "playbin"
       THEN /\ state' = msg.new
            /\ IF msg.old = "READY" /\ msg.new = "PAUSED"
               THEN refresh_ui(Tail(bus))
               ELSE bus' = Tail(bus) /\ UNCHANGED <<playbinVars, duration, slider, range, moved, seeks>>
       ELSE bus' = Tail(bus) /\ UNCHANGED <<playbinVars, uiVars>>
  /\ UNCHANGED listVars

(* application_cb: analyze_streams clears the text ...                     *)
application_cb ==
  /\ Received("tags-changed")
  /\ bus' = Tail(bus)
  /\ stream_list' = [k \in KindSet |-> NoTags]
  /\ listing' = Kinds
  /\ UNCHANGED <<playbinVars, uiVars>>

(* ... and reads one kind after the other, while tags may change.          *)
analyze_streams ==
  /\ listing # <<>>
  /\ stream_list' = [stream_list EXCEPT ![Head(listing)] = tags[Head(listing)]]
  /\ listing' = Tail(listing)
  /\ UNCHANGED <<playbinVars, bus, uiVars>>

Next ==
  \/ StateUp \/ ElementState \/ PostEnd
  \/ \E k \in KindSet : NewTags(k) \/ tags_cb(k)
  \/ play_cb \/ pause_cb \/ stop_cb \/ delete_event_cb \/ MoveSlider \/ Refresh
  \/ end_cb \/ state_changed_cb \/ application_cb \/ analyze_streams

Spec == Init /\ [][Next]_vars

-----------------------------------------------------------------------------
(* What draw_cb and refresh_ui take for the state of playbin is true or    *)
(* about to be corrected: the newest message about it says where it is.    *)
AboutPlaybin ==
  {m \in DOMAIN bus : bus[m].type = "state-changed" /\ bus[m].src = "playbin"}
StateCoherent ==
  target # "NULL" =>
    /\ AboutPlaybin = {} => state = current
    /\ \A m \in AboutPlaybin :
         (\A n \in AboutPlaybin : n <= m) => bus[m].new = current

(* The player moves the slider itself once a second, and that never makes  *)
(* playback jump: there is no seek unless the user has moved the slider.   *)
OnlyUserSeeks == seeks => moved

(* Tags that a streaming thread has found are displayed, or will be: a     *)
(* change is not lost between tags_cb and an analyze_streams under way.    *)
TagsShown ==
  \A k \in KindSet :
    tags[k] # NoTags =>
      \/ stream_list[k] = tags[k]
      \/ k \in announcing
      \/ \E m \in DOMAIN bus : bus[m].type = "tags-changed"
      \/ Contains(listing, k)
=============================================================================

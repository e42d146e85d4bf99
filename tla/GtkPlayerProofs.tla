-------------------------- MODULE GtkPlayerProofs --------------------------
(***************************************************************************)
(* The player with any kinds of streams, any tags, any stream of a second  *)
(* or more and any number of messages on the bus.                          *)
(***************************************************************************)
EXTENDS GtkPlayer, TLAPS

Msg == [type : {"state-changed", "error", "eos", "tags-changed"},
        src : {"playbin", "element"}, old : States, new : States]

(* The last second of the stream.                                          *)
End == Seconds(Duration)

(* As long as the user has not touched the slider, it has been inside the  *)
(* stream, and setting its range does not clamp it.                        *)
SliderInv == ~moved => ~seeks /\ slider <= End

IInv == TypeOK /\ SliderInv /\ StateCoherent /\ TagsShown

-----------------------------------------------------------------------------
(* Lemmas about states, messages and times.                                *)

LEMMA Ranks ==
  /\ Rank["VOID"] = 0 /\ Rank["NULL"] = 1 /\ Rank["READY"] = 2
  /\ Rank["PAUSED"] = 3 /\ Rank["PLAYING"] = 4
  /\ Up["NULL"] = "READY" /\ Up["READY"] = "PAUSED" /\ Up["PAUSED"] = "PLAYING"
BY DEF Rank, Up

LEMMA MsgTypes ==
  ASSUME NEW src \in {"playbin", "element"}, NEW old \in States, NEW new \in States
  PROVE  StateMsg(src, old, new) \in Msg
BY DEF StateMsg, Msg

LEMMA NoteTypes ==
  ASSUME NEW type \in {"error", "eos", "tags-changed"}
  PROVE  Note(type) \in Msg
BY DEF Note, Msg, States

LEMMA EndType == End \in Nat /\ End >= 1
<1>1. GST_SECOND \in Nat /\ GST_SECOND > 0 /\ Duration \in Nat /\ GST_SECOND <= Duration
  BY GtkAssumption
<1> DEFINE q == Duration \div GST_SECOND  r == Duration % GST_SECOND
<1>2. q \in Int /\ r \in 0 .. GST_SECOND - 1 /\ Duration = GST_SECOND * q + r
  BY <1>1
<1>3. q >= 1
  BY <1>1, <1>2
<1> QED BY <1>2, <1>3 DEF End, Seconds

(* The values that refresh_ui and the user give the slider.                *)
LEMMA SecondsType ==
  ASSUME NEW position \in {0, Duration}
  PROVE  Seconds(position) \in 0 .. End
<1>1. CASE position = 0
  BY <1>1, EndType, GtkAssumption DEF Seconds
<1>2. CASE position = Duration
  BY <1>2, EndType DEF End
<1> QED BY <1>1, <1>2

-----------------------------------------------------------------------------
(* The newest message about playbin, when messages come and go.            *)
About(b) == {m \in DOMAIN b : b[m].type = "state-changed" /\ b[m].src = "playbin"}
Coherent(b, st, cur) ==
  /\ About(b) = {} => st = cur
  /\ \A m \in About(b) : (\A n \in About(b) : n <= m) => b[m].new = cur
Notes(b) == {m \in DOMAIN b : b[m].type = "tags-changed"}

LEMMA CoherentOwn ==
  ASSUME NEW b \in Seq(Msg), NEW old \in States, NEW cur \in States, NEW st
  PROVE  Coherent(Append(b, StateMsg("playbin", old, cur)), st, cur)
<1> DEFINE c == Append(b, StateMsg("playbin", old, cur))
           n == Len(b) + 1
<1>1. n \in Nat /\ DOMAIN c = 1 .. n /\ c[n] = StateMsg("playbin", old, cur)
  OBVIOUS
<1>2. n \in About(c) /\ c[n].new = cur
  BY <1>1 DEF About, StateMsg
<1>3. ASSUME NEW m \in About(c), \A k \in About(c) : k <= m PROVE m = n
  BY <1>1, <1>2, <1>3 DEF About
<1> QED BY <1>2, <1>3 DEF Coherent

LEMMA CoherentOther ==
  ASSUME NEW b \in Seq(Msg), NEW msg \in Msg, NEW cur, NEW st, Coherent(b, st, cur),
         ~(msg.type = "state-changed" /\ msg.src = "playbin")
  PROVE  Coherent(Append(b, msg), st, cur)
<1> DEFINE c == Append(b, msg)
<1>1. /\ Len(b) \in Nat /\ DOMAIN b = 1 .. Len(b) /\ DOMAIN c = 1 .. Len(b) + 1
      /\ c[Len(b) + 1] = msg /\ \A k \in 1 .. Len(b) : c[k] = b[k]
  OBVIOUS
<1>2. About(c) = About(b)
  BY <1>1 DEF About
<1>3. \A m \in About(b) : c[m] = b[m]
  BY <1>1 DEF About
<1> QED BY <1>2, <1>3 DEF Coherent

LEMMA TailShifts ==
  ASSUME NEW b \in Seq(Msg), b # <<>>
  PROVE  /\ Tail(b) \in Seq(Msg) /\ Head(b) = b[1]
         /\ Len(b) \in Nat /\ Len(b) >= 1 /\ DOMAIN b = 1 .. Len(b)
         /\ DOMAIN Tail(b) = 1 .. Len(b) - 1
         /\ \A k \in 1 .. Len(b) - 1 : Tail(b)[k] = b[k + 1]
OBVIOUS

LEMMA CoherentTail ==
  ASSUME NEW b \in Seq(Msg), b # <<>>, NEW st, NEW cur, Coherent(b, st, cur)
  PROVE  LET own == Head(b).type = "state-changed" /\ Head(b).src = "playbin"
         IN Coherent(Tail(b), IF own THEN Head(b).new ELSE st, cur)
<1> DEFINE own == Head(b).type = "state-changed" /\ Head(b).src = "playbin"
           c == Tail(b)
<1>1. \A k \in About(c) : k \in Int /\ k >= 1 /\ k + 1 \in About(b) /\ c[k] = b[k + 1]
  BY TailShifts DEF About
<1>2. \A k \in About(b) : k = 1 \/ (k \in Int /\ k - 1 \in About(c))
  BY TailShifts DEF About
<1>3. 1 \in About(b) <=> own
  BY TailShifts DEF About
<1>4. ASSUME About(c) = {} PROVE (IF own THEN Head(b).new ELSE st) = cur
  <2>1. CASE own
    <3>1. About(b) = {1}
      BY <1>2, <1>3, <1>4, <2>1
    <3> QED BY <2>1, <3>1, TailShifts DEF Coherent
  <2>2. CASE ~own
    <3>1. About(b) = {}
      BY <1>2, <1>3, <1>4, <2>2
    <3> QED BY <2>2, <3>1 DEF Coherent
  <2> QED BY <2>1, <2>2
<1>5. ASSUME NEW m \in About(c), \A n \in About(c) : n <= m PROVE c[m].new = cur
  <2>1. \A n \in About(b) : n <= m + 1
    BY <1>1, <1>2, <1>5
  <2> QED BY <1>1, <2>1 DEF Coherent
<1> QED BY <1>4, <1>5 DEF Coherent

(* Messages for tags are kept, but for the one at the head.                *)
LEMMA NotesKept ==
  ASSUME NEW b \in Seq(Msg), Notes(b) # {}
  PROVE  /\ \A msg \in Msg : Notes(Append(b, msg)) # {}
         /\ b # <<>> /\ Head(b).type # "tags-changed" => Notes(Tail(b)) # {}
<1>1. PICK m \in DOMAIN b : b[m].type = "tags-changed"
  BY DEF Notes
<1>2. ASSUME NEW msg \in Msg PROVE Notes(Append(b, msg)) # {}
  <2>1. m \in DOMAIN Append(b, msg) /\ Append(b, msg)[m] = b[m]
    OBVIOUS
  <2> QED BY <1>1, <2>1 DEF Notes
<1>3. ASSUME b # <<>>, Head(b).type # "tags-changed" PROVE Notes(Tail(b)) # {}
  <2>1. m # 1 /\ m - 1 \in DOMAIN Tail(b) /\ Tail(b)[m - 1] = b[m]
    BY <1>1, <1>3, TailShifts
  <2> QED BY <1>1, <2>1 DEF Notes
<1> QED BY <1>2, <1>3

LEMMA NoteAdded ==
  ASSUME NEW b \in Seq(Msg)
  PROVE  Notes(Append(b, Note("tags-changed"))) # {}
<1>1. /\ Len(b) + 1 \in DOMAIN Append(b, Note("tags-changed"))
      /\ Append(b, Note("tags-changed"))[Len(b) + 1] = Note("tags-changed")
  OBVIOUS
<1> QED BY <1>1 DEF Notes, Note

-----------------------------------------------------------------------------
(* The parts that callbacks share.                                         *)
Live == {"NULL", "READY", "PAUSED", "PLAYING"}

(* Going down posts what has happened, one step or two, and gives up tags. *)
LEMMA DownStep ==
  ASSUME TypeOK, NEW to \in {"READY", "PAUSED"}, NEW rest \in Seq(Msg),
         Coherent(rest, state, current), Down(to, rest)
  PROVE  /\ bus' \in Seq(Msg) /\ current' \in Live /\ target' = to
         /\ tags' \in [KindSet -> TagValues \cup {NoTags}] /\ announcing' = announcing
         /\ Coherent(bus', state, current')
         /\ Notes(rest) # {} => Notes(bus') # {}
         /\ \A k \in KindSet : tags'[k] # NoTags => tags'[k] = tags[k]
<1> DEFINE m1 == StateMsg("playbin", "PLAYING", "PAUSED")
           m2 == StateMsg("playbin", "PAUSED", "READY")
           m3 == StateMsg("playbin", current, to)
<1>1. current \in Live /\ Live \subseteq States /\ m1 \in Msg /\ m2 \in Msg /\ m3 \in Msg
  BY MsgTypes DEF TypeOK, Live, States
<1>2. /\ target' = to /\ announcing' = announcing
      /\ tags' \in [KindSet -> TagValues \cup {NoTags}]
      /\ \A k \in KindSet : tags'[k] # NoTags => tags'[k] = tags[k]
  <2>1. CASE Prerolled(to)
    BY <2>1 DEF Down, TypeOK
  <2>2. CASE ~Prerolled(to)
    BY <2>2 DEF Down
  <2> QED BY <2>1, <2>2
<1>3. /\ bus' \in Seq(Msg) /\ current' \in Live /\ Coherent(bus', state, current')
      /\ Notes(rest) # {} => Notes(bus') # {}
  <2>1. CASE Rank[current] > Rank[to] /\ current = "PLAYING" /\ to = "READY"
    <3>1. current' = "READY" /\ bus' = rest \o <<m1, m2>>
      BY <2>1 DEF Down
    <3>2. /\ rest \o <<m1, m2>> = Append(Append(rest, m1), m2)
          /\ Append(rest, m1) \in Seq(Msg) /\ Append(Append(rest, m1), m2) \in Seq(Msg)
      BY <1>1
    <3>3. Coherent(bus', state, current')
      BY <3>1, <3>2, CoherentOwn DEF States
    <3>4. Notes(rest) # {} => Notes(bus') # {}
      BY <1>1, <3>1, <3>2, NotesKept
    <3> QED BY <3>1, <3>2, <3>3, <3>4 DEF Live
  <2>2. CASE Rank[current] > Rank[to] /\ ~(current = "PLAYING" /\ to = "READY")
    <3>1. current' = to /\ bus' = rest \o <<m3>>
      BY <2>2 DEF Down
    <3>2. rest \o <<m3>> = Append(rest, m3) /\ Append(rest, m3) \in Seq(Msg)
      BY <1>1
    <3>3. Coherent(bus', state, current')
      BY <1>1, <3>1, <3>2, CoherentOwn DEF States
    <3>4. Notes(rest) # {} => Notes(bus') # {}
      BY <1>1, <3>1, <3>2, NotesKept
    <3> QED BY <3>1, <3>2, <3>3, <3>4 DEF Live
  <2>3. CASE ~(Rank[current] > Rank[to])
    BY <1>1, <2>3 DEF Down
  <2> QED BY <2>1, <2>2, <2>3
<1> QED BY <1>2, <1>3

(* A seek reports the state it leaves playbin in.                          *)
LEMMA SeekStep ==
  ASSUME TypeOK, NEW st, NEW rest \in Seq(Msg), Coherent(rest, st, current), Seek(rest)
  PROVE  /\ bus' \in Seq(Msg) /\ current' \in Live /\ seeks' = TRUE
         /\ Coherent(bus', st, current')
         /\ Notes(rest) # {} => Notes(bus') # {}
<1>1. "PAUSED" \in States /\ StateMsg("playbin", "PAUSED", "PAUSED") \in Msg
  BY MsgTypes DEF States
<1>2. CASE Prerolled(current)
  <2>1. current' = "PAUSED" /\ bus' = Append(rest, StateMsg("playbin", "PAUSED", "PAUSED"))
    BY <1>2 DEF Seek
  <2>2. bus' \in Seq(Msg) /\ current' \in Live
    BY <1>1, <2>1 DEF Live
  <2>3. Coherent(bus', st, current')
    BY <1>1, <2>1, CoherentOwn
  <2>4. Notes(rest) # {} => Notes(bus') # {}
    BY <1>1, <2>1, NotesKept
  <2> QED BY <2>2, <2>3, <2>4 DEF Seek
<1>3. CASE ~Prerolled(current)
  BY <1>3 DEF Seek, TypeOK, Live
<1> QED BY <1>2, <1>3

(* refresh_ui seeks only when the user has moved the slider beyond the     *)
(* range that it sets.                                                     *)
LEMMA RefreshStep ==
  ASSUME TypeOK, SliderInv, NEW st, NEW rest \in Seq(Msg), Coherent(rest, st, current),
         refresh_ui(rest)
  PROVE  /\ bus' \in Seq(Msg) /\ current' \in Live
         /\ UNCHANGED <<target, tags, announcing, moved>>
         /\ duration' \in {-1, Duration} /\ range' \in {100, End} /\ slider' \in 0 .. range'
         /\ seeks' \in BOOLEAN /\ SliderInv'
         /\ Coherent(bus', st, current')
         /\ Notes(rest) # {} => Notes(bus') # {}
<1>1. PICK known \in BOOLEAN, position \in {-1, 0, Duration} :
        LET learns == duration = -1 /\ known
            top == IF learns THEN Seconds(Duration) ELSE range
            low == Clamp(slider, top)
        IN /\ duration' = IF learns THEN Duration ELSE duration
           /\ range' = top
           /\ SetValue(IF position = -1 THEN low ELSE Clamp(Seconds(position), top),
                       low # slider, rest)
  BY ZenonT(30) DEF refresh_ui
<1> DEFINE top == IF duration = -1 /\ known THEN End ELSE range
           low == Clamp(slider, top)
           value == IF position = -1 THEN low ELSE Clamp(Seconds(position), top)
<1>2. range' = top /\ SetValue(value, low # slider, rest)
  BY <1>1 DEF End
<1>3. duration' \in {-1, Duration} /\ UNCHANGED <<target, tags, announcing, moved>>
  BY <1>1 DEF refresh_ui, TypeOK
<1>4. range \in {100, End} /\ slider \in 0 .. range /\ range \in Nat
      /\ End \in Nat /\ End >= 1
  <2>1. range \in {100, End} /\ slider \in 0 .. range
    BY DEF TypeOK, End, Seconds
  <2> QED BY <2>1, EndType
<1>5. top \in {100, End} /\ low \in 0 .. top /\ (slider <= End => low = slider)
  BY <1>4 DEF Clamp
<1>6. value \in 0 .. top /\ (slider <= End => value <= End)
  <2>1. position # -1 => Seconds(position) \in 0 .. End
    BY SecondsType
  <2> QED BY <1>4, <1>5, <2>1 DEF Clamp
<1>7. slider' = value
  BY <1>2 DEF SetValue
<1>8. CASE low # slider
  <2>1. Seek(rest)
    BY <1>2, <1>8 DEF SetValue
  <2>2. moved
    BY <1>5, <1>8 DEF SliderInv
  <2> QED BY <1>2, <1>3, <1>5, <1>6, <1>7, <2>1, <2>2, SeekStep DEF SliderInv
<1>9. CASE low = slider
  <2>1. bus' = rest /\ UNCHANGED <<current, seeks>>
    BY <1>2, <1>9 DEF SetValue
  <2>2. SliderInv'
    BY <1>3, <1>6, <1>7, <2>1 DEF SliderInv
  <2> QED BY <1>2, <1>3, <1>5, <1>6, <1>7, <2>1, <2>2 DEF TypeOK, Live
<1> QED BY <1>8, <1>9

-----------------------------------------------------------------------------
(* The parts of the invariant, in the words of the lemmas.                 *)
LEMMA TypeParts ==
  ASSUME TypeOK
  PROVE  bus \in Seq(Msg) /\ current \in Live /\ Live \subseteq States
BY DEF TypeOK, Msg, Live, States

LEMMA CoherentParts ==
  /\ StateCoherent <=> (target # "NULL" => Coherent(bus, state, current))
  /\ StateCoherent' <=> (target' # "NULL" => Coherent(bus', state', current'))
BY DEF StateCoherent, AboutPlaybin, Coherent, About

(* Nothing is lost when tags are only given up and messages for them kept. *)
LEMMA ShownKept ==
  ASSUME TagsShown, UNCHANGED <<listVars, announcing>>,
         \A k \in KindSet : tags'[k] # NoTags => tags'[k] = tags[k],
         Notes(bus) # {} => Notes(bus') # {}
  PROVE  TagsShown'
<1> SUFFICES ASSUME NEW k \in KindSet, tags'[k] # NoTags
             PROVE  \/ stream_list'[k] = tags'[k]
                    \/ k \in announcing'
                    \/ \E m \in DOMAIN bus' : bus'[m].type = "tags-changed"
                    \/ Contains(listing', k)
  BY DEF TagsShown
<1>1. tags'[k] = tags[k] /\ listing' = listing /\ stream_list' = stream_list
      /\ announcing' = announcing
  BY DEF listVars
<1>2. CASE \E m \in DOMAIN bus : bus[m].type = "tags-changed"
  BY <1>2 DEF Notes
<1>3. CASE ~\E m \in DOMAIN bus : bus[m].type = "tags-changed"
  BY <1>1, <1>3 DEF TagsShown
<1> QED BY <1>2, <1>3

-----------------------------------------------------------------------------
(* Every action keeps the invariant.                                       *)

(* Steps that leave data and display alone, and may lower the state.       *)
LEMMA DownKeeps ==
  ASSUME IInv, NEW to \in {"READY", "PAUSED"}, NEW rest \in Seq(Msg), Down(to, rest),
         Coherent(rest, state, current), Notes(bus) # {} => Notes(rest) # {},
         UNCHANGED <<uiVars, listVars>>
  PROVE  IInv'
<1> USE DEF IInv
<1>1. /\ bus' \in Seq(Msg) /\ current' \in Live /\ target' = to
      /\ tags' \in [KindSet -> TagValues \cup {NoTags}] /\ announcing' = announcing
      /\ Coherent(bus', state, current')
      /\ Notes(rest) # {} => Notes(bus') # {}
      /\ \A k \in KindSet : tags'[k] # NoTags => tags'[k] = tags[k]
  BY DownStep
<1>2. TypeOK'
  BY <1>1 DEF TypeOK, Msg, Live, uiVars, listVars
<1>3. SliderInv'
  BY DEF SliderInv, uiVars
<1>4. StateCoherent'
  BY <1>1, CoherentParts DEF uiVars
<1>5. TagsShown'
  BY <1>1, ShownKept
<1> QED BY <1>2, <1>3, <1>4, <1>5

(* Steps that refresh the display, with a state cached before.             *)
LEMMA RefreshKeeps ==
  ASSUME IInv, NEW rest \in Seq(Msg), refresh_ui(rest), state' \in States,
         Coherent(rest, state', current), Notes(bus) # {} => Notes(rest) # {},
         UNCHANGED listVars
  PROVE  IInv'
<1> USE DEF IInv
<1>1. /\ bus' \in Seq(Msg) /\ current' \in Live
      /\ UNCHANGED <<target, tags, announcing, moved>>
      /\ duration' \in {-1, Duration} /\ range' \in {100, End} /\ slider' \in 0 .. range'
      /\ seeks' \in BOOLEAN /\ SliderInv'
      /\ Coherent(bus', state', current')
      /\ Notes(rest) # {} => Notes(bus') # {}
  BY RefreshStep
<1>2. TypeOK'
  BY <1>1 DEF TypeOK, Msg, Live, listVars, End, Seconds
<1>3. StateCoherent'
  BY <1>1, CoherentParts
<1>4. TagsShown'
  BY <1>1, ShownKept
<1> QED BY <1>1, <1>2, <1>3, <1>4

(* Steps that only add a message, which is no old news about playbin.      *)
LEMMA PostKeeps ==
  ASSUME IInv, NEW msg \in Msg, bus' = Append(bus, msg),
         ~(msg.type = "state-changed" /\ msg.src = "playbin"),
         UNCHANGED <<playbinVars, uiVars, listVars>>
  PROVE  IInv'
<1> USE DEF IInv
<1>1. bus \in Seq(Msg) /\ bus' \in Seq(Msg)
  BY TypeParts
<1>2. TypeOK'
  BY <1>1 DEF TypeOK, Msg, playbinVars, uiVars, listVars
<1>3. SliderInv'
  BY DEF SliderInv, uiVars
<1>4. StateCoherent'
  BY <1>1, CoherentParts, CoherentOther DEF playbinVars, uiVars
<1>5. TagsShown'
  BY <1>1, NotesKept, ShownKept DEF playbinVars
<1> QED BY <1>2, <1>3, <1>4, <1>5

LEMMA StateUpKeeps ==
  ASSUME IInv, StateUp
  PROVE  IInv'
<1> USE DEF IInv
<1>1. /\ bus \in Seq(Msg) /\ current \in Live /\ Live \subseteq States
      /\ target \in Live
  BY TypeParts DEF TypeOK, Live
<1>2. current' \in Live /\ target' = target /\ target # "NULL"
  BY <1>1, Ranks DEF StateUp, Live
<1>3. StateMsg("playbin", current, current') \in Msg
      /\ bus' = Append(bus, StateMsg("playbin", current, current'))
  BY <1>1, <1>2, MsgTypes DEF StateUp
<1>4. bus' \in Seq(Msg)
  BY <1>1, <1>3
<1>5. Coherent(bus', state, current')
  BY <1>1, <1>2, <1>3, CoherentOwn
<1>6. TypeOK'
  BY <1>2, <1>4 DEF TypeOK, StateUp, Msg, Live, uiVars, listVars
<1>7. SliderInv'
  BY DEF SliderInv, StateUp, uiVars
<1>8. StateCoherent'
  BY <1>5, CoherentParts DEF StateUp, uiVars
<1>9. TagsShown'
  BY <1>1, <1>3, NotesKept, ShownKept DEF StateUp
<1> QED BY <1>6, <1>7, <1>8, <1>9

LEMMA ElementStateKeeps ==
  ASSUME IInv, ElementState
  PROVE  IInv'
<1>1. PICK s \in {"READY", "PAUSED", "PLAYING"} : bus' = Append(bus, StateMsg("element", s, s))
  BY DEF ElementState
<1>2. StateMsg("element", s, s) \in Msg /\ StateMsg("element", s, s).src # "playbin"
  BY MsgTypes DEF States, StateMsg
<1> QED BY <1>1, <1>2, PostKeeps DEF ElementState

LEMMA PostEndKeeps ==
  ASSUME IInv, PostEnd
  PROVE  IInv'
<1>1. PICK type \in {"error", "eos"} : bus' = Append(bus, Note(type))
  BY DEF PostEnd
<1>2. Note(type) \in Msg /\ Note(type).type # "state-changed"
  BY NoteTypes DEF Note
<1> QED BY <1>1, <1>2, PostKeeps DEF PostEnd

(* A kind whose tags change is being announced.                            *)
LEMMA NewTagsKeeps ==
  ASSUME IInv, NEW k \in KindSet, NewTags(k)
  PROVE  IInv'
<1> USE DEF IInv
<1>1. PICK v \in TagValues : tags' = [tags EXCEPT ![k] = v]
  BY DEF NewTags
<1>2. tags' \in [KindSet -> TagValues \cup {NoTags}] /\ announcing' = announcing \cup {k}
      /\ \A j \in KindSet \ {k} : tags'[j] = tags[j]
  BY <1>1 DEF NewTags, TypeOK
<1>3. TypeOK'
  BY <1>2 DEF NewTags, TypeOK, uiVars, listVars
<1>4. SliderInv'
  BY DEF SliderInv, NewTags, uiVars
<1>5. StateCoherent'
  BY CoherentParts DEF NewTags, uiVars
<1>6. TagsShown'
  <2>1. bus' = bus /\ stream_list' = stream_list /\ listing' = listing
    BY DEF NewTags, listVars
  <2> QED BY <1>2, <2>1 DEF TagsShown
<1> QED BY <1>3, <1>4, <1>5, <1>6

LEMMA TagsCbKeeps ==
  ASSUME IInv, NEW k \in KindSet, tags_cb(k)
  PROVE  IInv'
<1> USE DEF IInv
<1>1. Note("tags-changed") \in Msg /\ Note("tags-changed").type # "state-changed"
  BY NoteTypes DEF Note
<1>2. bus \in Seq(Msg) /\ bus' \in Seq(Msg) /\ bus' = Append(bus, Note("tags-changed"))
  BY <1>1, TypeParts DEF tags_cb
<1>3. TypeOK'
  BY <1>2 DEF tags_cb, TypeOK, Msg, uiVars, listVars
<1>4. SliderInv'
  BY DEF SliderInv, tags_cb, uiVars
<1>5. StateCoherent'
  BY <1>1, <1>2, CoherentParts, CoherentOther DEF tags_cb, uiVars
<1>6. TagsShown'
  BY <1>2, NoteAdded DEF TagsShown, Notes
<1> QED BY <1>3, <1>4, <1>5, <1>6

LEMMA PlayCbKeeps ==
  ASSUME IInv, play_cb
  PROVE  IInv'
<1> USE DEF IInv
<1>1. target # "NULL" /\ target' = "PLAYING" /\ UNCHANGED <<current, tags, announcing, bus>>
      /\ UNCHANGED uiVars /\ UNCHANGED listVars
  BY DEF play_cb, Idle
<1>2. TypeOK'
  BY <1>1 DEF TypeOK, uiVars, listVars
<1>3. SliderInv'
  BY <1>1 DEF SliderInv, uiVars
<1>4. StateCoherent'
  BY <1>1, CoherentParts DEF uiVars
<1>5. TagsShown'
  BY <1>1, ShownKept
<1> QED BY <1>2, <1>3, <1>4, <1>5

LEMMA StopKeeps ==
  ASSUME IInv, pause_cb \/ stop_cb
  PROVE  IInv'
<1>1. bus \in Seq(Msg) /\ Coherent(bus, state, current)
  BY TypeParts, CoherentParts DEF IInv, pause_cb, stop_cb, Idle
<1>2. CASE pause_cb
  BY <1>1, <1>2, DownKeeps DEF pause_cb
<1>3. CASE stop_cb
  BY <1>1, <1>3, DownKeeps DEF stop_cb
<1> QED BY <1>2, <1>3

LEMMA DeleteEventKeeps ==
  ASSUME IInv, delete_event_cb
  PROVE  IInv'
<1> USE DEF IInv
<1>1. /\ target' = "NULL" /\ current' = "NULL" /\ bus' = <<>>
      /\ tags' = [k \in KindSet |-> NoTags] /\ announcing' = announcing
      /\ UNCHANGED uiVars /\ UNCHANGED listVars
  BY DEF delete_event_cb
<1>2. TypeOK'
  BY <1>1 DEF TypeOK, uiVars, listVars
<1>3. SliderInv'
  BY <1>1 DEF SliderInv, uiVars
<1>4. StateCoherent'
  BY <1>1, CoherentParts
<1>5. TagsShown'
  BY <1>1 DEF TagsShown
<1> QED BY <1>2, <1>3, <1>4, <1>5

LEMMA MoveSliderKeeps ==
  ASSUME IInv, MoveSlider
  PROVE  IInv'
<1> USE DEF IInv
<1>1. bus \in Seq(Msg) /\ Coherent(bus, state, current)
  BY TypeParts, CoherentParts DEF MoveSlider, Idle
<1>2. /\ bus' \in Seq(Msg) /\ current' \in Live /\ seeks' = TRUE
      /\ Coherent(bus', state, current')
      /\ Notes(bus) # {} => Notes(bus') # {}
  BY <1>1, SeekStep DEF MoveSlider
<1>3. slider' \in 0 .. range
  <2>1. slider' \in {0, Clamp(End, range), range}
    BY DEF MoveSlider, End, Seconds
  <2>2. range \in {100, End}
    BY DEF TypeOK, End, Seconds
  <2> QED BY <2>1, <2>2, EndType DEF Clamp
<1>4. TypeOK'
  BY <1>2, <1>3 DEF MoveSlider, TypeOK, Msg, Live, listVars
<1>5. SliderInv'
  BY DEF SliderInv, MoveSlider
<1>6. StateCoherent'
  BY <1>2, CoherentParts DEF MoveSlider
<1>7. TagsShown'
  BY <1>2, ShownKept DEF MoveSlider
<1> QED BY <1>4, <1>5, <1>6, <1>7

LEMMA RefreshTimerKeeps ==
  ASSUME IInv, Refresh
  PROVE  IInv'
<1>1. bus \in Seq(Msg) /\ Coherent(bus, state', current) /\ state' \in States
  BY TypeParts, CoherentParts DEF IInv, TypeOK, Refresh, Idle
<1> QED BY <1>1, RefreshKeeps DEF Refresh

-----------------------------------------------------------------------------
(* The callbacks of bus messages take the head of the bus.                 *)
LEMMA TakeHead ==
  ASSUME IInv, NEW type, Received(type)
  PROVE  LET own == Head(bus).type = "state-changed" /\ Head(bus).src = "playbin"
         IN /\ bus \in Seq(Msg) /\ bus # <<>> /\ Tail(bus) \in Seq(Msg) /\ Head(bus) \in Msg
            /\ Coherent(Tail(bus), IF own THEN Head(bus).new ELSE state, current)
            /\ type # "tags-changed" /\ Notes(bus) # {} => Notes(Tail(bus)) # {}
<1>1. /\ bus \in Seq(Msg) /\ bus # <<>> /\ Head(bus).type = type
      /\ Coherent(bus, state, current)
  BY TypeParts, CoherentParts DEF IInv, Received, Idle
<1>2. Tail(bus) \in Seq(Msg) /\ Head(bus) \in Msg
  BY <1>1
<1> QED BY <1>1, <1>2, CoherentTail, NotesKept

LEMMA EndCbKeeps ==
  ASSUME IInv, end_cb
  PROVE  IInv'
<1>1. PICK type \in {"error", "eos"} : Received(type)
  BY DEF end_cb
<1>2. Head(bus).type = type
  BY <1>1 DEF Received
<1>3. /\ Tail(bus) \in Seq(Msg) /\ Coherent(Tail(bus), state, current)
      /\ Notes(bus) # {} => Notes(Tail(bus)) # {}
  BY <1>1, <1>2, TakeHead
<1> QED BY <1>3, DownKeeps DEF end_cb

LEMMA StateChangedKeeps ==
  ASSUME IInv, state_changed_cb
  PROVE  IInv'
<1> USE DEF IInv
<1> DEFINE msg == Head(bus)
<1>1. Received("state-changed") /\ msg.type = "state-changed" /\ UNCHANGED listVars
  BY DEF state_changed_cb, Received
<1>2. /\ bus \in Seq(Msg) /\ Tail(bus) \in Seq(Msg) /\ msg \in Msg
      /\ Coherent(Tail(bus), IF msg.src = "playbin" THEN msg.new ELSE state, current)
      /\ Notes(bus) # {} => Notes(Tail(bus)) # {}
  BY <1>1, TakeHead
<1>3. msg.new \in States
  BY <1>2 DEF Msg
<1>4. CASE msg.src = "playbin" /\ msg.old = "READY" /\ msg.new = "PAUSED"
  <2>1. state' = msg.new /\ refresh_ui(Tail(bus))
    BY <1>4 DEF state_changed_cb
  <2> QED BY <1>1, <1>2, <1>3, <1>4, <2>1, RefreshKeeps
<1>5. CASE ~(msg.src = "playbin" /\ msg.old = "READY" /\ msg.new = "PAUSED")
  <2>1. /\ state' = IF msg.src = "playbin" THEN msg.new ELSE state
        /\ bus' = Tail(bus)
        /\ UNCHANGED <<playbinVars, duration, slider, range, moved, seeks>>
    BY <1>5 DEF state_changed_cb, uiVars
  <2>2. TypeOK'
    BY <1>1, <1>2, <1>3, <2>1 DEF TypeOK, Msg, playbinVars, listVars
  <2>3. SliderInv'
    BY <2>1 DEF SliderInv
  <2>4. StateCoherent'
    BY <1>2, <2>1, CoherentParts DEF playbinVars
  <2>5. TagsShown'
    BY <1>1, <1>2, <2>1, ShownKept DEF playbinVars
  <2> QED BY <2>2, <2>3, <2>4, <2>5
<1> QED BY <1>4, <1>5

(* analyze_streams is about to read every kind ...                         *)
LEMMA ApplicationCbKeeps ==
  ASSUME IInv, application_cb
  PROVE  IInv'
<1> USE DEF IInv
<1>1. /\ Received("tags-changed") /\ Head(bus).type = "tags-changed"
      /\ bus' = Tail(bus) /\ stream_list' = [k \in KindSet |-> NoTags] /\ listing' = Kinds
      /\ UNCHANGED playbinVars /\ UNCHANGED uiVars
  BY DEF application_cb, Received
<1>2. Tail(bus) \in Seq(Msg) /\ Coherent(Tail(bus), state, current)
  BY <1>1, TakeHead
<1>3. Kinds \in Seq(KindSet) /\ \A k \in KindSet : Contains(Kinds, k)
  <2>1. Kinds \in Seq(STRING)
    BY GtkAssumption
  <2>2. Len(Kinds) \in Nat /\ DOMAIN Kinds = 1 .. Len(Kinds)
        /\ Kinds = [i \in 1 .. Len(Kinds) |-> Kinds[i]]
    BY <2>1
  <2>3. \A i \in 1 .. Len(Kinds) : Kinds[i] \in KindSet
    BY <2>2 DEF KindSet
  <2> QED BY <2>2, <2>3 DEF KindSet, Contains
<1>4. TypeOK'
  BY <1>1, <1>2, <1>3 DEF TypeOK, Msg, playbinVars, uiVars
<1>5. SliderInv'
  BY <1>1 DEF SliderInv, uiVars
<1>6. StateCoherent'
  BY <1>1, <1>2, CoherentParts DEF playbinVars, uiVars
<1>7. TagsShown'
  BY <1>1, <1>3 DEF TagsShown
<1> QED BY <1>4, <1>5, <1>6, <1>7

(* ... and reads them one by one; a kind it has read is up to date.        *)
LEMMA AnalyzeKeeps ==
  ASSUME IInv, analyze_streams
  PROVE  IInv'
<1> USE DEF IInv
<1> DEFINE h == Head(listing)
<1>1. /\ listing # <<>> /\ listing' = Tail(listing)
      /\ stream_list' = [stream_list EXCEPT ![h] = tags[h]]
      /\ UNCHANGED playbinVars /\ bus' = bus /\ UNCHANGED uiVars
  BY DEF analyze_streams
<1>2. listing \in Seq(KindSet) /\ h \in KindSet /\ Tail(listing) \in Seq(KindSet)
  BY <1>1 DEF TypeOK
<1>3. stream_list' \in [KindSet -> TagValues \cup {NoTags}] /\ stream_list'[h] = tags[h]
      /\ \A k \in KindSet \ {h} : stream_list'[k] = stream_list[k]
  BY <1>1, <1>2 DEF TypeOK
<1>4. \A k \in KindSet \ {h} : Contains(listing, k) => Contains(Tail(listing), k)
  <2> SUFFICES ASSUME NEW k \in KindSet \ {h}, Contains(listing, k)
               PROVE  Contains(Tail(listing), k)
    OBVIOUS
  <2>1. PICK i \in 1 .. Len(listing) : listing[i] = k
    BY DEF Contains
  <2>2. i # 1 /\ i - 1 \in 1 .. Len(Tail(listing)) /\ Tail(listing)[i - 1] = k
    BY <1>1, <1>2, <2>1
  <2> QED BY <2>2 DEF Contains
<1>5. TypeOK'
  BY <1>1, <1>2, <1>3 DEF TypeOK, playbinVars, uiVars
<1>6. SliderInv'
  BY <1>1 DEF SliderInv, uiVars
<1>7. StateCoherent'
  BY <1>1, CoherentParts DEF playbinVars, uiVars
<1>8. TagsShown'
  <2>1. tags' = tags /\ announcing' = announcing
    BY <1>1 DEF playbinVars
  <2> QED BY <1>1, <1>3, <1>4, <2>1 DEF TagsShown
<1> QED BY <1>5, <1>6, <1>7, <1>8

-----------------------------------------------------------------------------
(* The theorems.                                                           *)

LEMMA InitIInv == Init => IInv
<1> SUFFICES ASSUME Init PROVE IInv
  OBVIOUS
<1> DEFINE m == StateMsg("playbin", "NULL", "READY")
<1>1. m \in Msg /\ bus = <<m>> /\ bus \in Seq(Msg)
  BY MsgTypes DEF Init, States
<1>2. TypeOK
  <2>1. /\ slider \in 0 .. range /\ range \in {100, Duration \div GST_SECOND}
        /\ duration \in {-1, Duration}
    BY SMT DEF Init
  <2>2. /\ tags \in [KindSet -> TagValues \cup {NoTags}]
        /\ stream_list \in [KindSet -> TagValues \cup {NoTags}]
        /\ announcing \subseteq KindSet /\ listing \in Seq(KindSet)
    BY DEF Init
  <2>3. state \in States
    BY DEF Init, States
  <2>4. /\ current \in {"NULL", "READY", "PAUSED", "PLAYING"}
        /\ target \in {"NULL", "READY", "PAUSED", "PLAYING"}
    BY DEF Init
  <2>5. moved \in BOOLEAN /\ seeks \in BOOLEAN
    BY Zenon DEF Init
  <2> QED BY <1>1, <2>1, <2>2, <2>3, <2>4, <2>5 DEF TypeOK, Msg
<1>3. SliderInv
  BY EndType DEF Init, SliderInv
<1>4. StateCoherent
  <2>1. DOMAIN bus = {1} /\ bus[1] = m
    BY <1>1
  <2>2. Coherent(bus, state, current)
    BY <2>1 DEF Coherent, About, StateMsg, Init
  <2> QED BY <2>2, CoherentParts
<1>5. TagsShown
  BY DEF Init, TagsShown
<1> QED BY <1>2, <1>3, <1>4, <1>5 DEF IInv

LEMMA NextIInv == IInv /\ [Next]_vars => IInv'
<1> SUFFICES ASSUME IInv, [Next]_vars PROVE IInv'
  OBVIOUS
<1>1. CASE Next
  BY <1>1, StateUpKeeps, ElementStateKeeps, PostEndKeeps, NewTagsKeeps, TagsCbKeeps,
     PlayCbKeeps, StopKeeps, DeleteEventKeeps, MoveSliderKeeps, RefreshTimerKeeps,
     EndCbKeeps, StateChangedKeeps, ApplicationCbKeeps, AnalyzeKeeps DEF Next
<1>2. CASE UNCHANGED vars
  <2>1. UNCHANGED <<current, target, tags, announcing, bus>> /\ UNCHANGED uiVars
        /\ UNCHANGED listVars
    BY <1>2 DEF vars, playbinVars
  <2>2. TypeOK'
    BY <2>1 DEF IInv, TypeOK, uiVars, listVars
  <2>3. SliderInv'
    BY <2>1 DEF IInv, SliderInv, uiVars
  <2>4. StateCoherent'
    BY <2>1, CoherentParts DEF IInv, uiVars
  <2>5. TagsShown'
    BY <2>1, ShownKept DEF IInv
  <2> QED BY <2>2, <2>3, <2>4, <2>5 DEF IInv
<1> QED BY <1>1, <1>2

(* The invariant is inductive, so it holds in every state of the player.   *)
THEOREM PlayerInvariant == Spec => []IInv
BY InitIInv, NextIInv, PTL DEF Spec

(* Cached values, slider and messages of gtk_player.c keep their types;    *)
(* slider stays inside the range that refresh_ui gives it.                 *)
THEOREM PlayerTypes == Spec => []TypeOK
<1>1. IInv => TypeOK
  BY DEF IInv
<1> QED BY <1>1, PlayerInvariant, PTL

(* The state that state_changed_cb caches is playbin's, or the newest      *)
(* message about playbin on the bus will correct it.                       *)
THEOREM CachedStateCoherent == Spec => []StateCoherent
<1>1. IInv => StateCoherent
  BY DEF IInv
<1> QED BY <1>1, PlayerInvariant, PTL

(* refresh_ui moving the slider never makes slider_cb seek, whatever       *)
(* positions and durations its queries return.                             *)
THEOREM OnlyTheUserSeeks == Spec => []OnlyUserSeeks
<1>1. IInv => OnlyUserSeeks
  BY DEF IInv, SliderInv, OnlyUserSeeks
<1> QED BY <1>1, PlayerInvariant, PTL

(* Tags that tags_cb was called for are displayed, or analyze_streams will *)
(* still read them, however callbacks and streaming threads interleave.    *)
THEOREM NoTagsLost == Spec => []TagsShown
<1>1. IInv => TagsShown
  BY DEF IInv
<1> QED BY <1>1, PlayerInvariant, PTL
=============================================================================

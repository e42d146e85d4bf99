--------------------------- MODULE TutorialProofs ---------------------------
(***************************************************************************)
(* The small tutorial programs with any pads, branches, queues, durations, *)
(* rates and bounds.  The programs share no variable, so each has an       *)
(* invariant of its own, which the steps of the others leave alone.        *)
(***************************************************************************)
EXTENDS MCTutorials, FiniteSetTheorems, TLAPS

(* A program takes its own steps or none.                                  *)
LEMMA OneProgramRuns ==
  ASSUME [Next]_vars
  PROVE  /\ [TM!Next]_timeVars /\ [SM!Next]_streamingVars /\ [PL!Next]_padVars
         /\ [TB!Next]_teeVars /\ [RC!Next]_rateVars /\ [DI!Next]_discovererVars
         /\ [CAPS!Next]_capsVars
BY DEF Next, vars, TimeStep, StreamingStep, PadStep, TeeStep, RateStep, DiscovererStep, CapsStep

LEMMA Empty == \A S : <<>> \in Seq(S)
OBVIOUS

(* Nothing is at the head of an empty sequence, and the rest moves up.     *)
LEMMA Taken ==
  ASSUME NEW S, NEW q \in Seq(S), q # <<>>
  PROVE  /\ Tail(q) \in Seq(S) /\ Head(q) = q[1] /\ Head(q) \in S
         /\ Len(q) \in Nat /\ Len(q) >= 1 /\ DOMAIN q = 1 .. Len(q)
         /\ DOMAIN Tail(q) = 1 .. Len(q) - 1
         /\ \A k \in 1 .. Len(q) - 1 : Tail(q)[k] = q[k + 1]
OBVIOUS

LEMMA Added ==
  ASSUME NEW S, NEW q \in Seq(S), NEW e \in S
  PROVE  /\ Append(q, e) \in Seq(S)
         /\ Len(q) \in Nat /\ DOMAIN q = 1 .. Len(q)
         /\ DOMAIN Append(q, e) = 1 .. Len(q) + 1
         /\ Append(q, e)[Len(q) + 1] = e
         /\ \A k \in 1 .. Len(q) : Append(q, e)[k] = q[k]
OBVIOUS

-----------------------------------------------------------------------------
(* time_management.c.                                                      *)

TimeInv == TM!TypeOK /\ TM!DurationCoherent /\ TM!PlayingCoherent

(* Both properties are about the sequence of messages in flight, of which  *)
(* the loop takes the first and playbin adds the last.                     *)
StatesOf(q) == {m \in DOMAIN q : q[m] \in {"PAUSED", "PLAYING"}}
StatesTrue(q, pl, act) ==
  /\ StatesOf(q) = {} => (pl <=> act = "PLAYING")
  /\ \A m \in StatesOf(q) : (\A n \in StatesOf(q) : n <= m) => q[m] = act
DurationSaid(q) == \E m \in DOMAIN q : q[m] = "DURATION"

LEMMA TimeTypes ==
  ASSUME TM!TypeOK
  PROVE  /\ actual \in {"READY", "PAUSED", "PLAYING"}
         /\ length \in Durations /\ duration \in Durations \cup {TM!NONE}
         /\ unposted \in Seq(TM!Messages) /\ bus \in Seq(TM!Messages) /\ posts \in Nat
         /\ TM!InFlight \in Seq(TM!Messages)
         /\ seekable \in BOOLEAN /\ past_tenth \in BOOLEAN /\ failed \in BOOLEAN
         /\ playing \in BOOLEAN /\ terminated \in BOOLEAN
         /\ seek_enabled \in BOOLEAN /\ seek_done \in BOOLEAN
BY DEF TM!TypeOK, TM!InFlight

LEMMA TimeTypesFrom ==
  ASSUME actual' \in {"READY", "PAUSED", "PLAYING"},
         length' \in Durations, duration' \in Durations \cup {TM!NONE},
         unposted' \in Seq(TM!Messages), bus' \in Seq(TM!Messages), posts' \in Nat,
         seekable' \in BOOLEAN, past_tenth' \in BOOLEAN, failed' \in BOOLEAN,
         playing' \in BOOLEAN, terminated' \in BOOLEAN,
         seek_enabled' \in BOOLEAN, seek_done' \in BOOLEAN
  PROVE  TM!TypeOK'
BY DEF TM!TypeOK

LEMMA TimeParts ==
  ASSUME TM!InFlight \in Seq(TM!Messages), TM!InFlight' \in Seq(TM!Messages)
  PROVE  /\ TM!PlayingCoherent <=> StatesTrue(TM!InFlight, playing, actual)
         /\ TM!PlayingCoherent' <=> StatesTrue(TM!InFlight', playing', actual')
         /\ TM!DurationCoherent <=> duration \in {TM!NONE, length} \/ DurationSaid(TM!InFlight)
         /\ TM!DurationCoherent' <=>
              duration' \in {TM!NONE, length'} \/ DurationSaid(TM!InFlight')
<1>1. \A q \in Seq(TM!Messages) : TM!Contains(q, "DURATION") <=> DurationSaid(q)
  BY DEF TM!Contains, DurationSaid
<1>2. /\ TM!DurationCoherent <=> duration \in {TM!NONE, length} \/ DurationSaid(TM!InFlight)
      /\ TM!DurationCoherent' <=>
           duration' \in {TM!NONE, length'} \/ DurationSaid(TM!InFlight')
  BY <1>1 DEF TM!DurationCoherent
<1>3. /\ TM!PlayingCoherent <=> StatesTrue(TM!InFlight, playing, actual)
      /\ TM!PlayingCoherent' <=> StatesTrue(TM!InFlight', playing', actual')
  BY DEF TM!PlayingCoherent, TM!StatesInFlight, StatesTrue, StatesOf
<1> QED BY <1>2, <1>3

(* A message that playbin adds, of its own new state or of something else. *)
LEMMA PostedLast ==
  ASSUME NEW q \in Seq(TM!Messages), NEW msg \in TM!Messages,
         NEW pl, NEW act, NEW act2, StatesTrue(q, pl, act),
         IF msg \in {"PAUSED", "PLAYING"} THEN act2 = msg ELSE act2 = act
  PROVE  /\ Append(q, msg) \in Seq(TM!Messages)
         /\ StatesTrue(Append(q, msg), pl, act2)
         /\ DurationSaid(q) \/ msg = "DURATION" => DurationSaid(Append(q, msg))
<1> DEFINE l == Len(q)  r == Append(q, msg)
<1>1. /\ r \in Seq(TM!Messages) /\ l \in Nat /\ DOMAIN q = 1 .. l /\ DOMAIN r = 1 .. l + 1
      /\ r[l + 1] = msg /\ \A k \in 1 .. l : r[k] = q[k]
  BY Added
<1>2. DurationSaid(q) \/ msg = "DURATION" => DurationSaid(r)
  BY <1>1 DEF DurationSaid
<1>3. CASE msg \in {"PAUSED", "PLAYING"}
  <2>1. l + 1 \in StatesOf(r) /\ \A m \in StatesOf(r) : m \in 1 .. l + 1
    BY <1>1, <1>3 DEF StatesOf
  <2>2. ASSUME NEW m \in StatesOf(r), \A n \in StatesOf(r) : n <= m PROVE r[m] = act2
    <3>1. m = l + 1
      BY <1>1, <2>1, <2>2
    <3> QED BY <1>1, <1>3, <3>1
  <2> QED BY <1>1, <1>2, <2>1, <2>2 DEF StatesTrue
<1>4. CASE msg \notin {"PAUSED", "PLAYING"}
  <2>1. StatesOf(r) = StatesOf(q) /\ \A m \in StatesOf(q) : r[m] = q[m]
    BY <1>1, <1>4 DEF StatesOf
  <2> QED BY <1>1, <1>2, <1>4, <2>1 DEF StatesTrue
<1> QED BY <1>3, <1>4

(* The message that the loop takes.                                        *)
LEMMA TakenFirst ==
  ASSUME NEW q \in Seq(TM!Messages), q # <<>>, NEW pl, NEW act, StatesTrue(q, pl, act)
  PROVE  /\ StatesTrue(Tail(q),
              IF Head(q) \in {"PAUSED", "PLAYING"} THEN Head(q) = "PLAYING" ELSE pl, act)
         /\ DurationSaid(q) /\ Head(q) # "DURATION" => DurationSaid(Tail(q))
<1> DEFINE l == Len(q)  t == Tail(q)  isState == Head(q) \in {"PAUSED", "PLAYING"}
           pl2 == IF isState THEN Head(q) = "PLAYING" ELSE pl
<1>1. /\ Head(q) = q[1] /\ l \in Nat /\ l >= 1 /\ DOMAIN q = 1 .. l /\ DOMAIN t = 1 .. l - 1
      /\ \A k \in 1 .. l - 1 : t[k] = q[k + 1]
  BY Taken
<1>2. ASSUME DurationSaid(q), Head(q) # "DURATION" PROVE DurationSaid(t)
  <2>1. PICK m \in 1 .. l : q[m] = "DURATION"
    BY <1>1, <1>2 DEF DurationSaid
  <2>2. m - 1 \in DOMAIN t /\ t[m - 1] = "DURATION"
    BY <1>1, <1>2, <2>1
  <2> QED BY <2>2 DEF DurationSaid
<1>3. \A n \in StatesOf(q) : n = 1 \/ (n \in Int /\ n - 1 \in StatesOf(t))
  BY <1>1 DEF StatesOf
<1>4. 1 \in StatesOf(q) <=> isState
  BY <1>1 DEF StatesOf
<1>5. ASSUME NEW m \in StatesOf(t), \A n \in StatesOf(t) : n <= m PROVE t[m] = act
  <2>1. m \in Int /\ m >= 1 /\ m + 1 \in StatesOf(q) /\ t[m] = q[m + 1]
    BY <1>1 DEF StatesOf
  <2>2. \A n \in StatesOf(q) : n <= m + 1
    BY <1>3, <1>5, <2>1
  <2> QED BY <2>1, <2>2 DEF StatesTrue
<1>6. ASSUME StatesOf(t) = {} PROVE pl2 <=> act = "PLAYING"
  <2>1. CASE isState
    <3>1. \A n \in StatesOf(q) : n <= 1
      BY <1>3, <1>6
    <3>2. q[1] = act
      BY <1>4, <2>1, <3>1 DEF StatesTrue
    <3> QED BY <1>1, <2>1, <3>2
  <2>2. CASE ~isState
    <3>1. StatesOf(q) = {}
      BY <1>3, <1>4, <1>6, <2>2
    <3> QED BY <2>2, <3>1 DEF StatesTrue
  <2> QED BY <2>1, <2>2
<1> QED BY <1>2, <1>5, <1>6 DEF StatesTrue

LEMMA Joined ==
  ASSUME NEW S, NEW b \in Seq(S), NEW u \in Seq(S), NEW e \in S
  PROVE  /\ b \o <<>> = b /\ b \o <<e>> = Append(b, e)
         /\ b \o Append(u, e) = Append(b \o u, e)
         /\ (b \o u) \o <<>> = b \o u
         /\ b # <<>> => b \o u # <<>> /\ Head(b \o u) = Head(b) /\ Tail(b \o u) = Tail(b) \o u
<1>1. b \o <<>> = b /\ (b \o u) \o <<>> = b \o u
  OBVIOUS
<1>2. b \o <<e>> = Append(b, e)
  OBVIOUS
<1>3. b \o Append(u, e) = Append(b \o u, e)
  OBVIOUS
<1>4. ASSUME b # <<>>
      PROVE  b \o u # <<>> /\ Head(b \o u) = Head(b) /\ Tail(b \o u) = Tail(b) \o u
  BY <1>4
<1> QED BY <1>1, <1>2, <1>3, <1>4

LEMMA TimeInit == TM!Init => TimeInv
<1> SUFFICES ASSUME TM!Init PROVE TimeInv
  OBVIOUS
<1>1. /\ actual = "READY" /\ length \in Durations /\ seekable \in BOOLEAN
      /\ past_tenth = FALSE /\ unposted = <<>> /\ posts = 0 /\ bus = <<>>
      /\ playing = FALSE /\ terminated = FALSE /\ seek_enabled = FALSE
      /\ seek_done = FALSE /\ duration = TM!NONE /\ failed = FALSE
  BY DEF TM!Init
<1>2. TM!TypeOK
  BY <1>1, Empty DEF TM!TypeOK
<1>3. TM!InFlight = <<>> /\ TM!StatesInFlight = {}
  BY <1>1 DEF TM!InFlight, TM!StatesInFlight
<1> QED BY <1>1, <1>2, <1>3 DEF TimeInv, TM!DurationCoherent, TM!PlayingCoherent

(* A step of either side keeps what is in flight, adds to it or takes from *)
(* it.                                                                     *)
LEMMA TimeKept ==
  ASSUME TimeInv, TM!TypeOK', TM!InFlight' = TM!InFlight,
         playing' = playing, actual' = actual, length' = length,
         duration' \in {duration, TM!NONE, length}
  PROVE  TimeInv'
<1>1. TM!InFlight \in Seq(TM!Messages) /\ TM!InFlight' \in Seq(TM!Messages)
  BY TimeTypes DEF TimeInv
<1> QED BY <1>1, TimeParts DEF TimeInv

LEMMA TimePosted ==
  ASSUME TimeInv, TM!TypeOK', NEW msg \in TM!Messages,
         TM!InFlight' = Append(TM!InFlight, msg), playing' = playing,
         IF msg \in {"PAUSED", "PLAYING"} THEN actual' = msg ELSE actual' = actual,
         length' = length \/ msg = "DURATION",
         duration' \in {duration, TM!NONE, length'}
  PROVE  TimeInv'
<1>1. TM!InFlight \in Seq(TM!Messages)
  BY TimeTypes DEF TimeInv
<1>2. StatesTrue(TM!InFlight, playing, actual)
  BY <1>1, TimeParts, PostedLast, Added DEF TimeInv
<1>3. /\ TM!InFlight' \in Seq(TM!Messages)
      /\ StatesTrue(TM!InFlight', playing, actual')
      /\ DurationSaid(TM!InFlight) \/ msg = "DURATION" => DurationSaid(TM!InFlight')
  BY <1>1, <1>2, PostedLast
<1> QED BY <1>1, <1>3, TimeParts DEF TimeInv

LEMMA TimeTaken ==
  ASSUME TimeInv, TM!TypeOK', bus # <<>>, bus' = Tail(bus),
         unposted' = unposted, actual' = actual, length' = length,
         playing' = IF Head(bus) \in {"PAUSED", "PLAYING"} THEN Head(bus) = "PLAYING"
                                                            ELSE playing,
         duration' = IF Head(bus) = "DURATION" THEN TM!NONE ELSE duration
  PROVE  TimeInv'
<1>0. bus \in Seq(TM!Messages) /\ unposted \in Seq(TM!Messages)
  BY TimeTypes DEF TimeInv
<1>1. TM!InFlight \in Seq(TM!Messages) /\ TM!InFlight # <<>>
      /\ Head(TM!InFlight) = Head(bus) /\ TM!InFlight' = Tail(TM!InFlight)
  BY <1>0, Joined DEF TM!InFlight, TM!Messages
<1>2. TM!InFlight' \in Seq(TM!Messages)
  BY <1>1, Taken
<1>3. /\ StatesTrue(TM!InFlight, playing, actual)
      /\ duration \in {TM!NONE, length} \/ DurationSaid(TM!InFlight)
  BY <1>1, <1>2, TimeParts DEF TimeInv
<1>4. /\ StatesTrue(TM!InFlight', playing', actual)
      /\ DurationSaid(TM!InFlight) /\ Head(bus) # "DURATION" => DurationSaid(TM!InFlight')
  BY <1>1, <1>3, TakenFirst
<1>5. TM!PlayingCoherent'
  BY <1>1, <1>2, <1>4, TimeParts
<1>6. TM!DurationCoherent'
  BY <1>1, <1>2, <1>3, <1>4, TimeParts
<1> QED BY <1>5, <1>6 DEF TimeInv

LEMMA PlaybinKeepsTime ==
  ASSUME TimeInv,
         \/ TM!ChangeDuration \/ TM!ElementState \/ TM!Fail \/ TM!ChangeState
         \/ TM!Post \/ TM!Play
  PROVE  TimeInv'
<1> USE DEF TimeInv, TM!customData
<1>0. /\ TM!InFlight \in Seq(TM!Messages) /\ bus \in Seq(TM!Messages)
      /\ unposted \in Seq(TM!Messages)
  BY TimeTypes
<1>1. ASSUME NEW msg \in TM!Messages, unposted = <<>>, unposted' = <<msg>>, bus' = bus
      PROVE  /\ TM!InFlight' = Append(TM!InFlight, msg)
             /\ unposted' \in Seq(TM!Messages) /\ bus' \in Seq(TM!Messages)
  <2>1. TM!InFlight = bus /\ TM!InFlight' = bus \o <<msg>>
    BY <1>0, <1>1, Joined DEF TM!InFlight
  <2> QED BY <1>0, <1>1, <2>1, Joined
<1>2. ASSUME NEW msg \in TM!Messages, TM!Begins(msg), bus' = bus
      PROVE  /\ TM!InFlight' = Append(TM!InFlight, msg)
             /\ unposted' \in Seq(TM!Messages) /\ bus' \in Seq(TM!Messages)
             /\ posts' \in Nat
  BY <1>1, <1>2, TimeTypes DEF TM!Begins
<1>3. CASE TM!ChangeDuration
  <2>1. TM!Begins("DURATION") /\ length' \in Durations
        /\ UNCHANGED <<actual, seekable, past_tenth, bus, playing, terminated, seek_enabled,
                       seek_done, duration, failed>>
    BY <1>3 DEF TM!ChangeDuration
  <2>2. "DURATION" \in TM!Messages
    BY DEF TM!Messages
  <2>3. /\ TM!InFlight' = Append(TM!InFlight, "DURATION")
        /\ unposted' \in Seq(TM!Messages) /\ bus' \in Seq(TM!Messages) /\ posts' \in Nat
    BY <1>2, <2>1, <2>2
  <2>4. TM!TypeOK'
    BY <2>1, <2>3, TimeTypes, TimeTypesFrom
  <2> QED BY <2>1, <2>2, <2>3, <2>4, TimePosted
<1>4. CASE TM!ElementState
  <2>1. TM!Begins("ELEMENT")
        /\ UNCHANGED <<actual, length, seekable, past_tenth, bus, playing, terminated,
                       seek_enabled, seek_done, duration, failed>>
    BY <1>4 DEF TM!ElementState
  <2>2. "ELEMENT" \in TM!Messages
    BY DEF TM!Messages
  <2>3. /\ TM!InFlight' = Append(TM!InFlight, "ELEMENT")
        /\ unposted' \in Seq(TM!Messages) /\ bus' \in Seq(TM!Messages) /\ posts' \in Nat
    BY <1>2, <2>1, <2>2
  <2>4. TM!TypeOK'
    BY <2>1, <2>3, TimeTypes, TimeTypesFrom
  <2> QED BY <2>1, <2>2, <2>3, <2>4, TimePosted
<1>5. CASE TM!Fail
  <2>1. PICK msg \in {"ERROR", "EOS"} : TM!Begins(msg)
    BY <1>5 DEF TM!Fail
  <2>2. failed' = TRUE
        /\ UNCHANGED <<actual, length, seekable, past_tenth, bus, playing, terminated,
                       seek_enabled, seek_done, duration>>
    BY <1>5 DEF TM!Fail
  <2>3. msg \in TM!Messages /\ msg \notin {"PAUSED", "PLAYING"}
    BY DEF TM!Messages
  <2>4. /\ TM!InFlight' = Append(TM!InFlight, msg)
        /\ unposted' \in Seq(TM!Messages) /\ bus' \in Seq(TM!Messages) /\ posts' \in Nat
    BY <1>2, <2>1, <2>2, <2>3
  <2>5. TM!TypeOK'
    BY <2>2, <2>4, TimeTypes, TimeTypesFrom
  <2> QED BY <2>2, <2>3, <2>4, <2>5, TimePosted
<1>6. CASE TM!ChangeState
  <2>1. /\ unposted = <<>> /\ actual' \in {"PAUSED", "PLAYING"} /\ unposted' = <<actual'>>
        /\ UNCHANGED <<length, seekable, past_tenth, posts, bus, playing, terminated,
                       seek_enabled, seek_done, duration, failed>>
    BY <1>6 DEF TM!ChangeState
  <2>2. actual' \in TM!Messages
    BY <2>1 DEF TM!Messages
  <2>3. /\ TM!InFlight' = Append(TM!InFlight, actual')
        /\ unposted' \in Seq(TM!Messages) /\ bus' \in Seq(TM!Messages)
    BY <1>1, <2>1, <2>2
  <2>4. TM!TypeOK'
    BY <2>1, <2>3, TimeTypes, TimeTypesFrom
  <2> QED BY <2>1, <2>2, <2>3, <2>4, TimePosted
<1>7. CASE TM!Post
  <2>1. bus' = bus \o unposted /\ unposted' = <<>>
        /\ UNCHANGED <<actual, length, seekable, past_tenth, posts, playing, terminated,
                       seek_enabled, seek_done, duration, failed>>
    BY <1>7 DEF TM!Post
  <2>2. TM!InFlight' = TM!InFlight /\ bus' \in Seq(TM!Messages)
        /\ unposted' \in Seq(TM!Messages)
    BY <1>0, <2>1, Joined, Empty DEF TM!InFlight
  <2>3. TM!TypeOK'
    BY <2>1, <2>2, TimeTypes, TimeTypesFrom
  <2> QED BY <2>1, <2>2, <2>3, TimeKept
<1>8. CASE TM!Play
  <2>1. past_tenth' = TRUE
        /\ UNCHANGED <<actual, length, seekable, unposted, posts, bus, playing, terminated,
                       seek_enabled, seek_done, duration, failed>>
    BY <1>8 DEF TM!Play
  <2>2. TM!TypeOK' /\ TM!InFlight' = TM!InFlight
    BY <2>1, TimeTypes, TimeTypesFrom DEF TM!InFlight
  <2> QED BY <2>1, <2>2, TimeKept
<1> QED BY <1>3, <1>4, <1>5, <1>6, <1>7, <1>8

LEMMA LoopKeepsTime ==
  ASSUME TimeInv, TM!HandleEnd \/ TM!HandleDuration \/ TM!HandleState \/ TM!HandleElement
  PROVE  TimeInv'
<1> USE DEF TimeInv, TM!customData, TM!playbinVars, TM!Received
<1>0. bus \in Seq(TM!Messages) /\ (bus # <<>> => Tail(bus) \in Seq(TM!Messages))
  BY TimeTypes, Taken
<1>1. CASE TM!HandleEnd
  <2>1. /\ bus # <<>> /\ Head(bus) \in {"ERROR", "EOS"} /\ bus' = Tail(bus) /\ terminated' = TRUE
        /\ UNCHANGED <<actual, length, seekable, past_tenth, unposted, posts, playing,
                       seek_enabled, seek_done, duration, failed>>
    BY <1>1 DEF TM!HandleEnd
  <2>2. TM!TypeOK'
    BY <1>0, <2>1, TimeTypes, TimeTypesFrom
  <2>3. Head(bus) \notin {"PAUSED", "PLAYING", "DURATION"}
    BY <2>1
  <2> QED BY <2>1, <2>2, <2>3, TimeTaken
<1>2. CASE TM!HandleDuration
  <2>1. /\ bus # <<>> /\ Head(bus) = "DURATION" /\ bus' = Tail(bus) /\ duration' = TM!NONE
        /\ UNCHANGED <<actual, length, seekable, past_tenth, unposted, posts, playing,
                       terminated, seek_enabled, seek_done, failed>>
    BY <1>2 DEF TM!HandleDuration
  <2>2. TM!TypeOK'
    BY <1>0, <2>1, TimeTypes, TimeTypesFrom
  <2> QED BY <2>1, <2>2, TimeTaken
<1>3. CASE TM!HandleState
  <2>1. /\ bus # <<>> /\ Head(bus) \in {"PAUSED", "PLAYING"} /\ bus' = Tail(bus)
        /\ playing' = (Head(bus) = "PLAYING")
        /\ seek_enabled' \in {seekable, seek_enabled}
        /\ UNCHANGED <<actual, length, seekable, past_tenth, unposted, posts, terminated,
                       seek_done, duration, failed>>
    BY <1>3 DEF TM!HandleState
  <2>2. playing' \in BOOLEAN /\ seek_enabled' \in BOOLEAN
    BY <2>1, TimeTypes
  <2>3. TM!TypeOK'
    BY <1>0, <2>1, <2>2, TimeTypes, TimeTypesFrom
  <2> QED BY <2>1, <2>3, TimeTaken
<1>4. CASE TM!HandleElement
  <2>1. /\ bus # <<>> /\ Head(bus) = "ELEMENT" /\ bus' = Tail(bus)
        /\ UNCHANGED <<actual, length, seekable, past_tenth, unposted, posts, playing,
                       terminated, seek_enabled, seek_done, duration, failed>>
    BY <1>4 DEF TM!HandleElement
  <2>2. TM!TypeOK'
    BY <1>0, <2>1, TimeTypes, TimeTypesFrom
  <2> QED BY <2>1, <2>2, TimeTaken
<1> QED BY <1>1, <1>2, <1>3, <1>4

(* A seek, whether it is sent or not, and the duration asked for again.    *)
LEMMA TimeoutKeepsTime ==
  ASSUME TimeInv, TM!Timeout
  PROVE  TimeInv'
<1>0. /\ bus \in Seq(TM!Messages) /\ unposted \in Seq(TM!Messages)
      /\ actual \in {"READY", "PAUSED", "PLAYING"} /\ seek_done \in BOOLEAN
  BY TimeTypes DEF TimeInv
<1>1. /\ duration' \in {duration, TM!NONE, length} /\ bus' = bus
      /\ UNCHANGED <<length, seekable, past_tenth, posts, playing, terminated,
                     seek_enabled, failed>>
  BY DEF TM!Timeout
<1>2. \/ UNCHANGED <<seek_done, actual, unposted>>
      \/ seek_done' = TRUE /\ actual' = actual /\ unposted' = unposted
      \/ seek_done' = TRUE /\ actual' = "PAUSED" /\ unposted' = Append(unposted, "PAUSED")
  BY DEF TM!Timeout
<1>3. duration' \in Durations \cup {TM!NONE}
  BY <1>1, TimeTypes DEF TimeInv
<1>4. CASE seek_done' \in {seek_done, TRUE} /\ UNCHANGED <<actual, unposted>>
  <2>1. TM!TypeOK' /\ TM!InFlight' = TM!InFlight
    BY <1>0, <1>1, <1>3, <1>4, TimeTypes, TimeTypesFrom DEF TM!InFlight, TimeInv
  <2> QED BY <1>1, <1>4, <2>1, TimeKept
<1>5. CASE seek_done' = TRUE /\ actual' = "PAUSED" /\ unposted' = Append(unposted, "PAUSED")
  <2>1. "PAUSED" \in TM!Messages
    BY DEF TM!Messages
  <2>2. unposted' \in Seq(TM!Messages) /\ TM!InFlight' = Append(TM!InFlight, "PAUSED")
    BY <1>0, <1>1, <1>5, <2>1, Joined, Added DEF TM!InFlight
  <2>3. TM!TypeOK'
    BY <1>0, <1>1, <1>3, <1>5, <2>2, TimeTypes, TimeTypesFrom DEF TimeInv
  <2> QED BY <1>1, <1>5, <2>1, <2>2, <2>3, TimePosted
<1> QED BY <1>2, <1>4, <1>5

LEMMA TimeInvariant == Spec => []TimeInv
<1>1. Init => TimeInv
  BY TimeInit DEF Init
<1>2. TimeInv /\ [Next]_vars => TimeInv'
  <2> SUFFICES ASSUME TimeInv, [TM!Next]_timeVars PROVE TimeInv'
    BY OneProgramRuns
  <2>1. CASE UNCHANGED timeVars
    BY <2>1 DEF timeVars, TimeInv, TM!TypeOK, TM!DurationCoherent, TM!PlayingCoherent,
                TM!StatesInFlight, TM!InFlight
  <2>2. CASE TM!Next
    BY <2>2, PlaybinKeepsTime, LoopKeepsTime, TimeoutKeepsTime DEF TM!Next, TM!MainStep
  <2> QED BY <2>1, <2>2
<1> QED BY <1>1, <1>2, PTL DEF Spec

(* The duration that time_management.c displays is the stream's, or it is  *)
(* still not known, or the message that makes the loop forget it is on its *)
(* way: for any durations, and however often playbin changes its mind      *)
(* while the loop is asking.                                               *)
THEOREM DurationTrueOrForgotten == Spec => []DurationCoherent
<1>1. TimeInv => DurationCoherent
  BY DEF TimeInv, DurationCoherent
<1> QED BY <1>1, TimeInvariant, PTL

(* What time_management.c takes for the state of its pipeline is true, or  *)
(* the newest state on its way is: also across the flushing seek, which    *)
(* takes PLAYING away from it, and whatever elements inside playbin post.  *)
THEOREM PlayingTrueOrCorrected == Spec => []PlayingCoherent
<1>1. TimeInv => PlayingCoherent
  BY DEF TimeInv, PlayingCoherent
<1> QED BY <1>1, TimeInvariant, PTL

-----------------------------------------------------------------------------
(* streaming.c and progressive_streaming.c.                                *)

(* The newest level on the bus tells whether the queue buffers; without    *)
(* one the program has asked for the state that goes with it.              *)
Levels(q) == {m \in DOMAIN q : q[m].type = "BUFFERING"}
NewestLevel(q, m) == m \in Levels(q) /\ \A n \in Levels(q) : n <= m

LevelInv ==
  /\ \A m \in DOMAIN messages :
       NewestLevel(messages, m) => (messages[m].level < Full <=> buffering)
  /\ Levels(messages) = {} /\ loop = "run" /\ ~is_live =>
       IF buffering THEN asked = "PAUSED" \/ resumed ELSE asked = "PLAYING"
  /\ loop = "start" => messages = <<>> /\ ~buffering

StreamingInv == SM!TypeOK /\ LevelInv /\ SM!GraphInBounds

SMMessages == [type : SM!Types, level : 0 .. Full]
Drawings == [position : 0 .. Length, start : Nat, stop : Nat, mark : Nat, from : Nat, to : Int]

LEMMA StreamingConstants ==
  /\ Full \in Nat /\ Low \in Nat /\ Low < Full
  /\ Length \in Nat /\ Length >= 1 /\ Positions \subseteq 0 .. Length
  /\ RangeEnds \subseteq Nat
BY TutorialsAssumption DEF SM!StreamingAssumption

-----------------------------------------------------------------------------
(* The arithmetic of refresh_ui.                                           *)

LEMMA Quotient ==
  ASSUME NEW a \in Nat, NEW b \in Nat, b > 0
  PROVE  a \div b \in Nat /\ b * (a \div b) <= a /\ a < b * (a \div b) + b
<1> DEFINE q == a \div b  r == a % b
<1>1. q \in Int /\ r \in 0 .. b - 1 /\ a = b * q + r
  OBVIOUS
<1>2. q >= 0
  BY <1>1
<1> QED BY <1>1, <1>2

(* A range of n parts per million, once its start has been scaled: the     *)
(* start is in front of the range's own end.                               *)
LEMMA StartScaled ==
  ASSUME NEW start \in Nat, NEW stop \in Nat, start < stop
  PROVE  LET f == SM!From(start, stop)
         IN /\ f \in Nat /\ (stop - start) * f + 78 * (stop - start) <= 78 * stop
            /\ stop - start >= 78 => f < stop
<1> DEFINE d == stop - start
           f == (start * 78) \div d
<1>1. d \in Nat /\ d > 0 /\ start * 78 \in Nat
  OBVIOUS
<1>2. f \in Nat /\ d * f <= start * 78
  BY <1>1, Quotient
<1>3. d * f + 78 * d <= 78 * stop
  BY <1>1, <1>2
<1>4. ASSUME d >= 78 PROVE f < stop
  <2>1. 78 * f <= d * f
    BY <1>1, <1>2, <1>4
  <2> QED BY <1>2, <2>1
<1> QED BY <1>2, <1>3, <1>4 DEF SM!From, SM!GRAPH_LENGTH

(* Dashes pass the graph only where both of these hold of a range from s   *)
(* to e, f being its scaled start and t its scaled end, which is not so of *)
(* 3082 parts per million.                                                 *)
LEMMA LongRanges ==
  ASSUME NEW e \in Nat, NEW f \in Nat, NEW t \in Nat, NEW d \in Nat, d >= 3082,
         f < e, (e - f) * t <= 78 * e, d * f + 78 * d <= 78 * e, f < t
  PROVE  t <= 78
<1> SUFFICES ASSUME t >= 79 PROVE FALSE
  OBVIOUS
<1>1. 3082 * f + 3082 * 78 <= 78 * e
  <2>1. 3082 * f <= d * f
    OBVIOUS
  <2> QED BY <2>1
<1>2. CASE f <= 78
  <2>1. (e - f) * 79 <= (e - f) * t
    OBVIOUS
  <2>2. e <= 79 * f
    BY <2>1
  <2> QED BY <1>1, <1>2, <2>2
<1>3. CASE f >= 79
  <2> DEFINE g == f - 77
  <2>1. g \in Nat /\ g >= 2
    BY <1>3
  <2>2. (e - f) * (f + 1) <= 78 * e
    <3>1. (e - f) * (f + 1) <= (e - f) * t
      OBVIOUS
    <3> QED BY <3>1
  <2>3. e * g <= f * f + f
    BY <2>2
  <2>4. g * (3082 * f + 3082 * 78) <= g * (78 * e)
    <3> HIDE DEF g
    <3> QED BY <1>1, <2>1
  <2>5. g * (3082 * f + 3082 * 78) <= 78 * (f * f) + 78 * f
    BY <2>3, <2>4
  <2>6. g * (3082 * f + 3082 * 78) = 3082 * (f * f) + 3082 * f - 3082 * 6006
    OBVIOUS
  <2>7. f * f >= 79 * f
    BY <1>3
  <2> HIDE DEF g
  <2> QED BY <1>3, <2>5, <2>6, <2>7
<1> QED BY <1>2, <1>3

(* The dashes of a range that divides nothing by zero: they are inside the *)
(* graph unless the range is short and begins after the start of the file. *)
LEMMA DashesInGraph ==
  ASSUME NEW start \in Nat, NEW stop \in Nat, start < stop, stop # SM!From(start, stop)
  PROVE  /\ SM!From(start, stop) \in Nat /\ SM!To(start, stop) \in Int
         /\ start = 0 \/ stop - start >= 3082 =>
              ~(SM!From(start, stop) < SM!To(start, stop) /\ SM!To(start, stop) > 78)
<1> DEFINE f == SM!From(start, stop)
           t == SM!To(start, stop)
           n == stop * 78
<1>1. f \in Nat /\ (stop - start) * f + 78 * (stop - start) <= 78 * stop
  BY StartScaled
<1>2. t = IF stop - f > 0 THEN n \div (stop - f) ELSE -(n \div (f - stop))
  BY <1>1 DEF SM!To, SM!Div, SM!GRAPH_LENGTH
<1>3. n \in Nat
  OBVIOUS
<1>4. CASE f < stop
  <2>1. t \in Nat /\ (stop - f) * t <= n
    <3> DEFINE b == stop - f
    <3>1. b \in Nat /\ b > 0
      BY <1>1, <1>4
    <3>2. t = n \div b
      BY <1>1, <1>2, <3>1
    <3> HIDE DEF b, n, t
    <3>3. t \in Nat /\ b * t <= n
      BY <1>3, <3>1, <3>2, Quotient
    <3> QED BY <3>3 DEF b
  <2>2. ASSUME stop - start >= 3082 PROVE ~(f < t /\ t > 78)
    <3> HIDE DEF f, t
    <3> QED BY <1>1, <1>4, <2>1, <2>2, LongRanges
  <2>3. ASSUME start = 0 PROVE t <= 78
    <3>1. f = 0
      <4> HIDE DEF f
      <4> QED BY <1>1, <2>3
    <3> HIDE DEF f, t
    <3>2. stop * t <= 78 * stop
      BY <2>1, <3>1
    <3> QED BY <2>1, <3>2
  <2> QED BY <1>1, <2>1, <2>2, <2>3
<1>5. CASE ~(f < stop)
  <2>1. f - stop \in Nat /\ f - stop > 0
    BY <1>1, <1>5
  <2>2. n \div (f - stop) \in Nat
    BY <1>3, <2>1, Quotient
  <2>3. t \in Int /\ t <= 0
    <3>1. ~(stop - f > 0)
      BY <1>1, <1>5
    <3> HIDE DEF f, t, n
    <3> QED BY <1>2, <2>2, <3>1
  <2> QED BY <1>1, <2>3
<1> QED BY <1>4, <1>5

(* The mark is on the terminator from the last cell of the stream on, and  *)
(* past it at the end.                                                     *)
LEMMA MarkBounds ==
  ASSUME NEW pos \in 0 .. Length
  PROVE  /\ SM!Mark(pos) \in Nat
         /\ SM!Mark(pos) >= 78 <=> 78 * pos >= 77 * Length
         /\ SM!Mark(pos) > 78 <=> pos = Length
<1> DEFINE q == (78 * pos) \div Length
<1>1. Length \in Nat /\ Length >= 1 /\ pos \in Nat /\ pos <= Length
  BY StreamingConstants
<1>2. q \in Nat /\ Length * q <= 78 * pos /\ 78 * pos < Length * q + Length
  BY <1>1, Quotient
<1>3. SM!Mark(pos) = q + 1
  BY DEF SM!Mark, SM!GRAPH_LENGTH
<1>4. ASSUME q >= 77 PROVE 78 * pos >= 77 * Length
  <2>1. Length * 77 <= Length * q
    BY <1>1, <1>2, <1>4
  <2> QED BY <1>1, <1>2, <2>1
<1>5. ASSUME q >= 78 PROVE pos = Length
  <2>1. Length * 78 <= Length * q
    BY <1>1, <1>2, <1>5
  <2> QED BY <1>1, <1>2, <2>1
<1>6. ASSUME q <= 76 PROVE 78 * pos < 77 * Length
  <2>1. Length * q <= Length * 76
    BY <1>1, <1>2, <1>6
  <2> QED BY <1>1, <1>2, <2>1
<1>7. ASSUME q <= 77 PROVE pos < Length
  <2>1. Length * q <= Length * 77
    BY <1>1, <1>2, <1>7
  <2> QED BY <1>1, <1>2, <2>1
<1> HIDE DEF q
<1> QED BY <1>1, <1>2, <1>3, <1>4, <1>5, <1>6, <1>7

-----------------------------------------------------------------------------
LEMMA StreamingTypes ==
  ASSUME SM!TypeOK
  PROVE  /\ level \in 0 .. Full /\ buffering \in BOOLEAN
         /\ messages \in Seq(SMMessages)
         /\ asked \in {"NULL", "READY", "PAUSED", "PLAYING"}
         /\ is_live \in BOOLEAN /\ progressive \in BOOLEAN /\ resumed \in BOOLEAN
         /\ buf_lv \in 0 .. Full
         /\ loop \in {"start", "run", "quit", "exit", "undefined"}
         /\ drawn \in Drawings
BY DEF SM!TypeOK, SMMessages, Drawings

LEMMA TypesFrom ==
  ASSUME level' \in 0 .. Full, buffering' \in BOOLEAN,
         messages' \in Seq(SMMessages),
         asked' \in {"NULL", "READY", "PAUSED", "PLAYING"},
         is_live' \in BOOLEAN, progressive' \in BOOLEAN, resumed' \in BOOLEAN,
         buf_lv' \in 0 .. Full,
         loop' \in {"start", "run", "quit", "exit", "undefined"},
         drawn' \in Drawings
  PROVE  SM!TypeOK'
BY DEF SM!TypeOK, SMMessages, Drawings

LEMMA StreamingInit == SM!Init => StreamingInv
<1> SUFFICES ASSUME SM!Init PROVE StreamingInv
  OBVIOUS
<1> USE StreamingConstants DEF SM!Init
<1>1. SM!TypeOK
  <2>1. level \in 0 .. Full /\ buf_lv \in 0 .. Full
    OBVIOUS
  <2>2. drawn \in Drawings
    BY DEF Drawings
  <2>3. messages \in Seq(SMMessages)
    BY Empty
  <2>4. asked \in {"NULL", "READY", "PAUSED", "PLAYING"}
        /\ loop \in {"start", "run", "quit", "exit", "undefined"}
    OBVIOUS
  <2>5. {is_live, progressive, resumed} \subseteq BOOLEAN /\ buffering \in BOOLEAN
    BY Zenon
  <2> QED BY <2>1, <2>2, <2>3, <2>4, <2>5 DEF SM!TypeOK, SMMessages, Drawings
<1>2. LevelInv
  BY DEF LevelInv
<1>3. SM!GraphInBounds
  BY DEF SM!GraphInBounds, SM!GRAPH_LENGTH, SM!ShortRange, SM!MarkLeaves, SM!DashesLeave
<1> QED BY <1>1, <1>2, <1>3 DEF StreamingInv

(* A message is added: the newest level, or none.                          *)
LEMMA LevelAdded ==
  ASSUME StreamingInv, NEW msg \in SMMessages, messages' = Append(messages, msg),
         msg.type = "BUFFERING" => (msg.level < Full <=> buffering'),
         msg.type # "BUFFERING" => UNCHANGED buffering,
         loop = "run", UNCHANGED <<asked, is_live, loop, resumed>>
  PROVE  LevelInv' /\ messages' \in Seq(SMMessages)
<1> DEFINE l == Len(messages)
<1>1. /\ messages' \in Seq(SMMessages)
      /\ l \in Nat /\ DOMAIN messages = 1 .. l /\ DOMAIN messages' = 1 .. l + 1
      /\ messages'[l + 1] = msg /\ \A k \in 1 .. l : messages'[k] = messages[k]
  BY Added, StreamingTypes DEF StreamingInv
<1>2. CASE msg.type = "BUFFERING"
  <2>1. \A m \in DOMAIN messages' : NewestLevel(messages', m) => m = l + 1
    BY <1>1, <1>2 DEF NewestLevel, Levels
  <2>2. l + 1 \in Levels(messages')
    BY <1>1, <1>2 DEF Levels
  <2> QED BY <1>1, <1>2, <2>1, <2>2 DEF LevelInv
<1>3. CASE msg.type # "BUFFERING"
  <2>1. Levels(messages') = Levels(messages)
    BY <1>1, <1>3 DEF Levels
  <2>2. \A m \in Levels(messages) : m \in DOMAIN messages /\ messages'[m] = messages[m]
    BY <1>1 DEF Levels
  <2> QED BY <1>1, <1>3, <2>1, <2>2 DEF LevelInv, NewestLevel, StreamingInv
<1> QED BY <1>2, <1>3

(* The queue: while it buffers its level is below Full, and the level that *)
(* ends it is posted.                                                      *)
LEMMA QueueKeeps ==
  ASSUME StreamingInv, SM!Download \/ SM!Consume
  PROVE  StreamingInv'
<1> USE StreamingConstants DEF StreamingInv
<1>1. PICK lv \in 0 .. Full : SM!SetLevel(lv)
  <2>1. CASE SM!Download
    BY <2>1, StreamingTypes DEF SM!Download
  <2>2. CASE SM!Consume
    BY <2>2, StreamingTypes DEF SM!Consume
  <2> QED BY <2>1, <2>2
<1> DEFINE msg == SM!Message("BUFFERING", lv)
<1>2. /\ level' = lv /\ loop = "run"
      /\ buffering' = IF buffering THEN lv < Full ELSE lv <= Low
      /\ messages' = IF buffering \/ buffering' THEN Append(messages, msg) ELSE messages
      /\ UNCHANGED <<asked, is_live, buf_lv, progressive, loop, resumed, drawn>>
  BY <1>1 DEF SM!SetLevel, SM!Room
<1>3. msg \in SMMessages /\ msg.type = "BUFFERING" /\ msg.level = lv
  BY DEF SM!Message, SMMessages, SM!Types
<1>4. buffering' \in BOOLEAN /\ (buffering \/ buffering' => (lv < Full <=> buffering'))
  <2>1. buffering' \in BOOLEAN
    <3>1. (lv < Full) \in BOOLEAN /\ (lv <= Low) \in BOOLEAN
      OBVIOUS
    <3>2. CASE buffering
      BY <1>2, <3>1, <3>2, Zenon
    <3>3. CASE ~buffering
      BY <1>2, <3>1, <3>3, Zenon
    <3> QED BY <3>2, <3>3
  <2>2. lv \in Int /\ Low < Full /\ Low \in Nat /\ Full \in Nat
    OBVIOUS
  <2>3. CASE buffering
    <3>1. buffering' = (lv < Full)
      BY <1>2, <2>3, Zenon
    <3> QED BY ONLY <2>1, <3>1, Zenon
  <2>4. CASE ~buffering
    <3>1. buffering' = (lv <= Low)
      BY <1>2, <2>4, Zenon
    <3>2. lv <= Low => lv < Full
      BY <2>2
    <3> QED BY ONLY <2>1, <2>4, <3>1, <3>2, Zenon
  <2> QED BY <2>3, <2>4
<1>5. LevelInv' /\ messages' \in Seq(SMMessages)
  <2>1. CASE buffering \/ buffering'
    BY <1>2, <1>3, <1>4, <2>1, LevelAdded
  <2>2. CASE ~(buffering \/ buffering')
    BY <1>2, <2>2, StreamingTypes DEF LevelInv
  <2> QED BY <2>1, <2>2
<1>6. SM!TypeOK'
  BY <1>2, <1>4, <1>5, StreamingTypes, TypesFrom
<1>7. SM!GraphInBounds'
  BY <1>2 DEF SM!GraphInBounds, SM!MarkLeaves, SM!DashesLeave
<1> QED BY <1>5, <1>6, <1>7

LEMMA StreamingPostKeeps ==
  ASSUME StreamingInv, NEW type \in {"CLOCK_LOST", "ERROR", "EOS"}, SM!Post(type)
  PROVE  StreamingInv'
<1> USE DEF StreamingInv
<1> DEFINE msg == SM!Message(type, 0)
<1>1. /\ loop = "run" /\ messages' = Append(messages, msg)
      /\ UNCHANGED <<level, buffering, asked, is_live, buf_lv, progressive, loop, resumed, drawn>>
  BY DEF SM!Post, SM!Room, SM!queueVars
<1>2. msg \in SMMessages /\ msg.type # "BUFFERING"
  BY StreamingConstants DEF SM!Message, SMMessages, SM!Types
<1>3. LevelInv' /\ messages' \in Seq(SMMessages)
  BY <1>1, <1>2, LevelAdded
<1>4. SM!TypeOK'
  BY <1>1, <1>3, StreamingTypes, TypesFrom
<1>5. SM!GraphInBounds'
  BY <1>1 DEF SM!GraphInBounds, SM!MarkLeaves, SM!DashesLeave
<1> QED BY <1>3, <1>4, <1>5

(* A message is taken: what is left of the levels tells as much, and if    *)
(* none is left, there was none or the one taken was the newest.           *)
LEMMA LevelTaken ==
  ASSUME StreamingInv, messages # <<>>, messages' = Tail(messages), UNCHANGED buffering
  PROVE  LET msg == Head(messages)
         IN /\ messages' \in Seq(SMMessages) /\ msg \in SMMessages
            /\ \A m \in DOMAIN messages' :
                 NewestLevel(messages', m) => (messages'[m].level < Full <=> buffering')
            /\ Levels(messages') = {} =>
                 IF msg.type = "BUFFERING" THEN msg.level < Full <=> buffering
                                           ELSE Levels(messages) = {}
<1> DEFINE l == Len(messages)  msg == Head(messages)
<1>1. /\ messages' \in Seq(SMMessages) /\ msg \in SMMessages /\ msg = messages[1]
      /\ l \in Nat /\ l >= 1 /\ DOMAIN messages = 1 .. l /\ DOMAIN messages' = 1 .. l - 1
      /\ \A k \in 1 .. l - 1 : messages'[k] = messages[k + 1]
  BY Taken, StreamingTypes DEF StreamingInv
<1>2. \A n \in Levels(messages) : n = 1 \/ (n \in Int /\ n - 1 \in Levels(messages'))
  BY <1>1 DEF Levels
<1>3. 1 \in Levels(messages) <=> msg.type = "BUFFERING"
  BY <1>1 DEF Levels
<1>4. ASSUME NEW m \in DOMAIN messages', NewestLevel(messages', m)
      PROVE  messages'[m].level < Full <=> buffering'
  <2>1. m + 1 \in Levels(messages) /\ messages'[m] = messages[m + 1] /\ m \in Int /\ m >= 1
    BY <1>1, <1>4 DEF NewestLevel, Levels
  <2>2. \A n \in Levels(messages) : n <= m + 1
    BY <1>2, <1>4, <2>1 DEF NewestLevel
  <2>3. m + 1 \in DOMAIN messages /\ NewestLevel(messages, m + 1)
    BY <2>1, <2>2 DEF NewestLevel, Levels
  <2> QED BY <2>1, <2>3 DEF StreamingInv, LevelInv
<1>5. ASSUME Levels(messages') = {}
      PROVE  IF msg.type = "BUFFERING" THEN msg.level < Full <=> buffering
                                       ELSE Levels(messages) = {}
  <2>1. CASE msg.type = "BUFFERING"
    <3>1. 1 \in DOMAIN messages /\ NewestLevel(messages, 1)
      BY <1>1, <1>2, <1>3, <1>5, <2>1 DEF NewestLevel
    <3> QED BY <1>1, <2>1, <3>1 DEF StreamingInv, LevelInv
  <2>2. CASE msg.type # "BUFFERING"
    BY <1>2, <1>3, <1>5, <2>2
  <2> QED BY <2>1, <2>2
<1> QED BY <1>1, <1>4, <1>5

(* The callback: pausing and resuming by the level, resuming after a lost  *)
(* clock, and the end.                                                     *)
LEMMA HandlerKeeps ==
  ASSUME StreamingInv, SM!HandleEnd \/ SM!HandleBuffering \/ SM!HandleClockLost
  PROVE  StreamingInv'
<1> USE DEF StreamingInv
<1> DEFINE msg == Head(messages)
<1>1. /\ messages # <<>> /\ messages' = Tail(messages) /\ loop = "run"
      /\ UNCHANGED <<level, buffering, is_live, progressive, drawn>>
  BY DEF SM!HandleEnd, SM!HandleBuffering, SM!HandleClockLost, SM!Received, SM!queueVars
<1>2. /\ messages' \in Seq(SMMessages) /\ msg \in SMMessages
      /\ \A m \in DOMAIN messages' :
           NewestLevel(messages', m) => (messages'[m].level < Full <=> buffering')
      /\ Levels(messages') = {} =>
           IF msg.type = "BUFFERING" THEN msg.level < Full <=> buffering
                                     ELSE Levels(messages) = {}
  BY <1>1, LevelTaken
<1>3. SM!GraphInBounds'
  <2>1. loop' # "undefined"
    BY <1>1 DEF SM!HandleEnd, SM!HandleBuffering, SM!HandleClockLost
  <2> QED BY <1>1, <2>1 DEF SM!GraphInBounds, SM!MarkLeaves, SM!DashesLeave
<1>4. CASE SM!HandleEnd
  <2>1. asked' = "READY" /\ loop' = "quit" /\ UNCHANGED <<buf_lv, resumed>>
    BY <1>4 DEF SM!HandleEnd
  <2>2. SM!TypeOK'
    BY <1>1, <1>2, <2>1, StreamingTypes, TypesFrom
  <2> QED BY <1>2, <1>3, <2>1, <2>2 DEF LevelInv
<1>5. CASE SM!HandleBuffering /\ is_live
  <2>1. UNCHANGED <<asked, buf_lv, loop, resumed>>
    BY <1>5 DEF SM!HandleBuffering
  <2>2. SM!TypeOK'
    BY <1>1, <1>2, <2>1, StreamingTypes, TypesFrom
  <2> QED BY <1>1, <1>2, <1>3, <1>5, <2>1, <2>2 DEF LevelInv
<1>6. CASE SM!HandleBuffering /\ ~is_live
  <2>1. /\ msg.type = "BUFFERING" /\ asked' = SM!StateFor(msg.level) /\ resumed' = FALSE
        /\ buf_lv' \in {msg.level, buf_lv} /\ loop' = loop
    BY <1>6 DEF SM!HandleBuffering, SM!Received
  <2>2. msg.level \in 0 .. Full
    BY <1>2 DEF SMMessages
  <2>3. asked' = IF msg.level < Full THEN "PAUSED" ELSE "PLAYING"
    BY <2>1 DEF SM!StateFor
  <2>4. SM!TypeOK'
    BY <1>1, <1>2, <2>1, <2>2, <2>3, StreamingTypes, TypesFrom
  <2> QED BY <1>1, <1>2, <1>3, <2>1, <2>3, <2>4 DEF LevelInv
<1>7. CASE SM!HandleClockLost
  <2>1. /\ msg.type = "CLOCK_LOST" /\ asked' = "PLAYING" /\ resumed' = TRUE
        /\ UNCHANGED <<buf_lv, loop>>
    BY <1>7 DEF SM!HandleClockLost, SM!Received
  <2>2. SM!TypeOK'
    BY <1>1, <1>2, <2>1, StreamingTypes, TypesFrom
  <2> QED BY <1>1, <1>2, <1>3, <2>1, <2>2 DEF LevelInv
<1> QED BY <1>4, <1>5, <1>6, <1>7

(* What is drawn of one range and one position.                            *)
LEMMA DrawingBounds ==
  ASSUME NEW p \in Positions, NEW start \in RangeEnds, NEW stop \in RangeEnds, start <= stop
  PROVE  LET d == SM!Drawing(p, start, stop)
         IN /\ d \in Drawings /\ d.start = start /\ d.stop = stop
            /\ SM!MarkLeaves(d) <=> 78 * d.position >= 77 * Length
            /\ d.mark > 78 <=> d.position = Length
            /\ SM!DashesLeave(d) => start > 0 /\ stop - start < 3082
            /\ SM!DividesByZero(start, stop) => stop - start < 3082
<1> DEFINE d == SM!Drawing(p, start, stop)
           f == SM!From(start, stop)
           t == SM!To(start, stop)
<1>1. /\ start \in Nat /\ stop \in Nat /\ p \in 0 .. Length
      /\ SM!Mark(p) \in Nat
      /\ SM!Mark(p) >= 78 <=> 78 * p >= 77 * Length
      /\ SM!Mark(p) > 78 <=> p = Length
  BY StreamingConstants, MarkBounds
<1>2. /\ d.position = p /\ d.start = start /\ d.stop = stop /\ d.mark = SM!Mark(p)
      /\ d = [position |-> p, start |-> start, stop |-> stop, mark |-> SM!Mark(p),
              from |-> d.from, to |-> d.to]
  BY DEF SM!Drawing
<1>3. CASE SM!DividesByZero(start, stop)
  <2>1. d.from = 0 /\ d.to = 0
    BY <1>3 DEF SM!Drawing
  <2>2. stop - start < 3082
    <3>1. start < stop => (stop - start >= 78 => f < stop)
      BY <1>1, StartScaled
    <3>2. stop = start \/ stop = f
      BY <1>3 DEF SM!DividesByZero
    <3> HIDE DEF f
    <3> QED BY <1>1, <3>1, <3>2
  <2>3. ~SM!DashesLeave(d)
    BY <2>1 DEF SM!DashesLeave
  <2>4. d \in Drawings
    <3> HIDE DEF d
    <3> QED BY <1>1, <1>2, <2>1 DEF Drawings
  <2> QED BY <1>1, <1>2, <2>2, <2>3, <2>4 DEF SM!MarkLeaves, SM!GRAPH_LENGTH
<1>4. CASE ~SM!DividesByZero(start, stop)
  <2>1. d.from = f /\ d.to = t
    BY <1>4 DEF SM!Drawing
  <2>2. start < stop /\ stop # f
    <3>1. start # stop /\ stop # f
      BY <1>4 DEF SM!DividesByZero
    <3> QED BY <1>1, <3>1
  <2>3. f \in Nat /\ t \in Int /\ (start = 0 \/ stop - start >= 3082 => ~(f < t /\ t > 78))
    BY <1>1, <2>2, DashesInGraph
  <2>4. SM!DashesLeave(d) => start > 0 /\ stop - start < 3082
    <3>1. SM!DashesLeave(d) <=> f < t /\ t > 78
      BY <2>1 DEF SM!DashesLeave, SM!GRAPH_LENGTH
    <3> HIDE DEF f, t, d
    <3> QED BY <1>1, <2>3, <3>1
  <2>5. d \in Drawings
    <3> HIDE DEF d, f, t
    <3> QED BY <1>1, <1>2, <2>1, <2>3 DEF Drawings
  <2> QED BY <1>1, <1>2, <1>4, <2>4, <2>5 DEF SM!MarkLeaves, SM!GRAPH_LENGTH
<1> QED BY <1>3, <1>4

LEMMA RefreshKeepsBounds ==
  ASSUME StreamingInv, SM!refresh_ui
  PROVE  StreamingInv'
<1> USE DEF StreamingInv
<1>1. PICK p \in Positions, start \in RangeEnds, stop \in RangeEnds :
        /\ start <= stop
        /\ drawn' = SM!Drawing(p, start, stop)
        /\ loop' \in IF SM!DividesByZero(start, stop) THEN {"undefined"}
                     ELSE IF SM!DashesLeave(drawn') \/ SM!MarkLeaves(drawn')
                          THEN {"run", "undefined"} ELSE {"run"}
  BY DEF SM!refresh_ui
<1>2. loop = "run"
      /\ UNCHANGED <<level, buffering, messages, asked, is_live, buf_lv, progressive, resumed>>
  BY DEF SM!refresh_ui, SM!queueVars
<1>3. /\ drawn' \in Drawings /\ drawn'.start = start /\ drawn'.stop = stop
      /\ SM!MarkLeaves(drawn') <=> 78 * drawn'.position >= 77 * Length
      /\ drawn'.mark > 78 <=> drawn'.position = Length
      /\ SM!DashesLeave(drawn') => start > 0 /\ stop - start < 3082
      /\ SM!DividesByZero(start, stop) => stop - start < 3082
  <2> DEFINE d == SM!Drawing(p, start, stop)
  <2>1. /\ d \in Drawings /\ d.start = start /\ d.stop = stop
        /\ SM!MarkLeaves(d) <=> 78 * d.position >= 77 * Length
        /\ d.mark > 78 <=> d.position = Length
        /\ SM!DashesLeave(d) => start > 0 /\ stop - start < 3082
        /\ SM!DividesByZero(start, stop) => stop - start < 3082
    BY <1>1, DrawingBounds
  <2>2. drawn' = d
    BY <1>1
  <2> QED BY <2>1, <2>2
<1>4. loop' \in {"run", "undefined"}
  BY <1>1
<1>5. SM!TypeOK'
  BY <1>2, <1>3, <1>4, StreamingTypes, TypesFrom
<1>6. loop' = "undefined" => SM!MarkLeaves(drawn') \/ stop - start < 3082
  BY <1>1, <1>3
<1>7. SM!GraphInBounds'
  <2>1. SM!MarkLeaves(drawn)' <=> SM!MarkLeaves(drawn')
    BY DEF SM!MarkLeaves
  <2>2. SM!DashesLeave(drawn)' <=> SM!DashesLeave(drawn')
    BY DEF SM!DashesLeave
  <2> QED BY <1>3, <1>6, <2>1, <2>2 DEF SM!GraphInBounds, SM!GRAPH_LENGTH, SM!ShortRange
<1>8. LevelInv'
  BY <1>2, <1>4 DEF LevelInv
<1> QED BY <1>5, <1>7, <1>8

LEMMA StartStopKeeps ==
  ASSUME StreamingInv, SM!Start \/ SM!Teardown
  PROVE  StreamingInv'
<1> USE DEF StreamingInv
<1>1. CASE SM!Start
  <2>1. /\ loop = "start" /\ progressive' \in BOOLEAN /\ asked' = "PLAYING"
        /\ is_live' \in BOOLEAN /\ loop' \in {"run", "exit", "undefined"}
        /\ UNCHANGED <<level, buffering, messages, buf_lv, resumed, drawn>>
    BY <1>1 DEF SM!Start, SM!queueVars
  <2>2. SM!TypeOK'
    BY <2>1, StreamingTypes, TypesFrom
  <2>3. progressive' => loop' # "undefined"
    BY <1>1 DEF SM!Start
  <2>4. SM!GraphInBounds'
    BY <2>1, <2>3 DEF SM!GraphInBounds, SM!MarkLeaves, SM!DashesLeave
  <2> QED BY <2>1, <2>2, <2>4 DEF LevelInv, NewestLevel, Levels
<1>2. CASE SM!Teardown
  <2>1. /\ asked' = "NULL" /\ loop' = "exit"
        /\ UNCHANGED <<level, buffering, messages, is_live, buf_lv, progressive, resumed, drawn>>
    BY <1>2 DEF SM!Teardown, SM!queueVars
  <2>2. SM!TypeOK'
    BY <2>1, StreamingTypes, TypesFrom
  <2>3. SM!GraphInBounds'
    BY <2>1 DEF SM!GraphInBounds, SM!MarkLeaves, SM!DashesLeave
  <2> QED BY <2>1, <2>2, <2>3 DEF LevelInv
<1> QED BY <1>1, <1>2

LEMMA StreamingInvariant == Spec => []StreamingInv
<1>1. Init => StreamingInv
  BY StreamingInit DEF Init
<1>2. StreamingInv /\ [Next]_vars => StreamingInv'
  <2> SUFFICES ASSUME StreamingInv, [SM!Next]_streamingVars PROVE StreamingInv'
    BY OneProgramRuns
  <2>1. CASE UNCHANGED streamingVars
    BY <2>1 DEF streamingVars, StreamingInv, SM!TypeOK, LevelInv, SM!GraphInBounds,
                SM!MarkLeaves, SM!DashesLeave
  <2>2. CASE SM!Next
    BY <2>2, StartStopKeeps, HandlerKeeps, RefreshKeepsBounds, QueueKeeps, StreamingPostKeeps
       DEF SM!Next, SM!MainStep
  <2> QED BY <2>1, <2>2
<1> QED BY <1>1, <1>2, PTL DEF Spec

(* Once all levels are handled, streaming.c is paused while the queue      *)
(* buffers, unless a lost clock has resumed it, and plays otherwise: for   *)
(* any low mark and however many levels, lost clocks and ends are on the   *)
(* bus in whatever order.                                                  *)
THEOREM PausedWhileBuffering == Spec => []BufferingCoherent
<1>1. StreamingInv => BufferingCoherent
  <2> SUFFICES ASSUME StreamingInv, loop = "run", ~is_live, SM!InFlight({"BUFFERING"}) = {}
               PROVE  IF buffering THEN asked = "PAUSED" \/ resumed ELSE asked = "PLAYING"
    BY DEF BufferingCoherent, SM!BufferingCoherent
  <2>1. Levels(messages) = {}
    BY DEF SM!InFlight, Levels
  <2> QED BY <2>1 DEF StreamingInv, LevelInv
<1> QED BY <1>1, StreamingInvariant, PTL

(* What refresh_ui of progressive_streaming.c draws, for any stream, any   *)
(* positions and any ranges in parts per million: the mark is on the       *)
(* terminator from the last cell of the stream on, and past the array at   *)
(* its end; dashes pass the graph only for a range that is shorter than    *)
(* 3082 parts and begins after the start of the file; and the division by  *)
(* zero needs as short a range.                                            *)
THEOREM DrawnInBounds == Spec => []GraphInBounds
<1>1. StreamingInv => GraphInBounds
  BY DEF StreamingInv, GraphInBounds
<1> QED BY <1>1, StreamingInvariant, PTL

-----------------------------------------------------------------------------
(* dynamic_pipeline.c and transcoder.c.                                    *)

(* A handler between question and link has a raw pad, a linked pad is one  *)
(* whose handler has returned, and no pad is added before the start or     *)
(* linked after the end.                                                   *)
PlaceInv ==
  /\ \A p \in Pads : handler[p] = "link" => linkerMain # "exit" /\ kind[p] \in PL!Sinks
  /\ \A s \in PL!Sinks : linked[s] # NoPad => handler[linked[s]] = "done"
  /\ linkerMain = "start" => \A p \in Pads : handler[p] = "none"

PadInv == PL!TypeOK /\ PL!RawPadsPlaced /\ PlaceInv

LEMMA PadInit == PL!Init => PadInv
<1> SUFFICES ASSUME PL!Init PROVE PadInv
  OBVIOUS
<1> USE DEF PL!Init, PL!Sinks
<1>1. PL!TypeOK
  <2>1. handler \in [Pads -> {"none", "link", "done"}] /\ kind \in [Pads -> PL!Kinds]
    BY DEF PL!Kinds
  <2>2. linked \in [PL!Sinks -> Pads \cup {NoPad}] /\ refused \in SUBSET Pads
    OBVIOUS
  <2>3. linkerMain \in PL!MainPC
    BY DEF PL!MainPC
  <2>4. linkerBus \in Seq(PL!Messages)
    BY Empty
  <2> QED BY <2>1, <2>2, <2>3, <2>4 DEF PL!TypeOK
<1>2. PL!RawPadsPlaced
  BY DEF PL!RawPadsPlaced
<1>3. PlaceInv
  BY DEF PlaceInv
<1> QED BY <1>1, <1>2, <1>3 DEF PadInv

(* The main thread of the program, and what is posted for it.              *)
LEMMA PadMainKeeps ==
  ASSUME PadInv, PL!MainStep \/ \E m \in PL!Messages : PL!Post(m)
  PROVE  PadInv'
<1> USE DEF PadInv, PlaceInv, PL!RawPadsPlaced, PL!TypeOK, PL!MainPC
<1>1. CASE PL!Start
  BY <1>1 DEF PL!Start
<1>2. ASSUME NEW m \in PL!Messages, PL!Post(m) PROVE PadInv'
  <2>1. linkerBus' \in Seq(PL!Messages)
    BY <1>2 DEF PL!Post
  <2> QED BY <1>2, <2>1 DEF PL!Post
<1>3. CASE PL!HandleMessage
  <2>1. linkerBus' \in Seq(PL!Messages)
    BY <1>3 DEF PL!HandleMessage
  <2>2. linkerMain' \in {"null", "loop"} /\ UNCHANGED <<handler, kind, linked, refused>>
        /\ linkerMain = "loop"
    BY <1>3 DEF PL!HandleMessage
  <2> QED BY <2>1, <2>2
<1>4. CASE PL!SetNull
  BY <1>4 DEF PL!SetNull
<1> QED BY <1>1, <1>2, <1>3, <1>4 DEF PL!MainStep

(* The first half of the handler leaves a pad out only when its sink pad   *)
(* is linked ...                                                           *)
LEMMA PadAddedKeeps ==
  ASSUME PadInv, NEW p \in Pads, PL!pad_added_handler(p)
  PROVE  PadInv'
<1> USE DEF PadInv
<1>1. PICK k \in PL!Kinds :
        /\ kind' = [kind EXCEPT ![p] = k]
        /\ PL!Goto(p, IF k \in PL!Sinks /\ ~PL!IsLinked(k) THEN "link" ELSE "done")
  BY DEF PL!pad_added_handler
<1>2. /\ kind \in [Pads -> PL!Kinds] /\ handler \in [Pads -> {"none", "link", "done"}]
      /\ handler[p] = "none" /\ linkerMain \in {"loop", "null"}
      /\ UNCHANGED <<linked, refused, linkerMain, linkerBus>>
  BY DEF PL!pad_added_handler, PL!TypeOK
<1>3. /\ kind' \in [Pads -> PL!Kinds] /\ kind'[p] = k
      /\ handler' \in [Pads -> {"none", "link", "done"}]
      /\ handler'[p] = IF k \in PL!Sinks /\ linked[k] = NoPad THEN "link" ELSE "done"
      /\ \A q \in Pads \ {p} : kind'[q] = kind[q] /\ handler'[q] = handler[q]
  BY <1>1, <1>2 DEF PL!Goto, PL!IsLinked
<1>4. PL!TypeOK'
  BY <1>2, <1>3 DEF PL!TypeOK
<1>5. \A s \in PL!Sinks : linked[s] # NoPad => linked[s] \in Pads \ {p}
  BY <1>2 DEF PlaceInv, PL!TypeOK
<1>6. PL!RawPadsPlaced'
  BY <1>2, <1>3, <1>5 DEF PL!RawPadsPlaced
<1>7. PlaceInv'
  BY <1>2, <1>3, <1>5 DEF PlaceInv
<1> QED BY <1>4, <1>6, <1>7

(* ... and the second when gst_pad_link refuses it.                        *)
LEMMA LinkPadKeeps ==
  ASSUME PadInv, NEW p \in Pads, PL!LinkPad(p)
  PROVE  PadInv'
<1> USE DEF PadInv
<1> DEFINE k == kind[p]
<1>1. /\ handler \in [Pads -> {"none", "link", "done"}] /\ handler[p] = "link"
      /\ linked \in [PL!Sinks -> Pads \cup {NoPad}] /\ refused \in SUBSET Pads
      /\ k \in PL!Sinks /\ linkerMain # "exit" /\ UNCHANGED <<kind, linkerMain, linkerBus>>
  BY DEF PL!LinkPad, PlaceInv, PL!TypeOK
<1>2. /\ handler' \in [Pads -> {"none", "link", "done"}] /\ handler'[p] = "done"
      /\ \A q \in Pads \ {p} : handler'[q] = handler[q]
  BY <1>1 DEF PL!LinkPad, PL!Goto
<1>3. /\ linked' \in [PL!Sinks -> Pads \cup {NoPad}] /\ refused' \in SUBSET Pads
      /\ refused \subseteq refused'
      /\ \A s \in PL!Sinks : linked'[s] = linked[s] \/ (s = k /\ linked[s] = NoPad /\ linked'[s] = p)
      /\ p \in refused' \/ linked'[k] # NoPad
  <2>1. CASE linked[k] # NoPad /\ UNCHANGED <<linked, refused>>
    BY <1>1, <2>1
  <2>2. CASE linked[k] = NoPad /\ linked' = [linked EXCEPT ![k] = p] /\ UNCHANGED refused
    <3>1. p # NoPad
      BY TutorialsAssumption DEF PL!PadAssumption
    <3> QED BY <1>1, <2>2, <3>1
  <2>3. CASE refused' = refused \cup {p} /\ UNCHANGED linked
    BY <1>1, <2>3
  <2> QED BY <2>1, <2>2, <2>3 DEF PL!LinkPad
<1>4. PL!TypeOK'
  BY <1>1, <1>2, <1>3 DEF PL!TypeOK
<1>5. PL!RawPadsPlaced'
  BY <1>1, <1>2, <1>3 DEF PL!RawPadsPlaced
<1>6. PlaceInv'
  BY <1>1, <1>2, <1>3 DEF PlaceInv
<1> QED BY <1>4, <1>5, <1>6

LEMMA PadInvariant == Spec => []PadInv
<1>1. Init => PadInv
  BY PadInit DEF Init
<1>2. PadInv /\ [Next]_vars => PadInv'
  <2> SUFFICES ASSUME PadInv, [PL!Next]_padVars PROVE PadInv'
    BY OneProgramRuns
  <2>1. CASE PL!Next
    BY <2>1, PadMainKeeps, PadAddedKeeps, LinkPadKeeps DEF PL!Next
  <2>2. CASE UNCHANGED padVars
    BY <2>2 DEF padVars, PadInv, PlaceInv, PL!TypeOK, PL!RawPadsPlaced
  <2> QED BY <2>1, <2>2
<1> QED BY <1>1, <1>2, PTL DEF Spec

(* Whichever streaming threads come in between the question whether a sink *)
(* pad is linked and the link, pad_added_handler leaves a raw pad out only *)
(* if its sink pad has another or the caps were refused: for any pads.     *)
THEOREM NoPadLeftOut == Spec => []RawPadsPlaced
<1>1. PadInv => RawPadsPlaced
  BY DEF PadInv, RawPadsPlaced
<1> QED BY <1>1, PadInvariant, PTL

-----------------------------------------------------------------------------
(* multithread.c and app_src_sink.c.                                       *)

(* What a branch has taken from its queue before the pipeline plays.       *)
BufferCount(b) == IF b \in prerolled THEN need[b] ELSE collected[b]

(* The tee has served the branches in turn, so that each has been given as *)
(* many buffers as the others, or one more if its turn is over.            *)
ServedInTurn ==
  \E n \in Nat : \A b \in TB!Branches :
    queued[b] + BufferCount(b) = IF b < turn THEN n + 1 ELSE n

TeeInv ==
  /\ TB!TypeOK
  /\ \A b \in prerolled : collected[b] = 0
  /\ teePlaying => prerolled = {}
  /\ teeMain = "setup" =>
       /\ turn = 1 /\ prerolled = {}
       /\ \A b \in TB!Branches : queued[b] = 0 /\ collected[b] = 0
  /\ teeMain = "wait" => request = TB!Branches
  /\ teeMain \in {"setup", "wait"} /\ ~teePlaying => ServedInTurn

(* The thread of the source or of a branch has a step to take, or all      *)
(* sinks have prerolled.                                                   *)
StreamGoesOn ==
  teeMain = "wait" =>
    \/ TB!Accepts(turn)
    \/ \E b \in TB!Branches : queued[b] > 0 /\ b \notin prerolled
    \/ prerolled = TB!Branches

LEMMA TeeConstants ==
  /\ NumBranches \in Nat /\ NumBranches >= 1 /\ Cap \in Nat /\ Cap >= 1
  /\ TB!Branches = 1 .. NumBranches
  /\ \A n \in Needs \cup {1} : n \in Nat /\ n >= 1 /\ n <= Cap + 1
BY TutorialsAssumption DEF TB!TeeAssumption, TB!Branches

LEMMA TeeTypes ==
  ASSUME TB!TypeOK
  PROVE  /\ turn \in TB!Branches /\ prerolled \in SUBSET TB!Branches
         /\ \A b \in TB!Branches :
              /\ need[b] \in Nat /\ need[b] >= 1 /\ need[b] <= Cap + 1
              /\ queued[b] \in Nat /\ queued[b] <= Cap
              /\ collected[b] \in Nat /\ collected[b] < need[b]
BY TeeConstants DEF TB!TypeOK

(* If the tee waits for a full queue whose branch has prerolled, another   *)
(* branch has been given as much as that one, which is more than it can    *)
(* have collected: its queue is not empty.                                 *)
LEMMA TeeNotStuck == TeeInv => StreamGoesOn
<1> SUFFICES ASSUME TeeInv, teeMain = "wait", ~TB!Accepts(turn),
                    NEW b \in TB!Branches \ prerolled
             PROVE  \E c \in TB!Branches : queued[c] > 0 /\ c \notin prerolled
  BY TeeTypes DEF StreamGoesOn, TeeInv
<1> USE DEF TeeInv
<1>1. turn \in TB!Branches /\ queued[turn] = Cap
  BY TeeTypes, TeeConstants DEF TB!Accepts
<1>2. CASE turn \notin prerolled
  BY <1>1, <1>2, TeeConstants
<1>3. CASE turn \in prerolled
  <2>1. PICK n \in Nat : \A c \in TB!Branches :
          queued[c] + BufferCount(c) = IF c < turn THEN n + 1 ELSE n
    BY <1>3 DEF ServedInTurn
  <2>2. n = Cap + need[turn]
    BY <1>1, <1>3, <2>1, TeeConstants DEF BufferCount
  <2>3. queued[b] + collected[b] >= n
    BY <2>1, TeeConstants DEF BufferCount
  <2>4. queued[b] > 0
    <3>1. need[turn] \in Nat /\ need[turn] >= 1 /\ queued[b] \in Nat
          /\ collected[b] \in Nat /\ collected[b] <= Cap
      BY <1>1, TeeTypes, TeeConstants
    <3> QED BY <2>2, <2>3, <3>1, TeeConstants
  <2> QED BY <2>4
<1> QED BY <1>2, <1>3

LEMMA TeeInit == TB!Init => TeeInv
<1> SUFFICES ASSUME TB!Init PROVE TeeInv
  OBVIOUS
<1> USE TeeConstants DEF TB!Init
<1>1. TB!TypeOK
  <2>1. /\ need \in [TB!Branches -> Needs \cup {1}] /\ queued \in [TB!Branches -> 0 .. Cap]
        /\ collected \in [TB!Branches -> 0 .. Cap] /\ \A b \in TB!Branches : collected[b] < need[b]
        /\ turn \in TB!Branches
    OBVIOUS
  <2>2. request \in SUBSET TB!Branches /\ prerolled \in SUBSET TB!Branches
        /\ teeMain \in {"setup", "wait", "release", "null", "exit"}
    OBVIOUS
  <2>3. {teePlaying, ended} \subseteq BOOLEAN
    BY Zenon
  <2> QED BY <2>1, <2>2, <2>3 DEF TB!TypeOK
<1>2. ServedInTurn
  <2>1. \A b \in TB!Branches : queued[b] + BufferCount(b) = IF b < turn THEN 0 + 1 ELSE 0
    BY DEF BufferCount
  <2> QED BY <2>1 DEF ServedInTurn
<1> QED BY <1>1, <1>2 DEF TeeInv

(* The main thread.  Nothing is counted but while it sets up and waits.    *)
LEMMA TeeMainKeeps ==
  ASSUME TeeInv, TB!MainStep \/ TB!PostEnd
  PROVE  TeeInv'
<1> USE DEF TeeInv
<1>1. CASE TB!Setup
  <2>1. need' \in [TB!Branches -> Needs \cup {1}]
        /\ UNCHANGED <<turn, queued, collected, prerolled, teePlaying, ended>>
    BY <1>1 DEF TB!Setup
  <2>2. \A b \in TB!Branches : collected'[b] < need'[b]
    BY <1>1, <2>1, TeeConstants DEF TB!Setup
  <2>3. TB!TypeOK'
    BY <1>1, <2>1, <2>2 DEF TB!Setup, TB!TypeOK
  <2>4. ServedInTurn'
    <3>1. \A b \in TB!Branches : queued'[b] + BufferCount(b)' = IF b < turn' THEN 0 + 1 ELSE 0
      BY <1>1, <2>1, TeeConstants DEF TB!Setup, BufferCount
    <3> QED BY <3>1 DEF ServedInTurn
  <2> QED BY <1>1, <2>1, <2>3, <2>4 DEF TB!Setup
<1>2. CASE TB!Popped
  BY <1>2 DEF TB!Popped, TB!TypeOK
<1>3. CASE TB!Release
  <2>1. request' \subseteq request
    BY <1>3 DEF TB!Release
  <2> QED BY <1>3, <2>1 DEF TB!Release, TB!TypeOK
<1>4. CASE TB!SetNull
  <2>1. /\ \A b \in TB!Branches : collected'[b] = 0 /\ collected'[b] < need'[b]
        /\ collected' \in [TB!Branches -> 0 .. Cap] /\ queued' \in [TB!Branches -> 0 .. Cap]
    BY <1>4, TeeTypes, TeeConstants DEF TB!SetNull
  <2>2. teePlaying' \in BOOLEAN /\ prerolled' = {} /\ teeMain' = "exit"
        /\ UNCHANGED <<need, request, turn, ended>>
    BY <1>4 DEF TB!SetNull
  <2>3. TB!TypeOK'
    BY <2>1, <2>2 DEF TB!TypeOK
  <2> QED BY <2>1, <2>2, <2>3
<1>5. CASE TB!PostEnd
  BY <1>5 DEF TB!PostEnd, TB!TypeOK, ServedInTurn, BufferCount
<1> QED BY <1>1, <1>2, <1>3, <1>4, <1>5 DEF TB!MainStep

(* The tee gives a buffer to the branch whose turn it is.                  *)
LEMMA TeePushKeeps ==
  ASSUME TeeInv, TB!TeePush
  PROVE  TeeInv'
<1> USE DEF TeeInv
<1>1. /\ turn \in TB!Branches /\ turn' = (turn % NumBranches) + 1
      /\ UNCHANGED <<need, request, collected, prerolled, teePlaying, teeMain, ended>>
  BY TeeTypes DEF TB!TeePush
<1>2. turn' = IF turn = NumBranches THEN 1 ELSE turn + 1
  BY <1>1, TeeConstants
<1>3. turn' \in TB!Branches
  BY <1>1, <1>2, TeeConstants
<1>4. /\ queued' \in [TB!Branches -> 0 .. Cap]
      /\ \A b \in TB!Branches \ {turn} : queued'[b] = queued[b]
      /\ turn \in request => queued'[turn] = queued[turn] + 1
  <2>1. queued \in [TB!Branches -> 0 .. Cap] /\ queued[turn] \in Nat /\ turn \in TB!Branches
    BY TeeTypes DEF TB!TypeOK
  <2>2. CASE turn \in request
    <3>1. queued[turn] < Cap /\ queued' = [queued EXCEPT ![turn] = queued[turn] + 1]
      BY <2>2 DEF TB!TeePush, TB!Accepts
    <3> QED BY <2>1, <3>1, TeeConstants
  <2>3. CASE turn \notin request
    BY <2>1, <2>3 DEF TB!TeePush
  <2> QED BY <2>2, <2>3
<1>5. TB!TypeOK'
  BY <1>1, <1>3, <1>4 DEF TB!TypeOK
<1>6. teeMain # "setup"
  BY DEF TB!TeePush, TB!Streams
<1>7. ASSUME teeMain = "wait", ~teePlaying PROVE ServedInTurn'
  <2>1. PICK n \in Nat : \A b \in TB!Branches :
          queued[b] + BufferCount(b) = IF b < turn THEN n + 1 ELSE n
    BY <1>7 DEF ServedInTurn
  <2>2. \A b \in TB!Branches : BufferCount(b)' = BufferCount(b) /\ BufferCount(b) \in Nat
    BY <1>1, TeeTypes DEF BufferCount
  <2>3. \A b \in TB!Branches :
          queued'[b] + BufferCount(b)' = IF b <= turn THEN n + 1 ELSE n
    <3> SUFFICES ASSUME NEW b \in TB!Branches
                 PROVE  queued'[b] + BufferCount(b)' = IF b <= turn THEN n + 1 ELSE n
      OBVIOUS
    <3>1. /\ b \in Int /\ turn \in Int /\ queued[b] \in Nat
          /\ queued[b] + BufferCount(b) = IF b < turn THEN n + 1 ELSE n
      BY <1>1, <2>1, TeeTypes, TeeConstants
    <3>2. CASE b = turn
      BY <1>1, <1>4, <1>7, <2>2, <3>1, <3>2
    <3>3. CASE b # turn
      BY <1>4, <2>2, <3>1, <3>3
    <3> QED BY <3>2, <3>3
  <2>4. CASE turn = NumBranches
    <3>1. \A b \in TB!Branches :
            queued'[b] + BufferCount(b)' = IF b < turn' THEN (n + 1) + 1 ELSE n + 1
      BY <1>2, <2>3, <2>4, TeeConstants
    <3> QED BY <3>1 DEF ServedInTurn
  <2>5. CASE turn # NumBranches
    <3>1. \A b \in TB!Branches :
            queued'[b] + BufferCount(b)' = IF b < turn' THEN n + 1 ELSE n
      BY <1>1, <1>2, <2>3, <2>5, TeeConstants
    <3> QED BY <3>1 DEF ServedInTurn
  <2> QED BY <2>4, <2>5
<1> QED BY <1>1, <1>5, <1>6, <1>7

(* A branch takes a buffer, which is one more that it has collected, or    *)
(* the last that its sink needs.                                           *)
LEMMA BranchPullKeeps ==
  ASSUME TeeInv, NEW b \in TB!Branches, TB!BranchPull(b)
  PROVE  TeeInv'
<1> USE DEF TeeInv
<1> DEFINE c == (collected[b] + 1) % need[b]
<1>1. /\ b \notin prerolled /\ queued[b] > 0 /\ teeMain # "setup"
      /\ UNCHANGED <<need, request, turn, teePlaying, teeMain, ended>>
  BY DEF TB!BranchPull, TB!Streams
<1>2. c = IF collected[b] + 1 = need[b] THEN 0 ELSE collected[b] + 1
  BY TeeTypes
<1>3. /\ queued' \in [TB!Branches -> 0 .. Cap] /\ queued'[b] = queued[b] - 1
      /\ \A a \in TB!Branches \ {b} : queued'[a] = queued[a]
  BY <1>1, TeeTypes, TeeConstants DEF TB!BranchPull, TB!TypeOK
<1>4. collected \in [TB!Branches -> 0 .. Cap]
  BY DEF TB!TypeOK
<1>5. collected'[b] = c /\ \A a \in TB!Branches \ {b} : collected'[a] = collected[a]
  BY <1>4 DEF TB!BranchPull
<1>6. prerolled' = IF c = 0 /\ ~teePlaying THEN prerolled \cup {b} ELSE prerolled
  BY <1>5 DEF TB!BranchPull
<1>7. TB!TypeOK'
  <2>1. \A a \in TB!Branches : collected'[a] < need'[a]
    BY <1>1, <1>2, <1>5, TeeTypes
  <2>2. collected' \in [TB!Branches -> 0 .. Cap]
    <3>1. collected[b] \in 0 .. Cap /\ need[b] \in Nat /\ need[b] <= Cap + 1
          /\ collected[b] < need[b] /\ Cap \in Nat
      BY <1>4, TeeTypes, TeeConstants
    <3>2. c \in 0 .. Cap
      BY <1>2, <3>1
    <3>3. collected' = [collected EXCEPT ![b] = c]
      BY DEF TB!BranchPull
    <3> HIDE DEF c
    <3> QED BY <1>4, <3>2, <3>3
  <2> QED BY <1>1, <1>3, <1>6, <2>1, <2>2 DEF TB!TypeOK
<1>8. \A a \in prerolled' : collected'[a] = 0
  <2>1. prerolled \subseteq TB!Branches /\ \A a \in prerolled : collected[a] = 0
    BY TeeTypes
  <2> QED BY <1>1, <1>5, <1>6, <2>1
<1>9. ASSUME teeMain = "wait", ~teePlaying PROVE ServedInTurn'
  <2>1. PICK n \in Nat : \A a \in TB!Branches :
          queued[a] + BufferCount(a) = IF a < turn THEN n + 1 ELSE n
    BY <1>9 DEF ServedInTurn
  <2>2. BufferCount(b) = collected[b] /\ BufferCount(b)' = collected[b] + 1
    BY <1>1, <1>2, <1>5, <1>6, <1>9, TeeTypes DEF BufferCount
  <2>3. \A a \in TB!Branches \ {b} : BufferCount(a)' = BufferCount(a)
    BY <1>1, <1>5, <1>6 DEF BufferCount
  <2>4. \A a \in TB!Branches :
          queued'[a] + BufferCount(a)' = IF a < turn' THEN n + 1 ELSE n
    BY <1>1, <1>3, <2>1, <2>2, <2>3, TeeTypes
  <2> QED BY <2>4 DEF ServedInTurn
<1> QED BY <1>1, <1>6, <1>7, <1>8, <1>9

LEMMA TeeInvariant == Spec => []TeeInv
<1>1. Init => TeeInv
  BY TeeInit DEF Init
<1>2. TeeInv /\ [Next]_vars => TeeInv'
  <2> SUFFICES ASSUME TeeInv, [TB!Next]_teeVars PROVE TeeInv'
    BY OneProgramRuns
  <2>1. CASE TB!Preroll
    BY <2>1 DEF TB!Preroll, TB!Streams, TeeInv, TB!TypeOK
  <2>2. CASE UNCHANGED teeVars
    BY <2>2 DEF teeVars, TeeInv, TB!TypeOK, ServedInTurn, BufferCount
  <2> QED BY <2>1, <2>2, TeeMainKeeps, TeePushKeeps, BranchPullKeeps DEF TB!Next
<1> QED BY <1>1, <1>2, PTL DEF Spec

(* The threads of multithread.c never wait for each other in a circle:     *)
(* until an error or the end, the tee can go on, or a branch can take a    *)
(* buffer, or all sinks have prerolled and the pipeline plays.  For any    *)
(* number of branches and any queues that hold what a branch collects.     *)
THEOREM TeeNeverDeadlocks == Spec => []StreamGoesOn
BY TeeInvariant, TeeNotStuck, PTL

-----------------------------------------------------------------------------
(* playback_basic.c.                                                       *)

(* The rate kept is the one the keys ask for, and while a seek is being    *)
(* sent it names a position the pipeline had after the last key.           *)
KeysInv == rate = typed /\ (rateLoop = "send" => position \in passed)

RateInv == RC!TypeOK /\ KeysInv

LEMMA RateInit == RC!Init => RateInv
<1> SUFFICES ASSUME RC!Init PROVE RateInv
  OBVIOUS
<1> USE DEF RC!Init
<1>1. RC!Normal \in RC!Rate
  BY TutorialsAssumption DEF RC!Normal, RC!Rate, RC!RateAssumption
<1>2. {position, at} \cup passed \subseteq 0 .. End
  BY TutorialsAssumption DEF RC!RateAssumption
<1>3. rateLoop \in {"start", "idle", "send", "exit"} /\ video_sink \in {"NULL", "sink"}
      /\ rateAsked \in {"NULL", "PAUSED", "PLAYING"} /\ {rate, applied, typed} \subseteq RC!Rate
  BY <1>1
<1>4. ratePlaying \in BOOLEAN
  OBVIOUS
<1>5. RC!TypeOK
  BY <1>2, <1>3, <1>4 DEF RC!TypeOK
<1> QED BY <1>5 DEF RateInv, KeysInv

LEMMA RateNext ==
  ASSUME RateInv, RC!Next
  PROVE  RateInv' /\ (applied' # applied => applied' = typed /\ at' \in passed)
<1> USE DEF RateInv, RC!TypeOK, KeysInv
<1>0. /\ rateLoop \in {"start", "idle", "send", "exit"} /\ ratePlaying \in BOOLEAN
      /\ rate \in RC!Rate /\ applied \in RC!Rate /\ typed \in RC!Rate
      /\ video_sink \in {"NULL", "sink"} /\ position \in 0 .. End /\ at \in 0 .. End
      /\ passed \in SUBSET (0 .. End) /\ rateAsked \in {"NULL", "PAUSED", "PLAYING"}
  OBVIOUS
<1>1. CASE RC!Start
  BY <1>0, <1>1 DEF RC!Start
<1>2. CASE RC!Play
  BY <1>0, <1>2 DEF RC!Play
<1>3. CASE RC!SendSeek
  <2>1. applied' \in {rate, applied} /\ (applied' # applied => at' = position)
        /\ at' \in {at, position}
    BY <1>3 DEF RC!SendSeek, RC!Segment
  <2> QED BY <1>0, <1>3, <2>1 DEF RC!SendSeek, RC!GetSink
<1>4. CASE RC!TogglePlaying
  BY <1>0, <1>4 DEF RC!TogglePlaying
<1>5. CASE RC!StepFrame
  <2>1. at' \in 0 .. End /\ video_sink' \in {"NULL", "sink"}
    BY <1>0, <1>5 DEF RC!StepFrame, RC!GetSink
  <2> QED BY <1>0, <1>5, <2>1 DEF RC!StepFrame
<1>6. CASE RC!Quit
  BY <1>0, <1>6 DEF RC!Quit
<1>7. ASSUME NEW key \in {"S", "s", "d"}, RC!RateKey(key)
      PROVE  RateInv' /\ (applied' # applied => applied' = typed /\ at' \in passed)
  <2>1. rate' = RC!Changed(rate, key) /\ rate' \in RC!Rate /\ typed' = rate'
    BY <1>7 DEF RC!RateKey
  <2> QED BY <1>0, <1>7, <2>1 DEF RC!RateKey
<1> QED BY <1>1, <1>2, <1>3, <1>4, <1>5, <1>6, <1>7 DEF RC!Next

LEMMA RateInvariant == Spec => []RateInv
<1>1. Init => RateInv
  BY RateInit DEF Init
<1>2. RateInv /\ [Next]_vars => RateInv'
  <2> SUFFICES ASSUME RateInv, [RC!Next]_rateVars PROVE RateInv'
    BY OneProgramRuns
  <2>1. CASE RC!Next
    BY <2>1, RateNext
  <2>2. CASE UNCHANGED rateVars
    BY <2>2 DEF rateVars, RateInv, RC!TypeOK, KeysInv
  <2> QED BY <2>1, <2>2
<1> QED BY <1>1, <1>2, PTL DEF Spec

(* When the pipeline of playback_basic.c takes another rate, it is the one *)
(* that all keys ask for, also those whose seek was lost, and it goes on   *)
(* from where it was after the last key: for any stream and any speeds.    *)
THEOREM SeeksFollowKeys == Spec => RateFollowsKeys
<1>1. RateInv /\ [Next]_vars => [applied' # applied => applied' = typed /\ at' \in passed]_(RC!vars)
  <2> SUFFICES ASSUME RateInv, [RC!Next]_rateVars
               PROVE  [applied' # applied => applied' = typed /\ at' \in passed]_(RC!vars)
    BY OneProgramRuns
  <2>1. CASE RC!Next
    BY <2>1, RateNext
  <2>2. CASE UNCHANGED rateVars
    BY <2>2 DEF rateVars, RC!vars
  <2> QED BY <2>1, <2>2
<1> QED BY <1>1, RateInvariant, PTL DEF Spec, RateFollowsKeys, RC!RateFollowsKeys

-----------------------------------------------------------------------------
(* pad_capabilities.c.                                                     *)

(* The pipeline is in PAUSED or beyond, and says so on the bus, only after *)
(* the caps have been negotiated.                                          *)
NegotiatedInv ==
  /\ pipeline > 2 => negotiated
  /\ \A k \in DOMAIN unread :
       CAPS!Reported(unread[k]) /\ unread[k].new_state \in {"PAUSED", "PLAYING"} => negotiated

CapsInv == CAPS!TypeOK /\ CAPS!CapsNegotiated /\ NegotiatedInv

LEMMA StateNames ==
  /\ DOMAIN CAPS!States = 1 .. 4 /\ Len(CAPS!States) = 4
  /\ CAPS!States[1] = "NULL" /\ CAPS!States[2] = "READY"
  /\ CAPS!States[3] = "PAUSED" /\ CAPS!States[4] = "PLAYING"
  /\ CAPS!Names = {"NULL", "READY", "PAUSED", "PLAYING"}
<1>1. /\ DOMAIN CAPS!States = 1 .. 4 /\ Len(CAPS!States) = 4
      /\ CAPS!States[1] = "NULL" /\ CAPS!States[2] = "READY"
      /\ CAPS!States[3] = "PAUSED" /\ CAPS!States[4] = "PLAYING"
  BY DEF CAPS!States
<1>2. CAPS!Names = {CAPS!States[n] : n \in 1 .. 4}
  BY <1>1 DEF CAPS!Names
<1>3. 1 .. 4 = {1, 2, 3, 4}
  OBVIOUS
<1> QED BY <1>1, <1>2, <1>3

LEMMA CapsInit == CAPS!Init => CapsInv
<1> SUFFICES ASSUME CAPS!Init PROVE CapsInv
  OBVIOUS
<1> USE StateNames DEF CAPS!Init
<1>1. CAPS!TypeOK
  <2>1. {source, pipeline} \subseteq DOMAIN CAPS!States
    OBVIOUS
  <2>4. negotiated \in BOOLEAN /\ capsMain \in {"start", "loop", "exit"}
    OBVIOUS
  <2>2. unread \in Seq(CAPS!Messages)
    BY Empty
  <2>3. capsPrinted \in [heading : CAPS!Names, caps : {"none", "current", "acceptable"}]
    OBVIOUS
  <2> QED BY <2>1, <2>2, <2>3, <2>4 DEF CAPS!TypeOK
<1>2. CAPS!CapsNegotiated
  BY DEF CAPS!CapsNegotiated
<1>3. NegotiatedInv
  BY DEF NegotiatedInv
<1> QED BY <1>1, <1>2, <1>3 DEF CapsInv

(* What is posted by the source, the pipeline going up, or an end.         *)
LEMMA CapsPostKeeps ==
  ASSUME CapsInv, NEW msg \in CAPS!Messages, unread' = Append(unread, msg),
         source' \in DOMAIN CAPS!States, pipeline' \in DOMAIN CAPS!States,
         UNCHANGED <<negotiated, capsMain, capsPrinted>>,
         pipeline' > 2 => negotiated,
         CAPS!Reported(msg) /\ msg.new_state \in {"PAUSED", "PLAYING"} => negotiated
  PROVE  CapsInv'
<1> USE DEF CapsInv
<1>1. /\ unread \in Seq(CAPS!Messages) /\ unread' \in Seq(CAPS!Messages)
      /\ Len(unread) \in Nat /\ DOMAIN unread = 1 .. Len(unread)
      /\ DOMAIN unread' = 1 .. Len(unread) + 1 /\ unread'[Len(unread) + 1] = msg
      /\ \A k \in 1 .. Len(unread) : unread'[k] = unread[k]
  BY Added DEF CAPS!TypeOK
<1>2. CAPS!TypeOK'
  BY <1>1 DEF CAPS!TypeOK
<1>3. CAPS!CapsNegotiated'
  BY DEF CAPS!CapsNegotiated
<1>4. NegotiatedInv'
  BY <1>1 DEF NegotiatedInv
<1> QED BY <1>2, <1>3, <1>4

LEMMA CapsPipelineKeeps ==
  ASSUME CapsInv, CAPS!SourceUp \/ CAPS!Negotiate \/ CAPS!PipelineUp \/ CAPS!PostEnd
  PROVE  CapsInv'
<1> USE DEF CapsInv
<1>1. source \in 1 .. 4 /\ pipeline \in 1 .. 4
  BY StateNames DEF CAPS!TypeOK
<1>2. CASE CAPS!SourceUp
  <2> DEFINE msg == CAPS!Changed("source", source')
  <2>1. source' \in 1 .. 4
    BY <1>1, <1>2, StateNames DEF CAPS!SourceUp
  <2>2. msg \in CAPS!Messages /\ msg.src = "source"
    BY <2>1, StateNames DEF CAPS!Changed, CAPS!Messages
  <2>3. ~CAPS!Reported(msg)
    BY <2>2 DEF CAPS!Reported
  <2> QED BY <1>1, <1>2, <2>1, <2>2, <2>3, StateNames, CapsPostKeeps
          DEF CAPS!SourceUp, NegotiatedInv
<1>3. CASE CAPS!Negotiate
  BY <1>3 DEF CAPS!Negotiate, CAPS!TypeOK, CAPS!CapsNegotiated, NegotiatedInv
<1>4. CASE CAPS!PipelineUp
  <2> DEFINE msg == CAPS!Changed("pipeline", pipeline')
  <2>1. pipeline' = pipeline + 1 /\ pipeline' \in 1 .. 4 /\ (pipeline' > 2 => negotiated)
    BY <1>1, <1>4, StateNames DEF CAPS!PipelineUp, CAPS!TypeOK
  <2>2. msg \in CAPS!Messages /\ msg.new_state = CAPS!States[pipeline']
    BY <2>1, StateNames DEF CAPS!Changed, CAPS!Messages
  <2>3. msg.new_state \in {"PAUSED", "PLAYING"} => negotiated
    <3>1. pipeline' = 2 \/ pipeline' > 2
      BY <1>1, <2>1
    <3> QED BY <2>1, <2>2, <3>1, StateNames
  <2> QED BY <1>1, <1>4, <2>1, <2>2, <2>3, StateNames, CapsPostKeeps DEF CAPS!PipelineUp
<1>5. CASE CAPS!PostEnd
  <2>1. PICK type \in {"ERROR", "EOS"} : unread' = Append(unread, [type |-> type])
    BY <1>5 DEF CAPS!PostEnd
  <2>2. [type |-> type] \in CAPS!Messages /\ ~CAPS!Reported([type |-> type])
    BY DEF CAPS!Messages, CAPS!Reported
  <2> QED BY <1>1, <1>5, <2>1, <2>2, StateNames, CapsPostKeeps DEF CAPS!PostEnd, NegotiatedInv
<1> QED BY <1>2, <1>3, <1>4, <1>5

(* What is printed is printed for a message, whose caps have been there    *)
(* since it was posted.                                                    *)
LEMMA CapsMainKeeps ==
  ASSUME CapsInv, CAPS!MainStep
  PROVE  CapsInv'
<1> USE DEF CapsInv
<1>1. CASE CAPS!Start
  <2>1. capsPrinted' \in [heading : CAPS!Names, caps : {"none", "current", "acceptable"}]
        /\ capsPrinted'.heading = "NULL"
    BY <1>1, StateNames DEF CAPS!Start, CAPS!print_pad_capabilities
  <2> QED BY <1>1, <2>1 DEF CAPS!Start, CAPS!TypeOK, CAPS!CapsNegotiated, NegotiatedInv
<1>2. CASE CAPS!HandleMessage
  <2> DEFINE msg == Head(unread)
  <2>1. /\ unread \in Seq(CAPS!Messages) /\ unread # <<>> /\ unread' = Tail(unread)
        /\ UNCHANGED <<source, pipeline, negotiated>>
        /\ capsMain' \in {"exit", "loop"}
    BY <1>2 DEF CAPS!HandleMessage, CAPS!TypeOK
  <2>2. /\ unread' \in Seq(CAPS!Messages) /\ msg \in CAPS!Messages /\ msg = unread[1]
        /\ Len(unread) \in Nat /\ Len(unread) >= 1 /\ DOMAIN unread = 1 .. Len(unread)
        /\ DOMAIN unread' = 1 .. Len(unread) - 1
        /\ \A k \in 1 .. Len(unread) - 1 : unread'[k] = unread[k + 1]
    BY <2>1, Taken
  <2>3. NegotiatedInv'
    BY <2>1, <2>2 DEF NegotiatedInv
  <2>4. /\ capsPrinted' \in [heading : CAPS!Names, caps : {"none", "current", "acceptable"}]
        /\ CAPS!CapsNegotiated'
    <3>1. CASE CAPS!Reported(msg)
      <4>1. capsPrinted' = [heading |-> msg.new_state,
                            caps |-> IF negotiated THEN "current" ELSE "acceptable"]
        BY <1>2, <3>1 DEF CAPS!HandleMessage, CAPS!print_pad_capabilities
      <4>2. msg.new_state \in CAPS!Names
        BY <2>2, <3>1 DEF CAPS!Reported, CAPS!Messages
      <4>3. msg.new_state \in {"PAUSED", "PLAYING"} => negotiated
        BY <2>2, <3>1 DEF NegotiatedInv
      <4> QED BY <4>1, <4>2, <4>3 DEF CAPS!CapsNegotiated
    <3>2. CASE ~CAPS!Reported(msg)
      BY <1>2, <3>2 DEF CAPS!HandleMessage, CAPS!TypeOK, CAPS!CapsNegotiated
    <3> QED BY <3>1, <3>2
  <2> QED BY <2>1, <2>2, <2>3, <2>4 DEF CAPS!TypeOK
<1> QED BY <1>1, <1>2 DEF CAPS!MainStep

LEMMA CapsInvariant == Spec => []CapsInv
<1>1. Init => CapsInv
  BY CapsInit DEF Init
<1>2. CapsInv /\ [Next]_vars => CapsInv'
  <2> SUFFICES ASSUME CapsInv, [CAPS!Next]_capsVars PROVE CapsInv'
    BY OneProgramRuns
  <2>1. CASE CAPS!Next
    BY <2>1, CapsPipelineKeeps, CapsMainKeeps DEF CAPS!Next
  <2>2. CASE UNCHANGED capsVars
    BY <2>2 DEF capsVars, CapsInv, CAPS!TypeOK, CAPS!CapsNegotiated, NegotiatedInv
  <2> QED BY <2>1, <2>2
<1> QED BY <1>1, <1>2, PTL DEF Spec

(* Caps printed under PAUSED or PLAYING are those that were negotiated,    *)
(* however far the pipeline was ahead of the messages the main thread of   *)
(* pad_capabilities.c reads: with any number of them on the bus.           *)
THEOREM PrintedCapsNegotiated == Spec => []CapsNegotiated
<1>1. CapsInv => CapsNegotiated
  BY DEF CapsInv, CapsNegotiated
<1> QED BY <1>1, CapsInvariant, PTL

-----------------------------------------------------------------------------
(* discoverer.c.                                                           *)

(* The lines there will be if nothing is found below what is to be printed.*)
Lines == topologyPrinted \o calls

(* The line of what info k hangs from is printed, is indented less by one, *)
(* and no line after it is indented less than k's.                         *)
Placed(q, last, above, k) ==
  \E j \in 1 .. last :
    /\ j < k
    /\ q[j].depth + 1 = q[k].depth
    /\ q[j].info = above[q[k].info]
    /\ \A l \in j + 1 .. k - 1 : q[l].depth >= q[k].depth

(* The root comes first, no info comes twice, every other one is below a   *)
(* line, and of those that hang from the info of a printed line the shown  *)
(* ones are there and the others are not.                                  *)
LinesInv(q, last, t) ==
  /\ q # <<>> => q[1] = DI!Call(DI!root, 1)
  /\ \A k, l \in DOMAIN q : q[k].info = q[l].info => k = l
  /\ \A k \in DOMAIN q \ {1} : q[k].info # DI!root /\ Placed(q, last, t.above, k)
  /\ \A l \in 1 .. last : \A j \in DI!Below(t, q[l].info) :
       (\E k \in DOMAIN q : q[k].info = j) <=> j \in DI!Shown(t, q[l].info)

TopologyInv ==
  /\ topology.size \in Nat
  /\ topologyPrinted \in Seq([info : DI!Infos(topology), depth : Nat])
  /\ calls \in Seq([info : DI!Infos(topology), depth : Nat])
  /\ Lines # <<>> => topology \in DI!Topologies
  /\ discovererLoop \in {"start", "run"} => Lines = <<>>
  /\ LinesInv(Lines, Len(topologyPrinted), topology)

LEMMA Laid ==
  ASSUME NEW S, NEW p \in Seq(S), NEW c \in Seq(S)
  PROVE  /\ p \o c \in Seq(S) /\ Len(p) \in Nat /\ Len(c) \in Nat
         /\ Len(p \o c) = Len(p) + Len(c) /\ DOMAIN (p \o c) = 1 .. Len(p) + Len(c)
         /\ \A k \in 1 .. Len(p) : (p \o c)[k] = p[k]
         /\ \A k \in 1 .. Len(c) : (p \o c)[Len(p) + k] = c[k]
OBVIOUS

LEMMA Elements ==
  ASSUME NEW S, NEW q \in Seq(S)
  PROVE  Len(q) \in Nat /\ DOMAIN q = 1 .. Len(q) /\ \A k \in 1 .. Len(q) : q[k] \in S
OBVIOUS

(* A topology: everything hangs from something before it, and a next one   *)
(* from the info it is next to.                                            *)
LEMMA TopologyFacts ==
  ASSUME NEW t \in DI!Topologies
  PROVE  /\ t.size \in Nat /\ t.size >= 1 /\ DI!Infos(t) = 1 .. t.size
         /\ \A j \in 2 .. t.size : t.above[j] \in 1 .. t.size /\ t.above[j] < j
         /\ \A i \in 1 .. t.size : t.next[i] # DI!NULL => t.next[i] \in DI!Below(t, i)
         /\ \A i \in 1 .. t.size : DI!Shown(t, i) \subseteq DI!Below(t, i)
<1>0. PICK n \in 1 .. MaxInfos : \E a \in DI!Hangings(n) : \E x \in DI!Nexts(n, a) :
        t = [size |-> n, above |-> a, next |-> x]
  BY DEF DI!Topologies
<1>1. PICK a \in DI!Hangings(n) : \E x \in DI!Nexts(n, a) :
        t = [size |-> n, above |-> a, next |-> x]
  BY <1>0
<1>2. PICK x \in DI!Nexts(n, a) : t = [size |-> n, above |-> a, next |-> x]
  BY <1>1
<1>3. t.size = n /\ t.above = a /\ t.next = x /\ n \in Nat /\ n >= 1
  BY <1>2, TutorialsAssumption DEF DI!DiscovererAssumption
<1>4. \A j \in 2 .. n : a[j] \in 1 .. n /\ a[j] < j
  BY DEF DI!Hangings
<1>5. \A i \in 1 .. n : x[i] # DI!NULL => x[i] \in 2 .. n /\ a[x[i]] = i
  BY DEF DI!Nexts
<1>6. \A i \in 1 .. t.size : t.next[i] # DI!NULL => t.next[i] \in DI!Below(t, i)
  BY <1>3, <1>5 DEF DI!Below
<1>7. \A i \in 1 .. t.size : DI!Shown(t, i) \subseteq DI!Below(t, i)
  BY <1>6 DEF DI!Shown
<1> QED BY <1>3, <1>4, <1>6, <1>7 DEF DI!Infos

(* What hangs from an info is finite.                                      *)
LEMMA BelowCounted ==
  ASSUME NEW t \in DI!Topologies, NEW i
  PROVE  DI!Cardinality(DI!Below(t, i)) \in Nat
<1>1. t.size \in Nat
  BY TopologyFacts
<1>2. IsFiniteSet(2 .. t.size)
  BY <1>1, FS_Interval
<1>3. IsFiniteSet(DI!Below(t, i))
  BY <1>2, FS_Subset DEF DI!Below
<1>4. DI!Cardinality(DI!Below(t, i)) = Cardinality(DI!Below(t, i))
  BY DEF DI!Cardinality, Cardinality
<1> QED BY <1>3, <1>4, FS_CardinalityType

(* The lines added for an info: all that is shown below it, each once.     *)
Children(t, i, n, ch) ==
  /\ n \in Nat /\ ch \in [1 .. n -> DI!Shown(t, i)]
  /\ \A k, l \in 1 .. n : ch[k] = ch[l] => k = l
  /\ \A j \in DI!Shown(t, i) : \E k \in 1 .. n : ch[k] = j

LEMMA ChildrenCalled ==
  ASSUME DI!print_topology, topology \in DI!Topologies
  PROVE  \E n, ch :
           /\ Children(topology, Head(calls).info, n, ch)
           /\ calls' = [k \in 1 .. n |-> DI!Call(ch[k], Head(calls).depth + 1)] \o Tail(calls)
<1> DEFINE info == Head(calls).info  depth == Head(calls).depth  t == topology
           below == DI!Below(t, info)
<1>1. CASE t.next[info] # DI!NULL
  <2> DEFINE j == t.next[info]
  <2>1. DI!Shown(t, info) = {j}
    BY <1>1 DEF DI!Shown
  <2> DEFINE ch == [k \in 1 .. 1 |-> j]
  <2>2. Children(t, info, 1, ch)
    BY <2>1 DEF Children
  <2>3. [k \in 1 .. 1 |-> DI!Call(ch[k], depth + 1)] = <<DI!Call(j, depth + 1)>>
    OBVIOUS
  <2>4. calls' = <<DI!Call(j, depth + 1)>> \o Tail(calls)
    BY <1>1 DEF DI!print_topology
  <2> QED BY <2>2, <2>3, <2>4
<1>2. CASE t.next[info] = DI!NULL
  <2>0. DI!Shown(t, info) = below
    BY <1>2 DEF DI!Shown
  <2>1. PICK ch \in DI!Lists(t, info) :
          calls' = [k \in DOMAIN ch |-> DI!Call(ch[k], depth + 1)] \o Tail(calls)
    BY <1>2 DEF DI!print_topology
  <2> DEFINE n == DI!Cardinality(below)
  <2>2. n \in Nat
    BY BelowCounted
  <2>3. ch \in DI!Bijection(1 .. n, below)
    BY DEF DI!Lists
  <2>4. /\ ch \in [1 .. n -> below]
        /\ \A k, l \in 1 .. n : ch[k] = ch[l] => k = l
        /\ \A j \in below : \E k \in 1 .. n : ch[k] = j
    BY <2>3 DEF DI!Bijection, DI!Injection, DI!Surjection, DI!IsInjective
  <2>5. Children(t, info, n, ch) /\ DOMAIN ch = 1 .. n
    BY <2>0, <2>2, <2>4 DEF Children
  <2> QED BY <2>1, <2>5
<1> QED BY <1>1, <1>2

(* The first call is printed, and what is shown below its info goes before *)
(* the other calls.                                                        *)
Inserted(q, r, last, n, ch) ==
  /\ DOMAIN r = 1 .. Len(q) + n
  /\ \A k \in 1 .. last + 1 : r[k] = q[k]
  /\ \A k \in 1 .. n : r[last + 1 + k] = DI!Call(ch[k], q[last + 1].depth + 1)
  /\ \A k \in last + 2 .. Len(q) : r[k + n] = q[k]

LEMMA InsertedKeeps ==
  ASSUME NEW t \in DI!Topologies, NEW q \in Seq([info : DI!Infos(t), depth : Nat]), NEW r,
         NEW last \in Nat, last + 1 <= Len(q), NEW n, NEW ch,
         LinesInv(q, last, t), Children(t, q[last + 1].info, n, ch),
         Inserted(q, r, last, n, ch)
  PROVE  LinesInv(r, last + 1, t)
<1> DEFINE p == last + 1  i == q[p].info  d == q[p].depth
           old(k) == IF k <= p THEN k ELSE k + n
<1>1. /\ Len(q) \in Nat /\ DOMAIN q = 1 .. Len(q) /\ n \in Nat
      /\ \A k \in 1 .. Len(q) : q[k].depth \in Nat /\ q[k].info \in 1 .. t.size
  <2>1. DI!Infos(t) = 1 .. t.size /\ n \in Nat
    BY TopologyFacts DEF Children
  <2>2. /\ Len(q) \in Nat /\ DOMAIN q = 1 .. Len(q)
        /\ \A k \in 1 .. Len(q) : q[k] \in [info : DI!Infos(t), depth : Nat]
    BY Elements
  <2> QED BY <2>1, <2>2
<1>2. \A k \in 1 .. Len(q) : old(k) \in 1 .. Len(q) + n /\ r[old(k)] = q[k]
  <2> SUFFICES ASSUME NEW k \in 1 .. Len(q)
               PROVE  old(k) \in 1 .. Len(q) + n /\ r[old(k)] = q[k]
    OBVIOUS
  <2>1. CASE k <= p
    BY <1>1, <2>1 DEF Inserted
  <2>2. CASE ~(k <= p)
    <3>1. k \in last + 2 .. Len(q)
      BY <1>1, <2>2
    <3>2. r[k + n] = q[k]
      BY <3>1 DEF Inserted
    <3> QED BY <1>1, <2>2, <3>2
  <2> QED BY <2>1, <2>2
<1>3. \A k \in 1 .. n : r[p + k].info = ch[k] /\ r[p + k].depth = d + 1
  <2> SUFFICES ASSUME NEW k \in 1 .. n
               PROVE  r[p + k].info = ch[k] /\ r[p + k].depth = d + 1
    OBVIOUS
  <2>1. r[p + k] = DI!Call(ch[k], d + 1)
    BY DEF Inserted
  <2> QED BY <2>1 DEF DI!Call
<1>4. ASSUME NEW k \in 1 .. Len(q) + n
      PROVE  \/ \E m \in 1 .. Len(q) : k = old(m)
             \/ \E c \in 1 .. n : k = p + c
  <2>1. CASE k <= p
    BY <1>1, <2>1
  <2>2. CASE k > p /\ k <= p + n
    <3>1. k - p \in 1 .. n /\ k = p + (k - p)
      BY <1>1, <2>2
    <3> QED BY <3>1
  <2>3. CASE k > p + n
    <3>1. k - n \in 1 .. Len(q) /\ k = old(k - n)
      BY <1>1, <2>3
    <3> QED BY <3>1
  <2>4. p \in Nat /\ n \in Nat /\ k \in Nat
    BY <1>1
  <2>5. k <= p \/ (k > p /\ k <= p + n) \/ k > p + n
    BY <2>4
  <2> QED BY <2>1, <2>2, <2>3, <2>5
<1> HIDE DEF old
<1>5. \A c \in 1 .. n : /\ ch[c] \in 2 .. t.size /\ t.above[ch[c]] = i
                        /\ \A m \in 1 .. n : ch[m] = ch[c] => m = c
  <2>1. DI!Shown(t, i) \subseteq DI!Below(t, i)
    <3>1. i \in 1 .. t.size
      BY <1>1
    <3> QED BY <3>1, TopologyFacts
  <2> QED BY <2>1 DEF Children, DI!Below
<1>6. ASSUME NEW c \in 1 .. n, NEW m \in 1 .. Len(q) PROVE q[m].info # ch[c]
  <2> SUFFICES ASSUME q[m].info = ch[c] PROVE FALSE
    OBVIOUS
  <2>1. m # 1
    BY <1>1, <1>5 DEF LinesInv, DI!Call, DI!root
  <2>2. PICK j \in 1 .. last : q[j].info = t.above[q[m].info]
    BY <1>1, <2>1 DEF LinesInv, Placed
  <2>3. q[j].info = q[p].info
    BY <1>5, <2>2
  <2>4. j \in DOMAIN q /\ p \in DOMAIN q /\ j # p
    BY <1>1, <2>2
  <2> QED BY <2>3, <2>4 DEF LinesInv
<1>7. r[1] = DI!Call(DI!root, 1)
  <2>1. 1 \in 1 .. p /\ q # <<>>
    BY <1>1
  <2> QED BY <2>1 DEF LinesInv, Inserted
<1>8. ASSUME NEW k \in DOMAIN r, NEW l \in DOMAIN r, r[k].info = r[l].info PROVE k = l
  <2>1. k \in 1 .. Len(q) + n /\ l \in 1 .. Len(q) + n
    BY DEF Inserted
  <2>2. \A x, y \in 1 .. Len(q) : q[x].info = q[y].info => x = y
    BY <1>1 DEF LinesInv
  <2>3. CASE (\E x \in 1 .. Len(q) : k = old(x)) /\ (\E y \in 1 .. Len(q) : l = old(y))
    BY <1>2, <1>8, <2>2, <2>3
  <2>4. CASE (\E c \in 1 .. n : k = p + c) /\ (\E e \in 1 .. n : l = p + e)
    BY <1>3, <1>5, <1>8, <2>4
  <2>5. CASE \/ (\E x \in 1 .. Len(q) : k = old(x)) /\ (\E e \in 1 .. n : l = p + e)
             \/ (\E c \in 1 .. n : k = p + c) /\ (\E y \in 1 .. Len(q) : l = old(y))
    <3> SUFFICES ASSUME NEW x \in 1 .. Len(q), NEW c \in 1 .. n, NEW a, NEW b,
                        a = old(x), b = p + c, r[a].info = r[b].info
                 PROVE  FALSE
      BY <1>8, <2>5
    <3>1. r[a] = q[x] /\ r[b].info = ch[c]
      BY <1>2, <1>3
    <3> QED BY <1>6, <3>1
  <2> QED BY <1>4, <2>1, <2>3, <2>4, <2>5
<1>9. ASSUME NEW k \in DOMAIN r \ {1}
      PROVE  r[k].info # DI!root /\ Placed(r, p, t.above, k)
  <2>1. CASE \E m \in 1 .. Len(q) : k = old(m)
    <3>1. PICK m \in 1 .. Len(q) : k = old(m)
      BY <2>1
    <3>2. m # 1 /\ r[k] = q[m]
      BY <1>1, <1>2, <1>9, <3>1 DEF old
    <3>3. q[m].info # DI!root /\ Placed(q, last, t.above, m)
      BY <1>1, <3>2 DEF LinesInv
    <3>4. PICK j \in 1 .. last :
            /\ j < m /\ q[j].depth + 1 = q[m].depth /\ q[j].info = t.above[q[m].info]
            /\ \A l \in j + 1 .. m - 1 : q[l].depth >= q[m].depth
      BY <3>3 DEF Placed
    <3>5. j \in 1 .. p /\ j < k /\ r[j] = q[j]
      BY <1>1, <3>1, <3>4 DEF old, Inserted
    <3>6. ASSUME NEW l \in j + 1 .. k - 1 PROVE r[l].depth >= q[m].depth
      <4>1. l \in 1 .. Len(q) + n
        <5>1. k \in 1 .. Len(q) + n
          BY <1>2, <3>1
        <5> QED BY <1>1, <3>6, <5>1
      <4>2. CASE \E x \in 1 .. Len(q) : l = old(x)
        <5>1. PICK x \in 1 .. Len(q) : l = old(x)
          BY <4>2
        <5>2. l > j /\ l < k /\ j < p
          <6>1. k \in Nat
            <7>1. n \in Nat /\ m \in Nat
              BY <1>1
            <7> QED BY <3>1, <7>1 DEF old
          <6>2. j \in Nat /\ j < p
            OBVIOUS
          <6> QED BY <3>6, <6>1, <6>2
        <5>3. x < m
          BY <1>1, <3>1, <5>1, <5>2 DEF old
        <5>4. x > j
          BY <1>1, <5>1, <5>2 DEF old
        <5>5. x \in j + 1 .. m - 1
          BY <5>3, <5>4
        <5> QED BY <1>2, <3>4, <5>1, <5>5
      <4>3. CASE \E c \in 1 .. n : l = p + c
        <5>1. p \in j + 1 .. m - 1
          BY <1>1, <3>1, <3>4, <3>6, <4>3 DEF old
        <5>2. d >= q[m].depth
          BY <3>4, <5>1
        <5>3. r[l].depth = d + 1
          BY <1>3, <4>3
        <5>4. d \in Nat /\ q[m].depth \in Nat
          BY <1>1
        <5>5. \A a, b \in Nat : a >= b => a + 1 >= b
          OBVIOUS
        <5> QED BY <5>2, <5>3, <5>4, <5>5
      <4> QED BY <1>4, <4>1, <4>2, <4>3
    <3> QED BY <3>2, <3>3, <3>4, <3>5, <3>6 DEF Placed
  <2>2. CASE \E c \in 1 .. n : k = p + c
    <3>1. PICK c \in 1 .. n : k = p + c
      BY <2>2
    <3>2. r[p] = q[p] /\ p \in 1 .. p /\ p < k
      BY <1>1, <3>1 DEF Inserted
    <3>3. ASSUME NEW l \in p + 1 .. k - 1 PROVE r[l].depth >= r[k].depth
      <4>1. l - p \in 1 .. n /\ l = p + (l - p)
        BY <1>1, <3>1, <3>3
      <4>2. r[p + (l - p)].depth = d + 1
        BY <1>3, <4>1
      <4>3. r[l].depth = d + 1 /\ r[k].depth = d + 1
        BY <1>3, <3>1, <4>1, <4>2
      <4> QED BY <1>1, <4>3
    <3>4. r[k].info # DI!root /\ r[p].info = t.above[r[k].info] /\ r[p].depth + 1 = r[k].depth
      BY <1>3, <1>5, <3>1, <3>2 DEF DI!root
    <3> QED BY <3>2, <3>3, <3>4 DEF Placed
  <2> QED BY <1>4, <1>9, <2>1, <2>2 DEF Inserted
<1>10. ASSUME NEW l \in 1 .. p, NEW j \in DI!Below(t, r[l].info)
       PROVE  (\E k \in DOMAIN r : r[k].info = j) <=> j \in DI!Shown(t, r[l].info)
  <2>1. r[l] = q[l] /\ j \in 2 .. t.size /\ t.above[j] = q[l].info
    BY <1>10 DEF Inserted, DI!Below
  <2>2. DOMAIN r = 1 .. Len(q) + n
    BY DEF Inserted
  <2>3. CASE l = p
    <3>1. ASSUME j \in DI!Shown(t, i) PROVE \E k \in DOMAIN r : r[k].info = j
      <4>1. PICK c \in 1 .. n : ch[c] = j
        BY <3>1 DEF Children
      <4>2. p + c \in DOMAIN r
        BY <1>1, <2>2
      <4> QED BY <1>3, <4>1, <4>2
    <3>2. ASSUME NEW k \in DOMAIN r, r[k].info = j PROVE j \in DI!Shown(t, i)
      <4>1. CASE \E m \in 1 .. Len(q) : k = old(m)
        <5>1. PICK m \in 1 .. Len(q) : k = old(m)
          BY <4>1
        <5>2. q[m].info = j
          BY <1>2, <3>2, <5>1
        <5>3. m # 1
          BY <1>1, <2>1, <5>2 DEF LinesInv, DI!Call, DI!root
        <5>4. PICK x \in 1 .. last : q[x].info = t.above[q[m].info]
          BY <1>1, <5>3 DEF LinesInv, Placed
        <5>5. x \in DOMAIN q /\ p \in DOMAIN q /\ x # p /\ q[x].info = q[p].info
          BY <1>1, <2>1, <2>3, <5>2, <5>4
        <5> QED BY <5>5 DEF LinesInv
      <4>2. CASE \E c \in 1 .. n : k = p + c
        BY <1>3, <3>2, <4>2 DEF Children
      <4> QED BY <1>4, <2>2, <4>1, <4>2
    <3> QED BY <2>1, <2>3, <3>1, <3>2
  <2>4. CASE l \in 1 .. last
    <3>1. (\E k \in DOMAIN q : q[k].info = j) <=> j \in DI!Shown(t, q[l].info)
      BY <1>10, <2>1, <2>4 DEF LinesInv
    <3>2. ASSUME NEW k \in DOMAIN q, q[k].info = j PROVE \E m \in DOMAIN r : r[m].info = j
      BY <1>1, <1>2, <2>2, <3>2
    <3>3. ASSUME NEW k \in DOMAIN r, r[k].info = j PROVE \E m \in DOMAIN q : q[m].info = j
      <4>1. CASE \E m \in 1 .. Len(q) : k = old(m)
        BY <1>1, <1>2, <3>3, <4>1
      <4>2. CASE \E c \in 1 .. n : k = p + c
        <5>1. t.above[j] = q[p].info
          BY <1>3, <1>5, <3>3, <4>2
        <5>2. l \in DOMAIN q /\ p \in DOMAIN q /\ l # p /\ q[l].info = q[p].info
          BY <1>1, <2>1, <2>4, <5>1
        <5> QED BY <5>2 DEF LinesInv
      <4> QED BY <1>4, <2>2, <4>1, <4>2
    <3> QED BY <2>1, <3>1, <3>2, <3>3
  <2> QED BY <2>3, <2>4
<1> QED BY <1>7, <1>8, <1>9, <1>10 DEF LinesInv

LEMMA TopologyInit == DI!Init => TopologyInv
<1> SUFFICES ASSUME DI!Init PROVE TopologyInv
  OBVIOUS
<1>1. topology.size = 0 /\ topologyPrinted = <<>> /\ calls = <<>>
  BY DEF DI!Init
<1>2. Lines = <<>> /\ Len(topologyPrinted) = 0 /\ DOMAIN Lines = {}
  BY <1>1 DEF Lines
<1>3. LinesInv(Lines, Len(topologyPrinted), topology)
  BY <1>1, <1>2 DEF LinesInv
<1> QED BY <1>1, <1>2, <1>3, Empty DEF TopologyInv

(* Nothing was printed or called before the result.                        *)
LEMMA DiscoveredKeeps ==
  ASSUME TopologyInv, DI!on_discovered_cb
  PROVE  TopologyInv'
<1> DEFINE lineSet == [info : DI!Infos(topology), depth : Nat]
<1>1. Lines = <<>> /\ discovererLoop' = "discovered" /\ UNCHANGED topologyPrinted
  BY DEF DI!on_discovered_cb, TopologyInv
<1>2. topologyPrinted = <<>> /\ calls = <<>>
  <2>1. topologyPrinted \in Seq(lineSet) /\ calls \in Seq(lineSet)
    BY DEF TopologyInv
  <2> QED BY <1>1, <2>1, Laid DEF Lines
<1>3. CASE UNCHANGED <<topology, calls>>
  BY <1>1, <1>3 DEF TopologyInv, Lines
<1>4. CASE topology' \in DI!Topologies /\ calls' = <<DI!Call(DI!root, 1)>>
  <2> DEFINE line == DI!Call(DI!root, 1)
  <2>1. /\ topology'.size \in Nat /\ topology'.size >= 1
        /\ DI!Infos(topology') = 1 .. topology'.size
        /\ \A j \in 2 .. topology'.size : topology'.above[j] \in 1 .. topology'.size
    BY <1>4, TopologyFacts
  <2>2. line \in [info : DI!Infos(topology'), depth : Nat]
    BY <2>1 DEF DI!Call, DI!root
  <2>3. /\ calls' \in Seq([info : DI!Infos(topology'), depth : Nat])
        /\ topologyPrinted' \in Seq([info : DI!Infos(topology'), depth : Nat])
    BY <1>1, <1>2, <1>4, <2>2, Empty
  <2>4. Lines' = <<line>> /\ Len(topologyPrinted') = 0
    BY <1>1, <1>2, <1>4 DEF Lines
  <2>5. DOMAIN Lines' = {1} /\ Lines'[1] = line
    BY <2>4
  <2>6. LinesInv(Lines', Len(topologyPrinted'), topology')
    BY <2>4, <2>5 DEF LinesInv
  <2>7. (discovererLoop \in {"start", "run"} => Lines = <<>>)'
    BY <1>1
  <2>8. DI!Infos(topology)' = DI!Infos(topology')
    BY DEF DI!Infos
  <2> QED BY <1>4, <2>1, <2>3, <2>6, <2>7, <2>8 DEF TopologyInv
<1> QED BY <1>3, <1>4 DEF DI!on_discovered_cb

(* One line more, and the calls for what hangs from its info.              *)
LEMMA PrintKeeps ==
  ASSUME TopologyInv, DI!print_topology
  PROVE  TopologyInv'
<1> DEFINE t == topology  q == Lines  r == Lines'  last == Len(topologyPrinted)
           lineSet == [info : DI!Infos(topology), depth : Nat]
           first == Head(calls)
<1>1. /\ calls # <<>> /\ UNCHANGED <<discovererLoop, topology>>
      /\ topologyPrinted' = Append(topologyPrinted, first)
  BY DEF DI!print_topology
<1>2. topologyPrinted \in Seq(lineSet) /\ calls \in Seq(lineSet)
  BY DEF TopologyInv
<1>3. /\ q \in Seq(lineSet) /\ last \in Nat /\ Len(calls) \in Nat
      /\ Len(q) = last + Len(calls) /\ DOMAIN q = 1 .. last + Len(calls)
      /\ \A k \in 1 .. last : q[k] = topologyPrinted[k]
      /\ \A k \in 1 .. Len(calls) : q[last + k] = calls[k]
  BY <1>2, Laid DEF Lines
<1>4. /\ Tail(calls) \in Seq(lineSet) /\ first = calls[1] /\ first \in lineSet
      /\ Len(calls) >= 1 /\ Len(Tail(calls)) = Len(calls) - 1
      /\ \A k \in 1 .. Len(calls) - 1 : Tail(calls)[k] = calls[k + 1]
  <2>1. /\ Tail(calls) \in Seq(lineSet) /\ first = calls[1] /\ first \in lineSet
        /\ Len(calls) >= 1 /\ \A k \in 1 .. Len(calls) - 1 : Tail(calls)[k] = calls[k + 1]
    BY <1>1, <1>2, Taken
  <2>2. Len(Tail(calls)) = Len(calls) - 1
    BY <1>1, <1>2
  <2> QED BY <2>1, <2>2
<1>5. t \in DI!Topologies /\ q[last + 1] = first
  <2>1. 1 \in 1 .. Len(calls) /\ 1 \in DOMAIN q
    BY <1>3, <1>4
  <2> QED BY <1>3, <1>4, <2>1 DEF TopologyInv
<1>6. PICK n, ch :
        /\ Children(t, first.info, n, ch)
        /\ calls' = [k \in 1 .. n |-> DI!Call(ch[k], first.depth + 1)] \o Tail(calls)
  BY <1>5, ChildrenCalled
<1> DEFINE new == [k \in 1 .. n |-> DI!Call(ch[k], first.depth + 1)]
<1>7. new \in Seq(lineSet) /\ Len(new) = n /\ n \in Nat
  <2>1. n \in Nat /\ \A k \in 1 .. n : ch[k] \in DI!Infos(t) /\ first.depth + 1 \in Nat
    <3>1. first.info \in 1 .. t.size
      BY <1>4, <1>5, TopologyFacts
    <3>2. DI!Shown(t, first.info) \subseteq DI!Infos(t)
      BY <1>5, <3>1, TopologyFacts DEF DI!Below, DI!Infos
    <3> QED BY <1>4, <1>6, <3>2 DEF Children
  <2>2. \A k \in 1 .. n : DI!Call(ch[k], first.depth + 1) \in lineSet
    BY <2>1 DEF DI!Call
  <2>3. new \in [1 .. n -> lineSet]
    BY <2>2
  <2> QED BY <2>1, <2>3
<1>8. /\ calls' \in Seq(lineSet) /\ Len(calls') = n + (Len(calls) - 1)
      /\ \A k \in 1 .. n : calls'[k] = new[k]
      /\ \A k \in 1 .. Len(calls) - 1 : calls'[n + k] = calls[k + 1]
  <2> DEFINE rest == Tail(calls)
  <2>1. rest \in Seq(lineSet) /\ calls' = new \o rest
    BY <1>4, <1>6
  <2>2. /\ new \o rest \in Seq(lineSet) /\ Len(new \o rest) = Len(new) + Len(rest)
        /\ \A k \in 1 .. Len(new) : (new \o rest)[k] = new[k]
        /\ \A k \in 1 .. Len(rest) : (new \o rest)[Len(new) + k] = rest[k]
    <3> HIDE DEF new, rest, lineSet
    <3>1. new \in Seq(lineSet) /\ rest \in Seq(lineSet)
      BY <1>7, <2>1
    <3>2. new \o rest \in Seq(lineSet)
      BY <3>1
    <3> QED BY <3>1, <3>2, Laid
  <2> QED BY <1>4, <1>7, <2>1, <2>2
<1>9. /\ topologyPrinted' \in Seq(lineSet) /\ Len(topologyPrinted') = last + 1
      /\ topologyPrinted'[last + 1] = first
      /\ \A k \in 1 .. last : topologyPrinted'[k] = topologyPrinted[k]
  <2>1. /\ topologyPrinted' \in Seq(lineSet) /\ topologyPrinted'[last + 1] = first
        /\ \A k \in 1 .. last : topologyPrinted'[k] = topologyPrinted[k]
    <3> HIDE DEF lineSet, first
    <3> QED BY <1>1, <1>2, <1>4, Added
  <2>2. Len(topologyPrinted') = last + 1
    BY <1>1, <1>2
  <2> QED BY <2>1, <2>2
<1>10. /\ DOMAIN r = 1 .. (last + 1) + (n + (Len(calls) - 1))
       /\ \A k \in 1 .. last + 1 : r[k] = topologyPrinted'[k]
       /\ \A k \in 1 .. n + (Len(calls) - 1) : r[last + 1 + k] = calls'[k]
  <2> DEFINE done == topologyPrinted'  todo == calls'
  <2>1. done \in Seq(lineSet) /\ todo \in Seq(lineSet) /\ r = done \o todo
        /\ Len(done) = last + 1 /\ Len(todo) = n + (Len(calls) - 1)
    BY <1>8, <1>9 DEF Lines
  <2>2. /\ DOMAIN (done \o todo) = 1 .. Len(done) + Len(todo)
        /\ \A k \in 1 .. Len(done) : (done \o todo)[k] = done[k]
        /\ \A k \in 1 .. Len(todo) : (done \o todo)[Len(done) + k] = todo[k]
    <3> HIDE DEF done, todo, lineSet
    <3> QED BY <2>1, Laid
  <2> QED BY <2>1, <2>2
<1>11. Inserted(q, r, last, n, ch)
  <2>1. DOMAIN r = 1 .. Len(q) + n
    BY <1>3, <1>7, <1>10
  <2>2. \A k \in 1 .. last + 1 : r[k] = q[k]
    BY <1>3, <1>5, <1>9, <1>10
  <2>3. ASSUME NEW k \in 1 .. n
        PROVE  r[last + 1 + k] = DI!Call(ch[k], q[last + 1].depth + 1)
    <3>1. k \in 1 .. n + (Len(calls) - 1)
      BY <1>3, <1>4, <1>7
    <3> QED BY <1>5, <1>8, <1>10, <3>1
  <2>4. ASSUME NEW k \in last + 2 .. Len(q) PROVE r[k + n] = q[k]
    <3> DEFINE c == k - last - 1
    <3>1. /\ c \in 1 .. Len(calls) - 1 /\ c + 1 \in 1 .. Len(calls)
          /\ n + c \in 1 .. n + (Len(calls) - 1)
          /\ last + 1 + (n + c) = k + n /\ last + (c + 1) = k
      BY <1>3, <1>4, <1>7
    <3>2. r[last + 1 + (n + c)] = calls[c + 1]
      BY <1>8, <1>10, <3>1
    <3>3. q[last + (c + 1)] = calls[c + 1]
      BY <1>3, <3>1
    <3> QED BY <3>1, <3>2, <3>3
  <2> QED BY <2>1, <2>2, <2>3, <2>4 DEF Inserted
<1>12. LinesInv(r, last + 1, t)
  <2>1. last + 1 <= Len(q) /\ Children(t, q[last + 1].info, n, ch) /\ LinesInv(q, last, t)
    BY <1>3, <1>4, <1>5, <1>6 DEF TopologyInv
  <2> QED BY <1>3, <1>5, <1>11, <2>1, InsertedKeeps
<1>13. discovererLoop \notin {"start", "run"}
  BY <1>2, <1>3, <1>4 DEF TopologyInv
<1>14. DI!Infos(topology)' = DI!Infos(topology)
  BY <1>1 DEF DI!Infos
<1> QED BY <1>1, <1>5, <1>8, <1>9, <1>12, <1>13, <1>14 DEF TopologyInv

LEMMA TopologyInvariant == Spec => []TopologyInv
<1>1. Init => TopologyInv
  BY TopologyInit DEF Init
<1>2. TopologyInv /\ [Next]_vars => TopologyInv'
  <2> SUFFICES ASSUME TopologyInv, [DI!Next]_discovererVars PROVE TopologyInv'
    BY OneProgramRuns
  <2>1. CASE DI!Start \/ DI!on_finished_cb \/ DI!Stop
    BY <2>1 DEF DI!Start, DI!on_finished_cb, DI!Stop, TopologyInv, Lines, DI!Infos
  <2>2. CASE UNCHANGED discovererVars
    BY <2>2 DEF discovererVars, TopologyInv, Lines, DI!Infos
  <2> QED BY <2>1, <2>2, DiscoveredKeeps, PrintKeeps DEF DI!Next, DI!MainStep
<1> QED BY <1>1, <1>2, PTL DEF Spec

(* No line between the two is indented less than the later one.            *)
LEMMA NearestAbove ==
  ASSUME TopologyInv
  PROVE  DI!TopologyPrinted
<1> DEFINE p == topologyPrinted  last == Len(p)  Less(k) == {j \in 1 .. k - 1 : p[j].depth < p[k].depth}
           lineSet == [info : DI!Infos(topology), depth : Nat]
<1>1. p \in Seq(lineSet) /\ calls \in Seq(lineSet) /\ LinesInv(Lines, last, topology)
  BY DEF TopologyInv
<1>2. /\ last \in Nat /\ DOMAIN p = 1 .. last /\ DOMAIN Lines = 1 .. last + Len(calls)
      /\ Len(calls) \in Nat /\ \A k \in 1 .. last : Lines[k] = p[k] /\ p[k] \in lineSet
  <2> HIDE DEF lineSet
  <2> QED BY <1>1, Laid, Elements DEF Lines
<1>3. ASSUME NEW k \in DOMAIN p \ {1}
      PROVE  \E j \in Less(k) :
               /\ \A l \in Less(k) : l <= j
               /\ p[j].depth + 1 = p[k].depth
               /\ p[j].info = topology.above[p[k].info]
  <2>1. k \in DOMAIN Lines \ {1} /\ k \in 2 .. last
    BY <1>2
  <2>2. PICK j \in 1 .. last :
          /\ j < k /\ Lines[j].depth + 1 = Lines[k].depth
          /\ Lines[j].info = topology.above[Lines[k].info]
          /\ \A l \in j + 1 .. k - 1 : Lines[l].depth >= Lines[k].depth
    BY <1>1, <2>1 DEF LinesInv, Placed
  <2>3. Lines[j] = p[j] /\ Lines[k] = p[k] /\ \A l \in 1 .. k - 1 : Lines[l] = p[l]
    BY <1>2, <2>1
  <2>4. p[j].depth \in Nat /\ p[k].depth \in Nat /\ \A l \in 1 .. k - 1 : p[l].depth \in Nat
    BY <1>2, <2>1
  <2>5. j \in Less(k)
    BY <2>1, <2>2, <2>3, <2>4
  <2>6. ASSUME NEW l \in Less(k) PROVE l <= j
    <3>1. ~(p[l].depth >= p[k].depth) /\ l \in 1 .. k - 1
      BY <2>4
    <3>2. l \notin j + 1 .. k - 1
      BY <2>2, <2>3, <3>1
    <3> QED BY <2>1, <3>1, <3>2
  <2> QED BY <2>2, <2>3, <2>5, <2>6
<1>4. ASSUME p # <<>> PROVE p[1] = DI!Call(DI!root, 1)
  <2>1. 1 \in 1 .. last /\ Lines # <<>>
    BY <1>1, <1>2, <1>4
  <2> QED BY <1>1, <1>2, <2>1 DEF LinesInv
<1>5. \A k, l \in DOMAIN p : p[k].info = p[l].info => k = l
  <2>1. \A k \in DOMAIN p : k \in DOMAIN Lines /\ Lines[k] = p[k]
    BY <1>2
  <2> QED BY <1>1, <2>1 DEF LinesInv
<1>6. ASSUME calls = <<>>, NEW l \in DOMAIN p, NEW j \in DI!Below(topology, p[l].info)
      PROVE  (\E k \in DOMAIN p : p[k].info = j) <=> j \in DI!Shown(topology, p[l].info)
  <2>1. Lines = p
    BY <1>1, <1>6 DEF Lines
  <2>2. l \in 1 .. last
    BY <1>2
  <2> QED BY <1>1, <1>6, <2>1, <2>2 DEF LinesInv
<1> QED BY <1>3, <1>4, <1>5, <1>6 DEF DI!TopologyPrinted

(* The topology of any media can be read off the indentation, at all times *)
(* while it is printed: with any number of infos, streams of a container   *)
(* in any order and any nesting of nexts and lists, no info has two lines, *)
(* the line above an info is the last one before it that is indented less, *)
(* by one, and at the end those shown below an info are its next one or,   *)
(* if it has none, its whole list.                                         *)
THEOREM TopologyReadable == Spec => []TopologyPrinted
<1>1. TopologyInv => TopologyPrinted
  BY NearestAbove DEF TopologyPrinted
<1> QED BY <1>1, TopologyInvariant, PTL

-----------------------------------------------------------------------------
(* All programs at once.                                                   *)

(* No message, level, pad, cap, rate or count of buffers leaves its range, *)
(* and the sinks' queues in front of multithread.c's branches never hold   *)
(* more than they have room for: for any constants of the programs.        *)
THEOREM TutorialTypes == Spec => []TypeOK
<1>1. TimeInv /\ StreamingInv /\ PadInv /\ TeeInv /\ RateInv /\ CapsInv => TypeOK
  BY DEF TimeInv, StreamingInv, PadInv, TeeInv, RateInv, CapsInv, TypeOK
<1> QED BY <1>1, TimeInvariant, StreamingInvariant, PadInvariant, TeeInvariant,
           RateInvariant, CapsInvariant, PTL
=============================================================================

------------------------------ MODULE Streaming ------------------------------
(***************************************************************************)
(* streaming.c and progressive_streaming.c: playbin plays from a queue     *)
(* that is filled from the network and posts its level while it buffers;   *)
(* cb_msg pauses below 100 percent and plays at 100, resumes after a lost  *)
(* clock, and ends the loop at an error or the end.  progressive_streaming *)
(* also draws the downloaded ranges and the position once a second.        *)
(*                                                                         *)
(* External: the queue, which starts to buffer at Low and stops when Full, *)
(* posts each level in between, and is emptied only while playing; which   *)
(* ranges of the file it reports as downloaded, in parts per million; the  *)
(* bus is FIFO.  A pipeline counts as being in the state asked for.        *)
(***************************************************************************)
EXTENDS Integers, Sequences

CONSTANTS Full, Low,     \* level of the queue at 100 percent, at the low mark
          MaxBus,        \* bound: messages on the bus
          Length, Positions,     \* duration of the stream, positions in it
          RangeEnds              \* where downloaded ranges begin and end

GRAPH_LENGTH == 78

StreamingAssumption ==
  /\ {Full, Low, MaxBus} \subseteq Nat /\ Low < Full
  /\ Length \in Nat \ {0} /\ Positions \subseteq 0 .. Length
  /\ RangeEnds \subseteq Nat

VARIABLES
  level, buffering,      \* of the queue
  messages,              \* on the bus
  asked,                 \* the state last asked of the pipeline
  is_live, buf_lv,       \* CustomData
  progressive,           \* which of the two programs
  loop,                  \* where the main thread is
  resumed,               \* history: a clock was lost since the last level came
  drawn                  \* what refresh_ui has drawn last

queueVars == <<level, buffering>>
vars == <<level, buffering, messages, asked, is_live, buf_lv, progressive, loop, resumed, drawn>>

Types == {"BUFFERING", "CLOCK_LOST", "ERROR", "EOS"}
Message(type, lv) == [type |-> type, level |-> lv]

TypeOK ==
  /\ level \in 0 .. Full /\ buffering \in BOOLEAN
  /\ messages \in Seq([type : Types, level : 0 .. Full])
  /\ asked \in {"NULL", "READY", "PAUSED", "PLAYING"}
  /\ {is_live, progressive, resumed} \subseteq BOOLEAN
  /\ buf_lv \in 0 .. Full
  /\ loop \in {"start", "run", "quit", "exit", "undefined"}
  /\ drawn \in [position : 0 .. Length, start : Nat, stop : Nat, mark : Nat, from : Nat, to : Int]

Init ==
  /\ level = 0 /\ buffering = FALSE /\ messages = <<>>
  /\ asked = "NULL" /\ is_live = FALSE /\ buf_lv = Full
  /\ progressive = FALSE /\ loop = "start" /\ resumed = FALSE
  /\ drawn = [position |-> 0, start |-> 0, stop |-> 0, mark |-> 0, from |-> 0, to |-> 0]

-----------------------------------------------------------------------------
(* set_state(PLAYING).  If it fails progressive_streaming returns, while   *)
(* streaming frees the pipeline and goes on with it.                       *)
Start ==
  /\ loop = "start"
  /\ progressive' \in BOOLEAN
  /\ asked' = "PLAYING"
  /\ \E ret \in {"ASYNC", "NO_PREROLL", "FAILURE"} :
       /\ is_live' = (ret = "NO_PREROLL")
       /\ loop' = CASE ret # "FAILURE" -> "run"
                    [] progressive'    -> "exit"
                    [] OTHER           -> "undefined"
  /\ UNCHANGED <<queueVars, messages, buf_lv, resumed, drawn>>

Room == loop = "run" /\ Len(messages) < MaxBus

SetLevel(lv) ==
  /\ Room
  /\ level' = lv
  /\ buffering' = IF buffering THEN lv < Full ELSE lv <= Low
  /\ messages' = IF buffering \/ buffering'
                 THEN Append(messages, Message("BUFFERING", lv)) ELSE messages
  /\ UNCHANGED <<asked, is_live, buf_lv, progressive, loop, resumed, drawn>>

Download == level < Full /\ SetLevel(level + 1)
Consume  == level > 0 /\ asked = "PLAYING" /\ SetLevel(level - 1)

(* A lost clock, an error, the end.                                        *)
Post(type) ==
  /\ Room
  /\ type = "CLOCK_LOST" => asked = "PLAYING"
  /\ messages' = Append(messages, Message(type, 0))
  /\ UNCHANGED <<queueVars, asked, is_live, buf_lv, progressive, loop, resumed, drawn>>

-----------------------------------------------------------------------------
(* cb_msg, one message at a time.                                          *)

Received(types) ==
  /\ loop = "run"
  /\ messages # <<>> /\ Head(messages).type \in types
  /\ messages' = Tail(messages)

HandleEnd ==
  /\ Received({"ERROR", "EOS"})
  /\ asked' = "READY"
  /\ loop' = "quit"
  /\ UNCHANGED <<queueVars, is_live, buf_lv, progressive, resumed, drawn>>

(* Mutated form: 100 percent is waited for with "greater than".            *)
StateForNever(lv) == IF lv <= Full THEN "PAUSED" ELSE "PLAYING"
StateFor(lv) == IF lv < Full THEN "PAUSED" ELSE "PLAYING"

HandleBuffering ==
  /\ Received({"BUFFERING"})
  /\ IF is_live
     THEN UNCHANGED <<asked, buf_lv, resumed>>
     ELSE LET lv == Head(messages).level
          IN /\ asked' = StateFor(lv)
             /\ buf_lv' = IF progressive THEN lv ELSE buf_lv
             /\ resumed' = FALSE
  /\ UNCHANGED <<queueVars, is_live, progressive, loop, drawn>>

(* Mutated form: the new clock is selected and playing not resumed.        *)
HandleClockLostPauses ==
  /\ Received({"CLOCK_LOST"})
  /\ asked' = "PAUSED"
  /\ resumed' = TRUE
  /\ UNCHANGED <<queueVars, is_live, buf_lv, progressive, loop, drawn>>
(* PAUSED and PLAYING again, buffering or not.                             *)
HandleClockLost ==
  /\ Received({"CLOCK_LOST"})
  /\ asked' = "PLAYING"
  /\ resumed' = TRUE
  /\ UNCHANGED <<queueVars, is_live, buf_lv, progressive, loop, drawn>>

(* The quotient of C, for a >= 0: rounded towards zero.                    *)
Div(a, b) == IF b > 0 THEN a \div b ELSE -(a \div (-b))

(* The cells from (included) to (excluded) a range of GST_FORMAT_PERCENT   *)
(* is drawn in: stop is scaled with a start that has been scaled already.  *)
From(start, stop) == (start * GRAPH_LENGTH) \div (stop - start)
To(start, stop) == Div(stop * GRAPH_LENGTH, stop - From(start, stop))
DividesByZero(start, stop) == stop = start \/ stop = From(start, stop)

(* Mutated form: the cell is counted from two.                             *)
MarkFromTwo(position) == (GRAPH_LENGTH * position) \div Length + 2
Mark(position) == (GRAPH_LENGTH * position) \div Length + 1

Drawing(p, start, stop) ==
  LET dashes == ~DividesByZero(start, stop)
  IN [position |-> p, start |-> start, stop |-> stop, mark |-> Mark(p),
      from |-> IF dashes THEN From(start, stop) ELSE 0,
      to   |-> IF dashes THEN To(start, stop) ELSE 0]

(* A dash past the last cell, and a mark on the terminator or past it.     *)
DashesLeave(d) == d.from < d.to /\ d.to > GRAPH_LENGTH
MarkLeaves(d)  == d.mark >= GRAPH_LENGTH

(* The timer of progressive_streaming, when the queries succeed, with one  *)
(* of the ranges.  A division by zero ends the program; if the terminator  *)
(* is overwritten or the array left it may end or go on.                   *)
refresh_ui ==
  /\ loop = "run" /\ progressive
  /\ \E p \in Positions, start, stop \in RangeEnds :
       /\ start <= stop
       /\ drawn' = Drawing(p, start, stop)
       /\ loop' \in IF DividesByZero(start, stop) THEN {"undefined"}
                    ELSE IF DashesLeave(drawn') \/ MarkLeaves(drawn') THEN {"run", "undefined"}
                    ELSE {"run"}
  /\ UNCHANGED <<queueVars, messages, asked, is_live, buf_lv, progressive, resumed>>

Teardown ==
  /\ loop = "quit"
  /\ asked' = "NULL"
  /\ loop' = "exit"
  /\ UNCHANGED <<queueVars, messages, is_live, buf_lv, progressive, resumed, drawn>>

MainStep == Start \/ HandleEnd \/ HandleBuffering \/ HandleClockLost \/ Teardown

Next ==
  \/ MainStep \/ refresh_ui
  \/ Download \/ Consume
  \/ \E type \in {"CLOCK_LOST", "ERROR", "EOS"} : Post(type)

Spec == Init /\ [][Next]_vars

-----------------------------------------------------------------------------
InFlight(types) == {i \in DOMAIN messages : messages[i].type \in types}

(* Once every level the queue has posted is handled, the program pauses    *)
(* while the queue buffers, except that a clock lost meanwhile has resumed *)
(* it, and plays otherwise.                                                *)
BufferingCoherent ==
  loop = "run" /\ ~is_live /\ InFlight({"BUFFERING"}) = {}
    => IF buffering THEN asked = "PAUSED" \/ resumed ELSE asked = "PLAYING"

(* A full queue does not stay paused: the program plays or has ended.      *)
FullQueuePlays ==
  loop = "run" /\ ~is_live /\ asked = "PAUSED" /\ level = Full
    ~> asked = "PLAYING" \/ loop # "run"

(* What refresh_ui writes, for whatever range: the mark leaves the graph   *)
(* in the last cell of the stream, and then always, and the array at its   *)
(* end; dashes leave it only for a range that is shorter than 0.31 percent *)
(* and does not begin at the start of the file; and nothing else makes the *)
(* program's end undefined.                                                *)
ShortRange == 3082
GraphInBounds ==
  /\ MarkLeaves(drawn) <=> GRAPH_LENGTH * drawn.position >= (GRAPH_LENGTH - 1) * Length
  /\ drawn.mark > GRAPH_LENGTH <=> drawn.position = Length
  /\ DashesLeave(drawn) => drawn.start > 0 /\ drawn.stop - drawn.start < ShortRange
  /\ progressive /\ loop = "undefined"
       => MarkLeaves(drawn) \/ drawn.stop - drawn.start < ShortRange

(* An error or the end on the bus ends the program, unless the drawing has *)
(* made its behaviour undefined.                                           *)
FailureEnds ==
  loop = "run" /\ InFlight({"ERROR", "EOS"}) # {} ~> loop \in {"exit", "undefined"}
=============================================================================

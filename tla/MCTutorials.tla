----------------------------- MODULE MCTutorials -----------------------------
(***************************************************************************)
(* The small tutorial programs on small instances.  They have nothing in   *)
(* common but the way they are checked: a behaviour is one of a single     *)
(* program, picked at the start, and the variables of the others keep      *)
(* their initial values.                                                   *)
(***************************************************************************)
EXTENDS Integers, Sequences

CONSTANTS
  Durations, MaxPosts,                        \* TimeManagement
  Full, Low, MaxBus, Length, Positions, RangeEnds,   \* Streaming
  Pads, NoPad, p1, p2, p3,                    \* PadLinker
  NumBranches, Cap, Needs,                    \* TeeBranches
  End, MaxSpeed,                              \* RateControl
  MaxInfos                                    \* Discoverer

VARIABLES
  program,
  actual, length, seekable, past_tenth, unposted, posts, bus, playing,
  terminated, seek_enabled, seek_done, duration, failed,
  level, buffering, messages, asked, is_live, buf_lv, progressive, loop,
  resumed, drawn,
  handler, kind, linked, refused, linkerMain, linkerBus,
  need, request, turn, queued, collected, prerolled, teePlaying, teeMain, ended,
  rateLoop, ratePlaying, rate, video_sink, position, applied, at, rateAsked,
  typed, passed,
  discovererLoop, topology, calls, topologyPrinted,
  source, pipeline, negotiated, unread, capsMain, capsPrinted

timeVars == <<actual, length, seekable, past_tenth, unposted, posts, bus, playing,
    terminated, seek_enabled, seek_done, duration, failed>>
streamingVars == <<level, buffering, messages, asked, is_live, buf_lv, progressive, loop,
    resumed, drawn>>
padVars == <<handler, kind, linked, refused, linkerMain, linkerBus>>
teeVars == <<need, request, turn, queued, collected, prerolled, teePlaying, teeMain, ended>>
rateVars == <<rateLoop, ratePlaying, rate, video_sink, position, applied, at, rateAsked,
    typed, passed>>
discovererVars == <<discovererLoop, topology, calls, topologyPrinted>>
capsVars == <<source, pipeline, negotiated, unread, capsMain, capsPrinted>>

TM   == INSTANCE TimeManagement
SM   == INSTANCE Streaming
PL   == INSTANCE PadLinker WITH main <- linkerMain, bus <- linkerBus
TB   == INSTANCE TeeBranches WITH playing <- teePlaying, main <- teeMain
RC   == INSTANCE RateControl WITH loop <- rateLoop, playing <- ratePlaying, asked <- rateAsked
DI   == INSTANCE Discoverer WITH loop <- discovererLoop, printed <- topologyPrinted
CAPS == INSTANCE PadCapabilities WITH main <- capsMain, printed <- capsPrinted

ASSUME TutorialsAssumption ==
  /\ TM!TimeAssumption /\ SM!StreamingAssumption /\ PL!PadAssumption
  /\ TB!TeeAssumption /\ RC!RateAssumption /\ DI!DiscovererAssumption /\ CAPS!BusAssumption

Init ==
  /\ program \in {"time", "streaming", "pads", "tee", "rate", "discoverer", "caps"}
  /\ TM!Init
  /\ program # "time" => seekable /\ length = CHOOSE d \in Durations : TRUE
  /\ SM!Init /\ PL!Init /\ TB!Init /\ RC!Init /\ DI!Init /\ CAPS!Init

TimeStep ==
  /\ program = "time" /\ TM!Next
  /\ UNCHANGED <<program, streamingVars, padVars, teeVars, rateVars, discovererVars, capsVars>>
StreamingStep ==
  /\ program = "streaming" /\ SM!Next
  /\ UNCHANGED <<program, timeVars, padVars, teeVars, rateVars, discovererVars, capsVars>>
PadStep ==
  /\ program = "pads" /\ PL!Next
  /\ UNCHANGED <<program, timeVars, streamingVars, teeVars, rateVars, discovererVars, capsVars>>
TeeStep ==
  /\ program = "tee" /\ TB!Next
  /\ UNCHANGED <<program, timeVars, streamingVars, padVars, rateVars, discovererVars, capsVars>>
RateStep ==
  /\ program = "rate" /\ RC!Next
  /\ UNCHANGED <<program, timeVars, streamingVars, padVars, teeVars, discovererVars, capsVars>>
DiscovererStep ==
  /\ program = "discoverer" /\ DI!Next
  /\ UNCHANGED <<program, timeVars, streamingVars, padVars, teeVars, rateVars, capsVars>>
CapsStep ==
  /\ program = "caps" /\ CAPS!Next
  /\ UNCHANGED <<program, timeVars, streamingVars, padVars, teeVars, rateVars, discovererVars>>

Next == TimeStep \/ StreamingStep \/ PadStep \/ TeeStep \/ RateStep \/ DiscovererStep \/ CapsStep

vars == <<program, timeVars, streamingVars, padVars, teeVars, rateVars, discovererVars, capsVars>>

(* The main threads run, playbin posts what it has changed, the handlers   *)
(* of pads return, and the threads of source and branches move buffers.    *)
(* Users, networks, errors and ends owe nothing.                           *)
Fairness ==
  /\ WF_timeVars(program = "time" /\ TM!Post) /\ WF_timeVars(program = "time" /\ TM!MainStep)
  /\ WF_streamingVars(program = "streaming" /\ SM!MainStep)
  /\ WF_padVars(program = "pads" /\ PL!MainStep)
  /\ \A p \in Pads : WF_padVars(program = "pads" /\ PL!LinkPad(p))
  /\ WF_teeVars(program = "tee" /\ TB!MainStep)
  /\ WF_teeVars(program = "tee" /\ TB!TeePush) /\ WF_teeVars(program = "tee" /\ TB!Preroll)
  /\ \A b \in 1 .. NumBranches : WF_teeVars(program = "tee" /\ TB!BranchPull(b))
  /\ WF_capsVars(program = "caps" /\ CAPS!MainStep)

Spec == Init /\ [][Next]_vars /\ Fairness

-----------------------------------------------------------------------------
(* The properties of the programs' modules, where they are explained.      *)

(* The type invariants of all programs.                                    *)
TypeOK ==
  /\ TM!TypeOK /\ SM!TypeOK /\ PL!TypeOK
  /\ TB!TypeOK /\ RC!TypeOK /\ CAPS!TypeOK

(* time_management.c: the cached duration is true or about to be forgotten.*)
DurationCoherent == TM!DurationCoherent
(* time_management.c: playing is true or about to be corrected.            *)
PlayingCoherent == TM!PlayingCoherent
(* streaming.c: paused while the queue buffers, playing otherwise.         *)
BufferingCoherent == SM!BufferingCoherent
(* streaming.c: a full queue does not stay paused.                         *)
FullQueuePlays == SM!FullQueuePlays
(* progressive_streaming.c: where the graph is written.                    *)
GraphInBounds == SM!GraphInBounds
(* dynamic_pipeline.c: a raw pad is left out only if its sink is taken.    *)
RawPadsPlaced == PL!RawPadsPlaced
(* multithread.c: the tee's branches all preroll.                          *)
Prerolls == TB!Prerolls
(* playback_basic.c: a rate change accounts for every key.                 *)
RateFollowsKeys == RC!RateFollowsKeys
(* discoverer.c: the topology can be read off the indentation.             *)
TopologyPrinted == DI!TopologyPrinted
(* pad_capabilities.c: caps under PAUSED and PLAYING are the negotiated.   *)
CapsNegotiated == CAPS!CapsNegotiated

(* Every program that waits for an error or the end of its pipeline ends   *)
(* after it, whatever else is on its bus and wherever its streaming        *)
(* threads are.                                                            *)
FailureEnds ==
  /\ TM!FailureEndsLoop /\ SM!FailureEnds /\ PL!FailureEnds
  /\ TB!FailureEnds /\ CAPS!FailureEnds
=============================================================================

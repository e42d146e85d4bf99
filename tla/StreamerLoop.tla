---------------------------- MODULE StreamerLoop ----------------------------
(***************************************************************************)
(* The main loops of the server's streamers.  Each worker thread makes a   *)
(* Streamer with a pipeline, a bus watch and a GMainLoop, and runs it; but *)
(* every loop is made with g_main_loop_new(NULL): all share the default    *)
(* main context, which one thread at a time owns and iterates.  The others *)
(* wait in g_main_loop_run, and cb_error of a pipeline runs on whichever   *)
(* thread owns the context.                                                *)
(*                                                                         *)
(* External, as GLib and GStreamer do it: g_main_loop_run marks the loop   *)
(* as running, whatever was asked of it before; a quit loop leaves at its  *)
(* next turn; going to NULL flushes the bus.  Messages other than errors   *)
(* change no state (videotestsrc never ends, so cb_eos is not called).     *)
(***************************************************************************)
EXTENDS Naturals, FiniteSets

CONSTANTS Streams,     \* the streamers made in a run of the server
          NumWorkers,  \* worker threads, each with one streamer at a time
          MaxErrors,   \* bound: errors a pipeline posts
          Nobody

ASSUME StreamerLoopAssumption ==
  /\ NumWorkers \in Nat \ {0}
  /\ MaxErrors \in Nat
  /\ Nobody \notin Streams

VARIABLES
  pc,           \* where the thread of each streamer is
  running,      \* GMainLoop.is_running
  loops,        \* streamers whose GMainLoop is allocated
  pending,      \* error messages on the bus of each pipeline
  posted,       \* errors it has posted so far
  owner,        \* whose thread owns the default main context
  dispatching   \* the pipeline whose error a thread is handling, or Nobody

vars == <<pc, running, loops, pending, posted, owner, dispatching>>

PC == {"new", "built", "start", "wait", "iterate", "returned", "null", "gone"}
InRun  == {"wait", "iterate"}
Active == {s \in Streams : pc[s] \notin {"new", "gone"}}

TypeOK ==
  /\ pc \in [Streams -> PC]
  /\ running \in [Streams -> BOOLEAN]
  /\ loops \in SUBSET Streams
  /\ pending \in [Streams -> 0 .. MaxErrors]
  /\ posted \in [Streams -> 0 .. MaxErrors]
  /\ owner \in Streams \cup {Nobody}
  /\ dispatching \in [Streams -> Streams \cup {Nobody}]

Init ==
  /\ pc = [s \in Streams |-> "new"]
  /\ running = [s \in Streams |-> FALSE]
  /\ loops = {}
  /\ pending = [s \in Streams |-> 0]
  /\ posted = [s \in Streams |-> 0]
  /\ owner = Nobody
  /\ dispatching = [s \in Streams |-> Nobody]

Goto(s, to) == pc' = [pc EXCEPT ![s] = to]

-----------------------------------------------------------------------------
(* A loop on the default main context, and a pipeline, which has no state  *)
(* of its own here.                                                        *)
make_common_data(s) == loops' = loops \cup {s}

(* A free worker makes a streamer: pipeline, loop, signals of the bus.     *)
NewStreamer(s) ==
  /\ pc[s] = "new"
  /\ Cardinality(Active) < NumWorkers
  /\ make_common_data(s)
  /\ Goto(s, "built")
  /\ UNCHANGED <<running, pending, posted, owner, dispatching>>

(* run: the pipeline starts, and may fail, before the loop runs.           *)
SetPlaying(s) ==
  /\ pc[s] = "built"
  /\ Goto(s, "start")
  /\ UNCHANGED <<running, loops, pending, posted, owner, dispatching>>

PostError(s) ==
  /\ pc[s] \in {"start", "returned"} \cup InRun
  /\ posted[s] < MaxErrors
  /\ pending' = [pending EXCEPT ![s] = @ + 1]
  /\ posted' = [posted EXCEPT ![s] = @ + 1]
  /\ UNCHANGED <<pc, running, loops, owner, dispatching>>

(* g_main_loop_run takes the context or waits for it.                      *)
EnterRun(s) ==
  /\ pc[s] = "start"
  /\ running' = [running EXCEPT ![s] = TRUE]
  /\ Goto(s, IF owner = Nobody THEN "iterate" ELSE "wait")
  /\ owner' = IF owner = Nobody THEN s ELSE owner
  /\ UNCHANGED <<loops, pending, posted, dispatching>>

TakeOver(s) ==
  /\ pc[s] = "wait" /\ running[s]
  /\ owner = Nobody
  /\ owner' = s
  /\ Goto(s, "iterate")
  /\ UNCHANGED <<running, loops, pending, posted, dispatching>>

(* The owner of the context pops an error of any pipeline, ...             *)
Dispatch(t, s) ==
  /\ pc[t] = "iterate" /\ dispatching[t] = Nobody
  /\ running[t] \/ s # t
  /\ pending[s] > 0
  /\ pending' = [pending EXCEPT ![s] = @ - 1]
  /\ dispatching' = [dispatching EXCEPT ![t] = s]
  /\ UNCHANGED <<pc, running, loops, posted, owner>>

(* Mutated form: the loop of the thread that got the message is quit.      *)
cb_errorOwnLoop(t) ==
  /\ dispatching[t] # Nobody
  /\ running' = [running EXCEPT ![t] = FALSE]
  /\ dispatching' = [dispatching EXCEPT ![t] = Nobody]
  /\ UNCHANGED <<pc, loops, pending, posted, owner>>
(* Mutated form: the error is printed only, as cb_warning does.            *)
cb_errorPrints(t) ==
  /\ dispatching[t] # Nobody
  /\ dispatching' = [dispatching EXCEPT ![t] = Nobody]
  /\ UNCHANGED <<pc, running, loops, pending, posted, owner>>
(* ... and cb_error quits the loop of that pipeline.                       *)
cb_error(t) ==
  /\ dispatching[t] # Nobody
  /\ running' = [running EXCEPT ![dispatching[t]] = FALSE]
  /\ dispatching' = [dispatching EXCEPT ![t] = Nobody]
  /\ UNCHANGED <<pc, loops, pending, posted, owner>>

(* A loop that was told to quit returns and gives up the context.          *)
LeaveRun(s) ==
  /\ pc[s] \in InRun /\ ~running[s]
  /\ dispatching[s] = Nobody
  /\ owner' = IF owner = s THEN Nobody ELSE owner
  /\ Goto(s, "returned")
  /\ UNCHANGED <<running, loops, pending, posted, dispatching>>

(* ~Streamer: the pipeline goes to NULL, which flushes its bus, ...        *)
SetNull(s) ==
  /\ pc[s] = "returned"
  /\ pending' = [pending EXCEPT ![s] = 0]
  /\ Goto(s, "null")
  /\ UNCHANGED <<running, loops, posted, owner, dispatching>>

(* ... and the loop is freed.                                              *)
FreeLoop(s) ==
  /\ pc[s] = "null"
  /\ loops' = loops \ {s}
  /\ Goto(s, "gone")
  /\ UNCHANGED <<running, pending, posted, owner, dispatching>>

Step(s) ==
  \/ SetPlaying(s) \/ EnterRun(s) \/ TakeOver(s) \/ LeaveRun(s)
  \/ (\E p \in Streams : Dispatch(s, p)) \/ cb_error(s)
  \/ SetNull(s) \/ FreeLoop(s)

Next == \E s \in Streams : NewStreamer(s) \/ PostError(s) \/ Step(s)

Spec == Init /\ [][Next]_vars

(* Every thread is scheduled.  No client has to bind, nothing has to fail. *)
FairSpec == Spec /\ \A s \in Streams : WF_vars(Step(s))

-----------------------------------------------------------------------------
(* cb_error quits a loop that ~Streamer has freed (streamer.cpp:31) only   *)
(* if the pipeline posted a second error, which another worker's thread    *)
(* had in hand while the first ended the stream.                           *)
LoopUsedAlive ==
  \A t \in Streams :
    dispatching[t] \notin loops \cup {Nobody} => posted[dispatching[t]] > 1

(* An error that is on the bus while its streamer is inside                *)
(* g_main_loop_run, waiting for the context included, ends the stream,     *)
(* though it is handled by another worker's thread.                        *)
ErrorEndsStream ==
  \A s \in Streams : pc[s] \in InRun /\ pending[s] > 0 ~> pc[s] = "gone"

(* A stream that is told to quit has failed itself: one client's failure   *)
(* does not end the stream of another.                                     *)
NobodyElseQuits ==
  \A s \in Streams : pc[s] \in InRun /\ ~running[s] => posted[s] > 0
=============================================================================

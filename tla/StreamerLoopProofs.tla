------------------------- MODULE StreamerLoopProofs -------------------------
(***************************************************************************)
(* The loops of any number of streamers on one main context, for any       *)
(* number of workers and of errors.                                        *)
(***************************************************************************)
EXTENDS StreamerLoop, TLAPS

(* Whoever iterates owns the context, and only the owner has a message in  *)
(* hand; a loop is allocated from the constructor to the destructor.       *)
ContextInv ==
  /\ \A s \in Streams : owner = s <=> pc[s] = "iterate"
  /\ \A t \in Streams : dispatching[t] # Nobody => pc[t] = "iterate"
  /\ loops = Active

(* An error of s is on the bus or in the hands of some thread.             *)
Dispatched(s) == \E t \in Streams : dispatching[t] = s
Running(s) == pc[s] \in InRun => running[s]

(* A pipeline that has not failed is not past its run and is not told to   *)
(* quit; the first error of one that has failed once is in one place, and  *)
(* until it has been handled the stream goes on.                           *)
ErrorInv ==
  \A s \in Streams :
    /\ pending[s] <= posted[s]
    /\ posted[s] = 0 =>
         /\ ~Dispatched(s) /\ Running(s)
         /\ pc[s] \notin {"returned", "null", "gone"}
    /\ posted[s] = 1 =>
         /\ pending[s] > 0 => ~Dispatched(s)
         /\ pending[s] > 0 \/ Dispatched(s) =>
              pc[s] \in {"start"} \cup InRun /\ Running(s)

IInv == TypeOK /\ ContextInv /\ ErrorInv

-----------------------------------------------------------------------------
LEMMA InitIInv == Init => IInv
<1> SUFFICES ASSUME Init PROVE IInv
  OBVIOUS
<1> USE StreamerLoopAssumption DEF Init
<1>1. TypeOK
  BY DEF TypeOK, PC
<1>2. ContextInv
  BY DEF ContextInv, Active
<1>3. ErrorInv
  BY DEF ErrorInv, Dispatched, Running, InRun
<1> QED BY <1>1, <1>2, <1>3 DEF IInv

(* Every variable keeps its type: no pipeline has more errors on its bus   *)
(* than it has posted.                                                     *)
LEMMA TypeStep == IInv /\ [Next]_vars => TypeOK'
<1> SUFFICES ASSUME IInv, [Next]_vars PROVE TypeOK'
  OBVIOUS
<1> USE StreamerLoopAssumption DEF IInv, TypeOK, PC, Goto, InRun
<1>1. ASSUME NEW s \in Streams, NewStreamer(s) PROVE TypeOK'
  BY <1>1 DEF NewStreamer, make_common_data
<1>2. ASSUME NEW s \in Streams, PostError(s) PROVE TypeOK'
  BY <1>2 DEF PostError, ErrorInv
<1>3. ASSUME NEW s \in Streams, SetPlaying(s) \/ EnterRun(s) \/ TakeOver(s) \/ LeaveRun(s)
      PROVE  TypeOK'
  BY <1>3 DEF SetPlaying, EnterRun, TakeOver, LeaveRun
<1>4. ASSUME NEW s \in Streams, NEW p \in Streams, Dispatch(s, p) PROVE TypeOK'
  BY <1>4 DEF Dispatch
<1>5. ASSUME NEW s \in Streams, cb_error(s) PROVE TypeOK'
  BY <1>5 DEF cb_error
<1>6. ASSUME NEW s \in Streams, SetNull(s) PROVE TypeOK'
  BY <1>6 DEF SetNull
<1>7. ASSUME NEW s \in Streams, FreeLoop(s) PROVE TypeOK'
  BY <1>7 DEF FreeLoop
<1>8. CASE UNCHANGED vars
  BY <1>8 DEF vars
<1> QED BY <1>1, <1>2, <1>3, <1>4, <1>5, <1>6, <1>7, <1>8 DEF Next, Step

(* The context changes hands in EnterRun, TakeOver and LeaveRun only.      *)
LEMMA ContextStep == IInv /\ [Next]_vars => ContextInv'
<1> SUFFICES ASSUME IInv, [Next]_vars PROVE ContextInv'
  OBVIOUS
<1> USE StreamerLoopAssumption DEF IInv, TypeOK, ContextInv, Active, Goto, InRun
<1>1. ASSUME NEW s \in Streams, NewStreamer(s) PROVE ContextInv'
  BY <1>1 DEF NewStreamer, make_common_data
<1>2. ASSUME NEW s \in Streams, PostError(s) PROVE ContextInv'
  BY <1>2 DEF PostError
<1>3. ASSUME NEW s \in Streams, SetPlaying(s) PROVE ContextInv'
  BY <1>3 DEF SetPlaying
<1>4. ASSUME NEW s \in Streams, EnterRun(s) PROVE ContextInv'
  BY <1>4 DEF EnterRun
<1>5. ASSUME NEW s \in Streams, TakeOver(s) PROVE ContextInv'
  BY <1>5 DEF TakeOver
<1>6. ASSUME NEW s \in Streams, LeaveRun(s) PROVE ContextInv'
  BY <1>6 DEF LeaveRun
<1>7. ASSUME NEW s \in Streams, NEW p \in Streams, Dispatch(s, p) PROVE ContextInv'
  BY <1>7 DEF Dispatch
<1>8. ASSUME NEW s \in Streams, cb_error(s) PROVE ContextInv'
  BY <1>8 DEF cb_error
<1>9. ASSUME NEW s \in Streams, SetNull(s) \/ FreeLoop(s) PROVE ContextInv'
  BY <1>9 DEF SetNull, FreeLoop
<1>10. CASE UNCHANGED vars
  BY <1>10 DEF vars
<1> QED BY <1>1, <1>2, <1>3, <1>4, <1>5, <1>6, <1>7, <1>8, <1>9, <1>10 DEF Next, Step

(* The steps that move an error: it is posted, taken and handled.          *)
LEMMA ErrorStep == IInv /\ [Next]_vars => ErrorInv'
<1> SUFFICES ASSUME IInv, [Next]_vars PROVE ErrorInv'
  OBVIOUS
<1> USE StreamerLoopAssumption
        DEF IInv, TypeOK, ErrorInv, Dispatched, Running, Goto, InRun
<1>1. ASSUME NEW s \in Streams, NewStreamer(s) PROVE ErrorInv'
  BY <1>1 DEF NewStreamer
<1>2. ASSUME NEW s \in Streams, PostError(s) PROVE ErrorInv'
  BY <1>2 DEF PostError
<1>3. ASSUME NEW s \in Streams, SetPlaying(s) PROVE ErrorInv'
  BY <1>3 DEF SetPlaying
<1>4. ASSUME NEW s \in Streams, EnterRun(s) PROVE ErrorInv'
  BY <1>4 DEF EnterRun
<1>5. ASSUME NEW s \in Streams, TakeOver(s) PROVE ErrorInv'
  BY <1>5 DEF TakeOver
<1>6. ASSUME NEW s \in Streams, LeaveRun(s) PROVE ErrorInv'
  BY <1>6 DEF LeaveRun
<1>7. ASSUME NEW s \in Streams, NEW p \in Streams, Dispatch(s, p) PROVE ErrorInv'
  BY <1>7 DEF Dispatch
<1>8. ASSUME NEW s \in Streams, cb_error(s) PROVE ErrorInv'
  BY <1>8 DEF cb_error, ContextInv
<1>9. ASSUME NEW s \in Streams, SetNull(s) \/ FreeLoop(s) PROVE ErrorInv'
  BY <1>9 DEF SetNull, FreeLoop
<1>10. CASE UNCHANGED vars
  BY <1>10 DEF vars
<1> QED BY <1>1, <1>2, <1>3, <1>4, <1>5, <1>6, <1>7, <1>8, <1>9, <1>10 DEF Next, Step

LEMMA AlwaysIInv == Spec => []IInv
<1>1. IInv /\ [Next]_vars => IInv'
  BY TypeStep, ContextStep, ErrorStep DEF IInv
<1> QED BY InitIInv, <1>1, PTL DEF Spec

-----------------------------------------------------------------------------
(* Every variable of the main loops keeps its type.                        *)
THEOREM LoopTypes == Spec => []TypeOK
<1>1. IInv => TypeOK
  BY DEF IInv
<1> QED BY AlwaysIInv, <1>1, PTL

(* A stream that is told to quit has failed itself.                        *)
THEOREM OnlyOwnFailureQuits == Spec => []NobodyElseQuits
<1>1. IInv => NobodyElseQuits
  BY DEF IInv, TypeOK, ErrorInv, Running, NobodyElseQuits
<1> QED BY AlwaysIInv, <1>1, PTL

(* A loop that cb_error quits after it was freed belongs to a pipeline     *)
(* that failed twice.                                                      *)
THEOREM FreedLoopFailedTwice == Spec => []LoopUsedAlive
<1>1. IInv => LoopUsedAlive
  <2> SUFFICES ASSUME IInv, NEW t \in Streams, dispatching[t] \notin loops \cup {Nobody}
               PROVE  posted[dispatching[t]] > 1
    BY DEF LoopUsedAlive
  <2>1. PICK s \in Streams : s = dispatching[t]
    BY DEF IInv, TypeOK
  <2>2. posted[s] \in Nat /\ posted[s] # 0
    BY <2>1 DEF IInv, TypeOK, ErrorInv, Dispatched
  <2>3. posted[s] # 1
    BY <2>1 DEF IInv, ErrorInv, Dispatched, ContextInv, Active, InRun
  <2> QED BY <2>1, <2>2, <2>3
<1> QED BY AlwaysIInv, <1>1, PTL

-----------------------------------------------------------------------------
(* Safety behind ErrorEndsStream: a thread that iterates the context, and  *)
(* a failure that is not forgotten on its way.                             *)

(* One thread iterates the default context, and whoever waits for it waits *)
(* for that thread, or can take it.                                        *)
ContextGoesOn ==
  /\ \A s, t \in Streams : pc[s] = "iterate" /\ pc[t] = "iterate" => s = t
  /\ \A s \in Streams : pc[s] = "wait" =>
       /\ dispatching[s] = Nobody
       /\ owner # Nobody => \E t \in Streams \ {s} : owner = t /\ pc[t] = "iterate"

(* The workers' loops share the default context without two of them ever   *)
(* iterating it, and without one that owns it having left its run, which   *)
(* would leave all others waiting in g_main_loop_run.                      *)
THEOREM ContextNeverOrphaned == Spec => []ContextGoesOn
<1>1. IInv => ContextGoesOn
  BY StreamerLoopAssumption DEF IInv, TypeOK, ContextInv, ContextGoesOn
<1> QED BY AlwaysIInv, <1>1, PTL

(* s is in g_main_loop_run and has an error on its bus or in the hands of  *)
(* some thread, or its loop has been told to quit.                         *)
Failing(s) ==
  pc[s] \in InRun /\ (pending[s] > 0 \/ Dispatched(s) \/ ~running[s])

FailureOnItsWay == \A s \in Streams : Failing(s) => Failing(s)' \/ pc'[s] = "returned"

(* Whoever takes the error of a stream that runs, the stream's own thread  *)
(* or another worker's, the stream stays on its way out until its run has  *)
(* returned: no step forgets the failure or lets the loop run on.          *)
THEOREM FailureKept == Spec => [][FailureOnItsWay]_vars
<1>1. IInv /\ [Next]_vars => [FailureOnItsWay]_vars
  <2> SUFFICES ASSUME IInv, Next, NEW s \in Streams, Failing(s)
               PROVE  Failing(s)' \/ pc'[s] = "returned"
    BY DEF FailureOnItsWay
  <2> USE StreamerLoopAssumption DEF IInv, TypeOK, Failing, Dispatched, InRun, Goto
  <2>1. ASSUME NEW t \in Streams, NewStreamer(t) \/ SetPlaying(t) \/ EnterRun(t)
        PROVE  Failing(s)'
    BY <2>1 DEF NewStreamer, SetPlaying, EnterRun
  <2>2. ASSUME NEW t \in Streams, PostError(t) PROVE Failing(s)'
    BY <2>2 DEF PostError
  <2>3. ASSUME NEW t \in Streams, TakeOver(t) PROVE Failing(s)'
    BY <2>3 DEF TakeOver
  <2>4. ASSUME NEW t \in Streams, NEW p \in Streams, Dispatch(t, p) PROVE Failing(s)'
    <3>1. CASE p = s
      BY <2>4, <3>1 DEF Dispatch
    <3>2. CASE p # s
      BY <2>4, <3>2 DEF Dispatch
    <3> QED BY <3>1, <3>2
  <2>5. ASSUME NEW t \in Streams, cb_error(t) PROVE Failing(s)'
    <3>1. CASE dispatching[t] = s
      BY <2>5, <3>1 DEF cb_error
    <3>2. CASE dispatching[t] # s
      BY <2>5, <3>2 DEF cb_error
    <3> QED BY <3>1, <3>2
  <2>6. ASSUME NEW t \in Streams, LeaveRun(t) PROVE Failing(s)' \/ pc'[s] = "returned"
    BY <2>6 DEF LeaveRun
  <2>7. ASSUME NEW t \in Streams, SetNull(t) \/ FreeLoop(t) PROVE Failing(s)'
    BY <2>7 DEF SetNull, FreeLoop
  <2> QED BY <2>1, <2>2, <2>3, <2>4, <2>5, <2>6, <2>7 DEF Next, Step
<1> QED BY AlwaysIInv, <1>1, PTL DEF Spec
=============================================================================

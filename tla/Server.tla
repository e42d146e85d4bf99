------------------------------- MODULE Server -------------------------------
(***************************************************************************)
(* The streaming server (clang/ex_server.cpp): the bind handlers of        *)
(* ServerBinder and the worker threads of main, each looping in            *)
(* run_streamer.  A worker scans the table without the lock, takes the     *)
(* lock when it meets a NON_ACTIVATED entry, looks again, and, if it is    *)
(* still so, releases the lock BEFORE it marks the entry ACTIVATED and     *)
(* runs the stream.  When the stream ends control falls through to a       *)
(* second unlock, of a mutex the worker no longer holds.                   *)
(*                                                                         *)
(*   scan -> spotted -> locked -> set -> take -> create -> run -> scan     *)
(***************************************************************************)
EXTENDS ServerBinder

CONSTANTS Workers,      \* the threads streamer_threads[10]
          StreamsFail,  \* may a stream end (bus error: the main loop quits)?
          Stray         \* what is read through a pointer to a freed entry

ASSUME ServerAssumption ==
  /\ Workers \cap Handlers = {}
  /\ Unlocked \notin Workers
  /\ StreamsFail \in BOOLEAN
  /\ None \notin BindInfo
  /\ Stray \notin BindInfo \cup {None}

VARIABLES
  wpc,     \* program counter of each worker
  i,       \* its loop index (entries are numbered from 1)
  info,    \* ServiceStreamer_t.info: the buffer the entry was in, or None
  stream   \* where its running streamer sends: client and port

workerVars == <<wpc, i, info, stream>>
vars == <<binderVars, workerVars>>

WorkerPC == {"scan", "spotted", "locked", "set", "take", "create", "run"}

(* The workers past the decision to activate an entry.                     *)
Committed == {"set", "take", "create", "run"}

TypeOK ==
  /\ BinderTypeOK
  /\ service_table_mutex \in Handlers \cup Workers \cup {Unlocked}
  /\ wpc \in [Workers -> WorkerPC]
  /\ i \in [Workers -> Nat \ {0}]
  /\ info \in [Workers -> Nat \cup {None}]
  /\ stream \in [Workers -> BindInfo \cup {None, Stray}]

Init ==
  /\ BinderInit
  /\ wpc = [w \in Workers |-> "scan"]
  /\ i = [w \in Workers |-> 1]
  /\ info = [w \in Workers |-> None]
  /\ stream = [w \in Workers |-> None]

-----------------------------------------------------------------------------
(* What service_table[k].status() may return: the status, or anything when *)
(* the elements are on the move and the read hits a buffer being freed.    *)
StatusReads(k) ==
  IF Relocating \/ k \notin DOMAIN service_table THEN Status
  ELSE {service_table[k].status}

Goto(w, pc) == wpc' = [wpc EXCEPT ![w] = pc]
NextEntry(w) == i' = [i EXCEPT ![w] = @ + 1]

(* The for loop is over: sleep(1) and start a new one.                     *)
NextRound(w) ==
  /\ wpc[w] = "scan"
  /\ i[w] > Len(service_table)
  /\ i' = [i EXCEPT ![w] = 1]
  /\ UNCHANGED <<binderVars, wpc, info, stream>>

SkipActivated(w) ==
  /\ wpc[w] = "scan"
  /\ i[w] <= Len(service_table)
  /\ ACTIVATED \in StatusReads(i[w])
  /\ NextEntry(w)
  /\ UNCHANGED <<binderVars, wpc, info, stream>>

SpotNonActivated(w) ==
  /\ wpc[w] = "scan"
  /\ i[w] <= Len(service_table)
  /\ NON_ACTIVATED \in StatusReads(i[w])
  /\ Goto(w, "spotted")
  /\ UNCHANGED <<binderVars, i, info, stream>>

LockTable(w) ==
  /\ wpc[w] = "spotted"
  /\ service_table_mutex = Unlocked
  /\ service_table_mutex' = w
  /\ Goto(w, "locked")
  /\ UNCHANGED <<tableVars, port_base, callVars, todo, bound, i, info, stream>>

(* Mutated form: the unlock is moved into the branch that activates.       *)
LoseRaceKeepsLock(w) ==
  /\ wpc[w] = "locked"
  /\ ACTIVATED \in StatusReads(i[w])
  /\ NextEntry(w)
  /\ Goto(w, "scan")
  /\ UNCHANGED <<binderVars, info, stream>>
(* Another worker was faster: unlock and look at the next entry.           *)
LoseRace(w) ==
  /\ wpc[w] = "locked"
  /\ ACTIVATED \in StatusReads(i[w])
  /\ service_table_mutex' = Unlocked
  /\ NextEntry(w)
  /\ Goto(w, "scan")
  /\ UNCHANGED <<tableVars, port_base, callVars, todo, bound, info, stream>>

(* Still not activated: unlock, with the decision made and not recorded.   *)
WinRace(w) ==
  /\ wpc[w] = "locked"
  /\ NON_ACTIVATED \in StatusReads(i[w])
  /\ service_table_mutex' = Unlocked
  /\ Goto(w, "set")
  /\ UNCHANGED <<tableVars, port_base, callVars, todo, bound, i, info, stream>>

WithStatus(entry, status) == [entry EXCEPT !.status = status]

(* Mutated form: the unused status TO_ACTIVATE is stored.                  *)
SetToActivate(w) ==
  /\ wpc[w] = "set"
  /\ service_table' = [k \in DOMAIN service_table |->
       IF k = i[w] THEN WithStatus(service_table[k], 1) ELSE service_table[k]]
  /\ Goto(w, "take")
  /\ UNCHANGED <<buffer, service_table_mutex, port_base, callVars, todo, bound,
                 i, info, stream>>
(* Mutated form: one entry too far is marked.                              *)
SetNextActivated(w) ==
  /\ wpc[w] = "set"
  /\ service_table' = [k \in DOMAIN service_table |->
       IF k = i[w] + 1 THEN WithStatus(service_table[k], ACTIVATED) ELSE service_table[k]]
  /\ Goto(w, "take")
  /\ UNCHANGED <<buffer, service_table_mutex, port_base, callVars, todo, bound,
                 i, info, stream>>
(* The entry is marked, with no lock held.                                 *)
SetActivated(w) ==
  /\ wpc[w] = "set"
  /\ service_table' = [k \in DOMAIN service_table |->
       IF k = i[w] THEN WithStatus(service_table[k], ACTIVATED) ELSE service_table[k]]
  /\ Goto(w, "take")
  /\ UNCHANGED <<buffer, service_table_mutex, port_base, callVars, todo, bound,
                 i, info, stream>>

(* streamer.info = &service_table[i]: an address in the buffer of today.   *)
TakeInfo(w) ==
  /\ wpc[w] = "take"
  /\ info' = [info EXCEPT ![w] = buffer]
  /\ Goto(w, "create")
  /\ UNCHANGED <<binderVars, i, stream>>

(* The client and the port are read through info once the pipeline exists. *)
Pointee(w) ==
  IF info[w] = buffer /\ i[w] \in DOMAIN service_table
  THEN [client |-> service_table[i[w]].client, port |-> service_table[i[w]].port]
  ELSE Stray

CreateStreamer(w) ==
  /\ wpc[w] = "create"
  /\ stream' = [stream EXCEPT ![w] = Pointee(w)]
  /\ info' = [info EXCEPT ![w] = None]
  /\ Goto(w, "run")
  /\ UNCHANGED <<binderVars, i>>

(* streamer.run() returns; the fall-through unlock frees the mutex whoever *)
(* holds it, and the scan goes on with the next entry.                     *)
StreamerEnds(w) ==
  /\ StreamsFail
  /\ wpc[w] = "run"
  /\ stream' = [stream EXCEPT ![w] = None]
  /\ service_table_mutex' = Unlocked
  /\ NextEntry(w)
  /\ Goto(w, "scan")
  /\ UNCHANGED <<tableVars, port_base, callVars, todo, bound, info>>

(* What a worker does of itself, all but the end of its stream.            *)
WorkerStep(w) ==
  \/ NextRound(w) \/ SkipActivated(w) \/ SpotNonActivated(w)
  \/ LockTable(w) \/ LoseRace(w) \/ WinRace(w)
  \/ SetActivated(w) \/ TakeInfo(w) \/ CreateStreamer(w)

Next ==
  \/ BinderNext /\ UNCHANGED workerVars
  \/ \E w \in Workers : WorkerStep(w) \/ StreamerEnds(w)

Spec == Init /\ [][Next]_vars

(* Every thread runs on; no client has to call and no stream has to fail.  *)
FairSpec ==
  /\ Spec
  /\ \A h \in Handlers : WF_vars(BindStep(h) /\ UNCHANGED workerVars)
  /\ \A w \in Workers : WF_vars(WorkerStep(w))

-----------------------------------------------------------------------------
(* service_table_mutex protects push_back: at any time one thread at most  *)
(* is between its lock and the unlock that goes with it.                   *)
Holders == {h \in Handlers : hpc[h] = "push"} \cup {w \in Workers : wpc[w] = "locked"}
CriticalSections == Cardinality(Holders) <= 1

(* A bind that has returned left exactly one entry in the table, however   *)
(* the push_backs of other handlers and the workers' writes interleave.    *)
EntriesOf(c) == {k \in DOMAIN service_table : service_table[k].client = c}
EachBindRegisteredOnce == \A b \in bound : Cardinality(EntriesOf(b.client)) = 1

(* Two ports given out, to clients or to streams, are the same or three    *)
(* apart, so that the RTP and RTCP ports of two services never overlap in  *)
(* part.  (Racing bind calls may be given the same port.)                  *)
PortsInUse == {b.port : b \in bound} \cup {service_table[k].port : k \in DOMAIN service_table}
PortBlocksDisjoint ==
  \A p, q \in PortsInUse : p # q => Block(p) \cap Block(q) = {}

(* Where the stream of entry k has to go.                                  *)
Address(k) == [client |-> service_table[k].client, port |-> service_table[k].port]

(* A later push_back has moved the vector, entry k included: a pointer to  *)
(* the entry, or a mark made during the copy, may have been lost by it.    *)
Moved(k) == \E n \in ReallocAt : k <= n /\ n < Len(service_table)

(* What worker w runs for the entry at its index goes where that entry     *)
(* says, unless the vector has moved: then it may have read a freed entry. *)
StreamsFor(w, k) == stream[w] = Address(k) \/ (stream[w] = Stray /\ Moved(k))

(* An entry marked ACTIVATED has a worker that has decided to serve it and *)
(* has not given it up, and which streams, once it runs, to the client and *)
(* the port of that very entry; and an entry a worker has marked stays     *)
(* marked, so that no later scan takes it again.  Either may fail for the  *)
(* entries that a later bind has moved to a new buffer, and for no others. *)
ActivatedHasStreamer ==
  /\ \A k \in DOMAIN service_table :
       service_table[k].status = ACTIVATED =>
         \E w \in Workers :
           wpc[w] \in Committed /\ i[w] = k /\ (wpc[w] = "run" => StreamsFor(w, k))
  /\ \A w \in Workers :
       wpc[w] \in {"take", "create", "run"} =>
         service_table[i[w]].status = ACTIVATED \/ Moved(i[w])

(* A stream goes to the client of the entry its worker picked, at the port *)
(* the reply of bind told that client, however often streams end and the   *)
(* mutex is freed for somebody else (when bind calls do not overlap).  The *)
(* one exception is an entry that a later bind has moved: its worker may   *)
(* have read the freed one.                                                *)
Replies == bound \cup ({bind_info[h] : h \in Handlers} \ {None})
StreamsReachTheirClient ==
  \A w \in Workers : wpc[w] = "run" =>
    StreamsFor(w, i[w]) /\ stream[w] \in Replies \cup {Stray}

(* A bind call that has begun returns.                                     *)
BindReturns == \A h \in Handlers : hpc[h] # "idle" ~> hpc[h] = "idle"

(* An entry that waits is activated, unless every worker is streaming.     *)
Waiting(k) == k \in DOMAIN service_table /\ service_table[k].status = NON_ACTIVATED
AllStreaming == \A w \in Workers : wpc[w] = "run"
WorkConserving ==
  \A k \in 1 .. Cardinality(Clients) : Waiting(k) ~> (~Waiting(k) \/ AllStreaming)
=============================================================================

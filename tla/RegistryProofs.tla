--------------------------- MODULE RegistryProofs ---------------------------
(***************************************************************************)
(* No registration is lost or made twice, as long as push_backs exclude    *)
(* each other: with streams that do not end, or with a single handler.     *)
(* With a single handler thread the server implements PortRegistry, for    *)
(* any number of workers, streams that end when they like, and any growth  *)
(* of the vector; and streams go where the client was told to listen, but  *)
(* for those set up through a pointer to an entry that has been moved.     *)
(***************************************************************************)
EXTENDS ServerProofs

(* Two entries, two tables of the same services: statuses may differ.      *)
Same(e, f) == e.client = f.client /\ e.port = f.port
SameServices(s, t) == Len(s) = Len(t) /\ \A k \in 1 .. Len(t) : Same(s[k], t[k])

(* push_backs exclude each other ...                                       *)
Alone == \A g, h \in Handlers : hpc[g] = "push" /\ hpc[h] = "push" => g = h

(* ... so the copy that push_back makes stays a copy.                      *)
CopyInv == \A h \in Handlers : hpc[h] = "push" => SameServices(moving[h], service_table)

LEMMA PushedAppends ==
  ASSUME TypeInv, CopyInv, NEW h \in Handlers, hpc[h] = "push"
  PROVE  /\ Len(Pushed(h)) = Len(service_table) + 1
         /\ \A k \in 1 .. Len(service_table) : Same(Pushed(h)[k], service_table[k])
         /\ Pushed(h)[Len(service_table) + 1] = new_service[h]
<1> DEFINE n == Len(service_table)
<1>1. /\ service_table \in Seq(ServiceInfo) /\ moving[h] \in Seq(ServiceInfo)
      /\ n \in Nat /\ Len(moving[h]) = n
      /\ \A k \in 1 .. n : Same(moving[h][k], service_table[k])
  BY DEF TypeInv, TypeOK, BinderTypeOK, CopyInv, SameServices
<1>2. CASE n \in ReallocAt
  <2>1. Pushed(h) = Append(moving[h], new_service[h])
    BY <1>1, <1>2 DEF Pushed
  <2>2. Len(Pushed(h)) = n + 1 /\ Pushed(h)[n + 1] = new_service[h]
        /\ \A k \in 1 .. n : Pushed(h)[k] = moving[h][k]
    BY <1>1, <2>1
  <2> QED BY <1>1, <2>2
<1>3. CASE n \notin ReallocAt
  <2>1. 1 .. n \cup {n + 1} = 1 .. (n + 1)
    BY <1>1
  <2>2. Pushed(h) = [k \in 1 .. (n + 1) |->
                       IF k = n + 1 THEN new_service[h] ELSE service_table[k]]
    BY <1>1, <1>3, <2>1 DEF Pushed
  <2>3. Pushed(h) \in Seq(ServiceInfo)
    BY PushedFrom DEF TypeInv, TypeOK, BinderTypeOK, CallOK
  <2>4. Len(Pushed(h)) = n + 1
    BY <1>1, <2>2, <2>3
  <2>5. Pushed(h)[n + 1] = new_service[h] /\ \A k \in 1 .. n : Pushed(h)[k] = service_table[k]
    BY <1>1, <2>2
  <2> QED BY <2>4, <2>5 DEF Same
<1> QED BY <1>2, <1>3

(* Only push_back changes which services there are.                        *)
LEMMA TableStep ==
  ASSUME TypeInv, [Next]_vars, \A h \in Handlers : ~BindPush(h)
  PROVE  SameServices(service_table', service_table)
<1>1. service_table \in Seq(ServiceInfo)
  BY DEF TypeInv, TypeOK, BinderTypeOK
<1>2. CASE service_table' = service_table
  BY <1>1, <1>2 DEF SameServices, Same
<1>3. ASSUME NEW w \in Workers, SetActivated(w)
      PROVE  SameServices(service_table', service_table)
  <2>1. DOMAIN service_table = 1 .. Len(service_table) /\ Len(service_table) \in Nat
    BY <1>1
  <2>2. service_table' = [k \in 1 .. Len(service_table) |->
          IF k = i[w] THEN WithStatus(service_table[k], ACTIVATED) ELSE service_table[k]]
    BY <1>3, <2>1 DEF SetActivated
  <2>3. service_table' \in Seq(ServiceInfo)
    BY <1>1, <1>3, MarkedType DEF SetActivated
  <2>4. Len(service_table') = Len(service_table)
    BY <2>1, <2>2, <2>3
  <2>5. ASSUME NEW k \in 1 .. Len(service_table)
        PROVE  Same(service_table'[k], service_table[k])
    <3>1. service_table[k] \in ServiceInfo
      BY <1>1
    <3> QED BY <2>2, <3>1 DEF Same, WithStatus, ServiceInfo
  <2> QED BY <2>4, <2>5 DEF SameServices
<1>4. ASSUME NEW w \in Workers, WorkerStep(w) \/ StreamerEnds(w), ~SetActivated(w)
      PROVE  service_table' = service_table
  BY <1>4 DEF WorkerStep, NextRound, SkipActivated, SpotNonActivated, LockTable, LoseRace,
              WinRace, TakeInfo, CreateStreamer, StreamerEnds, binderVars, tableVars
<1>5. ASSUME NEW h \in Handlers, BindStep(h) \/ \E c \in Clients : BindReply(h, c)
      PROVE  service_table' = service_table
  BY <1>5 DEF BindStep, BindReply, BindFill, BindLock, BindLoad, BindStore, tableVars
<1> QED BY <1>2, <1>3, <1>4, <1>5 DEF Next, BinderNext, vars, binderVars

LEMMA InitCopy == Init => CopyInv
BY DEF Init, BinderInit, CopyInv

LEMMA StepCopy ==
  ASSUME TypeInv, CopyInv, Alone, [Next]_vars
  PROVE  CopyInv'
<1> USE DEF TypeInv, TypeOK, BinderTypeOK
<1>1. ASSUME NEW h \in Handlers, BindPush(h)
      PROVE  CopyInv'
  <2>1. \A g \in Handlers : hpc'[g] # "push"
    BY <1>1 DEF BindPush, Alone
  <2> QED BY <2>1 DEF CopyInv
<1>2. ASSUME NEW h \in Handlers, BindLock(h)
      PROVE  CopyInv'
  <2>1. service_table' = service_table /\ moving'[h] = service_table
        /\ \A g \in Handlers \ {h} : moving'[g] = moving[g] /\ hpc'[g] = hpc[g]
    BY <1>2 DEF BindLock, tableVars
  <2>2. SameServices(service_table, service_table)
    BY DEF SameServices, Same
  <2> QED BY <2>1, <2>2 DEF CopyInv
<1>3. ASSUME SameServices(service_table', service_table),
             \A h \in Handlers : hpc'[h] = "push" => hpc[h] = "push" /\ moving'[h] = moving[h]
      PROVE  CopyInv'
  BY <1>3 DEF CopyInv, SameServices, Same
<1>4. ASSUME \A h \in Handlers : ~BindPush(h) /\ ~BindLock(h)
      PROVE  \A h \in Handlers : hpc'[h] = "push" => hpc[h] = "push" /\ moving'[h] = moving[h]
  <2>1. CASE UNCHANGED callVars
    BY <2>1 DEF callVars
  <2>2. ASSUME NEW h \in Handlers, BindStep(h) \/ \E c \in Clients : BindReply(h, c)
        PROVE  \A g \in Handlers : hpc'[g] = "push" => hpc[g] = "push" /\ moving'[g] = moving[g]
    BY <1>4, <2>2 DEF BindStep, BindReply, BindFill, BindLoad, BindStore
  <2>3. ASSUME NEW w \in Workers, WorkerStep(w) \/ StreamerEnds(w)
        PROVE  UNCHANGED callVars
    BY <2>3 DEF WorkerStep, NextRound, SkipActivated, SpotNonActivated, LockTable, LoseRace,
                WinRace, SetActivated, TakeInfo, CreateStreamer, StreamerEnds,
                binderVars, callVars
  <2> QED BY <2>1, <2>2, <2>3 DEF Next, BinderNext, vars, binderVars, callVars
<1> QED BY <1>1, <1>2, <1>3, <1>4, TableStep

-----------------------------------------------------------------------------
(* What a worker has picked, marked and read.                              *)

LEMMA TableGrows ==
  ASSUME TypeInv, CopyInv, [Next]_vars
  PROVE  /\ Len(service_table) <= Len(service_table')
         /\ \A k \in 1 .. Len(service_table) : Same(service_table'[k], service_table[k])
<1>1. Len(service_table) \in Nat
  BY DEF TypeInv, TypeOK, BinderTypeOK
<1>2. CASE \A h \in Handlers : ~BindPush(h)
  BY <1>1, <1>2, TableStep DEF SameServices
<1>3. ASSUME NEW h \in Handlers, BindPush(h)
      PROVE  /\ Len(service_table) <= Len(service_table')
             /\ \A k \in 1 .. Len(service_table) : Same(service_table'[k], service_table[k])
  BY <1>1, <1>3, PushedAppends DEF BindPush
<1> QED BY <1>2, <1>3

(* An entry that has been moved has been moved for good, and every entry   *)
(* keeps the address it was pushed with.                                   *)
LEMMA EntriesStay ==
  ASSUME TypeInv, TypeInv', CopyInv, [Next]_vars
  PROVE  /\ \A k : Moved(k) => Moved(k)'
         /\ \A k \in 1 .. Len(service_table) :
              k \in 1 .. Len(service_table') /\ Address(k)' = Address(k)
<1>1. Len(service_table) \in Nat /\ Len(service_table') \in Nat
  BY DEF TypeInv, TypeOK, BinderTypeOK
<1>2. \A k : Moved(k) => Moved(k)'
  BY <1>1, TableGrows, BinderAssumption DEF Moved
<1>3. ASSUME NEW k \in 1 .. Len(service_table)
      PROVE  k \in 1 .. Len(service_table') /\ Address(k)' = Address(k)
  BY <1>1, TableGrows DEF Address, Same
<1> QED BY <1>2, <1>3

(* What a step of the handlers does to the buffer and to the marks.        *)
LEMMA MarksStay ==
  ASSUME TypeInv, CopyInv, NEW h \in Handlers, BindPush(h), NEW k \in 1 .. Len(service_table)
  PROVE  \/ buffer' = buffer /\ service_table'[k] = service_table[k]
         \/ Moved(k)'
<1> DEFINE n == Len(service_table)
<1>1. n \in Nat /\ service_table \in Seq(ServiceInfo) /\ Len(moving[h]) = n
      /\ service_table' = Pushed(h) /\ Len(service_table') = n + 1
  BY PushedAppends DEF BindPush, CopyInv, SameServices, TypeInv, TypeOK, BinderTypeOK
<1>2. CASE n \in ReallocAt
  BY <1>1, <1>2 DEF Moved
<1>3. CASE n \notin ReallocAt
  <2>1. buffer' = buffer
    BY <1>1, <1>3 DEF BindPush
  <2>2. Pushed(h) = [j \in 1 .. n \cup {n + 1} |->
                       IF j = n + 1 THEN new_service[h] ELSE service_table[j]]
    BY <1>1, <1>3 DEF Pushed
  <2>3. service_table'[k] = service_table[k]
    BY <1>1, <2>2
  <2> QED BY <2>1, <2>3
<1> QED BY <1>2, <1>3

(* A worker past its first look has an index inside the table; once it has *)
(* marked the entry it stays marked, its pointer is good and its stream is *)
(* the entry's, or the entry has moved.                                    *)
Marked == {"take", "create", "run"}

Picked(w) ==
  /\ wpc[w] # "scan" => i[w] \in 1 .. Len(service_table)
  /\ wpc[w] \in Marked => service_table[i[w]].status = ACTIVATED \/ Moved(i[w])
  /\ wpc[w] = "create" => info[w] = buffer \/ Moved(i[w])
  /\ wpc[w] = "run" => StreamsFor(w, i[w])

PickedInv == \A w \in Workers : Picked(w)

LEMMA InitPicked == Init => PickedInv
BY DEF Init, PickedInv, Picked, Marked

(* Steps that leave a worker alone.                                        *)
LEMMA OthersPicked ==
  ASSUME TypeInv, TypeInv', CopyInv, PickedInv, [Next]_vars, NEW w \in Workers,
         wpc'[w] = wpc[w], i'[w] = i[w], info'[w] = info[w], stream'[w] = stream[w],
         \A k \in 1 .. Len(service_table) :
           \/ /\ buffer' = buffer
              /\ service_table[k].status = ACTIVATED => service_table'[k].status = ACTIVATED
           \/ Moved(k)'
  PROVE  Picked(w)'
<1>1. wpc[w] # "scan" => /\ i[w] \in 1 .. Len(service_table)
                         /\ i[w] \in 1 .. Len(service_table')
                         /\ Address(i[w])' = Address(i[w])
                         /\ Moved(i[w]) => Moved(i[w])'
  BY EntriesStay DEF PickedInv, Picked
<1>2. wpc[w] = "run" => StreamsFor(w, i[w])'
  BY <1>1 DEF PickedInv, Picked, StreamsFor
<1> QED BY <1>1, <1>2 DEF PickedInv, Picked, Marked

LEMMA StepPicked ==
  ASSUME TypeInv, TypeInv', CopyInv, PickedInv, [Next]_vars
  PROVE  PickedInv'
<1> USE DEF TypeInv, TypeOK, BinderTypeOK
<1>1. ASSUME UNCHANGED workerVars,
             \A k \in 1 .. Len(service_table) :
               \/ /\ buffer' = buffer
                  /\ service_table[k].status = ACTIVATED => service_table'[k].status = ACTIVATED
               \/ Moved(k)'
      PROVE  PickedInv'
  BY <1>1, OthersPicked DEF PickedInv, workerVars
<1>2. ASSUME NEW h \in Handlers, BindPush(h), UNCHANGED workerVars
      PROVE  PickedInv'
  BY <1>1, <1>2, MarksStay
<1>3. ASSUME BinderNext, \A h \in Handlers : ~BindPush(h), UNCHANGED workerVars
      PROVE  PickedInv'
  <2>1. UNCHANGED tableVars
    BY <1>3 DEF BinderNext, BindStep, BindReply, BindFill, BindLock, BindLoad, BindStore
  <2> QED BY <1>1, <1>3, <2>1 DEF tableVars
<1>4. ASSUME NEW w \in Workers, WorkerStep(w) \/ StreamerEnds(w)
      PROVE  PickedInv'
  <2>1. buffer' = buffer /\ \A k \in 1 .. Len(service_table) :
          service_table[k].status = ACTIVATED => service_table'[k].status = ACTIVATED
    <3>1. CASE SetActivated(w)
      <4>1. ASSUME NEW k \in 1 .. Len(service_table)
            PROVE  service_table'[k].status \in {service_table[k].status, ACTIVATED}
        <5>1. service_table[k] \in ServiceInfo
          OBVIOUS
        <5> QED BY <3>1, <5>1 DEF SetActivated, WithStatus, ServiceInfo
      <4> QED BY <3>1, <4>1 DEF SetActivated
    <3>2. CASE ~SetActivated(w)
      BY <1>4, <3>2 DEF WorkerStep, NextRound, SkipActivated, SpotNonActivated, LockTable,
         LoseRace, WinRace, TakeInfo, CreateStreamer, StreamerEnds, binderVars, tableVars
    <3> QED BY <3>1, <3>2
  <2>2. ASSUME NEW v \in Workers \ {w}
        PROVE  wpc'[v] = wpc[v] /\ i'[v] = i[v] /\ info'[v] = info[v] /\ stream'[v] = stream[v]
    BY <1>4 DEF WorkerStep, NextRound, SkipActivated, SpotNonActivated, LockTable, LoseRace,
                WinRace, SetActivated, TakeInfo, CreateStreamer, StreamerEnds, Goto, NextEntry
  <2>3. \/ wpc'[w] = "scan"
        \/ /\ i'[w] = i[w] /\ i[w] \in 1 .. Len(service_table')
           /\ \/ wpc'[w] \in {"spotted", "locked", "set"}
              \/ wpc'[w] = "take" /\ service_table'[i[w]].status = ACTIVATED
              \/ /\ wpc'[w] = "create" /\ info'[w] = buffer'
                 /\ service_table'[i[w]].status = ACTIVATED \/ Moved(i[w])'
              \/ /\ wpc'[w] = "run" /\ StreamsFor(w, i[w])'
                 /\ service_table'[i[w]].status = ACTIVATED \/ Moved(i[w])'
    <3>1. CASE NextRound(w) \/ SkipActivated(w) \/ LoseRace(w) \/ StreamerEnds(w)
      BY <3>1 DEF NextRound, SkipActivated, LoseRace, StreamerEnds, Goto
    <3>2. CASE SpotNonActivated(w)
      BY <3>2 DEF SpotNonActivated, Goto, binderVars
    <3>3. CASE LockTable(w) \/ WinRace(w)
      BY <3>3 DEF LockTable, WinRace, Goto, tableVars, PickedInv, Picked
    <3>4. CASE SetActivated(w)
      <4>1. wpc[w] = "set" /\ i[w] \in 1 .. Len(service_table) /\ i' = i /\ wpc'[w] = "take"
        BY <3>4 DEF SetActivated, Goto, PickedInv, Picked
      <4>2. i[w] \in 1 .. Len(service_table')
        BY <4>1, EntriesStay
      <4>3. service_table'[i[w]] = WithStatus(service_table[i[w]], ACTIVATED)
            /\ service_table[i[w]] \in ServiceInfo
        BY <3>4, <4>1 DEF SetActivated
      <4>4. service_table'[i[w]].status = ACTIVATED
        BY <4>3 DEF WithStatus, ServiceInfo
      <4> QED BY <4>1, <4>2, <4>4
    <3>5. CASE TakeInfo(w)
      BY <3>5 DEF TakeInfo, Goto, binderVars, PickedInv, Picked, Marked, Moved
    <3>6. CASE CreateStreamer(w)
      <4>1. /\ wpc[w] = "create" /\ i' = i /\ wpc'[w] = "run" /\ stream'[w] = Pointee(w)
            /\ UNCHANGED <<service_table, buffer>> /\ i[w] \in 1 .. Len(service_table)
        BY <3>6 DEF CreateStreamer, Goto, binderVars, PickedInv, Picked
      <4>2. Pointee(w) = Address(i[w]) \/ (Pointee(w) = Stray /\ Moved(i[w]))
        BY <4>1 DEF Pointee, Address, PickedInv, Picked
      <4>3. StreamsFor(w, i[w])'
        BY <4>1, <4>2 DEF StreamsFor, Address, Moved
      <4> QED BY <4>1, <4>3 DEF PickedInv, Picked, Marked, Moved
    <3> QED BY <1>4, <3>1, <3>2, <3>3, <3>4, <3>5, <3>6 DEF WorkerStep
  <2>4. Picked(w)'
    BY <2>3 DEF Picked, Marked
  <2>5. ASSUME NEW v \in Workers \ {w}
        PROVE  Picked(v)'
    BY <2>1, <2>2, OthersPicked
  <2> QED BY <2>4, <2>5 DEF PickedInv
<1>5. CASE UNCHANGED vars
  BY <1>1, <1>5 DEF vars, binderVars
<1> QED BY <1>2, <1>3, <1>4, <1>5 DEF Next

(* Streams that do not end: no lock is freed for somebody else, push_backs *)
(* exclude each other and a table only grows.                              *)
LEMMA LockedInvariant ==
  ASSUME ~StreamsFail
  PROVE  Spec => [](TypeInv /\ BackedInv /\ PickedInv)
<1>1. TypeInv /\ MutexInv => Alone
  BY DEF MutexInv, Alone
<1>2. TypeInv /\ MutexInv /\ CopyInv /\ [Next]_vars => CopyInv'
  BY <1>1, StepCopy
<1>3. TypeInv /\ MutexInv /\ [Next]_vars => MutexInv'
  BY StepMutex
<1>4. TypeInv /\ BackedInv /\ [Next]_vars => BackedInv'
  BY StepBacked
<1>5. TypeInv /\ TypeInv' /\ CopyInv /\ PickedInv /\ [Next]_vars => PickedInv'
  BY StepPicked
<1> QED BY InitType, StepType, InitMutex, InitCopy, InitBacked, InitPicked,
           <1>2, <1>3, <1>4, <1>5, PTL DEF Spec

(* An entry marked ACTIVATED has a worker that serves it, streaming to the *)
(* client and the port of that entry, and stays marked: except for entries *)
(* a later bind has moved, whose worker may have read a freed one.         *)
THEOREM ActivatedIsServed == ASSUME ~StreamsFail PROVE Spec => []ActivatedHasStreamer
<1>1. TypeInv /\ BackedInv /\ PickedInv => ActivatedHasStreamer
  <2> SUFFICES ASSUME TypeInv, BackedInv, PickedInv PROVE ActivatedHasStreamer
    OBVIOUS
  <2>1. ASSUME NEW k \in DOMAIN service_table, service_table[k].status = ACTIVATED
        PROVE  \E w \in Workers :
                 wpc[w] \in Committed /\ i[w] = k /\ (wpc[w] = "run" => StreamsFor(w, k))
    BY <2>1 DEF BackedInv, Backed, PickedInv, Picked
  <2>2. ASSUME NEW w \in Workers, wpc[w] \in {"take", "create", "run"}
        PROVE  service_table[i[w]].status = ACTIVATED \/ Moved(i[w])
    BY <2>2 DEF PickedInv, Picked, Marked
  <2> QED BY <2>1, <2>2 DEF ActivatedHasStreamer
<1> QED BY LockedInvariant, <1>1, PTL

(* However bind calls overlap, no worker streams to a client, or on a port,*)
(* other than those of the entry it picked, unless a later bind has moved  *)
(* that entry (run_streamer keeps a pointer into the vector).  Were the    *)
(* vector never moved (ReallocAt = {}: reserved in advance), every stream  *)
(* would go where its entry says.                                          *)
EachStreamsForItsEntry ==
  \A w \in Workers : wpc[w] = "run" =>
    /\ i[w] \in DOMAIN service_table
    /\ StreamsFor(w, i[w])
    /\ ReallocAt = {} => stream[w] = Address(i[w])

THEOREM StreamsFollowEntries == ASSUME ~StreamsFail PROVE Spec => []EachStreamsForItsEntry
<1>1. TypeInv /\ BackedInv /\ PickedInv => EachStreamsForItsEntry
  <2> SUFFICES ASSUME TypeInv, PickedInv, NEW w \in Workers, wpc[w] = "run"
               PROVE  /\ i[w] \in DOMAIN service_table
                      /\ StreamsFor(w, i[w])
                      /\ ReallocAt = {} => stream[w] = Address(i[w])
    BY DEF EachStreamsForItsEntry
  <2>1. i[w] \in 1 .. Len(service_table) /\ StreamsFor(w, i[w])
    BY DEF PickedInv, Picked
  <2>2. DOMAIN service_table = 1 .. Len(service_table)
    BY DEF TypeInv, TypeOK, BinderTypeOK
  <2>3. ReallocAt = {} => stream[w] = Address(i[w])
    BY <2>1 DEF StreamsFor, Moved
  <2> QED BY <2>1, <2>2, <2>3
<1> QED BY LockedInvariant, <1>1, PTL

-----------------------------------------------------------------------------
(* Where a client's bind call stands and how many entries it has.          *)
Unregistered(h) == hpc[h] \in {"fill", "lock", "push"}
Answering(h) == hpc[h] \in {"load", "store"}
EntriesIn(t, c) == {k \in DOMAIN t : t[k].client = c}
Once(t, c) == \E k : EntriesIn(t, c) = {k}

TodoOK ==
  \A c \in todo :
    /\ EntriesIn(service_table, c) = {}
    /\ \A h \in Handlers : hpc[h] # "idle" => bind_info[h].client # c
    /\ \A b \in bound : b.client # c

DistinctOK ==
  \A g, h \in Handlers :
    g # h /\ hpc[g] # "idle" /\ hpc[h] # "idle" => bind_info[g].client # bind_info[h].client

CallsOK ==
  \A h \in Handlers :
    /\ Unregistered(h) => EntriesIn(service_table, bind_info[h].client) = {}
    /\ Answering(h) => Once(service_table, bind_info[h].client)
    /\ hpc[h] \in {"lock", "push"} => new_service[h].client = bind_info[h].client

BoundOK == \A b \in bound : Once(service_table, b.client)

OnceInv == TodoOK /\ DistinctOK /\ CallsOK /\ BoundOK

LEMMA InitOnce == Init => OnceInv
BY DEF Init, BinderInit, OnceInv, TodoOK, DistinctOK, CallsOK, BoundOK, EntriesIn,
       Unregistered, Answering

LEMMA EntriesKept ==
  ASSUME TypeInv, SameServices(service_table', service_table),
         service_table' \in Seq(ServiceInfo)
  PROVE  \A c : EntriesIn(service_table', c) = EntriesIn(service_table, c)
<1>1. service_table \in Seq(ServiceInfo)
  BY DEF TypeInv, TypeOK, BinderTypeOK
<1>2. DOMAIN service_table = 1 .. Len(service_table)
      /\ DOMAIN service_table' = 1 .. Len(service_table)
  BY <1>1 DEF SameServices
<1>3. \A k \in 1 .. Len(service_table) : service_table'[k].client = service_table[k].client
  BY DEF SameServices, Same
<1> QED BY <1>2, <1>3 DEF EntriesIn

LEMMA EntriesPushed ==
  ASSUME TypeInv, CopyInv, NEW h \in Handlers, BindPush(h)
  PROVE  /\ \A c : c # new_service[h].client => EntriesIn(service_table', c) = EntriesIn(service_table, c)
         /\ EntriesIn(service_table, new_service[h].client) = {}
              => EntriesIn(service_table', new_service[h].client) = {Len(service_table) + 1}
<1> DEFINE n == Len(service_table)
<1>1. /\ service_table' = Pushed(h)
      /\ Len(Pushed(h)) = n + 1
      /\ \A k \in 1 .. n : Same(Pushed(h)[k], service_table[k])
      /\ Pushed(h)[n + 1] = new_service[h]
  BY PushedAppends DEF BindPush
<1>2. n \in Nat /\ DOMAIN service_table = 1 .. n
  BY DEF TypeInv, TypeOK, BinderTypeOK
<1>3. Pushed(h) \in Seq(ServiceInfo)
  BY PushedFrom DEF TypeInv, TypeOK, BinderTypeOK, CallOK, BindPush
<1>4. DOMAIN service_table' = 1 .. n \cup {n + 1} /\ n + 1 \notin 1 .. n
  BY <1>1, <1>2, <1>3
<1>5. \A k \in 1 .. n : service_table'[k].client = service_table[k].client
  BY <1>1 DEF Same
<1>6. service_table'[n + 1].client = new_service[h].client
  BY <1>1
<1>7. \A c : EntriesIn(service_table', c) =
               EntriesIn(service_table, c) \cup {k \in {n + 1} : new_service[h].client = c}
  BY <1>2, <1>4, <1>5, <1>6 DEF EntriesIn
<1> QED BY <1>7

(* Steps that leave the entries of every client alone.                     *)
SameEntries == \A c : EntriesIn(service_table', c) = EntriesIn(service_table, c)

LEMMA SameEntriesOnce ==
  ASSUME SameEntries
  PROVE  \A c : Once(service_table, c) => Once(service_table', c)
BY DEF SameEntries, Once

LEMMA ReplyOnce ==
  ASSUME TypeInv, OnceInv, NEW h \in Handlers, NEW c \in Clients, BindReply(h, c)
  PROVE  OnceInv'
<1>1. /\ c \in todo /\ todo' = todo \ {c}
      /\ UNCHANGED <<service_table, bound, new_service>>
      /\ hpc'[h] = "fill" /\ bind_info'[h].client = c
      /\ \A g \in Handlers \ {h} : hpc'[g] = hpc[g] /\ bind_info'[g] = bind_info[g]
  BY DEF BindReply, tableVars, TypeInv, TypeOK, BinderTypeOK
<1>2. TodoOK'
  BY <1>1 DEF OnceInv, TodoOK
<1>3. DistinctOK'
  <2> SUFFICES ASSUME NEW f \in Handlers, NEW g \in Handlers,
                      f # g, hpc'[f] # "idle", hpc'[g] # "idle"
               PROVE  bind_info'[f].client # bind_info'[g].client
    BY DEF DistinctOK
  <2>1. CASE f = h \/ g = h
    BY <1>1, <2>1 DEF OnceInv, TodoOK
  <2>2. CASE f # h /\ g # h
    BY <1>1, <2>2 DEF OnceInv, DistinctOK
  <2> QED BY <2>1, <2>2
<1>4. CallsOK'
  <2> SUFFICES ASSUME NEW g \in Handlers
               PROVE  /\ Unregistered(g)' => EntriesIn(service_table', bind_info'[g].client) = {}
                      /\ Answering(g)' => Once(service_table', bind_info'[g].client)
                      /\ hpc'[g] \in {"lock", "push"} =>
                           new_service'[g].client = bind_info'[g].client
    BY DEF CallsOK
  <2>1. CASE g = h
    BY <1>1, <2>1 DEF OnceInv, TodoOK, Unregistered, Answering
  <2>2. CASE g # h
    BY <1>1, <2>2 DEF OnceInv, CallsOK, Unregistered, Answering
  <2> QED BY <2>1, <2>2
<1>5. BoundOK'
  BY <1>1 DEF OnceInv, BoundOK
<1> QED BY <1>2, <1>3, <1>4, <1>5 DEF OnceInv

(* A handler that gets on with its call, short of the push_back.           *)
LEMMA ProgressOnce ==
  ASSUME TypeInv, OnceInv, NEW h \in Handlers,
         BindFill(h) \/ BindLock(h) \/ BindLoad(h)
  PROVE  OnceInv'
<1>1. /\ UNCHANGED <<service_table, bound, todo, bind_info>>
      /\ \A g \in Handlers \ {h} : hpc'[g] = hpc[g] /\ new_service'[g] = new_service[g]
      /\ \/ hpc[h] = "fill" /\ hpc'[h] = "lock" /\ new_service'[h].client = bind_info[h].client
         \/ hpc[h] = "lock" /\ hpc'[h] = "push" /\ new_service'[h] = new_service[h]
         \/ hpc[h] = "load" /\ hpc'[h] = "store"
  BY DEF BindFill, BindLock, BindLoad, NewService, tableVars, TypeInv, TypeOK, BinderTypeOK
<1>2. \A g \in Handlers : hpc'[g] # "idle" => hpc[g] # "idle"
  BY <1>1
<1>3. TodoOK' /\ DistinctOK' /\ BoundOK'
  BY <1>1, <1>2 DEF OnceInv, TodoOK, DistinctOK, BoundOK
<1>4. CallsOK'
  BY <1>1 DEF OnceInv, CallsOK, Unregistered, Answering
<1> QED BY <1>3, <1>4 DEF OnceInv

LEMMA PushOnce ==
  ASSUME TypeInv, CopyInv, OnceInv, NEW h \in Handlers, BindPush(h)
  PROVE  OnceInv'
<1>1. PICK c : c = bind_info[h].client
  OBVIOUS
<1>2. new_service[h].client = c /\ EntriesIn(service_table, c) = {} /\ hpc[h] = "push"
  BY <1>1 DEF BindPush, OnceInv, CallsOK, Unregistered
<1>3. \A d : d # c => EntriesIn(service_table', d) = EntriesIn(service_table, d)
  BY <1>2, EntriesPushed
<1>4. Once(service_table', c)
  BY <1>2, EntriesPushed DEF Once
<1>5. c \notin todo /\ \A g \in Handlers \ {h} : hpc[g] # "idle" => bind_info[g].client # c
  BY <1>1, <1>2 DEF OnceInv, TodoOK, DistinctOK
<1>6. \A d : Once(service_table, d) => Once(service_table', d)
  BY <1>3, <1>4 DEF Once
<1>7. UNCHANGED <<todo, bound, bind_info>> /\ hpc'[h] = "load"
      /\ \A g \in Handlers \ {h} : hpc'[g] = hpc[g] /\ new_service'[g] = new_service[g]
  BY DEF BindPush, TypeInv, TypeOK, BinderTypeOK
<1>8. TodoOK'
  BY <1>2, <1>3, <1>5, <1>7 DEF OnceInv, TodoOK
<1>9. DistinctOK'
  BY <1>2, <1>7 DEF OnceInv, DistinctOK
<1>10. CallsOK'
  <2> SUFFICES ASSUME NEW g \in Handlers
               PROVE  /\ Unregistered(g)' => EntriesIn(service_table', bind_info'[g].client) = {}
                      /\ Answering(g)' => Once(service_table', bind_info'[g].client)
                      /\ hpc'[g] \in {"lock", "push"} =>
                           new_service'[g].client = bind_info'[g].client
    BY DEF CallsOK
  <2>1. CASE g = h
    BY <1>1, <1>4, <1>7, <2>1 DEF Unregistered, Answering
  <2>2. CASE g # h
    BY <1>3, <1>5, <1>6, <1>7, <2>2 DEF OnceInv, CallsOK, Unregistered, Answering
  <2> QED BY <2>1, <2>2
<1>11. BoundOK'
  BY <1>6, <1>7 DEF OnceInv, BoundOK
<1> QED BY <1>8, <1>9, <1>10, <1>11 DEF OnceInv

LEMMA StoreOnce ==
  ASSUME TypeInv, OnceInv, NEW h \in Handlers, BindStore(h)
  PROVE  OnceInv'
<1>1. /\ UNCHANGED <<service_table, todo, new_service>>
      /\ hpc[h] = "store" /\ hpc'[h] = "idle" /\ bound' = bound \cup {bind_info[h]}
      /\ \A g \in Handlers \ {h} : hpc'[g] = hpc[g] /\ bind_info'[g] = bind_info[g]
  BY DEF BindStore, tableVars, TypeInv, TypeOK, BinderTypeOK
<1>2. TodoOK'
  BY <1>1 DEF OnceInv, TodoOK
<1>3. DistinctOK'
  BY <1>1 DEF OnceInv, DistinctOK
<1>4. CallsOK'
  BY <1>1 DEF OnceInv, CallsOK, Unregistered, Answering
<1>5. BoundOK'
  BY <1>1 DEF OnceInv, BoundOK, CallsOK, Answering
<1> QED BY <1>2, <1>3, <1>4, <1>5 DEF OnceInv

LEMMA StepOnce ==
  ASSUME TypeInv, TypeInv', CopyInv, OnceInv, [Next]_vars
  PROVE  OnceInv'
<1>1. ASSUME NEW h \in Handlers, BindStep(h) \/ \E c \in Clients : BindReply(h, c)
      PROVE  OnceInv'
  BY <1>1, ReplyOnce, ProgressOnce, PushOnce, StoreOnce DEF BindStep
<1>2. ASSUME SameEntries, UNCHANGED <<todo, bound, callVars>>
      PROVE  OnceInv'
  <2>1. TodoOK' /\ DistinctOK'
    BY <1>2 DEF OnceInv, SameEntries, TodoOK, DistinctOK, callVars
  <2>2. CallsOK' /\ BoundOK'
    BY <1>2, SameEntriesOnce
       DEF OnceInv, SameEntries, CallsOK, BoundOK, Unregistered, Answering, callVars
  <2> QED BY <2>1, <2>2 DEF OnceInv
<1>3. ASSUME NEW w \in Workers, WorkerStep(w) \/ StreamerEnds(w)
      PROVE  UNCHANGED <<todo, bound, callVars>> /\ \A h \in Handlers : ~BindPush(h)
  <2>1. UNCHANGED <<todo, bound, callVars>>
    BY <1>3 DEF WorkerStep, NextRound, SkipActivated, SpotNonActivated, LockTable, LoseRace,
                WinRace, SetActivated, TakeInfo, CreateStreamer, StreamerEnds,
                binderVars, callVars
  <2> QED BY <2>1 DEF BindPush, callVars, TypeInv, TypeOK, BinderTypeOK
<1>4. ASSUME UNCHANGED <<todo, bound, callVars>>, \A h \in Handlers : ~BindPush(h)
      PROVE  SameEntries
  <2>1. SameServices(service_table', service_table) /\ service_table' \in Seq(ServiceInfo)
    BY <1>4, TableStep DEF TypeInv, TypeOK, BinderTypeOK
  <2> QED BY <2>1, EntriesKept DEF SameEntries
<1>5. CASE UNCHANGED vars
  <2>1. UNCHANGED <<todo, bound, callVars>> /\ \A h \in Handlers : ~BindPush(h)
    BY <1>5 DEF vars, binderVars, callVars, BindPush, TypeInv, TypeOK, BinderTypeOK
  <2> QED BY <1>2, <1>4, <2>1
<1> QED BY <1>1, <1>2, <1>3, <1>4, <1>5 DEF Next, BinderNext

(* Streams that do not end: the mutex keeps push_backs apart, so every     *)
(* bind that has returned left exactly one entry in the table.             *)
THEOREM RegisteredOnce == ASSUME ~StreamsFail PROVE Spec => []EachBindRegisteredOnce
<1>1. TypeInv /\ MutexInv => Alone
  BY DEF MutexInv, Alone
<1>2. OnceInv => EachBindRegisteredOnce
  <2> SUFFICES ASSUME OnceInv, NEW b \in bound
               PROVE  Cardinality(EntriesOf(b.client)) = 1
    BY DEF EachBindRegisteredOnce
  <2>1. PICK k : EntriesIn(service_table, b.client) = {k}
    BY DEF OnceInv, BoundOK, Once
  <2>2. EntriesOf(b.client) = {k}
    BY <2>1 DEF EntriesIn, EntriesOf
  <2> QED BY <2>2, FS_Singleton
<1>3. TypeInv /\ MutexInv /\ CopyInv /\ [Next]_vars => CopyInv'
  BY <1>1, StepCopy
<1>4. TypeInv /\ TypeInv' /\ CopyInv /\ OnceInv /\ [Next]_vars => OnceInv'
  BY StepOnce
<1>5. TypeInv /\ MutexInv /\ [Next]_vars => MutexInv'
  BY StepMutex
<1> QED BY InitType, StepType, InitMutex, InitCopy, InitOnce, <1>2, <1>3, <1>4, <1>5, PTL
           DEF Spec

-----------------------------------------------------------------------------
(* A single handler thread.                                                *)

Called == Cardinality(Clients \ todo)

(* The counter has been bumped once for each call that has been answered.  *)
CounterOK ==
  \A h \in Handlers :
    /\ hpc[h] = "idle" => port_base = FirstPort + 3 * Called
    /\ hpc[h] # "idle" => /\ Called >= 1
                          /\ port_base = FirstPort + 3 * (Called - 1)
                          /\ bind_info[h].port = port_base
    /\ hpc[h] \in {"lock", "push"} => new_service[h].port = port_base
    /\ hpc[h] = "store" => port_reg[h] = port_base

(* What is registered was told to a client or will be when its call        *)
(* returns, and lies below the counter but for the call in progress.       *)
RegisteredOK ==
  /\ bound \subseteq Registered
  /\ \A s \in Registered : s \in bound \/ \E h \in Handlers : Answering(h) /\ s = bind_info[h]
  /\ \A h \in Handlers : \A s \in Registered :
       /\ s.port <= port_base
       /\ ~Answering(h) => s.port + 3 <= port_base
  /\ \A h \in Handlers : Answering(h) => bind_info[h] \in Registered

StreamsOK == \A w \in Workers : stream[w] \in Registered \cup {None, Stray}

SerialInv == CounterOK /\ RegisteredOK /\ StreamsOK

-----------------------------------------------------------------------------
LEMMA CalledGrows ==
  ASSUME IsFiniteSet(Clients), todo \subseteq Clients, NEW c \in todo
  PROVE  /\ Called \in Nat /\ Called <= Cardinality(Clients)
         /\ Cardinality(Clients \ (todo \ {c})) = Called + 1
<1>1. IsFiniteSet(Clients \ todo)
  BY FS_Subset
<1>2. c \notin Clients \ todo /\ Clients \ (todo \ {c}) = (Clients \ todo) \cup {c}
  OBVIOUS
<1>3. Cardinality((Clients \ todo) \cup {c}) = Cardinality(Clients \ todo) + 1
  BY <1>1, <1>2, FS_AddElement
<1>4. Cardinality(Clients \ todo) <= Cardinality(Clients)
  BY FS_Subset
<1> QED BY <1>1, <1>2, <1>3, <1>4, FS_CardinalityType DEF Called

LEMMA CalledType ==
  ASSUME IsFiniteSet(Clients)
  PROVE  Called \in Nat /\ Cardinality(Clients) \in Nat /\ Called <= Cardinality(Clients)
BY FS_Subset, FS_CardinalityType DEF Called

LEMMA RegisteredKept ==
  ASSUME TypeInv, TypeInv', SameServices(service_table', service_table)
  PROVE  Registered' = Registered
<1>1. DOMAIN service_table = 1 .. Len(service_table)
      /\ DOMAIN service_table' = 1 .. Len(service_table)
  BY DEF TypeInv, TypeOK, BinderTypeOK, SameServices
<1>2. \A k \in 1 .. Len(service_table) :
        service_table'[k].client = service_table[k].client
        /\ service_table'[k].port = service_table[k].port
  BY DEF SameServices, Same
<1> QED BY <1>1, <1>2 DEF Registered

LEMMA RegisteredPushed ==
  ASSUME TypeInv, TypeInv', CopyInv, OnceInv, CounterOK, NEW h \in Handlers, BindPush(h)
  PROVE  Registered' = Registered \cup {bind_info[h]}
<1> DEFINE n == Len(service_table)
<1>1. /\ service_table' = Pushed(h)
      /\ Len(Pushed(h)) = n + 1
      /\ \A k \in 1 .. n : Same(Pushed(h)[k], service_table[k])
      /\ Pushed(h)[n + 1] = new_service[h]
  BY PushedAppends DEF BindPush
<1>2. n \in Nat /\ DOMAIN service_table = 1 .. n
      /\ DOMAIN service_table' = 1 .. n \cup {n + 1}
  <2>1. service_table \in Seq(ServiceInfo) /\ service_table' \in Seq(ServiceInfo)
    BY DEF TypeInv, TypeOK, BinderTypeOK
  <2>2. n \in Nat /\ DOMAIN service_table = 1 .. n /\ DOMAIN service_table' = 1 .. (n + 1)
    BY <1>1, <2>1
  <2> QED BY <2>2
<1>3. new_service[h].client = bind_info[h].client /\ new_service[h].port = bind_info[h].port
  BY DEF BindPush, OnceInv, CallsOK, CounterOK
<1>4. bind_info[h] = [client |-> bind_info[h].client, port |-> bind_info[h].port]
  BY DEF BindPush, TypeInv, CallOK, BindInfo
<1>5. [client |-> service_table'[n + 1].client, port |-> service_table'[n + 1].port]
        = bind_info[h]
  BY <1>1, <1>3, <1>4
<1>6. \A k \in 1 .. n : service_table'[k].client = service_table[k].client
                        /\ service_table'[k].port = service_table[k].port
  BY <1>1 DEF Same
<1> QED BY <1>2, <1>5, <1>6 DEF Registered

LEMMA InitSerial == ASSUME Init PROVE SerialInv
<1>1. Called = 0
  BY FS_EmptySet DEF Init, BinderInit, Called
<1> QED BY <1>1, BinderAssumption
        DEF Init, BinderInit, SerialInv, CounterOK, RegisteredOK, StreamsOK, Registered,
            Answering

-----------------------------------------------------------------------------
(* The steps of the only handler.                                          *)
LEMMA SerialReply ==
  ASSUME IsFiniteSet(Clients), TypeInv, SerialInv,
         NEW h, Handlers = {h}, UNCHANGED workerVars, NEW c \in Clients, BindReply(h, c)
  PROVE  SerialInv'
<1>1. /\ hpc[h] = "idle" /\ c \in todo /\ todo' = todo \ {c}
      /\ UNCHANGED <<service_table, port_base, bound, stream>>
      /\ hpc'[h] = "fill" /\ bind_info'[h].port = port_base
  BY DEF BindReply, tableVars, workerVars, TypeInv, TypeOK, BinderTypeOK
<1>2. Called \in Nat /\ Called' = Called + 1
  BY <1>1, CalledGrows DEF Called, TypeInv, TypeOK, BinderTypeOK
<1>3. Registered' = Registered
  BY <1>1 DEF Registered
<1>4. CounterOK'
  BY <1>1, <1>2 DEF SerialInv, CounterOK
<1>5. RegisteredOK'
  BY <1>1, <1>3 DEF SerialInv, RegisteredOK, Answering
<1>6. StreamsOK'
  BY <1>1, <1>3 DEF SerialInv, StreamsOK
<1> QED BY <1>4, <1>5, <1>6 DEF SerialInv

(* fill, lock and load: neither table nor counter nor replies change.      *)
LEMMA SerialProgress ==
  ASSUME TypeInv, SerialInv, NEW h, Handlers = {h}, UNCHANGED workerVars,
         BindFill(h) \/ BindLock(h) \/ BindLoad(h)
  PROVE  SerialInv'
<1>1. /\ UNCHANGED <<service_table, port_base, bound, bind_info, stream, todo>>
      /\ \/ hpc[h] = "fill" /\ hpc'[h] = "lock" /\ new_service'[h].port = port_base
         \/ hpc[h] = "lock" /\ hpc'[h] = "push" /\ new_service'[h] = new_service[h]
         \/ hpc[h] = "load" /\ hpc'[h] = "store" /\ port_reg'[h] = port_base
  BY DEF BindFill, BindLock, BindLoad, NewService, tableVars, workerVars,
         TypeInv, TypeOK, BinderTypeOK
<1>2. Registered' = Registered /\ Called' = Called
  BY <1>1 DEF Registered, Called
<1>3. CounterOK'
  BY <1>1, <1>2 DEF SerialInv, CounterOK
<1>4. RegisteredOK'
  BY <1>1, <1>2 DEF SerialInv, RegisteredOK, Answering
<1>5. StreamsOK'
  BY <1>1, <1>2 DEF SerialInv, StreamsOK
<1> QED BY <1>3, <1>4, <1>5 DEF SerialInv

LEMMA SerialPush ==
  ASSUME TypeInv, TypeInv', CopyInv, OnceInv, SerialInv,
         NEW h, Handlers = {h}, UNCHANGED workerVars, BindPush(h)
  PROVE  SerialInv'
<1>1. /\ UNCHANGED <<port_base, bound, bind_info, stream, todo>>
      /\ hpc[h] = "push" /\ hpc'[h] = "load"
  BY DEF BindPush, workerVars, TypeInv, TypeOK, BinderTypeOK
<1>2. Registered' = Registered \cup {bind_info[h]}
  BY RegisteredPushed DEF SerialInv
<1>3. Called' = Called
  BY <1>1 DEF Called
<1>4. CounterOK'
  BY <1>1, <1>3 DEF SerialInv, CounterOK
<1>5. bind_info[h].port = port_base /\ port_base \in Nat
  BY <1>1 DEF SerialInv, CounterOK, TypeInv, TypeOK, BinderTypeOK
<1>6. RegisteredOK'
  BY <1>1, <1>2, <1>5 DEF SerialInv, RegisteredOK, Answering
<1>7. StreamsOK'
  BY <1>1, <1>2 DEF SerialInv, StreamsOK
<1> QED BY <1>4, <1>6, <1>7 DEF SerialInv

LEMMA SerialStore ==
  ASSUME IsFiniteSet(Clients), TypeInv, SerialInv,
         NEW h, Handlers = {h}, UNCHANGED workerVars, BindStore(h)
  PROVE  SerialInv'
<1>1. /\ UNCHANGED <<service_table, todo, stream>>
      /\ hpc[h] = "store" /\ hpc'[h] = "idle" /\ bound' = bound \cup {bind_info[h]}
      /\ port_base' = port_reg[h] + 3
  BY DEF BindStore, PortStep, tableVars, workerVars, TypeInv, TypeOK, BinderTypeOK
<1>2. Registered' = Registered /\ Called' = Called
  BY <1>1 DEF Registered, Called
<1>3. Called \in Nat /\ port_base \in Nat /\ FirstPort \in Nat
  BY CalledType, BinderAssumption DEF TypeInv, TypeOK, BinderTypeOK
<1>4. port_base' = port_base + 3 /\ port_base' = FirstPort + 3 * Called
  BY <1>1, <1>3 DEF SerialInv, CounterOK
<1>5. CounterOK'
  BY <1>1, <1>2, <1>4 DEF CounterOK
<1>6. \A s \in Registered : s.port \in Nat
  <2>1. \A k \in DOMAIN service_table : service_table[k] \in ServiceInfo
    BY DEF TypeInv, TypeOK, BinderTypeOK
  <2> QED BY <2>1 DEF Registered, ServiceInfo
<1>7. \A s \in Registered : s.port <= port_base' /\ s.port + 3 <= port_base'
  BY <1>3, <1>4, <1>6 DEF SerialInv, RegisteredOK
<1>8. RegisteredOK'
  BY <1>1, <1>2, <1>7 DEF SerialInv, RegisteredOK, Answering
<1>9. StreamsOK'
  BY <1>1, <1>2 DEF SerialInv, StreamsOK
<1> QED BY <1>5, <1>8, <1>9 DEF SerialInv

(* The steps of the workers: they mark entries and read them.              *)
LEMMA SerialWorker ==
  ASSUME TypeInv, TypeInv', SerialInv, NEW w \in Workers,
         WorkerStep(w) \/ StreamerEnds(w), [Next]_vars
  PROVE  SerialInv' /\ Registered' = Registered /\ bound' = bound
<1>1. UNCHANGED <<port_base, callVars, todo, bound>>
  BY DEF WorkerStep, NextRound, SkipActivated, SpotNonActivated, LockTable, LoseRace,
         WinRace, SetActivated, TakeInfo, CreateStreamer, StreamerEnds,
         binderVars, callVars
<1>2. \A h \in Handlers : ~BindPush(h)
  BY <1>1 DEF BindPush, callVars, TypeInv, TypeOK, BinderTypeOK
<1>3. Registered' = Registered /\ Called' = Called
  BY <1>1, <1>2, TableStep, RegisteredKept DEF Called
<1>4. CounterOK'
  BY <1>1, <1>3 DEF SerialInv, CounterOK, callVars
<1>5. RegisteredOK'
  BY <1>1, <1>3 DEF SerialInv, RegisteredOK, Answering, callVars
<1>6. \A v \in Workers : stream'[v] \in {stream[v], None, Pointee(v)}
  BY DEF WorkerStep, NextRound, SkipActivated, SpotNonActivated, LockTable, LoseRace,
         WinRace, SetActivated, TakeInfo, CreateStreamer, StreamerEnds, TypeInv, TypeOK
<1>7. \A v \in Workers : Pointee(v) \in Registered \cup {Stray}
  BY DEF Pointee, Registered
<1>8. StreamsOK'
  BY <1>3, <1>6, <1>7 DEF SerialInv, StreamsOK
<1> QED BY <1>1, <1>3, <1>4, <1>5, <1>8 DEF SerialInv

LEMMA SerialStep ==
  ASSUME IsFiniteSet(Clients), NEW h, Handlers = {h},
         TypeInv, TypeInv', CopyInv, OnceInv, SerialInv, [Next]_vars
  PROVE  SerialInv'
<1>1. CASE BinderNext /\ UNCHANGED workerVars
  BY <1>1, SerialReply, SerialProgress, SerialPush, SerialStore DEF BinderNext, BindStep
<1>2. CASE \E w \in Workers : WorkerStep(w) \/ StreamerEnds(w)
  BY <1>2, SerialWorker
<1>3. CASE UNCHANGED vars
  BY <1>3 DEF vars, binderVars, workerVars, SerialInv, CounterOK, RegisteredOK, StreamsOK,
              Registered, Answering, Called
<1> QED BY <1>1, <1>2, <1>3 DEF Next

(* All that is invariant of a server with a single handler.                *)
LEMMA SerialInvariant ==
  ASSUME IsFiniteSet(Clients), NEW CONSTANT h, Handlers = {h}
  PROVE  Spec => [](TypeInv /\ CopyInv /\ PickedInv /\ OnceInv /\ SerialInv)
<1> DEFINE Inv == TypeInv /\ CopyInv /\ PickedInv /\ OnceInv /\ SerialInv
<1>1. Init => Inv
  BY InitType, InitCopy, InitPicked, InitOnce, InitSerial
<1>2. Inv /\ [Next]_vars => Inv'
  <2> SUFFICES ASSUME Inv, [Next]_vars PROVE Inv'
    OBVIOUS
  <2>1. Alone
    BY DEF Alone
  <2>2. TypeInv'
    BY StepType
  <2> QED BY <2>1, <2>2, StepCopy, StepPicked, StepOnce, SerialStep
<1> QED BY <1>1, <1>2, PTL DEF Spec

(* With a single handler every stream goes to the client of the entry its  *)
(* worker picked, at the port that client was told, though streams end and *)
(* free the mutex for others: except for entries a later bind has moved.   *)
THEOREM StreamsAreAddressed ==
  ASSUME IsFiniteSet(Clients), NEW CONSTANT h, Handlers = {h}
  PROVE  Spec => []StreamsReachTheirClient
<1>1. TypeInv /\ PickedInv /\ SerialInv => StreamsReachTheirClient
  <2> SUFFICES ASSUME TypeInv, PickedInv, SerialInv, NEW w \in Workers, wpc[w] = "run"
               PROVE  StreamsFor(w, i[w]) /\ stream[w] \in Replies \cup {Stray}
    BY DEF StreamsReachTheirClient
  <2>1. i[w] \in DOMAIN service_table /\ StreamsFor(w, i[w])
    <3>1. DOMAIN service_table = 1 .. Len(service_table)
      BY DEF TypeInv, TypeOK, BinderTypeOK
    <3> QED BY <3>1 DEF PickedInv, Picked
  <2>2. stream[w] \in Registered \cup {Stray}
    BY <2>1 DEF StreamsFor, Address, Registered
  <2>3. \A g \in Handlers : Answering(g) => bind_info[g] # None
    BY ServerAssumption DEF Answering, TypeInv, CallOK
  <2>4. Registered \subseteq Replies
    BY <2>3 DEF SerialInv, RegisteredOK, Replies
  <2> QED BY <2>1, <2>2, <2>4
<1> QED BY SerialInvariant, <1>1, PTL

-----------------------------------------------------------------------------
(* A push_back registers the service of the call in progress.              *)
LEMMA PushRegisters ==
  ASSUME IsFiniteSet(Clients), NEW h, Handlers = {h},
         TypeInv, TypeInv', CopyInv, OnceInv, SerialInv, BindPush(h)
  PROVE  Registry!Register(bind_info[h]) /\ bind_info[h] \in Registry!Service
<1>1. hpc[h] = "push" /\ bound' = bound /\ bind_info[h] \in BindInfo
  BY DEF BindPush, TypeInv, CallOK
<1>2. Registered' = Registered \cup {bind_info[h]}
  BY RegisteredPushed DEF SerialInv
<1>3. /\ Called \in Nat /\ Called >= 1 /\ Called <= Cardinality(Clients)
      /\ Cardinality(Clients) \in Nat
      /\ bind_info[h].port = FirstPort + 3 * (Called - 1) /\ bind_info[h].port = port_base
  BY <1>1, CalledType DEF SerialInv, CounterOK
<1>4. bind_info[h].port \in PortsOnOffer
  <2>1. Called - 1 \in 0 .. Cardinality(Clients)
    BY <1>3
  <2> QED BY <1>3, <2>1 DEF PortsOnOffer
<1>5. bind_info[h] \in Registry!Service
  BY <1>1, <1>4 DEF BindInfo, Registry!Service
<1>6. ASSUME NEW s \in Registered
      PROVE  /\ s.client # bind_info[h].client
             /\ Registry!Block(s.port) \cap Registry!Block(bind_info[h].port) = {}
  <2>1. PICK k \in DOMAIN service_table :
          s = [client |-> service_table[k].client, port |-> service_table[k].port]
    BY DEF Registered
  <2>2. s.client # bind_info[h].client
    BY <1>1, <2>1 DEF OnceInv, CallsOK, Unregistered, EntriesIn
  <2>3. service_table[k] \in ServiceInfo
    BY DEF TypeInv, TypeOK, BinderTypeOK
  <2>4. s.port \in Nat /\ port_base \in Nat
    BY <2>1, <2>3 DEF ServiceInfo, TypeInv, TypeOK, BinderTypeOK
  <2>5. s.port + 3 <= port_base
    BY <1>1 DEF SerialInv, RegisteredOK, Answering
  <2> QED BY <1>3, <2>2, <2>4, <2>5 DEF Registry!Block
<1> QED BY <1>1, <1>2, <1>5, <1>6 DEF Registry!Register

LEMMA RegistryStep ==
  ASSUME IsFiniteSet(Clients), NEW h, Handlers = {h},
         TypeInv, TypeInv', CopyInv, OnceInv, SerialInv, [Next]_vars
  PROVE  [Registry!Next]_<<Registered, bound>>
<1>1. CASE BindPush(h)
  BY <1>1, PushRegisters DEF Registry!Next
<1>2. CASE BindStore(h)
  <2>1. Registered' = Registered /\ bound' = bound \cup {bind_info[h]}
        /\ bind_info[h] \in Registered
    BY <1>2 DEF BindStore, tableVars, Registered, SerialInv, RegisteredOK, Answering
  <2>2. CASE bind_info[h] \in bound
    BY <2>1, <2>2
  <2>3. CASE bind_info[h] \notin bound
    BY <2>1, <2>3 DEF Registry!Next, Registry!Answer
  <2> QED BY <2>2, <2>3
<1>3. CASE BindFill(h) \/ BindLock(h) \/ BindLoad(h) \/ \E c \in Clients : BindReply(h, c)
  BY <1>3 DEF BindFill, BindLock, BindLoad, BindReply, tableVars, Registered
<1>4. CASE \E w \in Workers : WorkerStep(w) \/ StreamerEnds(w)
  BY <1>4, SerialWorker
<1>5. CASE UNCHANGED vars
  BY <1>5 DEF vars, binderVars, Registered
<1> QED BY <1>1, <1>2, <1>3, <1>4, <1>5 DEF Next, BinderNext, BindStep

(* With a single handler the server implements PortRegistry: every client  *)
(* gets a service of its own, on ports no other service overlaps, and is   *)
(* told of a service that exists.                                          *)
THEOREM ImplementsRegistry ==
  ASSUME IsFiniteSet(Clients), NEW CONSTANT h, Handlers = {h}
  PROVE  Spec => RegistrySpec
<1>1. Init => Registry!Init
  BY DEF Init, BinderInit, Registry!Init, Registered
<1> DEFINE Inv == TypeInv /\ CopyInv /\ OnceInv /\ SerialInv
<1>2. Inv /\ TypeInv' /\ [Next]_vars => [Registry!Next]_<<Registered, bound>>
  BY RegistryStep
<1>3. Spec => []Inv
  BY SerialInvariant
<1>4. Inv => TypeInv
  OBVIOUS
<1> QED BY <1>1, <1>2, <1>3, <1>4, PTL DEF Spec, RegistrySpec, Registry!Spec
=============================================================================

---------------------------- MODULE ServerProofs ----------------------------
(***************************************************************************)
(* What holds of the server for every number of clients, handlers and      *)
(* workers and for every way the vector grows: the types and the ports     *)
(* always, the critical sections while no stream ends.                     *)
(***************************************************************************)
EXTENDS ServerRefinement, TLAPS, FiniteSetTheorems

(* TypeOK is inductive together with what the program counter of a handler *)
(* says about its locals.                                                  *)
CallOK ==
  \A h \in Handlers :
    /\ hpc[h] # "idle" => bind_info[h] \in BindInfo
    /\ hpc[h] \in {"lock", "push"} => new_service[h] \in ServiceInfo

TypeInv == TypeOK /\ CallOK

-----------------------------------------------------------------------------
(* A push_back puts nothing into the table that was not in the table, in   *)
(* the copy it made or in the new entry.                                   *)
LEMMA PushedFrom ==
  ASSUME NEW h \in Handlers, NEW S,
         moving[h] \in Seq(S), new_service[h] \in S, service_table \in Seq(S)
  PROVE  Pushed(h) \in Seq(S)
<1> DEFINE n == Len(moving[h])
<1>1. CASE n \in ReallocAt \/ Len(service_table) < n
  BY <1>1 DEF Pushed
<1>2. CASE ~(n \in ReallocAt \/ Len(service_table) < n)
  <2> DEFINE m == IF n = Len(service_table) THEN n + 1 ELSE Len(service_table)
  <2>1. n \in Nat /\ Len(service_table) \in Nat /\ n <= Len(service_table)
    BY <1>2
  <2>2. 1 .. Len(service_table) \cup {n + 1} = 1 .. m
    BY <2>1
  <2>3. \A k \in (1 .. m) \ {n + 1} : service_table[k] \in S
    BY <2>1
  <2>4. Pushed(h) = [k \in 1 .. m |-> IF k = n + 1 THEN new_service[h] ELSE service_table[k]]
    BY <1>2, <2>2 DEF Pushed
  <2> QED BY <2>1, <2>3, <2>4
<1> QED BY <1>1, <1>2

(* The workers' writes leave a table of services.                          *)
LEMMA MarkedType ==
  ASSUME NEW t \in Seq(ServiceInfo), NEW j
  PROVE  [k \in DOMAIN t |-> IF k = j THEN WithStatus(t[k], ACTIVATED) ELSE t[k]]
           \in Seq(ServiceInfo)
<1>1. \A e \in ServiceInfo : WithStatus(e, ACTIVATED) \in ServiceInfo
  BY DEF WithStatus, ServiceInfo, Status, ACTIVATED
<1>2. DOMAIN t = 1 .. Len(t) /\ Len(t) \in Nat /\ \A k \in 1 .. Len(t) : t[k] \in ServiceInfo
  OBVIOUS
<1> QED BY <1>1, <1>2

LEMMA InitType == Init => TypeInv
<1> SUFFICES ASSUME Init PROVE TypeInv OBVIOUS
<1> USE BinderAssumption, ServerAssumption DEF Init, BinderInit
<1>1. BinderTypeOK
  BY DEF BinderTypeOK, HandlerPC
<1>2. TypeOK
  BY <1>1 DEF TypeOK, WorkerPC
<1>3. CallOK
  BY DEF CallOK
<1> QED BY <1>2, <1>3 DEF TypeInv

(* One step per action of a handler.                                       *)
LEMMA BinderStepType ==
  ASSUME TypeInv, BinderNext, UNCHANGED workerVars
  PROVE  TypeInv'
<1> USE BinderAssumption, ServerAssumption
        DEF TypeInv, TypeOK, BinderTypeOK, CallOK, tableVars, workerVars, HandlerPC
<1>1. ASSUME NEW h \in Handlers, NEW c \in Clients, BindReply(h, c)
      PROVE  TypeInv'
  BY <1>1 DEF BindReply, BindInfo
<1>2. ASSUME NEW h \in Handlers, BindFill(h)
      PROVE  TypeInv'
  <2>1. NewService(h) \in ServiceInfo
    BY <1>2 DEF BindFill, NewService, BindInfo, ServiceInfo, Status
  <2> QED BY <1>2, <2>1 DEF BindFill
<1>3. ASSUME NEW h \in Handlers, BindLock(h)
      PROVE  TypeInv'
  BY <1>3 DEF BindLock
<1>4. ASSUME NEW h \in Handlers, BindPush(h)
      PROVE  TypeInv'
  <2>1. Pushed(h) \in Seq(ServiceInfo)
    BY <1>4, PushedFrom DEF BindPush
  <2> QED BY <1>4, <2>1 DEF BindPush
<1>5. ASSUME NEW h \in Handlers, BindLoad(h)
      PROVE  TypeInv'
  BY <1>5 DEF BindLoad
<1>6. ASSUME NEW h \in Handlers, BindStore(h)
      PROVE  TypeInv'
  BY <1>6 DEF BindStore, PortStep
<1> QED BY <1>1, <1>2, <1>3, <1>4, <1>5, <1>6 DEF BinderNext, BindStep

(* One step per action of a worker.                                        *)
LEMMA WorkerStepType ==
  ASSUME TypeInv, NEW w \in Workers, WorkerStep(w) \/ StreamerEnds(w)
  PROVE  TypeInv'
<1> USE BinderAssumption, ServerAssumption
        DEF TypeInv, TypeOK, BinderTypeOK, CallOK, tableVars, callVars, binderVars, WorkerPC,
            Goto, NextEntry
<1>1. CASE NextRound(w)
  BY <1>1 DEF NextRound
<1>2. CASE SkipActivated(w)
  BY <1>2 DEF SkipActivated
<1>3. CASE SpotNonActivated(w)
  BY <1>3 DEF SpotNonActivated
<1>4. CASE LockTable(w)
  BY <1>4 DEF LockTable
<1>5. CASE LoseRace(w)
  BY <1>5 DEF LoseRace
<1>6. CASE WinRace(w)
  BY <1>6 DEF WinRace
<1>7. CASE SetActivated(w)
  BY <1>7, MarkedType DEF SetActivated
<1>8. CASE TakeInfo(w)
  BY <1>8 DEF TakeInfo
<1>9. CASE CreateStreamer(w)
  <2>1. ASSUME NEW k \in DOMAIN service_table
        PROVE  service_table[k].client \in Clients /\ service_table[k].port \in Nat
    <3>1. service_table[k] \in ServiceInfo
      BY <2>1
    <3> QED BY <3>1 DEF ServiceInfo
  <2>2. Pointee(w) \in BindInfo \cup {Stray}
    BY <2>1 DEF Pointee, BindInfo
  <2> QED BY <1>9, <2>2 DEF CreateStreamer
<1>10. CASE StreamerEnds(w)
  BY <1>10 DEF StreamerEnds
<1> QED BY <1>1, <1>2, <1>3, <1>4, <1>5, <1>6, <1>7, <1>8, <1>9, <1>10 DEF WorkerStep

LEMMA StepType == TypeInv /\ [Next]_vars => TypeInv'
<1> SUFFICES ASSUME TypeInv, [Next]_vars PROVE TypeInv'
  OBVIOUS
<1>1. CASE BinderNext /\ UNCHANGED workerVars
  BY <1>1, BinderStepType
<1>2. CASE \E w \in Workers : WorkerStep(w) \/ StreamerEnds(w)
  BY <1>2, WorkerStepType
<1>3. CASE UNCHANGED vars
  BY <1>3 DEF vars, binderVars, workerVars, TypeInv, TypeOK, BinderTypeOK, CallOK
<1> QED BY <1>1, <1>2, <1>3 DEF Next

(* Every variable keeps its type, also when a foreign unlock lets two      *)
(* push_backs overlap.                                                     *)
THEOREM TypeCorrect == Spec => []TypeOK
<1>1. TypeInv => TypeOK
  BY DEF TypeInv
<1> QED BY InitType, StepType, <1>1, PTL DEF Spec

-----------------------------------------------------------------------------
(* Ports lie on the lattice FirstPort, FirstPort + 3, FirstPort + 6, ...:  *)
(* whatever is lost between the load and the store of "port_base += 3",    *)
(* nothing off the lattice is ever stored.                                 *)
Lattice == {FirstPort + 3 * k : k \in Nat}
OnLattice(S) == {s \in S : s.port \in Lattice}

PortInv ==
  /\ port_base \in Lattice
  /\ port_reg \in [Handlers -> Lattice]
  /\ service_table \in Seq(OnLattice(ServiceInfo))
  /\ moving \in [Handlers -> Seq(OnLattice(ServiceInfo))]
  /\ bound \subseteq OnLattice(BindInfo)
  /\ \A h \in Handlers :
       /\ hpc[h] # "idle" => bind_info[h] \in OnLattice(BindInfo)
       /\ hpc[h] \in {"lock", "push"} => new_service[h] \in OnLattice(ServiceInfo)

LEMMA LatticeStep ==
  /\ FirstPort \in Lattice
  /\ \A p \in Lattice : p + PortStep \in Lattice /\ p \in Nat
<1>1. FirstPort \in Lattice
  <2>1. FirstPort = FirstPort + 3 * 0
    BY BinderAssumption
  <2> QED BY <2>1 DEF Lattice
<1>2. ASSUME NEW p \in Lattice
      PROVE  p + PortStep \in Lattice /\ p \in Nat
  <2>1. PICK k \in Nat : p = FirstPort + 3 * k
    BY DEF Lattice
  <2>2. p \in Nat /\ p + 3 = FirstPort + 3 * (k + 1) /\ k + 1 \in Nat
    BY <2>1, BinderAssumption
  <2> QED BY <2>2 DEF Lattice, PortStep
<1> QED BY <1>1, <1>2

LEMMA InitPorts == Init => PortInv
BY LatticeStep DEF Init, BinderInit, PortInv

LEMMA StepPorts == TypeInv /\ PortInv /\ [Next]_vars => PortInv'
<1> SUFFICES ASSUME TypeInv, PortInv, [Next]_vars PROVE PortInv'
  OBVIOUS
<1> USE LatticeStep DEF PortInv, TypeInv, TypeOK, BinderTypeOK, tableVars
<1>1. ASSUME NEW h \in Handlers, NEW c \in Clients, BindReply(h, c)
      PROVE  PortInv'
  BY <1>1 DEF BindReply, BindInfo, OnLattice
<1>2. ASSUME NEW h \in Handlers, BindFill(h)
      PROVE  PortInv'
  <2>1. NewService(h) \in OnLattice(ServiceInfo)
    BY <1>2 DEF BindFill, NewService, BindInfo, ServiceInfo, Status, OnLattice
  <2> QED BY <1>2, <2>1 DEF BindFill
<1>3. ASSUME NEW h \in Handlers, BindLock(h)
      PROVE  PortInv'
  BY <1>3 DEF BindLock
<1>4. ASSUME NEW h \in Handlers, BindPush(h)
      PROVE  PortInv'
  <2>1. Pushed(h) \in Seq(OnLattice(ServiceInfo))
    BY <1>4, PushedFrom DEF BindPush
  <2> QED BY <1>4, <2>1 DEF BindPush
<1>5. ASSUME NEW h \in Handlers, BindLoad(h)
      PROVE  PortInv'
  BY <1>5 DEF BindLoad
<1>6. ASSUME NEW h \in Handlers, BindStore(h)
      PROVE  PortInv'
  BY <1>6 DEF BindStore
<1>7. ASSUME NEW w \in Workers, SetActivated(w)
      PROVE  PortInv'
  <2>1. \A e \in OnLattice(ServiceInfo) :
          WithStatus(e, ACTIVATED) \in OnLattice(ServiceInfo)
    BY DEF OnLattice, WithStatus, ServiceInfo, Status, ACTIVATED
  <2>2. service_table' \in Seq(OnLattice(ServiceInfo))
    <3>1. DOMAIN service_table = 1 .. Len(service_table) /\ Len(service_table) \in Nat
      OBVIOUS
    <3> QED BY <1>7, <2>1, <3>1 DEF SetActivated
  <2> QED BY <1>7, <2>2 DEF SetActivated, callVars
<1>8. CASE UNCHANGED <<service_table, port_base, callVars, bound>>
  BY <1>8 DEF callVars
<1>9. ASSUME NEW w \in Workers, WorkerStep(w) \/ StreamerEnds(w), ~SetActivated(w)
      PROVE  UNCHANGED <<service_table, port_base, callVars, bound>>
  BY <1>9 DEF WorkerStep, NextRound, SkipActivated, SpotNonActivated, LockTable, LoseRace,
              WinRace, TakeInfo, CreateStreamer, StreamerEnds, binderVars, callVars
<1> QED
  BY <1>1, <1>2, <1>3, <1>4, <1>5, <1>6, <1>7, <1>8, <1>9
     DEF Next, BinderNext, BindStep, vars, binderVars, callVars

(* Three-port blocks on the lattice are equal or disjoint.                 *)
LEMMA LatticeBlocks ==
  ASSUME NEW p \in Lattice, NEW q \in Lattice, p # q
  PROVE  Block(p) \cap Block(q) = {}
<1>1. PICK j \in Nat, k \in Nat : p = FirstPort + 3 * j /\ q = FirstPort + 3 * k
  BY DEF Lattice
<1>2. j < k \/ k < j
  BY <1>1
<1>3. p + 3 <= q \/ q + 3 <= p
  BY <1>1, <1>2, BinderAssumption
<1> QED BY <1>1, <1>3, BinderAssumption DEF Block

(* However many bind calls race on port_base and whoever steals the mutex, *)
(* the ports of two services never overlap in part.                        *)
THEOREM PortBlocksNeverOverlap == Spec => []PortBlocksDisjoint
<1>1. TypeInv /\ PortInv => PortBlocksDisjoint
  <2> SUFFICES ASSUME TypeInv, PortInv PROVE PortsInUse \subseteq Lattice
    BY LatticeBlocks DEF PortBlocksDisjoint
  <2>1. \A k \in DOMAIN service_table : service_table[k].port \in Lattice
    BY DEF PortInv, OnLattice
  <2> QED BY <2>1 DEF PortsInUse, PortInv, OnLattice
<1> QED BY InitType, StepType, InitPorts, StepPorts, <1>1, PTL DEF Spec

-----------------------------------------------------------------------------
(* Safety behind BindReturns, whatever streams do.                         *)

(* Who holds the mutex is about to release it.                             *)
HolderReleases ==
  /\ \A h \in Handlers : service_table_mutex = h => hpc[h] = "push"
  /\ \A w \in Workers : service_table_mutex = w => wpc[w] = "locked"

LEMMA StepHolder ==
  ASSUME TypeInv, HolderReleases, [Next]_vars
  PROVE  HolderReleases'
<1> USE BinderAssumption, ServerAssumption
        DEF TypeInv, TypeOK, BinderTypeOK, HolderReleases, workerVars, Goto
<1>1. ASSUME NEW h \in Handlers, UNCHANGED workerVars, BindLock(h)
      PROVE  HolderReleases'
  BY <1>1 DEF BindLock
<1>2. ASSUME NEW h \in Handlers, UNCHANGED workerVars, BindPush(h)
      PROVE  HolderReleases'
  BY <1>2 DEF BindPush
<1>3. ASSUME NEW h \in Handlers, UNCHANGED workerVars,
             \/ \E c \in Clients : BindReply(h, c)
             \/ BindFill(h) \/ BindLoad(h) \/ BindStore(h)
      PROVE  HolderReleases'
  BY <1>3 DEF BindReply, BindFill, BindLoad, BindStore
<1>4. ASSUME NEW w \in Workers, LockTable(w)
      PROVE  HolderReleases'
  BY <1>4 DEF LockTable, callVars
<1>5. ASSUME NEW w \in Workers, LoseRace(w) \/ WinRace(w) \/ StreamerEnds(w)
      PROVE  HolderReleases'
  BY <1>5 DEF LoseRace, WinRace, StreamerEnds
<1>6. ASSUME NEW w \in Workers,
             \/ NextRound(w) \/ SkipActivated(w) \/ SpotNonActivated(w)
             \/ SetActivated(w) \/ TakeInfo(w) \/ CreateStreamer(w)
      PROVE  HolderReleases'
  BY <1>6 DEF NextRound, SkipActivated, SpotNonActivated, SetActivated, TakeInfo,
              CreateStreamer, binderVars, callVars
<1>7. CASE UNCHANGED vars
  BY <1>7 DEF vars, binderVars
<1> QED BY <1>1, <1>2, <1>3, <1>4, <1>5, <1>6, <1>7
           DEF Next, BinderNext, BindStep, WorkerStep

(* The second unlock of run_streamer may free the mutex in the middle of   *)
(* another thread's section, but no thread ever keeps it: at all times it  *)
(* is free or held by one whose next step releases it, so that whoever     *)
(* waits for it waits for that step and not for a thread that has left.    *)
THEOREM MutexNeverOrphaned == Spec => []HolderReleases
<1>1. Init => HolderReleases
  BY BinderAssumption, ServerAssumption DEF Init, BinderInit, HolderReleases
<1>2. TypeInv /\ HolderReleases /\ [Next]_vars => HolderReleases'
  BY StepHolder
<1> QED BY InitType, StepType, <1>1, <1>2, PTL DEF Spec

-----------------------------------------------------------------------------
(* What the mutex gives as long as nobody frees it for somebody else: with *)
(* streams that do not end (~StreamsFail) critical sections exclude each   *)
(* other and no registration is lost.  Without that assumption TLC finds   *)
(* both violated in a few steps.                                           *)

(* The mutex names the thread in the critical section.                     *)
MutexInv ==
  /\ \A h \in Handlers : hpc[h] = "push" <=> service_table_mutex = h
  /\ \A w \in Workers : wpc[w] = "locked" <=> service_table_mutex = w

LEMMA InitMutex == Init => MutexInv
BY BinderAssumption, ServerAssumption DEF Init, BinderInit, MutexInv

LEMMA StepMutex ==
  ASSUME ~StreamsFail, TypeInv, MutexInv, [Next]_vars
  PROVE  MutexInv'
<1> USE BinderAssumption, ServerAssumption
        DEF TypeInv, TypeOK, BinderTypeOK, MutexInv, workerVars, Goto
<1>1. ASSUME NEW h \in Handlers, UNCHANGED workerVars, BindLock(h)
      PROVE  MutexInv'
  BY <1>1 DEF BindLock
<1>2. ASSUME NEW h \in Handlers, UNCHANGED workerVars, BindPush(h)
      PROVE  MutexInv'
  BY <1>2 DEF BindPush
<1>3. ASSUME NEW h \in Handlers, UNCHANGED workerVars,
             \/ \E c \in Clients : BindReply(h, c)
             \/ BindFill(h) \/ BindLoad(h) \/ BindStore(h)
      PROVE  MutexInv'
  BY <1>3 DEF BindReply, BindFill, BindLoad, BindStore
<1>4. ASSUME NEW w \in Workers, LockTable(w)
      PROVE  MutexInv'
  BY <1>4 DEF LockTable, callVars
<1>5. ASSUME NEW w \in Workers, LoseRace(w) \/ WinRace(w)
      PROVE  MutexInv'
  <2>1. service_table_mutex = w /\ wpc[w] = "locked"
    BY <1>5 DEF LoseRace, WinRace
  <2>2. service_table_mutex' = Unlocked /\ hpc' = hpc
    BY <1>5 DEF LoseRace, WinRace, callVars
  <2>3. \A v \in Workers : wpc'[v] # "locked"
    <3>1. \A v \in Workers \ {w} : wpc[v] # "locked"
      BY <2>1
    <3>2. wpc'[w] # "locked" /\ \A v \in Workers \ {w} : wpc'[v] = wpc[v]
      BY <1>5 DEF LoseRace, WinRace
    <3> QED BY <3>1, <3>2
  <2>4. \A h \in Handlers : hpc[h] # "push"
    BY <2>1
  <2> QED BY <2>2, <2>3, <2>4
<1>6. ASSUME NEW w \in Workers,
             \/ NextRound(w) \/ SkipActivated(w) \/ SpotNonActivated(w)
             \/ SetActivated(w) \/ TakeInfo(w) \/ CreateStreamer(w)
      PROVE  MutexInv'
  BY <1>6 DEF NextRound, SkipActivated, SpotNonActivated, SetActivated, TakeInfo,
              CreateStreamer, binderVars, callVars
<1>7. ASSUME NEW w \in Workers, StreamerEnds(w)
      PROVE  FALSE
  BY <1>7 DEF StreamerEnds
<1>8. CASE UNCHANGED vars
  BY <1>8 DEF vars, binderVars
<1> QED BY <1>1, <1>2, <1>3, <1>4, <1>5, <1>6, <1>7, <1>8
           DEF Next, BinderNext, BindStep, WorkerStep

(* No two threads are between lock and unlock.                             *)
THEOREM MutualExclusion == ASSUME ~StreamsFail PROVE Spec => []CriticalSections
<1>1. TypeInv /\ MutexInv => CriticalSections
  <2> SUFFICES ASSUME TypeInv, MutexInv PROVE Cardinality(Holders) <= 1
    BY DEF CriticalSections
  <2>1. Holders \subseteq {service_table_mutex}
    BY DEF Holders, MutexInv
  <2>2. IsFiniteSet({service_table_mutex}) /\ Cardinality({service_table_mutex}) = 1
    BY FS_Singleton
  <2>3. Cardinality(Holders) \in Nat /\ Cardinality(Holders) <= Cardinality({service_table_mutex})
    BY <2>1, <2>2, FS_Subset, FS_CardinalityType
  <2> QED BY <2>2, <2>3
<1>2. TypeInv /\ MutexInv /\ [Next]_vars => MutexInv'
  BY StepMutex
<1> QED BY InitType, StepType, InitMutex, <1>1, <1>2, PTL DEF Spec

-----------------------------------------------------------------------------
(* A mark ACTIVATED, in the table or in a copy being installed, was made   *)
(* by a worker that is still there (the part of ActivatedIsServed, in      *)
(* RegistryProofs, that holds whatever push_back does to the vector).      *)
Backed(t) ==
  \A k \in DOMAIN t : t[k].status = ACTIVATED =>
    \E w \in Workers : wpc[w] \in Committed /\ i[w] = k

BackedInv ==
  /\ Backed(service_table)
  /\ \A h \in Handlers : Backed(moving[h])
  /\ \A h \in Handlers : hpc[h] \in {"lock", "push"} => new_service[h].status = NON_ACTIVATED

LEMMA InitBacked == Init => BackedInv
BY DEF Init, BinderInit, BackedInv, Backed

(* A worker that is committed to an entry stays so.                        *)
LEMMA CommittedStays ==
  ASSUME ~StreamsFail, TypeInv, [Next]_vars, NEW w \in Workers, wpc[w] \in Committed
  PROVE  wpc'[w] \in Committed /\ i'[w] = i[w]
<1> USE DEF TypeInv, TypeOK, Committed, Goto, NextEntry
<1>1. CASE UNCHANGED workerVars
  BY <1>1 DEF workerVars
<1>2. ASSUME NEW v \in Workers, WorkerStep(v)
      PROVE  wpc'[w] \in Committed /\ i'[w] = i[w]
  BY <1>2 DEF WorkerStep, NextRound, SkipActivated, SpotNonActivated, LockTable, LoseRace,
              WinRace, SetActivated, TakeInfo, CreateStreamer
<1>3. ASSUME NEW v \in Workers, StreamerEnds(v)
      PROVE  FALSE
  BY <1>3 DEF StreamerEnds
<1> QED BY <1>1, <1>2, <1>3 DEF Next, vars

LEMMA StepBacked ==
  ASSUME ~StreamsFail, TypeInv, BackedInv, [Next]_vars
  PROVE  BackedInv'
<1> USE DEF TypeInv, TypeOK, BinderTypeOK, BackedInv
<1>1. \A k : (\E w \in Workers : wpc[w] \in Committed /\ i[w] = k) =>
             (\E w \in Workers : wpc'[w] \in Committed /\ i'[w] = k)
  BY CommittedStays
<1>2. CASE UNCHANGED <<service_table, callVars>>
  BY <1>1, <1>2 DEF Backed, callVars
<1>3. ASSUME NEW h \in Handlers,
             (\E c \in Clients : BindReply(h, c)) \/ BindLoad(h) \/ BindStore(h)
      PROVE  BackedInv'
  BY <1>1, <1>3 DEF Backed, BindReply, BindLoad, BindStore, tableVars
<1>4. ASSUME NEW h \in Handlers, BindFill(h)
      PROVE  BackedInv'
  BY <1>1, <1>4 DEF Backed, BindFill, NewService, tableVars
<1>5. ASSUME NEW h \in Handlers, BindLock(h)
      PROVE  BackedInv'
  BY <1>1, <1>5 DEF Backed, BindLock, tableVars
<1>6. ASSUME NEW h \in Handlers, BindPush(h)
      PROVE  BackedInv'
  <2>1. \A k \in DOMAIN Pushed(h) :
          \/ k \in DOMAIN service_table /\ Pushed(h)[k] = service_table[k]
          \/ k \in DOMAIN moving[h] /\ Pushed(h)[k] = moving[h][k]
          \/ Pushed(h)[k] = new_service[h]
    BY <1>6 DEF BindPush, Pushed
  <2>2. new_service[h].status # ACTIVATED
    BY <1>6 DEF BindPush, ACTIVATED, NON_ACTIVATED
  <2>3. Backed(Pushed(h))
    BY <2>1, <2>2 DEF Backed
  <2>4. \A t : Backed(t) => \A k \in DOMAIN t : t[k].status = ACTIVATED =>
                  \E w \in Workers : wpc'[w] \in Committed /\ i'[w] = k
    BY <1>1 DEF Backed
  <2>5. Backed(service_table)'
    BY <1>6, <2>3, <2>4 DEF Backed, BindPush
  <2>6. ASSUME NEW g \in Handlers
        PROVE  Backed(moving[g])'
    <3>1. CASE g = h
      <4>1. moving'[g] = << >>
        BY <1>6, <3>1 DEF BindPush
      <4> QED BY <4>1 DEF Backed
    <3>2. CASE g # h
      <4>1. moving'[g] = moving[g]
        BY <1>6, <3>2 DEF BindPush
      <4>2. \A k \in DOMAIN moving[g] : moving[g][k].status = ACTIVATED =>
              \E w \in Workers : wpc'[w] \in Committed /\ i'[w] = k
        BY <2>4
      <4> QED BY <4>1, <4>2 DEF Backed
    <3> QED BY <3>1, <3>2
  <2> QED BY <1>6, <2>5, <2>6 DEF BindPush
<1>7. ASSUME NEW w \in Workers, SetActivated(w)
      PROVE  BackedInv'
  <2>1. wpc'[w] \in Committed /\ i'[w] = i[w]
    BY <1>7 DEF SetActivated, Goto, Committed
  <2>2. \A k \in DOMAIN service_table : k # i[w] => service_table'[k] = service_table[k]
    BY <1>7 DEF SetActivated
  <2>3. DOMAIN service_table' = DOMAIN service_table
    BY <1>7 DEF SetActivated
  <2>4. Backed(service_table)'
    BY <1>1, <2>1, <2>2, <2>3 DEF Backed
  <2> QED BY <1>1, <1>7, <2>4 DEF SetActivated, Backed, callVars
<1>8. ASSUME NEW w \in Workers, WorkerStep(w) \/ StreamerEnds(w), ~SetActivated(w)
      PROVE  UNCHANGED <<service_table, callVars>>
  BY <1>8 DEF WorkerStep, NextRound, SkipActivated, SpotNonActivated, LockTable, LoseRace,
              WinRace, TakeInfo, CreateStreamer, StreamerEnds, binderVars, tableVars, callVars
<1> QED
  BY <1>2, <1>3, <1>4, <1>5, <1>6, <1>7, <1>8
     DEF Next, BinderNext, BindStep, vars, binderVars, callVars
=============================================================================

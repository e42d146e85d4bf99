---------------------------- MODULE ServerBinder ----------------------------
(***************************************************************************)
(* The gRPC service ServerBinder (clang/source/grpc_server.cpp): the bind  *)
(* handler, the table of services it fills and the port counter it hands   *)
(* ports out from.  gRPC runs handlers on threads of its own, so several   *)
(* bind calls may be in progress at once.  service_table_mutex protects    *)
(* only the push_back; port_base is read and bumped with no lock at all.   *)
(*                                                                         *)
(* A handler h is followed by its program counter hpc[h] through the steps *)
(*    idle -> fill -> lock -> push -> load -> store -> idle                *)
(* one step for each access to shared state.  The calls of send_heartbeat, *)
(* which change only last_seen, are in module NodeFailure.                 *)
(***************************************************************************)
EXTENDS Naturals, Sequences, FiniteSets

CONSTANTS Clients,    \* the bind calls that will be made, one per client
          Handlers,   \* gRPC server threads running bind
          FirstPort,  \* port given to the ServerBinder constructor (3000)
          ReallocAt,  \* lengths at which push_back moves to a new buffer
          Unlocked,   \* value of the mutex that no thread holds
          None        \* "no value" of a handler's or a thread's local

ASSUME BinderAssumption ==
  /\ FirstPort \in Nat
  /\ ReallocAt \subseteq Nat
  /\ Unlocked \notin Handlers

VARIABLES
  service_table,        \* vector<ServiceInfo>
  buffer,               \* which allocation holds the vector's elements
  service_table_mutex,  \* the thread holding it, or Unlocked
  port_base,            \* next port, plain int shared by all handlers
  hpc,                  \* program counter of each handler
  bind_info,            \* the reply a handler is filling
  new_service,          \* the entry a handler is about to push
  moving,               \* the vector as push_back found it
  port_reg,             \* port_base as loaded by "port_base += 3"
  todo,                 \* clients that have not called bind yet
  bound                 \* replies delivered to clients

tableVars  == <<service_table, buffer>>
callVars   == <<hpc, bind_info, new_service, moving, port_reg>>
binderVars == <<service_table, buffer, service_table_mutex, port_base,
                hpc, bind_info, new_service, moving, port_reg, todo, bound>>

-----------------------------------------------------------------------------
NON_ACTIVATED == 0
ACTIVATED     == 2
Status        == {NON_ACTIVATED, ACTIVATED}

(* The client's address stands for the client: Clients are bind calls, and *)
(* the code never compares the addresses of two of them in bind.           *)
BindInfo    == [client : Clients, port : Nat]
ServiceInfo == [client : Clients, port : Nat, status : Status]

HandlerPC == {"idle", "fill", "lock", "push", "load", "store"}

(* RTP on the port itself, RTCP on the two next ones. *)
Block(port) == port .. port + 2

(* Mutated form: the counter skips only the RTP and the first RTCP port.   *)
PortStepTwo == 2
(* Mutated form: the counter is never bumped.                              *)
PortStepNone == 0
PortStep == 3

(* A push_back is copying the elements into a new buffer.                  *)
Relocating == \E h \in Handlers : hpc[h] = "push" /\ Len(moving[h]) \in ReallocAt

BinderInit ==
  /\ service_table = << >>
  /\ buffer = 0
  /\ service_table_mutex = Unlocked
  /\ port_base = FirstPort
  /\ hpc = [h \in Handlers |-> "idle"]
  /\ bind_info = [h \in Handlers |-> None]
  /\ new_service = [h \in Handlers |-> None]
  /\ moving = [h \in Handlers |-> << >>]
  /\ port_reg = [h \in Handlers |-> FirstPort]
  /\ todo = Clients
  /\ bound = {}

-----------------------------------------------------------------------------
(* A call arrives; the port for the reply is read from port_base.          *)
BindReply(h, c) ==
  /\ hpc[h] = "idle"
  /\ c \in todo
  /\ todo' = todo \ {c}
  /\ bind_info' = [bind_info EXCEPT ![h] = [client |-> c, port |-> port_base]]
  /\ hpc' = [hpc EXCEPT ![h] = "fill"]
  /\ UNCHANGED <<tableVars, service_table_mutex, port_base,
                 new_service, moving, port_reg, bound>>

(* Mutated form: port_base is bumped between the reply and the entry.      *)
NewServiceNextPort(h) ==
  [client |-> bind_info[h].client, port |-> port_base + PortStep, status |-> NON_ACTIVATED]
NewService(h) ==
  [client |-> bind_info[h].client, port |-> port_base, status |-> NON_ACTIVATED]

(* The port of the table entry is a second, separate read of port_base.    *)
BindFill(h) ==
  /\ hpc[h] = "fill"
  /\ new_service' = [new_service EXCEPT ![h] = NewService(h)]
  /\ hpc' = [hpc EXCEPT ![h] = "lock"]
  /\ UNCHANGED <<tableVars, service_table_mutex, port_base,
                 bind_info, moving, port_reg, todo, bound>>

(* Mutated form: push_back without taking the mutex.                       *)
BindLockNoWait(h) ==
  /\ hpc[h] = "lock"
  /\ service_table_mutex' = h
  /\ moving' = [moving EXCEPT ![h] = service_table]
  /\ hpc' = [hpc EXCEPT ![h] = "push"]
  /\ UNCHANGED <<tableVars, port_base, bind_info, new_service, port_reg, todo, bound>>
(* Mutated form: the mutex is released before push_back is done.           *)
BindLockEarlyRelease(h) ==
  /\ hpc[h] = "lock"
  /\ service_table_mutex = Unlocked
  /\ UNCHANGED service_table_mutex
  /\ moving' = [moving EXCEPT ![h] = service_table]
  /\ hpc' = [hpc EXCEPT ![h] = "push"]
  /\ UNCHANGED <<tableVars, port_base, bind_info, new_service, port_reg, todo, bound>>
(* The mutex is taken and push_back starts from the vector as it is now.   *)
BindLock(h) ==
  /\ hpc[h] = "lock"
  /\ service_table_mutex = Unlocked
  /\ service_table_mutex' = h
  /\ moving' = [moving EXCEPT ![h] = service_table]
  /\ hpc' = [hpc EXCEPT ![h] = "push"]
  /\ UNCHANGED <<tableVars, port_base, bind_info, new_service, port_reg, todo, bound>>

(* Storing one element past the end of the current buffer leaves the rest  *)
(* alone.  When the buffer is full the elements copied at the start are    *)
(* installed with the new one, and what was written to the old buffer in   *)
(* the meantime is gone.                                                   *)
Pushed(h) ==
  LET n == Len(moving[h]) IN
  IF n \in ReallocAt \/ Len(service_table) < n
  THEN Append(moving[h], new_service[h])
  ELSE [k \in 1 .. Len(service_table) \cup {n + 1} |->
          IF k = n + 1 THEN new_service[h] ELSE service_table[k]]

(* Mutated form: an early return leaves the mutex locked.                  *)
BindPushKeepsLock(h) ==
  /\ hpc[h] = "push"
  /\ service_table' = Pushed(h)
  /\ buffer' = IF Len(moving[h]) \in ReallocAt THEN buffer + 1 ELSE buffer
  /\ moving' = [moving EXCEPT ![h] = << >>]
  /\ new_service' = [new_service EXCEPT ![h] = None]
  /\ hpc' = [hpc EXCEPT ![h] = "load"]
  /\ UNCHANGED <<service_table_mutex, port_base, bind_info, port_reg, todo, bound>>
(* push_back takes effect and the mutex is released.                       *)
BindPush(h) ==
  /\ hpc[h] = "push"
  /\ service_table' = Pushed(h)
  /\ buffer' = IF Len(moving[h]) \in ReallocAt THEN buffer + 1 ELSE buffer
  /\ service_table_mutex' = Unlocked
  /\ moving' = [moving EXCEPT ![h] = << >>]
  /\ new_service' = [new_service EXCEPT ![h] = None]
  /\ hpc' = [hpc EXCEPT ![h] = "load"]
  /\ UNCHANGED <<port_base, bind_info, port_reg, todo, bound>>

(* "port_base += 3" is a load and a store, with no lock around them.       *)
BindLoad(h) ==
  /\ hpc[h] = "load"
  /\ port_reg' = [port_reg EXCEPT ![h] = port_base]
  /\ hpc' = [hpc EXCEPT ![h] = "store"]
  /\ UNCHANGED <<tableVars, service_table_mutex, port_base,
                 bind_info, new_service, moving, todo, bound>>

(* The store, and the return that sends the reply to the client.           *)
BindStore(h) ==
  /\ hpc[h] = "store"
  /\ port_base' = port_reg[h] + PortStep
  /\ bound' = bound \cup {bind_info[h]}
  /\ bind_info' = [bind_info EXCEPT ![h] = None]
  /\ port_reg' = [port_reg EXCEPT ![h] = FirstPort]
  /\ hpc' = [hpc EXCEPT ![h] = "idle"]
  /\ UNCHANGED <<tableVars, service_table_mutex, new_service, moving, todo>>

(* What a call in progress does next.                                      *)
BindStep(h) ==
  \/ BindFill(h)
  \/ BindLock(h)
  \/ BindPush(h)
  \/ BindLoad(h)
  \/ BindStore(h)

BinderNext == \E h \in Handlers : BindStep(h) \/ \E c \in Clients : BindReply(h, c)

-----------------------------------------------------------------------------
BinderTypeOK ==
  /\ service_table \in Seq(ServiceInfo)
  /\ buffer \in Nat
  /\ port_base \in Nat
  /\ hpc \in [Handlers -> HandlerPC]
  /\ bind_info \in [Handlers -> BindInfo \cup {None}]
  /\ new_service \in [Handlers -> ServiceInfo \cup {None}]
  /\ moving \in [Handlers -> Seq(ServiceInfo)]
  /\ port_reg \in [Handlers -> Nat]
  /\ todo \subseteq Clients
  /\ bound \subseteq BindInfo
=============================================================================

---------------------------- MODULE NodeFailure ----------------------------
(***************************************************************************)
(* Failure detection by heartbeats in ServerBinder: the clock thread of    *)
(* ex_server.cpp copies the wall clock into timestamp once a second, bind  *)
(* and send_heartbeat store timestamp as an entry's last_seen, and         *)
(* check_node_failure reports a failure when some entry has not been       *)
(* refreshed for more than FAILURE_TIMELIMIT seconds.                      *)
(*                                                                         *)
(* Entries are told apart by the client that was bound (in the code: by    *)
(* their port); send_heartbeat finds an entry by the client's IP.  When    *)
(* clients call is up to them: the environment is a client that heartbeats *)
(* at least once in Period seconds until it dies, and a clock thread that  *)
(* is never more than Lag seconds late.                                    *)
(***************************************************************************)
EXTENDS Naturals, Sequences

CONSTANTS Clients,
          IpOf,               \* the address a client sends with its calls
          StartTime,          \* wall clock when the server starts
          MaxTime,            \* bound: the wall clock stops here
          Period,             \* a live client is heard this often
          Lag,                \* the clock thread's period and its delay
          FAILURE_TIMELIMIT

ASSUME NodeFailureAssumption ==
  /\ StartTime \in Nat \ {0}
  /\ MaxTime \in Nat
  /\ Period \in Nat
  /\ Lag \in Nat
  /\ FAILURE_TIMELIMIT \in Nat

VARIABLES
  now,            \* the wall clock, time(0)
  timestamp,      \* the server's copy of it
  service_table,  \* client and last_seen of each entry
  phase,          \* how far each client is
  new_last_seen,  \* last_seen of the entry that a bind in progress will push
  contact         \* when each client was last heard, or died

vars == <<now, timestamp, service_table, phase, new_last_seen, contact>>

Phases == {"new", "binding", "bound", "dead"}
Times  == StartTime .. now

TypeOK ==
  /\ now \in Nat /\ now >= StartTime
  /\ timestamp \in Times
  /\ service_table \in Seq([client : Clients, last_seen : Times])
  /\ phase \in [Clients -> Phases]
  /\ new_last_seen \in [Clients -> Times]
  /\ contact \in [Clients -> Times]

Init ==
  /\ now = StartTime
  /\ timestamp = StartTime
  /\ service_table = << >>
  /\ phase = [c \in Clients |-> "new"]
  /\ new_last_seen = [c \in Clients |-> StartTime]
  /\ contact = [c \in Clients |-> StartTime]

-----------------------------------------------------------------------------
(* A second passes, unless a live client or the clock thread would be late.*)
Tick ==
  /\ now < MaxTime
  /\ now + 1 <= timestamp + Lag
  /\ \A c \in Clients : phase[c] \in {"binding", "bound"} => now + 1 <= contact[c] + Period
  /\ now' = now + 1
  /\ UNCHANGED <<timestamp, service_table, phase, new_last_seen, contact>>

update_timestamp ==
  /\ timestamp' = now
  /\ UNCHANGED <<now, service_table, phase, new_last_seen, contact>>

(* bind reads timestamp before it waits for the mutex ...                  *)
BindFill(c) ==
  /\ phase[c] = "new"
  /\ new_last_seen' = [new_last_seen EXCEPT ![c] = timestamp]
  /\ phase' = [phase EXCEPT ![c] = "binding"]
  /\ contact' = [contact EXCEPT ![c] = now]
  /\ UNCHANGED <<now, timestamp, service_table>>

(* ... and pushes what it read.                                            *)
BindPush(c) ==
  /\ phase[c] = "binding"
  /\ service_table' = Append(service_table, [client |-> c, last_seen |-> new_last_seen[c]])
  /\ phase' = [phase EXCEPT ![c] = "bound"]
  /\ UNCHANGED <<now, timestamp, new_last_seen, contact>>

SameIp(c) == {k \in DOMAIN service_table : IpOf[service_table[k].client] = IpOf[c]}

(* Mutated form: the comparison of addresses is lost.                      *)
MatchesAny(c, k) == k = 1
(* Entry k is the first one with the client's address.                     *)
Matches(c, k) == k \in SameIp(c) /\ \A j \in SameIp(c) : k <= j

send_heartbeat(c) ==
  /\ phase[c] = "bound"
  /\ service_table' = [k \in DOMAIN service_table |->
       IF Matches(c, k) THEN [service_table[k] EXCEPT !.last_seen = timestamp]
       ELSE service_table[k]]
  /\ contact' = [contact EXCEPT ![c] = now]
  /\ UNCHANGED <<now, timestamp, phase, new_last_seen>>

(* A client crashes or loses its connection.                               *)
Die(c) ==
  /\ phase[c] = "bound"
  /\ phase' = [phase EXCEPT ![c] = "dead"]
  /\ contact' = [contact EXCEPT ![c] = now]
  /\ UNCHANGED <<now, timestamp, service_table, new_last_seen>>

Next ==
  \/ Tick
  \/ update_timestamp
  \/ \E c \in Clients : BindFill(c) \/ BindPush(c) \/ send_heartbeat(c) \/ Die(c)

Spec == Init /\ [][Next]_vars

-----------------------------------------------------------------------------
(* The entries check_node_failure complains about, and what it returns.    *)
(* timediff is negative when timestamp is behind last_seen: no complaint.  *)
Overdue(k) == timestamp > service_table[k].last_seen + FAILURE_TIMELIMIT

(* Mutated form: "return false" inside the loop, after the first entry.    *)
CheckFirstOnly == 1 \in DOMAIN service_table /\ Overdue(1)
check_node_failure == \E k \in DOMAIN service_table : Overdue(k)

(* check_node_failure never complains about a client that is alive and     *)
(* heartbeats in time.                                                     *)
NoFalseAlarm ==
  \A k \in DOMAIN service_table :
    phase[service_table[k].client] = "bound" => ~Overdue(k)

(* A client that died more than FAILURE_TIMELIMIT seconds ago is noticed,  *)
(* at the latest when the clock thread has caught up.                      *)
DeadDetected ==
  \A c \in Clients :
    phase[c] = "dead" /\ now > contact[c] + FAILURE_TIMELIMIT + Lag => check_node_failure

(* ":was last seen N seconds ago" (grpc_server.cpp:25): N is the time since *)
(* the client of that entry was heard, up to the lag of the clock thread.  *)
LastSeenIsTrue ==
  \A k \in DOMAIN service_table :
    phase[service_table[k].client] = "bound" =>
      timestamp <= service_table[k].last_seen + (now - contact[service_table[k].client]) + Lag
=============================================================================

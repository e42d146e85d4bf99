------------------------- MODULE NodeFailureProofs -------------------------
(***************************************************************************)
(* What failure detection does for every set of clients, every timing and  *)
(* every assignment of addresses: the first entry of an address is kept    *)
(* fresh and a silent address is noticed.  With addresses of their own     *)
(* this is what a client may expect of it.                                 *)
(***************************************************************************)
EXTENDS NodeFailure, TLAPS

OwnAddresses == \A c, d \in Clients : IpOf[c] = IpOf[d] => c = d

(* The clock thread and live clients are never late.                       *)
OnTime ==
  /\ now <= timestamp + Lag
  /\ \A c \in Clients : phase[c] \in {"binding", "bound"} => now <= contact[c] + Period

(* One entry per client that has been bound.                               *)
OneEntry ==
  /\ \A j, k \in DOMAIN service_table : service_table[j].client = service_table[k].client => j = k
  /\ \A c \in Clients :
       phase[c] \in {"bound", "dead"} <=> \E k \in DOMAIN service_table : service_table[k].client = c

(* The entry that heartbeats from its address find.                        *)
FirstOf(k) ==
  \A j \in DOMAIN service_table :
    IpOf[service_table[j].client] = IpOf[service_table[k].client] => k <= j

Heard(d) == phase[d] \in {"bound", "dead"}

(* An entry was last seen when a client of its address was heard, or       *)
(* earlier; if it is the first one of its address then, but for the lag of *)
(* the clock, not before its own client was heard.                         *)
SeenOK ==
  /\ \A c \in Clients : phase[c] = "binding" =>
       new_last_seen[c] <= contact[c] /\ contact[c] <= new_last_seen[c] + Lag
  /\ \A k \in DOMAIN service_table :
       LET c == service_table[k].client IN
       /\ \E d \in Clients : Heard(d) /\ IpOf[d] = IpOf[c] /\ service_table[k].last_seen <= contact[d]
       /\ phase[c] = "bound" /\ FirstOf(k) => contact[c] <= service_table[k].last_seen + Lag

IInv == TypeOK /\ OnTime /\ OneEntry /\ SeenOK

-----------------------------------------------------------------------------
LEMMA Entries ==
  ASSUME TypeOK
  PROVE  /\ Len(service_table) \in Nat /\ DOMAIN service_table = 1 .. Len(service_table)
         /\ \A k \in DOMAIN service_table :
              /\ service_table[k] = [client |-> service_table[k].client,
                                     last_seen |-> service_table[k].last_seen]
              /\ service_table[k].client \in Clients
              /\ service_table[k].last_seen \in Times
              /\ service_table[k].last_seen \in Nat
<1>1. service_table \in Seq([client : Clients, last_seen : Times])
  BY DEF TypeOK
<1>2. Len(service_table) \in Nat /\ DOMAIN service_table = 1 .. Len(service_table)
  BY <1>1
<1>3. \A k \in 1 .. Len(service_table) :
        service_table[k] \in [client : Clients, last_seen : Times]
  <2> DEFINE S == [client : Clients, last_seen : Times]
  <2>1. service_table \in Seq(S)
    BY <1>1
  <2> HIDE DEF S
  <2>2. \A k \in 1 .. Len(service_table) : service_table[k] \in S
    BY <2>1
  <2> QED BY <2>2 DEF S
<1>4. Times \subseteq Nat
  BY NodeFailureAssumption DEF Times, TypeOK
<1> QED BY <1>2, <1>3, <1>4

(* A table is typed by its elements.                                       *)
LEMMA TableOf ==
  ASSUME NEW n \in Nat, NEW t, NEW T, DOMAIN t = 1 .. n, t = [k \in DOMAIN t |-> t[k]],
         \A k \in 1 .. n : t[k] \in T
  PROVE  t \in Seq(T)
OBVIOUS

LEMMA InitIInv == Init => IInv
BY NodeFailureAssumption
   DEF Init, IInv, TypeOK, OnTime, OneEntry, SeenOK, Heard, Phases, Times

(* A heartbeat finds an entry of its address, the first one.               *)
LEMMA FirstMatches ==
  ASSUME IInv, NEW c \in Clients, NEW k \in DOMAIN service_table
  PROVE  Matches(c, k) <=> IpOf[service_table[k].client] = IpOf[c] /\ FirstOf(k)
BY DEF Matches, SameIp, FirstOf

LEMMA StepTick == ASSUME IInv, Tick PROVE IInv'
<1> USE NodeFailureAssumption DEF IInv, Tick
<1>1. TypeOK'
  <2>1. Times \subseteq Times' /\ now' \in Nat /\ now' >= StartTime
    BY DEF TypeOK, Times
  <2>2. service_table' \in Seq([client : Clients, last_seen : Times'])
    <3>1. \A k \in DOMAIN service_table :
            service_table[k] \in [client : Clients, last_seen : Times']
      BY <2>1, Entries
    <3>2. service_table = [k \in DOMAIN service_table |-> service_table[k]]
      BY DEF TypeOK
    <3> QED BY <3>1, <3>2, Entries, TableOf
  <2> QED BY <2>1, <2>2 DEF TypeOK
<1>2. OnTime'
  BY DEF OnTime, TypeOK
<1>3. OneEntry' /\ SeenOK'
  BY DEF OneEntry, SeenOK, Heard, FirstOf
<1> QED BY <1>1, <1>2, <1>3

LEMMA StepUpdate == ASSUME IInv, update_timestamp PROVE IInv'
<1> USE NodeFailureAssumption DEF IInv, update_timestamp
<1>1. TypeOK' /\ OnTime'
  BY DEF TypeOK, Times, OnTime
<1>2. OneEntry' /\ SeenOK'
  BY DEF OneEntry, SeenOK, Heard, FirstOf
<1> QED BY <1>1, <1>2

LEMMA StepFill == ASSUME IInv, NEW c \in Clients, BindFill(c) PROVE IInv'
<1> USE NodeFailureAssumption DEF IInv, BindFill
<1>1. TypeOK'
  BY DEF TypeOK, Times, Phases
<1>2. OnTime'
  BY DEF TypeOK, Times, OnTime
<1>3. \A k \in DOMAIN service_table : service_table[k].client # c
  BY DEF OneEntry, TypeOK, Phases
<1>4. OneEntry'
  BY <1>3 DEF OneEntry, TypeOK
<1>5. SeenOK'
  <2>1. \A k \in DOMAIN service_table : service_table[k].client \in Clients
    BY Entries
  <2>2. contact'[c] = now /\ new_last_seen'[c] = timestamp /\ phase'[c] = "binding"
        /\ timestamp <= now /\ now <= timestamp + Lag
    BY DEF OnTime, TypeOK, Times
  <2>3. \A d \in Clients \ {c} : contact'[d] = contact[d] /\ phase'[d] = phase[d]
                                /\ new_last_seen'[d] = new_last_seen[d]
    BY DEF TypeOK
  <2>4. ~Heard(c)
    BY DEF Heard
  <2> QED BY <1>3, <2>1, <2>2, <2>3, <2>4 DEF SeenOK, Heard, FirstOf
<1> QED BY <1>1, <1>2, <1>4, <1>5

LEMMA StepPush == ASSUME IInv, NEW c \in Clients, BindPush(c) PROVE IInv'
<1> USE NodeFailureAssumption DEF IInv, BindPush
<1> DEFINE n == Len(service_table)
<1>1. TypeOK' /\ OnTime'
  BY DEF TypeOK, Times, Phases, OnTime
<1>2. n \in Nat /\ DOMAIN service_table = 1 .. n /\ DOMAIN service_table' = 1 .. n \cup {n + 1}
      /\ service_table'[n + 1] = [client |-> c, last_seen |-> new_last_seen[c]]
      /\ \A k \in 1 .. n : service_table'[k] = service_table[k]
  BY DEF TypeOK
<1>3. \A k \in 1 .. n : service_table[k].client # c
  BY <1>2 DEF OneEntry
<1>4. phase'[c] = "bound" /\ \A d \in Clients \ {c} : phase'[d] = phase[d]
  BY DEF TypeOK
<1>5. OneEntry'
  BY <1>2, <1>3, <1>4 DEF OneEntry
<1>6. \A k \in 1 .. n : FirstOf(k)' => FirstOf(k)
  BY <1>2 DEF FirstOf
<1>7. \A d \in Clients : Heard(d) => Heard(d)'
  BY <1>4 DEF Heard
<1>8. ASSUME NEW k \in 1 .. n + 1
      PROVE  LET d == service_table'[k].client IN
             /\ \E e \in Clients : /\ Heard(e)' /\ IpOf[e] = IpOf[d]
                                  /\ service_table'[k].last_seen <= contact[e]
             /\ phase'[d] = "bound" /\ FirstOf(k)' => contact[d] <= service_table'[k].last_seen + Lag
  <2>1. CASE k = n + 1
    BY <1>2, <1>4, <2>1 DEF SeenOK, Heard
  <2>2. CASE k \in 1 .. n
    <3>1. service_table[k].client \in Clients \ {c}
      BY <1>2, <1>3, <2>2, Entries
    <3> QED BY <1>2, <1>4, <1>6, <1>7, <2>2, <3>1 DEF SeenOK
  <2> QED BY <1>2, <2>1, <2>2
<1>9. SeenOK'
  <2>1. DOMAIN service_table' = 1 .. n + 1 /\ UNCHANGED <<contact, new_last_seen>>
    BY <1>2
  <2> QED BY <1>4, <1>8, <2>1 DEF SeenOK
<1> QED BY <1>1, <1>5, <1>9

LEMMA StepHeartbeat == ASSUME IInv, NEW c \in Clients, send_heartbeat(c) PROVE IInv'
<1> USE NodeFailureAssumption DEF IInv, send_heartbeat
<1>1. DOMAIN service_table' = DOMAIN service_table
      /\ \A k \in DOMAIN service_table :
           /\ service_table'[k].client = service_table[k].client
           /\ Matches(c, k) => service_table'[k].last_seen = timestamp
           /\ ~Matches(c, k) => service_table'[k].last_seen = service_table[k].last_seen
  BY DEF TypeOK
<1>2. TypeOK'
  <2>1. timestamp \in Times /\ Times' = Times
    BY DEF TypeOK, Times
  <2>2. \A k \in DOMAIN service_table :
          service_table'[k] \in [client : Clients, last_seen : Times]
    BY <2>1, Entries
  <2>3. service_table' \in Seq([client : Clients, last_seen : Times])
    BY <1>1, <2>2, Entries, TableOf
  <2> QED BY <2>1, <2>3 DEF TypeOK, Times
<1>3. OnTime'
  BY DEF OnTime, TypeOK, Times
<1>4. OneEntry'
  BY <1>1 DEF OneEntry
<1>5. SeenOK'
  <2>1. /\ contact'[c] = now /\ \A d \in Clients \ {c} : contact'[d] = contact[d]
        /\ \A d \in Clients : contact[d] \in Nat /\ contact[d] <= now
    BY DEF TypeOK, Times
  <2>2. timestamp \in Nat /\ now \in Nat /\ timestamp <= now /\ now <= timestamp + Lag
    BY DEF OnTime, TypeOK, Times
  <2>3. \A k \in DOMAIN service_table :
          service_table[k].client \in Clients /\ service_table[k].last_seen \in Nat
    BY Entries
  <2>4. phase[c] = "bound" /\ UNCHANGED <<phase, new_last_seen>>
    OBVIOUS
  <2>5. \A d \in Clients : Heard(d)' = Heard(d) /\ contact[d] <= contact'[d]
    BY <2>1, <2>4 DEF Heard
  <2>6. \A k \in DOMAIN service_table : FirstOf(k)' = FirstOf(k)
    BY <1>1 DEF FirstOf
  <2>7. ASSUME NEW k \in DOMAIN service_table, Matches(c, k)
        PROVE  LET d == service_table'[k].client IN
               /\ \E e \in Clients : /\ Heard(e)' /\ IpOf[e] = IpOf[d]
                                    /\ service_table'[k].last_seen <= contact'[e]
               /\ contact'[d] <= service_table'[k].last_seen + Lag
    <3>1. IpOf[c] = IpOf[service_table'[k].client] /\ service_table'[k].last_seen = timestamp
      <4>1. IpOf[c] = IpOf[service_table[k].client]
        BY <2>7, FirstMatches
      <4> QED BY <1>1, <2>7, <4>1
    <3>2. Heard(c)' /\ timestamp <= contact'[c]
      BY <2>1, <2>2, <2>4 DEF Heard
    <3>3. \A d \in Clients : contact'[d] <= timestamp + Lag
      BY <2>1, <2>2
    <3> QED BY <1>1, <2>3, <3>1, <3>2, <3>3
  <2>8. ASSUME NEW k \in DOMAIN service_table, ~Matches(c, k)
        PROVE  LET d == service_table'[k].client IN
               /\ \E e \in Clients : /\ Heard(e)' /\ IpOf[e] = IpOf[d]
                                    /\ service_table'[k].last_seen <= contact'[e]
               /\ phase[d] = "bound" /\ FirstOf(k) => contact'[d] <= service_table'[k].last_seen + Lag
    <3> DEFINE d == service_table[k].client  seen == service_table[k].last_seen
    <3>1. service_table'[k].client = d /\ service_table'[k].last_seen = seen /\ d \in Clients
          /\ seen \in Nat
      BY <1>1, <2>3, <2>8
    <3>2. PICK e \in Clients : Heard(e) /\ IpOf[e] = IpOf[d] /\ seen <= contact[e]
      BY DEF SeenOK
    <3>3. seen <= contact'[e]
      BY <2>1, <2>2, <3>1, <3>2
    <3>4. FirstOf(k) => d # c
      BY <2>8, FirstMatches
    <3>5. phase[d] = "bound" /\ FirstOf(k) => contact[d] <= seen + Lag
      BY DEF SeenOK
    <3> QED BY <2>1, <2>5, <3>1, <3>2, <3>3, <3>4, <3>5
  <2>9. \A d \in Clients : phase'[d] = "binding" =>
          new_last_seen'[d] <= contact'[d] /\ contact'[d] <= new_last_seen'[d] + Lag
    BY <2>1, <2>4 DEF SeenOK
  <2>10. ASSUME NEW k \in DOMAIN service_table'
         PROVE  LET d == service_table'[k].client IN
                /\ \E e \in Clients : /\ Heard(e)' /\ IpOf[e] = IpOf[d]
                                     /\ service_table'[k].last_seen <= contact'[e]
                /\ phase'[d] = "bound" /\ FirstOf(k)' => contact'[d] <= service_table'[k].last_seen + Lag
    BY <1>1, <2>4, <2>6, <2>7, <2>8
  <2> QED BY <2>9, <2>10 DEF SeenOK
<1> QED BY <1>2, <1>3, <1>4, <1>5

LEMMA StepDie == ASSUME IInv, NEW c \in Clients, Die(c) PROVE IInv'
<1> USE NodeFailureAssumption DEF IInv, Die
<1>1. TypeOK' /\ OnTime'
  BY DEF TypeOK, Times, Phases, OnTime
<1>2. OneEntry'
  BY DEF OneEntry, TypeOK
<1>3. SeenOK'
  <2>1. contact[c] <= contact'[c] /\ contact[c] \in Nat /\ contact'[c] \in Nat
        /\ phase[c] = "bound" /\ phase'[c] = "dead"
        /\ \A d \in Clients \ {c} : contact'[d] = contact[d] /\ phase'[d] = phase[d]
    BY DEF TypeOK, Times
  <2>2. UNCHANGED <<service_table, new_last_seen>>
    OBVIOUS
  <2>3. \A d \in Clients : Heard(d)' = Heard(d)
    BY <2>1 DEF Heard
  <2>4. \A k \in DOMAIN service_table :
          /\ service_table[k].client \in Clients /\ service_table[k].last_seen \in Nat
          /\ FirstOf(k)' = FirstOf(k)
    BY <2>2, Entries DEF FirstOf
  <2>5. ASSUME NEW k \in DOMAIN service_table
        PROVE  \E d \in Clients : /\ Heard(d)' /\ IpOf[d] = IpOf[service_table[k].client]
                                 /\ service_table[k].last_seen <= contact'[d]
    <3>1. PICK d \in Clients : /\ Heard(d) /\ IpOf[d] = IpOf[service_table[k].client]
                              /\ service_table[k].last_seen <= contact[d]
      BY DEF SeenOK
    <3>2. service_table[k].last_seen <= contact'[d]
      <4>1. CASE d = c
        BY <2>1, <2>4, <3>1, <4>1
      <4>2. CASE d # c
        BY <2>1, <3>1, <4>2
      <4> QED BY <4>1, <4>2
    <3> QED BY <2>3, <3>1, <3>2
  <2> QED BY <2>1, <2>2, <2>4, <2>5 DEF SeenOK
<1> QED BY <1>1, <1>2, <1>3

LEMMA Invariance == Spec => []IInv
<1>1. IInv /\ [Next]_vars => IInv'
  <2> SUFFICES ASSUME IInv, [Next]_vars PROVE IInv'
    OBVIOUS
  <2>1. CASE UNCHANGED vars
    BY <2>1 DEF vars, IInv, TypeOK, OnTime, OneEntry, SeenOK, Heard, FirstOf, Times
  <2> QED BY <2>1, StepTick, StepUpdate, StepFill, StepPush, StepHeartbeat, StepDie DEF Next
<1> QED BY InitIInv, <1>1, PTL DEF Spec

(* Every variable of failure detection keeps its type.                     *)
THEOREM FailureTypes == Spec => []TypeOK
<1>1. IInv => TypeOK
  BY DEF IInv
<1> QED BY Invariance, <1>1, PTL

-----------------------------------------------------------------------------
(* For any addresses, those that all clients bind with the same one        *)
(* (ex_client.cpp:17) included.                                            *)

FirstNotReported ==
  \A k \in DOMAIN service_table :
    phase[service_table[k].client] = "bound" /\ FirstOf(k) => ~Overdue(k)

(* Whoever shares the address of the client that bound first with it, that *)
(* client is never reported as long as it is heard in time: the heartbeats *)
(* of the others refresh its entry and take nothing away from it.          *)
THEOREM FirstNeverReported ==
  ASSUME Period + Lag <= FAILURE_TIMELIMIT
  PROVE  Spec => []FirstNotReported
<1>1. IInv => FirstNotReported
  <2> SUFFICES ASSUME IInv, NEW k \in DOMAIN service_table,
                      phase[service_table[k].client] = "bound", FirstOf(k)
               PROVE  ~Overdue(k)
    BY DEF FirstNotReported
  <2>1. service_table[k].client \in Clients /\ service_table[k].last_seen \in Nat
    BY Entries DEF IInv
  <2>2. contact[service_table[k].client] <= service_table[k].last_seen + Lag
        /\ now <= contact[service_table[k].client] + Period
    BY <2>1 DEF IInv, SeenOK, OnTime
  <2>3. contact[service_table[k].client] \in Nat /\ timestamp \in Nat /\ now \in Nat
        /\ timestamp <= now
    BY <2>1, NodeFailureAssumption DEF IInv, TypeOK, Times
  <2> QED BY <2>1, <2>2, <2>3, NodeFailureAssumption DEF Overdue
<1> QED BY Invariance, <1>1, PTL

SilentDetected ==
  \A c \in Clients :
    /\ Heard(c)
    /\ \A d \in Clients : Heard(d) /\ IpOf[d] = IpOf[c] =>
         now > contact[d] + FAILURE_TIMELIMIT + Lag
    => check_node_failure

(* An address from which no bound client has been heard for longer than    *)
(* FAILURE_TIMELIMIT seconds and the lag of the clock is reported: entries *)
(* are only refreshed from their own address.                              *)
THEOREM SilentAddressDetected == Spec => []SilentDetected
<1>1. IInv => SilentDetected
  <2> SUFFICES ASSUME IInv, NEW c \in Clients, Heard(c),
                      \A d \in Clients : Heard(d) /\ IpOf[d] = IpOf[c] =>
                        now > contact[d] + FAILURE_TIMELIMIT + Lag
               PROVE  check_node_failure
    BY DEF SilentDetected
  <2>1. PICK k \in DOMAIN service_table : service_table[k].client = c
    BY DEF IInv, OneEntry, Heard
  <2>2. PICK d \in Clients :
          Heard(d) /\ IpOf[d] = IpOf[c] /\ service_table[k].last_seen <= contact[d]
    BY <2>1 DEF IInv, SeenOK
  <2>3. now > contact[d] + FAILURE_TIMELIMIT + Lag
    BY <2>2
  <2>4. Overdue(k)
    <3>1. service_table[k].last_seen \in Nat
      BY Entries DEF IInv
    <3>2. contact[d] \in Nat /\ timestamp \in Nat /\ now \in Nat /\ now <= timestamp + Lag
      BY NodeFailureAssumption DEF IInv, TypeOK, Times, OnTime
    <3> QED BY <2>2, <2>3, <3>1, <3>2, NodeFailureAssumption DEF Overdue
  <2> QED BY <2>4 DEF check_node_failure
<1> QED BY Invariance, <1>1, PTL

-----------------------------------------------------------------------------
(* For clients with addresses of their own.                                *)

(* A client with an address of its own that is heard in time is never      *)
(* reported as failed.                                                     *)
THEOREM NoFalseAlarmEver ==
  ASSUME OwnAddresses, Period + Lag <= FAILURE_TIMELIMIT
  PROVE  Spec => []NoFalseAlarm
<1>1. IInv /\ FirstNotReported => NoFalseAlarm
  <2> SUFFICES ASSUME IInv, FirstNotReported, NEW k \in DOMAIN service_table,
                      phase[service_table[k].client] = "bound"
               PROVE  ~Overdue(k)
    BY DEF NoFalseAlarm
  <2>1. \A j \in DOMAIN service_table : service_table[j].client \in Clients
    BY Entries DEF IInv
  <2>2. DOMAIN service_table \subseteq Nat
    BY Entries DEF IInv
  <2>3. FirstOf(k)
    BY <2>1, <2>2 DEF FirstOf, OwnAddresses, IInv, OneEntry
  <2> QED BY <2>3 DEF FirstNotReported
<1> QED BY Invariance, FirstNeverReported, <1>1, PTL

(* A client with an address of its own that died is reported once          *)
(* FAILURE_TIMELIMIT seconds and the lag of the clock have passed.         *)
THEOREM DeadAlwaysDetected == ASSUME OwnAddresses PROVE Spec => []DeadDetected
<1>1. SilentDetected => DeadDetected
  BY DEF SilentDetected, DeadDetected, Heard, OwnAddresses
<1> QED BY SilentAddressDetected, <1>1, PTL
=============================================================================

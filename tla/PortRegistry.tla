---------------------------- MODULE PortRegistry ----------------------------
(***************************************************************************)
(* What the binder promises: a client that calls bind gets a service of    *)
(* its own, on three ports that no other service uses, and is told of it   *)
(* after the service has been registered.  Who streams it, the locks and   *)
(* the port counter are not its concern.                                   *)
(***************************************************************************)
EXTENDS Naturals

CONSTANTS Clients, Ports

VARIABLES registered,  \* the services: pairs of a client and its first port
          answered     \* those whose client has been told

Block(port) == port .. port + 2

Service == [client : Clients, port : Ports]

Init == registered = {} /\ answered = {}

Register(s) ==
  /\ \A t \in registered : t.client # s.client /\ Block(t.port) \cap Block(s.port) = {}
  /\ registered' = registered \cup {s}
  /\ UNCHANGED answered

Answer(s) ==
  /\ answered' = answered \cup {s}
  /\ UNCHANGED registered

Next == (\E s \in Service : Register(s)) \/ (\E s \in registered \ answered : Answer(s))

Spec == Init /\ [][Next]_<<registered, answered>>
=============================================================================

-------------------------- MODULE ServerRefinement --------------------------
(***************************************************************************)
(* The server as an implementation of PortRegistry.  It is one only while  *)
(* bind calls do not overlap, that is, with a single handler thread:       *)
(* port_base is read twice and bumped without a lock.                      *)
(***************************************************************************)
EXTENDS Server

Registered == {[client |-> service_table[k].client, port |-> service_table[k].port] :
                 k \in DOMAIN service_table}

PortsOnOffer == {FirstPort + 3 * k : k \in 0 .. Cardinality(Clients)}

Registry == INSTANCE PortRegistry
              WITH Ports <- PortsOnOffer, registered <- Registered, answered <- bound

(* Every step of the server registers one service on ports of its own,     *)
(* answers one client with what was registered for it, or does neither,    *)
(* whatever the workers do to the table meanwhile.                         *)
RegistrySpec == Registry!Spec
=============================================================================

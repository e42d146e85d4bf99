----------------------------- MODULE Discoverer -----------------------------
(***************************************************************************)
(* discoverer.c: one URI is discovered in the background; on_discovered_cb *)
(* prints what was found as an indented topology, on_finished_cb quits the *)
(* loop.  GstDiscoverer is external: it reports a result and then that it  *)
(* has finished, from the main loop.  A topology is a tree whose infos may *)
(* have a next one and, being containers, a list of streams; here they are *)
(* numbered, each after the one above it.  The recursion of print_topology *)
(* is a step for every info, with the calls that it and its callers have   *)
(* still to make.                                                          *)
(***************************************************************************)
EXTENDS Naturals, Sequences, FiniteSets, Functions

CONSTANT MaxInfos   \* bound: GstDiscovererStreamInfos in a topology

DiscovererAssumption == MaxInfos \in Nat \ {0}

root == 1
NULL == 0

VARIABLES
  loop,      \* where the main thread is
  topology,  \* what was found
  calls,     \* calls of print_topology still to be made, in their order
  printed    \* lines of the topology

vars == <<loop, topology, calls, printed>>

-----------------------------------------------------------------------------
(* above: what an info hangs from; next: which of those that hang from it  *)
(* is the next one, if any, the others being in its list.                  *)
Infos(t) == 1 .. t.size
Below(t, i) == {j \in 2 .. t.size : t.above[j] = i}

Hangings(n) == {a \in [2 .. n -> 1 .. n] : \A j \in 2 .. n : a[j] < j}
Nexts(n, a) == {x \in [1 .. n -> 0 .. n] :
                  \A i \in 1 .. n : x[i] # NULL => x[i] \in 2 .. n /\ a[x[i]] = i}

Topologies ==
  UNION {UNION {{[size |-> n, above |-> a, next |-> x] : x \in Nexts(n, a)} :
                  a \in Hangings(n)} : n \in 1 .. MaxInfos}

(* The list of a container without a next one, in an order of its own.     *)
Lists(t, i) == Bijection(1 .. Cardinality(Below(t, i)), Below(t, i))

Call(info, depth) == [info |-> info, depth |-> depth]

Init ==
  /\ loop = "start"
  /\ topology = [size |-> 0, above |-> <<>>, next |-> <<>>]
  /\ calls = <<>>
  /\ printed = <<>>

(* The URI is given to the discoverer, which may refuse it.                *)
Start ==
  /\ loop = "start"
  /\ loop' \in {"run", "exit"}
  /\ UNCHANGED <<topology, calls, printed>>

(* The result, and what was found if it is OK.                             *)
on_discovered_cb ==
  /\ loop = "run"
  /\ loop' = "discovered"
  /\ \/ topology' \in Topologies /\ calls' = <<Call(root, 1)>>
     \/ UNCHANGED <<topology, calls>>
  /\ UNCHANGED printed

(* Mutated form: the streams of a container are not indented.              *)
print_topologyFlat ==
  /\ calls # <<>>
  /\ LET info  == Head(calls).info
         depth == Head(calls).depth
     IN IF topology.next[info] # NULL
        THEN calls' = <<Call(topology.next[info], depth + 1)>> \o Tail(calls)
        ELSE \E streams \in Lists(topology, info) :
               calls' = [k \in DOMAIN streams |-> Call(streams[k], depth)] \o Tail(calls)
  /\ printed' = Append(printed, Head(calls))
  /\ UNCHANGED <<loop, topology>>

(* One call of the recursion: an info is printed, and then the next one    *)
(* or, if it has none, the streams it contains, before what the callers    *)
(* have still to print.                                                    *)
print_topology ==
  /\ calls # <<>>
  /\ LET info  == Head(calls).info
         depth == Head(calls).depth
     IN IF topology.next[info] # NULL
        THEN calls' = <<Call(topology.next[info], depth + 1)>> \o Tail(calls)
        ELSE \E streams \in Lists(topology, info) :
               calls' = [k \in DOMAIN streams |-> Call(streams[k], depth + 1)] \o Tail(calls)
  /\ printed' = Append(printed, Head(calls))
  /\ UNCHANGED <<loop, topology>>

(* Dispatched when on_discovered_cb has returned.                          *)
on_finished_cb ==
  /\ loop = "discovered" /\ calls = <<>>
  /\ loop' = "quit"
  /\ UNCHANGED <<topology, calls, printed>>

Stop ==
  /\ loop = "quit"
  /\ loop' = "exit"
  /\ UNCHANGED <<topology, calls, printed>>

MainStep == Start \/ on_discovered_cb \/ print_topology \/ on_finished_cb \/ Stop
Next == MainStep
Spec == Init /\ [][Next]_vars

-----------------------------------------------------------------------------
(* What is shown below an info: the next one hides the list.               *)
Shown(t, i) == IF t.next[i] # NULL THEN {t.next[i]} ELSE Below(t, i)

(* The topology can be read off the indentation: the root comes first, no  *)
(* info comes twice, the element above any other is the last line before   *)
(* it that is indented less, by one, and in the end exactly the shown ones *)
(* of those that hang from a printed info are printed.                     *)
TopologyPrinted ==
  LET Less(k) == {j \in 1 .. k - 1 : printed[j].depth < printed[k].depth}
  IN /\ printed # <<>> => printed[1] = Call(root, 1)
     /\ \A k, l \in DOMAIN printed : printed[k].info = printed[l].info => k = l
     /\ \A k \in DOMAIN printed \ {1} :
          \E j \in Less(k) :
            /\ \A l \in Less(k) : l <= j
            /\ printed[j].depth + 1 = printed[k].depth
            /\ printed[j].info = topology.above[printed[k].info]
     /\ calls = <<>> =>
          \A l \in DOMAIN printed : \A j \in Below(topology, printed[l].info) :
            (\E k \in DOMAIN printed : printed[k].info = j) <=> j \in Shown(topology, printed[l].info)
=============================================================================

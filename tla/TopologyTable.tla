--------------------------- MODULE TopologyTable ---------------------------
(***************************************************************************)
(* The topology table of the collective engine                             *)
(* (rtl/collectives/rcif_topology_table.sv), and what a table means: when  *)
(* a ring, a tree or a set of routes connects a group of nodes.            *)
(*                                                                         *)
(* The engine reads every entry at once, so the table's query port, which  *)
(* it ties to zero, is left out.                                           *)
(***************************************************************************)
EXTENDS Naturals

CONSTANTS
  NUM_NODES,
  Partitions      \* partition ids; zero is the reset value

ASSUME TopologyAssumption ==
  /\ NUM_NODES \in Nat /\ NUM_NODES >= 2
  /\ Partitions \subseteq Nat /\ 0 \in Partitions

Node == 0 .. NUM_NODES - 1

Topology ==
  [active : SUBSET Node, partition : [Node -> Partitions],
   ring_next : [Node -> Node], tree_parent : [Node -> Node],
   next_hop : [Node -> [Node -> Node]], links : SUBSET (Node \X Node)]

ResetTopology ==
  [active |-> {}, partition |-> [n \in Node |-> 0],
   ring_next |-> [n \in Node |-> n], tree_parent |-> [n \in Node |-> n],
   next_hop |-> [n \in Node |-> [d \in Node |-> d]], links |-> {}]

\* What the two configuration ports write.
NodeEntry ==
  [node : Node, active : BOOLEAN, partition : Partitions,
   ring_next : Node, tree_parent : Node]
RouteEntry ==
  [node : Node, destination : Node, next_hop : Node, link_enable : BOOLEAN]

With(set, x, present) == IF present THEN set \cup {x} ELSE set \ {x}

WriteNode(t, e) ==
  [t EXCEPT !.active = With(@, e.node, e.active),
            !.partition[e.node] = e.partition,
            !.ring_next[e.node] = e.ring_next,
            !.tree_parent[e.node] = e.tree_parent]

WriteRoute(t, e) ==
  [t EXCEPT !.next_hop[e.node][e.destination] = e.next_hop,
            !.links = With(@, <<e.node, e.next_hop>>, e.link_enable)]

Write(t, e) == IF e \in NodeEntry THEN WriteNode(t, e) ELSE WriteRoute(t, e)

-----------------------------------------------------------------------------
(* What the entries mean *)

\* From every node of P, following next stays in P and ends in d: no set of
\* nodes without d is closed under next.
LeadsInto(P, next, d) ==
  /\ \A n \in P \ {d} : next[n] \in P
  /\ \A S \in SUBSET (P \ {d}) : S # {} => \E n \in S : next[n] \notin S

\* The ring of P is one cycle of open links.
RingConnects(t, P, root) ==
  /\ LeadsInto(P, t.ring_next, root) /\ t.ring_next[root] \in P
  /\ \A m, n \in P : t.ring_next[m] = t.ring_next[n] => m = n
  /\ \A n \in P : <<n, t.ring_next[n]>> \in t.links

\* Every parent chain ends in the root, over links open both ways; the root is
\* not below another node of P.
TreeConnects(t, P, root) ==
  /\ LeadsInto(P, t.tree_parent, root)
  /\ t.tree_parent[root] \notin P \ {root}
  /\ \A n \in P \ {root} : /\ <<n, t.tree_parent[n]>> \in t.links
                           /\ <<t.tree_parent[n], n>> \in t.links

\* Every node of P has a route of open links to every other.
RoutesConnect(t, P) ==
  \A d \in P :
    /\ LeadsInto(P, [n \in Node |-> t.next_hop[n][d]], d)
    /\ \A n \in P \ {d} : <<n, t.next_hop[n][d]>> \in t.links

=============================================================================

------------------------ MODULE MCCollectiveEngine -------------------------
(***************************************************************************)
(* Tables, commands and faults of the collective engine for TLC.           *)
(***************************************************************************)
EXTENDS CollectiveEngine, SequencesExt

\* Software writes a table entry by entry: the nodes with the function f as ring
\* and as tree, then routes.
Nodes(f, active, partition) ==
  [i \in 1 .. NUM_NODES |->
     [node |-> i - 1, active |-> i - 1 \in active, partition |-> partition[i - 1],
      ring_next |-> f[i - 1], tree_parent |-> f[i - 1]]]

Routes(next_hop, links) ==
  [i \in 1 .. NUM_NODES * NUM_NODES |->
     LET node == (i - 1) \div NUM_NODES
         destination == (i - 1) % NUM_NODES
         hop == next_hop[node][destination]
     IN  [node |-> node, destination |-> destination, next_hop |-> hop,
          link_enable |-> <<node, hop>> \in links]]

Direct == [n \in Node |-> [d \in Node |-> d]]
Along(f) == [n \in Node |-> [d \in Node |-> f[n]]]

AllOne == [n \in Node |-> 1]
Cycle == [n \in Node |-> (n + 1) % NUM_NODES]
Star == [n \in Node |-> 0]

\* Functions on the nodes as ring and tree (nodes 1 and 2 may change
\* names, so node 0 leads to itself or to 1), with direct routes or with routes along them.
Functions0 == {f \in [Node -> Node] : f[0] \in {0, 1}}

Functional ==
  { Nodes(f, Node, AllOne) \o Routes(Direct, Edge) : f \in Functions0 }
  \cup { Nodes(f, Node, AllOne) \o Routes(Direct, Edge) \o Routes(Along(f), Edge) :
           f \in {g \in Functions0 : g[0] = 1} }

\* A link cut, a node inactive, a node in another partition, or no routes yet.
Defective ==
  { Nodes(f, Node, AllOne) \o Routes(Direct, Edge \ {cut}) :
      f \in {Cycle, Star}, cut \in {<<0, 1>>, <<1, 0>>, <<2, 0>>} }
  \cup { Nodes(Cycle, Node, AllOne), Nodes(Cycle, Node \ {2}, AllOne) \o Routes(Direct, Edge),
         Nodes(Star, Node, [AllOne EXCEPT ![2] = 0]) \o Routes(Direct, Edge) }

Tables == Functional \cup Defective

\* Software opens one link.
LinkRepairs ==
  { <<[node |-> 0, destination |-> 1, next_hop |-> 1, link_enable |-> TRUE]>> }

Give(opcode, participants, root, limit) ==
  [opcode |-> opcode, collective_id |-> 7, partition |-> 1,
   participants |-> participants, root |-> root, retry_limit |-> limit]

SomeCommands ==
  { Give(opcode, Node, 0, 1) : opcode \in {"RING_ALLREDUCE", "TREE_ALLREDUCE", "ALLTOALL"} }
  \cup { Give(opcode, {0, 1}, 0, 0) : opcode \in Opcode }
  \cup { Give("RING_ALLREDUCE", {0, 1}, 2, 1), Give("TREE_ALLREDUCE", Node, 1, 0),
         Give("RING_ALLREDUCE", {1}, 1, 1) }

SomeEdges == {<<0, 1>>, <<2, 0>>}

=============================================================================

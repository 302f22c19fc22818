-------------------------- MODULE CollectiveEngine --------------------------
(***************************************************************************)
(* The collective engine, rtl/collectives/rcif_collective_engine.sv: ring  *)
(* and tree all-reduce and all-to-all over the topology table, with one    *)
(* injected fault, retries, and a response that commits all or nothing.    *)
(*                                                                         *)
(* One step is one rising clock edge or an assertion of rst_ni.  Software  *)
(* programs the table only while no collective is under way                *)
(* (docs/specs/collective_protocol.md, Topology Table) and gives commands  *)
(* when it has finished a program.                                         *)
(*                                                                         *)
(* Registers no one can read before they are written again are left out:   *)
(* those of the engine while it is IDLE, the edge of a fault that is not   *)
(* armed, and all of a response that was taken but the edge it named.      *)
(***************************************************************************)
EXTENDS TopologyTable, Sequences

CONSTANTS
  Commands,       \* commands software may give
  NoCommand,      \* no command since reset
  Programs,       \* sequences of entries written to a table that was reset
  Repairs,        \* sequences of entries written later
  FaultEdges,     \* edges on which software injects faults
  NoFault,        \* no fault is armed
  MaxArms         \* bound: faults software arms during one operation

Edge == Node \X Node
NumPairs == NUM_NODES * NUM_NODES
Opcode == {"RING_ALLREDUCE", "TREE_ALLREDUCE", "ALLTOALL", "UNKNOWN"}

Command ==
  [opcode : Opcode, collective_id : 0 .. 255, partition : Partitions,
   participants : SUBSET Node, root : Node, retry_limit : 0 .. 255]

Fault == [edge : Edge, persistent : BOOLEAN]

ASSUME EngineAssumption ==
  /\ Commands \subseteq Command /\ NoCommand \notin Commands
  /\ Programs \cup Repairs \subseteq Seq(NodeEntry \cup RouteEntry)
  /\ FaultEdges \subseteq Edge /\ NoFault \notin Fault
  /\ MaxArms \in Nat

VARIABLES
  topology,   \* the table
  program,    \* the entries software has still to write
  engine,     \* the operation under way
  fault,      \* the injected fault
  response,   \* the response registers, filled while the operation runs
  issued      \* history: the command given last, and what software did since

vars == <<topology, program, engine, fault, response, issued>>

-----------------------------------------------------------------------------
(* Words and payloads *)

\* A word is the bag of the nodes whose local values were added into it.
Word == [Node -> Nat]
Zero == [n \in Node |-> 0]
LocalValue(n) == [m \in Node |-> IF m = n THEN 1 ELSE 0]
Plus(v, w) == [n \in Node |-> v[n] + w[n]]

\* The all-to-all payload from s to d is the pair of them.
NoPayload == <<>>
Payload == Edge \cup {NoPayload}

NoLocals == [n \in Node |-> Zero]
NoPayloads == [d \in Node |-> [s \in Node |-> NoPayload]]

-----------------------------------------------------------------------------
(* Registers *)

State == {"IDLE", "RING_REDUCE", "RING_BROADCAST", "TREE_REDUCE", "TREE_BROADCAST",
          "A2A_SELECT", "A2A_ROUTE"}

Byte == 0 .. 255
RetryModulus == 65536
RetryCount == 0 .. RetryModulus - 1
HopCount == 0 .. NUM_NODES
PairIndex == 0 .. NumPairs
Group == SUBSET Node
Locals == [Node -> Word]
Payloads == [Node -> [Node -> Payload]]

Engine ==
  [state : State, command : Command, current : Node,
   edge_retry : Byte, retry_count : RetryCount, hop_count : HopCount,
   reduction : Word, visited : Group, processed : Group, broadcast : Group,
   tree_accum : Locals, pair_index : PairIndex, pair : Edge]

NullCommand ==
  [opcode |-> "UNKNOWN", collective_id |-> 0, partition |-> 0,
   participants |-> {}, root |-> 0, retry_limit |-> 0]

NoOperation ==
  [state |-> "IDLE", command |-> NullCommand,
   current |-> 0, edge_retry |-> 0, retry_count |-> 0, hop_count |-> 0,
   reduction |-> Zero, visited |-> {}, processed |-> {},
   broadcast |-> {}, tree_accum |-> NoLocals,
   pair_index |-> 0, pair |-> <<0, 0>>]

Status == {"OK", "BAD_COMMAND", "TOPOLOGY", "PARTITION", "RETRY_EXHAUSTED", "HOP_LIMIT"}

Response ==
  [valid : BOOLEAN, collective_id : Byte, status : Status, retry_count : RetryCount,
   edge : Edge, committed : BOOLEAN, local : Locals, alltoall : Payloads]

NoResponse ==
  [valid |-> FALSE, collective_id |-> 0, status |-> "OK", retry_count |-> 0,
   edge |-> <<0, 0>>, committed |-> FALSE, local |-> NoLocals, alltoall |-> NoPayloads]

Idle == engine.state = "IDLE"
Members == engine.command.participants
Root == engine.command.root

-----------------------------------------------------------------------------
(* How an operation ends *)

FailKeepsResults(status, from, to) ==
  /\ engine' = NoOperation
  /\ response' = [valid |-> TRUE, collective_id |-> engine.command.collective_id,
                  status |-> status, retry_count |-> engine.retry_count,
                  edge |-> <<from, to>>, committed |-> FALSE,
                  local |-> response.local, alltoall |-> response.alltoall]

Fail(status, from, to) ==
  /\ engine' = NoOperation
  /\ response' = [valid |-> TRUE, collective_id |-> engine.command.collective_id,
                  status |-> status, retry_count |-> engine.retry_count,
                  edge |-> <<from, to>>, committed |-> FALSE,
                  local |-> NoLocals, alltoall |-> NoPayloads]

Complete ==
  /\ engine' = NoOperation
  /\ response' = [valid |-> TRUE, collective_id |-> engine.command.collective_id,
                  status |-> "OK", retry_count |-> engine.retry_count,
                  edge |-> <<0, 0>>, committed |-> TRUE,
                  local |-> response.local, alltoall |-> response.alltoall]

\* A participant's result, held in the response until it commits.
Store(n, result) == response' = [response EXCEPT !.local[n] = result]

Advance(next) == engine' = next /\ UNCHANGED response

-----------------------------------------------------------------------------
(* Crossing an edge *)

LinkedBackwards(from, to) == <<to, from>> \in topology.links

Linked(from, to) == <<from, to>> \in topology.links
Faulted(from, to) == fault # NoFault /\ fault.edge = <<from, to>>
InPartition(n) == topology.partition[n] = engine.command.partition

HopValid(from, to) ==
  \A n \in {from, to} : n \in topology.active /\ InPartition(n) /\ n \in Members

RetryOrFail(from, to) ==
  IF engine.edge_retry < engine.command.retry_limit
  THEN Advance([engine EXCEPT !.edge_retry = @ + 1,
                              !.retry_count = (@ + 1) % RetryModulus])
  ELSE Fail("RETRY_EXHAUSTED", from, to)

HopOpen(from, to) == HopValid(from, to) /\ Linked(from, to) /\ ~ Faulted(from, to)

HopRefused(from, to) ==
  \/ ~ HopValid(from, to) /\ Fail("PARTITION", from, to)
  \/ HopValid(from, to) /\ ~ Linked(from, to) /\ Fail("TOPOLOGY", from, to)
  \/ /\ HopValid(from, to) /\ Linked(from, to) /\ Faulted(from, to)
     /\ RetryOrFail(from, to)

Crossed == [engine EXCEPT !.edge_retry = 0]

-----------------------------------------------------------------------------
(* Ring all-reduce *)

RingReduce ==
  LET from == engine.current
      to == topology.ring_next[from]
      moved == [Crossed EXCEPT !.current = to]
  IN  /\ engine.state = "RING_REDUCE"
      /\ \/ HopRefused(from, to)
         \/ /\ HopOpen(from, to) /\ to = Root /\ engine.visited = Members
            /\ engine' = [moved EXCEPT !.broadcast = {to}, !.state = "RING_BROADCAST"]
            /\ Store(to, engine.reduction)
         \/ /\ HopOpen(from, to) /\ to \notin engine.visited
            /\ Advance([moved EXCEPT
                          !.reduction = Plus(@, engine.tree_accum[to]),
                          !.visited = @ \cup {to}])
         \/ /\ HopOpen(from, to) /\ to \in engine.visited
            /\ ~ (to = Root /\ engine.visited = Members)
            /\ Fail("TOPOLOGY", from, to)

RingBroadcast ==
  LET from == engine.current
      to == topology.ring_next[from]
  IN  /\ engine.state = "RING_BROADCAST"
      /\ \/ HopRefused(from, to)
         \/ HopOpen(from, to) /\ to = Root /\ engine.broadcast = Members /\ Complete
         \/ /\ HopOpen(from, to) /\ to \notin engine.broadcast
            /\ engine' = [Crossed EXCEPT !.current = to, !.broadcast = @ \cup {to}]
            /\ Store(to, engine.reduction)
         \/ /\ HopOpen(from, to) /\ to \in engine.broadcast
            /\ ~ (to = Root /\ engine.broadcast = Members)
            /\ Fail("TOPOLOGY", from, to)

-----------------------------------------------------------------------------
(* Tree all-reduce *)

\* Participants whose children have all been added in, themselves not yet.
TreeReady ==
  {n \in Members \ engine.processed :
     \A child \in Members \ engine.processed :
       topology.tree_parent[child] = n => child = n}

\* Participants to be told, whose parent knows the sum.
BroadcastReady ==
  {n \in Members \ engine.broadcast : topology.tree_parent[n] \in engine.broadcast}

\* The lowest of them, as a set.
Lowest(S) == {n \in S : \A m \in S : n <= m}

TreeReduceNode(node) ==
  LET parent == topology.tree_parent[node]
      valid == InPartition(node) /\ InPartition(parent) /\ parent \in Members
      open == Linked(node, parent) /\ valid
  IN  \/ ~ Linked(node, parent) /\ Fail("TOPOLOGY", node, parent)
      \/ Linked(node, parent) /\ ~ valid /\ Fail("PARTITION", node, parent)
      \/ open /\ Faulted(node, parent) /\ RetryOrFail(node, parent)
      \/ /\ open /\ ~ Faulted(node, parent)
         /\ Advance([Crossed EXCEPT
                       !.tree_accum[parent] = Plus(@, engine.tree_accum[node]),
                       !.processed = @ \cup {node}])

TreeReduceRoot ==
  IF engine.processed \cup {Root} = Members
  THEN /\ engine' = [engine EXCEPT !.broadcast = {Root}, !.state = "TREE_BROADCAST"]
       /\ Store(Root, engine.tree_accum[Root])
  ELSE Fail("TOPOLOGY", Root, Root)

TreeReduce ==
  /\ engine.state = "TREE_REDUCE"
  /\ \/ TreeReady = {} /\ Fail("TOPOLOGY", Root, Root)
     \/ Root \in Lowest(TreeReady) /\ TreeReduceRoot
     \/ \E node \in Lowest(TreeReady) \ {Root} : TreeReduceNode(node)

TreeBroadcastNode(node) ==
  LET parent == topology.tree_parent[node]
  IN  \/ ~ Linked(parent, node) /\ Fail("TOPOLOGY", parent, node)
      \/ Linked(parent, node) /\ Faulted(parent, node) /\ RetryOrFail(parent, node)
      \/ /\ Linked(parent, node) /\ ~ Faulted(parent, node)
         /\ engine' = [Crossed EXCEPT !.broadcast = @ \cup {node}]
         /\ Store(node, engine.tree_accum[Root])

TreeBroadcast ==
  /\ engine.state = "TREE_BROADCAST"
  /\ \/ engine.broadcast = Members /\ Complete
     \/ /\ engine.broadcast # Members /\ BroadcastReady = {}
        /\ Fail("TOPOLOGY", Root, Root)
     \/ \E node \in Lowest(BroadcastReady) : TreeBroadcastNode(node)

-----------------------------------------------------------------------------
(* All-to-all: the pairs in turn, each routed hop by hop *)

Pair(index) == <<index \div NUM_NODES, index % NUM_NODES>>

Deliver(pair) ==
  response' = [response EXCEPT !.alltoall[pair[2]][pair[1]] = pair]

SelectPair ==
  LET pair == Pair(engine.pair_index)
      selected == [Crossed EXCEPT !.pair = pair, !.hop_count = 0]
      skipped == [selected EXCEPT !.pair_index = @ + 1]
  IN  /\ engine.state = "A2A_SELECT"
      /\ \/ engine.pair_index = NumPairs /\ Complete
         \/ /\ engine.pair_index # NumPairs
            /\ \/ ~ (pair[1] \in Members /\ pair[2] \in Members) /\ Advance(skipped)
               \/ /\ pair[1] \in Members /\ pair[1] = pair[2]
                  /\ engine' = skipped /\ Deliver(pair)
               \/ /\ pair[1] \in Members /\ pair[2] \in Members /\ pair[1] # pair[2]
                  /\ Advance([selected EXCEPT !.current = pair[1], !.state = "A2A_ROUTE"])

RouteHopUncounted ==
  LET from == engine.current
      destination == engine.pair[2]
      to == topology.next_hop[from][destination]
  IN  \/ HopRefused(from, to) /\ (HopValid(from, to) => to # from)
      \/ HopValid(from, to) /\ to = from /\ Fail("TOPOLOGY", from, to)
      \/ HopOpen(from, to) /\ to \notin {from, destination}
         /\ Advance([Crossed EXCEPT !.current = to])
      \/ /\ HopOpen(from, to) /\ to # from /\ to = destination
         /\ engine' = [Crossed EXCEPT !.pair_index = @ + 1, !.state = "A2A_SELECT"]
         /\ Deliver(engine.pair)

\* MAX_HOPS is NUM_NODES.
RouteHop ==
  LET from == engine.current
      destination == engine.pair[2]
      to == topology.next_hop[from][destination]
      moved == [Crossed EXCEPT !.hop_count = @ + 1, !.current = to]
  IN  \/ HopRefused(from, to) /\ (HopValid(from, to) => to # from)
      \/ HopValid(from, to) /\ to = from /\ Fail("TOPOLOGY", from, to)
      \/ HopOpen(from, to) /\ to \notin {from, destination} /\ Advance(moved)
      \/ /\ HopOpen(from, to) /\ to # from /\ to = destination
         /\ engine' = [moved EXCEPT !.pair_index = @ + 1, !.state = "A2A_SELECT"]
         /\ Deliver(engine.pair)

RoutePair ==
  /\ engine.state = "A2A_ROUTE"
  /\ \/ /\ engine.hop_count >= NUM_NODES
        /\ Fail("HOP_LIMIT", engine.current, engine.pair[2])
     \/ engine.hop_count < NUM_NODES /\ RouteHop

-----------------------------------------------------------------------------
(* Commands *)

BadCommand(c) ==
  \/ c.participants = {} \/ ~ c.participants \subseteq topology.active
  \/ c.root \notin c.participants

WrongPartition(c) == \E n \in c.participants : topology.partition[n] # c.partition

FirstState(opcode) ==
  CASE opcode = "RING_ALLREDUCE" -> "RING_REDUCE"
    [] opcode = "TREE_ALLREDUCE" -> "TREE_REDUCE"
    [] opcode = "ALLTOALL" -> "A2A_SELECT"

Started(c) ==
  [NoOperation EXCEPT
     !.state = FirstState(c.opcode), !.command = c, !.current = c.root,
     !.reduction = LocalValue(c.root), !.visited = {c.root},
     !.tree_accum = [n \in Node |-> LocalValue(n)]]

\* A refused command answers at once; for an opcode the engine does not know,
\* the response still names the edge of the one before.
Refuse(c, status, edge) ==
  /\ response' = [NoResponse EXCEPT !.valid = TRUE, !.collective_id = c.collective_id,
                                    !.status = status, !.edge = edge]
  /\ UNCHANGED engine

StartOrRefuse(c) ==
  \/ BadCommand(c) /\ Refuse(c, "BAD_COMMAND", <<0, 0>>)
  \/ ~ BadCommand(c) /\ WrongPartition(c) /\ Refuse(c, "PARTITION", <<0, 0>>)
  \/ /\ ~ BadCommand(c) /\ ~ WrongPartition(c)
     /\ \/ c.opcode = "UNKNOWN" /\ Refuse(c, "BAD_COMMAND", response.edge)
        \/ /\ c.opcode # "UNKNOWN"
           /\ engine' = Started(c)
           /\ response' = [NoResponse EXCEPT !.edge = response.edge]

-----------------------------------------------------------------------------
(* Fault injection *)

\* What software may do with the fault in a cycle: clear it, or arm one, which
\* makes a clear on the same edge void.
Settings ==
  {setting \in [clear : BOOLEAN,
                arm : {NoFault} \cup [edge : FaultEdges, persistent : BOOLEAN]] :
     setting.clear => setting.arm = NoFault}

Arms(setting) == setting.arm # NoFault

Configured(setting) ==
  IF Arms(setting) THEN setting.arm ELSE IF setting.clear THEN NoFault ELSE fault

\* A retry disarms a fault that is not persistent, and with it one that
\* software arms in the same cycle.
Retried == engine'.edge_retry = engine.edge_retry + 1

FaultNext(setting) ==
  fault' = IF Retried /\ ~ fault.persistent THEN NoFault ELSE Configured(setting)

\* Of the faults armed since the last command: how many, whether one was
\* persistent; and whether the table was written since.
Issue(c) ==
  [command |-> c, arms |-> IF fault' = NoFault THEN 0 ELSE 1,
   persistent |-> fault' # NoFault /\ fault'.persistent, reprogrammed |-> FALSE]

NothingIssued ==
  [command |-> NoCommand, arms |-> 0, persistent |-> FALSE, reprogrammed |-> FALSE]

Noted(setting) ==
  IF ~ Arms(setting) THEN issued
  ELSE [issued EXCEPT !.arms = @ + 1, !.persistent = @ \/ setting.arm.persistent]

-----------------------------------------------------------------------------
(* Steps *)

CmdReady == Idle /\ ~ response.valid

Accept(c, setting) ==
  /\ CmdReady /\ program = <<>>
  /\ StartOrRefuse(c)
  /\ fault' = Configured(setting)
  /\ issued' = Issue(c)
  /\ UNCHANGED <<topology, program>>

Operate(setting) ==
  /\ Arms(setting) => issued.arms < MaxArms
  /\ \/ RingReduce \/ RingBroadcast \/ TreeReduce \/ TreeBroadcast
     \/ SelectPair \/ RoutePair
  /\ FaultNext(setting)
  /\ issued' = Noted(setting)
  /\ UNCHANGED <<topology, program>>

Configure ==
  IF program = <<>> THEN UNCHANGED <<topology, program, issued>>
  ELSE /\ topology' = Write(topology, Head(program)) /\ program' = Tail(program)
       /\ issued' = [issued EXCEPT !.reprogrammed = TRUE]

\* A cycle without operation or command: the response is taken when the consumer
\* is ready, and an entry may be written.
Rest(rsp_ready, setting) ==
  /\ Idle
  /\ response' = IF response.valid /\ rsp_ready
                 THEN [NoResponse EXCEPT !.edge = response.edge] ELSE response
  /\ fault' = Configured(setting)
  /\ Configure
  /\ UNCHANGED engine

\* Software decides to program the table.
Reprogram ==
  /\ Idle /\ program = <<>>
  /\ program' \in IF topology = ResetTopology THEN Programs ELSE Repairs
  /\ UNCHANGED <<topology, engine, fault, response, issued>>

Init ==
  /\ topology = ResetTopology /\ program = <<>>
  /\ engine = NoOperation /\ fault = NoFault /\ response = NoResponse
  /\ issued = NothingIssued

Reset ==
  /\ topology' = ResetTopology /\ program' = <<>>
  /\ engine' = NoOperation /\ fault' = NoFault /\ response' = NoResponse
  /\ issued' = NothingIssued

Next ==
  \/ \E setting \in Settings :
       \/ \E c \in Commands : Accept(c, setting)
       \/ Operate(setting)
       \/ \E rsp_ready \in BOOLEAN : Rest(rsp_ready, setting)
  \/ Reprogram
  \/ Reset

Spec == Init /\ [][Next]_vars

\* The clock runs: an operation under way takes its next edge.
FairSpec == Spec /\ WF_vars(~ Idle /\ \E setting \in Settings : Operate(setting))

-----------------------------------------------------------------------------
(* Properties *)

Issued ==
  [command : Commands \cup {NoCommand}, arms : 0 .. MaxArms + 1,
   persistent : BOOLEAN, reprogrammed : BOOLEAN]

\* The registers keep their types.
TypeOK ==
  /\ topology \in Topology
  /\ program \in Seq(NodeEntry \cup RouteEntry)
  /\ engine \in Engine
  /\ fault \in Fault \cup {NoFault}
  /\ response \in Response
  /\ issued \in Issued

\* The sum of the local values of a group, each added once.
SumOf(group) == [n \in Node |-> IF n \in group THEN 1 ELSE 0]

WholeResult(c) ==
  IF c.opcode = "ALLTOALL"
  THEN /\ response.local = NoLocals
       /\ response.alltoall =
            [d \in Node |-> [s \in Node |->
               IF d \in c.participants /\ s \in c.participants
               THEN <<s, d>> ELSE NoPayload]]
  ELSE /\ response.local = [n \in Node |-> IF n \in c.participants
                                          THEN SumOf(c.participants) ELSE Zero]
       /\ response.alltoall = NoPayloads

\* A response commits with OK and the whole result of its own command, for every
\* participant and for nobody else, or it commits nothing, whatever was already
\* reduced or delivered.
CommitsWholeOrNothing ==
  response.valid =>
    /\ response.collective_id = issued.command.collective_id
    /\ response.committed <=> response.status = "OK"
    /\ IF response.committed THEN WholeResult(issued.command)
       ELSE response.local = NoLocals /\ response.alltoall = NoPayloads

Servable(c) ==
  /\ ~ BadCommand(c) /\ ~ WrongPartition(c) /\ c.opcode # "UNKNOWN"
  /\ CASE c.opcode = "RING_ALLREDUCE" -> RingConnects(topology, c.participants, c.root)
       [] c.opcode = "TREE_ALLREDUCE" -> TreeConnects(topology, c.participants, c.root)
       [] OTHER -> RoutesConnect(topology, c.participants)

\* A command is refused exactly when the table cannot serve it: the checks the
\* engine makes hop by hop find every open ring, cyclic or cut tree and dead or
\* circular route, and find nothing wrong with a good table, whatever faults are
\* injected meanwhile.  (A table written while a response waits says nothing.)
\* Retries are exhausted only after as many as the command allows, and by a
\* persistent fault or by more transient ones than that.
VerdictsJustified ==
  response.valid =>
    /\ ~ issued.reprogrammed =>
         /\ response.status = "OK" => Servable(issued.command)
         /\ response.status \notin {"OK", "RETRY_EXHAUSTED"} => ~ Servable(issued.command)
    /\ response.status = "RETRY_EXHAUSTED" =>
         /\ response.retry_count >= issued.command.retry_limit
         /\ issued.persistent \/ issued.arms > issued.command.retry_limit

\* Every accepted command is answered, whatever the table and the faults, unless
\* the engine is reset: no schedule hangs.
EveryCommandAnswered ==
  ~ Idle ~> (response.valid \/ issued.command = NoCommand)

=============================================================================

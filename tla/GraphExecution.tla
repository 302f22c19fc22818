--------------------------- MODULE GraphExecution ---------------------------
(***************************************************************************)
(* How the control-plane device of runtime/driver/device.py executes a     *)
(* token graph (RcifDevice._execute_graph), and what a graph means         *)
(* whatever executes it.                                                   *)
(*                                                                         *)
(* A graph is a sequence of nodes.  A word is the set of its one-bits, a   *)
(* dependency mask the set of node ids in it.                              *)
(***************************************************************************)
EXTENDS Integers, Sequences, FiniteSets

MaxNodes == 8
NodeId == 0 .. 15                   \* four bits; only 0 .. 7 can be depended on

GraphNode ==
  [opcode : {"NOP", "DMA", "ATTENTION", "TENSOR", "COMPLETE"}, node_id : NodeId,
   dependencies : SUBSET (0 .. 7), operand0 : SUBSET Nat]

\* The numbers of the opcodes the device has no engine for, as words.
EngineOpcode == [DMA |-> {0}, ATTENTION |-> {1}, TENSOR |-> {0, 1}]

Xor(v, w) == (v \ w) \cup (w \ v)
Outcome(status, result) == [status |-> status, result |-> <<"word", result>>]

-----------------------------------------------------------------------------
(* The loop: a round executes the first node that is ready *)

GraphValid(graph, priority) ==
  /\ Len(graph) \in 1 .. MaxNodes
  /\ priority \in 0 .. 3

Start == [executed |-> {}, complete_mask |-> {}, result |-> {}, answer |-> <<>>]

\* run.executed are the positions that left "remaining".
ReadyIn(graph, run) ==
  {i \in DOMAIN graph \ run.executed :
     graph[i].node_id <= 7 /\ graph[i].dependencies \subseteq run.complete_mask}

FirstReadyIn(graph, run) ==
  {i \in ReadyIn(graph, run) : \A j \in ReadyIn(graph, run) : i <= j}

Answered(run, status, result) == [run EXCEPT !.answer = <<Outcome(status, result)>>]

ExecuteNode(graph, run, i) ==
  LET node == graph[i]
  IN  IF node.opcode = "NOP"
      THEN [run EXCEPT !.executed = @ \cup {i}, !.result = Xor(@, node.operand0),
                       !.complete_mask = @ \cup {node.node_id}]
      ELSE IF node.opcode = "COMPLETE"
      THEN Answered(run, "OK", Xor(run.result, node.operand0))
      ELSE Answered(run, "GRAPH_INVALID", EngineOpcode[node.opcode])

Round(graph, run) ==
  IF run.answer # <<>> THEN run
  ELSE IF ReadyIn(graph, run) = {} THEN Answered(run, "GRAPH_DEADLOCK", run.complete_mask)
  ELSE ExecuteNode(graph, run, CHOOSE i \in FirstReadyIn(graph, run) : TRUE)

Rounds(graph) ==
  LET run[k \in 0 .. Len(graph)] == IF k = 0 THEN Start ELSE Round(graph, run[k - 1])
  IN  run[Len(graph)]

\* All nodes executed and none of them a COMPLETE: invalid, with the mask.
ExecuteGraph(graph, priority) ==
  IF ~ GraphValid(graph, priority) THEN Outcome("GRAPH_INVALID", {})
  ELSE LET run == Rounds(graph)
       IN  IF run.answer = <<>> THEN Outcome("GRAPH_INVALID", run.complete_mask)
           ELSE run.answer[1]

-----------------------------------------------------------------------------
(* What a graph means, without an order of execution *)

Available(graph, S) == {graph[i].node_id : i \in {k \in S : graph[k].opcode = "NOP"}}

\* The positions of A that can be executed after nothing but others of A.
Executable(graph, A) ==
  {i \in A : \A S \in SUBSET A :
     (\A k \in A : graph[k].node_id <= 7
                   /\ graph[k].dependencies \subseteq Available(graph, S) => k \in S)
     => i \in S}

Combined(graph, S) ==
  {b \in UNION {graph[i].operand0 : i \in S} :
     Cardinality({i \in S : b \in graph[i].operand0}) % 2 = 1}

\* The COMPLETE at c may answer with this word: some NOPs ran before it, at
\* least those it waits for, and the word is all of their operands.
MayComplete(graph, c, word) ==
  \E S \in SUBSET {i \in DOMAIN graph : graph[i].opcode = "NOP"} :
    /\ Executable(graph, S) = S
    /\ graph[c].node_id <= 7 /\ graph[c].dependencies \subseteq Available(graph, S)
    /\ word = Combined(graph, S \cup {c})

\* Some order of the executable nodes may answer a graph this way.  A node that
\* ends the graph (COMPLETE, or an opcode without an engine) wins over a
\* deadlock, which reports the nodes that did run.
MayAnswer(graph, priority, outcome) ==
  LET reachable == Executable(graph, DOMAIN graph)
      ends == {i \in reachable : graph[i].opcode # "NOP"}
      completes == {i \in ends : graph[i].opcode = "COMPLETE"}
  IN  IF ~ GraphValid(graph, priority) THEN outcome.status = "GRAPH_INVALID"
      ELSE \/ /\ outcome.status = "GRAPH_INVALID"
              /\ (ends # completes) \/ (reachable = DOMAIN graph /\ completes = {})
           \/ /\ outcome.status = "GRAPH_DEADLOCK"
              /\ ends = {} /\ reachable # DOMAIN graph
              /\ outcome.result = <<"word", {graph[i].node_id : i \in reachable}>>
           \/ /\ outcome.status = "OK"
              /\ \E c \in completes : MayComplete(graph, c, outcome.result[2])

=============================================================================

---------------------------- MODULE FpgaPrototype ----------------------------
(***************************************************************************)
(* The FPGA prototype backend (fpga/prototype.py): a device that executes  *)
(* token graphs on the external-memory proxy, with cycle accounting, and   *)
(* the harness that runs an agentic trace on it.                           *)
(*                                                                         *)
(* Everything is one thread: the host acts on the memory between graphs,   *)
(* a graph executes node by node.  A node is that of GraphExecution with   *)
(* its flags; operand0 is a word (a set of bits), which for a DMA node is  *)
(* the number of a page.  Rings, faults and boots are HostRuntime's: here  *)
(* the host waits for each answer.                                         *)
(***************************************************************************)
EXTENDS FpgaMemory, GoldenArithmetic, GraphExecution

CONSTANTS
  Graphs,            \* graphs the host submits, with their priorities
  Contents,          \* the keys and values a payload of page 1 stands for
  Query, Rows,       \* the rest of the toy model
  TraceTokens,       \* output tokens of each request of the trace
  MaxRequests        \* bound: graphs submitted

VARIABLES
  model,             \* what the device's model computes of each content
  run,               \* the graph being executed, or Idle
  counters,          \* the device's GRAPH_NODES, KV_FAULTS and KV_RECOVERED
  next_request_id,
  record, completion, \* of the last graph answered, <<>> before there is one
  report             \* the harness: totals, and the tokens still to be made

device == <<model, run, counters, next_request_id, record, completion>>
vars == <<memory, device, report>>

ATTENTION_PAGE == 1

ASSUME PrototypeAssumption ==
  /\ \A work \in Graphs :
       /\ work.graph \in Seq([opcode : {"NOP", "RESERVED", "COMPLETE"} \cup DOMAIN EngineOpcode,
                            node_id : NodeId, dependencies : SUBSET (0 .. 7),
                            operand0 : SUBSET Nat, flags : Nat])
       /\ work.priority \in Int
  /\ TraceTokens \in Seq(Nat) /\ MaxRequests \in Nat
  /\ Payloads # {} /\ Payloads \subseteq DOMAIN Contents
  /\ \A payload \in Payloads : Contents[payload] \in Seq([key : Seq(Int), value : Seq(Int)])
  /\ ATTENTION_PAGE \in VirtualPages

GRAPH_FLAG_TENSOR_USE_PREVIOUS == 8
NODE_SCHEDULER_CYCLES == 2
DMA_BASE_CYCLES == 6
ATTENTION_BASE_CYCLES == 9
ATTENTION_TOKEN_CYCLES == 3
TENSOR_CYCLES == 12

Node(opcode, node_id, dependencies, operand0, flags) ==
  [opcode |-> opcode, node_id |-> node_id, dependencies |-> dependencies,
   operand0 |-> operand0, flags |-> flags]

\* The four nodes of a token: prefetch the page, attend, project, complete.
ToyGraph(page) ==
  << Node("DMA", 0, {}, page, 0),
     Node("ATTENTION", 1, {0}, {0, 3, 7, 12}, 0),
     Node("TENSOR", 2, {1}, {}, GRAPH_FLAG_TENSOR_USE_PREVIOUS),
     Node("COMPLETE", 3, {2}, {}, 0) >>

OpcodeWord(opcode) == IF opcode = "RESERVED" THEN {2} ELSE EngineOpcode[opcode]

PageOf(operand0) == MapThenSumSet(LAMBDA b : 2 ^ b, operand0)

\* Sixteen bits of each element, the first lowest.
PackInt16(values) ==
  UNION {{16 * (i - 1) + b : b \in {k \in 0 .. 15 : (values[i] \div (2 ^ k)) % 2 = 1}}
         : i \in DOMAIN values}

-----------------------------------------------------------------------------
(* The datapath, on the content of page 1 *)

ProjectionOf(attention) ==
  QuantizedGemv([i \in DOMAIN attention |-> Clamp(-128, 127, attention[i])], Rows, "bypass")

Computed(payload) ==
  LET attention == OnlineAttention(Query, Contents[payload])
      projection == ProjectionOf(attention)
  IN  [attention |-> PackInt16(attention),
       output |-> projection, projection |-> PackInt16(projection)]

-----------------------------------------------------------------------------
(* _execute_graph: the first node that is ready, until one ends the graph *)

Idle == <<>>
Running == run # Idle

Begun(id, work) ==
  [request_id |-> id, graph |-> work.graph, priority |-> work.priority, executed |-> {}, complete_mask |-> {},
   result |-> {}, cycles |-> 0, predicted |-> 0, output |-> <<>>,
   attention |-> <<>>, start_faults |-> memory.page_faults,
   start_migrations |-> memory.migrations]

Counted(counter, amount) == [counters EXCEPT ![counter] = @ + amount]

\* The completion keeps the question beside the answer, and what the memory held.
Answer(id, work, outcome) ==
  completion' =
    <<[request_id |-> id, graph |-> work.graph, priority |-> work.priority,
      status |-> outcome.status, result |-> outcome.result,
      mapped |-> Pages(memory), payload |-> memory.pages[ATTENTION_PAGE].payload]>>

Submit(work, traced) ==
  /\ ~ Running
  /\ next_request_id <= MaxRequests
  /\ next_request_id' = next_request_id + 1
  /\ report' = [report EXCEPT !.waits_for = IF traced THEN next_request_id ELSE 0]
  /\ IF GraphValid(work.graph, work.priority)
     THEN /\ run' = Begun(next_request_id, work)
          /\ counters' = Counted("GRAPH_NODES", Len(work.graph))
          /\ UNCHANGED completion
     ELSE /\ Answer(next_request_id, work, Outcome("GRAPH_INVALID", {}))
          /\ UNCHANGED <<run, counters>>
  /\ UNCHANGED <<model, memory, record>>

\* Of run: i is the position of the node the loop comes to.
NodeAt(i) == run.graph[i]

\* Mutant: the word is combined by OR.
ExecutedOr(i, cycles, predicted, word) ==
  [run EXCEPT !.executed = @ \cup {i},
              !.complete_mask = @ \cup {NodeAt(i).node_id},
              !.result = @ \cup word,
              !.cycles = @ + NODE_SCHEDULER_CYCLES + cycles,
              !.predicted = @ + NODE_SCHEDULER_CYCLES + predicted]

Executed(i, cycles, predicted, word) ==
  [run EXCEPT !.executed = @ \cup {i},
              !.complete_mask = @ \cup {NodeAt(i).node_id},
              !.result = Xor(@, word),
              !.cycles = @ + NODE_SCHEDULER_CYCLES + cycles,
              !.predicted = @ + NODE_SCHEDULER_CYCLES + predicted]

Finish(outcome) ==
  /\ Answer(run.request_id, run, outcome)
  /\ run' = Idle

ExecuteNop(i) ==
  /\ NodeAt(i).opcode = "NOP"
  /\ run' = Executed(i, 0, 0, NodeAt(i).operand0)
  /\ UNCHANGED <<model, memory, counters, next_request_id, record, completion, report>>

\* Mutant: the look at the page comes after its migration.
PredictedCyclesAfter(p) == LocalReadCycles

\* What a read of the page is predicted to cost, from a look at it beforehand.
PredictedCycles(p) ==
  IF memory.pages[p].tier = "local" THEN LocalReadCycles
  ELSE MigrationCycles(memory.pages[p].size_bytes)

CountMigration(p) ==
  counters' = IF memory.pages[p].tier = "local" THEN counters
              ELSE [counters EXCEPT !.KV_FAULTS = @ + 1, !.KV_RECOVERED = @ + 1]

ExecuteDma(i) ==
  LET p == PageOf(NodeAt(i).operand0)
  IN  /\ NodeAt(i).opcode = "DMA" /\ p \in Pages(memory)
      /\ memory' = EnsureLocal(memory, p)
      /\ CountMigration(p)
      /\ run' = Executed(i, DMA_BASE_CYCLES + AccessCycles(memory, p),
                         DMA_BASE_CYCLES + PredictedCycles(p), {})
      /\ UNCHANGED <<model, next_request_id, record, completion, report>>

\* Whatever page the DMA node brought, attention reads page 1.
ExecuteAttention(i) ==
  LET p == ATTENTION_PAGE
      payload == memory.pages[p].payload
      fixed == ATTENTION_BASE_CYCLES + Len(Contents[payload]) * ATTENTION_TOKEN_CYCLES
  IN  /\ NodeAt(i).opcode = "ATTENTION"
      /\ memory' = EnsureLocal(memory, p)
      /\ CountMigration(p)
      /\ run' = [Executed(i, fixed + AccessCycles(memory, p), fixed + PredictedCycles(p),
                          model[payload].attention) EXCEPT !.attention = <<payload>>]
      /\ UNCHANGED <<model, next_request_id, record, completion, report>>

TensorAllowed(i) ==
  NodeAt(i).flags = GRAPH_FLAG_TENSOR_USE_PREVIOUS /\ run.attention # <<>>

ExecuteTensor(i) ==
  /\ NodeAt(i).opcode = "TENSOR" /\ TensorAllowed(i)
  /\ run' = [Executed(i, TENSOR_CYCLES, TENSOR_CYCLES, model[run.attention[1]].projection)
               EXCEPT !.output = model[run.attention[1]].output]
  /\ UNCHANGED <<model, memory, counters, next_request_id, record, completion, report>>

\* A result that the node's own operand is not folded into.
ExecuteComplete(i) ==
  /\ NodeAt(i).opcode = "COMPLETE"
  /\ Finish(Outcome("OK", run.result))
  /\ record' =
       <<[request_id |-> run.request_id,
         cycles |-> run.cycles + NODE_SCHEDULER_CYCLES,
         predicted_cycles |-> run.predicted + NODE_SCHEDULER_CYCLES,
         output |-> run.output,
         page_faults |-> memory.page_faults - run.start_faults,
         migrations |-> memory.migrations - run.start_migrations]>>
  /\ UNCHANGED <<model, memory, counters, next_request_id, report>>

\* A KeyError or a ValueError: what was brought into local memory stays there.
RefuseNode(i) ==
  /\ \/ NodeAt(i).opcode = "DMA" /\ PageOf(NodeAt(i).operand0) \notin Pages(memory)
     \/ NodeAt(i).opcode = "TENSOR" /\ ~ TensorAllowed(i)
     \/ NodeAt(i).opcode = "RESERVED"
  /\ Finish(Outcome("GRAPH_INVALID", OpcodeWord(NodeAt(i).opcode)))
  /\ UNCHANGED <<model, memory, counters, next_request_id, record, report>>

\* Mutant: only a graph that was executed to its end is answered.
NothingLeft ==
  /\ Running
  /\ run.executed = DOMAIN run.graph
  /\ Finish(Outcome("GRAPH_INVALID", run.complete_mask))
  /\ UNCHANGED <<model, memory, counters, next_request_id, record, report>>

\* No node left to execute: none at all, or none that is ready.
NothingReady ==
  /\ Running
  /\ ReadyIn(run.graph, run) = {}
  /\ Finish(Outcome(IF run.executed = DOMAIN run.graph THEN "GRAPH_INVALID"
                    ELSE "GRAPH_DEADLOCK", run.complete_mask))
  /\ UNCHANGED <<model, memory, counters, next_request_id, record, report>>

GraphStep ==
  \/ \E i \in IF Running THEN FirstReadyIn(run.graph, run) ELSE {} :
       \/ ExecuteNop(i) \/ ExecuteDma(i) \/ ExecuteAttention(i)
       \/ ExecuteTensor(i) \/ ExecuteComplete(i) \/ RefuseNode(i)
  \/ NothingReady

-----------------------------------------------------------------------------
(* run_agentic_trace: a toy graph for each output token *)

SubmitToken ==
  /\ report.waits_for = 0
  /\ report.tokens # <<>> /\ Head(report.tokens) > 0
  /\ Submit([graph |-> ToyGraph({0}), priority |-> 0], TRUE)

NextRequest ==
  /\ ~ Running /\ report.waits_for = 0
  /\ report.tokens # <<>> /\ Head(report.tokens) = 0
  /\ report' = [report EXCEPT !.tokens = Tail(@)]
  /\ UNCHANGED <<memory, device>>

\* A completion that is not OK raises: the trace goes no further.
CollectToken ==
  /\ ~ Running /\ report.waits_for # 0
  /\ \E c \in Range(completion), r \in Range(record) :
       /\ c.request_id = report.waits_for /\ c.status = "OK"
       /\ r.request_id = report.waits_for
       /\ report' = [tokens |-> <<Head(report.tokens) - 1>> \o Tail(report.tokens),
                     waits_for |-> 0,
                     graphs |-> report.graphs + 1,
                     measured |-> report.measured + r.cycles,
                     predicted |-> report.predicted + r.predicted_cycles]
  /\ UNCHANGED <<memory, device>>

-----------------------------------------------------------------------------
\* The harness is one call: until it returns the host does nothing else.
InTrace == report.waits_for # 0 \/ report.tokens \notin {TraceTokens, <<>>}

SubmitGraph ==
  /\ ~ InTrace
  /\ \E work \in Graphs : Submit(work, FALSE)

\* Only page 1 is ever read: one content stands for all of the others'.
ContentsOf(p) ==
  IF p = ATTENTION_PAGE THEN Payloads ELSE {CHOOSE payload \in Payloads : TRUE}

\* The host maps, remaps and migrates pages between graphs.
HostAccess ==
  /\ ~ Running /\ ~ InTrace
  /\ \E p \in VirtualPages :
       \/ \E payload \in ContentsOf(p), size \in Sizes, tier \in Tier :
            MapPage(p, payload, size, tier)
       \/ MigrateToHost(p)
  /\ UNCHANGED <<device, report>>

Init ==
  /\ \E payload \in Payloads, size \in Sizes :
       memory = MapToHost(EmptyMemory, ATTENTION_PAGE, payload, size)
  /\ model = [payload \in Payloads |-> Computed(payload)]
  /\ run = Idle /\ next_request_id = 1 /\ record = <<>> /\ completion = <<>>
  /\ counters = [GRAPH_NODES |-> 0, KV_FAULTS |-> 0, KV_RECOVERED |-> 0]
  /\ report = [tokens |-> TraceTokens, waits_for |-> 0,
               graphs |-> 0, measured |-> 0, predicted |-> 0]

Next ==
  \/ SubmitGraph \/ HostAccess
  \/ GraphStep
  \/ SubmitToken \/ NextRequest \/ CollectToken

Spec == Init /\ [][Next]_vars

\* A graph that was begun is executed to its end: nothing in it waits.
FairSpec == Spec /\ WF_vars(GraphStep)

-----------------------------------------------------------------------------
(* What the prototype promises *)

IdsAt(graph, S) == {graph[i].node_id : i \in S}

\* The nodes that can complete and go on to others, given what is mapped.
Completing(c) ==
  {i \in DOMAIN c.graph :
     LET node == c.graph[i]
     IN  \/ node.opcode \in {"NOP", "ATTENTION"}
         \/ node.opcode = "DMA" /\ PageOf(node.operand0) \in c.mapped
         \/ node.opcode = "TENSOR" /\ node.flags = GRAPH_FLAG_TENSOR_USE_PREVIOUS}

CanFollow(c, i, S) ==
  /\ c.graph[i].node_id <= 7
  /\ c.graph[i].dependencies \subseteq IdsAt(c.graph, S \cap Completing(c))

\* The positions of A that can be executed after nothing but others of A.
Reachable(c, A) ==
  LET after[k \in 0 .. Cardinality(A)] ==
        IF k = 0 THEN {} ELSE {i \in A : CanFollow(c, i, after[k - 1])}
  IN  after[Cardinality(A)]

OfOpcode(c, opcode) == {i \in DOMAIN c.graph : c.graph[i].opcode = opcode}

WordAt(c, i) ==
  CASE c.graph[i].opcode = "NOP" -> c.graph[i].operand0
    [] c.graph[i].opcode = "ATTENTION" -> model[c.payload].attention
    [] c.graph[i].opcode = "TENSOR" -> model[c.payload].projection
    [] OTHER -> {}

FoldedWords(c, S) ==
  {b \in UNION {WordAt(c, i) : i \in S} :
     Cardinality({i \in S : b \in WordAt(c, i)}) % 2 = 1}

\* A COMPLETE may follow the nodes S and answer with what they computed.
CompletesAfter(c, S) ==
  /\ Reachable(c, S) = S
  /\ \E i \in OfOpcode(c, "COMPLETE") : CanFollow(c, i, S)
  /\ S \cap OfOpcode(c, "TENSOR") # {} => S \cap OfOpcode(c, "ATTENTION") # {}
  /\ c.result = <<"word", FoldedWords(c, S)>>
  /\ \A r \in Range(record) :
       r.request_id = c.request_id =>
         r.output = IF S \cap OfOpcode(c, "TENSOR") = {} THEN <<>>
                    ELSE model[c.payload].output

\* Nodes that may be refused: of no engine, of an unmapped page, or a
\* projection that can come before any attention.
Refusable(c) ==
  {i \in Reachable(c, DOMAIN c.graph) :
     /\ c.graph[i].opcode # "COMPLETE"
     /\ \/ i \notin Completing(c)
        \/ /\ c.graph[i].opcode = "TENSOR"
           /\ i \in Reachable(c, DOMAIN c.graph \ OfOpcode(c, "ATTENTION"))}

\* Every answer is one that the graph, the mapped pages and the content of page
\* 1 allow in some order of the nodes, whatever was evicted, remapped or
\* aborted before (prototype.py:116-230).
AnswersMeanGraph ==
  \A c \in Range(completion) :
    LET all == DOMAIN c.graph
        reached == Reachable(c, all)
    IN  IF ~ GraphValid(c.graph, c.priority) THEN c.status = "GRAPH_INVALID"
        ELSE \/ c.status = "OK" /\ \E S \in SUBSET Completing(c) : CompletesAfter(c, S)
             \/ /\ c.status = "GRAPH_INVALID"
                /\ (Refusable(c) # {}) \/ (reached = all /\ Completing(c) = all)
             \/ /\ c.status = "GRAPH_DEADLOCK"
                /\ reached \subseteq Completing(c) /\ reached # all
                /\ c.result = <<"word", IdsAt(c.graph, reached)>>

\* The telemetry of the device, the memory's own counts and the records of the
\* graphs agree: every page fault was recovered by one migration, and a graph
\* costs what was predicted of it (prototype.py:143-211, memory.py:76-90).
FaultsAccountedFor ==
  /\ counters.KV_FAULTS = memory.migrations
  /\ counters.KV_RECOVERED = memory.migrations
  /\ memory.page_faults = memory.migrations
  /\ memory.next_physical >= memory.migrations
  /\ \A r \in Range(record) :
       r.cycles = r.predicted_cycles /\ r.page_faults = r.migrations

\* A toy graph on resident pages takes this long, one that migrates its page
\* as much more as a migration takes beyond a local read.
ResidentToyCycles(payload) ==
  4 * NODE_SCHEDULER_CYCLES + DMA_BASE_CYCLES + ATTENTION_BASE_CYCLES
    + Len(Contents[payload]) * ATTENTION_TOKEN_CYCLES + TENSOR_CYCLES + 2 * LocalReadCycles

\* A trace measures what was predicted, and pays for at most one migration
\* however many tokens it makes and whatever the host did to the memory before
\* (prototype.py:241-266, fpga_emulation.md "one cold graph").
TraceColdOnce ==
  LET page == memory.pages[ATTENTION_PAGE]
      resident == report.graphs * ResidentToyCycles(page.payload)
      extra == MigrationCycles(page.size_bytes) - LocalReadCycles
  IN  /\ report.measured = report.predicted
      /\ InTrace /\ report.waits_for = 0 => report.measured \in {resident, resident + extra}
      /\ \A c \in Range(completion) : c.request_id = report.waits_for => c.status = "OK"

\* A graph that was begun is answered, without a step of the host.
GraphsEnd == Running ~> ~ Running

=============================================================================

--------------------------- MODULE TokenScheduler ---------------------------
(***************************************************************************)
(* The token scheduler of rtl/scheduler/rcif_token_scheduler.sv with the   *)
(* units it instantiates: request slots, QoS arbiter, graph decoder,       *)
(* dependency scoreboard, completion FIFO and replay trace.                *)
(*                                                                         *)
(* One step is one rising clock edge (Cycle) or an assertion of rst_ni     *)
(* (Reset).  A cycle is one state of the control FSM conjoined with the    *)
(* handshakes that happen on the same edge: a request admitted, a          *)
(* descriptor written, a completion popped by the host, an event traced.   *)
(* A data word is the set of its one-bits, so XOR is symmetric difference  *)
(* and the completed mask is the set of completed nodes.  The DMA,         *)
(* attention and tensor engines appear as their handshake: a request is    *)
(* taken, an answer follows after at most EngineCycles further cycles.     *)
(***************************************************************************)
EXTENDS Integers, Sequences, FiniteSets

CONSTANTS
  MAX_DESCRIPTORS,   \* words of descriptor SRAM
  MAX_NODES,         \* nodes of a graph, bits of the scoreboard
  REQUEST_SLOTS,     \* pending requests
  CPL_DEPTH,         \* entries of the completion FIFO
  TRACE_DEPTH,       \* entries of the replay trace
  MAX_GRAPH_CYCLES,  \* service allocation of one graph
  COUNTER_MAX,       \* largest value of a cycle counter (16'hffff)
  AGE_MOD,           \* modulus of the admission age (2^16)
  DATA_W,            \* width of a data word (64)
  PAYLOAD_W,         \* bits of a result that a trace event has room for (56)
  LANES,             \* lanes of the tensor array, one saturation flag each (4)
  EngineCycles,      \* bound: cycles an engine keeps the scheduler waiting
  EngineResults,     \* words the engines may answer
  Requests,          \* requests the host offers: [base, nodes, priority]
  GraphWrites,       \* descriptor writes the host makes: [index, descriptor]
  Graphs,            \* contents of the descriptor SRAM at power-up
  CplReady,          \* values the host drives on cpl_ready_i
  TraceClear,        \* values the host drives on trace_clear_i
  WeightWrite,       \* values the host drives on weight_write_valid_i
  MaxRequests,       \* bound: requests the host submits
  NoRequest          \* contents of a free request slot

Slot == 0 .. REQUEST_SLOTS - 1
Node == 0 .. MAX_NODES - 1
Index == 0 .. MAX_DESCRIPTORS - 1
Word == SUBSET (0 .. DATA_W - 1)
Lane == 0 .. LANES - 1
Counter == 0 .. COUNTER_MAX
Priority == 0 .. 3
QOS_MAX_LATENCY_CYCLES == (REQUEST_SLOTS + 1) * MAX_GRAPH_CYCLES

Opcode == {"NOP", "DMA", "ATTN", "TENSOR", "COMPLETE"}
\* ALL_MASKED is how an attention finish event marks a fully masked row.
Status == {"OK", "ALL_MASKED", "DMA_ERROR", "TENSOR_CONFIG", "GRAPH_INVALID",
           "GRAPH_DEADLOCK"}
Success == {"OK", "ALL_MASKED"}
State == {"IDLE", "LOAD", "SCAN", "EXEC_IMMEDIATE", "WAIT_DMA", "WAIT_ATTN",
          "WAIT_TENSOR", "FINISH"}

\* A descriptor as firmware writes it: "RESERVED" is any other opcode,
\* reserved is bits [127:116], operand1 is left to the engines.
Descriptor == [opcode : Opcode \cup {"RESERVED"}, flags : 0 .. 15, node : 0 .. 15,
               deps : SUBSET Node, operand0 : Word, reserved : 0 .. 4095]
HostRequest == [base : Index, nodes : Nat, priority : Priority]
SlotEntry == [id : Nat, base : Index, nodes : Nat, priority : Priority,
              age : 0 .. AGE_MOD - 1, wait : Counter]
Completion == [id : Nat, status : Status, result : Word]
Response == [status : Status, result : Word, saturated : SUBSET Lane]
Event == [id : Nat, opcode : Opcode, node : Node, phase : {"issue", "finish"},
          status : Status, payload : SUBSET (0 .. PAYLOAD_W - 1)]

ASSUME ParameterAssumption ==
  /\ MAX_DESCRIPTORS \in Nat \ {0} /\ MAX_NODES \in Nat \ {0}
  /\ REQUEST_SLOTS \in Nat \ {0} /\ CPL_DEPTH \in Nat \ {0}
  /\ TRACE_DEPTH \in Nat /\ MAX_GRAPH_CYCLES \in Nat
  /\ COUNTER_MAX \in Nat /\ AGE_MOD \in Nat \ {0}
  /\ DATA_W \in Nat /\ MAX_NODES <= DATA_W
  /\ PAYLOAD_W \in Nat /\ LANES \in Nat /\ LANES <= PAYLOAD_W /\ PAYLOAD_W <= DATA_W
  /\ EngineCycles \in Nat /\ MaxRequests \in Nat

ASSUME HostAssumption ==
  /\ EngineResults \subseteq Word
  /\ Requests \subseteq HostRequest
  /\ GraphWrites \subseteq [index : Index, descriptor : Descriptor]
  /\ Graphs \subseteq [Index -> Descriptor]
  /\ CplReady \subseteq BOOLEAN /\ TraceClear \subseteq BOOLEAN
  /\ WeightWrite \subseteq BOOLEAN
  /\ NoRequest \notin SlotEntry

VARIABLES
  descriptor_mem,   \* descriptor SRAM, not reset
  request,          \* slot -> SlotEntry or NoRequest
  age_counter,      \* age the next admitted request gets
  state,            \* control FSM
  active,           \* request being served
  scan_index,       \* descriptor under the scan, relative to active.base
  accumulated,      \* XOR of the results of the finished nodes
  issued,           \* issued node; on the way to FINISH, status and result
  completed,        \* scoreboard: node ids finished by the active graph
  engine,           \* further cycles before the busy engine answers
  latency,          \* cycles since admission of the active request
  service,          \* cycles of service of the active request
  retire_recorded,  \* the retirement of the active request was recorded
  qos_last,         \* last retirement: [id, latency]
  violation,        \* sticky qos_bound_violation_o
  cpl_fifo,         \* completions waiting for the host
  trace,            \* replay events since the last clear
  trace_overflow,   \* sticky trace_overflow_o
  submitted,        \* host: requests accepted since reset; also their ids
  delivered         \* host: completions taken since reset, in order

queue == <<request, age_counter>>
control == <<state, active, scan_index, accumulated, issued, completed, engine>>
qos == <<latency, service, retire_recorded, qos_last, violation>>
outputs == <<cpl_fifo, trace, trace_overflow>>
host == <<submitted, delivered>>
vars == <<descriptor_mem, queue, control, qos, outputs, host>>

-----------------------------------------------------------------------------
(* Combinational helpers.  An operator named for what it gets wrong, just     *)
(* above the definition it varies, is a mutant: the properties that must       *)
(* catch it are listed in PROJECT.json.                                        *)

Xor(a, b) == (a \ b) \cup (b \ a)

\* The bits of a small number, as the completion of an invalid graph carries it.
BitsOf(n) == {b \in 0 .. DATA_W - 1 : (n \div 2^b) % 2 = 1}

Saturate(n) == IF n = COUNTER_MAX THEN n ELSE n + 1

RequestConfigValid(r) ==
  /\ r.nodes > 0
  /\ r.nodes <= MAX_NODES
  /\ r.base + r.nodes <= MAX_DESCRIPTORS

Pending == {s \in Slot : request[s] # NoRequest}
LowestFree == {s \in Slot \ Pending : \A t \in Slot \ Pending : s <= t}

BetterIgnoringPriority(s, t) == request[s].age < request[t].age

BetterIgnoringAge(s, t) == request[s].priority > request[t].priority

\* rcif_qos_arbiter: s is preferred to t when the loop reaches both.
Better(s, t) ==
  \/ request[s].priority > request[t].priority
  \/ /\ request[s].priority = request[t].priority
     /\ request[s].age < request[t].age

Wins(s) == \A t \in Pending \ {s} : Better(s, t) \/ (~ Better(t, s) /\ s < t)

\* The slots an IDLE scheduler grants this cycle: at most one.
Grants == IF state = "IDLE" THEN {s \in Pending : Wins(s)} ELSE {}

LegalFlags ==
  [NOP |-> {0}, ATTN |-> {0}, COMPLETE |-> {0}, DMA |-> {0, 1}, TENSOR |-> {0, 8}]

FlagsValid(d) == d.opcode \in Opcode /\ d.flags \in LegalFlags[d.opcode]

DecodedValid(d) == FlagsValid(d) /\ d.node < MAX_NODES /\ d.reserved = 0

Decoded == descriptor_mem[(active.base + scan_index) % MAX_DESCRIPTORS]

DependenciesReady(d) == d.deps \subseteq completed

CurrentReadyAgain == DecodedValid(Decoded) /\ DependenciesReady(Decoded)

CurrentReady ==
  /\ DecodedValid(Decoded)
  /\ Decoded.node \notin completed
  /\ DependenciesReady(Decoded)

WaitState == {"WAIT_DMA", "WAIT_ATTN", "WAIT_TENSOR"}
Responding == state \in WaitState /\ engine = 0

\* Answers an engine may give: DMA may fail, tensor may refuse its
\* configuration, attention always succeeds.  The tensor array marks the lanes
\* that saturated.
EngineStatus ==
  [WAIT_DMA |-> {"OK", "DMA_ERROR"}, WAIT_ATTN |-> {"OK", "ALL_MASKED"},
   WAIT_TENSOR |-> {"OK", "TENSOR_CONFIG"}]

Responses ==
  IF Responding
  THEN [status : EngineStatus[state], result : EngineResults,
        saturated : IF state = "WAIT_TENSOR" THEN SUBSET Lane ELSE {{}}]
  ELSE {[status |-> "OK", result |-> {}, saturated |-> {}]}

-----------------------------------------------------------------------------
(* Cycle counters *)

ServiceTickLate ==
  /\ latency' = Saturate(latency)
  /\ service' = IF latency # COUNTER_MAX THEN Saturate(service) ELSE service
  /\ violation' = (violation \/ (latency # COUNTER_MAX /\ service > MAX_GRAPH_CYCLES))
  /\ UNCHANGED <<retire_recorded, qos_last>>

\* Every state but IDLE and FINISH counts latency and service; the service
\* counter and its check stand still once the latency counter is saturated.
ServiceTick ==
  /\ latency' = Saturate(latency)
  /\ service' = IF latency # COUNTER_MAX THEN Saturate(service) ELSE service
  /\ violation' = (violation \/ (latency # COUNTER_MAX /\ service >= MAX_GRAPH_CYCLES))
  /\ UNCHANGED <<retire_recorded, qos_last>>

\* The first cycle of FINISH records the retirement.
RecordRetirement ==
  /\ IF retire_recorded
     THEN UNCHANGED <<qos_last, retire_recorded, violation>>
     ELSE /\ qos_last' = [id |-> active.id, latency |-> latency]
          /\ retire_recorded' = TRUE
          /\ violation' = (violation \/ (/\ active.priority = 3
                                         /\ latency > QOS_MAX_LATENCY_CYCLES))
  /\ UNCHANGED <<latency, service>>

GrantLatencyAdds(wait) == (latency + wait + 1) % (COUNTER_MAX + 1)

GrantLatency(wait) == (wait + 1) % (COUNTER_MAX + 1)

-----------------------------------------------------------------------------
(* The control FSM, one action per state *)

\* IDLE: take over the granted request, or wait for one.
Idle ==
  /\ state = "IDLE"
  /\ \/ /\ Grants = {}
        /\ UNCHANGED <<control, qos>>
     \/ \E s \in Grants :
          /\ active' = [id |-> request[s].id, base |-> request[s].base,
                        nodes |-> request[s].nodes, priority |-> request[s].priority]
          /\ latency' = GrantLatency(request[s].wait)
          /\ service' = 0
          /\ retire_recorded' = FALSE
          /\ accumulated' = {}
          /\ scan_index' = 0
          /\ state' = "LOAD"
          /\ UNCHANGED <<issued, completed, engine, qos_last, violation>>

LoadKeepsScoreboard ==
  /\ state = "LOAD"
  /\ state' = "SCAN"
  /\ ServiceTick
  /\ UNCHANGED <<active, scan_index, accumulated, issued, completed, engine>>

Load ==
  /\ state = "LOAD"
  /\ completed' = {}
  /\ state' = "SCAN"
  /\ ServiceTick
  /\ UNCHANGED <<active, scan_index, accumulated, issued, engine>>

Terminate(status, result) ==
  /\ issued' = [issued EXCEPT !.status = status, !.operand0 = result]
  /\ state' = "FINISH"

SkipForever ==
  /\ scan_index' = (scan_index + 1) % active.nodes
  /\ UNCHANGED <<state, issued>>

\* SCAN on a node that is finished or blocked: go on, or report that a full
\* scan found nothing to issue.
Skip ==
  IF scan_index + 1 >= active.nodes
  THEN /\ Terminate("GRAPH_DEADLOCK", completed)
       /\ UNCHANGED scan_index
  ELSE /\ scan_index' = scan_index + 1
       /\ UNCHANGED <<state, issued>>

\* Where an issued node is waited for.
ServedIn ==
  [NOP |-> "EXEC_IMMEDIATE", COMPLETE |-> "EXEC_IMMEDIATE", DMA |-> "WAIT_DMA",
   ATTN |-> "WAIT_ATTN", TENSOR |-> "WAIT_TENSOR"]

\* SCAN on a ready node: hand it to its engine.  A tensor request is refused
\* while weights are being written; the scan then stays on the node.
Issue(weight_write) ==
  /\ issued' = [issued EXCEPT !.node = Decoded.node, !.opcode = Decoded.opcode,
                              !.operand0 = Decoded.operand0]
  /\ state' = IF Decoded.opcode = "TENSOR" /\ weight_write THEN "SCAN"
              ELSE ServedIn[Decoded.opcode]
  /\ UNCHANGED scan_index

Scan(weight_write) ==
  /\ state = "SCAN"
  /\ \/ /\ ~ DecodedValid(Decoded)
        /\ Terminate("GRAPH_INVALID", BitsOf(scan_index))
        /\ UNCHANGED scan_index
     \/ /\ DecodedValid(Decoded) /\ ~ CurrentReady
        /\ Skip
     \/ /\ CurrentReady
        /\ Issue(weight_write)
  /\ IF state' \in WaitState THEN engine' \in 0 .. EngineCycles ELSE UNCHANGED engine
  /\ ServiceTick
  /\ UNCHANGED <<active, accumulated, completed>>

NodeFinishedOverwrites(result) ==
  /\ accumulated' = result
  /\ completed' = completed \cup {issued.node}
  /\ scan_index' = 0
  /\ state' = "SCAN"
  /\ UNCHANGED issued

NodeFinishedScansOn(result) ==
  /\ accumulated' = Xor(accumulated, result)
  /\ completed' = completed \cup {issued.node}
  /\ state' = "SCAN"
  /\ UNCHANGED <<issued, scan_index>>

\* The issued node is finished: fold its result in and scan from the base again.
NodeFinished(result) ==
  /\ accumulated' = Xor(accumulated, result)
  /\ completed' = completed \cup {issued.node}
  /\ scan_index' = 0
  /\ state' = "SCAN"
  /\ UNCHANGED issued

ExecImmediate ==
  /\ state = "EXEC_IMMEDIATE"
  /\ \/ /\ issued.opcode = "COMPLETE"
        /\ Terminate("OK", Xor(accumulated, issued.operand0))
        /\ UNCHANGED <<accumulated, completed, scan_index>>
     \/ /\ issued.opcode # "COMPLETE"
        /\ NodeFinished(issued.operand0)
  /\ ServiceTick
  /\ UNCHANGED <<active, engine>>

\* WAIT_DMA, WAIT_ATTN and WAIT_TENSOR: wait, then take the answer.
WaitEngine(rsp) ==
  /\ state \in WaitState
  /\ \/ /\ engine > 0
        /\ engine' = engine - 1
        /\ UNCHANGED <<state, scan_index, accumulated, issued, completed>>
     \/ /\ Responding /\ rsp.status \in Success
        /\ NodeFinished(rsp.result)
        /\ UNCHANGED engine
     \/ /\ Responding /\ rsp.status \notin Success
        /\ Terminate(rsp.status, rsp.result)
        /\ UNCHANGED <<accumulated, completed, scan_index, engine>>
  /\ ServiceTick
  /\ UNCHANGED active

PushReady == Len(cpl_fifo) < CPL_DEPTH

FinishDropsWhenFull ==
  /\ state = "FINISH"
  /\ state' = "IDLE"
  /\ RecordRetirement
  /\ UNCHANGED <<active, scan_index, accumulated, issued, completed, engine>>

\* FINISH: retire as soon as the completion FIFO has room.
Finish ==
  /\ state = "FINISH"
  /\ state' = IF PushReady THEN "IDLE" ELSE "FINISH"
  /\ RecordRetirement
  /\ UNCHANGED <<active, scan_index, accumulated, issued, completed, engine>>

Control(weight_write, rsp) ==
  Idle \/ Load \/ Scan(weight_write) \/ ExecImmediate \/ WaitEngine(rsp) \/ Finish

-----------------------------------------------------------------------------
(* What happens on the same edge around the FSM *)

\* The slots: admit r (or nothing), release the granted one, age the others.
Admissible(r) == RequestConfigValid(r) /\ LowestFree # {}

AgedKeepsGranted(s) ==
  IF request[s] = NoRequest THEN NoRequest
  ELSE [request[s] EXCEPT !.wait = Saturate(@)]

Aged(s) ==
  IF request[s] = NoRequest \/ s \in Grants THEN NoRequest
  ELSE [request[s] EXCEPT !.wait = Saturate(@)]

NewEntry(r) ==
  [id |-> submitted + 1, base |-> r.base, nodes |-> r.nodes,
   priority |-> r.priority, age |-> age_counter, wait |-> 0]

AdmitNone ==
  /\ request' = [s \in Slot |-> Aged(s)]
  /\ UNCHANGED <<age_counter, submitted>>

Admit(r) ==
  /\ submitted < MaxRequests
  /\ Admissible(r)
  /\ request' = [s \in Slot |-> IF s \in LowestFree THEN NewEntry(r) ELSE Aged(s)]
  /\ age_counter' = (age_counter + 1) % AGE_MOD
  /\ submitted' = submitted + 1

RequestPort == AdmitNone \/ \E r \in Requests : Admit(r)

\* Descriptors may be written in every cycle, whatever the scheduler runs.
GraphWritePort ==
  \/ UNCHANGED descriptor_mem
  \/ \E w \in GraphWrites :
       descriptor_mem' = [descriptor_mem EXCEPT ![w.index] = w.descriptor]

\* rcif_completion_writer: the slot a pop frees can be used on the next cycle.
Push == state = "FINISH" /\ PushReady
Pop(cpl_ready) == cpl_ready /\ cpl_fifo # <<>>
Retired == [id |-> active.id, status |-> issued.status, result |-> issued.operand0]

CompletionPort(cpl_ready) ==
  LET rest == IF Pop(cpl_ready) THEN Tail(cpl_fifo) ELSE cpl_fifo
  IN  /\ cpl_fifo' = IF Push THEN Append(rest, Retired) ELSE rest
      /\ delivered' = IF Pop(cpl_ready) THEN Append(delivered, Head(cpl_fifo))
                                        ELSE delivered

IssueEvent ==
  [id |-> active.id, opcode |-> Decoded.opcode, node |-> Decoded.node,
   phase |-> "issue", status |-> "OK", payload |-> {}]

FinishEvent(status, payload) ==
  [id |-> active.id, opcode |-> issued.opcode, node |-> issued.node,
   phase |-> "finish", status |-> status, payload |-> payload]

\* An event has room for the low bits of a result.  In a tensor event the
\* saturation flags take the place of the highest of them.
LowBits(w, result) == {b \in result : b < w}

Payload(rsp) ==
  IF state = "WAIT_TENSOR"
  THEN LowBits(PAYLOAD_W - LANES, rsp.result) \cup {PAYLOAD_W - LANES + l : l \in rsp.saturated}
  ELSE LowBits(PAYLOAD_W, rsp.result)

\* The event of this cycle, if it has one.
Events(rsp) ==
  {e \in {IssueEvent} : state = "SCAN" /\ CurrentReady}
    \cup {e \in {FinishEvent("OK", LowBits(PAYLOAD_W, issued.operand0))} :
            state = "EXEC_IMMEDIATE"}
    \cup {e \in {FinishEvent(rsp.status, Payload(rsp))} : Responding}

\* rcif_replay_trace: a clear wins over the event of the same cycle.
TracePort(trace_clear, rsp) ==
  \/ /\ trace_clear
     /\ trace' = <<>> /\ trace_overflow' = FALSE
  \/ /\ ~ trace_clear /\ Events(rsp) = {}
     /\ UNCHANGED <<trace, trace_overflow>>
  \/ /\ ~ trace_clear
     /\ \E e \in Events(rsp) :
          IF Len(trace) < TRACE_DEPTH
          THEN trace' = Append(trace, e) /\ UNCHANGED trace_overflow
          ELSE trace_overflow' = TRUE /\ UNCHANGED trace

Cycle(weight_write, cpl_ready, trace_clear, rsp) ==
  /\ Control(weight_write, rsp)
  /\ RequestPort
  /\ GraphWritePort
  /\ CompletionPort(cpl_ready)
  /\ TracePort(trace_clear, rsp)

-----------------------------------------------------------------------------
(* The specification *)

NoActive == [id |-> 0, base |-> 0, nodes |-> 0, priority |-> 0]
NoIssue == [node |-> 0, opcode |-> "NOP", operand0 |-> {}, status |-> "OK"]

Init ==
  /\ descriptor_mem \in Graphs
  /\ request = [s \in Slot |-> NoRequest] /\ age_counter = 0
  /\ state = "IDLE" /\ active = NoActive /\ scan_index = 0 /\ accumulated = {}
  /\ issued = NoIssue /\ completed = {} /\ engine = 0
  /\ latency = 0 /\ service = 0 /\ retire_recorded = FALSE
  /\ qos_last = [id |-> 0, latency |-> 0] /\ violation = FALSE
  /\ cpl_fifo = <<>> /\ trace = <<>> /\ trace_overflow = FALSE
  /\ submitted = 0 /\ delivered = <<>>

\* rst_ni: every register but the descriptor memory returns to its initial
\* value, and the host forgets what it had outstanding.
Reset ==
  /\ UNCHANGED descriptor_mem
  /\ request' = [s \in Slot |-> NoRequest] /\ age_counter' = 0
  /\ state' = "IDLE" /\ active' = NoActive /\ scan_index' = 0 /\ accumulated' = {}
  /\ issued' = NoIssue /\ completed' = {} /\ engine' = 0
  /\ latency' = 0 /\ service' = 0 /\ retire_recorded' = FALSE
  /\ qos_last' = [id |-> 0, latency |-> 0] /\ violation' = FALSE
  /\ cpl_fifo' = <<>> /\ trace' = <<>> /\ trace_overflow' = FALSE
  /\ submitted' = 0 /\ delivered' = <<>>

ClockEdge ==
  \E weight_write \in WeightWrite, cpl_ready \in CplReady,
     trace_clear \in TraceClear, rsp \in Responses :
    Cycle(weight_write, cpl_ready, trace_clear, rsp)

Next == ClockEdge \/ Reset

Spec == Init /\ [][Next]_vars

\* The clock keeps running; the host keeps taking completions and does not
\* write weights for ever.  Reset is the host's choice.
Draining == \E ww \in WeightWrite, tc \in TraceClear, rsp \in Responses : Cycle(ww, TRUE, tc, rsp)
NotWriting == \E cr \in CplReady, tc \in TraceClear, rsp \in Responses : Cycle(FALSE, cr, tc, rsp)

FairSpec == Spec /\ WF_vars(ClockEdge) /\ WF_vars(Draining) /\ WF_vars(NotWriting)

-----------------------------------------------------------------------------
(* Properties *)

QueueTypeOK ==
  /\ descriptor_mem \in [Index -> Descriptor]
  /\ request \in [Slot -> SlotEntry \cup {NoRequest}]
  /\ age_counter \in 0 .. AGE_MOD - 1
  /\ submitted \in 0 .. MaxRequests

ControlTypeOK ==
  /\ state \in State
  /\ active \in [id : Nat, base : Index, nodes : Nat, priority : Priority]
  /\ scan_index \in Nat
  /\ accumulated \in Word
  /\ issued \in [node : Node, opcode : Opcode, operand0 : Word, status : Status]
  /\ completed \in SUBSET Node
  /\ engine \in 0 .. EngineCycles

QosTypeOK ==
  /\ latency \in Counter /\ service \in Counter /\ retire_recorded \in BOOLEAN
  /\ qos_last \in [id : Nat, latency : Counter]
  /\ violation \in BOOLEAN

OutputTypeOK ==
  /\ cpl_fifo \in Seq(Completion) /\ Len(cpl_fifo) <= CPL_DEPTH
  /\ delivered \in Seq(Completion)
  /\ trace \in Seq(Event) /\ Len(trace) <= TRACE_DEPTH
  /\ trace_overflow \in BOOLEAN

\* Every register keeps its type, the FIFO and the trace their depth
\* (declarations of lines 79-144 and of the units).
TypeOK == QueueTypeOK /\ ControlTypeOK /\ QosTypeOK /\ OutputTypeOK

Serving == state # "IDLE"
InSlots == {request[s].id : s \in Pending}
InService == IF Serving THEN {active.id} ELSE {}
InFifo == {cpl_fifo[k].id : k \in DOMAIN cpl_fifo}
Taken == {delivered[k].id : k \in DOMAIN delivered}

\* Every request the scheduler accepted since reset is somewhere: in a slot,
\* in service, in the completion FIFO or with the host.  No interleaving of
\* admission, grant, retirement, backpressure and reset loses one.
NoRequestLost == 1 .. submitted \subseteq InSlots \cup InService \cup InFifo \cup Taken

\* ... and in one place only: nothing is served or answered twice, and nothing
\* is answered that was not submitted since the last reset.
NoRequestTwice ==
  /\ InSlots \cup InService \cup InFifo \cup Taken \subseteq 1 .. submitted
  /\ InSlots \cap (InService \cup InFifo \cup Taken) = {}
  /\ InService \cap (InFifo \cup Taken) = {}
  /\ InFifo \cap Taken = {}
  /\ \A s, t \in Pending : request[s].id = request[t].id => s = t
  /\ \A k, l \in DOMAIN cpl_fifo : cpl_fifo[k].id = cpl_fifo[l].id => k = l
  /\ \A k, l \in DOMAIN delivered : delivered[k].id = delivered[l].id => k = l

\* How often the admission age had wrapped when a request was admitted.
Turn(id) == (id - 1) \div AGE_MOD

\* The granted request has the highest pending priority, and of that priority
\* it is the oldest: "Equal priorities retain submission order"
\* (token_graph_descriptor.md).  The arbiter sees only ages, which start again
\* at 0 after AGE_MOD admissions; between requests that a wrap separates it may
\* not tell the older one.
OrderKept ==
  \A s \in Grants : \A t \in Pending \ {s} :
    \/ request[t].priority < request[s].priority
    \/ /\ request[t].priority = request[s].priority
       /\ \/ request[s].id < request[t].id
          \/ Turn(request[s].id) # Turn(request[t].id)

Graph == {descriptor_mem[(active.base + i) % MAX_DESCRIPTORS] : i \in 0 .. active.nodes - 1}
FinishedBefore(k) ==
  {trace[j].node : j \in {i \in 1 .. k - 1 : /\ trace[i].id = active.id
                                             /\ trace[i].phase = "finish"
                                             /\ trace[i].opcode # "COMPLETE"
                                             /\ trace[i].status \in Success}}

\* As the replay trace tells it, no node of the graph in service was issued
\* before the nodes it depends on finished, for this request, successfully.
\* Graphs of an earlier request leave nothing behind in the scoreboard.
DependenciesRespected ==
  Serving =>
    \A k \in DOMAIN trace :
      trace[k].id = active.id /\ trace[k].phase = "issue" =>
        \E d \in Graph : /\ d.node = trace[k].node /\ d.opcode = trace[k].opcode
                        /\ d.deps \subseteq FinishedBefore(k)

\* A node finishes at most once per request, even if its id occurs twice in
\* the graph or the graph is rewritten while it runs.
NodeRunsOnce ==
  \A j, k \in DOMAIN trace :
    /\ trace[j].id = trace[k].id /\ trace[j].node = trace[k].node
    /\ trace[j].phase = "finish" /\ trace[k].phase = "finish"
    /\ trace[j].opcode # "COMPLETE" /\ trace[k].opcode # "COMPLETE"
    => j = k

\* GRAPH_DEADLOCK is reported only when no node of the graph can be issued,
\* although the scan looks at one node per cycle (graphs not rewritten).
DeadlockReportSound ==
  [][state = "SCAN" /\ state' = "FINISH" /\ issued'.status = "GRAPH_DEADLOCK" =>
       \A d \in Graph : d.node \in completed \/ ~ DependenciesReady(d)]_vars

\* "The bounded 64-entry replay RAM records separate issue and finish events"
\* (token_graph_descriptor.md): they alternate, each pair of one node.
TraceAlternates ==
  \A k \in DOMAIN trace :
    IF k % 2 = 1 THEN trace[k].phase = "issue"
    ELSE /\ trace[k].phase = "finish"
         /\ trace[k].id = trace[k - 1].id /\ trace[k].node = trace[k - 1].node

\* The bits of a result that its finish event shows: the payload is truncated
\* (token_graph_descriptor.md), and the one of a tensor node gives way to flags.
Shown(e) ==
  {b \in 0 .. DATA_W - 1 : b < IF e.opcode = "TENSOR" THEN PAYLOAD_W - LANES ELSE PAYLOAD_W}

FinishesOf(i) == {j \in DOMAIN trace : trace[j].id = i /\ trace[j].phase = "finish"}

\* The replay trace explains every successful completion as far as it shows
\* results: a bit that all finish events of the request show is set in its result
\* iff it is set in an odd number of their payloads.  Nothing of an earlier request
\* stays in the accumulator, and the trace is a sequence of whole node executions.
CompletionExplained ==
  /\ TraceAlternates
  /\ \A k \in DOMAIN cpl_fifo : cpl_fifo[k].status = "OK" =>
      LET events == FinishesOf(cpl_fifo[k].id)
      IN  \A b \in 0 .. DATA_W - 1 : (\A j \in events : b \in Shown(trace[j])) =>
            (b \in cpl_fifo[k].result <=>
               Cardinality({j \in events : b \in trace[j].payload}) % 2 = 1)

\* Every accepted request is answered, unless a reset takes it away, however
\* its graph is wired: a blocked graph is reported, not waited for.
EveryRequestAnswered ==
  \A i \in 1 .. MaxRequests : (submitted >= i) ~> (i \in Taken \/ submitted < i)

=============================================================================

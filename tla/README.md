# Verification of RecursiveCompute (RCIF)

RecursiveCompute is an inference ASIC for token graphs: SystemVerilog RTL on one
clock with an asynchronous reset, a host runtime and a firmware model in Python,
boot firmware in C, a Python FPGA prototype, an event simulator and golden models.
This directory holds TLA+ modules of its control logic, the TLC configurations that
check them on small instances, and TLAPS proofs of theorems about them. Every
definition is translated from the code; `PROJECT.json` maps it to source lines.

## 1. Inventory

### Components, their state and their operations

| Component | State | Operations | What makes it correct | Here |
| --- | --- | --- | --- | --- |
| Token scheduler (`rtl/scheduler/`) | request slots with age and wait counter, active request, FSM, scoreboard, accumulator, QoS counters, completion FIFO, replay trace, descriptor SRAM | admit, grant, load, scan, issue, execute, wait for an engine, retire, pop, clear trace, write descriptors, reset | no request lost or answered twice; dependencies; order; result explained by the trace; deadlock reports and QoS flags right; every request answered | modelled, safety proved but for one QoS flag |
| Chip top and scheduler stub (`rtl/top/`, `rcif_scheduler_stub.sv`) | command queue, one-command FSM, counters, fault unit | accept, refuse, translate, copy, attend, read faults and counters, respond, reset | commands answered once each, in order, as if each were done at one blow; counters and faults accounted for | modelled |
| KV MMU (`rtl/kv/`) | request FSM and response, TLB with its victim, page table, walker's register; fault queue | map, translate (hit or walk), refuse, take the response, reset | TLB never stale; one place per page; every answer is the current map's; always an answer | modelled, proved |
| DMA (`rtl/dma/`) | descriptor queue, list, page memory with parity, gather/scatter FSM, checksum | validate, check ECC, copy word by word, program the list, corrupt, reset | the copy is the descriptor's and all or nothing | modelled |
| Attention engine (`rtl/attention/`) | latched request, token position, page list, key, value and query memories, a register per unit, running softmax | latch, issue or skip a token, read, multiply, add, drain, reduce, respond, write the memories, reset | the answer is the reference attention of exactly the kept tokens through their pages and their KV head; always an answer | modelled; one bug found |
| Tensor array (`rtl/tensor/`) | weight rows, latched request, row index, result bank, saturation bits, norm register | write a row, accept or refuse, run a row, norm, respond, reset | each answer is the bit-exact reference's for this request and these rows; always an answer | modelled, proved; one bug found |
| Ring collective cluster (`rtl/collectives/`) | registers of each node, credited link FIFOs, command port | command, start, receive/reduce, broadcast, send, link push and pop, reset | all-reduce of the command's own values; no protocol error under any stall; completes | modelled, proved |
| Collective engine (`rcif_collective_engine.sv`, `rcif_topology_table.sv`) | topology table, schedule position, a word per node, retries, injected fault, response | write the table, accept or refuse, ring, tree and all-to-all steps, retry, fail, complete, arm and clear a fault, take the response, reset | whole results or nothing; refused exactly when the table cannot serve the command; transient faults within the retry limit survived; always an answer | modelled, proved in part |
| Circular FIFOs (five units) | memory, two pointers, count | push, pop, overwrite, flush, reset | a bounded queue | modelled, proved |
| Host runtime and firmware model (`runtime/driver/`) | device status and rings, pending commands, KV pages, security state, counters; driver ids and completions; firmware page allocator | submit, poll (process, service faults, drain), take, boot, warm and power-on reset | each request in one place and answered right; faults find their commands; only verified firmware runs | modelled, safety proved |
| FPGA prototype (`fpga/`) | pages in local DRAM or at the host, fault and migration counters, a graph under execution, records, the trace report | map, migrate and evict, execute a node, submit, collect a token | residency; migrations are exchanges; answers mean their graphs; predicted cycles are the measured; each page cold once | Python modelled, proved in part; `fpga/rtl` not |
| Golden models (`dv/golden/`) | KV cache pages; attention stream | append, read, decode; a token of a stream; a projection, a norm | reads give what was appended; a context is a mean of kept values; rounding and saturation right | integer models modelled, proved in part |
| Phase 9 invariants (`dv/phase9/`) | the monitor's tables; a trace; the explored queue | every call of the monitor, an operation of a trace, a cycle of the queue | the monitor raises exactly when the calls so far break its contract; a head held back leaves | modelled, proved in part |
| Event simulator (`sim/event_model/`) | times and bytes of a request, results | read a trace, a token, finish a request, summarise | parts add up; means lie between the extremes; percentiles are order statistics | core modelled |
| Boot firmware in C, packages, tests, scripts | - | - | - | not modelled (section 8) |

### How they interact

The host writes descriptors and submits a *graph request*; the scheduler grants one
request at a time, scans its nodes, and hands DMA, attention and tensor nodes to an
engine over a valid/ready handshake, one outstanding at a time. Completions go
through a FIFO that the host drains. In the control-plane model the driver puts
commands into a ring of the device; `poll` makes the device process them, the
firmware serve KV faults (map a page, replay the command) and the driver drain the
completion ring. The collective cluster and the collective engine each stand alone
behind a command port: the first moves flits between nodes, the second walks a table
that software programs. The chip top puts the command queue in front of a stub
scheduler that uses the KV MMU (whose misses go to the fault queue), the DMA engine and
the dot-product array in turn. The attention engine and the tensor array have ports of
their own; the repository compares both with the golden models. The FPGA prototype is a
second implementation of the graph device in Python, over a memory that migrates
pages. The phase 9 monitor judges calls that tests make from the outside.

### Where it is hard

- *Concurrency on one clock edge*: a request admitted while another is granted and
  aged; a completion pushed while the host pops; a descriptor written while the scan
  reads it; links that stall independently in a ring.
- *State that outlives its use*: scoreboard, accumulator and trace between
  requests; results and local values between collectives that share an id;
  `_pending` across a second boot; the memory of a FIFO after a flush; keys and values
  across a reset; saturation bits and the norm's register between requests.
- *Pipelines*: a score and its value travel one register apart, while the token loop is
  already done and the host rewrites pages.
- *Widths and signs*: a product cut to the width of its widest port, squares summed into an
  unsigned word, rounding of negative products, wrapping ages.
- *Limits*: full completion FIFO, full fault ring, full completion ring while replays
  are served, saturating latency counters, wrapping ages and pointers, hop limits.
- *Failure*: engine errors, invalid graphs, blocked graphs, refused images, resets
  in the middle of anything.
- *Progress*: a scan that looks at one node per cycle must find every ready node and
  report a blocked graph; a ring whose nodes refuse to receive while they send.

`PROJECT.json` lists each hazard at its line with the properties aimed at it.

## 2. Modules

| Module | What it is |
| --- | --- |
| `TokenScheduler` | the scheduler and the units it instantiates; properties |
| `TokenSchedulerQos` | the same with two history variables that measure service, for the QoS monitor |
| `MCTokenScheduler`, `MCTokenSchedulerQos` | graphs, requests and host behaviours for TLC |
| `TokenScheduler_proofs` | every property of the `sched` runs but liveness, and the latency bound of the QoS monitor |
| `Dma` | request decoding, descriptor FIFO, gather/scatter machine |
| `ChipService` | what the chip promises its host: commands carried out one at a time, each at one blow |
| `ChipTop` | command queue, stub FSM, counters and fault unit over `Dma`, the MMU's map and the dot product; implements `ChipService` |
| `MCChipTop`, `ChipTop_proofs` | three hosts for TLC; the refinement of `ChipService` |
| `BoundedQueue` | what a FIFO promises, with three policies for a push at a full queue |
| `CircularFifo` | memory, pointers and count |
| `PageMap` | what the KV MMU promises: a bounded map from pages to frames, one request at a time |
| `KvMmu` | request FSM, TLB, page table and walker |
| `AttentionEngine` | control, mask, page reader, dot product, online softmax, value reduction |
| `TensorArray` | rows, decoder, MAC tile, scaling, activation, bank, norm unit |
| `Datapath_proofs` | the buffer refines `BoundedQueue`, the KV MMU `PageMap`; the tensor array and the attention engine answer what the reference computes |
| `AllReduce` | what a collective promises: each command answered once by each node with its sum |
| `RingCluster`, `RingCluster_proofs` | nodes, links and command port; invariants and the refinement of `AllReduce` |
| `MCDatapath` | the five units above side by side for TLC |
| `TopologyTable` | the table of the collective engine, and when a ring, a tree or routes connect a group |
| `CollectiveEngine` | commands, schedules, faults and response over that table; properties |
| `MCCollectiveEngine`, `CollectiveEngine_proofs` | tables, commands and fault edges; type correctness, whole results or nothing, the verdicts |
| `GraphExecution` | the graph loop of the control-plane device, and what a graph means in any order |
| `HostRuntime` | driver, device and firmware model |
| `MCHostRuntime`, `HostRuntime_proofs` | requests and images, all small graphs against their meaning; requests and faults accounted for, graphs and answers, verified firmware |
| `GoldenArithmetic` | the integer arithmetic of `dv/golden`: streaming attention, quantised rows, rounding, integer norm |
| `FpgaMemory` | pages in two tiers and their migration |
| `FpgaPrototype` | the prototype's graph execution, cycle accounting and trace harness over them |
| `MCFpgaPrototype`, `FpgaPrototype_proofs` | graphs and contents; residency, faults, migrations, the traced graph, answers |
| `KvCache` | the reference KV cache and its reads |
| `GoldenReference` | attention token by token, projections and norms of single vectors |
| `ChipMonitor` | the phase 9 monitor, its trace runner and the explored queue |
| `EventModel` | the event simulator in exact numbers |
| `MCReferenceModels`, `ReferenceModels_proofs` | the Python models side by side; the monitor, the cache, rounding, the event simulator's sums |

### TokenScheduler

A step is a rising clock edge (`Cycle`) or a reset. `Cycle` is the conjunction of the
always_ff block's parts: `Control` (one disjunct per state of `state_q`),
`RequestPort` (aging, admission, release of the granted slot), `GraphWritePort`,
`CompletionPort` (push of `FINISH` and pop of the host) and `TracePort`. The host
chooses its inputs on every edge, the engines answer after 0 to `EngineCycles`
cycles with any status they have. A data word is the set of its one-bits, so XOR is
symmetric difference and the completed mask the set of completed nodes. An event of the
replay trace does not hold a whole result: it has room for `PAYLOAD_W` (56) of its `DATA_W` (64) bits, and in
the event of a tensor node the `LANES` (4) highest of those are the saturation flags (`Payload`). `submitted`
and `delivered` are history: the requests accepted since reset and the completions
the host took. Request ids are submission numbers, which is how a host tells its
requests apart; the RTL only carries the id.

### RingCluster

A step is an edge with any set of stalled links (`Cycle`), an accepted command
(`Accept`, which initialises every node and starts node 0), or a reset. Data words are bags of
the values added (functions to numbers), so a value counted twice or missing cannot
be hidden by arithmetic; addition modulo 2^64 is a homomorphic image of it. Headers
keep collective id, destination, phase and hop limit, and the visited set beside them:
what a receiver compares. Version, opcode, partition and CRC are the same, and right, in every flit a
node sends; source, chunk, sequence and retry are read by nobody. Links are FIFOs of `CREDIT_DEPTH` (their circular buffer is `CircularFifo`).

### TopologyTable and CollectiveEngine

A step is an edge or a reset: `Accept` (a command), `Operate` (one edge of the state
machine, a disjunct per state), `Rest` (IDLE: the response is taken, an entry of the
table is written). Software arms and clears the fault in any of them, and decides
between programs (`Reprogram`). As in `RingCluster` a word is the bag of the values
added into it; a payload of the all-to-all is its pair. `fail_operation`,
`complete_operation` and `retry_or_fail` are `Fail`, `Complete` and `RetryOrFail`. Two
orders are kept because the code depends on them: the hop checks (group and partition,
link, fault; the tree looks at the link first), and the clearing of a fault by a retry,
which is assigned after software's own arming in the same cycle and wins. `command` in the
engine's registers is what the code latches from the command port. Registers that
are dead while the engine is idle are reset in the model, so that states that differ in
nothing but them are one; the fault edge of the last response is kept, because a command
with an unknown opcode shows it again. Software writes one entry per cycle, and none
while a collective runs: `collective_protocol.md` requires that, and the
RTL does not enforce it.

`issued` is history: the command given last, how many faults were armed since, whether one
was persistent, whether the table was written since.

### KvMmu

A step is an edge on which something changes, or a reset; the other edges stutter. `Request` is the IDLE
state, one action per way the code can answer (a payload with reserved bits is refused
before the opcode is looked at); `FinishWalk` is WAIT_WALK, `TakeResponse` RESPOND. A map writes the page
table and the TLB on the same edge, and neither if the table has no room. Page table
and TLB are both a *store*, an array of slots with one rule for where a page is found
and where a mapping goes (`Holding`, `Place`), since the two units repeat the code;
only the TLB has a victim. A *frame* is physical page, tier and format, which the code
copies together. The fill port of the TLB keeps its multiplexer (`FillEntry`): it
looks at the walker's register, not at the state of the MMU, so that coherence
depends on that register being empty in IDLE (`WalkerInStep`). An unknown opcode is
answered with the opcode in the bits of the page field, `OpcodePage`; the stub
scheduler in front does not send one, the port accepts it. Misses are pushed into the fault queue by that
stub, not here.

A step on which the walker's register is freed also clears its dead fields, as taking a
response clears the response: nothing reads either before it is written again.

### CircularFifo

One module for five units that repeat the same buffer. `policy` never changes and
says what a full buffer does with a push: refuse it (completion writer, credit link),
take it together with a pop (command queue, DMA descriptors) or give up the oldest
entry (KV fault unit). `mem` is not reset, as in the RTL.

### Dma, ChipTop and ChipService

A step is an edge on which something changes, or a reset. A word of the page memory is
named by the page whose seed it copies, `sound` is whether its stored parity fits. The
gather/scatter machine goes slot by slot through VALIDATE and CHECK_ECC before COPY
writes the first word; `Collect` is the engine's WAIT_GATHER. In `ChipTop` the command
queue and the fault unit are sequences, which `CircularFifo` implements, and the MMU is
the map that `KvMmu` implements, answering some edges after the request. What an answer
to a command with flags carries is left open, since the stub decodes such a command as
far as its result before it replaces the status. The two numbers of an attention payload
stand for its vectors. `ChipService` carries a command out in one step when it is
answered; a copy there is an assignment to a set of words, with the list slots and the
parities examined beforehand. What a command does is a function of the memories it finds
(`KvOutcome`, `DmaOutcome`). `at` is history: the command an engine has and the memories when it
took it.

### AttentionEngine

A step is a clock edge (`AttnEdge`) or a reset. The units are in a line, each with a
register for its answer (`reader`, `dot`, `result`, `reduce`; `<<>>` while not valid), and
`Units` gives all of them from the registers before the edge, so that the value that
belongs to a score (`value_pipe`) is the one latched beside it. The three write ports of
the memories are open on every edge, and keys and values survive a reset. A weight of the
softmax is a power of two, so a product shifted back is a shift (`Faded`). `KvHeadRegister`
keeps the width of the product under the size cast (`ProductWidth`), as SystemVerilog
defines it. `asked`, `read` and `steady` are history: the request as offered, the words
read for it, whether pages, keys or values were written since it was accepted.

### TensorArray

A step is an edge on which something changes, or a reset. One row per edge goes through
`Decoded`, `MacTile`, `ScaleApply`, `Saturate` and `Activate` into the bank. `SumSquare`
extends its operands with zeros, as an unsigned sum does; `OUT_W` is a parameter, so that
the numbers this gives fit the model checker (the RTL has 16, the run 12). A request the
array cannot run (a row never written, a reserved format or mode) goes to RESPOND at once
with an error.

### MCDatapath and MCReferenceModels

Units that share no state are checked in one run: `subject` names the unit that moves
(`Only`), and the others stay in their initial states. A property of one unit is checked on its own
behaviours, and fairness is stated per unit.

### FpgaMemory and FpgaPrototype

The prototype is one thread: the host acts on the memory between graphs and a graph
executes node by node (`GraphStep`), fetching a page on demand. `memory` keeps the
dictionary of pages with tier and physical page; eviction takes the local page with the lowest number.
Cycles, predicted cycles, faults and migrations are counted as the code does. The
harness' report counts cold and warm tokens. `operand0` is a set of bits, which for a DMA
node is the number of a page.

### KvCache, GoldenReference, ChipMonitor, EventModel

`KvCache` keeps pages as the code does and beside them `appended`, all tokens in order.
`ChipMonitor` has `monitor` as the code assigns it and `history`, the calls that
changed it, from which `Contract` says without any table whether a call is allowed.
`run_trace` is executed call by call. `EventModel` counts hit rates in tenths and means in
parts of a common multiple, so that the sums of the simulator are exact integers; it
covers `simulate_request`, `simulate_trace` and `percentile`.

### GraphExecution and HostRuntime

The runtime is single-threaded, so the host acts only when no call is in progress
(`phase = "idle"`). `Poll` walks `process`, `service` and `drain`, one step per loop
iteration, because the conditions those loops look at (and do not look at) matter:
`enabled` is checked once before the loop. Handlers are operators from device to
device (`Execute`, `Translate`, `Complete`, `Replay`), composed as the methods call
each other. `sent`, `taken`, `lost` and `device.dropped` are history. Rings keep no
head and tail because nothing reads them; an image is the verdict on its digest and
signature together with its version; counters stay below saturation. The retry limit
and the drop of a fault retried three times are modelled although
`FaultsAreParked` shows that the driver never gets there: a fault is mapped before
it is replayed.

`GraphExecution` translates `_execute_graph` round by round. Its reference,
`MayAnswer`, says without an order which answers a graph allows: a least fixed point
of executable nodes, and a COMPLETE that may have run after any self-supporting set
of NOPs that covers its dependencies. The device reports `GRAPH_INVALID` for a graph
whose nodes all ran without a COMPLETE, where the RTL scheduler reports
`GRAPH_DEADLOCK`; the two models keep that difference.

## 3. Runs

`tlc -workers 2 -config <run>.cfg <module>`; each takes between seconds and about two
minutes. Module and properties of each run are also in `PROJECT.json`.

| Run | Checks | Instance | States | Shows |
| --- | --- | --- | --- | --- |
| `sched` | `DependenciesRespected`, `CompletionExplained`, `NoRequestLost`, `NoRequestTwice`, `OrderKept`, `DeadlockReportSound` | ten graphs of up to three nodes, four requests, each of either priority, an age that wraps after three, two slots, a completion FIFO of one, words of 4 bits of which an event holds 3 (2 and a flag, of a tensor node), trace of 24, resets | 377,496 | whatever the engines answer and however the host stalls, nodes run in dependency order, deadlock reports are true, results are what the trace says in the bits it shows, each request is in exactly one place and granted by priority, then, within a turn of the age, by submission |
| `sched_rewrite` | `NodeRunsOnce`, `EveryRequestAnswered` | descriptors rewritten while they run, trace clears, weight writes; fairness | 28,296 | no node finishes twice; every request is answered |
| `sched_qos` | `ServiceOverrunFlagged`, `NoFalseViolation` | allocation 8, graphs of 6-7 and 10-12 cycles, three requests in two slots | 439,273 | the monitor fires for graphs over their allocation, and for nothing while graphs leave two cycles of it |
| `collective` | `CommitsWholeOrNothing`, `VerdictsJustified`, `EveryCommandAnswered` | three nodes; every ring and tree function up to renaming, direct and forwarded routes, cut links, an inactive node, two partitions, no routes; ten commands; two faults per operation; repairs and resets | 367,315 | section 5 |
| `host` | `AnswersRight`, `EachRequestInOnePlace`, `FaultsAreParked`, `OnlyVerifiedFirmwareRuns`, `RequestsAnswered` | rings of four, five requests, fault budget 3, two boots, resets; fairness | 1,081,962 | section 5 |
| `top` | `SerialService`, `EveryCommandRetires` | three hosts, four commands between resets, two pages, queue of two, two fault slots, one KV entry | 79,651 | the chip is a serial service that answers every command |
| `datapath` | `QueueSpec`, `TlbCoherent`, `PageMapSpec`, `AttentionExact`, `TensorExact`, `NoProtocolError`, `AllReduceSafety`, `AllReduceLive`, `EveryUnitAnswers` | buffer of 3; 4 pages, table of 3, TLB of 2; attention over 2 pages of 2 tokens, 4 query and 2 KV heads, 9 requests; array of 2 rows and 4 kinds of row; ring of 4 nodes, credits 2; resets | 31,918 | each unit gives what its reference or abstract specification gives, and answers |
| `models` | `ResidencySound`, `FaultsAccountedFor`, `AnswersMeanGraph`, `TraceColdOnce`, `MigrationIsExchange`, `GraphsEnd`, `CacheReadsAppended`, `MonitorExact`, `ArithmeticSound`, `TotalsAddUp`, `BackpressureLetsThrough` | prototype: 11 graphs, 3 pages over a local memory of 2; cache: 4 tokens in pages of 2; monitor: 2 requests, 2 tenants, 4 calls, traces of 2 operations; streams of 4 tokens; traces of 3 requests | 252,908 | section 5 |

Four runs must be refuted by TLC, each a statement of the repository the code does not
keep (section 7): `gqa`, `norm`, `sched_qos_backpressure`, `host_fatal`.

Each property of a passing run has a *mutant*: a plausible bug in one mapped
definition (kept next to it, e.g. `LoadKeepsScoreboard` beside `Load`) under which
TLC finds that property violated.

Type invariants, and invariants that only serve proofs (`WalkerInStep`,
`OnePlacePerPage`, `PointersAgree`, `RingInvariant`), are proved and not repeated in
the runs.

### Bounds and why they are enough

- *Scheduler*: `MAX_NODES` and `MAX_DESCRIPTORS` 3 allow chains, cycles, a repeated
  id and a ready node behind the scan. Two slots are the least with a choice; a
  completion FIFO of one is full after one answer, so that `FINISH` waits. `MaxRequests`
  bounds admissions since a reset. Counters have width 0 where no property reads them
  and `COUNTER_MAX` is above every latency where one does. `EngineCycles` 1 lets an
  engine answer at once or later. `TRACE_DEPTH` 24 holds the events of four requests of
  three nodes, and 4 overflows in `sched_rewrite`. `AGE_MOD` stands for 2^16; in `sched` it is 3, for four
  requests: the first is granted at once, the next two wait with ages 1 and 2, and the last waits beside
  either of them with age 0. In the QoS runs no age wraps.
  `DATA_W` 4, `PAYLOAD_W` 3 and `LANES` 1 in `sched` make bits of each kind: shown by every event, shown but
  by a tensor event, and shown by none; the engines' word and the operands of the NOPs have bits of each. The other runs
  read no payload and have no lanes. `GraphRequests` admits two
  requests, of priorities 1 and 3, in every order, and offers two that are refused.
- *Chip top*: four commands between two resets fill the queue of two, the stub and the
  completion port. One MMU entry makes the second page refused, two fault slots overflow
  with the third miss, and two pages let a copy lie within its own source.
- *Buffer*: depth 3 is not a power of two; the proofs cover every depth.
- *KV MMU*: a table of three for four pages fills up and has to refuse; a TLB of two
  evicts, wraps its victim and refills while the table still holds the page; two frames let a page be remapped. No
  counter grows, so behaviours have no bound. The proofs cover every size.
- *Attention engine*: two pages of two tokens let a context end inside a page and a
  request cross one. Every word of the memory is different and the scores rise and fall,
  so that a word read from another place, or a value beside another score, shows in the
  answer. Four query heads over two KV heads have groups, and are few enough for the product
  of the head computation to fit its width; `gqa` has the engine's own sizes (8, 4, 8 pages
  of 4). One word of each memory is rewritten at any time.
- *Tensor array*: two rows are the least in which a bit or a result of one can be taken
  for the other's. Rows of both formats saturate each way, round negative ties, and are
  reserved. `OUT_W` 12, in place of 16, keeps the square of a zero-extended negative number within
  the integers of the model checker.
- *Ring*: four nodes have a first, a last and two inner nodes; two credits let a link hold
  more than one flit. Two commands share an id. The proofs cover 1 to 8 nodes, the
  largest configuration, and every number of credits.
- *Collective engine*: with three nodes a function on them can be a cycle, a chain, two
  chains, a fixed point beside a cycle, or a path into a cycle. `MaxArms` 2 is one more
  fault than the retry limits 0 and 1 allow, so both sides of the limit are met. The
  proofs cover every number of nodes.
- *Host*: rings of four entries are the smallest `Ring` allows. Five requests are the
  fewest with which a poll overflows the completion ring (three parked misses and
  two graphs) or the fault ring (five misses). Two boots let a second image meet a
  running, failed or reset device. Queue size 3 is refused by `Ring`.
- *FPGA prototype*: three pages over a local memory of two make every fetch of a third
  evict one. `MaxAllocations` bounds the pages mapped, `MaxRequests` the graphs submitted.
  The proofs cover every number of pages and every capacity.
- *KV cache and arithmetic*: four tokens in pages of two fill two pages; streams of four
  tokens have every order of rising and falling scores. Products and norms are
  lists chosen at the edges: ties of both signs, saturation of both signs, zero.
- *Monitor*: two requests, two tenants and four calls allow a call too early, twice, too
  late and by the wrong tenant; the proof covers every number of calls.
- *Event model*: three requests have distinct percentiles. `SCALE` 12 is divided by every
  output length, so that means are exact.

### Fairness and why the code justifies it

- *Scheduler*: the clock keeps running (`WF(ClockEdge)`). The host keeps taking
  completions (`WF(Draining)`) and does not write weights for ever
  (`WF(NotWriting)`); both are the host's side of a valid/ready handshake, and neither is assumed
  in the safety runs. Engines answer within `EngineCycles`, as their FSMs do.
- *Chip top*: the clock runs, the MMU answers (checked of `KvMmu`), and the host takes an
  answer some edge after it is shown (`WF(ChipWorks)`). That it sends anything is not assumed.
- *KV MMU*: the clock runs, so a walk ends, and the client takes the response: the stub
  scheduler is ready for it in every cycle it waits (`kv_rsp_ready`).
- *Attention engine, tensor array*: the clock runs (`WF(AttnEdge)`, `WF(Compute)`).
  Nothing is assumed of their clients.
- *Ring*: each link is unstalled again and again (`WF(Unstalled(n))`); stalls are a
  test input of the links, and a link stalled for ever stops any ring.
- *Collective engine*: the clock runs, so an operation under way takes its next edge
  (`WF(~ Idle /\ Operate)`), whatever software arms or clears on it. Nothing is assumed of
  software or of the consumer.
- *Host*: a call that was begun returns, and the host polls with
  `service_firmware=True` again and again, as `wait` does. That is strong fairness of
  `Poll(TRUE)`, since other calls may come between.
- *Prototype*: a graph is executed by the call that submitted it (`WF(GraphStep)`).
  *Explored queue*: its loop goes on to the next cycle.

The runs check deadlock, because a clock edge or a poll is always possible. The exception is
`models` (`CHECK_DEADLOCK FALSE`): the models of calls have bounds on the tokens,
calls and requests, and end there.

## 4. What the scheduler runs say

`DependenciesRespected` reads only the trace and the descriptors, not the scoreboard
it is about: a node was issued only after finish events of all it depends on, of the
same request. `CompletionExplained` recomputes every result from the trace, whose issue
and finish events alternate, in the bits that all finish events of the request show. Of the others, the
eight highest and for a graph with a tensor node four more, the RTL's trace says nothing. `DeadlockReportSound` compares a one-node-per-cycle scan with
the whole graph. `NoFalseViolation` is the claim behind `QOS_MAX_LATENCY_CYCLES`: a priority-3 request
waits at most (slots + 1) allocations, whatever the schedule, provided the host takes completions
and every graph leaves two cycles of its allocation unused. Those two are the handover, `FINISH` and
`IDLE`: a waiting request ages in them, and the bound has no other room for them. With graphs that
take exactly their allocation the bound can be missed (allocation 7, four requests of highest
priority: the last waits 22 cycles, the bound is 21), which `scheduler_vplan.md` does not say.

## 5. What the other runs say

**Chip top.** `SerialService`: the command queue, the state machine, the MMU's walk and the
copy word by word do not show. A host sees commands carried out one at a time, in its own
order, each at one blow, with the counters and the fault queue as they would be then; a list or
page with bad parity is found before the first word is written. `EveryCommandRetires`: every
accepted command is answered, unless a reset ends it.

**Data path.** `AttentionExact`: an answer is the reference attention of exactly the
words that were read for it, so nothing of an earlier request is in the registers and
nothing of this one is still in the line when it is answered; and unless the memories were written
meanwhile those words are the kept tokens, in order, through the page list and of the right KV head.
`TensorExact`: an answer is the reference's, bit for bit, for this request and the rows as they are,
with each saturation bit its row's own, whatever was asked before; with the norm it says
so of vectors without a negative value only, because the others are wrong (`norm`).
`QueueSpec`, `PageMapSpec` and `AllReduceSafety` are the refinements that section 6 proves,
`AllReduceLive` and `EveryUnitAnswers` that each unit ends what it began.

**Collective engine.** The engine has no global view of the table: it checks hop by hop,
stores results in the response while it runs, and a tree schedule does not look for
cycles. `TopologyTable` says without any order when a ring, a tree or a set of routes
connects a group. `VerdictsJustified` compares the two: a command completes only if the
table connects its group, is refused only if it does not, and fails for a fault only if
there were more faults than retries or one that stays. `CommitsWholeOrNothing` is about the values: all
participants get the sum of all (or all
pairs), each counted once, nobody else gets anything, and nothing is left of an operation
that failed half-way. `EveryCommandAnswered` excludes walks without an end on cyclic tables (the hop
counter, the visited sets and the candidate search each exclude one kind).

**Host.** A request accepted by a ring is always in exactly one place
(`EachRequestInOnePlace`), including parked in `_pending`, and the counters account for every
one; a parked command and its fault are never apart
(`FaultsAreParked`), so each replay finds its command with the retry count of its
fault. Answers are right for their own request (`AnswersRight`): a graph's answer is
one its nodes allow, and two translations agree exactly when their pages do. No sequence of boots with
good, older and forged images and of resets leaves an enabled device whose firmware is
not verified and newest (`OnlyVerifiedFirmwareRuns`). A second boot without a reset
keeps `_pending`: those commands are never replayed nor removed; the model counts them as lost
with the rings, and the dictionary entry stays until a reset.

The run also evaluates `GraphsAnsweredAsMeant`: for every graph of up to three nodes
with every opcode kind, id and dependency mask over two ids, the loop of the device
gives an answer the order-free meaning allows, and `RequestsMeant`, the same of the requests of
the run, which section 6 proves of every graph.

**Prototype.** `ResidencySound` and `MigrationIsExchange` are about the memory: local pages fit and
have physical pages of their own, and a migration brings in the page asked for, at the cost
of at most one other and of nobody's content. `FaultsAccountedFor` ties the telemetry, the memory's
counts and the records to each other, `AnswersMeanGraph` the answers to an order-free meaning of the graph
over the mapped pages. `TraceColdOnce`: the second and later tokens of a trace are warm,
whatever was mapped, remapped or sent to the host before. `GraphsEnd`: a graph is answered.

**Reference models.** `CacheReadsAppended`: every way to read gives the tokens that were
appended, in that order. `MonitorExact`: the monitor, which looks at its tables, raises exactly when
the history of calls breaks the contract, and a trace fails at the first such operation.
`BackpressureLetsThrough`: a head held back by legal backpressure leaves, and a full queue does not stay full.
`ArithmeticSound`: attention by rescaling a running sum gives a mean of the kept values that
knowing the largest score beforehand would give; projections are decoded, rounded and
saturated as documented. `TotalsAddUp`: the event simulator's times and bytes are the sums of
their parts, more context or output is never cheaper, its percentiles are order statistics, and it never
reports more tokens per second than tokens without context would allow.

## 6. Proofs

`tlapm <module>_proofs.tla`. The theorems hold for every value of the constants
that satisfies the named assumptions of the modules (`ParameterAssumption` and `HostAssumption`;
`RingAssumption`; `TopologyAssumption` and `EngineAssumption`; `KvAssumption`; `FifoAssumption`,
`ArrayAssumption` and `PortAssumption`, `AttentionAssumption` and `AttentionPorts`;
`MemoryAssumption` and `PrototypeAssumption`; `CacheSizes`, `MonitorAssumption` and `EventAssumption`;
`GoldenAssumption`; `DmaAssumption` and `ChipAssumption`: sizes are positive, commands have the opcodes of the package and numbers
for payloads, traces the ranges of their schema, streams the lengths and widths the golden functions
check or unpack), which TLC evaluates on the instances.

- **Scheduler.** `TypeCorrect`: `TypeOK` is inductive; one lemma per handler.
  `RequestsKept`: `NoRequestLost` is inductive given `TypeOK`. `SlotsAfter` says what an edge does to
  the slots, `CompletionsAfter` to FIFO and host, `ServiceAfter` to the request in
  service; a request leaves a slot only into service (`GrantedServed`) and service
  only into the FIFO. `SubmissionOrder`: `OrderKept` is not inductive;
  `AgesTellPlace` is (ids are distinct and at most `submitted`, and an entry's age is its id minus one less
  whole turns of the age counter, `Placed`), so that within a turn comparing ages compares submissions
  (`PlacedOrder`). `SubmissionOrderWithoutWrap`: if `MaxRequests <= AGE_MOD` there is one turn only
  (`AgesTellOrder`), and the documented order holds without exception. `RequestsOnce`: the places of requests are disjoint (`CompletionsOnce`).
  The trace properties have an invariant each that ties the trace to the registers:
  `NodesTraced` and `FinishedOnce` (a finish event of the request in service is a bit of its scoreboard) give
  `NodesOnce`, whatever is rewritten; `ScannedBlocked` (every entry the scan passed is still
  blocked, since the scoreboard has not changed) gives `DeadlocksReal`; `ScoreboardTraced`
  (a set bit has its finish event) gives `DependenciesKept`; `Explained` (events alternate, and the
  accumulator is, in the bits every event of the request shows, the XOR of their payloads, `Told`) gives
  `CompletionsExplained`; `ShownIsResult` is that a shown bit of a payload is the bit of the result. Their hypotheses are the ones the properties mean: graphs are not
  rewritten while they run (without that a report or an order is about no graph), the trace is not
  cleared, no weight write holds the tensor array (section 7), the trace has lost no event.
  `TraceRoom` removes the last: two entries for each node of each request are enough.
  `LatencyBound`: a waiting request of highest priority has at most the rest of the graph in
  service and the requests submitted before it ahead (`Bounded`), so its wait and an allocation for each of
  those stay within the slots' allocations; on the step that starts a service the handover's two cycles are paid by
  the two every graph leaves. The host is always ready and ages have not wrapped.
  `OverrunFlagged`: `OverrunInv` says that while nothing is flagged the counter of the request in service is
  exact and the latency counter has not stopped before the allocation is used up. Its hypothesis is `WaitsFit`, that
  no request is granted so late that the latency counter saturates during its service: after that the service
  counter stands still too (section 7), and an overrun goes unnoticed. `UrgentOverrunFlagged` discharges it:
  when every request has priority 3, the host is always ready and the slots and one more take a turn each
  (allocation and handover) within the counter, no wait saturates (`UrgentInv`); for the source's four slots
  that is 5 turns of 6402 cycles below 65535.
- **Ring.** `RingInvariant` says that where the one flit is decides every register of
  every node: which nodes are busy, finishing or answered, what the flit carries, its
  hop limit and visited set. It is needed because no property of a single node excludes
  a protocol error. From it follow `NeverAnError`, `AlwaysOneFlit` and, with one simulation
  lemma per kind of edge (flit moves, flit is taken, command, reset),
  `RingRefinesAllReduce`: every step of the ring is a step of `AllReduce` or a stutter.
- **Collective engine.** `WholeOrNothing`: `CommitsWholeOrNothing` for every number of
  nodes, every table, however wrong, and every sequence of faults and retries.
  `EngineInvariant` says what each state has gathered (`Gathered`). The ring is simple:
  the word is the sum of the visited nodes. In the tree each participant's value is in exactly one
  node not processed yet (`OwnedOnce`), since a candidate's parent cannot
  have been processed (no unprocessed node has a processed parent). That fails for one kind of
  table: a node that is its own parent adds its sum to itself and counts as processed.
  Then `SelfLooped` holds from there on, and such an operation cannot complete, because the
  broadcast reaches a node only through a parent that was told before it. In the
  all-to-all the pairs before the index are delivered and no others, which
  needs that the index enumerates the pairs once (`IndexInjective`, `NextPair`).
  `CollectiveTypeCorrect`: `TypeOK`.
  `VerdictsRight`: `VerdictsJustified` follows from `VerdictsGood`, which keeps, for the operation
  under way, a path through the table that explains the engine's state. For the ring it is `Trail`, the
  visited nodes as a simple path from the root: whatever stops the engine refutes every ring through the
  group, and the last hop closes one. For the tree, `HandedUp` and `Told` say that the processed
  nodes reached their parents and the told ones were told by theirs; that some node is ready
  while any is left (`SomeReady`) is the pigeonhole principle on a set every node of which has a
  child in it. For the routes, `UnderWay` keeps the nodes left behind, as many as `hop_count`
  and none met again, so a route that is too long is one that never arrives. `Counted` bounds the
  retries: each armed fault costs at most 255 and a transient one costs one. Its hypothesis `MaxArms <= 255` is
  that `retry_count` has 16 bits: after 257 faults of 255 retries it wraps.
- **KV MMU.** `OneFramePerPage` and `TlbNeverStale` follow from one inductive invariant:
  types, one place per page in either store, whatever the TLB holds the table holds
  with the same frame, and a walker's register that is full exactly in WAIT_WALK and
  agrees with the table. `Written...` are lemmas about writing a mapping into a store:
  it adds nothing but that mapping, and forgets another page only if there was neither
  a slot of the page nor a free one. `KvRefinesPageMap` also needs
  that a store without duplicates has a free slot exactly when it holds fewer pages
  than slots (`Room`, a bijection between used slots and pages).
- **Data path.** `FifoInvariant`: the write pointer is `count` entries after the read
  pointer, circularly. `FifoRefinesQueue`: reading `count` entries from the read
  pointer is the abstract queue, for every depth and all three policies.
  `TensorExactly`: in `ArrayInv` the rows before the current one are the reference's and no bit of a later row
  is set; a refused request never runs and leaves the bank empty; the norm's register is full exactly in WAIT_NORM.
  The arithmetic is the other half: `RootExact`, the root found bit by bit is the integer root below 2^32
  (with r the root so far and b bits left, r^2 <= n < (r + 2^b)^2), `SumRange`, a sum over the lanes is
  an integer within the sum of its bounds, so that the mean square of words of 16 bits is in that range, and `DecodedAlike`, the
  decoder and the reference read a lane alike. `PortAssumption` says what fits the ports.
  `AttentionIsExact`: in `AttnInv` the words read are those the softmax has taken in, then the one before it
  with its score, then the one with the reader (`InLine`); the registers of the softmax are the reference's run
  over the first (`StepAgrees`, one step of one is one of the other); and the words read are those of
  the kept tokens that were passed, each at the place of its rank (`Listed`, `RankUnique`). The
  request is the one that was asked (`LatchedFrom`), for which the product that selects the KV head has to
  fit its width: `HeadsFit` is a hypothesis, the run `gqa` shows what happens without it, and
  `HeadIsMapped` that nothing else leads to a wrong head. `BitsHold` gives `$clog2` its meaning
  for every number: a set has more subsets than elements. `AttentionPorts` says that what selects a page, a
  head or a word selects one there is.
- **Chip top.** `ChipServes`: the chip implements `ChipService`, with a command that an engine has
  still counted as waiting. `ChipInv` says, in terms of that command and the memories it found (`at`),
  what every register and memory is by now, at each stage of each engine. The stages of a copy
  (`GatherStage`) are the argument: up to the slot or item being looked at nothing was wrong, so the
  first thing found is the least that is wrong (`FirstMissing`, `FirstPoisoned`); while it looks
  nothing has been written; and after n items the memory is the reference's after n
  (`AfterSteps`: items are copied in order, and one may read what an earlier one wrote), the checksum the
  words copied an odd number of times (`ChecksumSteps`). An edge is then a step of the service
  or a stutter: taking a command for an engine and the engine's own edges are an `Arrive`, at most with a new command;
  an immediate answer and the answer of an engine are an `Execute` (`ImmediateMaps`, `AnswersMaps`); the
  host's taking it is the `Deliver`.
- **Host.** `VerifiedFirmware`: `OnlyVerifiedFirmwareRuns` for every set of requests,
  images, queue sizes and resets. One lemma per handler says that serving requests
  leaves the security state alone or stops the device (`SameSecurity`). The
  strengthening in `SecurityInv` is about boots: one refused for its queue size leaves
  `enabled` as it was but marks the boot failed, so it has to be shown that a device
  that is enabled already has a good queue size and cannot be refused for it.
  `RequestsPlaced` and `FaultsParked` are two parts of one accounting, `AccountInv`: ring, parked
  commands, completions, deliveries and losses partition the ids sent, every parked command has one
  fault with its retry count, and the counters are the sizes of those sets, through
  each handler and each iteration of the three loops. `AnswersBelong`: `AnswersRight` from `TruthInv`, which adds what the
  completions tell (`Truth`): each is an answer to the request of its id, and no physical page was told for
  two virtual ones, since pages are handed out in increasing order. It rests on
  `GraphsAsMeant`, that the graph loop answers every graph as it means (`GraphMeans`): in `RunGood` the
  nodes executed are NOPs that can be executed in some order, the mask is theirs and the word their operands',
  and a round adds a node or answers (`RoundGood`). When none is ready, the executed nodes are the
  least closed set, so the deadlock reports them all.
- **FPGA prototype.** `MemorySound`, `FaultsAccounted` and `FaultIsExchange` follow from
  `PrototypeInv`, in parts: `MemoryPart` (`GoodMemory`: the local pages fit, a page at the host has no
  physical page, a local one a number given out before and its own), `CounterPart` (the device's counts are the
  memory's), `RunPart` (the cycles of the graph under way are the predicted ones, and it began with as many
  faults as migrations) and `RecordPart` (the same of finished graphs). `GoodMemory` is kept by each
  operation of the memory, one lemma each; an eviction picks the local page with the lowest number, which exists
  because a full memory of positive capacity is not empty. `ColdOnce` follows the harness: `TraceInv` says that the
  token under way is an untouched toy graph at one of its stages (`ToyStage`) or a finished one (`Made`), that
  the attention page is local from the first token on, and that the measured total is one of the two sums
  the property allows. It needs that ids are unused before (`IdsInOrder`) and that the sum over a set of one bit is that bit.
  `AnswersMean`: `MeaningInv` says of the graph under way what the meaning says of the whole, with what attention
  read (`Means`), and the pages and their content do not change under it (`FetchSame`). `ReachableIsLeast`: the rounds of
  `Reachable` end at the least set that nothing follows but its own, since each adds a node or is the last.
- **Reference models.** `MonitorJudges`: `Tallied` says what each table of the monitor
  says of the history (who owns what, how many of each call), and `TraceInv` that the calls of a trace
  were made in the order of its operations (`InOrder`), so that the operation that fails is
  the first that breaks the contract. `CacheReads`: `CacheInv` keeps the
  invariant that the pages laid end to end are the appended tokens, so that quotient and
  remainder find a token (`TokenFound`), the sizes of the pages add up to their number (`LastDiffers`),
  flattening the pages gives them back (`Concatenated`), the loop of a decode step keeps the token of each
  position at the place of its rank (`KeptIsSound`), and with heads in equal groups the
  quotient of products is the head of the group (`GroupHead`). `RoundsToNearest` is a fact about `round_q8_8` for every integer.
  `ArithmeticIsSound` is all of `ArithmeticSound`, for streams of every length. The hard one is attention by a
  rescaled running sum: `StreamInv` (with `Balanced`) says that the registers are the reference's run over the tokens
  so far (`RunIs`), that the denominator is within 1 + n of the sum of weights that two passes would give and the
  total within 1 + nV of the weighted sum, V the largest value. A rise of the maximum keeps that, since
  rescaling fades weights and sums alike and rounds each down by less than one (`WeightFades`, `NearFades`, `MaximumRises`); a token adds the same to
  both (`TokenAdds`). The total also stays between any bounds of the values (`Above`, `Below`), so the
  quotients do, and differ from the two-pass ones by the tolerance (`QuotientWithin`, `QuotientsNear`). The hypothesis
  `ValuesFit` bounds the number of tokens by the unit of the fixed point: 127 tokens of int8
  values, where the RTL's window is 32. It is needed, since a sum faded often enough is zero.
  `LanesDecoded` and `RowsExact` (projections) and `RootIs` and `NormsKeep` (norms) are facts for every length and number.
  `SimulatorAddsUp`: `EventInv` says that the running sums are those of the tokens so far (`Running`) and the
  results those of whole requests (`SimResults`). A sum of partial sums, of multiples or of ordered terms is proved
  by adding one element at a time (`SetByElements`, `SumAdds`, `SumTimes`, `SumOrder`); a mean grows with
  the context and the number of tokens (`MeanGrows`); every finite sequence of integers can be sorted, so that
  `Ordered` names a permutation (`AllSortable`, `OrderedIs`), and interpolating between its neighbours stays
  between them (`BetweenGrows`).

What a fold or a recursive function computes is proved by the least counterexample
(`LeastElement`, `LeastIn`): a set of naturals that is not empty has a least element, and the
step below it contradicts the claim. That avoids the induction rules, whose operator
parameters the provers cannot instantiate.

Only model-checked: the liveness properties (`EveryRequestAnswered`, `EveryCommandAnswered`, `RequestsAnswered`,
`GraphsEnd`, `BackpressureLetsThrough`, `EveryCommandRetires`, `AllReduceLive`, `EveryUnitAnswers`),
since fairness and ENABLED are outside the prover. Every other property of a passing run has a theorem; two hold there
under a bound that the code needs and that the theorem names, `ServiceOverrunFlagged` (`WaitsFit`) and
`ArithmeticSound` (`ValuesFit`).

## 7. Where code and documents disagree

| Run | Document | Code |
| --- | --- | --- |
| `gqa` | "head `q` maps to KV head `floor(q * num_kv_heads / num_q_heads)`" (`dv/golden/kv_cache_ref.py:113`) | the product under a size cast in `rcif_attn_engine.sv:181` is four bits wide: with 8 query heads over 4 KV heads, heads 4 to 7 read the KV heads 0, 0, 1, 1 |
| `norm` | "Optional integer RMSNorm computes `floor(sqrt(mean(x*x) + epsilon))`" (`numerics.md:66`), bit for bit as the reference (`:71`) | `rcif_norm_unit.sv:53` adds signed squares to an unsigned sum, so negative values are extended with zeros |
| `sched_qos_backpressure` | "host completion backpressure cannot create a false scheduler violation" (`scheduler_vplan.md:53`) | requests age in their slots while `FINISH` waits for the host |
| `host_fatal` | "Queue processing is permitted only in `RUNNING`" (`register_map.md:32`) | the loops of `service_faults` and `process` go on after a full completion ring made the device FATAL; the replay is counted as recovered and its answer lost |

Both RTL bugs need what the repository's own tests do not have: eight query heads over more
than two KV heads, and a negative result before a norm.

Seen but not stated as runs:

- While a refused request keeps a node in SCAN (a weight write
  holds the tensor array) every cycle records another issue event of it, where
  `token_graph_descriptor.md:67` promises separate issue and finish events. In `sched`,
  where no weights are written, they alternate.
- The admission age has 16 bits and is compared with `<` (`rcif_token_scheduler.sv:393`,
  `rcif_qos_arbiter.sv:26`), so the request admitted after 65,536 others since reset is
  taken for older than those waiting before it, where `token_graph_descriptor.md:55` promises
  that equal priorities retain submission order. `OrderKept` excepts exactly the requests a wrap separates.
- On a grant the wait counter is copied plus one, without
  the saturation that `scheduler_vplan.md:52` promises, and wraps after its last value
  (hazard in `PROJECT.json`); the service counter stands still when the latency counter is
  saturated, so an overrun after that is not flagged.
- The control-plane device and the RTL report different statuses for a graph without a
  COMPLETE (section 2).
- `fpga/prototype.py:202` answers a COMPLETE with the accumulated result, where
  `device.py:178` and the opcode table of `token_graph_descriptor.md` also XOR in its operand 0.
- `release_kv` of the monitor leaves a page readable after its last reference
  (`dv/phase9/invariants.py:60`), and a transfer between two nodes that are in no partition is let through.
- The event simulator divides by `output_tokens`; the schema of the traces demands at least
  1, the reader does not (`EventAssumption` assumes it).

## 8. Not modelled, and why

- *Boot firmware in C*: straight-line register writes with early exits, called once after
  reset; nothing in the repository runs it against a device. What it can leave behind is
  what the boots of `HostRuntime` leave.
- *`fpga/rtl`*: the AXI burst reader and the wrapper, and the timing closure around them.
- *Floating point*: softmax, matrix product and norm of the golden models over floats.
- *Monitor*: the closing of cross-coverage bins, a product of sets. *Prototype and event simulator*:
  report formats, configuration classes, command line, the random trace generator.
- *Encodings and hashes* of the runtime protocol: abstracted to fields and verdicts.
- *Packages, tests, scripts, infrastructure*: constants, drivers of the design and references.
- *Metastability, clock domains, gate-level reset*: one clock, and a reset is a step.

## 9. What is left

The AXI reader of `fpga/rtl` (three states, one burst, ended by the last beat whatever
length was asked) and the wrapper around it.

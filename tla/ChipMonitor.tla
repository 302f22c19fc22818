----------------------------- MODULE ChipMonitor -----------------------------
(***************************************************************************)
(* The executable safety contract of dv/phase9/invariants.py: the monitor  *)
(* that judges calls, the trace runner that makes them, and the bounded    *)
(* queue whose legal backpressure is explored.                             *)
(*                                                                         *)
(* A call is a record, its name in "op".  A call that breaks the contract  *)
(* raises an error and changes nothing.                                    *)
(***************************************************************************)
EXTENDS Integers, Sequences, FiniteSets

CONSTANTS
  RequestIds, Tenants, PhysicalPages, Dependencies,
  NO_PAGE,           \* what an unmapped key has
  VirtualPage,       \* the page that tenants map: the monitor compares names only
  DmaWindows,        \* tenant |-> <<first address, address past the last>>
  NodePartitions,    \* node |-> partition, of the nodes that have one
  NO_PARTITION,      \* what a lookup of any other node gives
  JudgedCalls,       \* the calls of the pure checks: dma, issue, route, sample
  RequiredBins,      \* the points that the cross coverage allows
  Operations,        \* those that a trace may hold, with their coverage point
  MaxTrace,          \* bound: operations of a trace
  MaxCalls,          \* bound: calls, recorded, on the monitor
  QueueDepth         \* depth of the explored queue

VARIABLES
  monitor,     \* its five tables
  history,     \* the calls that were accepted and change a table, in order
  to_run,      \* operations of the trace that are still to be run
  run_calls,   \* calls of the operation that is being run
  outcome,     \* of run_trace: "none" (no monitor), "idle", "running", "passed",
               \* "failed"
  occupancy,   \* entries of the explored queue
  stall_age,   \* cycles that its head has waited
  elapsed      \* cycles explored, modulo 2: in any number of steps

monitorVars == <<monitor, history, to_run, run_calls, outcome>>
queueVars == <<occupancy, stall_age, elapsed>>

Keys == Tenants \X {VirtualPage}

ASSUME MonitorAssumption ==
  /\ NO_PAGE \notin PhysicalPages /\ MaxTrace \in Nat
  /\ \A n \in DOMAIN NodePartitions : NodePartitions[n] # NO_PARTITION
  /\ \A t \in DOMAIN DmaWindows : DmaWindows[t][1] \in Int /\ DmaWindows[t][2] \in Int
  /\ \A c \in JudgedCalls : c.op \in {"dma", "issue", "route", "sample"}
  /\ \A o \in Operations :
       /\ o.request \in RequestIds
       /\ o.kind = "kv" => o.call \in [op : {"map_kv"}, key : Keys, page : PhysicalPages]
       /\ o.kind = "scheduler" =>
            o.announced \in Seq([op : {"ready"}, dependency : Dependencies])
       /\ o.kind = "dma" => o.call.op = "dma"
       /\ o.kind = "collective" => o.call.op = "route"
  /\ \A c \in JudgedCalls \union {o.call : o \in {o \in Operations : o.kind = "dma"}} :
       c.op = "dma" => c.address \in Int /\ c.length \in Int

-----------------------------------------------------------------------------
(* FullChipMonitor *)

FreshMonitor ==
  [accepted |-> [r \in RequestIds |-> 0],
   completed |-> [r \in RequestIds |-> 0],
   kv_pages |-> [k \in Keys |-> NO_PAGE],
   refcounts |-> [k \in Keys |-> 0],
   ready_dependencies |-> {}]

Drained == monitor.accepted = monitor.completed

DmaAllowed(c) ==
  /\ c.length > 0
  /\ c.tenant \in DOMAIN DmaWindows
  /\ c.address >= DmaWindows[c.tenant][1]
  /\ c.address + c.length <= DmaWindows[c.tenant][2]

PartitionOf(node) ==
  IF node \in DOMAIN NodePartitions THEN NodePartitions[node] ELSE NO_PARTITION

\* Neither raises nor reads what is not there.
Allowed(c) ==
  CASE c.op = "complete" -> monitor.completed[c.request] < monitor.accepted[c.request]
    [] c.op = "read_kv" -> /\ c.requester = c.owner
                           /\ monitor.kv_pages[<<c.owner, VirtualPage>>] # NO_PAGE
    [] c.op = "release_kv" -> monitor.refcounts[c.key] # 0
    [] c.op = "dma" -> DmaAllowed(c)
    [] c.op = "issue" -> c.dependencies \subseteq monitor.ready_dependencies
    [] c.op = "route" -> PartitionOf(c.source) = PartitionOf(c.destination)
    [] c.op = "sample" -> c.point \in RequiredBins
    [] c.op = "assert_drained" -> Drained
    [] OTHER -> TRUE

\* Mutant: mapping a key again does not count the new reference.
AfterMapsOnce(c) ==
  CASE c.op = "accept" -> [monitor EXCEPT !.accepted[c.request] = @ + 1]
    [] c.op = "complete" -> [monitor EXCEPT !.completed[c.request] = @ + 1]
    [] c.op = "map_kv" -> [monitor EXCEPT !.kv_pages[c.key] = c.page,
                                          !.refcounts[c.key] = 1]
    [] c.op = "release_kv" -> [monitor EXCEPT !.refcounts[c.key] = @ - 1]
    [] c.op = "ready" -> [monitor EXCEPT !.ready_dependencies = @ \union {c.dependency}]
    [] OTHER -> monitor

\* The tables after an allowed call.
After(c) ==
  CASE c.op = "accept" -> [monitor EXCEPT !.accepted[c.request] = @ + 1]
    [] c.op = "complete" -> [monitor EXCEPT !.completed[c.request] = @ + 1]
    [] c.op = "map_kv" -> [monitor EXCEPT !.kv_pages[c.key] = c.page,
                                          !.refcounts[c.key] = @ + 1]
    [] c.op = "release_kv" -> [monitor EXCEPT !.refcounts[c.key] = @ - 1]
    [] c.op = "ready" -> [monitor EXCEPT !.ready_dependencies = @ \union {c.dependency}]
    [] OTHER -> monitor

Perform(c) ==
  /\ monitor' = After(c)
  /\ history' = IF After(c) = monitor THEN history ELSE Append(history, c)

Changing ==
  [op : {"accept", "complete"}, request : RequestIds]
    \union [op : {"map_kv"}, key : Keys, page : PhysicalPages]
    \union [op : {"release_kv"}, key : Keys]
    \union [op : {"ready"}, dependency : Dependencies]

NewMonitor ==
  /\ outcome = "none"
  /\ outcome' = "idle"
  /\ UNCHANGED <<monitor, history, to_run, run_calls>>

\* A test drives the monitor by hand.
Call(c) ==
  /\ outcome \in {"idle", "passed"}
  /\ Len(history) < MaxCalls
  /\ Allowed(c)
  /\ Perform(c)
  /\ UNCHANGED <<to_run, run_calls, outcome>>

-----------------------------------------------------------------------------
(* run_trace *)

\* The calls of the body of an operation's kind; a kind without one is refused.
BodyOf(operation) ==
  CASE operation.kind = "kv" ->
         LET c == operation.call
         IN  <<c, [op |-> "read_kv", requester |-> c.key[1], owner |-> c.key[1]]>>
    [] operation.kind = "scheduler" ->
         Append(operation.announced,
                [op |-> "issue",
                 dependencies |-> {operation.announced[i].dependency :
                                     i \in DOMAIN operation.announced}])
    [] operation.kind \in {"dma", "collective"} -> <<operation.call>>
    [] OTHER -> << [op |-> "unsupported"] >>

CallsOf(operation) ==
  << [op |-> "accept", request |-> operation.request] >>
    \o BodyOf(operation)
    \o << [op |-> "complete", request |-> operation.request],
          [op |-> "sample", point |-> operation.point] >>

StartTrace ==
  /\ outcome = "none"
  /\ \E n \in 0 .. MaxTrace : to_run' \in [1 .. n -> Operations]
  /\ outcome' = "running"
  /\ UNCHANGED <<monitor, history, run_calls>>

NextOperation ==
  /\ outcome = "running"
  /\ run_calls = <<>>
  /\ to_run # <<>>
  /\ run_calls' = CallsOf(Head(to_run))
  /\ to_run' = Tail(to_run)
  /\ UNCHANGED <<monitor, history, outcome>>

CallAllowed ==
  /\ run_calls # <<>>
  /\ Head(run_calls).op # "unsupported"
  /\ Allowed(Head(run_calls))

TraceCall ==
  /\ outcome = "running"
  /\ CallAllowed
  /\ Perform(Head(run_calls))
  /\ run_calls' = Tail(run_calls)
  /\ UNCHANGED <<to_run, outcome>>

TraceRaises ==
  /\ outcome = "running"
  /\ run_calls # <<>>
  /\ ~CallAllowed
  /\ outcome' = "failed"
  /\ UNCHANGED <<monitor, history, to_run, run_calls>>

EndTrace ==
  /\ outcome = "running"
  /\ run_calls = <<>>
  /\ to_run = <<>>
  /\ outcome' = IF Drained THEN "passed" ELSE "failed"
  /\ UNCHANGED <<monitor, history, to_run, run_calls>>

MonitorInit ==
  /\ monitor = FreshMonitor
  /\ history = <<>>
  /\ to_run = <<>>
  /\ run_calls = <<>>
  /\ outcome = "none"

MonitorNext ==
  \/ NewMonitor
  \/ \E c \in Changing : Call(c)
  \/ StartTrace \/ NextOperation \/ TraceCall \/ TraceRaises \/ EndTrace

MonitorSpec == MonitorInit /\ [][MonitorNext]_monitorVars

-----------------------------------------------------------------------------
(* exhaust_legal_backpressure *)

\* Mutant: the age saturates instead of forcing the head out.
NextStallSaturates(dequeue) ==
  IF dequeue \/ occupancy = 0 THEN 0
  ELSE IF stall_age < QueueDepth THEN stall_age + 1 ELSE QueueDepth

NextStall(dequeue) ==
  IF dequeue THEN 0 ELSE IF occupancy > 0 THEN stall_age + 1 ELSE 0

LegalCycle(enqueue, dequeue) ==
  /\ enqueue => occupancy # QueueDepth
  /\ dequeue => occupancy # 0
  /\ NextStall(dequeue) <= QueueDepth

Bit(b) == IF b THEN 1 ELSE 0

QueueCycle(enqueue, dequeue) ==
  /\ LegalCycle(enqueue, dequeue)
  /\ occupancy' = occupancy + Bit(enqueue) - Bit(dequeue)
  /\ stall_age' = NextStall(dequeue)
  /\ elapsed' = 1 - elapsed

QueueInit == occupancy = 0 /\ stall_age = 0 /\ elapsed = 0

QueueNext == \E enqueue, dequeue \in BOOLEAN : QueueCycle(enqueue, dequeue)

-----------------------------------------------------------------------------
(* What the monitor promises, said of the calls that were made *)

Made(op) == {i \in DOMAIN history : history[i].op = op}

OfRequest(op, r) == {i \in Made(op) : history[i].request = r}
OfKey(op, k) == {i \in Made(op) : history[i].key = k}

BytesInWindow(c) ==
  /\ c.length >= 1
  /\ c.tenant \in DOMAIN DmaWindows
  /\ \A byte \in c.address .. c.address + c.length - 1 :
       byte \in DmaWindows[c.tenant][1] .. DmaWindows[c.tenant][2] - 1

SamePartition(c) ==
  \/ {c.source, c.destination} \intersect DOMAIN NodePartitions = {}
  \/ \E p \in {NodePartitions[n] : n \in DOMAIN NodePartitions} :
       \A n \in {c.source, c.destination} :
         n \in DOMAIN NodePartitions /\ NodePartitions[n] = p

Contract(c) ==
  CASE c.op = "dma" -> BytesInWindow(c)
    [] c.op = "route" -> SamePartition(c)
    [] c.op = "issue" -> \A d \in c.dependencies :
                           \E i \in Made("ready") : history[i].dependency = d
    [] c.op = "sample" -> c.point \in RequiredBins
    [] c.op = "unsupported" -> FALSE
    [] OTHER -> TRUE

\* Completions and releases are let through exactly as often as they are owed,
\* a page is read by its owner only and is the one that the owner mapped last,
\* and the pure checks follow from the calls before them.
CallsJudged ==
  /\ \A r \in RequestIds :
       Allowed([op |-> "complete", request |-> r])
         <=> Cardinality(OfRequest("complete", r)) < Cardinality(OfRequest("accept", r))
  /\ \A k \in Keys :
       Allowed([op |-> "release_kv", key |-> k])
         <=> Cardinality(OfKey("release_kv", k)) < Cardinality(OfKey("map_kv", k))
  /\ \A requester, owner \in Tenants :
       LET c == [op |-> "read_kv", requester |-> requester, owner |-> owner]
           mappings == OfKey("map_kv", <<owner, VirtualPage>>)
       IN  /\ Allowed(c) <=> requester = owner /\ mappings # {}
           /\ Allowed(c) =>
                \E i \in mappings :
                  /\ \A j \in mappings : j <= i
                  /\ monitor.kv_pages[<<owner, VirtualPage>>] = history[i].page
  /\ \A c \in JudgedCalls : Allowed(c) <=> Contract(c)
  /\ Drained <=> \A r \in RequestIds : Cardinality(OfRequest("complete", r))
                                         = Cardinality(OfRequest("accept", r))

\* A trace fails at its first operation that breaks the contract, with that
\* operation's command left open if it is the monitor that refuses it.
TraceJudged ==
  /\ outcome = "failed" =>
       /\ run_calls # <<>>
       /\ ~Contract(Head(run_calls))
       /\ Head(run_calls).op = "sample" <=> Drained
  /\ outcome = "running" /\ run_calls = <<>> => Drained

\* The monitor raises exactly when the calls made so far break its contract,
\* and a trace passes exactly when none of its operations does
\* (FullChipMonitor, run_trace).
MonitorExact == outcome # "none" => CallsJudged /\ TraceJudged

\* Legal backpressure, which lets the head wait for QueueDepth cycles, always
\* gives way: a head that has waited leaves and a full queue does not stay full
\* (exhaust_legal_backpressure, "prove every state can drain").
BackpressureLetsThrough ==
  /\ stall_age > 0 ~> stall_age = 0
  /\ occupancy = QueueDepth ~> occupancy < QueueDepth

=============================================================================

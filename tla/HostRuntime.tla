----------------------------- MODULE HostRuntime -----------------------------
(***************************************************************************)
(* The control plane of runtime/driver: the RcifDriver of the host, the    *)
(* RcifDevice with its three rings and its KV pages, and the               *)
(* FirmwareController that boots the device and serves its KV faults.      *)
(*                                                                         *)
(* One thread runs all three.  A call of the host that touches one object  *)
(* is one step; RcifDriver.poll, which drives the device, the firmware and *)
(* the completion ring in turn, takes a step per iteration of each loop,   *)
(* and `phase` says in which loop it is.                                   *)
(*                                                                         *)
(* Data: a request is what the host asks for (opcode, flags, graph,        *)
(* priority, page); rings keep no head and tail, which nothing reads; None *)
(* for the three rings is entries = 0; an unmapped page maps to 0; an      *)
(* image is the verdict of its digest and signature, and its version.      *)
(***************************************************************************)
EXTENDS GraphExecution

CONSTANTS
  Requests,          \* what the host may ask for, under each request id
  Pages,             \* the virtual pages in them
  Images,            \* firmware images: [authentic, security_version]
  LockDebug,         \* whether a boot may, or must, lock debug access
  QueueEntries,      \* queue sizes a FirmwareController is created with
  ServiceBudget,     \* the budget of service_faults
  MaxRequests,       \* bound: request ids the driver hands out
  MaxBoots           \* bound: attempts to boot

RequestOK(r) ==
  /\ r.opcode \in {"SUBMIT_GRAPH", "KV_TRANSLATE", "OTHER"}
  /\ r.flags \in BOOLEAN
  /\ r.graph \in Seq(GraphNode) /\ r.priority \in Int /\ r.argument \in Pages

ASSUME HostAssumption ==
  /\ \A id \in 1 .. MaxRequests : \A r \in Requests[id] : RequestOK(r)
  /\ LockDebug \subseteq BOOLEAN
  /\ Images \subseteq [authentic : BOOLEAN, security_version : Nat]
  /\ QueueEntries \subseteq Nat
  /\ ServiceBudget \in Nat /\ MaxRequests \in Nat /\ MaxBoots \in Nat

VARIABLES
  device,              \* the RcifDevice
  phase, serving, budget,   \* where poll is, its argument, what is left of the budget
  next_request_id, completions,          \* the RcifDriver
  queue_entries, next_physical_page,     \* the FirmwareController
  sent, taken, lost    \* history: requests a ring accepted, ids whose completion
                       \* the host took, ids thrown away with the rings

poll == <<phase, serving, budget>>
vars == <<device, phase, serving, budget, next_request_id, completions,
          queue_entries, next_physical_page, sent, taken, lost>>

FIRST_PAGE == 4096

Counter == {"ACCEPTED", "COMPLETED", "ERRORS", "FAULT_OVERFLOWS", "KV_FAULTS",
            "KV_RECOVERED", "BOOT_ATTEMPTS", "BOOT_FAILURES", "GRAPH_NODES", "QUEUE_ERRORS"}

Ids(S) == {x.request_id : x \in S}
Elements(ring) == {ring[i] : i \in DOMAIN ring}

-----------------------------------------------------------------------------
(* RcifDevice *)

\* Counters saturate at 2^64 - 1, which MaxRequests keeps out of reach.
Increment(d, counter, amount) == [d EXCEPT !.counters[counter] = @ + amount]
Count(d, counter) == Increment(d, counter, 1)

RingFull(d, ring) == Len(ring) = d.entries

\* A completion that finds no room is dropped and stops the device.
Complete(d, id, status, result) ==
  LET completion == [request_id |-> id, status |-> status, result |-> result]
  IN  IF RingFull(d, d.completion_ring)
      THEN [Count(d, "QUEUE_ERRORS") EXCEPT
              !.status = "FATAL", !.enabled = FALSE, !.dropped = @ \cup {id}]
      ELSE LET pushed == Count([d EXCEPT !.completion_ring = Append(@, completion)],
                               "COMPLETED")
           IN  IF status = "OK" THEN pushed ELSE Count(pushed, "ERRORS")

Fault(command) == [request_id |-> command.request_id, address |-> command.argument,
                   retry_count |-> command.retry_count]

TranslateKeepsPending(d, command) ==
  LET page == command.argument
      parked == Count([d EXCEPT !.pending = @ \cup {command}], "KV_FAULTS")
  IN  IF d.kv_pages[page] # 0
      THEN Complete(d, command.request_id, "OK", <<"page", d.kv_pages[page]>>)
      ELSE IF ~ RingFull(d, d.fault_ring)
      THEN [parked EXCEPT !.fault_ring = Append(@, Fault(command))]
      ELSE Complete(Count(parked, "FAULT_OVERFLOWS"),
                    command.request_id, "KV_MISS", <<"page", page>>)

\* A miss parks the command until its fault is served, if the fault ring has
\* room; otherwise the miss is the answer.
Translate(d, command) ==
  LET page == command.argument
      faulted == Count(d, "KV_FAULTS")
  IN  IF d.kv_pages[page] # 0
      THEN Complete(d, command.request_id, "OK", <<"page", d.kv_pages[page]>>)
      ELSE IF ~ RingFull(d, d.fault_ring)
      THEN [faulted EXCEPT !.pending = @ \cup {command},
                           !.fault_ring = Append(@, Fault(command))]
      ELSE Complete(Count(faulted, "FAULT_OVERFLOWS"),
                    command.request_id, "KV_MISS", <<"page", page>>)

\* What _execute_graph answers depends on nothing but the request.
GraphAnswers ==
  LET requests == UNION {Requests[id] : id \in 1 .. MaxRequests}
  IN  [work \in {<<r.graph, r.priority>> : r \in requests} |->
         ExecuteGraph(work[1], work[2])]

RunGraph(d, command) ==
  LET answer == GraphAnswers[<<command.graph, command.priority>>]
      counted == IF GraphValid(command.graph, command.priority)
                 THEN Increment(d, "GRAPH_NODES", Len(command.graph)) ELSE d
  IN  Complete(counted, command.request_id, answer.status, answer.result)

Execute(d, command) ==
  IF command.flags THEN Complete(d, command.request_id, "BAD_FLAGS", <<"word", {}>>)
  ELSE IF command.opcode = "SUBMIT_GRAPH" THEN RunGraph(d, command)
  ELSE IF command.opcode = "KV_TRANSLATE" THEN Translate(d, command)
  ELSE Complete(d, command.request_id, "UNSUPPORTED", <<"word", {}>>)

\* The parked command of a request, which replay takes out in any case.
PendingOf(d, id) == {c \in d.pending : c.request_id = id}
Unparked(d, id) == [d EXCEPT !.pending = @ \ PendingOf(d, id)]
Replayable(d, id) == \E c \in PendingOf(d, id) : c.retry_count < 3

Replay(d, id) ==
  IF Replayable(d, id)
  THEN LET command == CHOOSE c \in PendingOf(d, id) : TRUE
       IN  Execute(Unparked(d, id), [command EXCEPT !.retry_count = @ + 1])
  ELSE Unparked(d, id)

InitializeQueuesKeepsFaults(d, entries) ==
  [d EXCEPT !.entries = entries, !.command_ring = <<>>, !.completion_ring = <<>>]

\* New rings; commands that wait for a fault stay in pending.
InitializeQueues(d, entries) ==
  [d EXCEPT !.entries = entries, !.command_ring = <<>>, !.completion_ring = <<>>,
            !.fault_ring = <<>>]

NoQueues(d) == InitializeQueues([d EXCEPT !.enabled = FALSE, !.pending = {}], 0)

PowerOn(d) ==
  [NoQueues(d) EXCEPT
     !.status = "BOOT_ROM", !.secure_verified = FALSE, !.boot_failed = FALSE,
     !.debug_locked = FALSE, !.firmware_version = 0, !.kv_pages = [p \in Pages |-> 0]]

Warm(d) ==
  [NoQueues(d) EXCEPT
     !.status = IF d.secure_verified THEN "FIRMWARE_READY" ELSE "BOOT_ROM"]

-----------------------------------------------------------------------------
(* FirmwareController *)

RomVerifyAnyVersion(d, image) == image.authentic
RomVerify(d, image) ==
  image.authentic /\ image.security_version >= d.otp_minimum_version

QueueSizeValid(entries) == entries \in {4, 8, 16, 32, 64, 128, 256, 512, 1024}

Larger(m, n) == IF m >= n THEN m ELSE n

BootFailed(d) == [Count(d, "BOOT_FAILURES") EXCEPT !.boot_failed = TRUE, !.status = "FATAL"]

BootDevice(d, image, entries, lock_debug) ==
  LET attempted == Count(d, "BOOT_ATTEMPTS")
  IN  IF ~ RomVerify(d, image)
      THEN [BootFailed(attempted) EXCEPT !.secure_verified = FALSE, !.enabled = FALSE]
      ELSE IF ~ QueueSizeValid(entries) THEN BootFailed(attempted)
      ELSE [InitializeQueues(attempted, entries) EXCEPT
              !.secure_verified = TRUE, !.boot_failed = FALSE,
              !.firmware_version = image.security_version,
              !.otp_minimum_version = Larger(@, image.security_version),
              !.debug_locked = @ \/ lock_debug,
              !.enabled = TRUE, !.status = "RUNNING"]

\* What a new set of rings throws away, and the parked commands whose faults
\* were in the old one.
ThrownAway ==
  [lost EXCEPT !.command = @ \cup Ids(Elements(device.command_ring)),
               !.completion = @ \cup Ids(Elements(device.completion_ring)),
               !.parked = @ \cup Ids(device.pending)]

Booted(image) ==
  RomVerify(device, image) /\ QueueSizeValid(queue_entries)

Boot(image, lock_debug) ==
  /\ phase = "idle"
  /\ device.counters["BOOT_ATTEMPTS"] < MaxBoots
  /\ device' = BootDevice(device, image, queue_entries, lock_debug)
  /\ lost' = IF Booted(image) THEN ThrownAway ELSE lost
  /\ UNCHANGED <<poll, next_request_id, completions, queue_entries,
                 next_physical_page, sent, taken>>

Reset(reset) ==
  /\ phase = "idle"
  /\ device' = reset
  /\ lost' = ThrownAway
  /\ UNCHANGED <<poll, next_request_id, completions, queue_entries,
                 next_physical_page, sent, taken>>

PowerOnReset == Reset(PowerOn(device))
WarmReset == Reset(Warm(device))

-----------------------------------------------------------------------------
(* RcifDriver *)

\* An id is used up even when the request is refused.
SubmitRequest(r) ==
  /\ phase = "idle"
  /\ next_request_id' = next_request_id + 1
  /\ LET accepted == device.enabled /\ ~ RingFull(device, device.command_ring)
         command == [request_id |-> next_request_id, opcode |-> r.opcode, flags |-> r.flags,
                     graph |-> r.graph, priority |-> r.priority, argument |-> r.argument,
                     retry_count |-> 0]
     IN  /\ device' = IF accepted
                      THEN [device EXCEPT !.command_ring = Append(@, command)]
                      ELSE IF device.enabled THEN Count(device, "QUEUE_ERRORS")
                      ELSE device
         /\ sent' = IF accepted THEN sent \cup {command} ELSE sent
  /\ UNCHANGED <<poll, completions, queue_entries, next_physical_page, taken, lost>>

Submit ==
  next_request_id <= MaxRequests /\ \E r \in Requests[next_request_id] : SubmitRequest(r)

AfterProcessDrains(service) == "drain"
AfterProcess(service) == IF service THEN "service" ELSE "drain"

\* enabled is looked at once, before the loop over the command ring.
Poll(service) ==
  /\ phase = "idle"
  /\ phase' = IF device.enabled THEN "process" ELSE AfterProcess(service)
  /\ serving' = service
  /\ budget' = ServiceBudget
  /\ UNCHANGED <<device, next_request_id, completions, queue_entries,
                 next_physical_page, sent, taken, lost>>

ProcessOne ==
  /\ phase = "process"
  /\ IF device.command_ring = <<>>
     THEN phase' = AfterProcess(serving) /\ UNCHANGED device
     ELSE /\ device' = Execute(Count([device EXCEPT !.command_ring = Tail(@)], "ACCEPTED"),
                               Head(device.command_ring))
          /\ UNCHANGED phase
  /\ UNCHANGED <<serving, budget, next_request_id, completions, queue_entries,
                 next_physical_page, sent, taken, lost>>

MappedAnew(d, page) == [d EXCEPT !.kv_pages[page] = next_physical_page]
Mapped(d, page) == [d EXCEPT !.kv_pages[page] = IF @ = 0 THEN next_physical_page ELSE @]

NextPhysicalPage(page) ==
  IF device.kv_pages[page] = 0 THEN next_physical_page + 1 ELSE next_physical_page

Recovered(d, id) ==
  LET replayed == Replay(d, id)
  IN  IF Replayable(d, id) THEN Count(replayed, "KV_RECOVERED") ELSE replayed

ServeFault(d, fault) == Recovered(Mapped(d, fault.address), fault.request_id)

\* A fault that was retried three times is dropped.
ServiceOne ==
  /\ phase = "service"
  /\ IF device.fault_ring = <<>> \/ budget = 0
     THEN phase' = "drain" /\ UNCHANGED <<device, budget, next_physical_page>>
     ELSE LET fault == Head(device.fault_ring)
              popped == [device EXCEPT !.fault_ring = Tail(@)]
          IN  /\ budget' = budget - 1
              /\ IF fault.retry_count >= 3
                 THEN device' = popped /\ UNCHANGED next_physical_page
                 ELSE /\ device' = ServeFault(popped, fault)
                      /\ next_physical_page' = NextPhysicalPage(fault.address)
              /\ UNCHANGED phase
  /\ UNCHANGED <<serving, next_request_id, completions, queue_entries, sent, taken, lost>>

Drain ==
  /\ phase = "drain"
  /\ phase' = "idle"
  /\ LET drained == Elements(device.completion_ring)
     IN  completions' = {c \in completions : c.request_id \notin Ids(drained)} \cup drained
  /\ device' = [device EXCEPT !.completion_ring = <<>>]
  /\ UNCHANGED <<serving, budget, next_request_id, queue_entries,
                 next_physical_page, sent, taken, lost>>

TakeCompletion(c) ==
  /\ phase = "idle"
  /\ completions' = completions \ {c}
  /\ taken' = taken \cup {c.request_id}
  /\ UNCHANGED <<device, poll, next_request_id, queue_entries, next_physical_page,
                 sent, lost>>

-----------------------------------------------------------------------------
Init ==
  /\ device = [status |-> "BOOT_ROM", enabled |-> FALSE, entries |-> 0,
               command_ring |-> <<>>, completion_ring |-> <<>>, fault_ring |-> <<>>,
               pending |-> {}, kv_pages |-> [p \in Pages |-> 0],
               secure_verified |-> FALSE, boot_failed |-> FALSE, debug_locked |-> FALSE,
               firmware_version |-> 0, otp_minimum_version |-> 1,
               counters |-> [c \in Counter |-> 0], dropped |-> {}]
  /\ phase = "idle" /\ serving = FALSE /\ budget = 0
  /\ next_request_id = 1 /\ completions = {}
  /\ queue_entries \in QueueEntries /\ next_physical_page = FIRST_PAGE
  /\ sent = {} /\ taken = {}
  /\ lost = [command |-> {}, parked |-> {}, completion |-> {}]

Next ==
  \/ Submit
  \/ \E service \in BOOLEAN : Poll(service)
  \/ ProcessOne
  \/ ServiceOne
  \/ Drain
  \/ \E c \in completions : TakeCompletion(c)
  \/ \E image \in Images, lock_debug \in LockDebug : Boot(image, lock_debug)
  \/ PowerOnReset
  \/ WarmReset

Spec == Init /\ [][Next]_vars

\* A call that was begun returns (nothing in it blocks), and the host goes on
\* polling with service_firmware, the default, which is what wait() does.
FairSpec ==
  /\ Spec
  /\ WF_vars(ProcessOne) /\ WF_vars(ServiceOne) /\ WF_vars(Drain)
  /\ SF_vars(Poll(TRUE))

-----------------------------------------------------------------------------
(* What the control plane promises *)

SentIds == Ids(sent)
Parked == Ids(device.pending) \ lost.parked
LostIds == lost.command \cup lost.parked \cup lost.completion \cup device.dropped

\* The performance counters account for every request: accepted ones, answered
\* ones, and faults, each recovered, reported as a miss, still parked or reset.
CountersBalance ==
  LET n == device.counters
  IN  /\ n["ACCEPTED"] + Len(device.command_ring) + Cardinality(lost.command)
           = Cardinality(SentIds)
      /\ n["COMPLETED"] = Len(device.completion_ring) + Cardinality(completions)
           + Cardinality(taken) + Cardinality(lost.completion)
      /\ n["KV_FAULTS"] = n["KV_RECOVERED"] + n["FAULT_OVERFLOWS"] + Cardinality(Parked)
           + Cardinality(lost.parked)

\* A request that a ring accepted is in exactly one place: a ring, parked for
\* its fault, with the driver, taken by the host, or lost to a full completion
\* ring or a reset.  None is forgotten and none is answered twice, through
\* misses, replays, overflows, resets and second boots, and the device's counters
\* say so.
EachRequestInOnePlace ==
  LET places == {Ids(Elements(device.command_ring)), Parked,
                 Ids(Elements(device.completion_ring)), Ids(completions), taken, LostIds}
  IN  /\ CountersBalance
      /\ UNION places = SentIds
      /\ Len(device.command_ring) + Cardinality(Parked) + Len(device.completion_ring)
           + Cardinality(completions) + Cardinality(taken) + Cardinality(device.dropped)
           + Cardinality(lost.command) + Cardinality(lost.parked)
           + Cardinality(lost.completion) = Cardinality(SentIds)

\* The commands that wait are those whose faults are in the fault ring, each
\* once, still replayable and with the same retry count: serving a fault always
\* finds its command, and service_faults never drops one (firmware.py:77-85).
FaultsAreParked ==
  /\ Ids(Elements(device.fault_ring)) = Parked
  /\ Len(device.fault_ring) = Cardinality(Parked)
  /\ \A fault \in Elements(device.fault_ring) :
       \E c \in device.pending :
         fault = Fault(c) /\ c.retry_count < 3

\* The device executes the graphs of the requests as they mean.
GraphsMeant ==
  \A id \in 1 .. MaxRequests : \A r \in Requests[id] :
    r.opcode = "SUBMIT_GRAPH" /\ ~ r.flags =>
      MayAnswer(r.graph, r.priority, ExecuteGraph(r.graph, r.priority))

\* Answers belong to their requests: a graph's is one that its nodes allow
\* whatever order executes them, a translation's that waits in the ring is where the
\* page is mapped, and translations that agree, also those taken before a reset,
\* are about one page.
AnswersRight ==
  LET answers == completions \cup Elements(device.completion_ring)
      Sent(id) == CHOOSE c \in sent : c.request_id = id
      translated == {c \in answers : c.status = "OK"
                                    /\ Sent(c.request_id).opcode = "KV_TRANSLATE"}
  IN  /\ \A c \in answers :
           LET r == Sent(c.request_id)
           IN  r.opcode = "SUBMIT_GRAPH" /\ ~ r.flags => MayAnswer(r.graph, r.priority, c)
      /\ \A c, e \in translated :
           c.result = e.result => Sent(c.request_id).argument = Sent(e.request_id).argument
      /\ \A c \in translated \cap Elements(device.completion_ring) :
           c.result = <<"page", device.kv_pages[Sent(c.request_id).argument]>>

\* Queues are enabled only for the newest authenticated firmware: no failed
\* boot, reset or older image leaves a device that takes commands.
OnlyVerifiedFirmwareRuns ==
  device.enabled =>
    /\ device.secure_verified /\ ~ device.boot_failed /\ device.status = "RUNNING"
    /\ device.firmware_version = device.otp_minimum_version

\* "Queue processing is permitted only in RUNNING": no step consumes a command
\* or a fault in another state (register_map.md:32).
QueuesServedOnlyRunning ==
  [][/\ device.status # "RUNNING"
     /\ phase # "idle"
     => /\ device'.command_ring = device.command_ring
        /\ device'.fault_ring = device.fault_ring]_vars

\* Every request a ring accepted is answered, or lost to a reset, or the device
\* fails: with a bounded number of requests, again and again none is waiting.
RequestsAnswered ==
  []<>(\/ SentIds \subseteq Ids(completions) \cup taken \cup LostIds
       \/ device.status = "FATAL")

=============================================================================

------------------------ MODULE TokenScheduler_proofs ------------------------
(***************************************************************************)
(* Theorems about the token scheduler, for every value of its constants.   *)
(***************************************************************************)
EXTENDS TokenSchedulerQos, FiniteSetTheorems, WellFoundedInduction, TLAPS

-----------------------------------------------------------------------------
(* Type correctness *)

LEMMA EmptyOutputs ==
  /\ <<>> \in Seq(Completion) /\ <<>> \in Seq(Event)
  /\ Len(<<>>) = 0 /\ 0 <= CPL_DEPTH /\ 0 <= TRACE_DEPTH
BY ParameterAssumption

\* The descriptor under the scan is one.
LEMMA DecodedType ==
  ASSUME QueueTypeOK, ControlTypeOK
  PROVE  Decoded \in Descriptor
<1>1. (active.base + scan_index) % MAX_DESCRIPTORS \in Index
  BY ParameterAssumption, SMT DEF ControlTypeOK, Index
<1>. QED BY <1>1 DEF QueueTypeOK, Decoded

\* A descriptor the decoder accepts has a known opcode and a scoreboard bit.
LEMMA ReadyType ==
  ASSUME QueueTypeOK, ControlTypeOK, CurrentReady
  PROVE  Decoded.opcode \in Opcode /\ Decoded.node \in Node /\ Decoded.operand0 \in Word
<1>1. Decoded \in Descriptor BY DecodedType
<1>2. FlagsValid(Decoded) /\ Decoded.node < MAX_NODES
  BY DEF CurrentReady, DecodedValid
<1>3. Decoded.opcode \in Opcode
  BY <1>1, <1>2 DEF FlagsValid, Opcode
<1>4. Decoded.node \in Node
  BY <1>1, <1>2, ParameterAssumption DEF Descriptor, Node
<1>. QED BY <1>1, <1>3, <1>4 DEF Descriptor

\* What an engine may answer, and the placeholder when none answers.
LEMMA ResponseType ==
  ASSUME NEW rsp \in Responses
  PROVE  rsp.status \in Status /\ rsp.result \in Word /\ rsp.saturated \subseteq Lane
<1>1. CASE Responding
  <2>1. EngineStatus[state] \subseteq Status
    BY <1>1 DEF EngineStatus, Status, Responding, WaitState
  <2>2. /\ rsp.status \in EngineStatus[state] /\ rsp.result \in EngineResults
        /\ rsp.saturated \in IF state = "WAIT_TENSOR" THEN SUBSET Lane ELSE {{}}
    BY <1>1 DEF Responses
  <2>. QED BY <2>1, <2>2, HostAssumption
<1>2. CASE ~ Responding BY <1>2 DEF Responses, Status, Word
<1>. QED BY <1>1, <1>2

\* The closure of words, of the saturating counters and of the latency a
\* grant starts from.
LEMMA WordType ==
  /\ \A a, b \in Word : Xor(a, b) \in Word
  /\ \A n : BitsOf(n) \in Word
  /\ \A m \in SUBSET Node : m \in Word
<1>1. Node \subseteq 0 .. DATA_W - 1 BY ParameterAssumption DEF Node
<1>. QED BY <1>1 DEF Word, Xor, BitsOf

LEMMA SaturateType == \A n \in Counter : Saturate(n) \in Counter
BY ParameterAssumption DEF Saturate, Counter

LEMMA GrantLatencyType == \A n \in Counter : GrantLatency(n) \in Counter
BY ParameterAssumption, SMT DEF GrantLatency, Counter

LEMMA TerminateType ==
  ASSUME ControlTypeOK, NEW status \in Status, NEW result \in Word,
         Terminate(status, result)
  PROVE  /\ state' \in State
         /\ issued' \in [node : Node, opcode : Opcode, operand0 : Word, status : Status]
BY DEF ControlTypeOK, Terminate, State

LEMMA NodeFinishedType ==
  ASSUME ControlTypeOK, NEW result \in Word, NodeFinished(result)
  PROVE  /\ state' \in State /\ scan_index' \in Nat /\ accumulated' \in Word
         /\ issued' \in [node : Node, opcode : Opcode, operand0 : Word, status : Status]
         /\ completed' \in SUBSET Node
<1>1. accumulated' \in Word BY WordType DEF ControlTypeOK, NodeFinished
<1>. QED BY <1>1 DEF ControlTypeOK, NodeFinished, State

LEMMA IdleType ==
  ASSUME QueueTypeOK, ControlTypeOK, QosTypeOK, Idle
  PROVE  ControlTypeOK' /\ QosTypeOK'
<1>1. CASE UNCHANGED <<control, qos>>
  BY <1>1 DEF ControlTypeOK, QosTypeOK, control, qos
<1>2. CASE \E s \in Grants : state' = "LOAD"
  <2>1. PICK s \in Grants :
          /\ active' = [id |-> request[s].id, base |-> request[s].base,
                        nodes |-> request[s].nodes, priority |-> request[s].priority]
          /\ latency' = GrantLatency(request[s].wait)
          /\ service' = 0
          /\ retire_recorded' = FALSE
          /\ accumulated' = {}
          /\ scan_index' = 0
          /\ state' = "LOAD"
          /\ UNCHANGED <<issued, completed, engine, qos_last, violation>>
    BY <1>2 DEF Idle, control
  <2>2. request[s] \in SlotEntry
    BY DEF Grants, Pending, QueueTypeOK
  <2>3. latency' \in Counter
    BY <2>1, <2>2, GrantLatencyType DEF SlotEntry
  <2>4. active' \in [id : Nat, base : Index, nodes : Nat, priority : Priority]
    BY <2>1, <2>2 DEF SlotEntry
  <2>5. accumulated' \in Word /\ service' \in Counter
    BY <2>1, ParameterAssumption DEF Word, Counter
  <2>. QED BY <2>1, <2>3, <2>4, <2>5 DEF ControlTypeOK, QosTypeOK, State
<1>. QED BY <1>1, <1>2 DEF Idle

LEMMA ServiceTickType ==
  ASSUME QosTypeOK, ServiceTick
  PROVE  QosTypeOK'
BY SaturateType DEF QosTypeOK, ServiceTick

LEMMA RecordRetirementType ==
  ASSUME ControlTypeOK, QosTypeOK, RecordRetirement
  PROVE  QosTypeOK'
<1>1. CASE retire_recorded BY <1>1 DEF QosTypeOK, RecordRetirement
<1>2. CASE ~ retire_recorded BY <1>2 DEF ControlTypeOK, QosTypeOK, RecordRetirement
<1>. QED BY <1>1, <1>2

LEMMA ScanType ==
  ASSUME QueueTypeOK, ControlTypeOK, NEW ww, Scan(ww)
  PROVE  ControlTypeOK'
<1>. DEFINE IssuedType ==
       issued' \in [node : Node, opcode : Opcode, operand0 : Word, status : Status]
<1>1. /\ state' \in State /\ IssuedType /\ scan_index' \in Nat
  <2>1. CASE Terminate("GRAPH_INVALID", BitsOf(scan_index)) /\ UNCHANGED scan_index
    <3>1. "GRAPH_INVALID" \in Status /\ BitsOf(scan_index) \in Word
      BY WordType DEF Status
    <3>. QED BY <2>1, <3>1, TerminateType DEF ControlTypeOK
  <2>2. CASE Skip
    <3>1. "GRAPH_DEADLOCK" \in Status /\ completed \in Word
      BY WordType DEF Status, ControlTypeOK
    <3>2. CASE scan_index + 1 >= active.nodes
      BY <2>2, <3>1, <3>2, TerminateType DEF Skip, ControlTypeOK
    <3>3. CASE ~ (scan_index + 1 >= active.nodes)
      BY <2>2, <3>3 DEF Skip, ControlTypeOK
    <3>. QED BY <3>2, <3>3
  <2>3. CASE CurrentReady /\ Issue(ww)
    <3>1. Decoded.opcode \in Opcode /\ Decoded.node \in Node /\ Decoded.operand0 \in Word
      BY <2>3, ReadyType
    <3>2. ServedIn[Decoded.opcode] \in State
      BY <3>1 DEF ServedIn, Opcode, State
    <3>3. state' \in State
      BY <2>3, <3>2 DEF Issue, State
    <3>. QED BY <2>3, <3>1, <3>3 DEF Issue, ControlTypeOK
  <2>. QED BY <2>1, <2>2, <2>3 DEF Scan
<1>2. engine' \in 0 .. EngineCycles
  BY DEF Scan, ControlTypeOK
<1>. QED BY <1>1, <1>2 DEF Scan, ControlTypeOK

LEMMA ExecImmediateType ==
  ASSUME ControlTypeOK, ExecImmediate
  PROVE  ControlTypeOK'
<1>1. CASE issued.opcode = "COMPLETE"
  <2>1. "OK" \in Status /\ Xor(accumulated, issued.operand0) \in Word
    BY WordType DEF Status, ControlTypeOK
  <2>. QED BY <1>1, <2>1, TerminateType DEF ExecImmediate, ControlTypeOK
<1>2. CASE issued.opcode # "COMPLETE"
  <2>1. issued.operand0 \in Word BY DEF ControlTypeOK
  <2>. QED BY <1>2, <2>1, NodeFinishedType DEF ExecImmediate, ControlTypeOK
<1>. QED BY <1>1, <1>2

LEMMA WaitEngineType ==
  ASSUME ControlTypeOK, NEW rsp \in Responses, WaitEngine(rsp)
  PROVE  ControlTypeOK'
<1>1. rsp.status \in Status /\ rsp.result \in Word BY ResponseType
<1>2. CASE engine > 0 /\ engine' = engine - 1
           /\ UNCHANGED <<state, scan_index, accumulated, issued, completed>>
  BY <1>2, ParameterAssumption DEF WaitEngine, ControlTypeOK
<1>3. CASE NodeFinished(rsp.result) /\ UNCHANGED engine
  BY <1>1, <1>3, NodeFinishedType DEF WaitEngine, ControlTypeOK
<1>4. CASE Terminate(rsp.status, rsp.result)
           /\ UNCHANGED <<accumulated, completed, scan_index, engine>>
  BY <1>1, <1>4, TerminateType DEF WaitEngine, ControlTypeOK
<1>. QED BY <1>2, <1>3, <1>4 DEF WaitEngine

\* One step of the FSM keeps the types of its registers and of the monitor.
LEMMA ControlType ==
  ASSUME QueueTypeOK, ControlTypeOK, QosTypeOK, NEW ww, NEW rsp \in Responses,
         Control(ww, rsp)
  PROVE  ControlTypeOK' /\ QosTypeOK'
<1>1. CASE Idle BY <1>1, IdleType
<1>2. CASE Load
  <2>1. ControlTypeOK' BY <1>2 DEF Load, ControlTypeOK, State
  <2>. QED BY <1>2, <2>1, ServiceTickType DEF Load
<1>3. CASE Scan(ww) BY <1>3, ScanType, ServiceTickType DEF Scan
<1>4. CASE ExecImmediate BY <1>4, ExecImmediateType, ServiceTickType DEF ExecImmediate
<1>5. CASE WaitEngine(rsp) BY <1>5, WaitEngineType, ServiceTickType DEF WaitEngine
<1>6. CASE Finish
  <2>1. ControlTypeOK' BY <1>6 DEF Finish, ControlTypeOK, State
  <2>. QED BY <1>6, <2>1, RecordRetirementType DEF Finish
<1>. QED BY <1>1, <1>2, <1>3, <1>4, <1>5, <1>6 DEF Control

LEMMA AgedType ==
  ASSUME QueueTypeOK, NEW s \in Slot
  PROVE  Aged(s) \in SlotEntry \cup {NoRequest}
<1>1. CASE request[s] = NoRequest \/ s \in Grants BY <1>1 DEF Aged
<1>2. CASE request[s] # NoRequest /\ s \notin Grants
  <2>1. request[s] \in SlotEntry BY <1>2 DEF QueueTypeOK
  <2>2. Saturate(request[s].wait) \in Counter BY <2>1, SaturateType DEF SlotEntry
  <2>3. Aged(s) = [request[s] EXCEPT !.wait = Saturate(request[s].wait)]
    BY <1>2 DEF Aged
  <2>. QED BY <2>1, <2>2, <2>3 DEF SlotEntry
<1>. QED BY <1>1, <1>2

LEMMA NewEntryType ==
  ASSUME QueueTypeOK, NEW r \in Requests
  PROVE  NewEntry(r) \in SlotEntry
<1>1. r \in HostRequest BY HostAssumption
<1>2. 0 \in Counter BY ParameterAssumption DEF Counter
<1>. QED BY <1>1, <1>2 DEF QueueTypeOK, NewEntry, SlotEntry, HostRequest

\* One step of the request and graph-write ports.
LEMMA QueueType ==
  ASSUME QueueTypeOK, RequestPort, GraphWritePort
  PROVE  QueueTypeOK'
<1>1. descriptor_mem' \in [Index -> Descriptor]
  BY HostAssumption DEF GraphWritePort, QueueTypeOK
<1>2. CASE AdmitNone
  BY <1>1, <1>2, AgedType DEF AdmitNone, QueueTypeOK
<1>3. ASSUME NEW r \in Requests, Admit(r) PROVE QueueTypeOK'
  <2>1. request' \in [Slot -> SlotEntry \cup {NoRequest}]
    BY <1>3, AgedType, NewEntryType DEF Admit
  <2>2. age_counter' \in 0 .. AGE_MOD - 1
    BY <1>3, ParameterAssumption, SMT DEF Admit, QueueTypeOK
  <2>3. submitted' \in 0 .. MaxRequests
    BY <1>3, ParameterAssumption DEF Admit, QueueTypeOK
  <2>. QED BY <1>1, <2>1, <2>2, <2>3 DEF QueueTypeOK
<1>. QED BY <1>2, <1>3 DEF RequestPort

LEMMA CompletionPortType ==
  ASSUME ControlTypeOK, OutputTypeOK, NEW cpl_ready, CompletionPort(cpl_ready)
  PROVE  /\ cpl_fifo' \in Seq(Completion) /\ Len(cpl_fifo') <= CPL_DEPTH
         /\ delivered' \in Seq(Completion)
<1>. DEFINE rest == IF Pop(cpl_ready) THEN Tail(cpl_fifo) ELSE cpl_fifo
<1>1. rest \in Seq(Completion) /\ Len(rest) <= Len(cpl_fifo)
  BY DEF Pop, OutputTypeOK
<1>2. Retired \in Completion
  BY DEF Retired, Completion, ControlTypeOK
<1>3. cpl_fifo' = IF Push THEN Append(rest, Retired) ELSE rest
  BY DEF CompletionPort
<1>4. cpl_fifo' \in Seq(Completion) /\ Len(cpl_fifo') <= CPL_DEPTH
  <2>1. Len(rest) \in Nat /\ Len(cpl_fifo) \in Nat BY <1>1 DEF OutputTypeOK
  <2>2. CASE Push
    <3>1. Len(cpl_fifo) < CPL_DEPTH BY <2>2 DEF Push, PushReady
    <3>2. Len(Append(rest, Retired)) = Len(rest) + 1 BY <1>1, <1>2
    <3>. HIDE DEF rest
    <3>. QED BY <1>1, <1>2, <1>3, <2>1, <2>2, <3>1, <3>2, ParameterAssumption
  <2>3. CASE ~ Push
    <3>. HIDE DEF rest
    <3>. QED BY <1>1, <1>3, <2>1, <2>3, ParameterAssumption DEF OutputTypeOK
  <2>. QED BY <2>2, <2>3
<1>5. delivered' \in Seq(Completion)
  <2>1. CASE Pop(cpl_ready)
    <3>1. Head(cpl_fifo) \in Completion BY <2>1 DEF Pop, OutputTypeOK
    <3>. QED BY <2>1, <3>1 DEF CompletionPort, OutputTypeOK
  <2>2. CASE ~ Pop(cpl_ready) BY <2>2 DEF CompletionPort, OutputTypeOK
  <2>. QED BY <2>1, <2>2
<1>. QED BY <1>4, <1>5

\* What an event has room for fits it.
LEMMA PayloadType ==
  ASSUME NEW rsp \in Responses
  PROVE  /\ \A word \in Word : LowBits(PAYLOAD_W, word) \in SUBSET (0 .. PAYLOAD_W - 1)
         /\ Payload(rsp) \in SUBSET (0 .. PAYLOAD_W - 1)
<1>1. /\ PAYLOAD_W \in Nat /\ LANES \in Nat /\ LANES <= PAYLOAD_W /\ DATA_W \in Nat
  BY ParameterAssumption
<1>2. \A word \in Word, w \in Nat : w <= PAYLOAD_W =>
        LowBits(w, word) \in SUBSET (0 .. PAYLOAD_W - 1)
  <2>. SUFFICES ASSUME NEW word \in Word, NEW w \in Nat, w <= PAYLOAD_W,
                       NEW b \in LowBits(w, word)
                PROVE  b \in 0 .. PAYLOAD_W - 1
    OBVIOUS
  <2>1. b \in 0 .. DATA_W - 1 /\ b < w BY DEF LowBits, Word
  <2>. QED BY <1>1, <2>1
<1>3. rsp.result \in Word /\ rsp.saturated \subseteq Lane BY ResponseType
<1>4. {PAYLOAD_W - LANES + l : l \in rsp.saturated} \subseteq 0 .. PAYLOAD_W - 1
  BY <1>1, <1>3 DEF Lane
<1>. QED BY <1>1, <1>2, <1>3, <1>4 DEF Payload

\* Every event the scheduler traces is one.
LEMMA EventType ==
  ASSUME QueueTypeOK, ControlTypeOK, NEW rsp \in Responses, NEW e \in Events(rsp)
  PROVE  e \in Event
<1>1. ASSUME CurrentReady PROVE IssueEvent \in Event
  <2>1. Decoded.opcode \in Opcode /\ Decoded.node \in Node BY <1>1, ReadyType
  <2>2. {} \in SUBSET (0 .. PAYLOAD_W - 1) /\ "OK" \in Status BY DEF Status
  <2>. QED BY <2>1, <2>2 DEF IssueEvent, Event, ControlTypeOK
<1>2. \A status \in Status, payload \in SUBSET (0 .. PAYLOAD_W - 1) :
        FinishEvent(status, payload) \in Event
  BY DEF FinishEvent, Event, ControlTypeOK
<1>3. "OK" \in Status /\ LowBits(PAYLOAD_W, issued.operand0) \in SUBSET (0 .. PAYLOAD_W - 1)
  BY PayloadType DEF Status, ControlTypeOK
<1>4. rsp.status \in Status /\ Payload(rsp) \in SUBSET (0 .. PAYLOAD_W - 1)
  BY ResponseType, PayloadType
<1>. QED BY <1>1, <1>2, <1>3, <1>4 DEF Events

LEMMA TracePortType ==
  ASSUME QueueTypeOK, ControlTypeOK, OutputTypeOK, NEW trace_clear,
         NEW rsp \in Responses, TracePort(trace_clear, rsp)
  PROVE  /\ trace' \in Seq(Event) /\ Len(trace') <= TRACE_DEPTH
         /\ trace_overflow' \in BOOLEAN
<1>1. \A e \in Events(rsp) : e \in Event BY EventType
<1>2. CASE trace_clear /\ trace' = <<>> /\ trace_overflow' = FALSE
  BY <1>2, EmptyOutputs
<1>3. CASE UNCHANGED <<trace, trace_overflow>>
  BY <1>3 DEF OutputTypeOK
<1>4. ASSUME NEW e \in Events(rsp), Len(trace) < TRACE_DEPTH,
             trace' = Append(trace, e), UNCHANGED trace_overflow
      PROVE  /\ trace' \in Seq(Event) /\ Len(trace') <= TRACE_DEPTH
             /\ trace_overflow' \in BOOLEAN
  BY <1>1, <1>4, ParameterAssumption DEF OutputTypeOK
<1>5. ASSUME trace_overflow' = TRUE, UNCHANGED trace
      PROVE  /\ trace' \in Seq(Event) /\ Len(trace') <= TRACE_DEPTH
             /\ trace_overflow' \in BOOLEAN
  BY <1>5 DEF OutputTypeOK
<1>. QED BY <1>2, <1>3, <1>4, <1>5 DEF TracePort

LEMMA InitType == Init => TypeOK
<1>. SUFFICES ASSUME Init PROVE TypeOK OBVIOUS
<1>1. QueueTypeOK
  BY ParameterAssumption, HostAssumption DEF Init, QueueTypeOK
<1>2. 0 \in Node /\ 0 \in Index /\ 0 \in Priority /\ {} \in Word /\ 0 \in Counter
  BY ParameterAssumption DEF Node, Index, Priority, Word, Counter
<1>3. ControlTypeOK
  BY <1>2, ParameterAssumption
  DEF Init, ControlTypeOK, NoActive, NoIssue, State, Opcode, Status
<1>4. QosTypeOK
  BY <1>2 DEF Init, QosTypeOK
<1>5. OutputTypeOK
  BY EmptyOutputs DEF Init, OutputTypeOK
<1>. QED BY <1>1, <1>3, <1>4, <1>5 DEF TypeOK

LEMMA ResetType == TypeOK /\ Reset => TypeOK'
<1>. SUFFICES ASSUME TypeOK, Reset PROVE TypeOK' OBVIOUS
<1>1. QueueTypeOK'
  BY ParameterAssumption DEF Reset, TypeOK, QueueTypeOK
<1>2. 0 \in Node /\ 0 \in Index /\ 0 \in Priority /\ {} \in Word /\ 0 \in Counter
  BY ParameterAssumption DEF Node, Index, Priority, Word, Counter
<1>3. ControlTypeOK'
  BY <1>2, ParameterAssumption
  DEF Reset, ControlTypeOK, NoActive, NoIssue, State, Opcode, Status
<1>4. QosTypeOK'
  BY <1>2 DEF Reset, QosTypeOK
<1>5. OutputTypeOK'
  BY EmptyOutputs DEF Reset, OutputTypeOK
<1>. QED BY <1>1, <1>3, <1>4, <1>5 DEF TypeOK

\* The types of all registers are an invariant: no step takes a counter, an
\* index, the FIFO or the trace out of the range its declaration gives it.
THEOREM TypeCorrect == Spec => []TypeOK
<1>1. TypeOK /\ [Next]_vars => TypeOK'
  <2>. SUFFICES ASSUME TypeOK, [Next]_vars PROVE TypeOK' OBVIOUS
  <2>1. CASE ClockEdge
    <3>1. PICK ww \in WeightWrite, cr \in CplReady, tc \in TraceClear, rsp \in Responses :
            Cycle(ww, cr, tc, rsp)
      BY <2>1 DEF ClockEdge
    <3>2. ControlTypeOK' /\ QosTypeOK' BY <3>1, ControlType DEF Cycle, TypeOK
    <3>3. QueueTypeOK' BY <3>1, QueueType DEF Cycle, TypeOK
    <3>4. OutputTypeOK'
      BY <3>1, CompletionPortType, TracePortType DEF Cycle, TypeOK, OutputTypeOK
    <3>. QED BY <3>2, <3>3, <3>4 DEF TypeOK
  <2>2. CASE Reset BY <2>2, ResetType
  <2>3. CASE UNCHANGED vars
    BY <2>3 DEF vars, queue, control, qos, outputs, host, TypeOK, QueueTypeOK,
                ControlTypeOK, QosTypeOK, OutputTypeOK
  <2>. QED BY <2>1, <2>2, <2>3 DEF Next
<1>. QED BY InitType, <1>1, PTL DEF Spec

-----------------------------------------------------------------------------
(* No accepted request is lost *)

\* The arbiter grants one slot at most.
LEMMA GrantUnique ==
  ASSUME QueueTypeOK, NEW s \in Grants, NEW t \in Grants
  PROVE  s = t
<1>. SUFFICES ASSUME s # t PROVE FALSE OBVIOUS
<1>1. /\ s \in Pending /\ t \in Pending /\ Wins(s) /\ Wins(t)
      /\ request[s] \in SlotEntry /\ request[t] \in SlotEntry
      /\ s \in Int /\ t \in Int
  BY DEF Grants, Pending, QueueTypeOK, Slot
<1>2. Better(s, t) \/ (~ Better(t, s) /\ s < t) BY <1>1 DEF Wins
<1>3. Better(t, s) \/ (~ Better(s, t) /\ t < s) BY <1>1 DEF Wins
<1>4. ~ (Better(s, t) /\ Better(t, s))
  BY <1>1 DEF Better, SlotEntry, Priority
<1>. QED BY <1>1, <1>2, <1>3, <1>4

\* There is one lowest free slot at most, and it is free.
LEMMA LowestUnique ==
  /\ \A s \in LowestFree : s \in Slot /\ s \notin Pending
  /\ \A s, t \in LowestFree : s = t
BY DEF LowestFree, Slot

Entry(s) == <<request[s].id, request[s].priority, request[s].age>>

\* What the request port leaves in the slots: entries that were not granted,
\* unchanged but for their wait, and possibly the new one.
LEMMA SlotsAfter ==
  ASSUME QueueTypeOK, RequestPort
  PROVE  /\ \A s \in Pending \ Grants : s \in Pending' /\ Entry(s)' = Entry(s)
         /\ \A s \in Pending' \ Pending :
              /\ s \in LowestFree
              /\ submitted' = submitted + 1 /\ submitted < MaxRequests
              /\ Entry(s)'[1] = submitted'
              /\ Entry(s)'[3] = age_counter
         /\ \A s \in Pending' \cap Pending : s \notin Grants
         /\ \/ UNCHANGED <<submitted, age_counter>>
            \/ /\ submitted' = submitted + 1 /\ age_counter' = (age_counter + 1) % AGE_MOD
               /\ submitted < MaxRequests
               /\ \E s \in Pending' : Entry(s)'[1] = submitted'
<1>1. ASSUME NEW s \in Pending \ Grants
      PROVE  /\ Aged(s) # NoRequest /\ Aged(s).id = request[s].id
             /\ Aged(s).priority = request[s].priority /\ Aged(s).age = request[s].age
  <2>1. request[s] \in SlotEntry /\ request[s] # NoRequest
    BY DEF Pending, QueueTypeOK
  <2>2. Aged(s) = [request[s] EXCEPT !.wait = Saturate(request[s].wait)]
    BY <2>1 DEF Aged
  <2>3. Aged(s) \in SlotEntry
    BY <2>1, <2>2, SaturateType DEF SlotEntry
  <2>4. Aged(s) # NoRequest BY <2>3, HostAssumption
  <2>. QED BY <2>1, <2>2, <2>4 DEF SlotEntry
<1>2. \A s \in Slot : s \notin Pending \/ s \in Grants => Aged(s) = NoRequest
  BY DEF Aged, Pending
<1>3. CASE AdmitNone
  <2>1. \A s \in Slot : request'[s] = Aged(s) BY <1>3 DEF AdmitNone
  <2>2. \A s \in Pending \ Grants : s \in Pending' /\ Entry(s)' = Entry(s)
    BY <1>1, <2>1 DEF Pending, Entry
  <2>3. \A s \in Pending' : s \in Pending /\ s \notin Grants
    BY <1>2, <2>1 DEF Pending
  <2>. QED BY <1>3, <2>2, <2>3 DEF AdmitNone
<1>4. ASSUME NEW r \in Requests, Admit(r)
      PROVE  /\ \A s \in Pending \ Grants : s \in Pending' /\ Entry(s)' = Entry(s)
             /\ \A s \in Pending' \ Pending :
                  s \in LowestFree /\ Entry(s)'[1] = submitted' /\ Entry(s)'[3] = age_counter
             /\ \A s \in Pending' \cap Pending : s \notin Grants
             /\ \E s \in Pending' : Entry(s)'[1] = submitted'
  <2>1. \A s \in Slot :
          request'[s] = IF s \in LowestFree THEN NewEntry(r) ELSE Aged(s)
    BY <1>4 DEF Admit
  <2>2. NewEntry(r) # NoRequest BY NewEntryType, HostAssumption
  <2>3. NewEntry(r).id = submitted' /\ NewEntry(r).age = age_counter
    BY <1>4 DEF Admit, NewEntry
  <2>4. \A s \in Pending \ Grants : s \in Pending' /\ Entry(s)' = Entry(s)
    BY <1>1, <2>1, LowestUnique DEF Pending, Entry
  <2>5. \A s \in LowestFree :
          s \in Pending' /\ Entry(s)'[1] = submitted' /\ Entry(s)'[3] = age_counter
    BY <2>1, <2>2, <2>3, LowestUnique DEF Pending, Entry
  <2>6. \A s \in Pending' : s \notin LowestFree => s \in Pending /\ s \notin Grants
    BY <1>2, <2>1 DEF Pending
  <2>7. \A s \in Pending' \cap Pending : s \notin Grants
    BY <2>6, LowestUnique
  <2>. QED BY <1>4, <2>4, <2>5, <2>6, <2>7 DEF Admit, Admissible
<1>. QED BY <1>3, <1>4 DEF RequestPort, Admit

\* What the completion port does to the ids it holds and has handed over.
LEMMA CompletionsAfter ==
  ASSUME OutputTypeOK, ControlTypeOK, NEW cr, CompletionPort(cr)
  PROVE  /\ InFifo \cup Taken \subseteq InFifo' \cup Taken'
         /\ Push => active.id \in InFifo'
<1>. DEFINE rest == IF Pop(cr) THEN Tail(cpl_fifo) ELSE cpl_fifo
<1>1. rest \in Seq(Completion)
  BY DEF Pop, OutputTypeOK
<1>2. Retired \in Completion /\ Retired.id = active.id
  BY DEF Retired, Completion, ControlTypeOK
<1>3. cpl_fifo' = IF Push THEN Append(rest, Retired) ELSE rest
  BY DEF CompletionPort
<1>4. \A k \in 1 .. Len(rest) : k \in 1 .. Len(cpl_fifo') /\ cpl_fifo'[k] = rest[k]
  <2>. HIDE DEF rest
  <2>. QED BY <1>1, <1>2, <1>3
<1>5. Push => active.id \in InFifo'
  <2>. SUFFICES ASSUME Push PROVE active.id \in InFifo' OBVIOUS
  <2>1. cpl_fifo' = Append(rest, Retired) BY <1>3
  <2>. HIDE DEF rest
  <2>2. Len(rest) + 1 \in DOMAIN cpl_fifo' /\ cpl_fifo'[Len(rest) + 1] = Retired
    BY <1>1, <1>2, <2>1
  <2>. QED BY <1>2, <2>2 DEF InFifo
<1>6. Taken \subseteq Taken'
  BY DEF Taken, CompletionPort, OutputTypeOK
<1>7. ASSUME NEW k \in DOMAIN cpl_fifo PROVE cpl_fifo[k].id \in InFifo' \cup Taken'
  <2>1. k \in 1 .. Len(cpl_fifo) BY <1>7 DEF OutputTypeOK
  <2>2. CASE ~ Pop(cr)
    BY <1>4, <2>1, <2>2 DEF InFifo
  <2>3. CASE Pop(cr) /\ k = 1
    <3>1. delivered' = Append(delivered, Head(cpl_fifo)) /\ Head(cpl_fifo) = cpl_fifo[1]
      BY <2>3 DEF CompletionPort, Pop, OutputTypeOK
    <3>2. Head(cpl_fifo) \in Completion BY <2>3 DEF Pop, OutputTypeOK
    <3>3. /\ Len(delivered) + 1 \in DOMAIN delivered'
          /\ delivered'[Len(delivered) + 1] = cpl_fifo[1]
      BY <3>1, <3>2 DEF OutputTypeOK
    <3>. QED BY <2>3, <3>3 DEF Taken
  <2>4. CASE Pop(cr) /\ k # 1
    <3>1. k - 1 \in 1 .. Len(rest) /\ rest[k - 1] = cpl_fifo[k]
      BY <2>1, <2>4 DEF Pop, OutputTypeOK
    <3>. QED BY <1>4, <3>1 DEF InFifo
  <2>. QED BY <2>2, <2>3, <2>4
<1>. QED BY <1>5, <1>6, <1>7 DEF InFifo

\* Where the request in service goes: it stays, or its completion is queued.
LEMMA ServiceAfter ==
  ASSUME ControlTypeOK, NEW ww, NEW rsp, Control(ww, rsp), Serving
  PROVE  (Serving' /\ active' = active) \/ Push
<1>1. CASE Idle BY <1>1 DEF Idle, Serving
<1>2. CASE Load BY <1>2 DEF Load, Serving
<1>3. CASE Scan(ww)
  <2>1. CurrentReady /\ state' = ServedIn[Decoded.opcode] => state' # "IDLE"
    <3>1. CurrentReady => Decoded.opcode \in Opcode
      BY DEF CurrentReady, DecodedValid, FlagsValid
    <3>. QED BY <3>1 DEF ServedIn, Opcode
  <2>. QED BY <1>3, <2>1 DEF Scan, Terminate, Skip, Issue, Serving
<1>4. CASE ExecImmediate BY <1>4 DEF ExecImmediate, Terminate, NodeFinished, Serving
<1>5. CASE WaitEngine(rsp) BY <1>5 DEF WaitEngine, Terminate, NodeFinished, Serving
<1>6. CASE Finish BY <1>6 DEF Finish, Serving, Push
<1>. QED BY <1>1, <1>2, <1>3, <1>4, <1>5, <1>6 DEF Control

\* A granted request is in service in the next cycle.
LEMMA GrantedServed ==
  ASSUME QueueTypeOK, NEW ww, NEW rsp, Control(ww, rsp), NEW s \in Grants
  PROVE  request[s].id \in InService'
<1>1. state = "IDLE" BY DEF Grants
<1>2. Idle
  BY <1>1 DEF Control, Load, Scan, ExecImmediate, WaitEngine, WaitState, Finish
<1>3. PICK t \in Grants : active'.id = request[t].id /\ state' = "LOAD"
  BY <1>2 DEF Idle
<1>4. s = t BY GrantUnique
<1>. QED BY <1>3, <1>4 DEF InService, Serving

\* No request the scheduler accepted is lost: the step that takes it out of a
\* slot puts it in service, the one that ends its service queues a completion,
\* and a completion leaves the FIFO only for the host.
THEOREM RequestsKept == Spec => []NoRequestLost
<1>1. Init => NoRequestLost
  BY DEF Init, NoRequestLost
<1>2. TypeOK /\ NoRequestLost /\ [Next]_vars => NoRequestLost'
  <2>. SUFFICES ASSUME TypeOK, NoRequestLost, [Next]_vars PROVE NoRequestLost' OBVIOUS
  <2>. USE DEF TypeOK
  <2>1. CASE ClockEdge
    <3>1. PICK ww \in WeightWrite, cr \in CplReady, tc \in TraceClear, rsp \in Responses :
            Cycle(ww, cr, tc, rsp)
      BY <2>1 DEF ClockEdge
    <3>2. Control(ww, rsp) /\ RequestPort /\ CompletionPort(cr) BY <3>1 DEF Cycle
    <3>. DEFINE Held == InSlots \cup InService \cup InFifo \cup Taken
    <3>3. InSlots \subseteq Held'
      <4>. SUFFICES ASSUME NEW s \in Pending PROVE request[s].id \in Held'
        BY DEF InSlots
      <4>1. CASE s \in Grants BY <3>2, <4>1, GrantedServed
      <4>2. CASE s \notin Grants
        <5>1. s \in Pending' /\ Entry(s)' = Entry(s) BY <3>2, <4>2, SlotsAfter
        <5>2. request'[s].id = request[s].id BY <5>1 DEF Entry
        <5>. QED BY <5>1, <5>2 DEF InSlots
      <4>. QED BY <4>1, <4>2
    <3>4. InService \subseteq Held'
      <4>. SUFFICES ASSUME Serving PROVE active.id \in Held'
        BY DEF InService
      <4>1. CASE Serving' /\ active' = active BY <4>1 DEF InService
      <4>2. CASE Push BY <3>2, <4>2, CompletionsAfter
      <4>. QED BY <3>2, <4>1, <4>2, ServiceAfter
    <3>5. InFifo \cup Taken \subseteq Held' BY <3>2, CompletionsAfter
    <3>6. \A i \in 1 .. submitted' : i \in 1 .. submitted \/ i \in InSlots'
      <4>1. CASE submitted' = submitted BY <4>1
      <4>2. CASE submitted' = submitted + 1 /\ \E s \in Pending' : Entry(s)'[1] = submitted'
        <5>1. submitted' \in InSlots' BY <4>2 DEF Entry, InSlots
        <5>. QED BY <4>2, <5>1 DEF QueueTypeOK
      <4>. QED BY <3>2, <4>1, <4>2, SlotsAfter
    <3>. QED BY <3>3, <3>4, <3>5, <3>6 DEF NoRequestLost
  <2>2. CASE Reset BY <2>2 DEF Reset, NoRequestLost
  <2>3. CASE UNCHANGED vars
    BY <2>3 DEF vars, queue, control, outputs, host, NoRequestLost, InSlots, Pending,
                InService, Serving, InFifo, Taken
  <2>. QED BY <2>1, <2>2, <2>3 DEF Next
<1>. QED BY <1>1, <1>2, TypeCorrect, PTL DEF Spec

-----------------------------------------------------------------------------
(* Equal priorities keep the submission order, but across a wrap of the age *)

\* The age a after n admissions: n less some number of whole turns.
Placed(n, a) == a \in 0 .. AGE_MOD - 1 /\ \E q \in Nat : n = AGE_MOD * q + a

LEMMA PlacedTurn ==
  ASSUME NEW a \in 0 .. AGE_MOD - 1, NEW q \in Nat
  PROVE  /\ (AGE_MOD * q + a) \div AGE_MOD = q
         /\ (AGE_MOD * q + a) % AGE_MOD = a
BY ParameterAssumption

LEMMA PlacedNext ==
  ASSUME NEW n \in Nat, NEW a, Placed(n, a)
  PROVE  Placed(n + 1, (a + 1) % AGE_MOD)
<1>1. PICK q \in Nat : n = AGE_MOD * q + a BY DEF Placed
<1>2. AGE_MOD \in Nat \ {0} /\ a \in 0 .. AGE_MOD - 1 BY ParameterAssumption DEF Placed
<1>3. AGE_MOD * q \in Int /\ AGE_MOD * (q + 1) = AGE_MOD * q + AGE_MOD
  <2>1. AGE_MOD \in Nat /\ q \in Nat BY <1>2
  <2>. QED BY <2>1
<1>4. CASE a + 1 < AGE_MOD
  <2>1. (a + 1) % AGE_MOD = a + 1 BY <1>2, <1>4
  <2>2. a \in Int /\ n + 1 = AGE_MOD * q + (a + 1) BY <1>1, <1>2, <1>3
  <2>3. a + 1 \in 0 .. AGE_MOD - 1 BY <1>2, <1>4
  <2>. QED BY <2>1, <2>2, <2>3 DEF Placed
<1>5. CASE a + 1 = AGE_MOD
  <2>1. (a + 1) % AGE_MOD = 0 BY <1>2, <1>5
  <2>2. a \in Int /\ n + 1 = AGE_MOD * (q + 1) + 0 BY <1>1, <1>2, <1>3, <1>5
  <2>3. 0 \in 0 .. AGE_MOD - 1 /\ q + 1 \in Nat BY <1>2
  <2>. QED BY <2>1, <2>2, <2>3 DEF Placed
<1>. QED BY <1>2, <1>4, <1>5

\* Within one turn ages are in the order of submission, and before the first
\* wrap an age is the number of requests admitted earlier.
LEMMA PlacedOrder ==
  ASSUME NEW m \in Nat, NEW a, Placed(m, a), NEW n \in Nat, NEW b, Placed(n, b),
         m \div AGE_MOD = n \div AGE_MOD, a <= b
  PROVE  m <= n
<1>1. PICK q \in Nat : m = AGE_MOD * q + a BY DEF Placed
<1>2. PICK r \in Nat : n = AGE_MOD * r + b BY DEF Placed
<1>3. a \in 0 .. AGE_MOD - 1 /\ b \in 0 .. AGE_MOD - 1 BY DEF Placed
<1>4. m \div AGE_MOD = q BY <1>1, <1>3, PlacedTurn
<1>5. n \div AGE_MOD = r BY <1>2, <1>3, PlacedTurn
<1>6. m = AGE_MOD * q + a /\ n = AGE_MOD * q + b BY <1>1, <1>2, <1>4, <1>5
<1>7. AGE_MOD * q \in Int BY ParameterAssumption
<1>. QED BY <1>3, <1>6, <1>7

LEMMA PlacedFirst ==
  ASSUME NEW n \in Nat, NEW a, Placed(n, a), n < AGE_MOD
  PROVE  a = n
<1>1. PICK q \in Nat : n = AGE_MOD * q + a BY DEF Placed
<1>2. n % AGE_MOD = a BY <1>1, PlacedTurn DEF Placed
<1>3. n % AGE_MOD = n BY ParameterAssumption
<1>. QED BY <1>2, <1>3

\* The slots hold requests submitted since reset, each once, and the age of a
\* request tells its place in the order of submission within a turn.
AgesTellPlace ==
  /\ Placed(submitted, age_counter)
  /\ \A s \in Pending : /\ request[s].id \in 1 .. submitted
                        /\ Placed(request[s].id - 1, request[s].age)
  /\ \A s, t \in Pending : request[s].id = request[t].id => s = t

\* What a grant tells of another pending request.
LEMMA GrantedIsOldest ==
  ASSUME QueueTypeOK, NEW s \in Grants, NEW t \in Pending \ {s}
  PROVE  /\ s \in Pending /\ request[s] \in SlotEntry /\ request[t] \in SlotEntry
         /\ \/ request[t].priority < request[s].priority
            \/ request[t].priority = request[s].priority /\ request[s].age <= request[t].age
<1>1. /\ s \in Pending /\ s # t /\ Wins(s)
      /\ request[s] \in SlotEntry /\ request[t] \in SlotEntry
  BY DEF Grants, Pending, QueueTypeOK
<1>2. Better(s, t) \/ ~ Better(t, s) BY <1>1 DEF Wins
<1>. QED BY <1>1, <1>2 DEF Better, SlotEntry, Priority

LEMMA AgesGiveOrder == QueueTypeOK /\ AgesTellPlace => OrderKept
<1>. SUFFICES ASSUME QueueTypeOK, AgesTellPlace, NEW s \in Grants, NEW t \in Pending \ {s},
                     request[t].priority = request[s].priority,
                     Turn(request[s].id) = Turn(request[t].id)
              PROVE  request[s].id < request[t].id
  BY GrantedIsOldest DEF OrderKept
<1>1. /\ s \in Pending /\ request[s] \in SlotEntry /\ request[t] \in SlotEntry
      /\ request[s].age <= request[t].age
  BY GrantedIsOldest DEF SlotEntry, Priority
<1>2. /\ request[s].id # request[t].id
      /\ request[s].id \in 1 .. submitted /\ request[t].id \in 1 .. submitted
      /\ Placed(request[s].id - 1, request[s].age) /\ Placed(request[t].id - 1, request[t].age)
  BY <1>1 DEF AgesTellPlace
<1>3. request[s].id - 1 \in Nat /\ request[t].id - 1 \in Nat BY <1>2
<1>4. request[s].id - 1 <= request[t].id - 1
  BY <1>1, <1>2, <1>3, PlacedOrder DEF Turn
<1>. QED BY <1>2, <1>4

LEMMA AgesPlaced == Spec => []AgesTellPlace
<1>1. Init => AgesTellPlace
  <2>. SUFFICES ASSUME Init PROVE AgesTellPlace OBVIOUS
  <2>1. Placed(0, 0)
    <3>1. 0 = AGE_MOD * 0 + 0 BY ParameterAssumption
    <3>. QED BY <3>1, ParameterAssumption DEF Placed
  <2>. QED BY <2>1 DEF Init, AgesTellPlace, Pending
<1>2. TypeOK /\ AgesTellPlace /\ [Next]_vars => AgesTellPlace'
  <2>. SUFFICES ASSUME TypeOK, AgesTellPlace, [Next]_vars PROVE AgesTellPlace' OBVIOUS
  <2>. USE DEF TypeOK
  <2>1. CASE ClockEdge
    <3>1. RequestPort BY <2>1 DEF ClockEdge, Cycle
    <3>2. submitted \in Nat /\ submitted' \in Nat /\ submitted <= submitted'
      BY <3>1, SlotsAfter, ParameterAssumption DEF QueueTypeOK
    <3>3. Placed(submitted', age_counter')
      <4>1. CASE UNCHANGED <<submitted, age_counter>> BY <4>1 DEF AgesTellPlace
      <4>2. CASE submitted' = submitted + 1 /\ age_counter' = (age_counter + 1) % AGE_MOD
        BY <3>2, <4>2, PlacedNext DEF AgesTellPlace
      <4>. QED BY <3>1, <4>1, <4>2, SlotsAfter
    <3>4. \A s \in Pending' \ Pending :
            /\ request'[s].id = submitted' /\ submitted' = submitted + 1
            /\ request'[s].age = age_counter /\ s \in LowestFree
      BY <3>1, <3>2, SlotsAfter DEF Entry
    <3>5. \A s \in Pending' \cap Pending :
            request'[s].id = request[s].id /\ request'[s].age = request[s].age
      BY <3>1, SlotsAfter DEF Entry
    <3>6. ASSUME NEW s \in Pending'
          PROVE  request'[s].id \in 1 .. submitted' /\ Placed(request'[s].id - 1, request'[s].age)
      <4>1. CASE s \in Pending BY <3>2, <3>5, <4>1 DEF AgesTellPlace
      <4>2. CASE s \notin Pending
        <5>1. request'[s].id = submitted + 1 /\ request'[s].age = age_counter
          BY <3>4, <4>2
        <5>2. request'[s].id - 1 = submitted BY <3>2, <5>1
        <5>. QED BY <3>2, <3>4, <4>2, <5>1, <5>2 DEF AgesTellPlace
      <4>. QED BY <4>1, <4>2
    <3>7. \A s, t \in Pending' : request'[s].id = request'[t].id => s = t
      <4>. SUFFICES ASSUME NEW s \in Pending', NEW t \in Pending',
                           request'[s].id = request'[t].id
                    PROVE  s = t
        OBVIOUS
      <4>1. CASE s \in Pending /\ t \in Pending BY <3>5, <4>1 DEF AgesTellPlace
      <4>2. CASE s \notin Pending /\ t \notin Pending BY <3>4, <4>2, LowestUnique
      <4>3. CASE s \in Pending /\ t \notin Pending
        BY <3>2, <3>4, <3>5, <4>3 DEF AgesTellPlace
      <4>4. CASE s \notin Pending /\ t \in Pending
        BY <3>2, <3>4, <3>5, <4>4 DEF AgesTellPlace
      <4>. QED BY <4>1, <4>2, <4>3, <4>4
    <3>8. (\A s \in Pending : /\ request[s].id \in 1 .. submitted
                              /\ Placed(request[s].id - 1, request[s].age))'
      BY <3>6 DEF Placed
    <3>. QED BY <3>3, <3>7, <3>8 DEF AgesTellPlace, Placed
  <2>2. CASE Reset
    <3>1. Placed(0, 0)
      <4>1. 0 = AGE_MOD * 0 + 0 BY ParameterAssumption
      <4>. QED BY <4>1, ParameterAssumption DEF Placed
    <3>. QED BY <2>2, <3>1 DEF Reset, AgesTellPlace, Pending, Placed
  <2>3. CASE UNCHANGED vars
    BY <2>3 DEF vars, queue, host, AgesTellPlace, Pending, Placed
  <2>. QED BY <2>1, <2>2, <2>3 DEF Next
<1>. QED BY <1>1, <1>2, TypeCorrect, PTL DEF Spec

\* The arbiter grants the highest pending priority and, of the requests of that
\* priority admitted in the same turn of the age counter, the oldest.
THEOREM SubmissionOrder == Spec => []OrderKept
BY AgesPlaced, TypeCorrect, AgesGiveOrder, PTL DEF TypeOK

\* While the age counter cannot wrap, an age is the number of requests
\* submitted before.
AgesTellOrder ==
  /\ \A s \in Pending : request[s].id \in 1 .. submitted /\ request[s].age = request[s].id - 1
  /\ \A s, t \in Pending : request[s].id = request[t].id => s = t

LEMMA AgesAlways ==
  ASSUME MaxRequests <= AGE_MOD
  PROVE  Spec => []AgesTellOrder
<1>1. TypeOK /\ AgesTellPlace => AgesTellOrder
  <2>. SUFFICES ASSUME TypeOK, AgesTellPlace, NEW s \in Pending
                PROVE  request[s].age = request[s].id - 1
    BY DEF AgesTellPlace, AgesTellOrder
  <2>1. request[s].id \in 1 .. submitted /\ Placed(request[s].id - 1, request[s].age)
    BY DEF AgesTellPlace
  <2>2. submitted \in 0 .. MaxRequests BY DEF TypeOK, QueueTypeOK
  <2>3. request[s].id - 1 \in Nat /\ request[s].id - 1 < AGE_MOD
    BY <2>1, <2>2, ParameterAssumption
  <2>. QED BY <2>1, <2>3, PlacedFirst
<1>. QED BY <1>1, AgesPlaced, TypeCorrect, PTL

\* "Equal priorities retain submission order": the granted request is the
\* oldest of the highest pending priority.
OldestGranted ==
  \A s \in Grants : \A t \in Pending \ {s} :
    \/ request[t].priority < request[s].priority
    \/ request[t].priority = request[s].priority /\ request[s].id < request[t].id

LEMMA OldestIsGranted == QueueTypeOK /\ AgesTellOrder => OldestGranted
<1>. SUFFICES ASSUME QueueTypeOK, AgesTellOrder, NEW s \in Grants, NEW t \in Pending \ {s},
                     ~ (request[t].priority < request[s].priority)
              PROVE  /\ request[t].priority = request[s].priority
                     /\ request[s].id < request[t].id
  BY DEF OldestGranted
<1>1. /\ s \in Pending /\ request[s] \in SlotEntry /\ request[t] \in SlotEntry
      /\ request[t].priority = request[s].priority /\ request[s].age <= request[t].age
  BY GrantedIsOldest
<1>2. /\ request[s].id # request[t].id
      /\ request[s].age = request[s].id - 1 /\ request[t].age = request[t].id - 1
  BY <1>1 DEF AgesTellOrder
<1>. QED BY <1>1, <1>2 DEF SlotEntry

\* As long as no more requests are submitted than the age counter tells apart,
\* the documented order holds without exception.
THEOREM SubmissionOrderWithoutWrap ==
  ASSUME MaxRequests <= AGE_MOD
  PROVE  Spec => []OldestGranted
BY AgesAlways, TypeCorrect, OldestIsGranted, PTL DEF TypeOK

-----------------------------------------------------------------------------
(* No request is served or answered twice *)

\* What an edge does to FIFO and host: an old entry moves up or is handed over,
\* a retired request goes to the end.
LEMMA FifoAfter ==
  ASSUME OutputTypeOK, ControlTypeOK, NEW cr, CompletionPort(cr)
  PROVE  \E popped \in {0, 1} :
           LET kept == Len(cpl_fifo) - popped
           IN  /\ kept \in Nat
               /\ cpl_fifo' \in Seq(Completion) /\ delivered' \in Seq(Completion)
               /\ Len(cpl_fifo') = kept + (IF Push THEN 1 ELSE 0)
               /\ \A k \in 1 .. kept : cpl_fifo'[k] = cpl_fifo[k + popped]
               /\ Push => cpl_fifo'[kept + 1] = Retired
               /\ Len(delivered') = Len(delivered) + popped
               /\ \A k \in 1 .. Len(delivered) : delivered'[k] = delivered[k]
               /\ popped = 1 => delivered'[Len(delivered) + 1] = cpl_fifo[1]
<1>. DEFINE rest == IF Pop(cr) THEN Tail(cpl_fifo) ELSE cpl_fifo
            popped == IF Pop(cr) THEN 1 ELSE 0
<1>0. popped \in {0, 1} OBVIOUS
<1>1. cpl_fifo \in Seq(Completion) /\ Len(cpl_fifo) \in Nat
      /\ delivered \in Seq(Completion) /\ Len(delivered) \in Nat
  BY DEF OutputTypeOK
<1>2. /\ rest \in Seq(Completion) /\ Len(rest) = Len(cpl_fifo) - popped
      /\ \A k \in 1 .. Len(rest) : rest[k] = cpl_fifo[k + popped]
  <2>1. CASE Pop(cr)
    BY <1>1, <2>1 DEF Pop
  <2>2. CASE ~ Pop(cr) BY <1>1, <2>2
  <2>. QED BY <2>1, <2>2
<1>3. Retired \in Completion
  BY DEF Retired, Completion, ControlTypeOK
<1>4. cpl_fifo' = IF Push THEN Append(rest, Retired) ELSE rest
  BY DEF CompletionPort
<1>5. /\ cpl_fifo' \in Seq(Completion)
      /\ Len(cpl_fifo') = Len(rest) + (IF Push THEN 1 ELSE 0)
      /\ \A k \in 1 .. Len(rest) : cpl_fifo'[k] = rest[k]
      /\ Push => cpl_fifo'[Len(rest) + 1] = Retired
  <2>1. rest \in Seq(Completion) /\ Len(rest) \in Nat BY <1>2
  <2>. HIDE DEF rest
  <2>2. CASE Push BY <1>3, <1>4, <2>1, <2>2
  <2>3. CASE ~ Push BY <1>4, <2>1, <2>3
  <2>. QED BY <2>2, <2>3
<1>6. /\ delivered' \in Seq(Completion)
      /\ Len(delivered') = Len(delivered) + popped
      /\ \A k \in 1 .. Len(delivered) : delivered'[k] = delivered[k]
      /\ popped = 1 => delivered'[Len(delivered) + 1] = cpl_fifo[1]
  <2>1. CASE Pop(cr)
    <3>1. Head(cpl_fifo) = cpl_fifo[1] /\ Head(cpl_fifo) \in Completion
      BY <1>1, <2>1 DEF Pop
    <3>2. delivered' = Append(delivered, Head(cpl_fifo)) BY <2>1 DEF CompletionPort
    <3>. QED BY <1>1, <2>1, <3>1, <3>2
  <2>2. CASE ~ Pop(cr) BY <1>1, <2>2 DEF CompletionPort
  <2>. QED BY <2>1, <2>2
<1>7. Len(rest) \in Nat BY <1>2
<1>. HIDE DEF rest, popped
<1>. QED BY <1>0, <1>2, <1>5, <1>6, <1>7

\* Completions, queued and taken, carry different ids.
CompletionsOnce ==
  /\ InFifo \cap Taken = {}
  /\ \A k, l \in DOMAIN cpl_fifo : cpl_fifo[k].id = cpl_fifo[l].id => k = l
  /\ \A k, l \in DOMAIN delivered : delivered[k].id = delivered[l].id => k = l

LEMMA OnceAfter ==
  ASSUME OutputTypeOK, ControlTypeOK, NEW cr, CompletionPort(cr), CompletionsOnce,
         Push => active.id \notin InFifo \cup Taken
  PROVE  /\ CompletionsOnce'
         /\ InFifo' \cup Taken' \subseteq
              InFifo \cup Taken \cup (IF Push THEN {active.id} ELSE {})
<1>1. PICK popped \in {0, 1} :
        LET kept == Len(cpl_fifo) - popped
        IN  /\ kept \in Nat
            /\ cpl_fifo' \in Seq(Completion) /\ delivered' \in Seq(Completion)
            /\ Len(cpl_fifo') = kept + (IF Push THEN 1 ELSE 0)
            /\ \A k \in 1 .. kept : cpl_fifo'[k] = cpl_fifo[k + popped]
            /\ Push => cpl_fifo'[kept + 1] = Retired
            /\ Len(delivered') = Len(delivered) + popped
            /\ \A k \in 1 .. Len(delivered) : delivered'[k] = delivered[k]
            /\ popped = 1 => delivered'[Len(delivered) + 1] = cpl_fifo[1]
  BY FifoAfter
<1>. DEFINE kept == Len(cpl_fifo) - popped
<1>2. /\ DOMAIN cpl_fifo = 1 .. Len(cpl_fifo) /\ Len(cpl_fifo) \in Nat
      /\ DOMAIN delivered = 1 .. Len(delivered) /\ Len(delivered) \in Nat
      /\ DOMAIN cpl_fifo' = 1 .. Len(cpl_fifo') /\ DOMAIN delivered' = 1 .. Len(delivered')
  BY <1>1 DEF OutputTypeOK
<1>3. \A k \in DOMAIN cpl_fifo' :
        \/ /\ k \in 1 .. kept /\ k + popped \in DOMAIN cpl_fifo
           /\ cpl_fifo'[k] = cpl_fifo[k + popped]
        \/ Push /\ k = kept + 1 /\ cpl_fifo'[k].id = active.id
  BY <1>1, <1>2 DEF Retired
<1>4. \A k \in DOMAIN delivered' :
        \/ k \in DOMAIN delivered /\ delivered'[k] = delivered[k]
        \/ /\ popped = 1 /\ k = Len(delivered) + 1
           /\ 1 \in DOMAIN cpl_fifo /\ delivered'[k] = cpl_fifo[1]
  BY <1>1, <1>2
<1>5. /\ \A k \in DOMAIN cpl_fifo : cpl_fifo[k].id \in InFifo
      /\ \A k \in DOMAIN delivered : delivered[k].id \in Taken
  BY DEF InFifo, Taken
<1>6. ASSUME NEW k \in DOMAIN cpl_fifo', NEW l \in DOMAIN cpl_fifo',
             cpl_fifo'[k].id = cpl_fifo'[l].id
      PROVE  k = l
  <2>1. CASE Push /\ (k = kept + 1 \/ l = kept + 1)
    <3>1. \A m \in DOMAIN cpl_fifo' : m # kept + 1 => cpl_fifo'[m].id \in InFifo
      BY <1>3, <1>5
    <3>2. cpl_fifo'[kept + 1].id = active.id BY <1>1, <2>1 DEF Retired
    <3>. HIDE DEF kept
    <3>. QED BY <1>6, <2>1, <3>1, <3>2
  <2>2. CASE /\ k \in 1 .. kept /\ k + popped \in DOMAIN cpl_fifo
             /\ l \in 1 .. kept /\ l + popped \in DOMAIN cpl_fifo
             /\ cpl_fifo'[k] = cpl_fifo[k + popped] /\ cpl_fifo'[l] = cpl_fifo[l + popped]
    <3>1. k + popped = l + popped BY <1>6, <2>2 DEF CompletionsOnce
    <3>. HIDE DEF kept
    <3>. QED BY <2>2, <3>1
  <2>. QED BY <1>3, <2>1, <2>2
<1>7. \A k, l \in DOMAIN delivered' : delivered'[k].id = delivered'[l].id => k = l
  BY <1>1, <1>4, <1>5 DEF CompletionsOnce
<1>8. \A k \in DOMAIN cpl_fifo', l \in DOMAIN delivered' :
        cpl_fifo'[k].id # delivered'[l].id
  <2>. SUFFICES ASSUME NEW k \in DOMAIN cpl_fifo', NEW l \in DOMAIN delivered',
                       cpl_fifo'[k].id = delivered'[l].id
                PROVE  FALSE
    OBVIOUS
  <2>1. delivered'[l].id \in InFifo \cup Taken BY <1>4, <1>5
  <2>2. k \in 1 .. kept /\ k + popped \in DOMAIN cpl_fifo /\ cpl_fifo'[k] = cpl_fifo[k + popped]
    BY <1>3, <2>1
  <2>3. cpl_fifo[k + popped].id \in InFifo BY <1>5, <2>2
  <2>4. delivered'[l].id \notin Taken BY <2>2, <2>3 DEF CompletionsOnce
  <2>5. popped = 1 /\ delivered'[l] = cpl_fifo[1] /\ 1 \in DOMAIN cpl_fifo
    BY <1>4, <1>5, <2>4
  <2>6. k + popped = 1 BY <2>2, <2>5 DEF CompletionsOnce
  <2>. QED BY <1>2, <2>2, <2>5, <2>6
<1>9. \A k \in DOMAIN cpl_fifo' : cpl_fifo'[k].id \in InFifo \/ (Push /\ cpl_fifo'[k].id = active.id)
  BY <1>3, <1>5
<1>10. \A l \in DOMAIN delivered' : delivered'[l].id \in InFifo \cup Taken
  BY <1>4, <1>5
<1>11. InFifo' \cup Taken' \subseteq InFifo \cup Taken \cup (IF Push THEN {active.id} ELSE {})
  BY <1>9, <1>10 DEF InFifo, Taken
<1>12. InFifo' \cap Taken' = {} BY <1>8 DEF InFifo, Taken
<1>. QED BY <1>6, <1>7, <1>11, <1>12 DEF CompletionsOnce

\* Who is in service after an edge: the one before, or a granted one.
LEMMA ServiceFrom ==
  ASSUME NEW ww, NEW rsp, Control(ww, rsp), Serving'
  PROVE  \/ Serving /\ active' = active /\ ~ Push
         \/ /\ state = "IDLE" /\ state' = "LOAD"
            /\ \E s \in Grants : active'.id = request[s].id /\ active'.base = request[s].base
                                 /\ active'.nodes = request[s].nodes
<1>1. CASE Idle BY <1>1 DEF Idle, Serving, control
<1>2. CASE Load BY <1>2 DEF Load, Serving, Push
<1>3. CASE Scan(ww) BY <1>3 DEF Scan, Serving, Push
<1>4. CASE ExecImmediate BY <1>4 DEF ExecImmediate, Serving, Push
<1>5. CASE WaitEngine(rsp) BY <1>5 DEF WaitEngine, Serving, Push, WaitState
<1>6. CASE Finish BY <1>6 DEF Finish, Serving, Push
<1>. QED BY <1>1, <1>2, <1>3, <1>4, <1>5, <1>6 DEF Control

\* No request is in two places: a grant takes it out of its slot, a retirement
\* out of service, a pop out of the FIFO, and a new one has a new id.
THEOREM RequestsOnce == Spec => []NoRequestTwice
<1>1. Init => NoRequestTwice
  BY DEF Init, NoRequestTwice, InSlots, Pending, InService, Serving, InFifo, Taken
<1>2. TypeOK /\ NoRequestTwice /\ [Next]_vars => NoRequestTwice'
  <2>. SUFFICES ASSUME TypeOK, NoRequestTwice, [Next]_vars PROVE NoRequestTwice' OBVIOUS
  <2>. USE DEF TypeOK
  <2>1. CASE ClockEdge
    <3>1. PICK ww \in WeightWrite, cr \in CplReady, tc \in TraceClear, rsp \in Responses :
            Cycle(ww, cr, tc, rsp)
      BY <2>1 DEF ClockEdge
    <3>2. Control(ww, rsp) /\ RequestPort /\ CompletionPort(cr) BY <3>1 DEF Cycle
    <3>3. CompletionsOnce BY DEF NoRequestTwice, CompletionsOnce
    <3>4. Push => Serving BY DEF Push, Serving
    <3>5. Serving => active.id \notin InSlots \cup InFifo \cup Taken
                     /\ active.id \in 1 .. submitted
      BY DEF NoRequestTwice, InService
    <3>6. /\ CompletionsOnce'
          /\ InFifo' \cup Taken' \subseteq
               InFifo \cup Taken \cup (IF Push THEN {active.id} ELSE {})
      BY <3>2, <3>3, <3>4, <3>5, OnceAfter
    <3>7. submitted \in Nat /\ submitted' \in Nat /\ submitted <= submitted'
      BY <3>2, SlotsAfter, ParameterAssumption DEF QueueTypeOK
    <3>8. \A s \in Pending : request[s].id \in InSlots /\ request[s].id \in 1 .. submitted
      BY DEF InSlots, NoRequestTwice
    <3>9. \A s \in Pending' :
            \/ /\ s \in Pending /\ s \notin Grants /\ request'[s].id = request[s].id
            \/ /\ s \in LowestFree /\ s \notin Pending
               /\ request'[s].id = submitted' /\ submitted' = submitted + 1
      <4>. TAKE s \in Pending'
      <4>1. CASE s \in Pending
        <5>1. s \notin Grants BY <3>2, <4>1, SlotsAfter
        <5>2. Entry(s)' = Entry(s) BY <3>2, <4>1, <5>1, SlotsAfter
        <5>. QED BY <4>1, <5>1, <5>2 DEF Entry
      <4>2. CASE s \notin Pending BY <3>2, <4>2, SlotsAfter DEF Entry
      <4>. QED BY <4>1, <4>2
    <3>10. \A s, t \in Pending' : request'[s].id = request'[t].id => s = t
      BY <3>7, <3>8, <3>9, LowestUnique DEF NoRequestTwice
    <3>11. /\ InSlots' \subseteq 1 .. submitted'
           /\ InSlots' \subseteq InSlots \cup {submitted + 1}
      BY <3>7, <3>8, <3>9 DEF InSlots
    <3>12. InFifo' \cup Taken' \subseteq 1 .. submitted /\ InSlots \cap (InFifo' \cup Taken') = {}
      BY <3>4, <3>5, <3>6 DEF NoRequestTwice
    <3>13. InSlots' \cap (InFifo' \cup Taken') = {}
      BY <3>7, <3>11, <3>12
    <3>14. ASSUME Serving'
           PROVE  /\ active'.id \in 1 .. submitted
                  /\ active'.id \notin InSlots' \cup InFifo' \cup Taken'
      <4>1. CASE Serving /\ active' = active /\ ~ Push
        BY <3>5, <3>6, <3>7, <3>11, <4>1
      <4>2. CASE \E s \in Grants : active'.id = request[s].id
        <5>1. PICK s \in Grants : active'.id = request[s].id BY <4>2
        <5>2. s \in Pending /\ ~ Push BY DEF Grants, Push
        <5>3. active'.id \in InSlots /\ active'.id \in 1 .. submitted
          BY <3>8, <5>1, <5>2
        <5>4. active'.id \notin InSlots'
          <6>. SUFFICES ASSUME NEW t \in Pending', request'[t].id = request[s].id PROVE FALSE
            BY <5>1 DEF InSlots
          <6>1. CASE t \in Pending /\ t \notin Grants /\ request'[t].id = request[t].id
            BY <5>2, <6>1 DEF NoRequestTwice
          <6>2. CASE request'[t].id = submitted + 1
            <7>1. request[s].id \in 1 .. submitted BY <5>1, <5>3
            <7>. QED BY <3>7, <6>2, <7>1
          <6>. QED BY <3>9, <6>1, <6>2
        <5>. QED BY <3>12, <5>3, <5>4
      <4>. QED BY <3>2, <3>14, <4>1, <4>2, ServiceFrom
    <3>15. InService' \subseteq 1 .. submitted /\ InService' \cap (InSlots' \cup InFifo' \cup Taken') = {}
      BY <3>14 DEF InService
    <3>16. /\ InSlots' \cup InService' \cup InFifo' \cup Taken' \subseteq 1 .. submitted'
           /\ InSlots' \cap (InService' \cup InFifo' \cup Taken') = {}
           /\ InService' \cap (InFifo' \cup Taken') = {}
      <4>1. 1 .. submitted \subseteq 1 .. submitted' BY <3>7
      <4>. QED BY <3>11, <3>12, <3>13, <3>15, <4>1
    <3>. QED BY <3>6, <3>10, <3>16 DEF NoRequestTwice, CompletionsOnce
  <2>2. CASE Reset
    BY <2>2 DEF Reset, NoRequestTwice, InSlots, Pending, InService, Serving, InFifo, Taken
  <2>3. CASE UNCHANGED vars
    <3>1. UNCHANGED <<request, state, active, cpl_fifo, delivered, submitted>>
      BY <2>3 DEF vars, queue, control, outputs, host
    <3>2. UNCHANGED <<Pending, InSlots, InService, InFifo, Taken>>
      BY <3>1 DEF InSlots, Pending, InService, Serving, InFifo, Taken
    <3>. QED BY <3>1, <3>2 DEF NoRequestTwice
  <2>. QED BY <2>1, <2>2, <2>3 DEF Next
<1>. QED BY <1>1, <1>2, TypeCorrect, PTL DEF Spec

-----------------------------------------------------------------------------
(* The FSM as the properties of the trace and of the scan see it *)

Executing == state = "EXEC_IMMEDIATE" \/ state \in WaitState
AtNode == <<active, issued, completed, accumulated, scan_index>>

StaysIdle == state' = "IDLE" /\ (state = "IDLE" \/ Push)
TakesOver ==
  /\ state = "IDLE" /\ state' = "LOAD" /\ scan_index' = 0 /\ accumulated' = {}
  /\ \E s \in Grants : /\ active'.id = request[s].id /\ active'.base = request[s].base
                       /\ active'.nodes = request[s].nodes
Loads ==
  /\ state = "LOAD" /\ state' = "SCAN" /\ completed' = {}
  /\ UNCHANGED <<active, issued, accumulated, scan_index>>
Skips ==
  /\ state = "SCAN" /\ state' = "SCAN" /\ DecodedValid(Decoded) /\ ~ CurrentReady
  /\ scan_index + 1 < active.nodes /\ scan_index' = scan_index + 1
  /\ UNCHANGED <<active, issued, completed, accumulated>>
Issues(ww) ==
  /\ state = "SCAN" /\ CurrentReady
  /\ \/ ww /\ state' = "SCAN"
     \/ /\ Executing' /\ (state' \in WaitState => issued'.opcode # "COMPLETE")
        /\ state' = "WAIT_TENSOR" <=> issued'.opcode = "TENSOR"
  /\ issued' = [issued EXCEPT !.node = Decoded.node, !.opcode = Decoded.opcode,
                              !.operand0 = Decoded.operand0]
  /\ UNCHANGED <<active, completed, accumulated, scan_index>>
Waits == state \in WaitState /\ ~ Responding /\ state' = state /\ UNCHANGED AtNode
Finishes(rsp) ==
  /\ \/ state = "EXEC_IMMEDIATE" /\ issued.opcode # "COMPLETE"
        /\ accumulated' = Xor(accumulated, issued.operand0)
     \/ Responding /\ rsp.status \in Success
        /\ accumulated' = Xor(accumulated, rsp.result)
  /\ state' = "SCAN" /\ completed' = completed \cup {issued.node} /\ scan_index' = 0
  /\ UNCHANGED <<active, issued>>
Ends(rsp) ==
  /\ state' = "FINISH" /\ UNCHANGED <<active, completed, accumulated>>
  /\ \/ state = "SCAN" /\ ~ CurrentReady
        /\ issued'.status \in {"GRAPH_INVALID", "GRAPH_DEADLOCK"}
        /\ (issued'.status = "GRAPH_DEADLOCK" =>
              DecodedValid(Decoded) /\ scan_index + 1 >= active.nodes)
     \/ state = "EXEC_IMMEDIATE" /\ issued.opcode = "COMPLETE"
        /\ issued'.operand0 = Xor(accumulated, issued.operand0) /\ issued'.status = "OK"
     \/ Responding /\ rsp.status \notin Success /\ issued'.status = rsp.status
     \/ state = "FINISH" /\ issued' = issued /\ ~ Push

LEMMA StepKinds ==
  ASSUME ControlTypeOK, NEW ww, NEW rsp, Control(ww, rsp)
  PROVE  \/ StaysIdle \/ TakesOver \/ Loads \/ Skips \/ Issues(ww) \/ Waits
         \/ Finishes(rsp) \/ Ends(rsp)
<1>1. CASE Idle
  <2>1. CASE UNCHANGED <<control, qos>> BY <1>1, <2>1 DEF Idle, control, StaysIdle
  <2>2. CASE ~ UNCHANGED <<control, qos>> BY <1>1, <2>2 DEF Idle, TakesOver
  <2>. QED BY <2>1, <2>2
<1>2. CASE Load BY <1>2 DEF Load, Loads
<1>3. CASE Scan(ww)
  <2>. USE <1>3 DEF Scan
  <2>1. CASE ~ DecodedValid(Decoded) /\ Terminate("GRAPH_INVALID", BitsOf(scan_index))
    <3>1. issued'.status = "GRAPH_INVALID" BY <2>1 DEF Terminate, ControlTypeOK
    <3>. QED BY <2>1, <3>1 DEF Ends, CurrentReady, Terminate
  <2>2. CASE DecodedValid(Decoded) /\ ~ CurrentReady /\ Skip
    <3>1. CASE scan_index + 1 >= active.nodes
      <4>1. Terminate("GRAPH_DEADLOCK", completed) BY <2>2, <3>1 DEF Skip
      <4>2. issued'.status = "GRAPH_DEADLOCK" BY <4>1 DEF Terminate, ControlTypeOK
      <4>. QED BY <2>2, <3>1, <4>1, <4>2 DEF Ends, Terminate
    <3>2. CASE ~ (scan_index + 1 >= active.nodes)
      BY <2>2, <3>2 DEF Skip, Skips, ControlTypeOK
    <3>. QED BY <3>1, <3>2
  <2>3. CASE CurrentReady /\ Issue(ww)
    <3>1. Decoded.opcode \in Opcode
      BY <2>3 DEF CurrentReady, DecodedValid, FlagsValid
    <3>2. issued'.opcode = Decoded.opcode BY <2>3 DEF Issue, ControlTypeOK
    <3>3. \/ ww /\ state' = "SCAN"
          \/ /\ Executing' /\ (state' \in WaitState => Decoded.opcode # "COMPLETE")
             /\ state' = "WAIT_TENSOR" <=> Decoded.opcode = "TENSOR"
      BY <2>3, <3>1 DEF Issue, ServedIn, Opcode, Executing, WaitState
    <3>. QED BY <2>3, <3>2, <3>3 DEF Issue, Issues
  <2>. QED BY <2>1, <2>2, <2>3
<1>4. CASE ExecImmediate
  <2>1. CASE issued.opcode = "COMPLETE"
    <3>1. Terminate("OK", Xor(accumulated, issued.operand0))
      BY <1>4, <2>1 DEF ExecImmediate
    <3>2. issued'.status = "OK" /\ issued'.operand0 = Xor(accumulated, issued.operand0)
      BY <3>1 DEF Terminate, ControlTypeOK
    <3>. QED BY <1>4, <2>1, <3>1, <3>2 DEF ExecImmediate, Ends, Terminate
  <2>2. CASE issued.opcode # "COMPLETE"
    BY <1>4, <2>2 DEF ExecImmediate, NodeFinished, Finishes
  <2>. QED BY <2>1, <2>2
<1>5. CASE WaitEngine(rsp)
  <2>1. CASE engine > 0 /\ engine' = engine - 1
             /\ UNCHANGED <<state, scan_index, accumulated, issued, completed>>
    BY <1>5, <2>1 DEF WaitEngine, Waits, AtNode, Responding, ControlTypeOK
  <2>2. CASE Responding /\ rsp.status \in Success /\ NodeFinished(rsp.result)
    BY <1>5, <2>2 DEF WaitEngine, NodeFinished, Finishes
  <2>3. CASE Responding /\ rsp.status \notin Success /\ Terminate(rsp.status, rsp.result)
             /\ UNCHANGED <<accumulated, completed, scan_index, engine>>
    <3>1. issued'.status = rsp.status BY <2>3 DEF Terminate, ControlTypeOK
    <3>. QED BY <1>5, <2>3, <3>1 DEF WaitEngine, Ends, Terminate
  <2>. QED BY <1>5, <2>1, <2>2, <2>3 DEF WaitEngine
<1>6. CASE Finish BY <1>6 DEF Finish, Push, StaysIdle, Ends
<1>. QED BY <1>1, <1>2, <1>3, <1>4, <1>5, <1>6 DEF Control

\* What an event says: who is served, and what is being done for him.
LEMMA EventSays ==
  ASSUME NEW rsp, NEW e \in Events(rsp)
  PROVE  /\ e.id = active.id /\ Serving /\ state # "LOAD" /\ state # "FINISH"
         /\ \/ state = "SCAN" /\ CurrentReady /\ e = IssueEvent
            \/ /\ state = "EXEC_IMMEDIATE"
               /\ e = FinishEvent("OK", LowBits(PAYLOAD_W, issued.operand0))
            \/ Responding /\ e = FinishEvent(rsp.status, Payload(rsp))
BY DEF Events, IssueEvent, FinishEvent, Serving, Responding, WaitState

\* The trace after an edge: cleared, or as it was with at most one event more.
LEMMA TraceAfter ==
  ASSUME QueueTypeOK, ControlTypeOK, OutputTypeOK, NEW trace_clear,
         NEW rsp \in Responses, TracePort(trace_clear, rsp)
  PROVE  \A k \in DOMAIN trace' :
           \/ k \in DOMAIN trace /\ trace'[k] = trace[k]
           \/ k = Len(trace) + 1 /\ trace'[k] \in Events(rsp)
<1>1. CASE trace' = <<>> BY <1>1
<1>2. CASE UNCHANGED trace BY <1>2
<1>3. ASSUME NEW e \in Events(rsp), trace' = Append(trace, e)
      PROVE  \A k \in DOMAIN trace' :
               \/ k \in DOMAIN trace /\ trace'[k] = trace[k]
               \/ k = Len(trace) + 1 /\ trace'[k] \in Events(rsp)
  <2>1. e \in Event BY EventType
  <2>. QED BY <1>3, <2>1 DEF OutputTypeOK
<1>. QED BY <1>1, <1>2, <1>3 DEF TracePort

-----------------------------------------------------------------------------
(* No node finishes twice for one request *)

\* The trace speaks of requests in service or answered.  Until the request in
\* service ends, the nodes it finished are in the scoreboard, and the node that
\* executes is not.
NodesTraced ==
  /\ \A k \in DOMAIN trace : trace[k].id \in InService \cup InFifo \cup Taken
  /\ state = "LOAD" => \A k \in DOMAIN trace : trace[k].id # active.id
  /\ Executing => issued.node \notin completed
  /\ state = "SCAN" \/ Executing =>
       \A k \in DOMAIN trace :
         trace[k].id = active.id /\ trace[k].phase = "finish" => trace[k].node \in completed

\* What that gives: no node of a request finishes twice, a COMPLETE included.
FinishedOnce ==
  \A j, k \in DOMAIN trace :
    /\ trace[j].id = trace[k].id /\ trace[j].node = trace[k].node
    /\ trace[j].phase = "finish" /\ trace[k].phase = "finish"
    => j = k

LEMMA TracedIds ==
  ASSUME TypeOK, NodesTraced, NEW ww, NEW cr, NEW tc, NEW rsp \in Responses,
         Cycle(ww, cr, tc, rsp)
  PROVE  \A k \in DOMAIN trace' : trace'[k].id \in InService' \cup InFifo' \cup Taken'
<1>1. \A k \in DOMAIN trace' :
        \/ trace'[k].id \in InService \cup InFifo \cup Taken
        \/ trace'[k].id = active.id /\ Serving
  BY TraceAfter, EventSays DEF TypeOK, Cycle, NodesTraced
<1>2. InFifo \cup Taken \subseteq InFifo' \cup Taken' /\ (Push => active.id \in InFifo')
  BY CompletionsAfter DEF TypeOK, Cycle
<1>3. Serving => (Serving' /\ active' = active) \/ Push
  BY ServiceAfter DEF TypeOK, Cycle
<1>. QED BY <1>1, <1>2, <1>3 DEF InService

LEMMA TracedAfter ==
  ASSUME TypeOK, NoRequestTwice, NodesTraced, NEW ww, NEW cr, NEW tc,
         NEW rsp \in Responses, Cycle(ww, cr, tc, rsp)
  PROVE  NodesTraced'
<1>1. \A k \in DOMAIN trace' : trace'[k].id \in InService' \cup InFifo' \cup Taken'
  BY TracedIds
<1>2. \A k \in DOMAIN trace' :
        \/ k \in DOMAIN trace /\ trace'[k] = trace[k]
        \/ k = Len(trace) + 1 /\ trace'[k] \in Events(rsp)
  BY TraceAfter DEF TypeOK, Cycle
<1>3. \/ StaysIdle \/ TakesOver \/ Loads \/ Skips \/ Issues(ww) \/ Waits
      \/ Finishes(rsp) \/ Ends(rsp)
  BY StepKinds DEF TypeOK, Cycle
<1>4. CASE StaysIdle \/ Ends(rsp)
  BY <1>1, <1>4 DEF StaysIdle, Ends, NodesTraced, Executing, WaitState
<1>5. CASE TakesOver
  <2>1. PICK s \in Grants : active'.id = request[s].id BY <1>5 DEF TakesOver
  <2>2. active'.id \in InSlots BY <2>1 DEF Grants, InSlots
  <2>3. active'.id \notin InService \cup InFifo \cup Taken
    BY <2>2 DEF NoRequestTwice
  <2>4. \A k \in DOMAIN trace' : k \in DOMAIN trace /\ trace'[k] = trace[k]
    BY <1>2, <1>5, EventSays DEF TakesOver, Serving
  <2>5. \A k \in DOMAIN trace' : trace'[k].id # active'.id
    BY <2>3, <2>4 DEF NodesTraced
  <2>. QED BY <1>1, <1>5, <2>5 DEF TakesOver, NodesTraced, Executing, WaitState
<1>6. CASE Loads
  <2>1. \A k \in DOMAIN trace' : k \in DOMAIN trace /\ trace'[k] = trace[k]
    BY <1>2, <1>6, EventSays DEF Loads
  <2>2. \A k \in DOMAIN trace' : trace'[k].id # active'.id
    BY <1>6, <2>1 DEF NodesTraced, Loads
  <2>. QED BY <1>1, <1>6, <2>2 DEF Loads, NodesTraced, Executing, WaitState
<1>7. CASE Skips \/ Issues(ww) \/ Waits
  <2>1. /\ active' = active /\ completed' = completed
        /\ state = "SCAN" \/ Executing
    BY <1>7 DEF Skips, Issues, Waits, AtNode, Executing
  <2>2. \A k \in DOMAIN trace' : trace'[k].phase = "finish" =>
          k \in DOMAIN trace /\ trace'[k] = trace[k]
    <3>1. \A e \in Events(rsp) : e.phase # "finish"
      BY <1>7 DEF Events, IssueEvent, Skips, Issues, Waits, Responding, WaitState
    <3>. QED BY <1>2, <3>1
  <2>3. \A k \in DOMAIN trace' :
          trace'[k].id = active'.id /\ trace'[k].phase = "finish"
          => trace'[k].node \in completed'
    BY <2>1, <2>2 DEF NodesTraced
  <2>4. Executing' => issued'.node \notin completed'
    <3>1. CASE Skips BY <3>1 DEF Skips, Executing, WaitState
    <3>2. CASE Issues(ww)
      <4>1. issued'.node = Decoded.node BY <3>2 DEF Issues, TypeOK, ControlTypeOK
      <4>. QED BY <3>2, <4>1 DEF Issues, CurrentReady
    <3>3. CASE Waits BY <3>3 DEF Waits, AtNode, NodesTraced, Executing
    <3>. QED BY <1>7, <3>1, <3>2, <3>3
  <2>5. state' # "LOAD" BY <1>7 DEF Skips, Issues, Waits, Executing, WaitState
  <2>. QED BY <1>1, <2>3, <2>4, <2>5 DEF NodesTraced
<1>8. CASE Finishes(rsp)
  <2>1. /\ state' = "SCAN" /\ completed' = completed \cup {issued.node} /\ active' = active
        /\ Executing
    BY <1>8 DEF Finishes, Executing, Responding
  <2>2. \A e \in Events(rsp) : e.phase = "finish" => e.node = issued.node
    BY <1>8 DEF Events, IssueEvent, FinishEvent, Finishes
  <2>3. \A k \in DOMAIN trace' :
          trace'[k].id = active'.id /\ trace'[k].phase = "finish"
          => trace'[k].node \in completed'
    BY <1>2, <2>1, <2>2 DEF NodesTraced
  <2>. QED BY <1>1, <2>1, <2>3 DEF NodesTraced, Executing, WaitState
<1>. QED BY <1>3, <1>4, <1>5, <1>6, <1>7, <1>8

\* A request's node that finishes in this cycle has not finished before, in
\* the window the trace covers: it is not in the scoreboard.
LEMMA OnceMore ==
  ASSUME TypeOK, NodesTraced, FinishedOnce, NEW ww, NEW cr, NEW tc,
         NEW rsp \in Responses, Cycle(ww, cr, tc, rsp)
  PROVE  FinishedOnce'
<1>1. \A k \in DOMAIN trace' :
        \/ k \in DOMAIN trace /\ trace'[k] = trace[k]
        \/ k = Len(trace) + 1 /\ trace'[k] \in Events(rsp)
  BY TraceAfter DEF TypeOK, Cycle
<1>2. \A e \in Events(rsp) : e.phase = "finish" =>
        e.id = active.id /\ e.node = issued.node /\ Executing
  BY DEF Events, IssueEvent, FinishEvent, Executing, Responding
<1>3. ASSUME NEW k \in DOMAIN trace, NEW e \in Events(rsp),
             trace[k].phase = "finish", e.phase = "finish",
             trace[k].id = e.id, trace[k].node = e.node
      PROVE  FALSE
  BY <1>2, <1>3 DEF NodesTraced
<1>. SUFFICES ASSUME NEW j \in DOMAIN trace', NEW k \in DOMAIN trace',
                     trace'[j].id = trace'[k].id, trace'[j].node = trace'[k].node,
                     trace'[j].phase = "finish", trace'[k].phase = "finish"
              PROVE  j = k
  BY DEF FinishedOnce
<1>4. CASE j \in DOMAIN trace /\ k \in DOMAIN trace
           /\ trace'[j] = trace[j] /\ trace'[k] = trace[k]
  BY <1>4 DEF FinishedOnce
<1>5. CASE j = Len(trace) + 1 /\ k = Len(trace) + 1 BY <1>5
<1>. QED BY <1>1, <1>3, <1>4, <1>5

LEMMA NodesTracedAlways == Spec => [](NodesTraced /\ FinishedOnce)
<1>1. Init => NodesTraced /\ FinishedOnce
  BY DEF Init, NodesTraced, FinishedOnce, Executing, WaitState
<1>2. /\ TypeOK /\ NoRequestTwice /\ NodesTraced /\ FinishedOnce /\ [Next]_vars
      => NodesTraced' /\ FinishedOnce'
  <2>. SUFFICES ASSUME TypeOK, NoRequestTwice, NodesTraced, FinishedOnce, [Next]_vars
                PROVE  NodesTraced' /\ FinishedOnce'
    OBVIOUS
  <2>1. CASE ClockEdge BY <2>1, TracedAfter, OnceMore DEF ClockEdge
  <2>2. CASE Reset BY <2>2 DEF Reset, NodesTraced, FinishedOnce, Executing, WaitState
  <2>3. CASE UNCHANGED vars
    <3>1. /\ UNCHANGED <<state, active, issued, completed, cpl_fifo, delivered, trace>>
          /\ UNCHANGED <<InService, InFifo, Taken>>
      BY <2>3 DEF vars, control, outputs, host, InService, Serving, InFifo, Taken
    <3>. QED BY <3>1 DEF NodesTraced, FinishedOnce, Executing
  <2>. QED BY <2>1, <2>2, <2>3 DEF Next
<1>. QED BY <1>1, <1>2, TypeCorrect, RequestsOnce, PTL DEF Spec

\* No node finishes twice for one request, in the window the trace covers,
\* whatever the host writes into the descriptors meanwhile.
THEOREM NodesOnce == Spec => []NodeRunsOnce
<1>1. FinishedOnce => NodeRunsOnce BY DEF FinishedOnce, NodeRunsOnce
<1>. QED BY <1>1, NodesTracedAlways, PTL

-----------------------------------------------------------------------------
(* The scan *)

\* A request waits, and is served, with a node to scan; the scan stays within
\* its graph, and starts at its base.
ScanInside ==
  /\ \A s \in Pending : request[s].nodes > 0
  /\ Serving => active.nodes > 0
  /\ state = "LOAD" => scan_index = 0
  /\ state = "SCAN" => scan_index < active.nodes

LEMMA SlotNodes ==
  ASSUME QueueTypeOK, RequestPort, \A s \in Pending : request[s].nodes > 0
  PROVE  \A s \in Pending' : request'[s].nodes > 0
<1>1. ASSUME NEW s \in Slot, Aged(s) # NoRequest PROVE Aged(s).nodes > 0
  <2>1. s \in Pending /\ request[s] \in SlotEntry
    BY <1>1 DEF Aged, Pending, QueueTypeOK
  <2>2. Aged(s) = [request[s] EXCEPT !.wait = Saturate(request[s].wait)]
    BY <1>1 DEF Aged
  <2>3. Aged(s).nodes = request[s].nodes BY <2>1, <2>2 DEF SlotEntry
  <2>. QED BY <2>1, <2>3
<1>2. CASE AdmitNone BY <1>1, <1>2 DEF AdmitNone, Pending
<1>3. ASSUME NEW r \in Requests, Admit(r) PROVE \A s \in Pending' : request'[s].nodes > 0
  <2>1. NewEntry(r).nodes > 0
    BY <1>3 DEF Admit, Admissible, RequestConfigValid, NewEntry
  <2>. QED BY <1>1, <1>3, <2>1 DEF Admit, Pending
<1>. QED BY <1>2, <1>3 DEF RequestPort

LEMMA ScanStaysInside ==
  ASSUME TypeOK, ScanInside, NEW ww, NEW cr, NEW tc, NEW rsp \in Responses,
         Cycle(ww, cr, tc, rsp)
  PROVE  ScanInside'
<1>1. \A s \in Pending' : request'[s].nodes > 0
  BY SlotNodes DEF TypeOK, Cycle, ScanInside
<1>2. \/ StaysIdle \/ TakesOver \/ Loads \/ Skips \/ Issues(ww) \/ Waits
      \/ Finishes(rsp) \/ Ends(rsp)
  BY StepKinds DEF TypeOK, Cycle
<1>3. CASE StaysIdle BY <1>1, <1>3 DEF StaysIdle, ScanInside, Serving
<1>4. CASE TakesOver
  <2>1. active'.nodes > 0 BY <1>4 DEF TakesOver, ScanInside, Grants
  <2>. QED BY <1>1, <1>4, <2>1 DEF TakesOver, ScanInside
<1>5. CASE Loads BY <1>1, <1>5 DEF Loads, ScanInside, Serving
<1>6. CASE Skips BY <1>1, <1>6 DEF Skips, ScanInside, Serving
<1>7. CASE Issues(ww) BY <1>1, <1>7 DEF Issues, ScanInside, Serving, Executing, WaitState
<1>8. CASE Waits BY <1>1, <1>8 DEF Waits, AtNode, ScanInside, Serving, WaitState
<1>9. CASE Finishes(rsp)
  BY <1>1, <1>9 DEF Finishes, ScanInside, Serving, Responding, WaitState
<1>10. CASE Ends(rsp)
  BY <1>1, <1>10 DEF Ends, ScanInside, Serving, Responding, WaitState
<1>. QED BY <1>2, <1>3, <1>4, <1>5, <1>6, <1>7, <1>8, <1>9, <1>10

LEMMA ScanInsideAlways == Spec => []ScanInside
<1>1. Init => ScanInside BY DEF Init, ScanInside, Pending, Serving
<1>2. TypeOK /\ ScanInside /\ [Next]_vars => ScanInside'
  <2>. SUFFICES ASSUME TypeOK, ScanInside, [Next]_vars PROVE ScanInside' OBVIOUS
  <2>1. CASE ClockEdge BY <2>1, ScanStaysInside DEF ClockEdge
  <2>2. CASE Reset BY <2>2 DEF Reset, ScanInside, Pending, Serving
  <2>3. CASE UNCHANGED vars
    BY <2>3 DEF vars, queue, control, ScanInside, Pending, Serving
  <2>. QED BY <2>1, <2>2, <2>3 DEF Next
<1>. QED BY <1>1, <1>2, TypeCorrect, PTL DEF Spec

\* The descriptor at a place of the graph in service, and what the scan has
\* passed: nodes that cannot be issued with the scoreboard as it is.
At(i) == descriptor_mem[(active.base + i) % MAX_DESCRIPTORS]
Blocked(d) == d.node \in completed \/ ~ DependenciesReady(d)
ScannedBlocked ==
  state = "SCAN" => \A i \in 0 .. scan_index - 1 : Blocked(At(i))

LEMMA ScannedAfter ==
  ASSUME TypeOK, ScanInside, ScannedBlocked, UNCHANGED descriptor_mem,
         NEW ww, NEW cr, NEW tc, NEW rsp \in Responses, Cycle(ww, cr, tc, rsp)
  PROVE  ScannedBlocked'
<1>. SUFFICES ASSUME state' = "SCAN", NEW i \in 0 .. scan_index' - 1
              PROVE  Blocked(At(i))'
  BY DEF ScannedBlocked
<1>0. scan_index \in Nat BY DEF TypeOK, ControlTypeOK
<1>1. \/ Loads \/ Skips \/ Issues(ww) \/ Waits \/ Finishes(rsp)
  BY StepKinds DEF TypeOK, Cycle, StaysIdle, TakesOver, Ends
<1>2. CASE Loads \/ Finishes(rsp)
  <2>1. scan_index' = 0 BY <1>2 DEF Loads, Finishes, ScanInside
  <2>. QED BY <2>1
<1>3. CASE Skips
  <2>1. Blocked(Decoded)
    BY <1>3 DEF Skips, CurrentReady, Blocked
  <2>2. i \in 0 .. scan_index - 1 \/ i = scan_index BY <1>0, <1>3 DEF Skips
  <2>3. Blocked(At(i)) BY <1>3, <2>1, <2>2 DEF Skips, ScannedBlocked, At, Decoded
  <2>. QED BY <1>3, <2>3 DEF Skips, Blocked, At, DependenciesReady
<1>4. CASE Issues(ww)
  <2>1. state = "SCAN" /\ UNCHANGED <<active, completed, scan_index>>
    BY <1>4 DEF Issues
  <2>2. Blocked(At(i)) BY <2>1 DEF ScannedBlocked
  <2>. QED BY <2>1, <2>2 DEF Blocked, At, DependenciesReady
<1>5. CASE Waits BY <1>5 DEF Waits, WaitState
<1>. QED BY <1>1, <1>2, <1>3, <1>4, <1>5

\* GRAPH_DEADLOCK is reported only when no node of the graph can be issued: the
\* scan started at the base, and the scoreboard has not changed since.
THEOREM DeadlocksReal ==
  ASSUME GraphWrites = {}
  PROVE  Spec => DeadlockReportSound
<1>. DEFINE Report == state = "SCAN" /\ state' = "FINISH" /\ issued'.status = "GRAPH_DEADLOCK"
            Sound == \A d \in Graph : d.node \in completed \/ ~ DependenciesReady(d)
<1>1. Init => ScannedBlocked BY DEF Init, ScannedBlocked
<1>2. TypeOK /\ ScanInside /\ ScannedBlocked /\ [Next]_vars => ScannedBlocked'
  <2>. SUFFICES ASSUME TypeOK, ScanInside, ScannedBlocked, [Next]_vars
                PROVE  ScannedBlocked'
    OBVIOUS
  <2>1. CASE ClockEdge
    <3>1. UNCHANGED descriptor_mem BY <2>1 DEF ClockEdge, Cycle, GraphWritePort
    <3>. QED BY <2>1, <3>1, ScannedAfter DEF ClockEdge
  <2>2. CASE Reset BY <2>2 DEF Reset, ScannedBlocked
  <2>3. CASE UNCHANGED vars
    BY <2>3 DEF vars, control, ScannedBlocked, Blocked, At, DependenciesReady
  <2>. QED BY <2>1, <2>2, <2>3 DEF Next
<1>3. TypeOK /\ ScannedBlocked /\ [Next]_vars => (Report => Sound)
  <2>. SUFFICES ASSUME TypeOK, ScannedBlocked, [Next]_vars, Report PROVE Sound OBVIOUS
  <2>1. CASE ClockEdge
    <3>1. PICK ww \in WeightWrite, cr \in CplReady, tc \in TraceClear, rsp \in Responses :
            Cycle(ww, cr, tc, rsp)
      BY <2>1 DEF ClockEdge
    <3>2. ~ CurrentReady /\ DecodedValid(Decoded) /\ scan_index + 1 >= active.nodes
      BY <3>1, StepKinds
      DEF TypeOK, Cycle, StaysIdle, TakesOver, Loads, Skips, Issues, Waits, Finishes, Ends,
          Executing, WaitState, Responding
    <3>3. scan_index \in Nat /\ active.nodes \in Nat
      BY DEF TypeOK, ControlTypeOK
    <3>4. Blocked(Decoded) BY <3>2 DEF CurrentReady, Blocked
    <3>5. ASSUME NEW i \in 0 .. active.nodes - 1 PROVE Blocked(At(i))
      <4>1. i \in 0 .. scan_index - 1 \/ i = scan_index BY <3>2, <3>3
      <4>. QED BY <3>4, <4>1 DEF ScannedBlocked, At, Decoded
    <3>. QED BY <3>5 DEF Graph, At, Blocked
  <2>2. CASE Reset BY <2>2 DEF Reset
  <2>3. CASE UNCHANGED vars BY <2>3 DEF vars, control
  <2>. QED BY <2>1, <2>2, <2>3 DEF Next
<1>4. TypeOK /\ ScannedBlocked /\ [Next]_vars => [Report => Sound]_vars
  BY <1>3
<1>. QED BY <1>1, <1>2, <1>4, TypeCorrect, ScanInsideAlways, PTL DEF Spec, DeadlockReportSound

-----------------------------------------------------------------------------
(* Dependencies, as the trace tells them *)

\* The trace port while the host does not clear: nothing, one event more, or
\* an event lost at the full depth.
Records(e) ==
  /\ Len(trace) < TRACE_DEPTH /\ trace_overflow' = trace_overflow
  /\ trace' \in Seq(Event) /\ Len(trace') = Len(trace) + 1
  /\ trace'[Len(trace) + 1] = e
  /\ \A k \in 1 .. Len(trace) : trace'[k] = trace[k]

LEMMA TraceGrows ==
  ASSUME QueueTypeOK, ControlTypeOK, OutputTypeOK, NEW rsp \in Responses,
         NEW tc \in TraceClear, TraceClear \subseteq {FALSE}, TracePort(tc, rsp)
  PROVE  \/ Events(rsp) = {} /\ UNCHANGED <<trace, trace_overflow>>
         \/ trace_overflow' /\ UNCHANGED trace /\ Len(trace) >= TRACE_DEPTH
         \/ \E e \in Events(rsp) : e \in Event /\ Records(e)
<1>1. ~ tc OBVIOUS
<1>2. ASSUME NEW e \in Events(rsp), Len(trace) < TRACE_DEPTH, trace' = Append(trace, e),
             UNCHANGED trace_overflow
      PROVE  e \in Event /\ Records(e)
  <2>1. e \in Event BY EventType
  <2>. QED BY <1>2, <2>1 DEF Records, OutputTypeOK
<1>3. TRACE_DEPTH \in Nat /\ Len(trace) \in Nat BY ParameterAssumption DEF OutputTypeOK
<1>. QED BY <1>1, <1>2, <1>3 DEF TracePort

\* An event that puts its node into the scoreboard of the request in service.
Scores(e) ==
  /\ e.id = active.id /\ e.phase = "finish"
  /\ e.opcode # "COMPLETE" /\ e.status \in Success

LEMMA FinishedMeans ==
  \A k, n : n \in FinishedBefore(k) <=>
             \E j \in 1 .. k - 1 : trace[j].node = n /\ Scores(trace[j])
BY DEF FinishedBefore, Scores

\* The scoreboard holds no node the trace does not show finished, for this
\* request and with success, until the trace has lost an event.
ScoreboardTraced ==
  /\ trace_overflow => Len(trace) >= TRACE_DEPTH
  /\ state \in WaitState => issued.opcode # "COMPLETE"
  /\ Serving /\ state # "LOAD" /\ ~ trace_overflow =>
       \A n \in completed : \E j \in 1 .. Len(trace) : trace[j].node = n /\ Scores(trace[j])

LEMMA ScoreboardAfter ==
  ASSUME TypeOK, ScoreboardTraced, TraceClear \subseteq {FALSE}, NEW ww, NEW cr,
         NEW tc \in TraceClear, NEW rsp \in Responses, Cycle(ww, cr, tc, rsp)
  PROVE  ScoreboardTraced'
<1>1. \/ StaysIdle \/ TakesOver \/ Loads \/ Skips \/ Issues(ww) \/ Waits
      \/ Finishes(rsp) \/ Ends(rsp)
  BY StepKinds DEF TypeOK, Cycle
<1>2. \/ Events(rsp) = {} /\ UNCHANGED <<trace, trace_overflow>>
      \/ trace_overflow' /\ UNCHANGED trace /\ Len(trace) >= TRACE_DEPTH
      \/ \E e \in Events(rsp) : e \in Event /\ Records(e)
  BY TraceGrows DEF TypeOK, Cycle
<1>3. trace_overflow' => Len(trace') >= TRACE_DEPTH
  <2>1. Len(trace) \in Nat /\ TRACE_DEPTH \in Nat
    BY ParameterAssumption DEF TypeOK, OutputTypeOK
  <2>2. CASE \E e \in Events(rsp) : Records(e)
    <3>1. trace_overflow' = trace_overflow /\ ~ (Len(trace) >= TRACE_DEPTH)
      BY <2>1, <2>2 DEF Records
    <3>. QED BY <3>1 DEF ScoreboardTraced
  <2>. QED BY <1>2, <2>1, <2>2 DEF ScoreboardTraced
<1>4. state' \in WaitState => issued'.opcode # "COMPLETE"
  BY <1>1 DEF StaysIdle, TakesOver, Loads, Skips, Issues, Waits, AtNode, Finishes, Ends,
              WaitState, ScoreboardTraced
<1>5. ASSUME Serving', state' # "LOAD", ~ trace_overflow', NEW n \in completed'
      PROVE  \E j \in 1 .. Len(trace') : trace'[j].node = n /\ Scores(trace[j])'
  <2>1. ~ trace_overflow /\ Len(trace) \in Nat
    BY <1>2, <1>5 DEF Records, TypeOK, OutputTypeOK
  <2>2. CASE Loads BY <1>5, <2>2 DEF Loads
  <2>3. CASE Skips \/ Issues(ww) \/ Waits \/ Finishes(rsp) \/ Ends(rsp)
    <3>1. active' = active /\ Serving /\ state # "LOAD"
      BY <2>3 DEF Skips, Issues, Waits, AtNode, Finishes, Ends, Serving, WaitState, Responding
    <3>2. \A j \in 1 .. Len(trace) : j \in 1 .. Len(trace') /\ trace'[j] = trace[j]
      BY <1>2, <2>1 DEF Records
    <3>3. CASE n \in completed
      <4>1. PICK j \in 1 .. Len(trace) : trace[j].node = n /\ Scores(trace[j])
        BY <2>1, <3>1, <3>3 DEF ScoreboardTraced
      <4>2. j \in 1 .. Len(trace') /\ trace'[j] = trace[j] BY <3>2
      <4>. QED BY <3>1, <4>1, <4>2 DEF Scores
    <3>4. CASE n \notin completed
      <4>1. Finishes(rsp) /\ n = issued.node
        BY <1>5, <2>3, <3>4 DEF Skips, Issues, Waits, AtNode, Finishes, Ends
      <4>2. PICK e \in Events(rsp) : e \in Event /\ Records(e)
        <5>1. Events(rsp) # {}
          BY <4>1 DEF Finishes, Events
        <5>. QED BY <1>2, <1>5, <5>1
      <4>3. Scores(e) /\ e.node = n
        BY <4>1, <4>2
        DEF Finishes, Events, FinishEvent, Scores, ScoreboardTraced, Responding, WaitState, Success
      <4>4. Len(trace) + 1 \in 1 .. Len(trace') /\ trace'[Len(trace) + 1] = e
        BY <2>1, <4>2 DEF Records
      <4>. QED BY <3>1, <4>3, <4>4 DEF Scores
    <3>. QED BY <3>3, <3>4
  <2>. QED BY <1>1, <1>5, <2>2, <2>3 DEF StaysIdle, TakesOver, Serving
<1>. QED BY <1>3, <1>4, <1>5 DEF ScoreboardTraced

LEMMA ScoreboardAlways ==
  ASSUME TraceClear \subseteq {FALSE}
  PROVE  Spec => []ScoreboardTraced
<1>1. Init => ScoreboardTraced BY DEF Init, ScoreboardTraced, WaitState, Serving
<1>2. TypeOK /\ ScoreboardTraced /\ [Next]_vars => ScoreboardTraced'
  <2>. SUFFICES ASSUME TypeOK, ScoreboardTraced, [Next]_vars PROVE ScoreboardTraced' OBVIOUS
  <2>1. CASE ClockEdge BY <2>1, ScoreboardAfter DEF ClockEdge
  <2>2. CASE Reset BY <2>2 DEF Reset, ScoreboardTraced, WaitState, Serving
  <2>3. CASE UNCHANGED vars
    BY <2>3 DEF vars, control, outputs, ScoreboardTraced, Serving, Scores
  <2>. QED BY <2>1, <2>2, <2>3 DEF Next
<1>. QED BY <1>1, <1>2, TypeCorrect, PTL DEF Spec

\* The issue event of this cycle, if it is recorded, names a node of the graph
\* whose dependencies the trace shows finished.
LEMMA IssueJustified ==
  ASSUME TypeOK, ScanInside, ScoreboardTraced, NEW rsp, NEW e \in Events(rsp),
         e.phase = "issue", ~ trace_overflow
  PROVE  \E d \in Graph : /\ d.node = e.node /\ d.opcode = e.opcode
                          /\ d.deps \subseteq FinishedBefore(Len(trace) + 1)
<1>1. state = "SCAN" /\ CurrentReady /\ e = IssueEvent
  BY EventSays DEF FinishEvent
<1>2. scan_index \in 0 .. active.nodes - 1
  BY <1>1 DEF ScanInside, TypeOK, ControlTypeOK
<1>3. Decoded \in Graph BY <1>2 DEF Decoded, Graph
<1>4. Len(trace) \in Nat BY DEF TypeOK, OutputTypeOK
<1>5. ASSUME NEW n \in Decoded.deps PROVE n \in FinishedBefore(Len(trace) + 1)
  <2>1. n \in completed BY <1>1 DEF CurrentReady, DependenciesReady
  <2>2. PICK j \in 1 .. Len(trace) : trace[j].node = n /\ Scores(trace[j])
    BY <1>1, <2>1 DEF ScoreboardTraced, Serving
  <2>. QED BY <1>4, <2>2, FinishedMeans
<1>. QED BY <1>1, <1>3, <1>5 DEF IssueEvent

\* As the replay trace tells it, no node was issued before the nodes it depends
\* on finished, for this request and successfully, while neither the graphs are
\* rewritten nor the trace cleared.
THEOREM DependenciesKept ==
  ASSUME GraphWrites = {}, TraceClear \subseteq {FALSE}
  PROVE  Spec => []DependenciesRespected
<1>. DEFINE Inv == TypeOK /\ NoRequestTwice /\ NodesTraced /\ ScanInside /\ ScoreboardTraced
<1>1. Init => DependenciesRespected BY DEF Init, DependenciesRespected
<1>2. Inv /\ NodesTraced' /\ DependenciesRespected /\ [Next]_vars => DependenciesRespected'
  <2>. SUFFICES ASSUME Inv, NodesTraced', DependenciesRespected, [Next]_vars
                PROVE  DependenciesRespected'
    OBVIOUS
  <2>1. CASE ClockEdge
    <3>1. PICK ww \in WeightWrite, cr \in CplReady, tc \in TraceClear, rsp \in Responses :
            Cycle(ww, cr, tc, rsp)
      BY <2>1 DEF ClockEdge
    <3>2. UNCHANGED descriptor_mem BY <3>1 DEF Cycle, GraphWritePort
    <3>3. \/ Events(rsp) = {} /\ UNCHANGED <<trace, trace_overflow>>
          \/ trace_overflow' /\ UNCHANGED trace /\ Len(trace) >= TRACE_DEPTH
          \/ \E e \in Events(rsp) : e \in Event /\ Records(e)
      BY <3>1, TraceGrows DEF TypeOK, Cycle
    <3>. SUFFICES ASSUME Serving', NEW k \in DOMAIN trace',
                         trace'[k].id = active'.id, trace'[k].phase = "issue"
                  PROVE  (\E d \in Graph : /\ d.node = trace[k].node
                                           /\ d.opcode = trace[k].opcode
                                           /\ d.deps \subseteq FinishedBefore(k))'
      BY DEF DependenciesRespected
    <3>4. state' # "LOAD" BY DEF NodesTraced
    <3>5. Serving /\ active' = active
      BY <3>1, <3>4, ServiceFrom DEF Cycle
    <3>6. Graph' = Graph BY <3>2, <3>5 DEF Graph
    <3>7. DOMAIN trace = 1 .. Len(trace) /\ Len(trace) \in Nat
      BY DEF TypeOK, OutputTypeOK
    <3>8. \A j \in 1 .. Len(trace) : trace'[j] = trace[j]
      BY <3>3, <3>7 DEF Records
    <3>9. \A m \in 1 .. Len(trace) + 1 : \A n :
            n \in FinishedBefore(m) => \E j \in 1 .. m - 1 : trace'[j].node = n /\ Scores(trace[j])'
      BY <3>5, <3>7, <3>8, FinishedMeans DEF Scores
    <3>10. \A m, n : (\E j \in 1 .. m - 1 : trace'[j].node = n /\ Scores(trace[j])')
                     => n \in FinishedBefore(m)'
      BY DEF FinishedBefore, Scores
    <3>11. \A m \in 1 .. Len(trace) + 1 : FinishedBefore(m) \subseteq FinishedBefore(m)'
      BY <3>9, <3>10
    <3>12. CASE k \in DOMAIN trace
      <4>1. trace'[k] = trace[k] /\ k \in 1 .. Len(trace) + 1 BY <3>7, <3>8, <3>12
      <4>2. PICK d \in Graph : /\ d.node = trace[k].node /\ d.opcode = trace[k].opcode
                               /\ d.deps \subseteq FinishedBefore(k)
        BY <3>5, <3>12, <4>1 DEF DependenciesRespected
      <4>. QED BY <3>6, <3>11, <4>1, <4>2
    <3>13. CASE k \notin DOMAIN trace
      <4>1. PICK e \in Events(rsp) : e \in Event /\ Records(e)
        BY <3>3, <3>13
      <4>2. k = Len(trace) + 1 /\ trace'[k] = e
        BY <3>7, <3>13, <4>1 DEF Records, TypeOK, OutputTypeOK
      <4>3. ~ trace_overflow
        BY <3>7, <4>1, ParameterAssumption DEF Records, ScoreboardTraced
      <4>4. PICK d \in Graph : /\ d.node = e.node /\ d.opcode = e.opcode
                               /\ d.deps \subseteq FinishedBefore(Len(trace) + 1)
        BY <4>2, <4>3, IssueJustified
      <4>5. k \in 1 .. Len(trace) + 1 BY <3>7, <4>2
      <4>. QED BY <3>6, <3>11, <4>2, <4>4, <4>5
    <3>. QED BY <3>12, <3>13
  <2>2. CASE Reset BY <2>2 DEF Reset, DependenciesRespected, Serving
  <2>3. CASE UNCHANGED vars
    <3>1. UNCHANGED <<descriptor_mem, state, active, trace>>
      BY <2>3 DEF vars, control, outputs
    <3>. QED BY <3>1 DEF DependenciesRespected, Serving, Graph, FinishedBefore
  <2>. QED BY <2>1, <2>2, <2>3 DEF Next
<1>3. Spec => []NodesTraced BY NodesTracedAlways
<1>. QED
  BY <1>1, <1>2, <1>3, TypeCorrect, RequestsOnce, ScanInsideAlways, ScoreboardAlways, PTL
  DEF Spec

-----------------------------------------------------------------------------
(* The trace explains the completions *)

\* The events of a request whose payload has a bit set, and the parity of their
\* number: the bit of the XOR of the results, if all the events show it.
Carrying(tr, i, b) ==
  {j \in DOMAIN tr : /\ tr[j].id = i /\ tr[j].phase = "finish" /\ b \in tr[j].payload}
Odd(tr, i, b) == Cardinality(Carrying(tr, i, b)) % 2 = 1
Carries(e, i, b) == e.id = i /\ e.phase = "finish" /\ b \in e.payload
AllShow(tr, i, b) ==
  \A j \in DOMAIN tr : tr[j].id = i /\ tr[j].phase = "finish" => b \in Shown(tr[j])

\* A longer trace shows no bit that a shorter one did not, and none that its last
\* event does not show.
LEMMA ShowsLess ==
  ASSUME NEW old \in Seq(Event), NEW new \in Seq(Event), Len(new) = Len(old) + 1,
         \A k \in 1 .. Len(old) : new[k] = old[k], NEW i, NEW b, AllShow(new, i, b)
  PROVE  /\ AllShow(old, i, b)
         /\ new[Len(new)].id = i /\ new[Len(new)].phase = "finish" => b \in Shown(new[Len(new)])
BY DEF AllShow

\* A bit that an event shows is set in its payload iff it is set in the result.
LEMMA ShownIsResult ==
  ASSUME issued.opcode \in Opcode, NEW rsp, NEW status, NEW b
  PROVE  /\ state # "WAIT_TENSOR" /\ issued.opcode # "TENSOR" =>
              \A r : LET e == FinishEvent(status, LowBits(PAYLOAD_W, r))
                    IN  b \in Shown(e) => (b \in e.payload <=> b \in r)
         /\ (state = "WAIT_TENSOR" <=> issued.opcode = "TENSOR") /\ rsp \in Responses =>
              LET e == FinishEvent(status, Payload(rsp))
              IN  b \in Shown(e) => (b \in e.payload <=> b \in rsp.result)
<1>1. PAYLOAD_W \in Nat /\ LANES \in Nat /\ LANES <= PAYLOAD_W BY ParameterAssumption
<1>2. \A payload : /\ FinishEvent(status, payload).opcode = issued.opcode
                   /\ FinishEvent(status, payload).payload = payload
  BY DEF FinishEvent
<1>3. ASSUME issued.opcode # "TENSOR", NEW r, b \in Shown(FinishEvent(status, LowBits(PAYLOAD_W, r)))
      PROVE  b \in LowBits(PAYLOAD_W, r) <=> b \in r
  BY <1>2, <1>3 DEF Shown, LowBits
<1>4. ASSUME state = "WAIT_TENSOR" <=> issued.opcode = "TENSOR", rsp \in Responses,
             b \in Shown(FinishEvent(status, Payload(rsp)))
      PROVE  b \in Payload(rsp) <=> b \in rsp.result
  <2>1. CASE issued.opcode = "TENSOR"
    <3>1. b \in Int /\ b < PAYLOAD_W - LANES BY <1>2, <1>4, <2>1 DEF Shown
    <3>2. b \notin {PAYLOAD_W - LANES + l : l \in rsp.saturated}
      BY <1>1, <1>4, <3>1, ResponseType DEF Lane
    <3>. QED BY <1>4, <2>1, <3>1, <3>2 DEF Payload, LowBits
  <2>2. CASE issued.opcode # "TENSOR"
    <3>1. b < PAYLOAD_W BY <1>2, <1>4, <2>2 DEF Shown
    <3>. QED BY <1>4, <2>2, <3>1 DEF Payload, LowBits
  <2>. QED BY <2>1, <2>2
<1>. QED BY <1>2, <1>3, <1>4

LEMMA CarryingFinite ==
  ASSUME NEW tr \in Seq(Event), NEW i, NEW b
  PROVE  IsFiniteSet(Carrying(tr, i, b)) /\ Cardinality(Carrying(tr, i, b)) \in Nat
<1>1. IsFiniteSet(1 .. Len(tr)) BY FS_Interval
<1>2. Carrying(tr, i, b) \subseteq 1 .. Len(tr) BY DEF Carrying
<1>. QED BY <1>1, <1>2, FS_Subset, FS_CardinalityType

\* One event more changes the parity of the bits it carries, and no other.
LEMMA OddAfter ==
  ASSUME NEW old \in Seq(Event), NEW new \in Seq(Event), Len(new) = Len(old) + 1,
         \A k \in 1 .. Len(old) : new[k] = old[k], NEW i, NEW b
  PROVE  Odd(new, i, b) <=> IF Carries(new[Len(old) + 1], i, b) THEN ~ Odd(old, i, b)
                                                                ELSE Odd(old, i, b)
<1>1. /\ Len(old) \in Nat /\ Len(old) + 1 \notin Carrying(old, i, b)
      /\ IsFiniteSet(Carrying(old, i, b)) /\ Cardinality(Carrying(old, i, b)) \in Nat
  <2>1. Len(old) + 1 \notin Carrying(old, i, b) BY DEF Carrying
  <2>. QED BY <2>1, CarryingFinite
<1>2. CASE Carries(new[Len(old) + 1], i, b)
  <2>1. Carrying(new, i, b) = Carrying(old, i, b) \cup {Len(old) + 1}
    BY <1>1, <1>2 DEF Carrying, Carries
  <2>2. Cardinality(Carrying(new, i, b)) = Cardinality(Carrying(old, i, b)) + 1
    <3>1. \A S, x : IsFiniteSet(S) /\ x \notin S => Cardinality(S \cup {x}) = Cardinality(S) + 1
      BY FS_AddElement
    <3>. QED BY <1>1, <2>1, <3>1
  <2>3. \A n \in Nat : (n + 1) % 2 = 1 <=> ~ (n % 2 = 1) OBVIOUS
  <2>. QED BY <1>1, <1>2, <2>2, <2>3 DEF Odd
<1>3. CASE ~ Carries(new[Len(old) + 1], i, b)
  <2>1. Carrying(new, i, b) = Carrying(old, i, b)
    BY <1>1, <1>3 DEF Carrying, Carries
  <2>. QED BY <1>3, <2>1 DEF Odd
<1>. QED BY <1>2, <1>3

\* Nothing traced, nothing odd.
LEMMA OddNone ==
  ASSUME NEW tr, NEW i, \A k \in DOMAIN tr : tr[k].id # i, NEW b
  PROVE  ~ Odd(tr, i, b)
<1>1. Carrying(tr, i, b) = {} BY DEF Carrying
<1>. QED BY <1>1, FS_EmptySet DEF Odd

LEMMA XorBit == \A x, y, b : b \in Xor(x, y) <=> (b \in x) # (b \in y)
BY DEF Xor

\* A word has the bit b that the trace tells of request i.
Told(word, tr, i, b) == AllShow(tr, i, b) => (b \in word <=> Odd(tr, i, b))

\* Unless the trace lost an event: it ends in an issue event exactly while its
\* node executes; the accumulator, then the result on its way to the FIFO, then
\* the result in the FIFO is the XOR of the payloads of the request's events, in
\* the bits that all of them show.
Explained ==
  /\ TraceAlternates
  /\ Executing => /\ Len(trace) % 2 = 1
                  /\ trace[Len(trace)].id = active.id /\ trace[Len(trace)].node = issued.node
                  /\ state = "WAIT_TENSOR" <=> issued.opcode = "TENSOR"
  /\ ~ Executing => Len(trace) % 2 = 0
  /\ state = "LOAD" => accumulated = {}
  /\ Serving /\ state # "FINISH" => \A b : Told(accumulated, trace, active.id, b)
  /\ state = "FINISH" /\ issued.status = "OK" =>
       \A b : Told(issued.operand0, trace, active.id, b)
  /\ \A k \in DOMAIN cpl_fifo : cpl_fifo[k].status = "OK" =>
       \A b : Told(cpl_fifo[k].result, trace, cpl_fifo[k].id, b)

\* An event more keeps issue and finish alternating.
LEMMA AlternatesAfter ==
  ASSUME OutputTypeOK, Explained, NEW rsp, NEW e \in Events(rsp), Records(e)
  PROVE  /\ TraceAlternates'
         /\ Executing <=> e.phase = "finish"
         /\ Len(trace') % 2 = IF Executing THEN 0 ELSE 1
<1>1. Len(trace) \in Nat /\ DOMAIN trace = 1 .. Len(trace)
      /\ Len(trace') = Len(trace) + 1 /\ DOMAIN trace' = 1 .. Len(trace) + 1
  BY DEF OutputTypeOK, Records
<1>2. \A k \in 1 .. Len(trace) : trace'[k] = trace[k] BY DEF Records
<1>3. trace'[Len(trace) + 1] = e BY DEF Records
<1>4. /\ Executing <=> e.phase = "finish"
      /\ ~ Executing <=> e.phase = "issue"
      /\ Executing => e.id = active.id /\ e.node = issued.node
  BY DEF Events, IssueEvent, FinishEvent, Executing, Responding, WaitState
<1>5. /\ Executing => Len(trace) % 2 = 1 /\ (Len(trace) + 1) % 2 = 0 /\ Len(trace) >= 1
      /\ ~ Executing => Len(trace) % 2 = 0 /\ (Len(trace) + 1) % 2 = 1
  BY <1>1 DEF Explained
<1>6. ASSUME NEW k \in DOMAIN trace'
      PROVE  IF k % 2 = 1 THEN trace'[k].phase = "issue"
             ELSE /\ trace'[k].phase = "finish"
                  /\ trace'[k].id = trace'[k - 1].id /\ trace'[k].node = trace'[k - 1].node
  <2>1. CASE k \in 1 .. Len(trace)
    <3>1. CASE k % 2 = 1
      BY <1>1, <1>2, <2>1, <3>1 DEF Explained, TraceAlternates
    <3>2. CASE k % 2 # 1
      <4>1. k - 1 \in 1 .. Len(trace) BY <1>1, <2>1, <3>2
      <4>2. trace'[k] = trace[k] /\ trace'[k - 1] = trace[k - 1] BY <1>2, <2>1, <4>1
      <4>. QED BY <1>1, <2>1, <3>2, <4>2 DEF Explained, TraceAlternates
    <3>. QED BY <3>1, <3>2
  <2>2. CASE k = Len(trace) + 1
    <3>1. CASE Executing
      <4>1. k % 2 # 1 /\ k - 1 = Len(trace) /\ k - 1 \in 1 .. Len(trace)
        BY <1>1, <1>5, <2>2, <3>1
      <4>2. trace'[k] = e /\ trace'[k - 1] = trace[Len(trace)] BY <1>2, <1>3, <2>2, <4>1
      <4>. QED BY <1>4, <3>1, <4>1, <4>2 DEF Explained
    <3>2. CASE ~ Executing BY <1>3, <1>4, <1>5, <2>2, <3>2
    <3>. QED BY <3>1, <3>2
  <2>. QED BY <1>1, <2>1, <2>2
<1>. QED BY <1>1, <1>4, <1>5, <1>6 DEF TraceAlternates

\* The completions in the FIFO stay explained: their requests get no event any
\* more, and the one that joins them is explained in FINISH.
LEMMA FifoExplained ==
  ASSUME TypeOK, NoRequestTwice, Explained, NEW cr, CompletionPort(cr), NEW rsp,
         \/ Events(rsp) = {} /\ UNCHANGED trace
         \/ \E e \in Events(rsp) : e \in Event /\ Records(e)
  PROVE  \A k \in DOMAIN cpl_fifo' : cpl_fifo'[k].status = "OK" =>
           \A b : Told(cpl_fifo'[k].result, trace', cpl_fifo'[k].id, b)
<1>. USE DEF TypeOK
<1>1. PICK popped \in {0, 1} :
        LET kept == Len(cpl_fifo) - popped
        IN  /\ kept \in Nat
            /\ cpl_fifo' \in Seq(Completion) /\ delivered' \in Seq(Completion)
            /\ Len(cpl_fifo') = kept + (IF Push THEN 1 ELSE 0)
            /\ \A k \in 1 .. kept : cpl_fifo'[k] = cpl_fifo[k + popped]
            /\ Push => cpl_fifo'[kept + 1] = Retired
            /\ Len(delivered') = Len(delivered) + popped
            /\ \A k \in 1 .. Len(delivered) : delivered'[k] = delivered[k]
            /\ popped = 1 => delivered'[Len(delivered) + 1] = cpl_fifo[1]
  BY FifoAfter
<1>2. \A k \in DOMAIN cpl_fifo' :
        \/ \E l \in DOMAIN cpl_fifo : cpl_fifo'[k] = cpl_fifo[l]
        \/ Push /\ cpl_fifo'[k] = Retired
  <2>1. DOMAIN cpl_fifo = 1 .. Len(cpl_fifo) /\ Len(cpl_fifo) \in Nat
        /\ DOMAIN cpl_fifo' = 1 .. Len(cpl_fifo')
    BY <1>1 DEF OutputTypeOK
  <2>2. ASSUME NEW k \in DOMAIN cpl_fifo', k \in 1 .. Len(cpl_fifo) - popped
        PROVE  \E l \in DOMAIN cpl_fifo : cpl_fifo'[k] = cpl_fifo[l]
    <3>1. cpl_fifo'[k] = cpl_fifo[k + popped] BY <1>1, <2>2
    <3>2. k + popped \in 1 .. Len(cpl_fifo) /\ popped \in Nat
      <4>. HIDE DEF TypeOK
      <4>. QED BY <2>1, <2>2
    <3>. QED BY <2>1, <3>1, <3>2
  <2>3. ASSUME NEW k \in DOMAIN cpl_fifo', k \notin 1 .. Len(cpl_fifo) - popped
        PROVE  Push /\ cpl_fifo'[k] = Retired
    <3>1. Push /\ k = Len(cpl_fifo) - popped + 1 BY <1>1, <2>1, <2>3
    <3>. QED BY <1>1, <3>1
  <2>. QED BY <2>2, <2>3
<1>3. ASSUME NEW l \in DOMAIN cpl_fifo, NEW b
      PROVE  /\ Odd(trace', cpl_fifo[l].id, b) <=> Odd(trace, cpl_fifo[l].id, b)
             /\ AllShow(trace', cpl_fifo[l].id, b) => AllShow(trace, cpl_fifo[l].id, b)
  <2>1. CASE UNCHANGED trace BY <2>1
  <2>2. CASE \E e \in Events(rsp) : Records(e)
    <3>1. PICK e \in Events(rsp) : Records(e) BY <2>2
    <3>2. cpl_fifo[l].id \in InFifo BY DEF InFifo
    <3>3. e.id # cpl_fifo[l].id
      BY <3>2, EventSays DEF NoRequestTwice, InService
    <3>4. ~ Carries(trace'[Len(trace) + 1], cpl_fifo[l].id, b)
      BY <3>1, <3>3 DEF Carries, Records
    <3>5. AllShow(trace', cpl_fifo[l].id, b) => AllShow(trace, cpl_fifo[l].id, b)
      BY <3>1, ShowsLess DEF Records, OutputTypeOK
    <3>. QED BY <3>1, <3>4, <3>5, OddAfter DEF Records, OutputTypeOK
  <2>. QED BY <2>1, <2>2
<1>4. ASSUME Push, issued.status = "OK", NEW b
      PROVE  Told(Retired.result, trace', active.id, b)
  <2>1. Events(rsp) = {} BY <1>4, EventSays DEF Push
  <2>2. trace' = trace BY <2>1
  <2>. QED BY <1>4, <2>2 DEF Explained, Push, Retired
<1>. SUFFICES ASSUME NEW k \in DOMAIN cpl_fifo', cpl_fifo'[k].status = "OK", NEW b
              PROVE  Told(cpl_fifo'[k].result, trace', cpl_fifo'[k].id, b)
  OBVIOUS
<1>5. CASE \E l \in DOMAIN cpl_fifo : cpl_fifo'[k] = cpl_fifo[l]
  <2>1. PICK l \in DOMAIN cpl_fifo : cpl_fifo'[k] = cpl_fifo[l] BY <1>5
  <2>2. Told(cpl_fifo[l].result, trace, cpl_fifo[l].id, b)
    BY <2>1 DEF Explained
  <2>. QED BY <1>3, <2>1, <2>2 DEF Told
<1>6. CASE Push /\ cpl_fifo'[k] = Retired
  <2>1. issued.status = "OK" /\ cpl_fifo'[k].id = active.id BY <1>6 DEF Retired
  <2>. QED BY <1>4, <1>6, <2>1
<1>. QED BY <1>2, <1>5, <1>6

\* The kinds of step, by what the trace gets to see of them.
Quiet(ww, rsp) ==
  \/ StaysIdle \/ TakesOver \/ Loads \/ Skips \/ Waits
  \/ Ends(rsp) /\ state \in {"SCAN", "FINISH"}

LEMMA QuietSays ==
  ASSUME NEW ww, NEW rsp, Quiet(ww, rsp)
  PROVE  Events(rsp) = {} /\ (Executing' <=> Executing)
         /\ (Executing => UNCHANGED <<active, issued>>)
BY DEF Quiet, StaysIdle, TakesOver, Loads, Skips, Waits, AtNode, Ends, Events, Executing,
       Responding, WaitState, Push

LEMMA EventsThen ==
  ASSUME NEW rsp
  PROVE  /\ state = "SCAN" /\ CurrentReady => Events(rsp) = {IssueEvent}
         /\ state = "EXEC_IMMEDIATE" =>
              Events(rsp) = {FinishEvent("OK", LowBits(PAYLOAD_W, issued.operand0))}
         /\ Responding => Events(rsp) = {FinishEvent(rsp.status, Payload(rsp))}
<1>1. CASE state = "SCAN" BY <1>1 DEF Events, Responding, WaitState
<1>2. CASE state = "EXEC_IMMEDIATE" BY <1>2 DEF Events, Responding, WaitState
<1>3. CASE Responding
  <2>1. state # "SCAN" /\ state # "EXEC_IMMEDIATE" BY <1>3 DEF Responding, WaitState
  <2>. QED BY <1>3, <2>1 DEF Events
<1>. QED BY <1>1, <1>2, <1>3

LEMMA FinishFields ==
  \A status, payload :
    /\ FinishEvent(status, payload).phase = "finish"
    /\ FinishEvent(status, payload).id = active.id
BY DEF FinishEvent

\* A word folds an event into the accumulator, as far as the event shows it.
Folded(word, e) ==
  \A b \in Shown(e) : b \in word <=> (b \in accumulated) # (b \in e.payload)

LEMMA LoudSays ==
  ASSUME ControlTypeOK, NEW ww, NEW rsp \in Responses, ~ ww,
         Issues(ww) \/ Finishes(rsp) \/ Ends(rsp), ~ Quiet(ww, rsp),
         Executing => (state = "WAIT_TENSOR" <=> issued.opcode = "TENSOR")
  PROVE  /\ Events(rsp) # {} /\ (Executing' <=> ~ Executing)
         /\ \A e \in Events(rsp) :
              /\ Executing' => e.id = active'.id /\ e.node = issued'.node
              /\ Executing' => e.phase = "issue"
              /\ Finishes(rsp) => /\ e.phase = "finish" /\ e.id = active.id
                                  /\ Folded(accumulated', e)
              /\ Ends(rsp) /\ issued'.status = "OK" =>
                   /\ e.phase = "finish" /\ e.id = active.id
                   /\ Folded(issued'.operand0, e)
         /\ Executing' => (state' = "WAIT_TENSOR" <=> issued'.opcode = "TENSOR")
<1>. issued.opcode \in Opcode BY DEF ControlTypeOK
<1>1. CASE Issues(ww)
  <2>1. Executing' /\ ~ Executing /\ state = "SCAN" /\ CurrentReady
    BY <1>1 DEF Issues, Executing, WaitState
  <2>2. Events(rsp) = {IssueEvent} BY <2>1, EventsThen
  <2>3. ~ Finishes(rsp) /\ ~ Ends(rsp)
    BY <2>1 DEF Finishes, Ends, Executing, WaitState
  <2>4. issued'.node = Decoded.node /\ active' = active
    BY <1>1 DEF Issues, ControlTypeOK
  <2>5. state' = "WAIT_TENSOR" <=> issued'.opcode = "TENSOR"
    BY <1>1, <2>1 DEF Issues
  <2>. QED BY <2>1, <2>2, <2>3, <2>4, <2>5 DEF IssueEvent
<1>2. CASE Finishes(rsp)
  <2>1. Executing /\ ~ Executing' /\ state # "SCAN" /\ ~ Ends(rsp)
    BY <1>2 DEF Finishes, Ends, Executing, WaitState, Responding
  <2>2. Events(rsp) # {} /\ \A e \in Events(rsp) :
          /\ e.phase = "finish" /\ e.id = active.id
          /\ Folded(accumulated', e)
    <3>1. CASE state = "EXEC_IMMEDIATE" /\ accumulated' = Xor(accumulated, issued.operand0)
      <4>1. issued.opcode # "TENSOR" BY <2>1, <3>1
      <4>. DEFINE e == FinishEvent("OK", LowBits(PAYLOAD_W, issued.operand0))
      <4>2. \A b \in Shown(e) : b \in e.payload <=> b \in issued.operand0
        BY <3>1, <4>1, ShownIsResult
      <4>3. Folded(accumulated', e)
        <5>. HIDE DEF e
        <5>. QED BY <3>1, <4>1, <4>2, XorBit DEF Folded
      <4>. QED BY <3>1, <4>3, EventsThen, FinishFields
    <3>2. CASE Responding /\ accumulated' = Xor(accumulated, rsp.result)
      <4>1. Folded(accumulated', FinishEvent(rsp.status, Payload(rsp)))
        BY <2>1, <3>2, ShownIsResult, XorBit DEF Folded
      <4>. QED BY <3>2, <4>1, EventsThen, FinishFields
    <3>. QED BY <1>2, <3>1, <3>2 DEF Finishes
  <2>. QED BY <2>1, <2>2
<1>3. CASE Ends(rsp)
  <2>1. /\ Executing /\ ~ Executing' /\ state # "SCAN" /\ ~ Finishes(rsp)
        /\ \/ state = "EXEC_IMMEDIATE" /\ issued.opcode = "COMPLETE"
              /\ issued'.operand0 = Xor(accumulated, issued.operand0)
           \/ Responding /\ issued'.status # "OK"
    BY <1>3 DEF Quiet, Ends, Finishes, Executing, WaitState, Responding, Success
  <2>2. Events(rsp) # {} /\ \A e \in Events(rsp) :
          /\ e.phase = "finish" /\ e.id = active.id
          /\ state = "EXEC_IMMEDIATE" => Folded(issued'.operand0, e)
    <3>1. CASE state = "EXEC_IMMEDIATE"
      <4>1. /\ issued.opcode # "TENSOR" /\ issued'.operand0 = Xor(accumulated, issued.operand0)
        BY <2>1, <3>1 DEF Responding, WaitState
      <4>. DEFINE e == FinishEvent("OK", LowBits(PAYLOAD_W, issued.operand0))
      <4>2. \A b \in Shown(e) : b \in e.payload <=> b \in issued.operand0
        BY <3>1, <4>1, ShownIsResult
      <4>3. Folded(issued'.operand0, e)
        <5>. HIDE DEF e
        <5>. QED BY <3>1, <4>1, <4>2, XorBit DEF Folded
      <4>. QED BY <3>1, <4>3, EventsThen, FinishFields
    <3>2. CASE Responding
      <4>1. state # "EXEC_IMMEDIATE" BY <3>2 DEF Responding, WaitState
      <4>. QED BY <3>2, <4>1, EventsThen, FinishFields
    <3>. QED BY <2>1, <3>1, <3>2
  <2>. QED BY <2>1, <2>2 DEF Responding, WaitState
<1>. QED BY <1>1, <1>2, <1>3

LEMMA ExplainedAfter ==
  ASSUME TypeOK, NoRequestTwice, NodesTraced, Explained, ~ trace_overflow',
         TraceClear \subseteq {FALSE}, WeightWrite \subseteq {FALSE},
         NEW ww \in WeightWrite, NEW cr, NEW tc \in TraceClear, NEW rsp \in Responses,
         Cycle(ww, cr, tc, rsp)
  PROVE  Explained'
<1>1. \/ StaysIdle \/ TakesOver \/ Loads \/ Skips \/ Issues(ww) \/ Waits
      \/ Finishes(rsp) \/ Ends(rsp)
  BY StepKinds DEF TypeOK, Cycle
<1>2. \/ Events(rsp) = {} /\ UNCHANGED trace
      \/ \E e \in Events(rsp) : e \in Event /\ Records(e)
  BY TraceGrows DEF TypeOK, Cycle
<1>3. \A k \in DOMAIN cpl_fifo' : cpl_fifo'[k].status = "OK" =>
        \A b : Told(cpl_fifo'[k].result, trace', cpl_fifo'[k].id, b)
  BY <1>2, FifoExplained DEF Cycle
<1>4. trace \in Seq(Event) /\ DOMAIN trace = 1 .. Len(trace) /\ Len(trace) \in Nat
  BY DEF TypeOK, OutputTypeOK
<1>5. CASE Quiet(ww, rsp)
  <2>1. /\ Events(rsp) = {} /\ trace' = trace
        /\ Executing' <=> Executing
        /\ Executing => UNCHANGED <<active, issued>>
    BY <1>2, <1>5, QuietSays
  <2>2. state' = "LOAD" => accumulated' = {}
    BY <1>5 DEF Quiet, StaysIdle, TakesOver, Loads, Skips, Waits, Ends, WaitState
  <2>3. ASSUME Serving', state' # "FINISH", NEW b
        PROVE  Told(accumulated', trace', active'.id, b)
    <3>1. CASE TakesOver
      <4>1. PICK s \in Grants : active'.id = request[s].id BY <3>1 DEF TakesOver
      <4>2. active'.id \in InSlots BY <4>1 DEF Grants, InSlots
      <4>3. \A k \in DOMAIN trace : trace[k].id # active'.id
        BY <4>2 DEF NodesTraced, NoRequestTwice
      <4>. QED BY <2>1, <3>1, <4>3, OddNone DEF TakesOver, Told
    <3>2. CASE Loads \/ Skips \/ Waits
      <4>1. UNCHANGED <<active, accumulated>> /\ Serving /\ state # "FINISH"
        BY <3>2 DEF Loads, Skips, Waits, AtNode, Serving, WaitState
      <4>. QED BY <2>1, <4>1 DEF Explained
    <3>. QED BY <1>5, <2>3, <3>1, <3>2 DEF Quiet, StaysIdle, Ends, Serving
  <2>4. ASSUME state' = "FINISH", issued'.status = "OK", NEW b
        PROVE  Told(issued'.operand0, trace', active'.id, b)
    <3>1. Ends(rsp) /\ state = "FINISH"
      BY <1>5, <2>4
      DEF Quiet, StaysIdle, TakesOver, Loads, Skips, Waits, WaitState, Ends, Responding
    <3>2. UNCHANGED <<active, issued>> BY <3>1 DEF Ends, Responding, WaitState
    <3>. QED BY <2>1, <2>4, <3>1, <3>2 DEF Explained
  <2>5. Executing' => (state' = "WAIT_TENSOR" <=> issued'.opcode = "TENSOR")
    <3>1. Executing' => state' = state /\ UNCHANGED issued
      BY <1>5
      DEF Quiet, StaysIdle, TakesOver, Loads, Skips, Waits, AtNode, Ends, Executing, WaitState
    <3>. QED BY <2>1, <3>1 DEF Explained
  <2>. QED BY <1>3, <2>1, <2>2, <2>3, <2>4, <2>5 DEF Explained, TraceAlternates
<1>6. CASE ~ Quiet(ww, rsp)
  <2>1. Issues(ww) \/ Finishes(rsp) \/ Ends(rsp) BY <1>1, <1>6 DEF Quiet
  <2>2. PICK e \in Events(rsp) : e \in Event /\ Records(e)
    BY <1>2, <1>6, <2>1, LoudSays DEF TypeOK, Explained
  <2>3. ~ ww OBVIOUS
  <2>4. /\ Executing' <=> ~ Executing
        /\ Executing' => e.id = active'.id /\ e.node = issued'.node /\ e.phase = "issue"
        /\ Finishes(rsp) => /\ e.phase = "finish" /\ e.id = active.id
                            /\ Folded(accumulated', e)
        /\ Ends(rsp) /\ issued'.status = "OK" =>
             /\ e.phase = "finish" /\ e.id = active.id
             /\ Folded(issued'.operand0, e)
        /\ Executing' => (state' = "WAIT_TENSOR" <=> issued'.opcode = "TENSOR")
    BY <1>6, <2>1, <2>2, <2>3, LoudSays DEF TypeOK, Explained
  <2>5. TraceAlternates' /\ Len(trace') % 2 = IF Executing THEN 0 ELSE 1
    BY <2>2, AlternatesAfter DEF TypeOK
  <2>6. trace' \in Seq(Event) /\ Len(trace') = Len(trace) + 1 /\ trace'[Len(trace')] = e
    BY <2>2 DEF Records
  <2>7. \A b : Odd(trace', active.id, b) <=>
                 IF Carries(e, active.id, b) THEN ~ Odd(trace, active.id, b)
                                             ELSE Odd(trace, active.id, b)
    BY <1>4, <2>2, OddAfter DEF Records
  <2>8. active' = active /\ Serving /\ state # "FINISH" /\ state' # "LOAD" /\ state' # "IDLE"
    BY <1>6, <2>1 DEF Issues, Finishes, Ends, Quiet, Serving, Executing, WaitState, Responding
  <2>9. \A b : AllShow(trace', active.id, b) =>
                /\ b \in accumulated <=> Odd(trace, active.id, b)
                /\ e.id = active.id /\ e.phase = "finish" => b \in Shown(e)
    <3>1. \A b : AllShow(trace', active.id, b) =>
                  /\ AllShow(trace, active.id, b)
                  /\ e.id = active.id /\ e.phase = "finish" => b \in Shown(e)
      BY <1>4, <2>2, <2>6, ShowsLess DEF Records
    <3>. QED BY <2>8, <3>1 DEF Explained, Told
  <2>10. ASSUME state' # "FINISH", NEW b
         PROVE  Told(accumulated', trace', active'.id, b)
    <3>. SUFFICES ASSUME AllShow(trace', active.id, b)
                  PROVE  b \in accumulated' <=> Odd(trace', active.id, b)
      BY <2>8 DEF Told
    <3>1. CASE Issues(ww)
      <4>1. Executing' /\ accumulated' = accumulated BY <2>3, <3>1 DEF Issues
      <4>2. ~ Carries(e, active.id, b) BY <2>4, <4>1 DEF Carries
      <4>. QED BY <2>7, <2>9, <4>1, <4>2
    <3>2. CASE Finishes(rsp)
      <4>1. Carries(e, active.id, b) <=> b \in e.payload BY <2>4, <3>2 DEF Carries
      <4>2. b \in accumulated' <=> (b \in accumulated) # (b \in e.payload)
        BY <2>4, <2>9, <3>2 DEF Folded
      <4>. QED BY <2>7, <2>9, <4>1, <4>2
    <3>. QED BY <2>1, <2>10, <3>1, <3>2 DEF Ends
  <2>11. ASSUME state' = "FINISH", issued'.status = "OK", NEW b
         PROVE  Told(issued'.operand0, trace', active'.id, b)
    <3>. SUFFICES ASSUME AllShow(trace', active.id, b)
                  PROVE  b \in issued'.operand0 <=> Odd(trace', active.id, b)
      BY <2>8 DEF Told
    <3>1. Ends(rsp)
      BY <2>1, <2>11 DEF Issues, Finishes, Executing, WaitState
    <3>2. Carries(e, active.id, b) <=> b \in e.payload BY <2>4, <2>11, <3>1 DEF Carries
    <3>3. b \in issued'.operand0 <=> (b \in accumulated) # (b \in e.payload)
      BY <2>4, <2>9, <2>11, <3>1 DEF Folded
    <3>. QED BY <2>7, <2>9, <3>2, <3>3
  <2>. QED BY <1>3, <2>4, <2>5, <2>6, <2>8, <2>10, <2>11 DEF Explained
<1>. QED BY <1>5, <1>6

LEMMA ExplainedAlways ==
  ASSUME TraceClear \subseteq {FALSE}, WeightWrite \subseteq {FALSE}
  PROVE  Spec => [](trace_overflow \/ Explained)
<1>1. Init => Explained
  <2>. SUFFICES ASSUME Init PROVE Explained OBVIOUS
  <2>1. /\ state = "IDLE" /\ trace = <<>> /\ cpl_fifo = <<>> BY DEF Init
  <2>. QED BY <2>1 DEF Explained, TraceAlternates, Executing, WaitState, Serving
<1>2. /\ TypeOK /\ NoRequestTwice /\ NodesTraced /\ (trace_overflow \/ Explained) /\ [Next]_vars
      => (trace_overflow \/ Explained)'
  <2>. SUFFICES ASSUME TypeOK, NoRequestTwice, NodesTraced, trace_overflow \/ Explained,
                       [Next]_vars, ~ trace_overflow'
                PROVE  Explained'
    OBVIOUS
  <2>1. CASE ClockEdge
    <3>1. PICK ww \in WeightWrite, cr \in CplReady, tc \in TraceClear, rsp \in Responses :
            Cycle(ww, cr, tc, rsp)
      BY <2>1 DEF ClockEdge
    <3>2. ~ trace_overflow
      <4>1. CASE trace_overflow' = trace_overflow BY <4>1
      <4>2. CASE trace_overflow' BY <4>2
      <4>. QED BY <3>1, <4>1, <4>2, TraceGrows DEF TypeOK, Cycle, Records
    <3>. QED BY <3>1, <3>2, ExplainedAfter
  <2>2. CASE Reset
    <3>1. state' = "IDLE" /\ trace' = <<>> /\ cpl_fifo' = <<>> BY <2>2 DEF Reset
    <3>. QED BY <3>1 DEF Explained, TraceAlternates, Executing, WaitState, Serving
  <2>3. CASE UNCHANGED vars
    <3>1. UNCHANGED <<state, active, issued, accumulated, trace, trace_overflow, cpl_fifo>>
      BY <2>3 DEF vars, control, outputs
    <3>. QED BY <3>1 DEF Explained, TraceAlternates, Executing, Serving
  <2>. QED BY <2>1, <2>2, <2>3 DEF Next
<1>. QED BY <1>1, <1>2, TypeCorrect, RequestsOnce, NodesTracedAlways, PTL DEF Spec

\* While the host neither clears the trace nor writes weights, and until the
\* trace loses an event: it is a sequence of whole node executions, and every
\* successful completion in the FIFO carries, in the bits that all finish events of
\* its request show, the XOR of their payloads.
THEOREM CompletionsExplained ==
  ASSUME TraceClear \subseteq {FALSE}, WeightWrite \subseteq {FALSE}
  PROVE  Spec => [](trace_overflow \/ CompletionExplained)
<1>1. Explained => CompletionExplained
  <2>. SUFFICES ASSUME Explained, NEW k \in DOMAIN cpl_fifo, cpl_fifo[k].status = "OK",
                       NEW b \in 0 .. DATA_W - 1,
                       \A j \in FinishesOf(cpl_fifo[k].id) : b \in Shown(trace[j])
                PROVE  b \in cpl_fifo[k].result <=>
                         Cardinality({j \in FinishesOf(cpl_fifo[k].id) :
                                        b \in trace[j].payload}) % 2 = 1
    BY DEF Explained, CompletionExplained
  <2>1. AllShow(trace, cpl_fifo[k].id, b) BY DEF AllShow, FinishesOf
  <2>2. Carrying(trace, cpl_fifo[k].id, b) =
          {j \in FinishesOf(cpl_fifo[k].id) : b \in trace[j].payload}
    BY DEF Carrying, FinishesOf
  <2>. QED BY <2>1, <2>2 DEF Explained, Told, Odd
<1>. QED BY <1>1, ExplainedAlways, PTL

-----------------------------------------------------------------------------
(* How long a trace must be *)

\* A node that has not finished for the request in service leaves room: finish
\* events stand at the even places, and each has its own request and node.
LEMMA RoomFor ==
  ASSUME TypeOK, NoRequestTwice, NodesTraced, FinishedOnce, Explained, Serving, NEW n \in Node,
         \A k \in DOMAIN trace :
           trace[k].id = active.id /\ trace[k].phase = "finish" => trace[k].node # n
  PROVE  Len(trace) \div 2 + 1 <= MaxRequests * MAX_NODES
<1>. DEFINE m == Len(trace) \div 2
            S == (1 .. MaxRequests) \X Node
            q == <<active.id, n>>
            f == [j \in 1 .. m |-> <<trace[2 * j].id, trace[2 * j].node>>]
<1>1. Len(trace) \in Nat /\ DOMAIN trace = 1 .. Len(trace) /\ trace \in Seq(Event)
  BY DEF TypeOK, OutputTypeOK
<1>2. m \in Nat /\ \A j \in 1 .. m : 2 * j \in DOMAIN trace /\ (2 * j) % 2 # 1
  BY <1>1
<1>3. \A j \in 1 .. m : trace[2 * j].phase = "finish"
  BY <1>2 DEF Explained, TraceAlternates
<1>4. submitted \in 0 .. MaxRequests /\ MaxRequests \in Nat
  BY ParameterAssumption DEF TypeOK, QueueTypeOK
<1>5. \A k \in DOMAIN trace : trace[k].id \in 1 .. MaxRequests /\ trace[k].node \in Node
  <2>1. ASSUME NEW k \in DOMAIN trace PROVE trace[k].id \in 1 .. submitted
    BY DEF NodesTraced, NoRequestTwice
  <2>2. \A k \in DOMAIN trace : trace[k] \in Event BY <1>1
  <2>. QED BY <1>4, <2>1, <2>2 DEF Event
<1>6. q \in S
  <2>1. active.id \in 1 .. submitted BY DEF NoRequestTwice, InService
  <2>. QED BY <1>4, <2>1
<1>7. ASSUME NEW j \in 1 .. m PROVE f[j] \in S \ {q}
  <2>1. 2 * j \in DOMAIN trace /\ trace[2 * j].phase = "finish" BY <1>2, <1>3
  <2>2. trace[2 * j].id \in 1 .. MaxRequests /\ trace[2 * j].node \in Node BY <1>5, <2>1
  <2>3. ~ (trace[2 * j].id = active.id /\ trace[2 * j].node = n) BY <2>1
  <2>. QED BY <2>2, <2>3
<1>8. ASSUME NEW j \in 1 .. m, NEW k \in 1 .. m, f[j] = f[k] PROVE j = k
  <2>1. trace[2 * j].id = trace[2 * k].id /\ trace[2 * j].node = trace[2 * k].node BY <1>8
  <2>2. 2 * j = 2 * k BY <1>2, <1>3, <2>1 DEF FinishedOnce
  <2>. QED BY <1>2, <2>2
<1>9. f \in Injection(1 .. m, S \ {q})
  BY <1>7, <1>8 DEF Injection, IsInjective
<1>10. IsFiniteSet(S) /\ Cardinality(S) = MaxRequests * MAX_NODES
  <2>1. IsFiniteSet(1 .. MaxRequests) /\ Cardinality(1 .. MaxRequests) = MaxRequests
    BY <1>4, FS_Interval
  <2>2. IsFiniteSet(Node) /\ Cardinality(Node) = MAX_NODES
    BY FS_Interval, ParameterAssumption DEF Node
  <2>. QED BY <2>1, <2>2, FS_Product
<1>11. IsFiniteSet(S \ {q}) /\ Cardinality(S \ {q}) = MaxRequests * MAX_NODES - 1
  <2>. HIDE DEF S, q
  <2>. QED BY <1>6, <1>10, FS_RemoveElement
<1>12. Cardinality(1 .. m) = m /\ IsFiniteSet(1 .. m)
  <2>. HIDE DEF m
  <2>. QED BY <1>2, FS_Interval
<1>13. m <= MaxRequests * MAX_NODES - 1
  <2>. HIDE DEF S, q, f, m
  <2>1. Cardinality(1 .. m) <= Cardinality(S \ {q}) BY <1>9, <1>11, FS_Injection
  <2>. QED BY <1>11, <1>12, <2>1
<1>14. MaxRequests * MAX_NODES \in Int BY ParameterAssumption
<1>. HIDE DEF m
<1>15. m + 1 <= MaxRequests * MAX_NODES BY <1>2, <1>13, <1>14
<1>. QED BY <1>15 DEF m

\* A trace with two entries for each node of each request loses no event, so
\* the trace explains the completions in the bits it shows: the depth is enough whatever the graphs.
THEOREM TraceRoom ==
  ASSUME TraceClear \subseteq {FALSE}, WeightWrite \subseteq {FALSE},
         2 * (MaxRequests * MAX_NODES) <= TRACE_DEPTH
  PROVE  Spec => [](~ trace_overflow /\ CompletionExplained)
<1>1. Init => ~ trace_overflow BY DEF Init
<1>2. /\ TypeOK /\ NoRequestTwice /\ NodesTraced /\ FinishedOnce /\ Explained
      /\ ~ trace_overflow /\ [Next]_vars
      => ~ trace_overflow'
  <2>. SUFFICES ASSUME TypeOK, NoRequestTwice, NodesTraced, FinishedOnce, Explained,
                       ~ trace_overflow, [Next]_vars
                PROVE  ~ trace_overflow'
    OBVIOUS
  <2>1. CASE ClockEdge
    <3>1. PICK ww \in WeightWrite, cr \in CplReady, tc \in TraceClear, rsp \in Responses :
            Cycle(ww, cr, tc, rsp)
      BY <2>1 DEF ClockEdge
    <3>2. ASSUME NEW e \in Events(rsp) PROVE Len(trace) < TRACE_DEPTH
      <4>1. Serving BY EventSays
      <4>2. PICK n \in Node : n \notin completed /\ (state = "SCAN" \/ Executing)
        <5>1. CASE state = "SCAN" /\ CurrentReady
          BY <5>1, ReadyType DEF CurrentReady, TypeOK
        <5>2. CASE Executing
          BY <5>2 DEF NodesTraced, TypeOK, ControlTypeOK
        <5>. QED BY <5>1, <5>2, EventSays DEF Executing, Responding
      <4>3. Len(trace) \div 2 + 1 <= MaxRequests * MAX_NODES
        BY <4>1, <4>2, RoomFor DEF NodesTraced
      <4>4. Len(trace) \in Nat /\ MaxRequests * MAX_NODES \in Int /\ TRACE_DEPTH \in Nat
        BY ParameterAssumption DEF TypeOK, OutputTypeOK
      <4>5. Len(trace) <= 2 * (Len(trace) \div 2) + 1 BY <4>4
      <4>. DEFINE p == MaxRequests * MAX_NODES
      <4>6. Len(trace) \div 2 \in Int BY <4>4
      <4>. HIDE DEF p
      <4>. QED BY <4>3, <4>4, <4>5, <4>6 DEF p
    <3>3. TracePort(tc, rsp) /\ ~ tc BY <3>1 DEF Cycle
    <3>. QED BY <3>2, <3>3 DEF TracePort
  <2>2. CASE Reset BY <2>2 DEF Reset
  <2>3. CASE UNCHANGED vars BY <2>3 DEF vars, outputs
  <2>. QED BY <2>1, <2>2, <2>3 DEF Next
<1>. QED
  BY <1>1, <1>2, TypeCorrect, RequestsOnce, NodesTracedAlways, ExplainedAlways,
     CompletionsExplained, PTL
  DEF Spec

-----------------------------------------------------------------------------
(* The latency bound of the QoS monitor *)

\* One cycle of the FSM as the counters of the monitor see it.
KeepsWaiting == state = "IDLE" /\ state' = "IDLE" /\ Grants = {} /\ UNCHANGED <<active, qos>>
StartsService ==
  /\ state = "IDLE" /\ state' = "LOAD" /\ service' = 0 /\ violation' = violation
  /\ \E s \in Grants : /\ active'.priority = request[s].priority
                       /\ latency' = GrantLatency(request[s].wait)
Serves == Busy /\ state' # "IDLE" /\ ServiceTick /\ active' = active
Retires ==
  /\ state = "FINISH" /\ state' = (IF PushReady THEN "IDLE" ELSE "FINISH")
  /\ RecordRetirement /\ active' = active

LEMMA MonitorKinds ==
  ASSUME ControlTypeOK, NEW ww, NEW rsp, Control(ww, rsp)
  PROVE  KeepsWaiting \/ StartsService \/ Serves \/ Retires
<1>1. CASE Idle
  <2>1. CASE Grants = {} /\ UNCHANGED <<control, qos>>
    BY <1>1, <2>1 DEF Idle, control, KeepsWaiting
  <2>2. CASE ~ (Grants = {} /\ UNCHANGED <<control, qos>>)
    BY <1>1, <2>2 DEF Idle, StartsService
  <2>. QED BY <2>1, <2>2
<1>2. CASE Load BY <1>2 DEF Load, Serves, Busy
<1>3. CASE Scan(ww)
  <2>1. CurrentReady => ServedIn[Decoded.opcode] # "IDLE"
    <3>1. CurrentReady => Decoded.opcode \in Opcode
      BY DEF CurrentReady, DecodedValid, FlagsValid
    <3>. QED BY <3>1 DEF ServedIn, Opcode
  <2>. QED BY <1>3, <2>1 DEF Scan, Terminate, Skip, Issue, Serves, Busy
<1>4. CASE ExecImmediate
  BY <1>4 DEF ExecImmediate, Terminate, NodeFinished, Serves, Busy
<1>5. CASE WaitEngine(rsp)
  BY <1>5 DEF WaitEngine, WaitState, Terminate, NodeFinished, Serves, Busy
<1>6. CASE Finish BY <1>6 DEF Finish, Retires
<1>. QED BY <1>1, <1>2, <1>3, <1>4, <1>5, <1>6 DEF Control

\* A request that stays in its slot has waited at most one cycle more; one that
\* is new has not waited at all.
LEMMA WaitAfter ==
  ASSUME QueueTypeOK, RequestPort, NEW s \in Pending'
  PROVE  /\ request'[s].wait \in Nat
         /\ s \in Pending => request'[s].wait <= request[s].wait + 1
         /\ s \notin Pending => request'[s].wait = 0
<1>1. s \in Slot BY DEF Pending
<1>2. \A n \in Counter : Saturate(n) \in Nat /\ Saturate(n) <= n + 1
  BY ParameterAssumption DEF Counter, Saturate
<1>3. CASE s \in Pending
  <2>1. s \notin Grants BY <1>3, SlotsAfter
  <2>2. request[s] \in SlotEntry /\ request[s] # NoRequest
    BY <1>3 DEF Pending, QueueTypeOK
  <2>3. Aged(s) = [request[s] EXCEPT !.wait = Saturate(request[s].wait)]
    BY <2>1, <2>2 DEF Aged
  <2>4. request'[s] = Aged(s)
    BY <1>1, <1>3, LowestUnique DEF RequestPort, AdmitNone, Admit
  <2>. QED BY <1>2, <1>3, <2>2, <2>3, <2>4 DEF SlotEntry
<1>4. CASE s \notin Pending
  <2>1. Aged(s) = NoRequest BY <1>1, <1>4 DEF Aged, Pending
  <2>2. request'[s] # NoRequest BY DEF Pending
  <2>3. PICK r \in Requests : request'[s] = NewEntry(r)
    BY <1>1, <2>1, <2>2 DEF RequestPort, AdmitNone, Admit
  <2>. QED BY <1>4, <2>3 DEF NewEntry
<1>. QED BY <1>3, <1>4

\* The pending requests of highest priority that were submitted before i.
Before(req, i) ==
  {t \in Slot : req[t] # NoRequest /\ req[t].priority = 3 /\ req[t].id < i}

LEMMA Least ==
  ASSUME NEW S \in SUBSET Nat, S # {}
  PROVE  \E x \in S : \A y \in S : x <= y
<1>1. IsWellFoundedOn(OpToRel(<, Nat), Nat)
  BY NatLessThanWellFounded
<1>2. PICK x \in S : \A y \in S : ~ (<<y, x>> \in OpToRel(<, Nat))
  BY <1>1, WFMin, Zenon
<1>3. \A y \in S : ~ (y < x) BY <1>2 DEF OpToRel
<1>4. \A y \in S : x <= y BY <1>3
<1>. QED BY <1>4

\* An idle scheduler with a request of highest priority pending grants one.
LEMMA SomeoneWins ==
  ASSUME QueueTypeOK, AgesTellOrder, state = "IDLE",
         NEW s \in Pending, request[s].priority = 3
  PROVE  Grants # {}
<1>. DEFINE Urgent == {t \in Pending : request[t].priority = 3}
            Ids == {request[t].id : t \in Urgent}
<1>1. \A t \in Pending : request[t] \in SlotEntry BY DEF Pending, QueueTypeOK
<1>2. Ids \subseteq Nat /\ Ids # {} BY <1>1 DEF SlotEntry
<1>3. Ids \in SUBSET Nat BY <1>2
<1>4. PICK i \in Ids : \A j \in Ids : i <= j BY <1>2, <1>3, Least
<1>5. PICK t \in Urgent : request[t].id = i OBVIOUS
<1>6. ASSUME NEW u \in Pending \ {t} PROVE Better(t, u)
  <2>1. request[u].id # i /\ request[u] \in SlotEntry /\ request[t] \in SlotEntry
    BY <1>1, <1>5 DEF AgesTellOrder
  <2>2. CASE request[u].priority = 3
    <3>1. i <= request[u].id BY <1>4, <2>2
    <3>2. request[t].age = i - 1 /\ request[u].age = request[u].id - 1
      BY <1>5 DEF AgesTellOrder
    <3>. QED BY <1>5, <2>1, <2>2, <3>1, <3>2 DEF Better, SlotEntry
  <2>3. CASE request[u].priority # 3
    BY <1>5, <2>1, <2>3 DEF Better, SlotEntry, Priority
  <2>. QED BY <2>2, <2>3
<1>7. Wins(t) BY <1>6 DEF Wins
<1>. QED BY <1>7 DEF Grants
\* The cycles until the graph in service is retired and the next one can start,
\* if a graph and its handover take M cycles at most.
Rest(M) ==
  IF state = "IDLE" THEN 0 ELSE IF state = "FINISH" THEN 1 ELSE M - 1 - served

QueueBound(M) == REQUEST_SLOTS * M

\* The history counts what the service counter counts, and a host that is always
\* ready finds the completion FIFO empty again when the next graph is served.
Counted ==
  /\ served \in Nat /\ longest \in Nat /\ served <= longest
  /\ state = "IDLE" => served = 0
  /\ Len(cpl_fifo) <= 1
  /\ Serving => cpl_fifo = <<>>

\* A pending request of highest priority has at most the rest of the graph in
\* service and the requests submitted before it ahead of it: its wait so far and
\* M cycles for each of them stay within M cycles for each of the slots.
WaitBounded(M, s) ==
  request[s].priority = 3 =>
    request[s].wait + Rest(M) + Cardinality(Before(request, request[s].id)) * M < QueueBound(M)

Bounded ==
  /\ ~ violation
  /\ Serving => /\ service <= served
                /\ active.priority = 3 => latency <= QueueBound(MAX_GRAPH_CYCLES) + served
  /\ \A s \in Pending : WaitBounded(MAX_GRAPH_CYCLES, s)

QosInv == Counted /\ (longest <= MAX_GRAPH_CYCLES - HANDOVER => Bounded)

\* The FIFO of a host that is always ready.
LEMMA FifoDrains ==
  ASSUME OutputTypeOK, ControlTypeOK, Counted, CompletionPort(TRUE)
  PROVE  Len(cpl_fifo') <= 1 /\ (~ Push => cpl_fifo' = <<>>)
<1>. DEFINE rest == IF Pop(TRUE) THEN Tail(cpl_fifo) ELSE cpl_fifo
<1>1. Retired \in Completion BY DEF Retired, Completion, ControlTypeOK
<1>2. cpl_fifo' = IF Push THEN Append(rest, Retired) ELSE rest
  BY DEF CompletionPort
<1>3. rest = <<>> BY DEF Pop, OutputTypeOK, Counted
<1>. HIDE DEF rest
<1>. QED BY <1>1, <1>2, <1>3

LEMMA BeforeFinite ==
  ASSUME NEW req
  PROVE  /\ \A i : IsFiniteSet(Before(req, i)) /\ Cardinality(Before(req, i)) \in Nat
         /\ \A s \in Slot : req[s].id \in Nat =>
              Cardinality(Before(req, req[s].id)) <= REQUEST_SLOTS - 1
<1>1. IsFiniteSet(Slot) /\ Cardinality(Slot) = REQUEST_SLOTS
  BY FS_Interval, ParameterAssumption DEF Slot
<1>2. \A S, T : IsFiniteSet(T) /\ S \subseteq T =>
        IsFiniteSet(S) /\ Cardinality(S) \in Nat /\ Cardinality(S) <= Cardinality(T)
  BY FS_Subset, FS_CardinalityType
<1>3. \A T, x : IsFiniteSet(T) /\ x \in T =>
        IsFiniteSet(T \ {x}) /\ Cardinality(T \ {x}) = Cardinality(T) - 1
  BY FS_RemoveElement
<1>4. \A i : Before(req, i) \subseteq Slot BY DEF Before
<1>5. \A i : IsFiniteSet(Before(req, i)) /\ Cardinality(Before(req, i)) \in Nat
  BY <1>1, <1>2, <1>4
<1>6. ASSUME NEW s \in Slot, req[s].id \in Nat
      PROVE  Cardinality(Before(req, req[s].id)) <= REQUEST_SLOTS - 1
  <2>1. Before(req, req[s].id) \subseteq Slot \ {s} BY <1>6 DEF Before
  <2>2. IsFiniteSet(Slot \ {s}) /\ Cardinality(Slot \ {s}) = REQUEST_SLOTS - 1
    BY <1>1, <1>3
  <2>. QED BY <1>2, <2>1, <2>2
<1>. QED BY <1>5, <1>6

\* What an edge leaves ahead of a request: the same requests but the granted one.
LEMMA BeforeAfter ==
  ASSUME QueueTypeOK, QueueTypeOK', AgesTellOrder, RequestPort, NEW i \in 1 .. submitted
  PROVE  Before(request', i) = Before(request, i) \ Grants
<1>1. ASSUME NEW t \in Slot, request'[t] # NoRequest, request[t] = NoRequest
      PROVE  request'[t].id > i
  BY <1>1, SlotsAfter DEF Entry, Pending, QueueTypeOK
<1>2. ASSUME NEW t \in Slot, request[t] # NoRequest, t \notin Grants
      PROVE  /\ request'[t] # NoRequest
             /\ request'[t].id = request[t].id /\ request'[t].priority = request[t].priority
  BY <1>2, SlotsAfter DEF Entry, Pending
<1>3. ASSUME NEW t \in Slot, request[t] # NoRequest, request'[t] # NoRequest
      PROVE  t \notin Grants
  BY <1>3, SlotsAfter DEF Pending
<1>4. ASSUME NEW t \in Slot
      PROVE  t \in Before(request', i) <=> t \in Before(request, i) \ Grants
  <2>1. CASE request[t] = NoRequest
    <3>1. request'[t] = NoRequest \/ ~ (request'[t].id < i)
      <4>. SUFFICES ASSUME request'[t] # NoRequest PROVE ~ (request'[t].id < i) OBVIOUS
      <4>1. request'[t] \in SlotEntry BY DEF QueueTypeOK
      <4>. QED BY <1>1, <2>1, <4>1 DEF SlotEntry
    <3>. QED BY <2>1, <3>1 DEF Before
  <2>2. CASE request[t] # NoRequest
    BY <1>2, <1>3, <2>2 DEF Before
  <2>. QED BY <2>1, <2>2
<1>. QED BY <1>4 DEF Before

\* A grant to another slot is ahead of a pending request of highest priority.
LEMMA GrantedBefore ==
  ASSUME QueueTypeOK, AgesTellOrder, NEW s \in Pending \ Grants, request[s].priority = 3,
         NEW t \in Grants
  PROVE  t \in Before(request, request[s].id)
<1>1. t \in Pending \ {s} /\ t \in Slot /\ request[t] \in SlotEntry
  BY DEF Grants, Pending, QueueTypeOK
<1>2. \/ request[s].priority < request[t].priority
      \/ request[s].priority = request[t].priority /\ request[t].id < request[s].id
  BY OldestIsGranted DEF OldestGranted
<1>. QED BY <1>1, <1>2 DEF Before, Pending, SlotEntry, Priority

\* Multiplication is beyond the provers but for these facts.
LEMMA Products ==
  ASSUME NEW a \in Int, NEW m \in Nat
  PROVE  /\ a * m \in Int /\ (a - 1) * m = a * m - m /\ (a + 1) * m = a * m + m
         /\ a >= 0 => a * m >= 0
         /\ \A b \in Int : b <= a => b * m <= a * m
OBVIOUS

\* The countdown to the next grant: it goes on, or the grant is made.
LEMMA RestAfter ==
  ASSUME NEW M \in Nat, ControlTypeOK, Counted, served' = ServedNext, served' <= M - HANDOVER,
         M <= MAX_GRAPH_CYCLES + HANDOVER,
         KeepsWaiting \/ StartsService \/ Serves \/ Retires
  PROVE  /\ Rest(M)' <= M - 1
         /\ \/ Grants = {} /\ Rest(M)' <= Rest(M) - 1
            \/ KeepsWaiting /\ Rest(M)' = Rest(M)
            \/ StartsService /\ Rest(M)' = M - 1 /\ Rest(M) = 0
<1>. USE ParameterAssumption DEF Rest, HANDOVER, Counted
<1>1. served' \in Nat BY DEF ServedNext
<1>2. CASE KeepsWaiting BY <1>1, <1>2 DEF KeepsWaiting
<1>3. CASE StartsService BY <1>1, <1>3 DEF StartsService, ServedNext
<1>4. CASE Serves
  <2>1. state \notin {"IDLE", "FINISH"} /\ state' # "IDLE" /\ Grants = {}
    BY <1>4 DEF Serves, Busy, Grants
  <2>2. served' = served + 1 BY <1>1, <2>1 DEF ServedNext, Busy
  <2>. QED BY <1>1, <2>1, <2>2
<1>5. CASE Retires
  <2>1. state = "FINISH" /\ Grants = {} BY <1>5 DEF Retires, Grants
  <2>2. PushReady BY <2>1 DEF PushReady, Serving
  <2>. QED BY <1>1, <1>5, <2>1, <2>2 DEF Retires
<1>. QED BY <1>2, <1>3, <1>4, <1>5

LEMMA CountersAfter ==
  ASSUME QueueTypeOK, ControlTypeOK, QosTypeOK, Counted, Bounded,
         served' = ServedNext, served' <= MAX_GRAPH_CYCLES - HANDOVER,
         longest <= MAX_GRAPH_CYCLES - HANDOVER,
         KeepsWaiting \/ StartsService \/ Serves \/ Retires
  PROVE  /\ ~ violation'
         /\ Serving' => /\ service' <= served'
                        /\ active'.priority = 3 => latency' <= QueueBound(MAX_GRAPH_CYCLES) + served'
<1>. DEFINE M == MAX_GRAPH_CYCLES
<1>1. /\ M \in Nat /\ COUNTER_MAX \in Nat /\ REQUEST_SLOTS \in Nat
      /\ QueueBound(M) \in Nat /\ QOS_MAX_LATENCY_CYCLES = QueueBound(MAX_GRAPH_CYCLES) + M
      /\ latency \in Nat /\ service \in Nat /\ served \in Nat /\ served <= M - 2
      /\ latency <= COUNTER_MAX
  BY Products, ParameterAssumption
  DEF QosTypeOK, Counter, Counted, HANDOVER, QueueBound, QOS_MAX_LATENCY_CYCLES
<1>2. CASE KeepsWaiting BY <1>2 DEF KeepsWaiting, qos, Serving, Bounded
<1>3. CASE StartsService
  <2>1. PICK s \in Grants : /\ active'.priority = request[s].priority
                            /\ latency' = GrantLatency(request[s].wait)
    BY <1>3 DEF StartsService
  <2>2. s \in Pending /\ request[s] \in SlotEntry
    BY DEF Grants, Pending, QueueTypeOK
  <2>3. served' = 0 /\ Rest(M) = 0 /\ service' = 0 /\ violation' = violation
    BY <1>3 DEF StartsService, ServedNext, Rest
  <2>4. ASSUME request[s].priority = 3 PROVE latency' <= QueueBound(M)
    <3>1. Cardinality(Before(request, request[s].id)) * M >= 0
      BY <1>1, BeforeFinite, Products
    <3>2. Cardinality(Before(request, request[s].id)) * M \in Int
      BY <1>1, BeforeFinite, Products
    <3>3. request[s].wait + 0 + Cardinality(Before(request, request[s].id)) * M < QueueBound(M)
      BY <2>2, <2>3, <2>4 DEF Bounded, WaitBounded
    <3>4. request[s].wait \in Nat /\ request[s].wait <= COUNTER_MAX
      BY <1>1, <2>2 DEF SlotEntry, Counter
    <3>5. request[s].wait < QueueBound(M)
      <4>. DEFINE product == Cardinality(Before(request, request[s].id)) * M
                  bound == QueueBound(M)
      <4>1. product \in Int /\ product >= 0 /\ bound \in Int
            /\ request[s].wait + 0 + product < bound
        BY <1>1, <3>1, <3>2, <3>3
      <4>. HIDE DEF product, bound
      <4>2. request[s].wait < bound BY <3>4, <4>1
      <4>. QED BY <4>2 DEF bound
    <3>6. /\ GrantLatency(request[s].wait) <= request[s].wait + 1
          /\ GrantLatency(request[s].wait) \in Nat
      <4>1. \A a, b \in Nat : a <= b => (a + 1) % (b + 1) \in Nat /\ (a + 1) % (b + 1) <= a + 1
        OBVIOUS
      <4>2. COUNTER_MAX \in Nat BY <1>1
      <4>. QED BY ONLY <3>4, <4>1, <4>2 DEF GrantLatency
    <3>. QED BY <1>1, <2>1, <3>4, <3>5, <3>6
  <2>. QED BY <1>1, <2>1, <2>3, <2>4 DEF Bounded
<1>4. CASE Serves
  <2>1. state \notin {"IDLE", "FINISH"} /\ state' # "IDLE" /\ ServiceTick /\ active' = active
    BY <1>4 DEF Serves, Busy
  <2>2. served' = served + 1 BY <1>1, <2>1 DEF ServedNext, Busy
  <2>3. /\ service <= served
        /\ active.priority = 3 => latency <= QueueBound(MAX_GRAPH_CYCLES) + served
        /\ ~ violation
    BY <2>1 DEF Bounded, Serving
  <2>4. latency' <= latency + 1 /\ latency' \in Nat
    BY <1>1, <2>1 DEF ServiceTick, Saturate
  <2>5. service' <= service + 1 /\ service' \in Nat
    BY <1>1, <2>1 DEF ServiceTick, Saturate
  <2>6. ~ violation'
    <3>1. ~ (service >= M) BY <1>1, <2>3
    <3>. QED BY <2>1, <2>3, <3>1, Zenon DEF ServiceTick
  <2>. QED BY <1>1, <2>1, <2>2, <2>3, <2>4, <2>5, <2>6
<1>5. CASE Retires
  <2>1. Serving BY <1>5 DEF Retires, Serving
  <2>2. /\ service <= served
        /\ active.priority = 3 => latency <= QueueBound(MAX_GRAPH_CYCLES) + served
        /\ ~ violation
    BY <2>1 DEF Bounded
  <2>3. UNCHANGED <<latency, service, active>> /\ RecordRetirement
    BY <1>5 DEF Retires, RecordRetirement
  <2>4. ~ (active.priority = 3 /\ latency > QOS_MAX_LATENCY_CYCLES)
    BY <1>1, <2>2
  <2>5. ~ violation' BY <2>2, <2>3, <2>4 DEF RecordRetirement
  <2>6. Serving' => served' = served
    BY <1>5 DEF Retires, ServedNext, Serving, Busy
  <2>. QED BY <2>2, <2>3, <2>5, <2>6
<1>. QED BY <1>2, <1>3, <1>4, <1>5

LEMMA WaitsAfter ==
  ASSUME NEW M \in Nat, QueueTypeOK, QueueTypeOK', ControlTypeOK, AgesTellOrder, Counted,
         \A t \in Pending : WaitBounded(M, t),
         RequestPort, served' = ServedNext, served' <= M - HANDOVER,
         M <= MAX_GRAPH_CYCLES + HANDOVER,
         KeepsWaiting \/ StartsService \/ Serves \/ Retires,
         NEW s \in Pending'
  PROVE  WaitBounded(M, s)'
<1>. SUFFICES ASSUME request'[s].priority = 3
              PROVE  request'[s].wait + Rest(M)'
                       + Cardinality(Before(request', request'[s].id)) * M < QueueBound(M)
  BY DEF WaitBounded, QueueBound
<1>. DEFINE i == request'[s].id
            A == Cardinality(Before(request, i))
            B == Cardinality(Before(request', i))
<1>1. /\ M \in Nat /\ REQUEST_SLOTS \in Nat /\ M * REQUEST_SLOTS \in Nat
      /\ s \in Slot /\ request'[s] \in SlotEntry /\ i \in Nat
      /\ A \in Nat /\ B \in Nat /\ B <= REQUEST_SLOTS - 1
      /\ A * M \in Nat /\ B * M \in Nat
      /\ served \in Nat /\ served' \in Nat
  <2>1. s \in Slot /\ request'[s] \in SlotEntry BY DEF Pending, QueueTypeOK
  <2>2. i \in Nat BY <2>1 DEF SlotEntry
  <2>3. served \in Nat /\ served' \in Nat BY DEF Counted, ServedNext
  <2>4. /\ A \in Nat /\ B \in Nat /\ B <= REQUEST_SLOTS - 1
    BY <2>1, <2>2, BeforeFinite
  <2>. HIDE DEF A, B, i
  <2>5. REQUEST_SLOTS \in Nat BY ParameterAssumption
  <2>6. A * M \in Nat /\ B * M \in Nat /\ M * REQUEST_SLOTS \in Nat
    BY <2>4, <2>5, Products
  <2>. QED BY <2>1, <2>2, <2>3, <2>4, <2>5, <2>6
<1>2. Rest(M) \in Int /\ Rest(M)' \in Int BY <1>1 DEF Rest
<1>3. CASE s \notin Pending
  <2>1. request'[s].wait = 0 BY <1>3, WaitAfter
  <2>2. Rest(M)' <= M - 1 BY RestAfter
  <2>3. B * M <= QueueBound(M) - M
    <3>1. B * M <= (REQUEST_SLOTS - 1) * M
      <4>. HIDE DEF B
      <4>. QED BY <1>1, Products
    <3>2. (REQUEST_SLOTS - 1) * M = QueueBound(M) - M
      BY <1>1, Products DEF QueueBound
    <3>. QED BY <3>1, <3>2
  <2>4. QueueBound(M) \in Int BY <1>1 DEF QueueBound
  <2>. HIDE DEF B
  <2>5. B * M \in Int BY <1>1
  <2>. DEFINE product == B * M
  <2>. HIDE DEF product
  <2>6. product \in Int /\ product <= QueueBound(M) - M BY <2>3, <2>5 DEF product
  <2>7. 0 + Rest(M)' + product < QueueBound(M)
    <3>1. M \in Int BY <1>1
    <3>2. \A r, p, m, q \in Int : r <= m - 1 /\ p <= q - m => 0 + r + p < q OBVIOUS
    <3>. QED BY <1>2, <2>2, <2>4, <2>6, <3>1, <3>2
  <2>. QED BY <2>1, <2>7 DEF B, product
<1>4. CASE s \in Pending
  <2>1. s \notin Grants /\ request[s].id = i /\ request[s].priority = 3
    BY <1>4, SlotsAfter DEF Entry
  <2>2. i \in 1 .. submitted BY <1>4, <2>1 DEF AgesTellOrder
  <2>3. Before(request', i) = Before(request, i) \ Grants
    BY <2>2, BeforeAfter
  <2>4. request'[s].wait \in Nat /\ request'[s].wait <= request[s].wait + 1
    BY <1>4, WaitAfter
  <2>5. request[s].wait \in Nat
    <3>1. request[s] \in SlotEntry BY <1>4 DEF Pending, QueueTypeOK
    <3>. QED BY <3>1, ParameterAssumption DEF SlotEntry, Counter
  <2>6. request[s].wait + Rest(M) + A * M < QueueBound(M)
    BY <1>4, <2>1 DEF WaitBounded
  <2>7. QueueBound(M) \in Int BY <1>1 DEF QueueBound
  <2>8. CASE Grants = {} /\ Rest(M)' <= Rest(M) - 1
    <3>1. B = A BY <2>3, <2>8
    <3>. DEFINE product == A * M
    <3>2. product \in Nat BY <1>1
    <3>. HIDE DEF product
    <3>3. request[s].wait + Rest(M) + product < QueueBound(M) BY <2>6 DEF product
    <3>4. request'[s].wait + Rest(M)' + product < QueueBound(M)
      BY <1>2, <2>4, <2>5, <2>7, <2>8, <3>2, <3>3
    <3>. QED BY <3>1, <3>4 DEF product
  <2>9. CASE KeepsWaiting
    BY <1>4, <2>1, <2>9, SomeoneWins DEF KeepsWaiting
  <2>10. CASE StartsService /\ Rest(M)' = M - 1 /\ Rest(M) = 0
    <3>1. PICK t \in Grants : TRUE BY <2>10 DEF StartsService
    <3>2. t \in Before(request, i) BY <1>4, <2>1, GrantedBefore
    <3>3. B <= A - 1
      <4>1. IsFiniteSet(Before(request, i)) BY BeforeFinite
      <4>2. \A T, x : IsFiniteSet(T) /\ x \in T =>
              IsFiniteSet(T \ {x}) /\ Cardinality(T \ {x}) = Cardinality(T) - 1
        BY FS_RemoveElement
      <4>3. \A S, T : IsFiniteSet(T) /\ S \subseteq T => Cardinality(S) <= Cardinality(T)
        BY FS_Subset
      <4>4. Before(request', i) \subseteq Before(request, i) \ {t} BY <2>3
      <4>5. /\ IsFiniteSet(Before(request, i) \ {t})
            /\ Cardinality(Before(request, i) \ {t}) = A - 1
        BY <3>2, <4>1, <4>2
      <4>. QED BY <4>3, <4>4, <4>5
    <3>4. B * M <= A * M - M
      <4>. HIDE DEF A, B
      <4>1. B * M <= (A - 1) * M BY <1>1, <3>3, Products
      <4>2. (A - 1) * M = A * M - M BY <1>1, Products
      <4>. QED BY <4>1, <4>2
    <3>. DEFINE p == A * M
                q == B * M
    <3>5. p \in Nat /\ q \in Nat BY <1>1
    <3>. HIDE DEF p, q
    <3>6. q <= p - M BY <3>4 DEF p, q
    <3>7. request[s].wait + p < QueueBound(M) BY <2>5, <2>6, <2>10, <3>5 DEF p
    <3>8. request'[s].wait + Rest(M)' + q < QueueBound(M)
      BY <1>1, <1>2, <2>4, <2>5, <2>7, <2>10, <3>5, <3>6, <3>7
    <3>. QED BY <3>8 DEF q
  <2>. QED BY <2>8, <2>9, <2>10, RestAfter
<1>. QED BY <1>3, <1>4

LEMMA QosImplements == QosSpec => Spec
<1>1. QosInit => Init BY DEF QosInit
<1>2. [QosNext]_<<vars, served, longest>> => [Next]_vars BY DEF QosNext, Next
<1>. QED BY <1>1, <1>2, PTL DEF QosSpec, Spec

LEMMA CountedAfter ==
  ASSUME OutputTypeOK, ControlTypeOK, Counted, CompletionPort(TRUE),
         served' = ServedNext, longest' = (IF ServedNext > longest THEN ServedNext ELSE longest),
         KeepsWaiting \/ StartsService \/ Serves \/ Retires
  PROVE  Counted' /\ served' <= longest' /\ longest <= longest'
<1>1. served \in Nat /\ longest \in Nat BY DEF Counted
<1>2. ServedNext \in Nat BY <1>1 DEF ServedNext
<1>3. Len(cpl_fifo') <= 1 /\ (~ Push => cpl_fifo' = <<>>) BY FifoDrains
<1>4. Push => ~ Serving'
  BY DEF Push, KeepsWaiting, StartsService, Serves, Retires, Busy, Serving
<1>5. state' = "IDLE" => served' = 0 BY DEF ServedNext
<1>. QED BY <1>1, <1>2, <1>3, <1>4, <1>5 DEF Counted

LEMMA QosInvAlways ==
  ASSUME MaxRequests <= AGE_MOD, CplReady \subseteq {TRUE}
  PROVE  QosSpec => []QosInv
<1>1. QosInit => QosInv
  <2>. SUFFICES ASSUME QosInit PROVE QosInv OBVIOUS
  <2>. USE DEF QosInit, Init
  <2>1. Pending = {} BY DEF Pending
  <2>2. Counted BY DEF Counted, Serving
  <2>3. Bounded BY <2>1 DEF Bounded, Serving
  <2>. QED BY <2>2, <2>3 DEF QosInv
<1>2. TypeOK /\ TypeOK' /\ AgesTellOrder /\ QosInv /\ [QosNext]_<<vars, served, longest>>
        => QosInv'
  <2>. SUFFICES ASSUME TypeOK, TypeOK', AgesTellOrder, QosInv,
                       [QosNext]_<<vars, served, longest>>
                PROVE  QosInv'
    OBVIOUS
  <2>. USE DEF TypeOK
  <2>1. CASE /\ ClockEdge /\ served' = ServedNext
             /\ longest' = (IF ServedNext > longest THEN ServedNext ELSE longest)
    <3>1. PICK ww \in WeightWrite, cr \in CplReady, tc \in TraceClear, rsp \in Responses :
            Cycle(ww, cr, tc, rsp)
      BY <2>1 DEF ClockEdge
    <3>2. Control(ww, rsp) /\ RequestPort /\ CompletionPort(TRUE)
      BY <3>1 DEF Cycle
    <3>3. KeepsWaiting \/ StartsService \/ Serves \/ Retires BY <3>2, MonitorKinds
    <3>4. Counted BY DEF QosInv
    <3>5. Counted' /\ served' <= longest' /\ longest <= longest'
      BY <2>1, <3>2, <3>3, <3>4, CountedAfter
    <3>6. ASSUME longest' <= MAX_GRAPH_CYCLES - HANDOVER PROVE Bounded'
      <4>1. /\ longest <= MAX_GRAPH_CYCLES - HANDOVER
            /\ served' <= MAX_GRAPH_CYCLES - HANDOVER
        BY <3>4, <3>5, <3>6, ParameterAssumption DEF Counted, HANDOVER
      <4>2. Bounded BY <4>1 DEF QosInv
      <4>3. /\ ~ violation'
            /\ Serving' => /\ service' <= served'
                           /\ active'.priority = 3 => latency' <= QueueBound(MAX_GRAPH_CYCLES) + served'
        BY <2>1, <3>3, <3>4, <4>1, <4>2, CountersAfter
      <4>4. \A s \in Pending' : WaitBounded(MAX_GRAPH_CYCLES, s)'
        <5>1. MAX_GRAPH_CYCLES \in Nat /\ MAX_GRAPH_CYCLES <= MAX_GRAPH_CYCLES + HANDOVER
          BY ParameterAssumption DEF HANDOVER
        <5>2. \A s \in Pending : WaitBounded(MAX_GRAPH_CYCLES, s) BY <4>2 DEF Bounded
        <5>. QED BY <2>1, <3>2, <3>3, <3>4, <4>1, <5>1, <5>2, WaitsAfter
      <4>. QED BY <4>3, <4>4 DEF Bounded, QueueBound
    <3>. QED BY <3>5, <3>6 DEF QosInv, HANDOVER
  <2>2. CASE Reset /\ served' = 0 /\ longest' = 0
    <3>. USE <2>2 DEF Reset
    <3>1. Pending' = {} BY DEF Pending
    <3>2. Counted' BY DEF Counted, Serving
    <3>3. Bounded' BY <3>1 DEF Bounded, Serving
    <3>. QED BY <3>2, <3>3 DEF QosInv
  <2>3. CASE UNCHANGED <<vars, served, longest>>
    BY <2>3 DEF vars, queue, control, qos, outputs, QosInv, Counted, Bounded, Pending,
                Serving, WaitBounded, Rest, QueueBound, HANDOVER
  <2>. QED BY <2>1, <2>2, <2>3 DEF QosNext
<1>. QED BY <1>1, <1>2, QosImplements, TypeCorrect, AgesAlways, PTL DEF QosSpec

\* The QoS flag is never set without cause: while every graph leaves the two
\* cycles of the handover of its allocation, neither the service check nor the
\* latency bound of a request of highest priority, (slots + 1) allocations, fails,
\* for any number of slots, any allocation and any order of requests.  The host is
\* always ready and the admission age has not wrapped.
THEOREM LatencyBound ==
  ASSUME MaxRequests <= AGE_MOD, CplReady \subseteq {TRUE}
  PROVE  QosSpec => []NoFalseViolation
<1>1. QosInv => NoFalseViolation
  BY ParameterAssumption DEF QosInv, Counted, Bounded, NoFalseViolation, HANDOVER
<1>. QED BY <1>1, QosInvAlways, PTL

-----------------------------------------------------------------------------
(* An overrun is flagged *)

\* A request that is granted now leaves the latency counter room for the whole
\* allocation: its service is checked before that counter stands still.
WaitsFit == \A s \in Pending : request[s].wait + MAX_GRAPH_CYCLES + 1 < COUNTER_MAX

\* As long as nothing was flagged the service counter is exact, and the latency counter
\* does not stand still before the allocation is used up.
OverrunInv ==
  /\ served \in Nat /\ longest \in Nat /\ served <= longest
  /\ longest > MAX_GRAPH_CYCLES => violation
  /\ Serving /\ ~ violation =>
       /\ service = served /\ served < latency
       /\ latency + MAX_GRAPH_CYCLES - served < COUNTER_MAX

LEMMA OverrunStarts == QosInit => OverrunInv
BY ParameterAssumption DEF QosInit, Init, OverrunInv, Serving

LEMMA OverrunAfter ==
  ASSUME QueueTypeOK, QosTypeOK, OverrunInv, violation \/ WaitsFit, served' = ServedNext,
         longest' = (IF ServedNext > longest THEN ServedNext ELSE longest),
         KeepsWaiting \/ StartsService \/ Serves \/ Retires
  PROVE  OverrunInv'
<1>. DEFINE M == MAX_GRAPH_CYCLES
<1>1. /\ M \in Nat /\ COUNTER_MAX \in Nat /\ latency \in Nat /\ service \in Nat
      /\ latency <= COUNTER_MAX /\ service <= COUNTER_MAX
      /\ served \in Nat /\ longest \in Nat /\ served <= longest
      /\ longest > M => violation
  BY ParameterAssumption DEF QosTypeOK, Counter, OverrunInv
<1>2. served' \in Nat /\ longest' \in Nat /\ served' <= longest' /\ served' <= served + 1
      /\ (longest' > M => longest > M \/ (served' > M /\ served' = ServedNext))
  BY <1>1 DEF ServedNext
<1>3. violation => violation'
  BY DEF KeepsWaiting, StartsService, Serves, Retires, qos, ServiceTick, RecordRetirement
<1>4. CASE violation BY <1>2, <1>3, <1>4 DEF OverrunInv
<1>5. CASE ~ violation /\ (KeepsWaiting \/ Retires)
  <2>1. UNCHANGED <<latency, service>>
    BY <1>5 DEF KeepsWaiting, Retires, RecordRetirement, qos
  <2>2. served' = 0 \/ served' = served
    BY <1>1, <1>5 DEF KeepsWaiting, Retires, ServedNext, Busy
  <2>3. ~ (longest' > M) BY <1>1, <1>2, <1>5, <2>2
  <2>4. Serving' => Serving /\ served' = served
    BY <1>5 DEF KeepsWaiting, Retires, Serving, ServedNext, Busy
  <2>. QED BY <1>1, <1>2, <1>5, <2>1, <2>3, <2>4 DEF OverrunInv
<1>6. CASE ~ violation /\ StartsService
  <2>1. PICK s \in Grants : latency' = GrantLatency(request[s].wait)
    BY <1>6 DEF StartsService
  <2>2. s \in Pending /\ request[s] \in SlotEntry BY DEF Grants, Pending, QueueTypeOK
  <2>. DEFINE w == request[s].wait
  <2>3. w \in Nat /\ w + M + 1 < COUNTER_MAX BY <1>1, <1>6, <2>2 DEF WaitsFit, SlotEntry, Counter
  <2>4. latency' = w + 1
    <3>. HIDE DEF w
    <3>1. \A a, b \in Nat : a < b => (a + 1) % (b + 1) = a + 1 OBVIOUS
    <3>2. w < COUNTER_MAX BY <1>1, <2>3
    <3>3. (w + 1) % (COUNTER_MAX + 1) = w + 1 BY <1>1, <2>3, <3>1, <3>2
    <3>. QED BY <2>1, <3>3 DEF GrantLatency, w
  <2>5. service' = 0 /\ served' = 0 /\ state = "IDLE" BY <1>6 DEF StartsService, ServedNext
  <2>6. ~ (longest' > M) BY <1>1, <1>2, <1>6, <2>5
  <2>. HIDE DEF w
  <2>. QED BY <1>1, <1>2, <2>3, <2>4, <2>5, <2>6 DEF OverrunInv
<1>7. CASE ~ violation /\ Serves
  <2>1. /\ Serving /\ Serving' /\ Busy /\ ServiceTick /\ served <= M
    BY <1>1, <1>7 DEF Serves, Busy, Serving
  <2>2. /\ service = served /\ served < latency /\ latency + M - served < COUNTER_MAX
    BY <1>7, <2>1 DEF OverrunInv
  <2>3. served' = served + 1
    BY <1>1, <1>7, <2>1 DEF ServedNext, Serves, Busy
  <2>4. latency # COUNTER_MAX /\ service # COUNTER_MAX BY <1>1, <2>1, <2>2
  <2>5. latency' = latency + 1 /\ service' = service + 1
    BY <2>1, <2>4 DEF ServiceTick, Saturate
  <2>6. CASE served = M
    <3>1. service >= M BY <1>1, <2>2, <2>6
    <3>2. violation' = (violation \/ (latency # COUNTER_MAX /\ service >= MAX_GRAPH_CYCLES))
      BY <2>1 DEF ServiceTick
    <3>3. violation' BY <2>4, <3>1, <3>2
    <3>. QED BY <1>2, <3>3 DEF OverrunInv
  <2>7. CASE served < M
    <3>1. ~ (longest' > M) BY <1>1, <1>2, <1>7, <2>3, <2>7
    <3>. QED BY <1>1, <1>2, <2>2, <2>3, <2>5, <3>1 DEF OverrunInv
  <2>. QED BY <1>1, <2>1, <2>6, <2>7
<1>. QED BY <1>4, <1>5, <1>6, <1>7

LEMMA OverrunReset == Reset /\ served' = 0 /\ longest' = 0 => OverrunInv'
BY ParameterAssumption DEF Reset, OverrunInv, Serving

LEMMA OverrunStays ==
  ASSUME OverrunInv, UNCHANGED <<vars, served, longest>>
  PROVE  OverrunInv'
BY DEF vars, queue, control, qos, outputs, OverrunInv, Serving

\* A graph that receives more cycles of service than its allocation sets the sticky
\* flag, whatever the engines, the host and the other requests do, as long as
\* no request waits so long that its latency counter is saturated within its
\* service: then the check stands still too (lines 366 to 375).
THEOREM OverrunFlagged ==
  QosSpec /\ []WaitsFit => []ServiceOverrunFlagged
<1>1. TypeOK /\ OverrunInv /\ WaitsFit /\ [QosNext]_<<vars, served, longest>> => OverrunInv'
  <2>. SUFFICES ASSUME TypeOK, OverrunInv, WaitsFit, [QosNext]_<<vars, served, longest>>
                PROVE  OverrunInv'
    OBVIOUS
  <2>1. CASE /\ ClockEdge /\ served' = ServedNext
             /\ longest' = (IF ServedNext > longest THEN ServedNext ELSE longest)
    <3>1. PICK ww \in WeightWrite, rsp \in Responses : Control(ww, rsp)
      BY <2>1 DEF ClockEdge, Cycle
    <3>2. KeepsWaiting \/ StartsService \/ Serves \/ Retires BY <3>1, MonitorKinds DEF TypeOK
    <3>. QED BY <2>1, <3>2, OverrunAfter DEF TypeOK
  <2>2. CASE Reset /\ served' = 0 /\ longest' = 0 BY <2>2, OverrunReset
  <2>3. CASE UNCHANGED <<vars, served, longest>> BY <2>3, OverrunStays
  <2>. QED BY <2>1, <2>2, <2>3 DEF QosNext
<1>2. OverrunInv => ServiceOverrunFlagged BY DEF OverrunInv, ServiceOverrunFlagged
<1>. QED BY <1>1, <1>2, OverrunStarts, QosImplements, TypeCorrect, PTL DEF QosSpec

\* A graph within its allocation and the handover after it.
ServiceTurn == MAX_GRAPH_CYCLES + HANDOVER

\* Until a flag is set, requests of the one priority wait a turn for each slot at most.
UrgentInv ==
  /\ Counted /\ OverrunInv
  /\ \A s \in Pending : request[s].priority = 3
  /\ ~ violation => \A s \in Pending : WaitBounded(ServiceTurn, s)

LEMMA WaitsFitIn ==
  ASSUME QueueTypeOK, UrgentInv, ~ violation,
         (REQUEST_SLOTS + 1) * ServiceTurn <= COUNTER_MAX
  PROVE  WaitsFit
<1>. DEFINE T == ServiceTurn
<1>1. MAX_GRAPH_CYCLES \in Nat /\ REQUEST_SLOTS \in Nat /\ COUNTER_MAX \in Nat /\ T \in Nat
      /\ T = MAX_GRAPH_CYCLES + 2
  BY ParameterAssumption DEF ServiceTurn, HANDOVER
<1>2. (REQUEST_SLOTS + 1) * T = QueueBound(T) + T /\ QueueBound(T) \in Int
  <2>. HIDE DEF T
  <2>. QED BY <1>1, Products DEF QueueBound
<1>3. ASSUME NEW s \in Pending PROVE request[s].wait + MAX_GRAPH_CYCLES + 1 < COUNTER_MAX
  <2>. DEFINE product == Cardinality(Before(request, request[s].id)) * T
              w == request[s].wait
              rest == Rest(T)
              bound == QueueBound(T)
  <2>1. w + rest + product < bound BY <1>3 DEF UrgentInv, WaitBounded
  <2>2. request[s] \in SlotEntry BY DEF Pending, QueueTypeOK
  <2>3. w \in Nat BY <1>1, <2>2 DEF SlotEntry, Counter
  <2>4. product \in Nat
    <3>1. Cardinality(Before(request, request[s].id)) \in Nat BY BeforeFinite
    <3>. HIDE DEF T
    <3>. QED BY <1>1, <3>1, Products
  <2>5. rest \in Nat
    <3>1. served \in Nat /\ served <= MAX_GRAPH_CYCLES BY <1>1 DEF UrgentInv, OverrunInv
    <3>. QED BY <1>1, <3>1 DEF Rest
  <2>6. bound + T <= COUNTER_MAX /\ bound \in Int BY <1>2
  <2>. HIDE DEF product, w, rest, bound, T
  <2>7. w + MAX_GRAPH_CYCLES + 1 < COUNTER_MAX BY <1>1, <2>1, <2>3, <2>4, <2>5, <2>6
  <2>. QED BY <2>7 DEF w
<1>. QED BY <1>3 DEF WaitsFit

LEMMA StaysUrgent ==
  ASSUME QueueTypeOK, RequestPort, \A r \in Requests : r.priority = 3,
         \A s \in Pending : request[s].priority = 3, NEW s \in Pending'
  PROVE  request'[s].priority = 3
<1>1. s \in Slot BY DEF Pending
<1>2. CASE s \in Pending
  <2>1. request'[s].priority = request[s].priority BY <1>2, SlotsAfter DEF Entry
  <2>. QED BY <1>2, <2>1
<1>3. CASE s \notin Pending
  <2>1. Aged(s) = NoRequest BY <1>1, <1>3 DEF Aged, Pending
  <2>2. request'[s] # NoRequest BY DEF Pending
  <2>3. PICK r \in Requests : request'[s] = NewEntry(r)
    BY <1>1, <2>1, <2>2 DEF RequestPort, AdmitNone, Admit
  <2>. QED BY <2>3 DEF NewEntry
<1>. QED BY <1>2, <1>3

\* The service check does not miss an overrun, for any number of slots and any
\* allocation: if the host is always ready, all requests have the priority
\* that the bound is given for and the counters hold an allocation and
\* its handover for each slot and one more (five times 6402 cycles of 65535),
\* no wait saturates a counter.
THEOREM UrgentOverrunFlagged ==
  ASSUME MaxRequests <= AGE_MOD, CplReady \subseteq {TRUE}, \A r \in Requests : r.priority = 3,
         (REQUEST_SLOTS + 1) * ServiceTurn <= COUNTER_MAX
  PROVE  QosSpec => []ServiceOverrunFlagged
<1>1. QosInit => UrgentInv
  <2>. SUFFICES ASSUME QosInit PROVE UrgentInv OBVIOUS
  <2>. USE DEF QosInit, Init
  <2>1. Pending = {} BY DEF Pending
  <2>2. Counted BY DEF Counted, Serving
  <2>. QED BY <2>1, <2>2, OverrunStarts DEF UrgentInv
<1>2. TypeOK /\ TypeOK' /\ AgesTellOrder /\ UrgentInv /\ [QosNext]_<<vars, served, longest>>
        => UrgentInv'
  <2>. SUFFICES ASSUME TypeOK, TypeOK', AgesTellOrder, UrgentInv,
                       [QosNext]_<<vars, served, longest>>
                PROVE  UrgentInv'
    OBVIOUS
  <2>. USE DEF TypeOK
  <2>1. CASE /\ ClockEdge /\ served' = ServedNext
             /\ longest' = (IF ServedNext > longest THEN ServedNext ELSE longest)
    <3>1. PICK ww \in WeightWrite, cr \in CplReady, tc \in TraceClear, rsp \in Responses :
            Cycle(ww, cr, tc, rsp)
      BY <2>1 DEF ClockEdge
    <3>2. Control(ww, rsp) /\ RequestPort /\ CompletionPort(TRUE)
      BY <3>1 DEF Cycle
    <3>3. KeepsWaiting \/ StartsService \/ Serves \/ Retires BY <3>2, MonitorKinds
    <3>4. Counted /\ OverrunInv BY DEF UrgentInv
    <3>5. Counted' /\ served' <= longest'
      BY <2>1, <3>2, <3>3, <3>4, CountedAfter
    <3>6. violation \/ WaitsFit BY WaitsFitIn
    <3>7. OverrunInv' BY <2>1, <3>3, <3>4, <3>6, OverrunAfter
    <3>8. \A s \in Pending' : request'[s].priority = 3
      BY <3>2, StaysUrgent DEF UrgentInv
    <3>9. ASSUME ~ violation' PROVE \A s \in Pending' : WaitBounded(ServiceTurn, s)'
      <4>1. ~ violation
        BY <3>3, <3>9
        DEF KeepsWaiting, StartsService, Serves, Retires, qos, ServiceTick, RecordRetirement
      <4>2. ServiceTurn \in Nat /\ ServiceTurn <= MAX_GRAPH_CYCLES + HANDOVER
        BY ParameterAssumption DEF ServiceTurn, HANDOVER
      <4>3. served' <= ServiceTurn - HANDOVER
        <5>1. served' \in Nat /\ longest' \in Nat /\ ~ (longest' > MAX_GRAPH_CYCLES)
          BY <3>7, <3>9 DEF OverrunInv
        <5>. QED BY <3>5, <5>1, ParameterAssumption DEF ServiceTurn, HANDOVER
      <4>4. \A s \in Pending : WaitBounded(ServiceTurn, s) BY <4>1 DEF UrgentInv
      <4>. QED BY <2>1, <3>2, <3>3, <3>4, <4>2, <4>3, <4>4, WaitsAfter
    <3>10. ~ violation' => (\A s \in Pending : WaitBounded(ServiceTurn, s))' BY <3>9
    <3>. QED BY <3>5, <3>7, <3>8, <3>10 DEF UrgentInv
  <2>2. CASE Reset /\ served' = 0 /\ longest' = 0
    <3>1. OverrunInv' BY <2>2, OverrunReset
    <3>. USE <2>2 DEF Reset
    <3>2. Pending' = {} BY DEF Pending
    <3>3. Counted' BY DEF Counted, Serving
    <3>. QED BY <3>1, <3>2, <3>3 DEF UrgentInv
  <2>3. CASE UNCHANGED <<vars, served, longest>>
    <3>1. OverrunInv' BY <2>3, OverrunStays DEF UrgentInv
    <3>2. Counted'
      BY <2>3 DEF vars, queue, control, qos, outputs, UrgentInv, Counted, Serving
    <3>. QED BY <2>3, <3>1, <3>2
         DEF vars, queue, control, qos, outputs, UrgentInv, Pending, WaitBounded, Rest, QueueBound
  <2>. QED BY <2>1, <2>2, <2>3 DEF QosNext
<1>3. UrgentInv => ServiceOverrunFlagged
  BY DEF UrgentInv, OverrunInv, ServiceOverrunFlagged
<1>. QED BY <1>1, <1>2, <1>3, QosImplements, TypeCorrect, AgesAlways, PTL DEF QosSpec

=============================================================================

------------------------------ MODULE ChipTop ------------------------------
(***************************************************************************)
(* The chip (rtl/top/rcif_top.sv): the command queue                       *)
(* (rtl/common/rcif_cmd_queue.sv) in front of the scheduler stub           *)
(* (rtl/scheduler/rcif_scheduler_stub.sv), which serves one command at a   *)
(* time with the KV MMU, the DMA engine, the dot-product array and the     *)
(* fault unit (rtl/kv/rcif_kv_fault_unit.sv).                              *)
(*                                                                         *)
(* A step is a clock edge or a reset.  The queue and the fault unit are    *)
(* sequences (CircularFifo shows that they are), and the MMU is the map    *)
(* that KvMmu implements, which answers some edges after it took a         *)
(* request.  The two numbers of an ATTN payload stand for its vectors.     *)
(***************************************************************************)
EXTENDS Dma

CONSTANTS
  Command,            \* [id, op, flags, payload]; flags: any of them is set
  Workloads,          \* sets of commands a host may use
  CMD_QUEUE_DEPTH, KV_MMU_ENTRIES,
  FAULT_DEPTH,        \* 4 in the stub
  VirtPages, Frames,
  MaxCommands         \* bound on the commands between two resets

Opcodes ==
  {"NOP", "ECHO", "GET_COUNTER", "KV_GET_FAULT", "KV_MAP", "KV_TRANSLATE", "DMA_COPY",
   "DMA_GATHER", "DMA_INDEX_WRITE", "DMA_ECC_INJECT", "ATTN_QK_DOT", "OTHER"}

ASSUME ChipAssumption ==
  /\ CMD_QUEUE_DEPTH \in Nat \ {0} /\ KV_MMU_ENTRIES \in Nat \ {0} /\ FAULT_DEPTH \in Nat \ {0}
  /\ \A c \in Command :
       /\ c.op \in Opcodes /\ c.flags \in BOOLEAN
       /\ c.payload \in [low : Nat, mid : Nat, high : Nat, reserved : BOOLEAN]
  /\ Workloads \subseteq SUBSET Command

VARIABLES
  workload,           \* what the host uses, never changes
  queue,
  state,              \* state_q of the stub
  rsp,                \* request_id_q, status_q and result_q
  counts,             \* the four counters
  faults,             \* the contents of the fault unit
  pages, reply,       \* the MMU
  attn,               \* <<>>, or <<d>> with d the product that waits
  submitted, retired, \* the commands taken from the host and answered to it
  at                  \* history, read by no step: <<>>, or the command an
                      \* engine has and the memories when it got it

memory == <<faults, pages, words, list>>
stubVars == <<state, rsp, counts>>
kvVars == <<pages, reply>>
hostVars == <<queue, submitted>>
vars == <<workload, hostVars, stubVars, faults, kvVars, dmaVars, attn, retired, at>>

Kv == INSTANCE PageMap WITH
  Capacity <- KV_MMU_ENTRIES, ZeroPage <- 0, ZeroFrame <- 0, OpcodePage <- 0

ZeroRsp == [id |-> 0, status |-> "OK", result |-> Zero]

-----------------------------------------------------------------------------
(* Decoding *)

IsKv(c) == c.op \in {"KV_MAP", "KV_TRANSLATE"}
IsDma(c) == c.op \in {"DMA_COPY", "DMA_INDEX_WRITE", "DMA_GATHER", "DMA_ECC_INJECT"}
IsAttn(c) == c.op = "ATTN_QK_DOT"

Selected == <<"accepted", "completed", "errors", "fault_overflows">>

Ok(result) == [status |-> "OK", result |-> result]

\* What the stub answers by itself, or holds until an engine answers.
Decoded(c) ==
  CASE c.op = "ECHO" -> Ok(Payload(c.payload))
    [] c.op = "GET_COUNTER" ->
         IF c.payload.low + 1 \in DOMAIN Selected
         THEN Ok(<<"count", counts[Selected[c.payload.low + 1]]>>)
         ELSE [status |-> "UNSUPPORTED_COUNTER", result |-> <<"counter", c.payload.low>>]
    [] c.op = "KV_GET_FAULT" ->
         IF faults # <<>> THEN Ok(<<"fault", Head(faults)>>)
         ELSE [status |-> "FAULT_QUEUE_EMPTY", result |-> Zero]
    [] c.op = "NOP" \/ IsKv(c) \/ IsDma(c) \/ IsAttn(c) -> Ok(Zero)
    [] OTHER -> [status |-> "UNSUPPORTED_OPCODE", result |-> <<"opcode", c.op>>]

StatusOf(c) == IF c.flags THEN "UNSUPPORTED_FLAGS" ELSE Decoded(c).status

StateAfter(c) ==
  CASE c.flags -> "RESPOND"
    [] ~ c.flags /\ IsKv(c) -> "WAIT_KV"
    [] ~ c.flags /\ IsDma(c) -> "WAIT_DMA"
    [] ~ c.flags /\ IsAttn(c) -> "WAIT_ATTN"
    [] OTHER -> "RESPOND"

-----------------------------------------------------------------------------
(* The host's side: a command enters when the queue, without what leaves it *)
(* on this edge, has room                                                   *)

EnqueueWith(rest) ==
  \/ queue' = rest /\ UNCHANGED submitted
  \/ \E c \in workload :
       /\ Len(rest) < CMD_QUEUE_DEPTH /\ submitted < MaxCommands
       /\ queue' = Append(rest, c)
       /\ submitted' = submitted + 1

-----------------------------------------------------------------------------
(* The stub takes a command *)

EngineReady(c) ==
  /\ IsKv(c) => reply = <<>>
  /\ IsDma(c) => DmaReqReady(c.op, c.payload)
  /\ IsAttn(c) => attn = <<>>

KvRequest(c) ==
  LET v == c.payload.low
      f == c.payload.mid
  IN
  \/ c.payload.reserved /\ Kv!RefusePayload(v, f)
  \/ /\ ~ c.payload.reserved
     /\ \/ c.op = "KV_MAP" /\ (Kv!Map(v, f) \/ Kv!RefuseMap(v, f))
        \/ c.op = "KV_TRANSLATE" /\ Kv!Translate(v)

DotProduct(p) == p.low * p.mid

\* No engine sees a command with flags.
Engines(c) ==
  /\ IF IsKv(c) /\ ~ c.flags THEN KvRequest(c) ELSE UNCHANGED kvVars
  /\ IF IsDma(c) /\ ~ c.flags THEN DmaRequest(c.op, c.payload) ELSE UNCHANGED dmaVars
  /\ IF IsAttn(c) /\ ~ c.flags THEN attn' = <<DotProduct(c.payload)>>
     ELSE UNCHANGED attn

PopFault(c) ==
  faults' = IF c.op = "KV_GET_FAULT" /\ ~ c.flags /\ faults # <<>>
            THEN Tail(faults) ELSE faults

Snapshot(c) == [command |-> c, pages |-> pages, words |-> words, list |-> list]

AcceptCommand ==
  /\ state = "IDLE" /\ queue # <<>>
  /\ LET c == Head(queue) IN
       /\ EngineReady(c)
       /\ state' = StateAfter(c)
       /\ rsp' = [id |-> c.id, status |-> StatusOf(c), result |-> Decoded(c).result]
       /\ counts' = [counts EXCEPT !.accepted = @ + 1,
                                   !.errors = IF StatusOf(c) = "OK" THEN @ ELSE @ + 1]
       /\ PopFault(c)
       /\ Engines(c)
       /\ at' = IF StateAfter(c) = "RESPOND" THEN <<>> ELSE <<Snapshot(c)>>
  /\ EnqueueWith(Tail(queue))
  /\ UNCHANGED <<workload, retired>>

-----------------------------------------------------------------------------
(* An engine answers *)

RespondWith(status, result, overflows) ==
  /\ rsp' = [rsp EXCEPT !.status = status, !.result = result]
  /\ state' = "RESPOND"
  /\ counts' = [counts EXCEPT !.errors = IF status = "OK" THEN @ ELSE @ + 1,
                              !.fault_overflows = @ + overflows]
  /\ at' = <<>>

\* The fault unit takes every miss, at the cost of the oldest when it is full.
\* Nothing is fetched on the same edge: the stub is waiting.
PushFault(fault) ==
  faults' = Append(IF Len(faults) = FAULT_DEPTH THEN Tail(faults) ELSE faults, fault)

KvAnswers ==
  /\ state = "WAIT_KV" /\ reply # <<>>
  /\ LET r == reply[1]
         miss == r.status = "KV_MISS"
     IN
       /\ RespondWith(r.status, <<"mapping", r.result>>,
                      IF miss /\ Len(faults) = FAULT_DEPTH THEN 1 ELSE 0)
       /\ IF miss
          THEN PushFault([id |-> rsp.id, page |-> r.result.virt, cause |-> r.status])
          ELSE UNCHANGED faults
  /\ Kv!Take
  /\ UNCHANGED <<dmaVars, attn>>

DmaAnswers ==
  /\ state = "WAIT_DMA" /\ DmaTaken
  /\ RespondWith(dma.status, dma.result, 0)
  /\ UNCHANGED <<faults, kvVars, attn>>

AttnAnswers ==
  /\ state = "WAIT_ATTN" /\ attn # <<>>
  /\ RespondWith("OK", <<"dot", attn[1]>>, 0)
  /\ attn' = <<>>
  /\ UNCHANGED <<faults, kvVars, dmaVars>>

EngineAnswers ==
  /\ KvAnswers \/ DmaAnswers \/ AttnAnswers
  /\ EnqueueWith(queue)
  /\ UNCHANGED <<workload, retired>>

EngineWorks ==
  /\ DmaWorks
  /\ EnqueueWith(queue)
  /\ UNCHANGED <<workload, stubVars, faults, kvVars, attn, retired, at>>

-----------------------------------------------------------------------------
(* The host takes an answer; the registers are not read again, and the      *)
(* model clears them                                                        *)

Retire ==
  /\ state = "RESPOND"
  /\ state' = "IDLE"
  /\ rsp' = ZeroRsp
  /\ counts' = [counts EXCEPT !.completed = @ + 1]
  /\ retired' = retired + 1
  /\ EnqueueWith(queue)
  /\ UNCHANGED <<workload, faults, kvVars, dmaVars, attn, at>>

\* An edge on which only the host moves.
HostOnly ==
  /\ EnqueueWith(queue)
  /\ UNCHANGED <<workload, stubVars, faults, kvVars, dmaVars, attn, retired, at>>

Reset ==
  /\ queue' = <<>> /\ state' = "IDLE" /\ rsp' = ZeroRsp
  /\ counts' = [c \in DOMAIN counts |-> 0]
  /\ faults' = <<>> /\ attn' = <<>>
  /\ Kv!Reset
  /\ DmaReset
  /\ submitted' = 0 /\ retired' = 0 /\ at' = <<>>
  /\ UNCHANGED workload

-----------------------------------------------------------------------------
Init ==
  /\ workload \in Workloads
  /\ queue = <<>> /\ state = "IDLE" /\ rsp = ZeroRsp
  /\ counts = [accepted |-> 0, completed |-> 0, errors |-> 0, fault_overflows |-> 0]
  /\ faults = <<>> /\ attn = <<>>
  /\ Kv!Init
  /\ DmaInit
  /\ submitted = 0 /\ retired = 0 /\ at = <<>>

ChipWorks == AcceptCommand \/ EngineAnswers \/ EngineWorks \/ Retire

Next == ChipWorks \/ HostOnly \/ Reset

\* The clock runs, the MMU answers (EveryKvRequestAnswered of KvMmu), and the
\* host takes an answer some edge after it is shown.
Spec == Init /\ [][Next]_vars /\ WF_vars(ChipWorks)

-----------------------------------------------------------------------------
(* Properties *)

\* Queue, stub, engines and fault unit together are the serial service: the
\* commands are answered once each and in order, no more than the queue and one
\* are outstanding and an answer stays until it is taken (rcif_top_assertions),
\* a copy shows as a whole or not at all, nothing with flags has an effect, the
\* counters add up, and every miss is reported once, or lost to newer ones and
\* counted.
Service == INSTANCE ChipService WITH
  MaxOutstanding <- CMD_QUEUE_DEPTH + 1,
  FaultDepth <- FAULT_DEPTH,
  Capacity <- KV_MMU_ENTRIES,
  waiting <- (IF at # <<>> THEN <<at[1].command>> ELSE <<>>) \o queue,
  answer <- IF state = "RESPOND" THEN <<rsp>> ELSE <<>>,
  kv <- IF at # <<>> THEN at[1].pages ELSE pages,
  words <- IF at # <<>> THEN at[1].words ELSE words,
  list <- IF at # <<>> THEN at[1].list ELSE list,
  counts <- [counts EXCEPT !.accepted = @ - Len(at)]

SerialService == Service!Spec

\* Every command taken from the host is answered, unless the chip is reset.
EveryCommandRetires ==
  \A n \in 1 .. MaxCommands :
    (submitted >= n) ~> (retired >= n \/ submitted < n)

=============================================================================

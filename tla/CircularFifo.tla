---------------------------- MODULE CircularFifo ----------------------------
(***************************************************************************)
(* The circular buffer the design repeats wherever it queues: command      *)
(* queue (rtl/common/rcif_cmd_queue.sv) and DMA descriptors                *)
(* (rtl/dma/rcif_dma_desc_fetch.sv), policy = "bypass"; completions        *)
(* (rtl/scheduler/rcif_completion_writer.sv) and links                     *)
(* (rtl/collectives/rcif_credit_link.sv), policy = "stall"; KV faults      *)
(* (rtl/kv/rcif_kv_fault_unit.sv), policy = "overwrite".                   *)
(*                                                                         *)
(* One step is one clock edge, or a reset (a link can also be flushed).    *)
(***************************************************************************)
EXTENDS Naturals, Sequences

CONSTANTS DEPTH, Payload, Nothing

ASSUME FifoAssumption ==
  /\ DEPTH \in Nat \ {0}
  /\ Nothing \notin Payload

Ptr == 0 .. DEPTH - 1

VARIABLES
  mem,               \* not reset
  rd_ptr, wr_ptr, count,
  out,               \* the payload the consumer took on the last edge
  policy             \* how the unit treats a full buffer; never changes

fifoVars == <<mem, rd_ptr, wr_ptr, count, out, policy>>

PtrInc(p) == IF p = DEPTH - 1 THEN 0 ELSE p + 1

FifoValid == count # 0
Full == count = DEPTH
FifoPop(ready) == FifoValid /\ ready

\* The producer's ready, given whether the consumer takes a payload.
Ready(pop) ==
  \/ policy = "overwrite"
  \/ count < DEPTH
  \/ policy = "bypass" /\ pop

FifoPush(valid, ready) == valid /\ Ready(FifoPop(ready))

Overflow(valid, ready) ==
  policy = "overwrite" /\ FifoPush(valid, ready) /\ Full /\ ~ FifoPop(ready)

WrittenAlways(push, x) == [mem EXCEPT ![wr_ptr] = x]

Written(push, x) == IF push THEN [mem EXCEPT ![wr_ptr] = x] ELSE mem

Advance(moves, ptr) == IF moves THEN PtrInc(ptr) ELSE ptr

NextCount(push, pop, overflow) ==
  IF push /\ ~ pop /\ ~ overflow THEN count + 1
  ELSE IF pop /\ ~ push THEN count - 1 ELSE count

FifoCycle(valid, x, ready) ==
  LET push == FifoPush(valid, ready)
      pop == FifoPop(ready)
      overflow == Overflow(valid, ready)
  IN  /\ mem' = Written(push, x)
      /\ wr_ptr' = Advance(push, wr_ptr)
      /\ rd_ptr' = Advance(pop \/ overflow, rd_ptr)
      /\ count' = NextCount(push, pop, overflow)
      /\ out' = IF pop THEN mem[rd_ptr] ELSE Nothing
      /\ UNCHANGED policy

FifoInit ==
  /\ mem \in [Ptr -> Payload]
  /\ rd_ptr = 0 /\ wr_ptr = 0 /\ count = 0 /\ out = Nothing
  /\ policy \in {"stall", "bypass", "overwrite"}

FifoReset ==
  /\ rd_ptr' = 0 /\ wr_ptr' = 0 /\ count' = 0 /\ out' = Nothing
  /\ UNCHANGED <<mem, policy>>

FifoNext ==
  \/ \E valid, ready \in BOOLEAN, x \in Payload : FifoCycle(valid, x, ready)
  \/ FifoReset

FifoSpec == FifoInit /\ [][FifoNext]_fifoVars

-----------------------------------------------------------------------------
(* Properties *)

\* The pointers stay in the memory and the count within the depth (the FORMAL
\* assertions count_q <= DEPTH_COUNT).
FifoTypeOK ==
  /\ mem \in [Ptr -> Payload]
  /\ rd_ptr \in Ptr /\ wr_ptr \in Ptr
  /\ count \in 0 .. DEPTH
  /\ out \in Payload \cup {Nothing}
  /\ policy \in {"stall", "bypass", "overwrite"}

\* Where the k-th waiting payload is.
At(k) == IF rd_ptr + k - 1 < DEPTH THEN rd_ptr + k - 1 ELSE rd_ptr + k - 1 - DEPTH

\* The write pointer is behind the last waiting payload.
PointersAgree == wr_ptr = At(count + 1)

\* The circular buffer is a bounded queue: what leaves is what came, in order,
\* through every wrap of the pointers, at full and at empty.
Q == INSTANCE BoundedQueue WITH contents <- [k \in 1 .. count |-> mem[At(k)]]

QueueSpec == Q!Spec

=============================================================================

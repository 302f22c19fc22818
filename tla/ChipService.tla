---------------------------- MODULE ChipService ----------------------------
(***************************************************************************)
(* What the command interface promises the host: commands wait in the      *)
(* order they came, are carried out one at a time and each at one blow,    *)
(* and are answered once each in that order.  No engine, no queue and no   *)
(* copy under way shows.                                                   *)
(***************************************************************************)
EXTENDS Naturals, Sequences, FiniteSets, FiniteSetsExt

CONSTANTS Command, MaxOutstanding, FaultDepth, Capacity, PAGE_COUNT

VARIABLES
  waiting,   \* the commands not carried out yet
  answer,    \* <<>>, or <<a>> with a the answer shown to the host
  kv,        \* the frame of every mapped page
  faults,    \* the misses not fetched yet, the oldest first
  words,     \* the pages of the DMA memory written so far
  list,      \* the gather list
  counts

memory == <<kv, faults, words, list>>
vars == <<waiting, answer, memory, counts>>

Init ==
  /\ waiting = <<>> /\ answer = <<>>
  /\ kv = [v \in {} |-> 0] /\ faults = <<>>
  /\ words = [p \in {} |-> 0] /\ list = [s \in {} |-> 0]
  /\ counts = [accepted |-> 0, completed |-> 0, errors |-> 0, fault_overflows |-> 0]

Put(f, x, y) == [z \in DOMAIN f \cup {x} |-> IF z = x THEN y ELSE f[z]]

-----------------------------------------------------------------------------
(* Answers *)

AnswerCounting(c, status, result, overflows) ==
  /\ answer' = <<[id |-> c.id, status |-> status, result |-> result]>>
  /\ counts' = [counts EXCEPT !.accepted = @ + 1,
                              !.errors = IF status = "OK" THEN @ ELSE @ + 1,
                              !.fault_overflows = @ + overflows]

Answer(c, status, result) == AnswerCounting(c, status, result, 0)

Refuse(c, status, result) == Answer(c, status, result) /\ UNCHANGED memory

Zero == <<"zero", 0>>
Same(c) == <<"payload", c.payload>>

-----------------------------------------------------------------------------
(* Commands without an engine *)

Counter == <<"accepted", "completed", "errors", "fault_overflows">>

\* A command with flags does nothing; what its answer carries is not promised.
WithFlags(c) ==
  /\ c.flags /\ answer' # <<>>
  /\ Refuse(c, "UNSUPPORTED_FLAGS", answer'[1].result)

Plain(c) ==
  \/ c.op = "NOP" /\ Refuse(c, "OK", Zero)
  \/ c.op = "ECHO" /\ Refuse(c, "OK", Same(c))
  \/ c.op = "OTHER" /\ Refuse(c, "UNSUPPORTED_OPCODE", <<"opcode", "OTHER">>)
  \/ /\ c.op = "GET_COUNTER"
     /\ LET n == c.payload.low IN
          IF n + 1 \in DOMAIN Counter
          THEN Refuse(c, "OK", <<"count", counts[Counter[n + 1]]>>)
          ELSE Refuse(c, "UNSUPPORTED_COUNTER", <<"counter", n>>)
  \/ c.op = "ATTN_QK_DOT" /\ Refuse(c, "OK", <<"dot", c.payload.low * c.payload.mid>>)

\* Misses are reported once each, the oldest first.
GetFault(c) ==
  /\ c.op = "KV_GET_FAULT"
  /\ \/ faults = <<>> /\ Refuse(c, "FAULT_QUEUE_EMPTY", Zero)
     \/ /\ faults # <<>>
        /\ Answer(c, "OK", <<"fault", Head(faults)>>)
        /\ faults' = Tail(faults)
        /\ UNCHANGED <<kv, words, list>>

-----------------------------------------------------------------------------
(* KV pages *)

\* The outcome of a mapping command, by the pages mapped before it.
KvOutcome(k, c) ==
  LET v == c.payload.low
      f == c.payload.mid
      fits == v \in DOMAIN k \/ Cardinality(DOMAIN k) < Capacity
      Answered(status, frame, after) ==
        [status |-> status, kv |-> after,
         result |-> <<"mapping", [virt |-> v, frame |-> frame, reserved |-> c.payload.reserved]>>]
  IN
  IF c.payload.reserved THEN Answered("KV_RESERVED_BITS", f, k)
  ELSE IF c.op = "KV_MAP"
  THEN IF fits THEN Answered("OK", f, Put(k, v, f)) ELSE Answered("KV_FULL", f, k)
  ELSE IF v \in DOMAIN k THEN Answered("OK", k[v], k) ELSE Answered("KV_MISS", 0, k)

\* A miss is kept for the host; when FaultDepth wait already, the oldest is
\* given up and counted.
UseKv(c) ==
  LET o == KvOutcome(kv, c)
      miss == o.status = "KV_MISS"
      full == Len(faults) = FaultDepth
  IN
  /\ c.op \in {"KV_MAP", "KV_TRANSLATE"}
  /\ AnswerCounting(c, o.status, o.result, IF miss /\ full THEN 1 ELSE 0)
  /\ kv' = o.kv
  /\ faults' = IF miss
               THEN Append(IF full THEN Tail(faults) ELSE faults,
                           [id |-> c.id, page |-> c.payload.low, cause |-> "KV_MISS"])
               ELSE faults
  /\ UNCHANGED <<words, list>>

-----------------------------------------------------------------------------
(* DMA: all of a copy or nothing of it.  w and l are the memory and the    *)
(* gather list that the command finds.                                     *)

Copying(c) == c.op \in {"DMA_COPY", "DMA_GATHER"}

Items(c) == 0 .. c.payload.high - 1

Source(l, c, i) ==
  IF c.op = "DMA_GATHER" THEN l[c.payload.low + i] ELSE c.payload.low + i

Word(w, p) == IF p \in DOMAIN w THEN w[p].data ELSE p

\* The memory after i items: items are copied in order, and one may read what
\* an earlier one wrote.
After(w, l, c) ==
  LET after[i \in 0 .. c.payload.high] ==
        IF i = 0 THEN w
        ELSE Put(after[i - 1], c.payload.mid + i - 1,
                 [data |-> Word(after[i - 1], Source(l, c, i - 1)), sound |-> TRUE])
  IN after

Copied(w, l, c, i) == Word(After(w, l, c)[i], Source(l, c, i))

\* The words that the first n items copied an odd number of times.
Checksum(w, l, c, n) ==
  {p \in 0 .. PAGE_COUNT - 1 :
     Cardinality({i \in 0 .. n - 1 : Copied(w, l, c, i) = p}) % 2 = 1}

Missing(l, c) ==
  IF c.op = "DMA_GATHER"
  THEN {c.payload.low + i : i \in Items(c)} \ DOMAIN l ELSE {}

Poisoned(w, l, c) ==
  {i \in Items(c) : Source(l, c, i) \in DOMAIN w /\ ~ w[Source(l, c, i)].sound}

InRange(c) ==
  /\ c.payload.low + c.payload.high <= PAGE_COUNT
  /\ c.payload.mid + c.payload.high <= PAGE_COUNT

Outcome(status, result, w, l) ==
  [status |-> status, result |-> result, words |-> w, list |-> l]

\* The first thing that is wrong is answered, and then nothing is written.
CopyOutcome(w, l, c) ==
  IF c.payload.high = 0 THEN Outcome("DMA_ZERO_LENGTH", Same(c), w, l)
  ELSE IF ~ InRange(c) THEN Outcome("DMA_RANGE", Zero, w, l)
  ELSE IF Missing(l, c) # {}
  THEN Outcome("DMA_INDEX_MISS", <<"slot", Min(Missing(l, c))>>, w, l)
  ELSE IF Poisoned(w, l, c) # {}
  THEN Outcome("DMA_ECC", <<"page", Source(l, c, Min(Poisoned(w, l, c)))>>, w, l)
  ELSE Outcome("OK", <<"checksum", Checksum(w, l, c, c.payload.high)>>,
               After(w, l, c)[c.payload.high], l)

IndexOutcome(w, l, c) ==
  IF c.payload.mid >= PAGE_COUNT THEN Outcome("DMA_RANGE", Same(c), w, l)
  ELSE Outcome("OK", Same(c), w, Put(l, c.payload.low, c.payload.mid))

EccOutcome(w, l, c) ==
  IF c.payload.low >= PAGE_COUNT THEN Outcome("DMA_RANGE", Same(c), w, l)
  ELSE Outcome("OK", Same(c),
               [p \in DOMAIN w |-> IF p = c.payload.low
                                   THEN [w[p] EXCEPT !.sound = ~ @] ELSE w[p]], l)

DmaOutcome(w, l, c) ==
  IF c.payload.reserved THEN Outcome("DMA_RESERVED_BITS", Same(c), w, l)
  ELSE IF Copying(c) THEN CopyOutcome(w, l, c)
  ELSE IF c.op = "DMA_INDEX_WRITE" THEN IndexOutcome(w, l, c)
  ELSE EccOutcome(w, l, c)

UseDma(c) ==
  LET o == DmaOutcome(words, list, c) IN
  /\ c.op \in {"DMA_COPY", "DMA_GATHER", "DMA_INDEX_WRITE", "DMA_ECC_INJECT"}
  /\ Answer(c, o.status, o.result)
  /\ words' = o.words /\ list' = o.list
  /\ UNCHANGED <<kv, faults>>

-----------------------------------------------------------------------------
(* The service *)

CarryOut(c) ==
  \/ WithFlags(c)
  \/ /\ ~ c.flags
     /\ Plain(c) \/ GetFault(c) \/ UseKv(c) \/ UseDma(c)

\* A command may come on any edge, while no more than MaxOutstanding are owed
\* an answer.
Come(rest) ==
  /\ \/ waiting' = rest
     \/ \E c \in Command : waiting' = Append(rest, c)
  /\ Len(waiting') + Len(answer') <= MaxOutstanding

Execute ==
  /\ waiting # <<>> /\ answer = <<>>
  /\ CarryOut(Head(waiting))
  /\ Come(Tail(waiting))

Deliver ==
  /\ answer # <<>> /\ answer' = <<>>
  /\ counts' = [counts EXCEPT !.completed = @ + 1]
  /\ UNCHANGED memory
  /\ Come(waiting)

Arrive == UNCHANGED <<answer, memory, counts>> /\ Come(waiting)

Reset ==
  /\ waiting' = <<>> /\ answer' = <<>>
  /\ kv' = [v \in {} |-> 0] /\ faults' = <<>>
  /\ words' = [p \in {} |-> 0] /\ list' = [s \in {} |-> 0]
  /\ counts' = [c \in DOMAIN counts |-> 0]

Next == Execute \/ Deliver \/ Arrive \/ Reset

Spec == Init /\ [][Next]_vars

=============================================================================

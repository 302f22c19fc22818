---------------------------- MODULE ChipTop_proofs ----------------------------
(***************************************************************************)
(* Queue, stub, engines and fault unit implement the serial service, for   *)
(* every queue depth, page count, number of mappings and fault slots, and  *)
(* for every set of commands.                                              *)
(*                                                                         *)
(* The service carries a command out at one blow, the moment it is         *)
(* answered; an engine works on it for many edges before that.  at is the  *)
(* command under way with the memories it found, and the invariant says    *)
(* what the engine's registers and memories are by now in terms of those.  *)
(***************************************************************************)
EXTENDS ChipTop, FiniteSetTheorems, SequenceTheorems, WellFoundedInduction, TLAPS

-----------------------------------------------------------------------------
(* The invariant *)

WordsGood(w) == w \in [DOMAIN w -> [data : 0 .. PAGE_COUNT - 1, sound : BOOLEAN]]
ListGood(l) == \A slot \in DOMAIN l : l[slot] \in 0 .. PAGE_COUNT - 1

BadSource(w, l, c, i) ==
  Service!Source(l, c, i) \in DOMAIN w /\ ~ w[Service!Source(l, c, i)].sound

\* A copy under way in the gather/scatter machine: the slots validated so far
\* are programmed, the sources checked so far are sound, and the items copied
\* so far are the reference's.
GatherStage(s) ==
  LET c == s.command
      p == s.command.payload
      i == gather.copy_index
  IN
  /\ Service!InRange(c)
  /\ gather.src = p.low /\ gather.dst = p.mid /\ gather.length = p.high
  /\ gather.indirect \in BOOLEAN /\ (gather.indirect <=> c.op = "DMA_GATHER")
  /\ i \in 0 .. p.high - 1
  /\ gather.state \in {"VALIDATE", "CHECK_ECC"} => words = s.words /\ gather.checksum = {}
  /\ gather.state = "VALIDATE" =>
       c.op = "DMA_GATHER" /\ \A k \in 0 .. i - 1 : p.low + k \in DOMAIN s.list
  /\ gather.state \in {"CHECK_ECC", "COPY"} => Service!Missing(s.list, c) = {}
  /\ gather.state = "CHECK_ECC" =>
       \A k \in 0 .. i - 1 : ~ BadSource(s.words, s.list, c, k)
  /\ gather.state = "COPY" =>
       /\ Service!Poisoned(s.words, s.list, c) = {}
       /\ words = Service!After(s.words, s.list, c)[i]
       /\ gather.checksum = Service!Checksum(s.words, s.list, c, i)

Answers(status, result, o) ==
  status = o.status /\ result = o.result /\ words = o.words /\ list = o.list

DmaStage(s) ==
  LET c == s.command
      p == s.command.payload
  IN
  \/ /\ dma.state \in {"WAIT_FETCH", "WAIT_GATHER"} /\ UsesGather(c.op, p)
     /\ list = s.list
     /\ \/ /\ dma.state = "WAIT_FETCH" /\ words = s.words /\ gather = GatherIdle
           /\ desc = <<[src |-> p.low, dst |-> p.mid, length |-> p.high,
                        indirect |-> c.op = "DMA_GATHER"]>>
        \/ /\ dma.state = "WAIT_GATHER" /\ desc = <<>>
           /\ \/ /\ gather.state = "RESPOND"
                 /\ Answers(gather.status, gather.result,
                            Service!CopyOutcome(s.words, s.list, c))
              \/ gather.state \in {"VALIDATE", "CHECK_ECC", "COPY"} /\ GatherStage(s)
  \/ /\ dma.state = "RESPOND" /\ desc = <<>> /\ gather = GatherIdle
     /\ Answers(dma.status, dma.result, Service!DmaOutcome(s.words, s.list, c))

Waits == {"WAIT_KV", "WAIT_DMA", "WAIT_ATTN"}

\* The command under way is one for the engine at work.
Held(s) ==
  LET c == s.command IN
  /\ c \in Command /\ ~ c.flags /\ rsp.id = c.id
  /\ state = "WAIT_KV" => IsKv(c)
  /\ state = "WAIT_DMA" => IsDma(c)
  /\ state = "WAIT_ATTN" => IsAttn(c)
  /\ WordsGood(s.words) /\ ListGood(s.list)

DmaTyped ==
  /\ WordsGood(words) /\ ListGood(list)
  /\ dma = [state |-> dma.state, status |-> dma.status, result |-> dma.result]
  /\ gather = [state |-> gather.state, src |-> gather.src, dst |-> gather.dst,
               length |-> gather.length, copy_index |-> gather.copy_index,
               indirect |-> gather.indirect, checksum |-> gather.checksum,
               status |-> gather.status, result |-> gather.result]

ChipTyped ==
  /\ workload \in SUBSET Command
  /\ queue \in Seq(Command) /\ Len(queue) <= CMD_QUEUE_DEPTH
  /\ state \in {"IDLE", "RESPOND"} \cup Waits
  /\ rsp = [id |-> rsp.id, status |-> rsp.status, result |-> rsp.result]
  /\ counts \in [accepted : Nat, completed : Nat, errors : Nat, fault_overflows : Nat]
  /\ DmaTyped

EnginesRest ==
  /\ state # "WAIT_KV" => reply = <<>>
  /\ state # "WAIT_ATTN" => attn = <<>>
  /\ state # "WAIT_DMA" => dma = DmaIdle /\ desc = <<>> /\ gather = GatherIdle

KvStage(s) ==
  LET o == Service!KvOutcome(s.pages, s.command) IN
  /\ words = s.words /\ list = s.list /\ pages = o.kv
  /\ Len(reply) = 1 /\ reply[1].status = o.status
  /\ <<"mapping", reply[1].result>> = o.result
  /\ reply[1].result.virt = s.command.payload.low

AttnStage(s) ==
  /\ words = s.words /\ list = s.list /\ pages = s.pages
  /\ attn = <<DotProduct(s.command.payload)>>

EngineStage(s) ==
  /\ state = "WAIT_KV" => KvStage(s)
  /\ state = "WAIT_ATTN" => AttnStage(s)
  /\ state = "WAIT_DMA" => pages = s.pages /\ DmaStage(s)

UnderWay ==
  IF state \in Waits THEN \E s : at = <<s>> /\ Held(s) /\ EngineStage(s) ELSE at = <<>>

ChipInv == ChipTyped /\ EnginesRest /\ UnderWay

-----------------------------------------------------------------------------
(* Least elements *)

LEMMA LeastElement ==
  ASSUME NEW S \in SUBSET Nat, S # {}
  PROVE  \E x \in S : \A y \in S : x <= y
<1>1. IsWellFoundedOn(OpToRel(<, Nat), Nat)
  BY NatLessThanWellFounded
<1>2. PICK x \in S : \A y \in S : ~ (<<y, x>> \in OpToRel(<, Nat))
  BY <1>1, WFMin, Zenon
<1>3. \A y \in S : ~ (y < x)
  BY <1>2 DEF OpToRel
<1>. QED BY <1>3

\* The first of the items that are bad, when all before it are good.
LEMMA FirstOf ==
  ASSUME NEW S \in SUBSET Nat, NEW x \in S, \A y \in S : x <= y
  PROVE  Service!Min(S) = x
<1>1. \A z \in S : (\A y \in S : z <= y) => z = x OBVIOUS
<1>. QED BY <1>1 DEF Service!Min

-----------------------------------------------------------------------------
(* The reference's copy, item by item *)

\* The memory after i items, by the memories before.
AfterItem(w, l, c, f, i) ==
  IF i = 0 THEN w
  ELSE Service!Put(f[i - 1], c.payload.mid + i - 1,
                   [data |-> Service!Word(f[i - 1], Service!Source(l, c, i - 1)),
                    sound |-> TRUE])

Computable(w, l, c, K) == \E f : f = [i \in 0 .. K |-> AfterItem(w, l, c, f, i)]

LEMMA AfterExists ==
  ASSUME NEW w, NEW l, NEW c, NEW K \in Nat
  PROVE  Computable(w, l, c, K)
<1>. DEFINE Upto(N, f) == f = [i \in 0 .. N |-> AfterItem(w, l, c, f, i)]
            Bad == {N \in Nat : ~ \E f : Upto(N, f)}
<1>1. SUFFICES ASSUME Bad # {} PROVE FALSE BY DEF Computable
<1>2. PICK N \in Bad : \A other \in Bad : N <= other
  <2>. HIDE DEF Upto
  <2>. QED BY <1>1, LeastElement
<1>3. CASE N = 0
  <2>. DEFINE first == [i \in 0 .. 0 |-> w]
  <2>1. \A i \in 0 .. 0 : AfterItem(w, l, c, first, i) = w BY DEF AfterItem
  <2>2. first = [i \in 0 .. 0 |-> AfterItem(w, l, c, first, i)] BY <2>1
  <2>. QED BY <2>2, <1>3
<1>4. CASE N # 0
  <2>0. N - 1 \in Nat /\ N - 1 \notin Bad BY <1>2, <1>4
  <2>1. PICK before : Upto(N - 1, before) BY <2>0
  <2>. DEFINE next == [i \in 0 .. N |-> AfterItem(w, l, c, before, i)]
  <2>2. ASSUME NEW i \in 0 .. N
        PROVE  AfterItem(w, l, c, before, i) = AfterItem(w, l, c, next, i)
    <3>1. CASE i = 0 BY <3>1 DEF AfterItem
    <3>2. CASE i # 0
      <4>1. i - 1 \in 0 .. N - 1 /\ i - 1 \in 0 .. N BY <3>2, <1>4
      <4>2. before[i - 1] = AfterItem(w, l, c, before, i - 1) BY <4>1, <2>1
      <4>3. next[i - 1] = before[i - 1] BY <4>1, <4>2
      <4>. HIDE DEF next
      <4>. QED BY <4>3 DEF AfterItem
    <3>. QED BY <3>1, <3>2
  <2>3. next = [i \in 0 .. N |-> AfterItem(w, l, c, next, i)] BY <2>2
  <2>. HIDE DEF next
  <2>. QED BY <2>3
<1>. QED BY <1>3, <1>4

LEMMA AfterSteps ==
  ASSUME NEW w, NEW l, NEW c, c.payload.high \in Nat
  PROVE  /\ Service!After(w, l, c)[0] = w
         /\ \A i \in 0 .. c.payload.high - 1 :
              Service!After(w, l, c)[i + 1]
                = Service!Put(Service!After(w, l, c)[i], c.payload.mid + (i + 1) - 1,
                              [data |-> Service!Copied(w, l, c, i), sound |-> TRUE])
<1>. DEFINE N == c.payload.high
            Unfolded(f) == [i \in 0 .. N |-> AfterItem(w, l, c, f, i)]
            whole == CHOOSE f : f = Unfolded(f)
<1>1. whole = Unfolded(whole)
  <2>1. \E f : f = Unfolded(f)
    <3>1. Computable(w, l, c, N) BY AfterExists
    <3>. HIDE DEF N
    <3>. QED BY <3>1 DEF Computable
  <2>. HIDE DEF Unfolded
  <2>. QED BY <2>1
<1>2. Service!After(w, l, c) = whole
  BY DEF Service!After, AfterItem
<1>3. ASSUME NEW i \in 0 .. N PROVE whole[i] = AfterItem(w, l, c, whole, i)
  <2>1. Unfolded(whole)[i] = AfterItem(w, l, c, whole, i) OBVIOUS
  <2>. HIDE DEF Unfolded, whole
  <2>. QED BY <2>1, <1>1
<1>. HIDE DEF whole
<1>4. whole[0] = w
  <2>1. 0 \in 0 .. N OBVIOUS
  <2>. QED BY <2>1, <1>3 DEF AfterItem
<1>5. ASSUME NEW i \in 0 .. N - 1
      PROVE  whole[i + 1] = Service!Put(whole[i], c.payload.mid + (i + 1) - 1,
                                        [data |-> Service!Copied(w, l, c, i), sound |-> TRUE])
  <2>1. i + 1 \in 0 .. N /\ i + 1 # 0 /\ (i + 1) - 1 = i OBVIOUS
  <2>2. whole[i + 1] = AfterItem(w, l, c, whole, i + 1) BY <2>1, <1>3
  <2>. QED BY <2>1, <2>2, <1>2 DEF AfterItem, Service!Copied
<1>. QED BY <1>2, <1>4, <1>5

-----------------------------------------------------------------------------
(* The reference's checksum, item by item *)

Times(w, l, c, n, p) == {i \in 0 .. n - 1 : Service!Copied(w, l, c, i) = p}

OddTimes(w, l, c, n, p) == Cardinality(Times(w, l, c, n, p)) % 2 = 1

LEMMA ChecksumCounts ==
  ASSUME NEW w, NEW l, NEW c, NEW n
  PROVE  Service!Checksum(w, l, c, n) = {p \in 0 .. PAGE_COUNT - 1 : OddTimes(w, l, c, n, p)}
BY DEF Service!Checksum, OddTimes, Times, Service!Cardinality, Cardinality

LEMMA TimesFinite ==
  ASSUME NEW w, NEW l, NEW c, NEW n \in Nat, NEW p
  PROVE  IsFiniteSet(Times(w, l, c, n, p)) /\ Cardinality(Times(w, l, c, n, p)) \in Nat
<1>1. Times(w, l, c, n, p) \subseteq 0 .. n - 1 BY DEF Times
<1>2. IsFiniteSet(0 .. n - 1) BY FS_Interval
<1>. QED BY <1>1, <1>2, FS_Subset, FS_CardinalityType

LEMMA TimesSteps ==
  ASSUME NEW w, NEW l, NEW c, NEW n \in Nat, NEW p
  PROVE  Cardinality(Times(w, l, c, n + 1, p))
           = IF Service!Copied(w, l, c, n) = p THEN Cardinality(Times(w, l, c, n, p)) + 1
             ELSE Cardinality(Times(w, l, c, n, p))
<1>1. \A i : i \in 0 .. (n + 1) - 1 <=> i \in 0 .. n - 1 \/ i = n OBVIOUS
<1>2. CASE Service!Copied(w, l, c, n) = p
  <2>1. Times(w, l, c, n + 1, p) = Times(w, l, c, n, p) \cup {n} BY <1>1, <1>2, Zenon DEF Times
  <2>2. n \notin Times(w, l, c, n, p)
    <3>1. n \notin 0 .. n - 1 OBVIOUS
    <3>. QED BY <3>1, Zenon DEF Times
  <2>. QED BY <2>1, <2>2, <1>2, TimesFinite, FS_AddElement
<1>3. CASE Service!Copied(w, l, c, n) # p
  <2>1. Times(w, l, c, n + 1, p) = Times(w, l, c, n, p) BY <1>1, <1>3, Zenon DEF Times
  <2>. QED BY <2>1, <1>3
<1>. QED BY <1>2, <1>3

LEMMA ChecksumSteps ==
  ASSUME NEW w, NEW l, NEW c, NEW n \in Nat,
         Service!Copied(w, l, c, n) \in 0 .. PAGE_COUNT - 1
  PROVE  Service!Checksum(w, l, c, n + 1)
           = Xor(Service!Checksum(w, l, c, n), Service!Copied(w, l, c, n))
<1>1. \A k : Service!Checksum(w, l, c, k) = {p \in 0 .. PAGE_COUNT - 1 : OddTimes(w, l, c, k, p)}
  BY ChecksumCounts
<1>2. ASSUME NEW p
      PROVE  /\ Service!Copied(w, l, c, n) = p =>
                  (OddTimes(w, l, c, n + 1, p) <=> ~ OddTimes(w, l, c, n, p))
             /\ Service!Copied(w, l, c, n) # p =>
                  (OddTimes(w, l, c, n + 1, p) <=> OddTimes(w, l, c, n, p))
  <2>1. Cardinality(Times(w, l, c, n, p)) \in Nat BY TimesFinite
  <2>2. Cardinality(Times(w, l, c, n + 1, p))
          = IF Service!Copied(w, l, c, n) = p THEN Cardinality(Times(w, l, c, n, p)) + 1
            ELSE Cardinality(Times(w, l, c, n, p))
    BY TimesSteps
  <2>3. CASE Service!Copied(w, l, c, n) = p BY <2>1, <2>2, <2>3 DEF OddTimes
  <2>4. CASE Service!Copied(w, l, c, n) # p BY <2>1, <2>2, <2>4 DEF OddTimes
  <2>. QED BY <2>3, <2>4
<1>. DEFINE x == Service!Copied(w, l, c, n)
            Before == {p \in 0 .. PAGE_COUNT - 1 : OddTimes(w, l, c, n, p)}
            Later == {p \in 0 .. PAGE_COUNT - 1 : OddTimes(w, l, c, n + 1, p)}
<1>3. ASSUME NEW p PROVE p \in Later <=> p \in (Before \ {x}) \cup ({x} \ Before)
  <2>1. CASE p = x BY <2>1, <1>2
  <2>2. CASE p # x BY <2>2, <1>2
  <2>. QED BY <2>1, <2>2
<1>4. Later = (Before \ {x}) \cup ({x} \ Before)
  <2>. HIDE DEF Later, Before, x
  <2>. QED BY <1>3
<1>. QED BY <1>4, <1>1 DEF Xor, SymDiff

LEMMA ChecksumStarts ==
  ASSUME NEW w, NEW l, NEW c
  PROVE  Service!Checksum(w, l, c, 0) = {}
<1>1. ASSUME NEW p PROVE Times(w, l, c, 0, p) = {} BY DEF Times
<1>2. ASSUME NEW p PROVE ~ OddTimes(w, l, c, 0, p)
  BY <1>1, FS_EmptySet DEF OddTimes
<1>. QED BY <1>2, ChecksumCounts

-----------------------------------------------------------------------------
(* What a copy reads and writes *)

LEMMA PayloadTyped ==
  ASSUME NEW c \in Command
  PROVE  /\ c.payload.low \in Nat /\ c.payload.mid \in Nat /\ c.payload.high \in Nat
         /\ c.payload.reserved \in BOOLEAN /\ c.flags \in BOOLEAN /\ c.op \in Opcodes
         /\ c.payload = [low |-> c.payload.low, mid |-> c.payload.mid,
                         high |-> c.payload.high, reserved |-> c.payload.reserved]
BY ChipAssumption

LEMMA SourceInside ==
  ASSUME NEW c \in Command, NEW l, ListGood(l), Service!InRange(c),
         Service!Missing(l, c) = {}, NEW i \in 0 .. c.payload.high - 1
  PROVE  Service!Source(l, c, i) \in 0 .. PAGE_COUNT - 1
<1>1. CASE c.op = "DMA_GATHER"
  <2>1. c.payload.low + i \in DOMAIN l BY <1>1 DEF Service!Missing, Service!Items
  <2>. QED BY <2>1, <1>1 DEF Service!Source, ListGood
<1>2. CASE c.op # "DMA_GATHER"
  <2>1. c.payload.low \in Nat /\ c.payload.high \in Nat /\ PAGE_COUNT \in Nat
    BY PayloadTyped, DmaAssumption
  <2>2. c.payload.low + i \in 0 .. PAGE_COUNT - 1 BY <2>1 DEF Service!InRange
  <2>. QED BY <2>2, <1>2 DEF Service!Source
<1>. QED BY <1>1, <1>2

LEMMA WordInside ==
  ASSUME NEW w, WordsGood(w), NEW p \in 0 .. PAGE_COUNT - 1
  PROVE  Service!Word(w, p) \in 0 .. PAGE_COUNT - 1
BY DEF Service!Word, WordsGood

LEMMA PutInside ==
  ASSUME NEW w, WordsGood(w), NEW p, NEW x \in 0 .. PAGE_COUNT - 1
  PROVE  WordsGood(Service!Put(w, p, [data |-> x, sound |-> TRUE]))
BY DEF Service!Put, WordsGood

\* The slot found missing is the first one.
LEMMA FirstMissing ==
  ASSUME NEW c \in Command, NEW l, NEW i \in 0 .. c.payload.high - 1,
         c.op = "DMA_GATHER", c.payload.low + i \notin DOMAIN l,
         \A k \in 0 .. i - 1 : c.payload.low + k \in DOMAIN l
  PROVE  Service!Missing(l, c) # {} /\ Service!Min(Service!Missing(l, c)) = c.payload.low + i
<1>. DEFINE S == Service!Missing(l, c)
<1>1. S = {c.payload.low + k : k \in 0 .. c.payload.high - 1} \ DOMAIN l
  BY DEF Service!Missing, Service!Items
<1>2. c.payload.low \in Nat /\ c.payload.high \in Nat BY PayloadTyped
<1>3. c.payload.low + i \in S BY <1>1
<1>4. S \in SUBSET Nat BY <1>1, <1>2
<1>5. \A y \in S : c.payload.low + i <= y
  <2>. SUFFICES ASSUME NEW y \in S PROVE c.payload.low + i <= y OBVIOUS
  <2>1. PICK k \in 0 .. c.payload.high - 1 : y = c.payload.low + k /\ y \notin DOMAIN l BY <1>1
  <2>2. ~ k <= i - 1 BY <2>1, <1>2
  <2>. QED BY <2>1, <2>2, <1>2
<1>. HIDE DEF S
<1>6. Service!Min(S) = c.payload.low + i BY <1>3, <1>4, <1>5, FirstOf
<1>. QED BY <1>3, <1>6 DEF S

LEMMA NoneMissing ==
  ASSUME NEW c \in Command, NEW l,
         c.op = "DMA_GATHER" =>
           \A k \in 0 .. c.payload.high - 1 : c.payload.low + k \in DOMAIN l
  PROVE  Service!Missing(l, c) = {}
BY DEF Service!Missing, Service!Items

LEMMA PoisonedIs ==
  ASSUME NEW w, NEW l, NEW c
  PROVE  Service!Poisoned(w, l, c) = {i \in 0 .. c.payload.high - 1 : BadSource(w, l, c, i)}
BY DEF Service!Poisoned, Service!Items, BadSource

\* The item found poisoned is the first one.
LEMMA FirstPoisoned ==
  ASSUME NEW c \in Command, NEW w, NEW l, NEW i \in 0 .. c.payload.high - 1,
         BadSource(w, l, c, i), \A k \in 0 .. i - 1 : ~ BadSource(w, l, c, k)
  PROVE  /\ Service!Poisoned(w, l, c) # {}
         /\ Service!Min(Service!Poisoned(w, l, c)) = i
<1>. DEFINE S == Service!Poisoned(w, l, c)
<1>1. S = {k \in 0 .. c.payload.high - 1 : BadSource(w, l, c, k)} BY PoisonedIs
<1>2. i \in S /\ S \in SUBSET Nat BY <1>1
<1>3. \A y \in S : i <= y BY <1>1, PayloadTyped
<1>. HIDE DEF S
<1>4. Service!Min(S) = i BY <1>2, <1>3, FirstOf
<1>. QED BY <1>2, <1>4 DEF S

LEMMA NonePoisoned ==
  ASSUME NEW c \in Command, NEW w, NEW l,
         \A k \in 0 .. c.payload.high - 1 : ~ BadSource(w, l, c, k)
  PROVE  Service!Poisoned(w, l, c) = {}
BY PoisonedIs

-----------------------------------------------------------------------------
(* The DMA engine at work for a command *)

Copier(s) ==
  /\ s.command \in Command /\ WordsGood(s.words) /\ ListGood(s.list)
  /\ DmaTyped /\ DmaStage(s)

\* The stage at which the machine is when it is neither idle nor done.
LEMMA Underway ==
  ASSUME NEW s, Copier(s), gather.state \in {"VALIDATE", "CHECK_ECC", "COPY"}
  PROVE  /\ dma.state = "WAIT_GATHER" /\ desc = <<>> /\ list = s.list
         /\ UsesGather(s.command.op, s.command.payload)
         /\ GatherStage(s)
BY DEF Copier, DmaStage, GatherIdle

\* What is left to show when only the machine moves.
LEMMA MachineMoves ==
  ASSUME NEW s, Copier(s), gather.state \in {"VALIDATE", "CHECK_ECC", "COPY"},
         UNCHANGED <<dma, desc, list>>, WordsGood(words'),
         \/ /\ gather'.state = "RESPOND"
            /\ Answers(gather.status, gather.result,
                       Service!CopyOutcome(s.words, s.list, s.command))'
         \/ gather'.state \in {"VALIDATE", "CHECK_ECC", "COPY"} /\ GatherStage(s)',
         gather' = [state |-> gather'.state, src |-> gather'.src, dst |-> gather'.dst,
                    length |-> gather'.length, copy_index |-> gather'.copy_index,
                    indirect |-> gather'.indirect, checksum |-> gather'.checksum,
                    status |-> gather'.status, result |-> gather'.result]
  PROVE  Copier(s)'
<1>1. DmaTyped' BY DEF Copier, DmaTyped
<1>2. DmaStage(s)' BY Underway DEF DmaStage
<1>. QED BY <1>1, <1>2 DEF Copier

\* The machine answers that something is wrong, before it has written.
LEMMA MachineRefuses ==
  ASSUME NEW s, Copier(s), gather.state \in {"VALIDATE", "CHECK_ECC"},
         UNCHANGED <<dma, desc, words, list>>, NEW status, NEW result,
         GatherRespond(status, result),
         Service!CopyOutcome(s.words, s.list, s.command)
           = Service!Outcome(status, result, s.words, s.list)
  PROVE  Copier(s)'
<1>1. gather' = [state |-> "RESPOND", src |-> gather.src, dst |-> gather.dst,
                 length |-> gather.length, copy_index |-> gather.copy_index,
                 indirect |-> gather.indirect, checksum |-> gather.checksum,
                 status |-> status, result |-> result]
  BY DEF GatherRespond, Copier, DmaTyped
<1>2. words = s.words /\ list = s.list BY Underway DEF GatherStage
<1>3. Answers(gather.status, gather.result, Service!CopyOutcome(s.words, s.list, s.command))'
  BY <1>1, <1>2 DEF Answers, Service!Outcome
<1>4. WordsGood(words') BY DEF Copier, DmaTyped
<1>. QED BY <1>1, <1>3, <1>4, MachineMoves

LEMMA FetchStage ==
  ASSUME NEW s, Copier(s), Fetch
  PROVE  Copier(s)'
<1>. DEFINE c == s.command
            p == s.command.payload
            d == Head(desc)
<1>1. /\ dma.state = "WAIT_FETCH" /\ UsesGather(c.op, p) /\ list = s.list
      /\ words = s.words /\ gather = GatherIdle
      /\ desc = <<[src |-> p.low, dst |-> p.mid, length |-> p.high,
                   indirect |-> c.op = "DMA_GATHER"]>>
  BY DEF Copier, DmaStage, Fetch
<1>2. /\ d.src = p.low /\ d.dst = p.mid /\ d.length = p.high
      /\ d.indirect = (c.op = "DMA_GATHER") /\ desc' = <<>>
  BY <1>1 DEF Fetch
<1>3. words' = words /\ list' = list /\ dma' = [dma EXCEPT !.state = "WAIT_GATHER"]
  BY DEF Fetch
<1>4. dma' = [state |-> "WAIT_GATHER", status |-> dma.status, result |-> dma.result]
  BY <1>3 DEF Copier, DmaTyped
<1>5. p.high # 0 /\ p.low \in Nat /\ p.mid \in Nat /\ p.high \in Nat
  BY <1>1, PayloadTyped DEF UsesGather, Copier
<1>6. CASE ~ Service!InRange(c)
  <2>1. GatherRespond("DMA_RANGE", Zero)
    BY <1>2, <1>6 DEF Fetch, Service!InRange
  <2>2. gather' = [GatherIdle EXCEPT !.state = "RESPOND", !.status = "DMA_RANGE", !.result = Zero]
    BY <2>1, <1>1 DEF GatherRespond
  <2>3. Service!CopyOutcome(s.words, s.list, c)
          = Service!Outcome("DMA_RANGE", Service!Zero, s.words, s.list)
    BY <1>5, <1>6 DEF Service!CopyOutcome
  <2>4. Answers(gather.status, gather.result, Service!CopyOutcome(s.words, s.list, c))'
    BY <2>2, <2>3, <1>1, <1>3
    DEF Answers, Service!Outcome, Service!Zero, Zero, GatherIdle
  <2>5. gather'.state = "RESPOND" BY <2>2 DEF GatherIdle
  <2>6. DmaStage(s)' BY <2>4, <2>5, <1>1, <1>2, <1>3, <1>4 DEF DmaStage
  <2>7. DmaTyped' BY <2>2, <1>3, <1>4 DEF DmaTyped, Copier, GatherIdle
  <2>. QED BY <2>6, <2>7 DEF Copier
<1>7. CASE Service!InRange(c)
  <2>. DEFINE g(indirect) ==
         [GatherIdle EXCEPT !.state = IF indirect THEN "VALIDATE" ELSE "CHECK_ECC",
                            !.src = p.low, !.dst = p.mid, !.length = p.high,
                            !.indirect = indirect]
  <2>1. gather' = g(d.indirect)
    <3>1. ~ (p.low + p.high > PAGE_COUNT) /\ ~ (p.mid + p.high > PAGE_COUNT)
      BY <1>5, <1>7, DmaAssumption DEF Service!InRange
    <3>2. ~ (d.src + d.length > PAGE_COUNT) /\ ~ (d.dst + d.length > PAGE_COUNT)
      BY <3>1, <1>2, Zenon
    <3>. QED BY <3>2, <1>2 DEF Fetch
  <2>2. /\ gather'.src = p.low /\ gather'.dst = p.mid /\ gather'.length = p.high
        /\ gather'.copy_index = 0 /\ gather'.checksum = {}
        /\ c.op = "DMA_GATHER" => gather'.state = "VALIDATE" /\ gather'.indirect = TRUE
        /\ c.op # "DMA_GATHER" => gather'.state = "CHECK_ECC" /\ gather'.indirect = FALSE
    <3>1. CASE c.op = "DMA_GATHER"
      <4>1. d.indirect = TRUE BY <3>1, <1>2, Zenon
      <4>. QED BY <3>1, <4>1, <2>1 DEF GatherIdle
    <3>2. CASE c.op # "DMA_GATHER"
      <4>1. d.indirect = FALSE BY <3>2, <1>2, Zenon
      <4>. QED BY <3>2, <4>1, <2>1 DEF GatherIdle
    <3>. QED BY <3>1, <3>2
  <2>3. c.op # "DMA_GATHER" => Service!Missing(s.list, c) = {} BY DEF Service!Missing
  <2>. HIDE DEF g
  <2>. DEFINE i == gather'.copy_index
  <2>4. i \in 0 .. p.high - 1 /\ \A k \in 0 .. i - 1 : FALSE BY <2>2, <1>5
  <2>5. words' = s.words /\ list' = s.list BY <1>1, <1>3
  <2>6. GatherStage(s)' /\ gather'.state \in {"VALIDATE", "CHECK_ECC"}
    <3>1. CASE c.op = "DMA_GATHER"
      BY <3>1, <2>2, <2>4, <2>5, <1>7 DEF GatherStage
    <3>2. CASE c.op # "DMA_GATHER"
      BY <3>2, <2>2, <2>3, <2>4, <2>5, <1>7 DEF GatherStage
    <3>. QED BY <3>1, <3>2
  <2>7. DmaStage(s)' BY <2>6, <1>1, <1>2, <1>3, <1>4 DEF DmaStage
  <2>8. DmaTyped' BY <2>1, <1>3, <1>4 DEF DmaTyped, Copier, GatherIdle, g
  <2>. QED BY <2>7, <2>8 DEF Copier
<1>. QED BY <1>6, <1>7

\* One item of a phase: its index moves, or the next phase starts.
LEMMA AdvanceMoves ==
  ASSUME DmaTyped, NEW next, Advance(next)
  PROVE  /\ gather' = [state |-> gather'.state, src |-> gather.src, dst |-> gather.dst,
                       length |-> gather.length, copy_index |-> gather'.copy_index,
                       indirect |-> gather.indirect, checksum |-> gather.checksum,
                       status |-> gather.status, result |-> gather.result]
         /\ \/ /\ gather.copy_index = gather.length - 1
               /\ gather'.state = next /\ gather'.copy_index = 0
            \/ /\ gather.copy_index # gather.length - 1
               /\ gather'.state = gather.state /\ gather'.copy_index = gather.copy_index + 1
<1>. DEFINE G(st, i) == [state |-> st, src |-> gather.src, dst |-> gather.dst,
                         length |-> gather.length, copy_index |-> i,
                         indirect |-> gather.indirect, checksum |-> gather.checksum,
                         status |-> gather.status, result |-> gather.result]
<1>1. CASE gather.copy_index = gather.length - 1
  <2>1. gather' = G(next, 0) BY <1>1 DEF Advance, DmaTyped
  <2>. QED BY <2>1, <1>1
<1>2. CASE gather.copy_index # gather.length - 1
  <2>1. gather' = G(gather.state, gather.copy_index + 1) BY <1>2 DEF Advance, DmaTyped
  <2>. QED BY <2>1, <1>2
<1>. QED BY <1>1, <1>2

LEMMA ValidateStage ==
  ASSUME NEW s, Copier(s), ValidateSlot
  PROVE  Copier(s)'
<1>. DEFINE c == s.command
            p == s.command.payload
            i == gather.copy_index
<1>1. gather.state = "VALIDATE" /\ gather.state \in {"VALIDATE", "CHECK_ECC", "COPY"}
  BY DEF ValidateSlot
<1>2. /\ UNCHANGED <<dma, desc, words, list>> /\ WordsGood(words') /\ words = s.words
      /\ list = s.list /\ UsesGather(c.op, p) /\ GatherStage(s) /\ gather.checksum = {}
  BY <1>1, Underway DEF ValidateSlot, GatherStage, Copier, DmaTyped
<1>3. p.high \in Nat /\ p.low \in Nat /\ p.high # 0 /\ c \in Command
  BY <1>2, PayloadTyped DEF UsesGather, Copier
<1>4. /\ c.op = "DMA_GATHER" /\ i \in 0 .. p.high - 1 /\ ListIndex = p.low + i
      /\ \A k \in 0 .. i - 1 : p.low + k \in DOMAIN s.list
      /\ gather.length = p.high /\ Service!InRange(c)
  BY <1>1, <1>2 DEF GatherStage, ListIndex
<1>5. CASE ListIndex \in DOMAIN list
  <2>1. Advance("CHECK_ECC") BY <1>5 DEF ValidateSlot
  <2>2. \A k \in 0 .. i : p.low + k \in DOMAIN s.list
    BY <1>2, <1>3, <1>4, <1>5
  <2>3. CASE i = gather.length - 1
    <3>1. gather'.state = "CHECK_ECC" /\ gather'.copy_index = 0
          /\ gather'.src = gather.src /\ gather'.dst = gather.dst
          /\ gather'.length = gather.length /\ gather'.indirect = gather.indirect
          /\ gather'.checksum = {}
      BY <2>1, <2>3, <1>2, AdvanceMoves DEF Copier
    <3>2. Service!Missing(s.list, c) = {}
      BY <2>2, <2>3, <1>3, <1>4, NoneMissing
    <3>3. 0 \in 0 .. p.high - 1 /\ \A k \in 0 .. 0 - 1 : FALSE BY <1>3
    <3>4. GatherStage(s)' BY <3>1, <3>2, <3>3, <1>2 DEF GatherStage
    <3>. QED BY <3>1, <3>4, <2>1, <1>1, <1>2, MachineMoves, AdvanceMoves DEF Copier
  <2>4. CASE i # gather.length - 1
    <3>1. gather'.state = "VALIDATE" /\ gather'.copy_index = i + 1
          /\ gather'.src = gather.src /\ gather'.dst = gather.dst
          /\ gather'.length = gather.length /\ gather'.indirect = gather.indirect
          /\ gather'.checksum = {}
      BY <2>1, <2>4, <1>1, <1>2, AdvanceMoves DEF Copier
    <3>2. i + 1 \in 0 .. p.high - 1 /\ (i + 1) - 1 = i BY <2>4, <1>3, <1>4
    <3>4. GatherStage(s)' BY <3>1, <3>2, <2>2, <1>2, <1>4 DEF GatherStage
    <3>. QED BY <3>1, <3>4, <2>1, <1>1, <1>2, MachineMoves, AdvanceMoves DEF Copier
  <2>. QED BY <2>3, <2>4
<1>6. CASE ListIndex \notin DOMAIN list
  <2>1. GatherRespond("DMA_INDEX_MISS", <<"slot", ListIndex>>) BY <1>6 DEF ValidateSlot
  <2>2. Service!Missing(s.list, c) # {} /\ Service!Min(Service!Missing(s.list, c)) = p.low + i
    BY <1>2, <1>3, <1>4, <1>6, FirstMissing
  <2>3. Service!CopyOutcome(s.words, s.list, c)
          = Service!Outcome("DMA_INDEX_MISS", <<"slot", ListIndex>>, s.words, s.list)
    BY <2>2, <1>3, <1>4 DEF Service!CopyOutcome
  <2>. QED BY <2>1, <2>3, <1>1, <1>2, MachineRefuses
<1>. QED BY <1>5, <1>6

LEMMA CheckStage ==
  ASSUME NEW s, Copier(s), CheckEcc
  PROVE  Copier(s)'
<1>. DEFINE c == s.command
            p == s.command.payload
            i == gather.copy_index
<1>1. gather.state = "CHECK_ECC" /\ gather.state \in {"VALIDATE", "CHECK_ECC", "COPY"}
  BY DEF CheckEcc
<1>2. /\ UNCHANGED <<dma, desc, words, list>> /\ WordsGood(words') /\ words = s.words
      /\ list = s.list /\ UsesGather(c.op, p) /\ GatherStage(s) /\ gather.checksum = {}
  BY <1>1, Underway DEF CheckEcc, GatherStage, Copier, DmaTyped
<1>3. p.high \in Nat /\ p.low \in Nat /\ p.high # 0 /\ c \in Command
  BY <1>2, PayloadTyped DEF UsesGather, Copier
<1>4. /\ Service!Missing(s.list, c) = {} /\ i \in 0 .. p.high - 1
      /\ \A k \in 0 .. i - 1 : ~ BadSource(s.words, s.list, c, k)
      /\ gather.length = p.high /\ Service!InRange(c)
  BY <1>1, <1>2 DEF GatherStage
<1>5. SelectedSource = Service!Source(s.list, c, i)
  BY <1>2 DEF GatherStage, SelectedSource, ListIndex, Service!Source
<1>6. Corrupt(SelectedSource) <=> BadSource(s.words, s.list, c, i)
  BY <1>2, <1>5 DEF Corrupt, BadSource
<1>7. CASE ~ Corrupt(SelectedSource)
  <2>1. Advance("COPY") BY <1>7 DEF CheckEcc
  <2>2. \A k \in 0 .. i : ~ BadSource(s.words, s.list, c, k)
    BY <1>3, <1>4, <1>6, <1>7
  <2>3. CASE i = gather.length - 1
    <3>1. gather'.state = "COPY" /\ gather'.copy_index = 0
          /\ gather'.src = gather.src /\ gather'.dst = gather.dst
          /\ gather'.length = gather.length /\ gather'.indirect = gather.indirect
          /\ gather'.checksum = {}
      BY <2>1, <2>3, <1>2, AdvanceMoves DEF Copier
    <3>2. Service!Poisoned(s.words, s.list, c) = {}
      BY <2>2, <2>3, <1>3, <1>4, NonePoisoned
    <3>3. 0 \in 0 .. p.high - 1 BY <1>3
    <3>4. Service!After(s.words, s.list, c)[0] = s.words
          /\ Service!Checksum(s.words, s.list, c, 0) = {}
      BY <1>3, AfterSteps, ChecksumStarts
    <3>5. GatherStage(s)' BY <3>1, <3>2, <3>3, <3>4, <1>2, <1>4 DEF GatherStage
    <3>. QED BY <3>1, <3>5, <2>1, <1>1, <1>2, MachineMoves, AdvanceMoves DEF Copier
  <2>4. CASE i # gather.length - 1
    <3>1. gather'.state = "CHECK_ECC" /\ gather'.copy_index = i + 1
          /\ gather'.src = gather.src /\ gather'.dst = gather.dst
          /\ gather'.length = gather.length /\ gather'.indirect = gather.indirect
          /\ gather'.checksum = {}
      BY <2>1, <2>4, <1>1, <1>2, AdvanceMoves DEF Copier
    <3>2. i + 1 \in 0 .. p.high - 1 /\ (i + 1) - 1 = i BY <2>4, <1>3, <1>4
    <3>3. GatherStage(s)' BY <3>1, <3>2, <2>2, <1>2, <1>4 DEF GatherStage
    <3>. QED BY <3>1, <3>3, <2>1, <1>1, <1>2, MachineMoves, AdvanceMoves DEF Copier
  <2>. QED BY <2>3, <2>4
<1>8. CASE Corrupt(SelectedSource)
  <2>1. GatherRespond("DMA_ECC", <<"page", SelectedSource>>) BY <1>8 DEF CheckEcc
  <2>2. Service!Poisoned(s.words, s.list, c) # {}
        /\ Service!Min(Service!Poisoned(s.words, s.list, c)) = i
    BY <1>3, <1>4, <1>6, <1>8, FirstPoisoned
  <2>3. Service!CopyOutcome(s.words, s.list, c)
          = Service!Outcome("DMA_ECC", <<"page", SelectedSource>>, s.words, s.list)
    BY <2>2, <1>3, <1>4, <1>5 DEF Service!CopyOutcome
  <2>. QED BY <2>1, <2>3, <1>1, <1>2, MachineRefuses
<1>. QED BY <1>7, <1>8

LEMMA CopyStage ==
  ASSUME NEW s, Copier(s), CopyWord
  PROVE  Copier(s)'
<1>. DEFINE c == s.command
            p == s.command.payload
            i == gather.copy_index
            W(k) == Service!After(s.words, s.list, c)[k]
            S(k) == Service!Checksum(s.words, s.list, c, k)
            x == Service!Copied(s.words, s.list, c, i)
<1>1. gather.state = "COPY" /\ gather.state \in {"VALIDATE", "CHECK_ECC", "COPY"}
  BY DEF CopyWord
<1>2. /\ UNCHANGED <<dma, desc, list>> /\ WordsGood(words) /\ ListGood(s.list)
      /\ list = s.list /\ UsesGather(c.op, p) /\ GatherStage(s)
  BY <1>1, Underway DEF CopyWord, Copier, DmaTyped
<1>3. p.high \in Nat /\ p.low \in Nat /\ p.mid \in Nat /\ p.high # 0 /\ c \in Command
  BY <1>2, PayloadTyped DEF UsesGather, Copier
<1>4. /\ Service!Missing(s.list, c) = {} /\ Service!Poisoned(s.words, s.list, c) = {}
      /\ i \in 0 .. p.high - 1 /\ words = W(i) /\ gather.checksum = S(i)
      /\ gather.length = p.high /\ gather.dst = p.mid /\ Service!InRange(c)
  BY <1>1, <1>2 DEF GatherStage
<1>5. SelectedSource = Service!Source(s.list, c, i) /\ Destination = p.mid + i
  BY <1>2, <1>4 DEF GatherStage, SelectedSource, ListIndex, Destination, Service!Source
<1>6. Word(SelectedSource) = x
  BY <1>4, <1>5 DEF Word, Service!Word, Service!Copied
<1>7. x \in 0 .. PAGE_COUNT - 1
  <2>1. Service!Source(s.list, c, i) \in 0 .. PAGE_COUNT - 1
    BY <1>2, <1>3, <1>4, SourceInside
  <2>. QED BY <2>1, <1>2, <1>4, WordInside DEF Service!Copied
<1>8. words' = Service!Put(words, p.mid + i, [data |-> x, sound |-> TRUE])
  BY <1>5, <1>6 DEF CopyWord, Service!Put
<1>9. WordsGood(words') BY <1>2, <1>7, <1>8, PutInside
<1>10. words' = W(i + 1)
  <2>1. W(i + 1) = Service!Put(W(i), p.mid + (i + 1) - 1, [data |-> x, sound |-> TRUE])
    BY <1>3, <1>4, AfterSteps
  <2>2. p.mid + (i + 1) - 1 = p.mid + i BY <1>3, <1>4
  <2>. QED BY <2>1, <2>2, <1>4, <1>8
<1>11. Xor(gather.checksum, Word(SelectedSource)) = S(i + 1)
  BY <1>3, <1>4, <1>6, <1>7, ChecksumSteps
<1>. DEFINE G(st, k, status, result) ==
       [state |-> st, src |-> gather.src, dst |-> gather.dst, length |-> gather.length,
        copy_index |-> k, indirect |-> gather.indirect, checksum |-> S(i + 1),
        status |-> status, result |-> result]
<1>. HIDE DEF W, S, x
<1>12. CASE i = gather.length - 1
  <2>1. gather' = G("RESPOND", i, "OK", <<"checksum", S(i + 1)>>)
    BY <1>11, <1>12 DEF CopyWord, Copier, DmaTyped
  <2>2. i + 1 = p.high BY <1>3, <1>4, <1>12
  <2>3. Service!CopyOutcome(s.words, s.list, c)
          = Service!Outcome("OK", <<"checksum", S(i + 1)>>, W(i + 1), s.list)
    BY <2>2, <1>3, <1>4 DEF Service!CopyOutcome, W, S
  <2>4. Answers(gather.status, gather.result, Service!CopyOutcome(s.words, s.list, c))'
    BY <2>1, <2>3, <1>2, <1>10 DEF Answers, Service!Outcome
  <2>. QED BY <2>1, <2>4, <1>1, <1>2, <1>9, MachineMoves
<1>13. CASE i # gather.length - 1
  <2>1. gather' = G("COPY", i + 1, gather.status, gather.result)
    BY <1>1, <1>11, <1>13 DEF CopyWord, Copier, DmaTyped
  <2>2. i + 1 \in 0 .. p.high - 1 BY <1>3, <1>4, <1>13
  <2>3. GatherStage(s)' BY <2>1, <2>2, <1>2, <1>4, <1>10 DEF GatherStage, W, S
  <2>. QED BY <2>1, <2>3, <1>1, <1>2, <1>9, MachineMoves
<1>. QED BY <1>12, <1>13

LEMMA CollectStage ==
  ASSUME NEW s, Copier(s), Collect
  PROVE  Copier(s)'
<1>1. /\ dma.state = "WAIT_GATHER" /\ gather.state = "RESPOND" /\ desc = <<>>
      /\ UsesGather(s.command.op, s.command.payload)
      /\ Answers(gather.status, gather.result,
                 Service!CopyOutcome(s.words, s.list, s.command))
  BY DEF Collect, Copier, DmaStage
<1>2. /\ dma' = [state |-> "RESPOND", status |-> gather.status, result |-> gather.result]
      /\ gather' = GatherIdle /\ UNCHANGED <<desc, words, list>>
  BY DEF Collect, DmaRespond
<1>3. Service!DmaOutcome(s.words, s.list, s.command)
        = Service!CopyOutcome(s.words, s.list, s.command)
  BY <1>1 DEF UsesGather, Copies, Service!DmaOutcome, Service!Copying
<1>4. Answers(dma.status, dma.result, Service!DmaOutcome(s.words, s.list, s.command))'
  BY <1>1, <1>2, <1>3 DEF Answers
<1>5. DmaStage(s)' BY <1>1, <1>2, <1>4 DEF DmaStage
<1>6. DmaTyped' BY <1>2 DEF Copier, DmaTyped, GatherIdle
<1>. QED BY <1>5, <1>6 DEF Copier

LEMMA WorkStage ==
  ASSUME NEW s, Copier(s), DmaWorks
  PROVE  Copier(s)'
BY FetchStage, ValidateStage, CheckStage, CopyStage, CollectStage DEF DmaWorks

-----------------------------------------------------------------------------
(* An engine takes a command *)

LEMMA DmaTakes ==
  ASSUME NEW s, s.command \in Command, s.words = words, s.list = list, IsDma(s.command),
         DmaTyped, dma = DmaIdle, desc = <<>>, gather = GatherIdle,
         DmaRequest(s.command.op, s.command.payload)
  PROVE  Copier(s)'
<1>. DEFINE c == s.command
            p == s.command.payload
            o == Service!DmaOutcome(s.words, s.list, c)
<1>1. p.low \in Nat /\ p.mid \in Nat /\ p.high \in Nat /\ PAGE_COUNT \in Nat
      /\ WordsGood(s.words) /\ ListGood(s.list)
  BY PayloadTyped, DmaAssumption DEF DmaTyped
<1>2. CASE SubmitDescriptor(c.op, p)
  <2>1. dma' = [state |-> "WAIT_FETCH", status |-> dma.status, result |-> dma.result]
        /\ desc' = <<[src |-> p.low, dst |-> p.mid, length |-> p.high,
                      indirect |-> c.op = "DMA_GATHER"]>>
        /\ UsesGather(c.op, p) /\ UNCHANGED <<gather, words, list>>
    BY <1>2 DEF SubmitDescriptor, DmaIdle
  <2>2. DmaStage(s)' BY <2>1 DEF DmaStage
  <2>3. DmaTyped' BY <2>1 DEF DmaTyped
  <2>. QED BY <2>2, <2>3, <1>1 DEF Copier
<1>3. ASSUME NEW status, NEW result, DmaRespond(status, result), UNCHANGED <<desc, gather>>,
             o = Service!Outcome(status, result, words', list'),
             WordsGood(words'), ListGood(list')
      PROVE  Copier(s)'
  <2>1. dma' = [state |-> "RESPOND", status |-> status, result |-> result]
    BY <1>3 DEF DmaRespond
  <2>2. Answers(dma.status, dma.result, Service!DmaOutcome(s.words, s.list, c))'
    BY <2>1, <1>3 DEF Answers, Service!Outcome
  <2>3. DmaStage(s)' BY <2>1, <2>2, <1>3 DEF DmaStage
  <2>4. DmaTyped' BY <2>1, <1>3 DEF DmaTyped
  <2>. QED BY <2>3, <2>4, <1>1 DEF Copier
<1>. DEFINE Refused(status) == o = Service!Outcome(status, Payload(p), words, list)
<1>4. CASE RefuseDma(c.op, p)
  <2>1. UNCHANGED <<desc, gather, words, list>> BY <1>4 DEF RefuseDma
  <2>2. CASE p.reserved /\ DmaRespond("DMA_RESERVED_BITS", Payload(p))
    <3>1. Refused("DMA_RESERVED_BITS")
      BY <2>2 DEF Service!DmaOutcome, Service!Same, Payload
    <3>. QED BY <3>1, <2>1, <2>2, <1>1, <1>3
  <2>3. CASE /\ ~ p.reserved /\ Copies(c.op) /\ p.high = 0
             /\ DmaRespond("DMA_ZERO_LENGTH", Payload(p))
    <3>1. Refused("DMA_ZERO_LENGTH")
      BY <2>3 DEF Service!DmaOutcome, Service!CopyOutcome, Service!Copying, Copies,
                  Service!Same, Payload
    <3>. QED BY <3>1, <2>1, <2>3, <1>1, <1>3
  <2>4. CASE /\ ~ p.reserved /\ c.op = "DMA_INDEX_WRITE" /\ p.mid >= PAGE_COUNT
             /\ DmaRespond("DMA_RANGE", Payload(p))
    <3>1. Refused("DMA_RANGE")
      BY <2>4 DEF Service!DmaOutcome, Service!IndexOutcome, Service!Copying,
                  Service!Same, Payload
    <3>. QED BY <3>1, <2>1, <2>4, <1>1, <1>3
  <2>5. CASE /\ ~ p.reserved /\ c.op = "DMA_ECC_INJECT" /\ p.low >= PAGE_COUNT
             /\ DmaRespond("DMA_RANGE", Payload(p))
    <3>1. Refused("DMA_RANGE")
      BY <2>5 DEF Service!DmaOutcome, Service!EccOutcome, Service!Copying,
                  Service!Same, Payload
    <3>. QED BY <3>1, <2>1, <2>5, <1>1, <1>3
  <2>. QED BY <1>4, <2>2, <2>3, <2>4, <2>5 DEF RefuseDma
<1>5. CASE IndexWrite(c.op, p)
  <2>1. /\ c.op = "DMA_INDEX_WRITE" /\ ~ p.reserved /\ ~ p.mid >= PAGE_COUNT
        /\ list' = Service!Put(list, p.low, p.mid)
        /\ DmaRespond("OK", Payload(p)) /\ UNCHANGED <<desc, gather, words>>
    BY <1>1, <1>5 DEF IndexWrite, Service!Put
  <2>2. o = Service!Outcome("OK", Payload(p), words', list')
    BY <2>1 DEF Service!DmaOutcome, Service!IndexOutcome, Service!Copying,
                Service!Same, Payload
  <2>3. ListGood(list') BY <2>1, <1>1 DEF ListGood, Service!Put
  <2>. QED BY <2>1, <2>2, <2>3, <1>1, <1>3
<1>6. CASE EccInject(c.op, p)
  <2>1. /\ c.op = "DMA_ECC_INJECT" /\ ~ p.reserved /\ ~ p.low >= PAGE_COUNT
        /\ words' = [q \in DOMAIN words |-> IF q = p.low THEN [words[q] EXCEPT !.sound = ~ @]
                                            ELSE words[q]]
        /\ DmaRespond("OK", Payload(p)) /\ UNCHANGED <<desc, gather, list>>
    BY <1>1, <1>6 DEF EccInject
  <2>2. o = Service!Outcome("OK", Payload(p), words', list')
    BY <2>1 DEF Service!DmaOutcome, Service!EccOutcome, Service!Copying,
                Service!Same, Payload
  <2>3. WordsGood(words') BY <2>1, <1>1 DEF WordsGood
  <2>. QED BY <2>1, <2>2, <2>3, <1>1, <1>3
<1>. QED BY <1>2, <1>4, <1>5, <1>6 DEF DmaRequest

LEMMA KvTakes ==
  ASSUME NEW s, s.command \in Command, IsKv(s.command),
         s.pages = pages, s.words = words, s.list = list,
         UNCHANGED <<words, list>>, KvRequest(s.command)
  PROVE  KvStage(s)'
<1>. DEFINE c == s.command
            v == s.command.payload.low
            f == s.command.payload.mid
            o == Service!KvOutcome(s.pages, c)
            Answered(status, frame, reserved) ==
              /\ reply' = <<[status |-> status,
                             result |-> [virt |-> v, frame |-> frame, reserved |-> reserved]]>>
              /\ o = [status |-> status, kv |-> pages',
                      result |-> <<"mapping", [virt |-> v, frame |-> frame,
                                               reserved |-> reserved]>>]
<1>1. \E status, frame, reserved : Answered(status, frame, reserved)
  <2>. USE DEF Service!KvOutcome, Kv!Reply, Kv!PayloadOf, Kv!Mapped
  <2>1. c.payload.reserved \in BOOLEAN /\ KV_MMU_ENTRIES \in Nat BY PayloadTyped, ChipAssumption
  <2>2. CASE c.payload.reserved /\ Kv!RefusePayload(v, f)
    <3>1. c.payload.reserved = TRUE BY <2>1, <2>2
    <3>2. Answered("KV_RESERVED_BITS", f, TRUE) BY <2>2, <3>1 DEF Kv!RefusePayload
    <3>. QED BY <3>2
  <2>3. Kv!Cardinality(DOMAIN pages) = Service!Cardinality(DOMAIN pages)
    BY DEF Kv!Cardinality, Service!Cardinality
  <2>4. CASE ~ c.payload.reserved
    <3>0. c.payload.reserved = FALSE BY <2>1, <2>4
    <3>1. CASE c.op = "KV_MAP" /\ Kv!Map(v, f)
      <4>1. Answered("OK", f, FALSE)
        BY <3>0, <3>1, <2>3 DEF Kv!Map, Kv!Extended, Service!Put
      <4>. QED BY <4>1
    <3>2. CASE c.op = "KV_MAP" /\ Kv!RefuseMap(v, f)
      <4>1. ~ (v \in DOMAIN s.pages \/ Service!Cardinality(DOMAIN s.pages) < KV_MMU_ENTRIES)
        BY <3>2, <2>1, <2>3 DEF Kv!RefuseMap
      <4>2. Answered("KV_FULL", f, FALSE) BY <3>0, <3>2, <4>1 DEF Kv!RefuseMap
      <4>. QED BY <4>2
    <3>3. CASE c.op = "KV_TRANSLATE" /\ Kv!Translate(v)
      <4>1. CASE v \in DOMAIN pages
        <5>1. Answered("OK", pages[v], FALSE) BY <3>0, <3>3, <4>1 DEF Kv!Translate
        <5>. QED BY <5>1
      <4>2. CASE v \notin DOMAIN pages
        <5>1. Answered("KV_MISS", 0, FALSE) BY <3>0, <3>3, <4>2 DEF Kv!Translate
        <5>. QED BY <5>1
      <4>. QED BY <4>1, <4>2
    <3>. QED BY <2>4, <3>1, <3>2, <3>3 DEF KvRequest
  <2>. QED BY <2>2, <2>4 DEF KvRequest
<1>2. PICK status, frame, reserved : Answered(status, frame, reserved) BY <1>1
<1>3. /\ pages' = o.kv /\ Len(reply') = 1 /\ reply'[1].status = o.status
      /\ <<"mapping", reply'[1].result>> = o.result /\ reply'[1].result.virt = v
  BY <1>2
<1>. QED BY <1>3 DEF KvStage

-----------------------------------------------------------------------------
(* The queue *)

LEMMA Enqueued ==
  ASSUME ChipTyped, NEW rest \in Seq(Command), Len(rest) <= CMD_QUEUE_DEPTH,
         EnqueueWith(rest)
  PROVE  /\ queue' \in Seq(Command) /\ Len(queue') <= CMD_QUEUE_DEPTH
         /\ queue' = rest \/ \E c \in Command : queue' = Append(rest, c)
<1>1. CASE queue' = rest BY <1>1
<1>2. CASE \E c \in workload : Len(rest) < CMD_QUEUE_DEPTH /\ queue' = Append(rest, c)
  <2>1. PICK c \in Command : Len(rest) < CMD_QUEUE_DEPTH /\ queue' = Append(rest, c)
    BY <1>2 DEF ChipTyped
  <2>. QED BY <2>1, ChipAssumption
<1>. QED BY <1>1, <1>2 DEF EnqueueWith

LEMMA HeadAndTail ==
  ASSUME ChipTyped, queue # <<>>
  PROVE  /\ Head(queue) \in Command /\ Tail(queue) \in Seq(Command)
         /\ Len(Tail(queue)) <= CMD_QUEUE_DEPTH /\ Len(Tail(queue)) = Len(queue) - 1
         /\ queue = <<Head(queue)>> \o Tail(queue)
BY ChipAssumption DEF ChipTyped

-----------------------------------------------------------------------------
(* The invariant holds *)

LEMMA StageKept ==
  ASSUME NEW s, EngineStage(s), UNCHANGED <<state, dmaVars, kvVars, attn>>
  PROVE  EngineStage(s)'
BY DEF EngineStage, KvStage, AttnStage, DmaStage, GatherStage, Answers, dmaVars, kvVars

LEMMA TypedKept ==
  ASSUME ChipTyped, UNCHANGED <<workload, rsp, counts, dmaVars>>,
         state' \in {"IDLE", "RESPOND"} \cup Waits,
         queue' \in Seq(Command) /\ Len(queue') <= CMD_QUEUE_DEPTH
  PROVE  ChipTyped'
BY DEF ChipTyped, DmaTyped, dmaVars

LEMMA InitInv == Init => ChipInv
<1>. SUFFICES ASSUME Init PROVE ChipInv OBVIOUS
<1>1. DmaTyped BY DEF Init, DmaInit, DmaTyped, DmaIdle, GatherIdle, WordsGood, ListGood
<1>2. ChipTyped BY <1>1, ChipAssumption DEF Init, ChipTyped, ZeroRsp
<1>3. EnginesRest /\ UnderWay BY DEF Init, DmaInit, EnginesRest, UnderWay, Kv!Init, Waits
<1>. QED BY <1>2, <1>3 DEF ChipInv

LEMMA ResetInv ==
  ASSUME ChipInv, Reset
  PROVE  ChipInv'
<1>1. DmaTyped'
  BY DEF Reset, DmaReset, DmaTyped, DmaIdle, GatherIdle, WordsGood, ListGood
<1>2. counts' \in [accepted : Nat, completed : Nat, errors : Nat, fault_overflows : Nat]
  BY DEF Reset, ChipInv, ChipTyped
<1>3. ChipTyped' BY <1>1, <1>2, ChipAssumption DEF Reset, ChipInv, ChipTyped, ZeroRsp
<1>4. EnginesRest' /\ UnderWay'
  BY DEF Reset, DmaReset, EnginesRest, UnderWay, Kv!Reset, Waits
<1>. QED BY <1>3, <1>4 DEF ChipInv

\* A step that leaves the command under way alone.
LEMMA RestInv ==
  ASSUME ChipInv, UNCHANGED <<workload, state, rsp, counts, dmaVars, kvVars, attn, at>>,
         queue' = queue \/ EnqueueWith(queue)
  PROVE  ChipInv'
<1>1. queue' \in Seq(Command) /\ Len(queue') <= CMD_QUEUE_DEPTH
  BY Enqueued DEF ChipInv, ChipTyped
<1>2. ChipTyped' BY <1>1, TypedKept DEF ChipInv, ChipTyped
<1>3. EnginesRest' BY DEF ChipInv, EnginesRest, dmaVars, kvVars
<1>4. UnderWay'
  <2>1. CASE state \in Waits
    <3>1. PICK s : at = <<s>> /\ Held(s) /\ EngineStage(s) BY <2>1 DEF ChipInv, UnderWay
    <3>2. EngineStage(s)' BY <3>1, StageKept
    <3>3. Held(s)' BY <3>1 DEF Held
    <3>. QED BY <2>1, <3>1, <3>2, <3>3 DEF UnderWay
  <2>2. CASE state \notin Waits BY <2>2 DEF ChipInv, UnderWay
  <2>. QED BY <2>1, <2>2
<1>. QED BY <1>2, <1>3, <1>4 DEF ChipInv

LEMMA RetireInv ==
  ASSUME ChipInv, Retire
  PROVE  ChipInv'
<1>1. queue' \in Seq(Command) /\ Len(queue') <= CMD_QUEUE_DEPTH
  BY Enqueued DEF ChipInv, ChipTyped, Retire
<1>2. DmaTyped' BY DEF ChipInv, ChipTyped, DmaTyped, Retire, dmaVars
<1>3. counts' \in [accepted : Nat, completed : Nat, errors : Nat, fault_overflows : Nat]
  BY DEF Retire, ChipInv, ChipTyped
<1>4. ChipTyped' BY <1>1, <1>2, <1>3 DEF ChipInv, ChipTyped, Retire, ZeroRsp
<1>5. EnginesRest' BY DEF ChipInv, EnginesRest, Retire, dmaVars, kvVars
<1>6. UnderWay' BY DEF ChipInv, UnderWay, Retire, Waits
<1>. QED BY <1>4, <1>5, <1>6 DEF ChipInv

\* The DMA engine is at work only for the command under way.
LEMMA WorksFor ==
  ASSUME ChipInv, DmaWorks \/ dma.state # "IDLE" \/ gather.state # "IDLE"
  PROVE  state = "WAIT_DMA"
BY DEF ChipInv, EnginesRest, DmaIdle, GatherIdle, DmaWorks, Fetch, ValidateSlot, CheckEcc,
       CopyWord, Collect

LEMMA WorksInv ==
  ASSUME ChipInv, EngineWorks
  PROVE  ChipInv'
<1>1. state = "WAIT_DMA" /\ state \in Waits BY WorksFor DEF EngineWorks, Waits
<1>2. PICK s : at = <<s>> /\ Held(s) /\ EngineStage(s) BY <1>1 DEF ChipInv, UnderWay
<1>3. Copier(s) BY <1>1, <1>2 DEF Held, EngineStage, Copier, ChipInv, ChipTyped
<1>4. Copier(s)' BY <1>3, WorkStage DEF EngineWorks
<1>5. queue' \in Seq(Command) /\ Len(queue') <= CMD_QUEUE_DEPTH
  BY Enqueued DEF ChipInv, ChipTyped, EngineWorks
<1>6. ChipTyped' BY <1>4, <1>5 DEF ChipInv, ChipTyped, EngineWorks, Copier, stubVars
<1>7. EnginesRest' BY <1>1 DEF ChipInv, EnginesRest, EngineWorks, stubVars, kvVars
<1>8. EngineStage(s)' BY <1>1, <1>2, <1>4 DEF EngineStage, Copier, EngineWorks, stubVars, kvVars
<1>9. Held(s)' BY <1>2 DEF Held, EngineWorks, stubVars
<1>10. UnderWay' BY <1>1, <1>2, <1>8, <1>9 DEF UnderWay, EngineWorks, stubVars
<1>. QED BY <1>6, <1>7, <1>10 DEF ChipInv

LEMMA AnswersInv ==
  ASSUME ChipInv, EngineAnswers
  PROVE  ChipInv'
<1>1. queue' \in Seq(Command) /\ Len(queue') <= CMD_QUEUE_DEPTH
  BY Enqueued DEF ChipInv, ChipTyped, EngineAnswers
<1>2. \E overflows \in Nat : \E status, result : RespondWith(status, result, overflows)
  <2>1. CASE KvAnswers BY <2>1, Zenon DEF KvAnswers
  <2>2. CASE DmaAnswers BY <2>2 DEF DmaAnswers
  <2>3. CASE AttnAnswers BY <2>3 DEF AttnAnswers
  <2>. QED BY <2>1, <2>2, <2>3 DEF EngineAnswers
<1>3. /\ state' = "RESPOND" /\ at' = <<>>
      /\ rsp' = [id |-> rsp'.id, status |-> rsp'.status, result |-> rsp'.result]
      /\ counts' \in [accepted : Nat, completed : Nat, errors : Nat, fault_overflows : Nat]
  <2>1. PICK overflows \in Nat : \E status, result : RespondWith(status, result, overflows)
    BY <1>2
  <2>2. PICK status, result : RespondWith(status, result, overflows) BY <2>1
  <2>3. rsp' = [id |-> rsp.id, status |-> status, result |-> result]
    BY <2>2 DEF RespondWith, ChipInv, ChipTyped
  <2>4. counts' \in [accepted : Nat, completed : Nat, errors : Nat, fault_overflows : Nat]
    <3>. DEFINE e == IF status = "OK" THEN counts.errors ELSE counts.errors + 1
    <3>1. counts \in [accepted : Nat, completed : Nat, errors : Nat, fault_overflows : Nat]
      BY DEF ChipInv, ChipTyped
    <3>2. e \in Nat BY <3>1
    <3>3. counts' = [counts EXCEPT !.errors = e, !.fault_overflows = @ + overflows]
      BY <2>2 DEF RespondWith
    <3>. HIDE DEF e
    <3>4. counts' = [accepted |-> counts.accepted, completed |-> counts.completed,
                     errors |-> e, fault_overflows |-> counts.fault_overflows + overflows]
      BY <3>1, <3>3
    <3>5. /\ counts.accepted \in Nat /\ counts.completed \in Nat
          /\ counts.fault_overflows + overflows \in Nat
      BY <3>1
    <3>. QED BY <3>2, <3>4, <3>5
  <2>. QED BY <2>2, <2>3, <2>4 DEF RespondWith
<1>4. DmaTyped' /\ EnginesRest'
  <2>1. CASE KvAnswers
    BY <2>1, <1>3 DEF KvAnswers, Kv!Take, ChipInv, ChipTyped, DmaTyped, EnginesRest, dmaVars
  <2>2. CASE DmaAnswers
    <3>1. state = "WAIT_DMA" /\ state \in Waits BY <2>2 DEF DmaAnswers, Waits
    <3>2. PICK s : EngineStage(s) BY <3>1 DEF ChipInv, UnderWay
    <3>3. desc = <<>> /\ gather = GatherIdle
      BY <2>2, <3>1, <3>2 DEF EngineStage, DmaStage, DmaAnswers, DmaTaken
    <3>. QED BY <2>2, <3>1, <3>3, <1>3
         DEF DmaAnswers, DmaTaken, ChipInv, ChipTyped, DmaTyped, EnginesRest, DmaIdle, kvVars
  <2>3. CASE AttnAnswers
    BY <2>3, <1>3 DEF AttnAnswers, ChipInv, ChipTyped, DmaTyped, EnginesRest, dmaVars, kvVars
  <2>. QED BY <2>1, <2>2, <2>3 DEF EngineAnswers
<1>5. ChipTyped' BY <1>1, <1>3, <1>4 DEF ChipInv, ChipTyped, EngineAnswers
<1>6. UnderWay' BY <1>3 DEF UnderWay, Waits
<1>. QED BY <1>4, <1>5, <1>6 DEF ChipInv

\* Only a command for an engine starts one.
LEMMA StateAfterIs ==
  ASSUME NEW c \in Command
  PROVE  /\ StateAfter(c) = "WAIT_KV" <=> ~ c.flags /\ IsKv(c)
         /\ StateAfter(c) = "WAIT_DMA" <=> ~ c.flags /\ IsDma(c)
         /\ StateAfter(c) = "WAIT_ATTN" <=> ~ c.flags /\ IsAttn(c)
         /\ StateAfter(c) \in {"RESPOND"} \cup Waits
BY PayloadTyped DEF StateAfter, IsKv, IsDma, IsAttn, Waits

LEMMA AcceptInv ==
  ASSUME ChipInv, AcceptCommand
  PROVE  ChipInv'
<1>. DEFINE c == Head(queue)
<1>1. c \in Command /\ queue' \in Seq(Command) /\ Len(queue') <= CMD_QUEUE_DEPTH
  BY Enqueued, HeadAndTail DEF ChipInv, AcceptCommand
<1>2. /\ state = "IDLE" /\ state \notin Waits /\ at = <<>>
      /\ dma = DmaIdle /\ desc = <<>> /\ gather = GatherIdle /\ reply = <<>> /\ attn = <<>>
  BY DEF AcceptCommand, Waits, ChipInv, UnderWay, EnginesRest
<1>3. /\ state' = StateAfter(c) /\ Engines(c)
      /\ rsp' = [id |-> c.id, status |-> StatusOf(c), result |-> Decoded(c).result]
      /\ at' = IF StateAfter(c) = "RESPOND" THEN <<>> ELSE <<Snapshot(c)>>
      /\ UNCHANGED workload
  BY DEF AcceptCommand
<1>4. counts' \in [accepted : Nat, completed : Nat, errors : Nat, fault_overflows : Nat]
  <2>. DEFINE e == IF StatusOf(c) = "OK" THEN counts.errors ELSE counts.errors + 1
  <2>1. counts \in [accepted : Nat, completed : Nat, errors : Nat, fault_overflows : Nat]
    BY DEF ChipInv, ChipTyped
  <2>2. e \in Nat BY <2>1
  <2>3. counts' = [counts EXCEPT !.accepted = @ + 1, !.errors = e] BY DEF AcceptCommand
  <2>. HIDE DEF e
  <2>4. counts' = [accepted |-> counts.accepted + 1, completed |-> counts.completed,
                   errors |-> e, fault_overflows |-> counts.fault_overflows]
    BY <2>1, <2>3
  <2>5. /\ counts.accepted + 1 \in Nat /\ counts.completed \in Nat
        /\ counts.fault_overflows \in Nat
    BY <2>1
  <2>. QED BY <2>2, <2>4, <2>5
<1>5. PICK s : s = Snapshot(c) OBVIOUS
<1>6. /\ s.command = c /\ s.pages = pages /\ s.words = words /\ s.list = list
      /\ DmaTyped /\ WordsGood(s.words) /\ ListGood(s.list)
  BY <1>5 DEF Snapshot, ChipInv, ChipTyped, DmaTyped
<1>. HIDE DEF c
<1>7. /\ StateAfter(c) \in {"RESPOND"} \cup Waits
      /\ StateAfter(c) # "WAIT_KV" => UNCHANGED kvVars
      /\ StateAfter(c) # "WAIT_DMA" => UNCHANGED dmaVars
      /\ StateAfter(c) # "WAIT_ATTN" => UNCHANGED attn
  BY <1>1, <1>3, StateAfterIs DEF Engines
<1>8. DmaTyped'
  <2>1. CASE StateAfter(c) = "WAIT_DMA"
    <3>1. Copier(s)'
      BY <2>1, <1>1, <1>2, <1>3, <1>6, StateAfterIs, DmaTakes DEF Engines
    <3>. QED BY <3>1 DEF Copier
  <2>2. CASE StateAfter(c) # "WAIT_DMA" BY <2>2, <1>6, <1>7 DEF DmaTyped, dmaVars
  <2>. QED BY <2>1, <2>2
<1>9. ChipTyped' BY <1>1, <1>3, <1>4, <1>7, <1>8 DEF ChipInv, ChipTyped
<1>10. EnginesRest' BY <1>2, <1>3, <1>7 DEF EnginesRest, kvVars, dmaVars
<1>11. UnderWay'
  <2>1. CASE StateAfter(c) = "RESPOND" BY <2>1, <1>3 DEF UnderWay, Waits
  <2>2. CASE StateAfter(c) \in Waits
    <3>1. at' = <<s>> /\ state' \in Waits BY <2>2, <1>3, <1>5 DEF Waits
    <3>2. Held(s)' BY <2>2, <1>1, <1>3, <1>6, StateAfterIs DEF Held, Waits
    <3>3. EngineStage(s)'
      <4>1. CASE StateAfter(c) = "WAIT_KV"
        <5>1. KvStage(s)'
          BY <4>1, <1>1, <1>3, <1>6, <1>7, StateAfterIs, KvTakes DEF Engines, dmaVars
        <5>. QED BY <5>1, <4>1, <1>3 DEF EngineStage
      <4>2. CASE StateAfter(c) = "WAIT_DMA"
        <5>1. Copier(s)'
          BY <4>2, <1>1, <1>2, <1>3, <1>6, StateAfterIs, DmaTakes DEF Engines
        <5>. QED BY <5>1, <4>2, <1>3, <1>6, <1>7 DEF EngineStage, Copier, kvVars
      <4>3. CASE StateAfter(c) = "WAIT_ATTN"
        <5>1. AttnStage(s)'
          BY <4>3, <1>1, <1>3, <1>6, <1>7, StateAfterIs
          DEF Engines, AttnStage, kvVars, dmaVars
        <5>. QED BY <5>1, <4>3, <1>3 DEF EngineStage
      <4>. QED BY <2>2, <4>1, <4>2, <4>3 DEF Waits
    <3>. QED BY <3>1, <3>2, <3>3 DEF UnderWay
  <2>. QED BY <2>1, <2>2, <1>7
<1>. QED BY <1>9, <1>10, <1>11 DEF ChipInv

LEMMA NextInv == ChipInv /\ [Next]_vars => ChipInv'
<1>. SUFFICES ASSUME ChipInv, [Next]_vars PROVE ChipInv' OBVIOUS
<1>1. CASE HostOnly BY <1>1, RestInv DEF HostOnly, stubVars
<1>2. CASE UNCHANGED vars BY <1>2, RestInv DEF vars, hostVars, stubVars
<1>. QED BY <1>1, <1>2, AcceptInv, AnswersInv, WorksInv, RetireInv, ResetInv DEF Next, ChipWorks

-----------------------------------------------------------------------------
(* The service's variables, in the chip *)

Waiting == (IF at # <<>> THEN <<at[1].command>> ELSE <<>>) \o queue
Shown == IF state = "RESPOND" THEN <<rsp>> ELSE <<>>
Counts == [counts EXCEPT !.accepted = @ - Len(at)]
Memory ==
  << IF at # <<>> THEN at[1].pages ELSE pages, faults,
     IF at # <<>> THEN at[1].words ELSE words, IF at # <<>> THEN at[1].list ELSE list >>

LEMMA CountsAre ==
  ASSUME ChipTyped
  PROVE  Counts = [accepted |-> counts.accepted - Len(at), completed |-> counts.completed,
                   errors |-> counts.errors, fault_overflows |-> counts.fault_overflows]
BY DEF Counts, ChipTyped

LEMMA CountsPrimed ==
  ASSUME ChipTyped'
  PROVE  Counts' = [accepted |-> counts'.accepted - Len(at'), completed |-> counts'.completed,
                    errors |-> counts'.errors, fault_overflows |-> counts'.fault_overflows]
BY DEF Counts, ChipTyped

LEMMA Comes ==
  ASSUME NEW rest, Len(Waiting') + Len(Shown') <= CMD_QUEUE_DEPTH + 1,
         Waiting' = rest \/ \E c \in Command : Waiting' = Append(rest, c)
  PROVE  Service!Come(rest)
BY DEF Service!Come, Waiting, Shown

LEMMA SeqFacts ==
  /\ \A q \in Seq(Command) : <<>> \o q = q
  /\ \A q \in Seq(Command), c \in Command :
       /\ Len(<<c>> \o q) = Len(q) + 1 /\ <<c>> \o q # <<>>
       /\ Head(<<c>> \o q) = c /\ Tail(<<c>> \o q) = q
  /\ \A q \in Seq(Command), c, d \in Command :
       <<c>> \o Append(q, d) = Append(<<c>> \o q, d)
<1>1. ASSUME NEW q \in Seq(Command) PROVE <<>> \o q = q OBVIOUS
<1>2. ASSUME NEW q \in Seq(Command), NEW c \in Command
      PROVE  /\ Len(<<c>> \o q) = Len(q) + 1 /\ <<c>> \o q # <<>>
             /\ Head(<<c>> \o q) = c /\ Tail(<<c>> \o q) = q
  OBVIOUS
<1>3. ASSUME NEW q \in Seq(Command), NEW c \in Command, NEW d \in Command
      PROVE  <<c>> \o Append(q, d) = Append(<<c>> \o q, d)
  OBVIOUS
<1>. QED BY <1>1, <1>2, <1>3

\* Nothing but the queue has moved, as the service sees it.
LEMMA Arrives ==
  ASSUME ChipInv, ChipInv', EnqueueWith(queue), at' = at, Shown' = Shown, Memory' = Memory, Counts' = Counts
  PROVE  Service!Arrive
<1>. DEFINE front == IF at # <<>> THEN <<at[1].command>> ELSE <<>>
<1>1. queue \in Seq(Command) /\ queue' \in Seq(Command) /\ Len(queue') <= CMD_QUEUE_DEPTH
      /\ Len(queue') \in Nat /\ CMD_QUEUE_DEPTH \in Nat
  BY ChipAssumption DEF ChipInv, ChipTyped
<1>2. Waiting = front \o queue /\ Waiting' = front \o queue' BY DEF Waiting
<1>3. queue' = queue \/ \E c \in Command : queue' = Append(queue, c)
  BY <1>1, Enqueued DEF ChipInv, ChipTyped
<1>4. \/ front = <<>>
      \/ state' # "RESPOND" /\ \E c \in Command : front = <<c>>
  <2>1. CASE state' \in Waits
    <3>1. PICK s : at' = <<s>> /\ Held(s)' BY <2>1 DEF ChipInv, UnderWay
    <3>2. at # <<>> /\ at[1] = s /\ s.command \in Command BY <3>1 DEF Held
    <3>. QED BY <2>1, <3>2 DEF Waits
  <2>2. CASE state' \notin Waits BY <2>2 DEF ChipInv, UnderWay
  <2>. QED BY <2>1, <2>2
<1>. HIDE DEF front
<1>5. Waiting' = Waiting \/ \E c \in Command : Waiting' = Append(Waiting, c)
  <2>1. CASE front = <<>>
    <3>1. Waiting = queue /\ Waiting' = queue' BY <2>1, <1>1, <1>2, SeqFacts
    <3>. QED BY <3>1, <1>3
  <2>2. CASE \E c \in Command : front = <<c>>
    <3>1. PICK c \in Command : front = <<c>> BY <2>2
    <3>2. CASE queue' = queue BY <3>2, <1>2
    <3>3. CASE \E d \in Command : queue' = Append(queue, d)
      <4>1. PICK d \in Command : queue' = Append(queue, d) BY <3>3
      <4>2. <<c>> \o queue' = Append(<<c>> \o queue, d) BY <4>1, <1>1, SeqFacts
      <4>. QED BY <3>1, <4>2, <1>2
    <3>. QED BY <3>2, <3>3, <1>3
  <2>. QED BY <2>1, <2>2, <1>4
<1>6. Len(Waiting') + Len(Shown') <= CMD_QUEUE_DEPTH + 1
  <2>1. CASE front = <<>>
    <3>1. Waiting' = queue' /\ Len(Shown') <= 1 /\ Len(Shown') \in Nat
      BY <2>1, <1>1, <1>2, SeqFacts DEF Shown
    <3>. QED BY <3>1, <1>1
  <2>2. CASE state' # "RESPOND" /\ \E c \in Command : front = <<c>>
    <3>1. Len(Waiting') = Len(queue') + 1 /\ Len(Shown') = 0
      BY <2>2, <1>1, <1>2, SeqFacts DEF Shown
    <3>. QED BY <3>1, <1>1
  <2>. QED BY <2>1, <2>2, <1>4
<1>7. Service!Come(Waiting) BY <1>5, <1>6, Comes
<1>. QED BY <1>7 DEF Service!Arrive, Service!memory, Waiting, Shown, Memory, Counts

LEMMA WorksMaps ==
  ASSUME ChipInv, ChipInv', EngineWorks
  PROVE  Service!Arrive
<1>1. state = "WAIT_DMA" /\ state \in Waits BY WorksFor DEF EngineWorks, Waits
<1>2. at # <<>>
  <2>1. PICK s : at = <<s>> BY <1>1 DEF ChipInv, UnderWay
  <2>. QED BY <2>1
<1>3. UNCHANGED <<at, state, rsp, counts, faults>> /\ EnqueueWith(queue)
  BY DEF EngineWorks, stubVars
<1>4. Shown' = Shown /\ Memory' = Memory /\ Counts' = Counts
  BY <1>2, <1>3 DEF Shown, Memory, Counts
<1>. QED BY <1>3, <1>4, Arrives

LEMMA HostMaps ==
  ASSUME ChipInv, ChipInv', HostOnly
  PROVE  Service!Arrive
<1>1. UNCHANGED <<at, state, rsp, counts, faults, pages, words, list>> /\ EnqueueWith(queue)
  BY DEF HostOnly, stubVars, kvVars, dmaVars
<1>2. Shown' = Shown /\ Memory' = Memory /\ Counts' = Counts
  BY <1>1 DEF Shown, Memory, Counts
<1>. QED BY <1>1, <1>2, Arrives

\* Without a command under way the service's memories are the chip's.
LEMMA MemoryRests ==
  /\ at = <<>> => Memory = <<pages, faults, words, list>>
  /\ at' = <<>> => Memory' = <<pages', faults', words', list'>>
BY DEF Memory

LEMMA RetireMaps ==
  ASSUME ChipInv, ChipInv', Retire
  PROVE  Service!Deliver
<1>1. /\ state = "RESPOND" /\ state' = "IDLE" /\ at = <<>> /\ at' = <<>>
      /\ UNCHANGED <<faults, pages, words, list>> /\ EnqueueWith(queue)
      /\ counts' = [counts EXCEPT !.completed = @ + 1]
  BY DEF Retire, ChipInv, UnderWay, Waits, kvVars, dmaVars
<1>2. Shown = <<rsp>> /\ Shown' = <<>> /\ Len(Shown') = 0 BY <1>1 DEF Shown
<1>3. Memory' = Memory BY <1>1, MemoryRests
<1>4. Counts' = [Counts EXCEPT !.completed = @ + 1]
  <2>1. /\ counts'.accepted = counts.accepted /\ counts'.completed = counts.completed + 1
        /\ counts'.errors = counts.errors /\ counts'.fault_overflows = counts.fault_overflows
    BY <1>1 DEF ChipInv, ChipTyped
  <2>2. Counts' = [accepted |-> counts'.accepted - Len(at'), completed |-> counts'.completed,
                   errors |-> counts'.errors, fault_overflows |-> counts'.fault_overflows]
    BY CountsPrimed DEF ChipInv
  <2>. QED BY <2>1, <2>2, <1>1, CountsAre DEF ChipInv
<1>5. Service!Come(Waiting)
  <2>1. queue \in Seq(Command) /\ queue' \in Seq(Command) /\ Len(queue') <= CMD_QUEUE_DEPTH
        /\ CMD_QUEUE_DEPTH \in Nat
    BY ChipAssumption DEF ChipInv, ChipTyped
  <2>2. Waiting = queue /\ Waiting' = queue' BY <1>1, <2>1, SeqFacts DEF Waiting
  <2>3. queue' = queue \/ \E c \in Command : queue' = Append(queue, c)
    BY <1>1, <2>1, Enqueued DEF ChipInv, ChipTyped
  <2>. QED BY <2>1, <2>2, <2>3, <1>2, Comes
<1>. QED BY <1>2, <1>3, <1>4, <1>5 DEF Service!Deliver, Service!memory, Shown, Memory, Counts, Waiting

LEMMA ResetMaps ==
  ASSUME ChipInv, Reset
  PROVE  Service!Reset
<1>1. /\ queue' = <<>> /\ at' = <<>> /\ state' = "IDLE" /\ faults' = <<>>
      /\ pages' = [v \in {} |-> 0] /\ words' = [p \in {} |-> 0] /\ list' = [s \in {} |-> 0]
      /\ counts' = [c \in DOMAIN counts |-> 0]
  BY DEF Reset, DmaReset, Kv!Reset
<1>2. Waiting' = <<>> /\ Shown' = <<>> /\ Memory' = <<pages', faults', words', list'>>
  <2>1. Waiting' = <<>> \o <<>> /\ Shown' = <<>> BY <1>1 DEF Waiting, Shown
  <2>2. <<>> \o <<>> = <<>> OBVIOUS
  <2>. QED BY <2>1, <2>2, <1>1, MemoryRests
<1>3. Counts' = [c \in DOMAIN Counts |-> 0]
  <2>1. counts' = [accepted |-> 0, completed |-> 0, errors |-> 0, fault_overflows |-> 0]
    BY <1>1 DEF ChipInv, ChipTyped
  <2>2. Counts' = [accepted |-> 0, completed |-> 0, errors |-> 0, fault_overflows |-> 0]
    BY <2>1, <1>1 DEF Counts
  <2>3. DOMAIN Counts = {"accepted", "completed", "errors", "fault_overflows"}
    BY CountsAre DEF ChipInv
  <2>. QED BY <2>2, <2>3
<1>. QED BY <1>1, <1>2, <1>3 DEF Service!Reset, Waiting, Shown, Memory, Counts

LEMMA InitMaps == Init => Service!Init
<1>. SUFFICES ASSUME Init PROVE Service!Init OBVIOUS
<1>1. /\ queue = <<>> /\ at = <<>> /\ state = "IDLE" /\ faults = <<>>
      /\ pages = [v \in {} |-> 0] /\ words = [p \in {} |-> 0] /\ list = [s \in {} |-> 0]
      /\ counts = [accepted |-> 0, completed |-> 0, errors |-> 0, fault_overflows |-> 0]
  BY DEF Init, DmaInit, Kv!Init
<1>2. <<>> \o <<>> = <<>> OBVIOUS
<1>3. [counts EXCEPT !.accepted = @ - Len(at)]
        = [accepted |-> 0, completed |-> 0, errors |-> 0, fault_overflows |-> 0]
  BY <1>1
<1>. QED BY <1>1, <1>2, <1>3 DEF Service!Init

-----------------------------------------------------------------------------
(* An answer is the whole of a command, carried out now *)

LEMMA AnswerMaps ==
  ASSUME ChipTyped, ChipTyped', NEW c, NEW status, NEW result, NEW overflows \in Nat,
         state' = "RESPOND", at' = <<>>, Len(at) \in Nat,
         rsp' = [id |-> c.id, status |-> status, result |-> result],
         counts'.accepted = counts.accepted - Len(at) + 1,
         counts'.completed = counts.completed,
         counts'.errors = IF status = "OK" THEN counts.errors ELSE counts.errors + 1,
         counts'.fault_overflows = counts.fault_overflows + overflows
  PROVE  Service!AnswerCounting(c, status, result, overflows)
<1>1. Shown' = <<[id |-> c.id, status |-> status, result |-> result]>> BY DEF Shown
<1>. DEFINE e == IF status = "OK" THEN counts.errors ELSE counts.errors + 1
<1>2. Counts' = [accepted |-> counts.accepted - Len(at) + 1, completed |-> counts.completed,
                 errors |-> e, fault_overflows |-> counts.fault_overflows + overflows]
  <2>1. Counts' = [accepted |-> counts'.accepted - Len(at'), completed |-> counts'.completed,
                   errors |-> counts'.errors, fault_overflows |-> counts'.fault_overflows]
    BY CountsPrimed
  <2>2. Len(at') = 0 OBVIOUS
  <2>3. counts'.accepted - Len(at') = counts.accepted - Len(at) + 1
    BY <2>2 DEF ChipTyped
  <2>. QED BY <2>1, <2>3
<1>3. Counts = [accepted |-> counts.accepted - Len(at), completed |-> counts.completed,
                errors |-> counts.errors, fault_overflows |-> counts.fault_overflows]
  BY CountsAre
<1>4. Counts' = [Counts EXCEPT !.accepted = @ + 1,
                               !.errors = IF status = "OK" THEN @ ELSE @ + 1,
                               !.fault_overflows = @ + overflows]
  <2>1. /\ Counts.accepted = counts.accepted - Len(at) /\ Counts.errors = counts.errors
        /\ Counts.fault_overflows = counts.fault_overflows
    BY <1>3
  <2>2. e = IF status = "OK" THEN Counts.errors ELSE Counts.errors + 1 BY <2>1, Zenon
  <2>. HIDE DEF e
  <2>3. [Counts EXCEPT !.accepted = @ + 1, !.errors = e, !.fault_overflows = @ + overflows]
          = [accepted |-> counts.accepted - Len(at) + 1, completed |-> counts.completed,
             errors |-> e, fault_overflows |-> counts.fault_overflows + overflows]
    <3>. DEFINE R(a, x, o) == [accepted |-> a, completed |-> counts.completed,
                               errors |-> x, fault_overflows |-> o]
                A == Counts.accepted
                X == Counts.errors
                O == Counts.fault_overflows
    <3>1. Counts = R(A, X, O) BY <1>3, <2>1
    <3>. HIDE DEF A, X, O
    <3>2. /\ [R(A, X, O) EXCEPT !.accepted = A + 1] = R(A + 1, X, O)
          /\ [R(A + 1, X, O) EXCEPT !.errors = e] = R(A + 1, e, O)
          /\ [R(A + 1, e, O) EXCEPT !.fault_overflows = O + overflows]
               = R(A + 1, e, O + overflows)
      OBVIOUS
    <3>. HIDE DEF R
    <3>3. [[[Counts EXCEPT !.accepted = A + 1] EXCEPT !.errors = e]
             EXCEPT !.fault_overflows = O + overflows] = R(A + 1, e, O + overflows)
      BY <3>1, <3>2, Zenon
    <3>. QED BY <3>3, <2>1, Zenon DEF R, A, O
  <2>. QED BY <1>2, <2>2, <2>3
<1>. QED BY <1>1, <1>4 DEF Service!AnswerCounting, Shown, Counts

LEMMA RespondMaps ==
  ASSUME ChipTyped, ChipTyped', NEW s, at = <<s>>, Held(s),
         NEW status, NEW result, NEW overflows \in Nat, RespondWith(status, result, overflows)
  PROVE  Service!AnswerCounting(s.command, status, result, overflows)
<1>1. rsp' = [id |-> s.command.id, status |-> status, result |-> result]
  BY DEF RespondWith, ChipTyped, Held
<1>2. Len(at) = 1 /\ at' = <<>> /\ state' = "RESPOND" BY DEF RespondWith
<1>3. /\ counts'.accepted = counts.accepted /\ counts'.completed = counts.completed
      /\ counts'.errors = IF status = "OK" THEN counts.errors ELSE counts.errors + 1
      /\ counts'.fault_overflows = counts.fault_overflows + overflows
  BY DEF RespondWith, ChipTyped
<1>4. counts'.accepted = counts.accepted - Len(at) + 1 BY <1>2, <1>3 DEF ChipTyped
<1>. QED BY <1>1, <1>2, <1>3, <1>4, AnswerMaps

\* The command at the front is carried out; what waits moves up, and one more
\* may come.
LEMMA Executes ==
  ASSUME NEW c \in Command, NEW rest \in Seq(Command), Waiting = <<c>> \o rest,
         Shown = <<>>, Len(Shown') = 1, Service!CarryOut(c),
         ChipInv', at' = <<>>,
         queue' = rest \/ \E d \in Command : queue' = Append(rest, d)
  PROVE  Service!Execute
<1>1. queue' \in Seq(Command) /\ Len(queue') <= CMD_QUEUE_DEPTH /\ CMD_QUEUE_DEPTH \in Nat
      /\ Len(queue') \in Nat
  BY ChipAssumption DEF ChipInv, ChipTyped
<1>2. Waiting' = queue' BY <1>1, SeqFacts DEF Waiting
<1>3. Service!Come(rest) BY <1>1, <1>2, Comes
<1>4. Waiting # <<>> /\ Head(Waiting) = c /\ Tail(Waiting) = rest BY SeqFacts
<1>. QED BY <1>3, <1>4 DEF Service!Execute, Waiting, Shown

LEMMA HeldMemory ==
  ASSUME NEW s, at = <<s>>
  PROVE  /\ (IF at # <<>> THEN at[1].pages ELSE pages) = s.pages
         /\ (IF at # <<>> THEN at[1].words ELSE words) = s.words
         /\ (IF at # <<>> THEN at[1].list ELSE list) = s.list
OBVIOUS

LEMMA FreeMemory ==
  ASSUME at' = <<>>
  PROVE  /\ (IF at # <<>> THEN at[1].pages ELSE pages)' = pages'
         /\ (IF at # <<>> THEN at[1].words ELSE words)' = words'
         /\ (IF at # <<>> THEN at[1].list ELSE list)' = list'
OBVIOUS

LEMMA KvCarried ==
  ASSUME ChipTyped, ChipTyped', NEW s, at = <<s>>, Held(s), EngineStage(s), KvAnswers
  PROVE  Service!CarryOut(s.command)
<1>. DEFINE c == s.command
            o == Service!KvOutcome(s.pages, c)
            r == reply[1]
            full == Len(faults) = FAULT_DEPTH
            lost == IF r.status = "KV_MISS" /\ full THEN 1 ELSE 0
<1>1. /\ IsKv(c) /\ c \in Command /\ ~ c.flags /\ rsp.id = c.id
      /\ words = s.words /\ list = s.list /\ pages = o.kv
      /\ r.status = o.status /\ <<"mapping", r.result>> = o.result
      /\ r.result.virt = c.payload.low
  BY DEF Held, EngineStage, KvStage, KvAnswers
<1>2. UNCHANGED <<pages, words, list>> /\ at' = <<>>
  BY DEF KvAnswers, Kv!Take, dmaVars, RespondWith
<1>3. Service!AnswerCounting(c, o.status, o.result, lost)
  <2>1. RespondWith(o.status, o.result, lost) BY <1>1, Zenon DEF KvAnswers
  <2>2. lost \in Nat OBVIOUS
  <2>. HIDE DEF lost, o
  <2>. QED BY <2>1, <2>2, RespondMaps
<1>4. faults' = IF o.status = "KV_MISS"
                THEN Append(IF full THEN Tail(faults) ELSE faults,
                            [id |-> c.id, page |-> c.payload.low, cause |-> "KV_MISS"])
                ELSE faults
  BY <1>1 DEF KvAnswers, PushFault
<1>5. Service!UseKv(c)
  BY <1>1, <1>2, <1>3, <1>4, HeldMemory, FreeMemory DEF Service!UseKv, IsKv
<1>. QED BY <1>1, <1>5 DEF Service!CarryOut

LEMMA DmaCarried ==
  ASSUME ChipTyped, ChipTyped', NEW s, at = <<s>>, Held(s), EngineStage(s), DmaAnswers
  PROVE  Service!CarryOut(s.command)
<1>. DEFINE c == s.command
            o == Service!DmaOutcome(s.words, s.list, c)
<1>1. /\ IsDma(c) /\ c \in Command /\ ~ c.flags /\ pages = s.pages
      /\ dma.status = o.status /\ dma.result = o.result /\ words = o.words /\ list = o.list
  BY DEF Held, EngineStage, DmaStage, Answers, DmaAnswers, DmaTaken
<1>2. UNCHANGED <<faults, pages, words, list>> /\ at' = <<>>
  BY DEF DmaAnswers, DmaTaken, kvVars, RespondWith
<1>3. Service!Answer(c, o.status, o.result)
  <2>1. RespondWith(o.status, o.result, 0) BY <1>1 DEF DmaAnswers
  <2>. HIDE DEF o
  <2>. QED BY <2>1, RespondMaps DEF Service!Answer
<1>4. Service!UseDma(c)
  BY <1>1, <1>2, <1>3, HeldMemory, FreeMemory DEF Service!UseDma, IsDma
<1>. QED BY <1>1, <1>4 DEF Service!CarryOut

LEMMA AttnCarried ==
  ASSUME ChipTyped, ChipTyped', NEW s, at = <<s>>, Held(s), EngineStage(s), AttnAnswers
  PROVE  Service!CarryOut(s.command)
<1>. DEFINE c == s.command
<1>1. /\ c.op = "ATTN_QK_DOT" /\ c \in Command /\ ~ c.flags
      /\ words = s.words /\ list = s.list /\ pages = s.pages
      /\ attn[1] = c.payload.low * c.payload.mid
  BY DEF Held, EngineStage, AttnStage, AttnAnswers, IsAttn, DotProduct
<1>2. UNCHANGED <<faults, pages, words, list>> /\ at' = <<>>
  BY DEF AttnAnswers, kvVars, dmaVars, RespondWith
<1>3. Service!Answer(c, "OK", <<"dot", c.payload.low * c.payload.mid>>)
  <2>1. RespondWith("OK", <<"dot", c.payload.low * c.payload.mid>>, 0)
    BY <1>1 DEF AttnAnswers
  <2>. QED BY <2>1, RespondMaps DEF Service!Answer
<1>4. UNCHANGED Service!memory
  BY <1>1, <1>2, HeldMemory, FreeMemory DEF Service!memory
<1>5. Service!Plain(c) BY <1>1, <1>3, <1>4 DEF Service!Plain, Service!Refuse
<1>. QED BY <1>1, <1>5 DEF Service!CarryOut

LEMMA AnswersMaps ==
  ASSUME ChipInv, ChipInv', EngineAnswers
  PROVE  Service!Execute
<1>1. state \in Waits BY DEF EngineAnswers, KvAnswers, DmaAnswers, AttnAnswers, Waits
<1>2. PICK s : at = <<s>> /\ Held(s) /\ EngineStage(s) BY <1>1 DEF ChipInv, UnderWay
<1>3. Service!CarryOut(s.command)
  BY <1>2, KvCarried, DmaCarried, AttnCarried DEF EngineAnswers, ChipInv
<1>4. at' = <<>> /\ state' = "RESPOND"
  BY DEF EngineAnswers, KvAnswers, DmaAnswers, AttnAnswers, RespondWith
<1>5. queue \in Seq(Command) /\ (queue' = queue \/ \E d \in Command : queue' = Append(queue, d))
  BY Enqueued DEF ChipInv, ChipTyped, EngineAnswers
<1>6. s.command \in Command /\ Waiting = <<s.command>> \o queue
  BY <1>2 DEF Held, Waiting
<1>7. Shown = <<>> /\ Len(Shown') = 1 BY <1>1, <1>4 DEF Shown, Waits
<1>. QED BY <1>3, <1>4, <1>5, <1>6, <1>7, Executes

\* A command without an engine is carried out as it is taken.
LEMMA ImmediateMaps ==
  ASSUME ChipInv, ChipInv', AcceptCommand, StateAfter(Head(queue)) = "RESPOND"
  PROVE  Service!Execute
<1>. DEFINE c == Head(queue)
<1>1. /\ c \in Command /\ Tail(queue) \in Seq(Command) /\ queue = <<c>> \o Tail(queue)
      /\ queue \in Seq(Command)
      /\ queue' = Tail(queue) \/ \E d \in Command : queue' = Append(Tail(queue), d)
  BY Enqueued, HeadAndTail DEF ChipInv, ChipTyped, AcceptCommand
<1>2. /\ state = "IDLE" /\ at = <<>> /\ state' = "RESPOND" /\ at' = <<>>
      /\ rsp' = [id |-> c.id, status |-> StatusOf(c), result |-> Decoded(c).result]
      /\ counts' = [counts EXCEPT !.accepted = @ + 1,
                                  !.errors = IF StatusOf(c) = "OK" THEN @ ELSE @ + 1]
      /\ PopFault(c)
  BY DEF AcceptCommand, ChipInv, UnderWay, Waits
<1>3. UNCHANGED <<pages, words, list>>
  <2>1. ~ (IsKv(c) /\ ~ c.flags) /\ ~ (IsDma(c) /\ ~ c.flags) BY <1>1, StateAfterIs
  <2>. QED BY <2>1 DEF AcceptCommand, Engines, kvVars, dmaVars
<1>4. Waiting = <<c>> \o Tail(queue) /\ Shown = <<>> /\ Len(Shown') = 1
  BY <1>1, <1>2, SeqFacts DEF Waiting, Shown
<1>. HIDE DEF c
<1>5. /\ counts'.accepted = counts.accepted + 1 /\ counts'.completed = counts.completed
      /\ counts'.errors = IF StatusOf(c) = "OK" THEN counts.errors ELSE counts.errors + 1
      /\ counts'.fault_overflows = counts.fault_overflows
  BY <1>2 DEF ChipInv, ChipTyped
<1>6. Service!Answer(c, StatusOf(c), Decoded(c).result)
  <2>1. Len(at) = 0 BY <1>2
  <2>2. counts'.accepted = counts.accepted - Len(at) + 1
        /\ counts'.fault_overflows = counts.fault_overflows + 0
    BY <2>1, <1>5 DEF ChipInv, ChipTyped
  <2>. QED BY <2>1, <2>2, <1>2, <1>5, AnswerMaps DEF Service!Answer, ChipInv
<1>7. faults' = faults => UNCHANGED Service!memory
  BY <1>2, <1>3 DEF Service!memory
<1>8. CASE c.flags
  <2>1. StatusOf(c) = "UNSUPPORTED_FLAGS" BY <1>8 DEF StatusOf
  <2>2. faults' = faults BY <1>2, <1>8 DEF PopFault
  <2>3. Service!WithFlags(c)
    <3>1. /\ (IF state = "RESPOND" THEN <<rsp>> ELSE <<>>)' # <<>>
          /\ (IF state = "RESPOND" THEN <<rsp>> ELSE <<>>)'[1].result = Decoded(c).result
      BY <1>2
    <3>. QED BY <3>1, <2>1, <2>2, <1>6, <1>7, <1>8 DEF Service!WithFlags, Service!Refuse
  <2>4. Service!CarryOut(c) BY <2>3 DEF Service!CarryOut
  <2>. QED BY <2>4, <1>1, <1>2, <1>4, Executes
<1>9. CASE ~ c.flags
  <2>1. StatusOf(c) = Decoded(c).status BY <1>9 DEF StatusOf
  <2>2. ~ IsKv(c) /\ ~ IsDma(c) /\ ~ IsAttn(c) BY <1>1, <1>2, <1>9, StateAfterIs DEF AcceptCommand, c
  <2>3. c.op \in {"NOP", "ECHO", "OTHER", "GET_COUNTER", "KV_GET_FAULT"}
    BY <2>2, <1>1, PayloadTyped DEF Opcodes, IsKv, IsDma, IsAttn
  <2>4. Service!Zero = Zero /\ Service!Same(c) = Payload(c.payload)
        /\ Service!Counter = Selected
    BY DEF Service!Zero, Zero, Service!Same, Payload, Service!Counter, Selected
  <2>5. c.op # "KV_GET_FAULT" => faults' = faults BY <1>2 DEF PopFault
  <2>6. ASSUME c.op # "KV_GET_FAULT"
        PROVE  Service!Refuse(c, Decoded(c).status, Decoded(c).result)
    BY <2>1, <2>5, <2>6, <1>6, <1>7 DEF Service!Refuse
  <2>7. Service!Plain(c) \/ Service!GetFault(c)
    <3>1. CASE c.op = "NOP"
      <4>1. Decoded(c) = Ok(Zero) BY <3>1 DEF Decoded, IsKv, IsDma, IsAttn
      <4>. QED BY <4>1, <2>4, <2>6, <3>1 DEF Ok, Service!Plain
    <3>2. CASE c.op = "ECHO"
      <4>1. Decoded(c) = Ok(Payload(c.payload)) BY <3>2 DEF Decoded, IsKv, IsDma, IsAttn
      <4>. QED BY <4>1, <2>4, <2>6, <3>2 DEF Ok, Service!Plain
    <3>3. CASE c.op = "OTHER"
      <4>1. Decoded(c) = [status |-> "UNSUPPORTED_OPCODE", result |-> <<"opcode", "OTHER">>]
        BY <3>3 DEF Decoded, IsKv, IsDma, IsAttn
      <4>. QED BY <4>1, <2>6, <3>3 DEF Service!Plain
    <3>4. CASE c.op = "GET_COUNTER"
      <4>. DEFINE n == c.payload.low
      <4>1. CASE n + 1 \in DOMAIN Selected
        <5>1. Decoded(c) = Ok(<<"count", counts[Selected[n + 1]]>>) BY <3>4, <4>1 DEF Decoded, IsKv, IsDma, IsAttn
        <5>2. [counts EXCEPT !.accepted = @ - Len(at)] = counts
          BY <1>2, CountsAre DEF ChipInv, ChipTyped, Counts
        <5>. QED BY <5>1, <5>2, <2>4, <2>6, <3>4, <4>1 DEF Ok, Service!Plain
      <4>2. CASE n + 1 \notin DOMAIN Selected
        <5>1. Decoded(c) = [status |-> "UNSUPPORTED_COUNTER", result |-> <<"counter", n>>]
          BY <3>4, <4>2 DEF Decoded, IsKv, IsDma, IsAttn
        <5>. QED BY <5>1, <2>4, <2>6, <3>4, <4>2 DEF Service!Plain
      <4>. QED BY <4>1, <4>2
    <3>5. CASE c.op = "KV_GET_FAULT"
      <4>1. CASE faults = <<>>
        <5>1. Decoded(c) = [status |-> "FAULT_QUEUE_EMPTY", result |-> Zero]
          BY <3>5, <4>1 DEF Decoded, IsKv, IsDma, IsAttn
        <5>2. faults' = faults BY <4>1, <1>2 DEF PopFault
        <5>3. Service!Refuse(c, "FAULT_QUEUE_EMPTY", Zero)
          BY <5>1, <5>2, <2>1, <1>6, <1>7 DEF Service!Refuse
        <5>. QED BY <5>3, <2>4, <3>5, <4>1 DEF Service!GetFault
      <4>2. CASE faults # <<>>
        <5>1. Decoded(c) = Ok(<<"fault", Head(faults)>>) BY <3>5, <4>2 DEF Decoded, IsKv, IsDma, IsAttn
        <5>2. faults' = Tail(faults) BY <3>5, <4>2, <1>2, <1>9 DEF PopFault
        <5>3. Service!Answer(c, "OK", <<"fault", Head(faults)>>)
          BY <5>1, <2>1, <1>6 DEF Ok
        <5>. QED BY <5>2, <5>3, <3>5, <4>2, <1>2, <1>3 DEF Service!GetFault
      <4>. QED BY <4>1, <4>2
    <3>. QED BY <2>3, <3>1, <3>2, <3>3, <3>4, <3>5
  <2>8. Service!CarryOut(c) BY <2>7, <1>9 DEF Service!CarryOut
  <2>. QED BY <2>8, <1>1, <1>2, <1>4, Executes
<1>. QED BY <1>8, <1>9

\* A command for an engine still waits, as the service sees it.
LEMMA StartMaps ==
  ASSUME ChipInv, ChipInv', AcceptCommand, StateAfter(Head(queue)) # "RESPOND"
  PROVE  Service!Arrive
<1>. DEFINE c == Head(queue)
<1>1. /\ c \in Command /\ Tail(queue) \in Seq(Command) /\ queue = <<c>> \o Tail(queue)
      /\ queue \in Seq(Command) /\ queue' \in Seq(Command) /\ Len(queue') <= CMD_QUEUE_DEPTH
      /\ queue' = Tail(queue) \/ \E d \in Command : queue' = Append(Tail(queue), d)
  BY Enqueued, HeadAndTail DEF ChipInv, ChipTyped, AcceptCommand
<1>2. PICK s : s = Snapshot(c) OBVIOUS
<1>3. /\ state = "IDLE" /\ at = <<>> /\ state' = StateAfter(c) /\ at' = <<s>>
      /\ counts' = [counts EXCEPT !.accepted = @ + 1,
                                  !.errors = IF StatusOf(c) = "OK" THEN @ ELSE @ + 1]
      /\ PopFault(c)
  BY <1>2 DEF AcceptCommand, ChipInv, UnderWay, Waits
<1>4. s.command = c /\ s.pages = pages /\ s.words = words /\ s.list = list
  BY <1>2 DEF Snapshot
<1>5. StateAfter(c) \in Waits /\ ~ c.flags /\ (IsKv(c) \/ IsDma(c) \/ IsAttn(c))
  BY <1>1, StateAfterIs DEF Waits
<1>. HIDE DEF c
<1>6. faults' = faults /\ StatusOf(c) = "OK"
  <2>1. Decoded(c) = Ok(Zero) /\ c.op # "KV_GET_FAULT"
    BY <1>5 DEF Decoded, IsKv, IsDma, IsAttn
  <2>. QED BY <2>1, <1>3, <1>5 DEF PopFault, StatusOf, Ok
<1>7. Memory' = Memory
  <2>1. Memory' = <<s.pages, faults', s.words, s.list>> BY <1>3 DEF Memory
  <2>. QED BY <2>1, <1>3, <1>4, <1>6, MemoryRests
<1>8. Counts' = Counts
  <2>1. /\ counts'.accepted = counts.accepted + 1 /\ counts'.completed = counts.completed
        /\ counts'.errors = counts.errors /\ counts'.fault_overflows = counts.fault_overflows
    BY <1>3, <1>6 DEF ChipInv, ChipTyped
  <2>2. Counts' = [accepted |-> counts'.accepted - Len(at'), completed |-> counts'.completed,
                   errors |-> counts'.errors, fault_overflows |-> counts'.fault_overflows]
    BY CountsPrimed DEF ChipInv
  <2>3. Len(at) = 0 /\ Len(at') = 1 BY <1>3
  <2>4. counts'.accepted - Len(at') = counts.accepted - Len(at)
    BY <2>1, <2>3 DEF ChipInv, ChipTyped
  <2>. QED BY <2>1, <2>2, <2>4, CountsAre DEF ChipInv
<1>9. Shown = <<>> /\ Shown' = <<>> BY <1>3, <1>5 DEF Shown, Waits
<1>10. Service!Come(Waiting)
  <2>1. Waiting = queue /\ Waiting' = <<c>> \o queue'
    BY <1>1, <1>3, <1>4, SeqFacts DEF Waiting
  <2>2. Len(Waiting') + Len(Shown') <= CMD_QUEUE_DEPTH + 1
    <3>1. Len(Waiting') = Len(queue') + 1 /\ Len(queue') \in Nat /\ Len(Shown') = 0
      BY <1>1, <1>9, <2>1, SeqFacts
    <3>. QED BY <3>1, <1>1, ChipAssumption
  <2>3. Waiting' = Waiting \/ \E d \in Command : Waiting' = Append(Waiting, d)
    <3>1. CASE queue' = Tail(queue) BY <3>1, <2>1, <1>1
    <3>2. CASE \E d \in Command : queue' = Append(Tail(queue), d)
      <4>1. PICK d \in Command : queue' = Append(Tail(queue), d) BY <3>2
      <4>2. <<c>> \o Append(Tail(queue), d) = Append(<<c>> \o Tail(queue), d)
        BY <1>1, SeqFacts
      <4>. QED BY <4>1, <4>2, <2>1, <1>1
    <3>. QED BY <3>1, <3>2, <1>1
  <2>. QED BY <2>2, <2>3, Comes
<1>. QED BY <1>7, <1>8, <1>9, <1>10
     DEF Service!Arrive, Service!memory, Waiting, Shown, Memory, Counts

LEMMA NextMaps ==
  ASSUME ChipInv, ChipInv', [Next]_vars
  PROVE  [Service!Next]_(Service!vars)
<1>1. CASE AcceptCommand BY <1>1, ImmediateMaps, StartMaps DEF Service!Next
<1>2. CASE EngineAnswers BY <1>2, AnswersMaps DEF Service!Next
<1>3. CASE EngineWorks BY <1>3, WorksMaps DEF Service!Next
<1>4. CASE Retire BY <1>4, RetireMaps DEF Service!Next
<1>5. CASE HostOnly BY <1>5, HostMaps DEF Service!Next
<1>6. CASE Reset BY <1>6, ResetMaps DEF Service!Next
<1>7. CASE UNCHANGED vars
  BY <1>7 DEF vars, hostVars, stubVars, kvVars, dmaVars, Service!vars, Service!memory
<1>. QED BY <1>1, <1>2, <1>3, <1>4, <1>5, <1>6, <1>7 DEF Next, ChipWorks

-----------------------------------------------------------------------------

\* Whatever the host sends and however the engines' edges fall, the chip is the
\* serial service: answers once each and in order, copies as a whole or not at
\* all, and every miss reported once or counted as lost.
THEOREM ChipServes == Spec => SerialService
<1>1. Spec => []ChipInv
  BY InitInv, NextInv, PTL DEF Spec
<1>2. ChipInv /\ ChipInv' /\ [Next]_vars => [Service!Next]_(Service!vars) BY NextMaps
<1>. QED BY <1>1, <1>2, InitMaps, PTL DEF Spec, SerialService, Service!Spec

=============================================================================

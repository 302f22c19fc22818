--------------------------- MODULE AttentionEngine ---------------------------
(***************************************************************************)
(* The decode attention engine (rtl/attention/rcif_attn_engine.sv) with    *)
(* its mask unit, page reader, dot-product array, online softmax and value *)
(* reduction.                                                              *)
(*                                                                         *)
(* One step is one clock edge, or a reset.  The units are wired in a line, *)
(* each with a register for its answer: reader, dot, result, reduce.  A    *)
(* register is <<>> while it is not valid.  The memories can be written on *)
(* any edge, also while a request runs.                                    *)
(***************************************************************************)
EXTENDS GoldenArithmetic

CONSTANTS
  MAX_PAGES, PAGE_TOKENS, MAX_Q_HEADS, MAX_KV_HEADS,
  ZeroVector,
  KvMemories,     \* what the keys and values may be at power up
  QueryWrites,    \* [head, query]
  PageWrites,     \* [slot, page]
  KvWrites,       \* [place, word], a word being [key, value]
  AttnRequests    \* [query_head, num_query_heads, num_kv_heads, context_tokens,
                  \*  window_start, sink_tokens, explicit_mask]; the mask is the set
                  \*  of the tokens it keeps, in a set, which is empty without one

ASSUME AttentionAssumption ==
  /\ MAX_PAGES \in Nat \ {0} /\ PAGE_TOKENS \in Nat \ {0}
  /\ MAX_Q_HEADS \in Nat \ {0} /\ MAX_KV_HEADS \in Nat \ {0}

Vector == [DOMAIN ZeroVector -> Int]
AttnWord == [key : Vector, value : Vector]
KvPlace == (0 .. MAX_PAGES - 1) \X (0 .. PAGE_TOKENS - 1) \X (0 .. MAX_KV_HEADS - 1)

\* The ports: what selects a head, a slot, a page or a word selects one there is.
ASSUME AttentionPorts ==
  /\ ZeroVector \in Seq(Int)
  /\ KvMemories \subseteq [KvPlace -> AttnWord]
  /\ QueryWrites \subseteq [head : 0 .. MAX_Q_HEADS - 1, query : Vector]
  /\ PageWrites \subseteq [slot : 0 .. MAX_PAGES - 1, page : 0 .. MAX_PAGES - 1]
  /\ KvWrites \subseteq [place : KvPlace, word : AttnWord]
  /\ AttnRequests \subseteq
       [query_head : 0 .. MAX_Q_HEADS - 1, num_query_heads : Nat, num_kv_heads : Nat,
        context_tokens : Nat, window_start : Nat, sink_tokens : Nat,
        explicit_mask : SUBSET SUBSET Nat]

MAX_TOKENS == MAX_PAGES * PAGE_TOKENS

VARIABLES
  engine,         \* state_q
  request,        \* the registers a request is latched in
  issue_token,
  query_mem, page_list,
  kv_mem,         \* by <<page, offset, head>>; not reset
  reader, value_pipe, dot,
  softmax,        \* the run of the online softmax
  result, reduce,
  asked,          \* history: the request as it was offered
  read,           \* history: the words read for it
  steady          \* history: no write to the pages, keys or values since

attnVars == <<engine, request, issue_token, query_mem, page_list, kv_mem, reader,
              value_pipe, dot, softmax, result, reduce, asked, read, steady>>

-----------------------------------------------------------------------------
(* Requests *)

RequestConfigValid(r) ==
  /\ r.num_query_heads \in 1 .. MAX_Q_HEADS
  /\ r.num_kv_heads \in 1 .. MAX_KV_HEADS
  /\ r.num_kv_heads <= r.num_query_heads
  /\ r.query_head < r.num_query_heads
  /\ r.context_tokens <= MAX_TOKENS

\* $clog2
Bits(n) == CHOOSE w \in 0 .. n : 2 ^ w >= n /\ (w > 0 => 2 ^ (w - 1) < n)

\* The operand of a size cast is as wide as its widest part, and no wider.
ProductWidth == Max({Bits(MAX_Q_HEADS), Bits(MAX_Q_HEADS + 1), Bits(MAX_KV_HEADS + 1)})

KvHeadRegister(r) ==
  (((r.query_head * r.num_kv_heads) % 2 ^ ProductWidth) \div r.num_query_heads)
    % 2 ^ Bits(MAX_KV_HEADS)

Latched(r) ==
  [query |-> query_mem[r.query_head],
   kv_head |-> IF RequestConfigValid(r) THEN KvHeadRegister(r) ELSE 0,
   context_tokens |-> IF RequestConfigValid(r) THEN r.context_tokens ELSE 0,
   window_start |-> r.window_start, sink_tokens |-> r.sink_tokens,
   explicit_mask |-> r.explicit_mask]

NoRequest ==
  [query |-> ZeroVector, kv_head |-> 0, context_tokens |-> 0, window_start |-> 0,
   sink_tokens |-> 0, explicit_mask |-> {}]

-----------------------------------------------------------------------------
(* The units in a line *)

MaskKeep(t) ==
  /\ t < request.context_tokens
  /\ t < request.sink_tokens \/ t >= request.window_start
  /\ \A mask \in request.explicit_mask : t \in mask

StepReady == result = <<>>
DotReady == dot = <<>> \/ StepReady
ReaderReady == reader = <<>> \/ DotReady
ReduceReady(rsp_ready) == reduce = <<>> \/ (engine = "RESPOND" /\ rsp_ready)

Issue ==
  /\ engine = "RUN"
  /\ issue_token < request.context_tokens
  /\ MaskKeep(issue_token)
  /\ ReaderReady

ReadWord(t) ==
  kv_mem[<<page_list[t \div PAGE_TOKENS], t % PAGE_TOKENS, request.kv_head>>]

PageReader ==
  reader' = IF Issue THEN <<ReadWord(issue_token)>>
            ELSE IF DotReady THEN <<>> ELSE reader

ReaderToDot == reader # <<>> /\ DotReady

DotArray ==
  /\ dot' = IF ReaderToDot THEN <<Dot(request.query, reader[1].key)>>
            ELSE IF StepReady THEN <<>> ELSE dot
  /\ value_pipe' = IF ReaderToDot THEN reader[1].value ELSE value_pipe

NoRun ==
  [have_value |-> FALSE, max_score |-> 0, denominator |-> 0,
   accumulator |-> [i \in DOMAIN ZeroVector |-> 0]]

\* A weight is a power of two: a product with it, shifted back, is one shift.
Stepped(score, value) ==
  LET rise == score - softmax.max_score
      sum == softmax.accumulator
  IN  IF ~ softmax.have_value
      THEN [have_value |-> TRUE, max_score |-> score, denominator |-> One,
            accumulator |-> [i \in DOMAIN sum |-> value[i] * One]]
      ELSE IF rise > 0
      THEN [have_value |-> TRUE, max_score |-> score,
            denominator |-> Faded(softmax.denominator, rise) + One,
            accumulator |-> [i \in DOMAIN sum |-> Faded(sum[i], rise) + value[i] * One]]
      ELSE [softmax EXCEPT
              !.denominator = @ + Faded(One, -rise),
              !.accumulator = [i \in DOMAIN sum |-> sum[i] + value[i] * Faded(One, -rise)]]

ResultTaken(rsp_ready) == engine = "REDUCE" /\ ReduceReady(rsp_ready)

OnlineSoftmax(rsp_ready) ==
  /\ softmax' = IF engine = "START" THEN NoRun
                ELSE IF dot # <<>> /\ StepReady THEN Stepped(dot[1], value_pipe)
                ELSE softmax
  /\ result' = IF engine = "FINISH" /\ result = <<>> THEN <<softmax>>
               ELSE IF ResultTaken(rsp_ready) THEN <<>> ELSE result

Reduced(run) ==
  [empty |-> ~ run.have_value,
   context |-> [i \in DOMAIN run.accumulator |->
                  IF ~ run.have_value \/ run.denominator = 0 THEN 0
                  ELSE TruncatedQuotient(run.accumulator[i], run.denominator)]]

ValueReduction(rsp_ready) ==
  reduce' = IF result # <<>> /\ ResultTaken(rsp_ready) THEN <<Reduced(result[1])>>
            ELSE IF engine = "RESPOND" /\ rsp_ready THEN <<>> ELSE reduce

-----------------------------------------------------------------------------
(* Control *)

\* Mutant: the word that is still to be multiplied is forgotten.
PipelineEmptyDotOnly == dot = <<>>

PipelineEmpty == reader = <<>> /\ dot = <<>>

\* Mutant: a masked token is never passed over.
PassesTokenIfKept == Issue

\* A masked token is passed over without being read.
PassesToken ==
  issue_token < request.context_tokens /\ (~ MaskKeep(issue_token) \/ Issue)

NextState(rsp_ready) ==
  CASE engine = "START"   -> IF request.context_tokens = 0 THEN "FINISH" ELSE "RUN"
    [] engine = "RUN"     -> IF \/ PassesToken /\ issue_token + 1 >= request.context_tokens
                                \/ issue_token >= request.context_tokens
                             THEN "DRAIN" ELSE "RUN"
    [] engine = "DRAIN"   -> IF PipelineEmpty THEN "FINISH" ELSE "DRAIN"
    [] engine = "FINISH"  -> "REDUCE"
    [] engine = "REDUCE"  -> IF result # <<>> /\ ReduceReady(rsp_ready)
                             THEN "RESPOND" ELSE "REDUCE"
    [] engine = "RESPOND" -> IF reduce # <<>> /\ rsp_ready THEN "IDLE" ELSE "RESPOND"

Units(rsp_ready) ==
  PageReader /\ DotArray /\ OnlineSoftmax(rsp_ready) /\ ValueReduction(rsp_ready)

AcceptRequest(r) ==
  /\ engine = "IDLE"
  /\ request' = Latched(r)
  /\ issue_token' = 0
  /\ engine' = "START"
  /\ asked' = <<r>> /\ read' = <<>>

Proceed(rsp_ready) ==
  /\ engine # "IDLE"
  /\ engine' = NextState(rsp_ready)
  /\ issue_token' = IF engine = "RUN" /\ PassesToken THEN issue_token + 1 ELSE issue_token
  /\ read' = IF Issue THEN Append(read, ReadWord(issue_token)) ELSE read
  /\ UNCHANGED <<request, asked>>

Wait ==
  /\ engine = "IDLE"
  /\ UNCHANGED <<engine, request, issue_token, asked, read>>

\* Each of the three ports writes at most one word: a set of at most one write.
AtMostOne(S) == {{}} \union {{w} : w \in S}

WriteMemories(query_write, page_write, kv_write) ==
  /\ query_mem' = [h \in DOMAIN query_mem |->
       IF \E w \in query_write : w.head = h
       THEN (CHOOSE w \in query_write : TRUE).query ELSE query_mem[h]]
  /\ page_list' = [s \in DOMAIN page_list |->
       IF \E w \in page_write : w.slot = s
       THEN (CHOOSE w \in page_write : TRUE).page ELSE page_list[s]]
  /\ kv_mem' = [place \in DOMAIN kv_mem |->
       IF \E w \in kv_write : w.place = place
       THEN (CHOOSE w \in kv_write : TRUE).word ELSE kv_mem[place]]

AttnEdge ==
  \E rsp_ready \in BOOLEAN :
    /\ Units(rsp_ready)
    /\ (\E r \in AttnRequests : AcceptRequest(r)) \/ Proceed(rsp_ready) \/ Wait
    /\ \E query_write \in AtMostOne(QueryWrites), page_write \in AtMostOne(PageWrites),
          kv_write \in AtMostOne(KvWrites) :
         WriteMemories(query_write, page_write, kv_write)
    /\ steady' = (engine = "IDLE" \/ (steady /\ UNCHANGED <<page_list, kv_mem>>))

AttnInit ==
  /\ engine = "IDLE" /\ request = NoRequest /\ issue_token = 0
  /\ query_mem = [h \in 0 .. MAX_Q_HEADS - 1 |-> ZeroVector]
  /\ page_list = [s \in 0 .. MAX_PAGES - 1 |-> s]
  /\ kv_mem \in KvMemories
  /\ reader = <<>> /\ value_pipe = ZeroVector /\ dot = <<>>
  /\ softmax = NoRun /\ result = <<>> /\ reduce = <<>>
  /\ asked = <<>> /\ read = <<>> /\ steady = TRUE

\* The keys and values outlive a reset.
AttnReset ==
  /\ engine' = "IDLE" /\ request' = NoRequest /\ issue_token' = 0
  /\ query_mem' = [h \in 0 .. MAX_Q_HEADS - 1 |-> ZeroVector]
  /\ page_list' = [s \in 0 .. MAX_PAGES - 1 |-> s]
  /\ reader' = <<>> /\ value_pipe' = ZeroVector /\ dot' = <<>>
  /\ softmax' = NoRun /\ result' = <<>> /\ reduce' = <<>>
  /\ asked' = <<>> /\ read' = <<>> /\ steady' = TRUE
  /\ UNCHANGED kv_mem

AttnNext == AttnEdge \/ AttnReset

AttnSpec == AttnInit /\ [][AttnNext]_attnVars /\ WF_attnVars(AttnEdge)

-----------------------------------------------------------------------------
(* Properties *)

RspValid == engine = "RESPOND" /\ reduce # <<>>

\* Query head q maps to KV head floor(q * num_kv_heads / num_q_heads).
KvHeadFor(r) == (r.query_head * r.num_kv_heads) \div r.num_query_heads

\* The tokens that the mask keeps, from the lowest up.
KeptTokens(r) ==
  LET kept == {t \in 0 .. r.context_tokens - 1 :
                 /\ t < r.sink_tokens \/ t >= r.window_start
                 /\ \A mask \in r.explicit_mask : t \in mask}
  IN  [k \in 1 .. Cardinality(kept) |->
         CHOOSE t \in kept : Cardinality({u \in kept : u < t}) = k - 1]

WordsFor(r) ==
  IF ~ RequestConfigValid(r) THEN <<>>
  ELSE [i \in DOMAIN KeptTokens(r) |->
          LET t == KeptTokens(r)[i]
          IN  kv_mem[<<page_list[t \div PAGE_TOKENS], t % PAGE_TOKENS, KvHeadFor(r)>>]]

\* An answer is the reference attention over exactly the words that were read,
\* each score with its own value, none of an earlier request and none still in
\* the pipeline; and they are the kept tokens in order, each through its page
\* and of the KV head of the query head, unless the memory was written meanwhile.
AttentionExact ==
  RspValid =>
    /\ reduce[1].empty <=> read = <<>>
    /\ reduce[1].context = OnlineAttention(request.query, read)
    /\ steady => read = WordsFor(asked[1])

\* The KV head a request reads is the floor that attention_decode documents.
GqaMapped ==
  engine # "IDLE" /\ RequestConfigValid(asked[1]) =>
    request.kv_head = KvHeadFor(asked[1])

\* An accepted request is answered, or a reset ends it.
AttentionAnswers == engine # "IDLE" ~> engine = "IDLE" \/ RspValid

=============================================================================

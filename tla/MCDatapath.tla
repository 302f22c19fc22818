----------------------------- MODULE MCDatapath -----------------------------
(***************************************************************************)
(* The units of the data path side by side: the circular buffer, the KV    *)
(* MMU, the attention engine, the tensor array and the ring of the         *)
(* collectives.  They share no state: every behaviour is one of the unit   *)
(* that subject names, and the others stay in their initial states.        *)
(***************************************************************************)
EXTENDS CircularFifo, KvMmu, AttentionEngine, TensorArray, RingCluster, TLC

VARIABLE subject

datapathVars ==
  <<fifoVars, mmuVars, attnVars, arrayVars, ringVars, subject>>

-----------------------------------------------------------------------------
(* Buffer: a depth that is not a power of two *)

MCPayloads == {"a", "b"}

-----------------------------------------------------------------------------
(* MMU: one page more than the table holds, a TLB smaller than the table *)

MCPages == 0 .. 3
MCFrames == {"f0", "f1"}

-----------------------------------------------------------------------------
(* Attention: all words of the memory are different; scores rise and fall *)

MCZeroVector == <<0, 0>>
KvWord(k, v) == [key |-> <<k, 1>>, value |-> <<v, -v>>]
MCKvMemories ==
  {[p \in KvPlace |-> KvWord(4 * p[1] - 3 * p[2], ((100 * p[1] + 40 * p[2] + 5 * p[3]) % 255) - 127)]}
MCQueryWrites == {[head |-> 1, query |-> <<2, -1>>]}
MCPageWrites == {[slot |-> 0, page |-> 1]}
MCKvWrites == {[place |-> <<1, 0, 1>>, word |-> KvWord(30, 127)]}

Ask(head, query_heads, kv_heads, context, window, sink, mask) ==
  [query_head |-> head, num_query_heads |-> query_heads, num_kv_heads |-> kv_heads,
   context_tokens |-> context, window_start |-> window, sink_tokens |-> sink,
   explicit_mask |-> mask]

\* All tokens; window and sink; explicit masks; nothing; misshapen heads; a
\* context that is too long.
MCAttnRequests ==
  {Ask(1, 2, 2, 4, 0, 0, {}), Ask(1, 4, 2, 4, 3, 1, {}), Ask(3, 4, 2, 4, 0, 0, {{1, 3}}),
   Ask(1, 2, 2, 3, 2, 0, {{0, 1}}), Ask(1, 2, 2, 0, 0, 0, {}), Ask(2, 2, 2, 3, 0, 0, {}),
   Ask(3, 4, 1, 1, 0, 0, {}), Ask(1, 4, 2, 5, 0, 0, {}), Ask(0, 0, 1, 2, 0, 0, {})}

\* With the engine's own sizes, every head of a group of eight over four.
GqaRequests == {Ask(head, 8, 4, 2, 0, 0, {}) : head \in 0 .. 7}
NoWrites == {}

-----------------------------------------------------------------------------
(* Tensor array: rows of both formats, negative, saturating and reserved *)

Row(packed, format, zero_point, scale, bias, gain) ==
  [packed |-> packed, format |-> format, zero_point |-> zero_point, scale |-> scale,
   bias |-> bias, norm_gain |-> gain]
MCWeightRows ==
  {Row(<<128, 127>>, "int8", 4, 256, 0, 256), Row(<<8, 7>>, "int4", -3, -129, 7, -512),
   Row(<<129, 100>>, "int8", 0, 4096, -5, 3000), Row(<<1, 1>>, "reserved", 0, 256, 0, 256)}
MCArrayJobs ==
  {[activation |-> a, mode |-> m, norm_enable |-> n, epsilon |-> e] :
     a \in {<<3, -2>>, <<-1, 5>>, <<0, 0>>},
     m \in {"bypass", "relu", "clamp_int8", "reserved"}, <<n, e>> \in
       {<<FALSE, 0>>, <<TRUE, 0>>, <<TRUE, 2>>}}

-----------------------------------------------------------------------------
(* Ring: two of the commands share a collective id, as a host that reuses ids *)
(* makes them                                                                *)

SharedIds ==
  { [collective_id |-> 5, values |-> "v1"], [collective_id |-> 5, values |-> "v2"],
    [collective_id |-> 6, values |-> "v3"] }

-----------------------------------------------------------------------------

DatapathInit ==
  /\ subject \in {"fifo", "mmu", "attention", "array", "ring"}
  /\ FifoInit
  /\ MmuInit
  /\ AttnInit
  /\ ArrayInit
  /\ RingInit
  /\ subject # "fifo" => policy = "stall" /\ mem \in [Ptr -> {"a"}]

Only(s) ==
  /\ subject = s
  /\ UNCHANGED subject
  /\ s # "fifo" => UNCHANGED fifoVars
  /\ s # "mmu" => UNCHANGED mmuVars
  /\ s # "attention" => UNCHANGED attnVars
  /\ s # "array" => UNCHANGED arrayVars
  /\ s # "ring" => UNCHANGED ringVars

DatapathNext ==
  \/ Only("fifo") /\ FifoNext
  \/ Only("mmu") /\ MmuNext
  \/ Only("attention") /\ AttnNext
  \/ Only("array") /\ ArrayNext
  \/ Only("ring") /\ RingNext

\* The clock runs; the scheduler stub takes an answer of the MMU when it is
\* there, and no link of the ring is stalled for ever.  Nothing is assumed of
\* the engines' clients.
DatapathSpec ==
  /\ DatapathInit
  /\ [][DatapathNext]_datapathVars
  /\ WF_mmuVars(Only("mmu") /\ Walk) /\ WF_mmuVars(Only("mmu") /\ TakeResponse)
  /\ WF_attnVars(Only("attention") /\ AttnEdge)
  /\ WF_arrayVars(Only("array") /\ Compute)
  /\ \A n \in Node : WF_ringVars(Only("ring") /\ Unstalled(n))

\* Whatever a unit has accepted it answers, unless a reset ends it: the MMU's
\* walk, the attention engine's loop over the tokens with its pipeline, and the
\* tensor array's rows and norm never wait for each other for good.
EveryUnitAnswers == EveryKvRequestAnswered /\ AttentionAnswers /\ ArrayAnswers

=============================================================================

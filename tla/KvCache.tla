------------------------------- MODULE KvCache -------------------------------
(***************************************************************************)
(* The reference KV cache of dv/golden/kv_cache_ref.py: tokens appended to *)
(* pages of a fixed number of tokens, and read back in order, by index and *)
(* by a decode step whose query heads share the KV heads.                  *)
(*                                                                         *)
(* Head values are sequences of vectors.  The softmax is left out: what    *)
(* a decode step gives it is the list of scores and values it weighs.      *)
(***************************************************************************)
EXTENDS Integers, Sequences, SequencesExt, FiniteSetsExt

CONSTANTS
  PageTokens,   \* tokens that a page holds
  KvHeads,      \* heads of a token's key and of its value
  HeadDim,      \* elements of a head
  HeadValues,   \* what a caller passes, well shaped or not
  QueryLists,   \* the heads of a decode step
  MaxTokens     \* bound: tokens appended

ASSUME CacheSizes ==
  /\ PageTokens \in Nat \ {0}
  /\ KvHeads \in Nat \ {0}
  /\ HeadDim \in Nat \ {0}
  /\ \A queries \in QueryLists : queries \in Seq(Seq(Int))

VARIABLES
  cache,     \* the pages, each with its number, its keys and its values
  appended   \* history: the tokens of all successful appends

cacheVars == <<cache, appended>>

Token(key, value) == [key |-> key, value |-> value]

EmptyPage(number) == [page_id |-> number, keys |-> <<>>, values |-> <<>>]

PageSize(page) == Len(page.keys)

RightShape(values) ==
  /\ Len(values) = KvHeads
  /\ \A h \in DOMAIN values : Len(values[h]) = HeadDim

\* Mutant: a page takes one token more than it holds.
PageHasRoomInclusive == cache # <<>> /\ PageSize(cache[Len(cache)]) <= PageTokens

PageHasRoom == cache # <<>> /\ PageSize(cache[Len(cache)]) < PageTokens

\* The page that takes the next token is the last one.
WithRoom ==
  IF PageHasRoom THEN cache ELSE Append(cache, EmptyPage(Len(cache)))

Extended(page, key, value) ==
  [page EXCEPT !.keys = Append(@, key), !.values = Append(@, value)]

\* A refused append leaves no empty page behind.
AppendToken(key, value) ==
  /\ RightShape(key)
  /\ RightShape(value)
  /\ cache' = [WithRoom EXCEPT ![Len(WithRoom)] = Extended(@, key, value)]
  /\ appended' = Append(appended, Token(key, value))

RefuseToken(key, value) ==
  /\ ~(RightShape(key) /\ RightShape(value))
  /\ UNCHANGED cacheVars

-----------------------------------------------------------------------------
(* Reading: an optional argument, and a result that may be an error, is an *)
(* empty sequence or the sequence of the one value.                        *)

None == <<>>

CacheTokens == MapThenSumSet(LAMBDA p : PageSize(cache[p]), DOMAIN cache)

Zipped(page) ==
  [i \in 1 .. PageSize(page) |-> Token(page.keys[i], page.values[i])]

IterTokens(limit) ==
  LET all == FlattenSeq([p \in DOMAIN cache |-> Zipped(cache[p])])
  IN  IF limit = None \/ limit[1] >= Len(all) THEN all ELSE SubSeq(all, 1, limit[1])

GetToken(index) ==
  IF index \notin 0 .. CacheTokens - 1 THEN None
  ELSE LET page == cache[(index \div PageTokens) + 1]
           offset == (index % PageTokens) + 1
       IN  <<Token(page.keys[offset], page.values[offset])>>

HeadDot(u, v) == MapThenSumSet(LAMBDA i : u[i] * v[i], DOMAIN u)

KvHeadOf(query_index, queries) == (query_index * KvHeads) \div queries

ContextOf(context) == IF context = None THEN CacheTokens ELSE context[1]

QueriesFit(queries) ==
  queries # <<>> /\ \A q \in DOMAIN queries : Len(queries[q]) = HeadDim

DecodeAllowed(queries, context, mask) ==
  /\ QueriesFit(queries)
  /\ ContextOf(context) \in 0 .. CacheTokens
  /\ mask = None \/ Len(mask[1]) >= ContextOf(context)

\* The tokens that the loop over them does not skip, in their order.
Kept(cached, mask) ==
  LET kept[t \in 0 .. Len(cached)] ==
        IF t = 0 THEN <<>>
        ELSE IF mask = None \/ mask[1][t] THEN Append(kept[t - 1], cached[t])
        ELSE kept[t - 1]
  IN  kept[Len(cached)]

\* What the softmax of one query head weighs, in the order of the tokens.
Weighed(query, tokens, head) ==
  [k \in DOMAIN tokens |->
     [score |-> HeadDot(query, tokens[k].key[head]), value |-> tokens[k].value[head]]]

\* For each query head the scores and values that its softmax weighs.
AttentionDecode(queries, context, mask) ==
  IF ~DecodeAllowed(queries, context, mask) THEN None
  ELSE LET tokens == Kept(IterTokens(<<ContextOf(context)>>), mask)
       IN  [q \in DOMAIN queries |->
              Weighed(queries[q], tokens, KvHeadOf(q - 1, Len(queries)) + 1)]

-----------------------------------------------------------------------------

CacheInit == cache = <<>> /\ appended = <<>>

CacheNext ==
  \E key, value \in HeadValues :
    \/ Len(appended) < MaxTokens /\ AppendToken(key, value)
    \/ RefuseToken(key, value)

CacheSpec == CacheInit /\ [][CacheNext]_cacheVars

\* Every page but the last is full, none is empty, each has its place as its
\* number and a value for every key: what reading by quotient and remainder
\* rests on (append, get_token).
PagesPacked ==
  \A p \in DOMAIN cache :
    /\ cache[p].page_id = p - 1
    /\ Len(cache[p].keys) = Len(cache[p].values)
    /\ PageSize(cache[p]) \in 1 .. PageTokens
    /\ p < Len(cache) => PageSize(cache[p]) = PageTokens

\* What decode attention promises on the appended tokens: a query head reads
\* the KV head of its group, KvHeads groups of equal size when they divide.
GroupSize(queries) == Len(queries) \div KvHeads
WeighedFrom(tokens, queries) ==
  [q \in DOMAIN queries |->
     Weighed(queries[q], tokens, ((q - 1) \div GroupSize(queries)) + 1)]

\* The tokens at the positions a mask keeps.
KeptBy(mask, n) ==
  LET positions == {i \in 1 .. n : mask[i]}
  IN  [k \in 1 .. Cardinality(positions) |->
         appended[CHOOSE i \in positions : Cardinality({j \in positions : j <= i}) = k]]

\* Whatever was appended is what is read, in that order: by iteration up to
\* any limit, by index, and by a decode step over any context and any mask,
\* each query head reading the KV head of its group (iter_tokens, get_token,
\* attention_decode); indices, contexts and masks out of range are refused.
CacheReadsAppended ==
  LET n == Len(appended)
  IN  /\ PagesPacked
      /\ IterTokens(None) = appended
      /\ \A limit \in 0 .. n + 1 :
           IterTokens(<<limit>>) = SubSeq(appended, 1, IF limit < n THEN limit ELSE n)
      /\ \A index \in -1 .. n :
           GetToken(index) = IF index \in 0 .. n - 1 THEN <<appended[index + 1]>>
                             ELSE None
      /\ \A queries \in QueryLists : QueriesFit(queries) /\ Len(queries) % KvHeads = 0 =>
           /\ \A context \in 0 .. n :
                /\ \A mask \in [1 .. n -> BOOLEAN] :
                     AttentionDecode(queries, <<context>>, <<mask>>)
                       = WeighedFrom(KeptBy(mask, context), queries)
                /\ context > 0 =>
                     AttentionDecode(queries, <<context>>, <<None>>) = None
           /\ AttentionDecode(queries, None, None) = WeighedFrom(appended, queries)
           /\ AttentionDecode(queries, <<n + 1>>, None) = None

=============================================================================

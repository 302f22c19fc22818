----------------------- MODULE ReferenceModels_proofs -----------------------
(***************************************************************************)
(* What the Python references compute and judge, for every size: what      *)
(* reading the KV cache gives, which multiple rounding gives, when the     *)
(* monitor raises, how the sums of the event simulator agree, and how near *)
(* the streaming attention is to one that knows the largest score.         *)
(***************************************************************************)
EXTENDS KvCache, GoldenReference, ChipMonitor, EventModel, FiniteSetTheorems, SequenceTheorems,
        WellFoundedInduction, TLAPS

-----------------------------------------------------------------------------
(* Rounding *)

\* A signed Q8.8 product is rounded to the nearest integer, ties away from zero,
\* whatever its size and sign (round_q8_8).
THEOREM RoundsToNearest ==
  \A product \in Int : Nearest(product, RoundQ8_8(product))
<1>. SUFFICES ASSUME NEW product \in Int PROVE Nearest(product, RoundQ8_8(product))
  OBVIOUS
<1>. DEFINE added == IF product >= 0 THEN 128 ELSE 127
            rounded == (product + added) \div 256
<1>1. added \in Int /\ (product >= 0 => added = 128) /\ (product < 0 => added = 127)
  OBVIOUS
<1>2. rounded \in Int /\ 256 * rounded <= product + added /\ product + added < 256 * rounded + 256
  BY <1>1
<1>3. RoundQ8_8(product) = rounded BY DEF RoundQ8_8
<1>. HIDE DEF rounded, added
<1>. QED BY <1>1, <1>2, <1>3 DEF Nearest, Distance

-----------------------------------------------------------------------------
(* The KV cache *)

LEMMA Divided ==
  ASSUME NEW a \in Nat, NEW b \in Nat \ {0}
  PROVE  /\ a \div b \in Nat /\ a % b \in 0 .. b - 1
         /\ a = b * (a \div b) + (a % b)
OBVIOUS

LEMMA Multiples ==
  ASSUME NEW a \in Nat, NEW b \in Nat, NEW c \in Nat, a <= b
  PROVE  a * c \in Nat /\ b * c \in Nat /\ a * c <= b * c /\ (a + 1) * c = a * c + c
OBVIOUS

CachePage == [page_id : Nat, keys : Seq(HeadValues), values : Seq(HeadValues)]

\* Page p of the pages W, and what it holds of the tokens.
Holds(W, p, tokens) ==
  /\ W[p].page_id = p - 1
  /\ Len(W[p].keys) = Len(W[p].values)
  /\ \A i \in 1 .. Len(W[p].keys) :
       tokens[(p - 1) * PageTokens + i] = Token(W[p].keys[i], W[p].values[i])

\* The pages W hold the tokens in order, the last page at most `most` of them.
Laid(W, tokens, most) ==
  /\ W \in Seq(CachePage)
  /\ tokens \in Seq([key : HeadValues, value : HeadValues])
  /\ \A p \in 1 .. Len(W) : Holds(W, p, tokens)
  /\ \A p \in 1 .. Len(W) - 1 : Len(W[p].keys) = PageTokens
  /\ W # <<>> => /\ Len(W[Len(W)].keys) <= most
                 /\ Len(tokens) = (Len(W) - 1) * PageTokens + Len(W[Len(W)].keys)
  /\ W = <<>> => tokens = <<>>

CacheInv ==
  /\ Laid(cache, appended, PageTokens)
  /\ cache # <<>> => Len(cache[Len(cache)].keys) >= 1

\* There is room for a token on the last page, an old one or a new one.
LEMMA RoomInvariant ==
  ASSUME CacheInv
  PROVE  /\ Laid(WithRoom, appended, PageTokens - 1)
         /\ WithRoom # <<>>
<1>1. CASE PageHasRoom
  <2>1. WithRoom = cache /\ cache # <<>> BY <1>1 DEF WithRoom, PageHasRoom
  <2>2. cache \in Seq(CachePage) BY DEF CacheInv, Laid
  <2>3. Len(cache) \in Nat /\ Len(cache) >= 1 BY <2>1, <2>2
  <2>4. cache[Len(cache)] \in CachePage BY <2>2, <2>3
  <2>5. Len(cache[Len(cache)].keys) \in Nat BY <2>4 DEF CachePage
  <2>6. Len(cache[Len(cache)].keys) <= PageTokens - 1
    BY <1>1, <2>5, CacheSizes DEF PageHasRoom, PageSize
  <2>. QED BY <2>1, <2>6 DEF CacheInv, Laid
<1>2. CASE ~ PageHasRoom
  <2>. DEFINE L == Len(cache)
              W == Append(cache, EmptyPage(L))
  <2>1. WithRoom = W BY <1>2 DEF WithRoom
  <2>2. cache \in Seq(CachePage) /\ L \in Nat BY DEF CacheInv, Laid
  <2>3. EmptyPage(L) \in CachePage BY <2>2 DEF EmptyPage, CachePage
  <2>4. /\ W \in Seq(CachePage) /\ Len(W) = L + 1 /\ W[L + 1] = EmptyPage(L)
        /\ \A p \in 1 .. L : W[p] = cache[p]
    BY <2>2, <2>3
  <2>. HIDE DEF W
  <2>5. W # <<>> BY <2>2, <2>4
  <2>6. \A p \in 1 .. L : Len(cache[p].keys) = PageTokens
    <3>1. cache # <<>> => Len(cache[L].keys) = PageTokens
      <4>. SUFFICES ASSUME cache # <<>> PROVE Len(cache[L].keys) = PageTokens
        OBVIOUS
      <4>1. L >= 1 BY <2>2
      <4>2. cache[L] \in CachePage BY <2>2, <4>1
      <4>3. Len(cache[L].keys) \in Nat BY <4>2 DEF CachePage
      <4>. QED BY <1>2, <4>3, CacheSizes DEF PageHasRoom, PageSize, CacheInv, Laid
    <3>. QED BY <2>2, <3>1 DEF CacheInv, Laid
  <2>7. Len(W[L + 1].keys) = 0 /\ Len(W[L + 1].values) = 0 /\ W[L + 1].page_id = L
    BY <2>4 DEF EmptyPage
  <2>8. \A p \in 1 .. Len(W) : Holds(W, p, appended)
    <3>1. \A p \in 1 .. L : Holds(W, p, appended)
      BY <2>4 DEF CacheInv, Laid, Holds
    <3>2. Holds(W, L + 1, appended) BY <2>2, <2>7 DEF Holds
    <3>. QED BY <2>2, <2>4, <3>1, <3>2
  <2>9. Len(appended) = L * PageTokens
    <3>1. CASE cache = <<>>
      <4>1. L = 0 /\ Len(appended) = 0 BY <3>1 DEF CacheInv, Laid
      <4>. QED BY <4>1, CacheSizes
    <3>2. CASE cache # <<>>
      <4>1. L >= 1 BY <2>2, <3>2
      <4>2. Len(appended) = (L - 1) * PageTokens + PageTokens
        BY <2>6, <3>2, <4>1, <2>2 DEF CacheInv, Laid
      <4>. QED BY <2>2, <4>1, <4>2, CacheSizes
    <3>. QED BY <3>1, <3>2
  <2>10. \A p \in 1 .. Len(W) - 1 : Len(W[p].keys) = PageTokens
    BY <2>2, <2>4, <2>6
  <2>11. Len(appended) = (Len(W) - 1) * PageTokens + Len(W[Len(W)].keys)
    <3>1. L * PageTokens \in Nat BY <2>2, CacheSizes
    <3>. QED BY <2>2, <2>4, <2>7, <2>9, <3>1
  <2>12. Len(W[Len(W)].keys) <= PageTokens - 1 BY <2>4, <2>7, CacheSizes
  <2>13. appended \in Seq([key : HeadValues, value : HeadValues]) BY DEF CacheInv, Laid
  <2>. QED BY <2>1, <2>4, <2>5, <2>8, <2>10, <2>11, <2>12, <2>13 DEF Laid
<1>. QED BY <1>1, <1>2

LEMMA AppendKeeps ==
  ASSUME CacheInv, NEW key \in HeadValues, NEW value \in HeadValues, AppendToken(key, value)
  PROVE  CacheInv'
<1>. DEFINE W == WithRoom
            n == Len(W)
            page == Extended(W[n], key, value)
            V == [W EXCEPT ![n] = page]
            tokens == Append(appended, Token(key, value))
            s == Len(W[n].keys)
<1>1. Laid(W, appended, PageTokens - 1) /\ W # <<>> BY RoomInvariant
<1>2. cache' = V /\ appended' = tokens BY DEF AppendToken
<1>. HIDE DEF W
<1>3. W \in Seq(CachePage) /\ n \in Nat \ {0} BY <1>1 DEF Laid
<1>4. W[n] \in CachePage /\ n \in 1 .. n BY <1>3
<1>5. /\ W[n].keys \in Seq(HeadValues) /\ W[n].values \in Seq(HeadValues)
      /\ W[n].page_id \in Nat /\ s \in Nat /\ s <= PageTokens - 1
      /\ Len(W[n].values) = s /\ W[n].page_id = n - 1
  BY <1>1, <1>3, <1>4 DEF CachePage, Laid, Holds
<1>6. page = [page_id |-> W[n].page_id, keys |-> Append(W[n].keys, key),
              values |-> Append(W[n].values, value)]
  <2>. DEFINE old == W[n]
  <2>1. old \in CachePage BY <1>4
  <2>2. page = [old EXCEPT !.keys = Append(@, key), !.values = Append(@, value)]
    BY DEF Extended
  <2>. HIDE DEF old, page
  <2>3. page = [page_id |-> old.page_id, keys |-> Append(old.keys, key),
                values |-> Append(old.values, value)]
    BY <2>1, <2>2 DEF CachePage
  <2>. QED BY <2>3 DEF old
<1>7. /\ page.page_id = n - 1 /\ page.keys = Append(W[n].keys, key)
      /\ page.values = Append(W[n].values, value) /\ page \in CachePage
  BY <1>5, <1>6 DEF CachePage
<1>8. /\ Len(page.keys) = s + 1 /\ Len(page.values) = s + 1
      /\ page.keys[s + 1] = key /\ page.values[s + 1] = value
      /\ \A i \in 1 .. s : page.keys[i] = W[n].keys[i] /\ page.values[i] = W[n].values[i]
  BY <1>5, <1>7
<1>. HIDE DEF page
<1>9. /\ V \in Seq(CachePage) /\ Len(V) = n /\ V[n] = page
      /\ \A p \in 1 .. n - 1 : V[p] = W[p]
  BY <1>3, <1>4, <1>7
<1>. HIDE DEF V
<1>10. appended \in Seq([key : HeadValues, value : HeadValues])
       /\ Len(appended) = (n - 1) * PageTokens + s
  BY <1>1 DEF Laid
<1>11. Token(key, value) \in [key : HeadValues, value : HeadValues] BY DEF Token
<1>12. /\ tokens \in Seq([key : HeadValues, value : HeadValues])
       /\ Len(tokens) = Len(appended) + 1 /\ tokens[Len(appended) + 1] = Token(key, value)
       /\ \A i \in 1 .. Len(appended) : tokens[i] = appended[i]
  BY <1>10, <1>11
<1>. HIDE DEF tokens
<1>13. (n - 1) * PageTokens \in Nat BY <1>3, CacheSizes
<1>14. \A p \in 1 .. n - 1 : Holds(V, p, tokens)
  <2>. SUFFICES ASSUME NEW p \in 1 .. n - 1 PROVE Holds(V, p, tokens)
    OBVIOUS
  <2>1. Holds(W, p, appended) /\ Len(W[p].keys) = PageTokens /\ V[p] = W[p]
    BY <1>1, <1>3, <1>9 DEF Laid
  <2>2. \A i \in 1 .. PageTokens : (p - 1) * PageTokens + i \in 1 .. Len(appended)
    <3>1. /\ (p - 1) * PageTokens \in Nat /\ (p - 1) * PageTokens + PageTokens = p * PageTokens
          /\ p * PageTokens <= (n - 1) * PageTokens
      <4>. DEFINE m == n - 1
      <4>1. p - 1 \in Nat /\ p \in Nat /\ m \in Nat /\ p <= m BY <1>3
      <4>. HIDE DEF m
      <4>2. p * PageTokens <= m * PageTokens BY <4>1, Multiples, CacheSizes
      <4>3. (p - 1) * PageTokens \in Nat /\ ((p - 1) + 1) * PageTokens = (p - 1) * PageTokens + PageTokens
        BY <4>1, CacheSizes
      <4>4. (p - 1) + 1 = p BY <4>1
      <4>. QED BY <4>2, <4>3, <4>4 DEF m
    <3>2. (p - 1) * PageTokens + PageTokens <= Len(appended)
      <4>. DEFINE a == (p - 1) * PageTokens
                  b == p * PageTokens
                  c == (n - 1) * PageTokens
                  l == Len(appended)
      <4>1. a \in Nat /\ a + PageTokens = b /\ b <= c /\ c \in Nat /\ l = c + s /\ s \in Nat
        BY <1>5, <1>10, <1>13, <3>1
      <4>. HIDE DEF a, b, c, l, s
      <4>. QED BY <4>1, CacheSizes DEF a, l
    <3>. HIDE DEF s
    <3>. QED BY <1>10, <3>1, <3>2, CacheSizes
  <2>. QED BY <1>12, <2>1, <2>2 DEF Holds
<1>15. Holds(V, n, tokens)
  <2>1. \A i \in 1 .. s : (n - 1) * PageTokens + i \in 1 .. Len(appended)
    BY <1>5, <1>10, <1>13
  <2>2. \A i \in 1 .. s : appended[(n - 1) * PageTokens + i] = Token(W[n].keys[i], W[n].values[i])
    BY <1>1, <1>4 DEF Laid, Holds
  <2>3. \A i \in 1 .. s :
          tokens[(n - 1) * PageTokens + i] = Token(page.keys[i], page.values[i])
    BY <1>8, <1>12, <2>1, <2>2
  <2>4. tokens[(n - 1) * PageTokens + (s + 1)] = Token(page.keys[s + 1], page.values[s + 1])
    <3>1. (n - 1) * PageTokens + (s + 1) = Len(appended) + 1 BY <1>5, <1>10, <1>13
    <3>. QED BY <1>8, <1>12, <3>1
  <2>5. \A i \in 1 .. s + 1 : i \in 1 .. s \/ i = s + 1 BY <1>5
  <2>. QED BY <1>7, <1>8, <1>9, <2>3, <2>4, <2>5 DEF Holds
<1>16. \A p \in 1 .. Len(V) : Holds(V, p, tokens) BY <1>3, <1>9, <1>14, <1>15
<1>17. \A p \in 1 .. Len(V) - 1 : Len(V[p].keys) = PageTokens
  BY <1>1, <1>3, <1>9 DEF Laid
<1>18. /\ V # <<>> /\ Len(V[Len(V)].keys) = s + 1
       /\ Len(tokens) = (Len(V) - 1) * PageTokens + Len(V[Len(V)].keys)
  <2>1. Len(tokens) = (n - 1) * PageTokens + (s + 1) BY <1>5, <1>10, <1>12, <1>13
  <2>. QED BY <1>3, <1>8, <1>9, <2>1
<1>19. s + 1 <= PageTokens /\ s + 1 >= 1 BY <1>5, CacheSizes
<1>20. Laid(V, tokens, PageTokens)
  BY <1>9, <1>12, <1>16, <1>17, <1>18, <1>19 DEF Laid
<1>. QED BY <1>2, <1>18, <1>19, <1>20 DEF CacheInv

LEMMA CacheInvariance == CacheSpec => []CacheInv
<1>1. CacheInit => CacheInv
  BY DEF CacheInit, CacheInv, Laid
<1>2. CacheInv /\ [CacheNext]_cacheVars => CacheInv'
  <2>. SUFFICES ASSUME CacheInv, [CacheNext]_cacheVars PROVE CacheInv'
    OBVIOUS
  <2>1. CASE UNCHANGED cacheVars
    BY <2>1 DEF cacheVars, CacheInv
  <2>2. CASE CacheNext
    BY <2>1, <2>2, AppendKeeps DEF CacheNext, RefuseToken
  <2>. QED BY <2>1, <2>2
<1>. QED BY <1>1, <1>2, PTL DEF CacheSpec

\* Every page but the last is full, none is empty or larger than a page, and a
\* page has a value for every key (append).
LEMMA Packed == ASSUME CacheInv PROVE PagesPacked
<1>. SUFFICES ASSUME NEW p \in DOMAIN cache
              PROVE  /\ cache[p].page_id = p - 1
                     /\ Len(cache[p].keys) = Len(cache[p].values)
                     /\ PageSize(cache[p]) \in 1 .. PageTokens
                     /\ p < Len(cache) => PageSize(cache[p]) = PageTokens
  BY DEF PagesPacked
<1>1. cache \in Seq(CachePage) /\ p \in 1 .. Len(cache) /\ cache # <<>>
  BY DEF CacheInv, Laid
<1>2. Len(cache[p].keys) \in Nat BY <1>1 DEF CachePage
<1>3. p < Len(cache) => Len(cache[p].keys) = PageTokens
  BY <1>1 DEF CacheInv, Laid
<1>4. p = Len(cache) => Len(cache[p].keys) \in 1 .. PageTokens
  BY <1>1, <1>2, CacheSizes DEF CacheInv, Laid
<1>5. p < Len(cache) \/ p = Len(cache) BY <1>1
<1>6. Holds(cache, p, appended) BY <1>1 DEF CacheInv, Laid
<1>7. PageSize(cache[p]) \in 1 .. PageTokens
      /\ (p < Len(cache) => PageSize(cache[p]) = PageTokens)
  BY <1>3, <1>4, <1>5, CacheSizes DEF PageSize
<1>. QED BY <1>6, <1>7 DEF Holds

\* The token that is read by quotient and remainder of an index is the one that
\* was appended at it: no read ever returns another (get_token).
LEMMA TokenFound ==
  ASSUME CacheInv, NEW index \in 0 .. Len(appended) - 1
  PROVE  GetToken(index) \in {None, <<appended[index + 1]>>}
<1>. DEFINE q == index \div PageTokens
            r == index % PageTokens
            L == Len(cache)
            s == Len(cache[L].keys)
<1>1. appended \in Seq([key : HeadValues, value : HeadValues]) BY DEF CacheInv, Laid
<1>2. cache # <<>> /\ cache \in Seq(CachePage) BY <1>1 DEF CacheInv, Laid
<1>3. L \in Nat \ {0} BY <1>2
<1>4. s \in Nat BY <1>2, <1>3 DEF CachePage
<1>5. index \in Nat BY <1>1
<1>6. q \in Nat /\ r \in 0 .. PageTokens - 1 /\ index = PageTokens * q + r
  BY <1>5, Divided, CacheSizes
<1>7. Len(appended) = (L - 1) * PageTokens + s /\ s <= PageTokens
  BY <1>2 DEF CacheInv, Laid
<1>8. index < (L - 1) * PageTokens + s BY <1>1, <1>7
<1>. HIDE DEF q, r, L, s
<1>9. (L - 1) * PageTokens \in Nat BY <1>3, CacheSizes
<1>10. q <= L - 1
  <2>. SUFFICES ASSUME q >= L PROVE FALSE
    BY <1>3, <1>6
  <2>1. L * PageTokens <= q * PageTokens /\ (L - 1) * PageTokens + PageTokens = L * PageTokens
    BY <1>3, <1>6, Multiples, CacheSizes
  <2>2. q * PageTokens = PageTokens * q /\ q * PageTokens \in Nat BY <1>6, CacheSizes
  <2>. QED BY <1>4, <1>5, <1>6, <1>7, <1>8, <1>9, <2>1, <2>2, CacheSizes
<1>11. q + 1 \in 1 .. L BY <1>3, <1>6, <1>10
<1>12. r + 1 \in 1 .. Len(cache[q + 1].keys)
  <2>1. CASE q < L - 1
    <3>1. Len(cache[q + 1].keys) = PageTokens
      BY <1>3, <1>6, <2>1 DEF CacheInv, Laid, L
    <3>. QED BY <1>6, <3>1, CacheSizes
  <2>2. CASE q = L - 1
    <3>1. q + 1 = L BY <1>3, <2>2
    <3>2. Len(cache[q + 1].keys) = s BY <3>1 DEF s
    <3>3. PageTokens * q = (L - 1) * PageTokens BY <1>3, <2>2, CacheSizes
    <3>4. r < s BY <1>4, <1>6, <1>8, <1>9, <3>3, CacheSizes
    <3>. QED BY <1>4, <1>6, <3>2, <3>4, CacheSizes
  <2>. QED BY <1>3, <1>6, <1>10, <2>1, <2>2
<1>13. appended[((q + 1) - 1) * PageTokens + (r + 1)]
         = Token(cache[q + 1].keys[r + 1], cache[q + 1].values[r + 1])
  BY <1>11, <1>12 DEF CacheInv, Laid, Holds, L
<1>14. ((q + 1) - 1) * PageTokens + (r + 1) = index + 1
  BY <1>6, CacheSizes
<1>15. appended[index + 1] = Token(cache[q + 1].keys[r + 1], cache[q + 1].values[r + 1])
  BY <1>13, <1>14
<1>. QED BY <1>15 DEF GetToken, q, r

-----------------------------------------------------------------------------
(* Least counterexamples, sums and folds of a loop *)

LEMMA LeastNatural ==
  ASSUME NEW S \in SUBSET Nat, S # {}
  PROVE  \E x \in S : \A y \in S : x <= y
<1>1. IsWellFoundedOn(OpToRel(<, Nat), Nat)
  BY NatLessThanWellFounded
<1>2. PICK x \in S : \A y \in S : ~ (<<y, x>> \in OpToRel(<, Nat))
  BY <1>1, WFMin, Zenon
<1>3. \A y \in S : ~ (y < x)
  BY <1>2 DEF OpToRel
<1>. QED BY <1>3

Pick(s) == CHOOSE x \in s : TRUE
SumStep(f, s, sum) == IF s = {} THEN 0 ELSE f[Pick(s)] + sum[s \ {Pick(s)}]
Summed(f, S) == CHOOSE sum : sum = [s \in SUBSET S |-> SumStep(f, s, sum)]
UpTo(S, k) == {s \in SUBSET S : Cardinality(s) <= k}

LEMMA Picked ==
  ASSUME NEW s, s # {}, IsFiniteSet(s)
  PROVE  /\ Pick(s) \in s
         /\ Cardinality(s) \in Nat \ {0}
         /\ Cardinality(s \ {Pick(s)}) = Cardinality(s) - 1
<1>1. Pick(s) \in s BY DEF Pick
<1>2. Cardinality(s) \in Nat \ {0} BY FS_EmptySet, FS_CardinalityType
<1>. QED BY <1>1, <1>2, FS_RemoveElement

\* The fold of the library is defined on every finite set.
LEMMA SumDefined ==
  ASSUME NEW S, IsFiniteSet(S), NEW f
  PROVE  Summed(f, S) = [s \in SUBSET S |-> SumStep(f, s, Summed(f, S))]
<1>. DEFINE Defined(k) == \E sum : sum = [s \in UpTo(S, k) |-> SumStep(f, s, sum)]
            Bad == {k \in Nat : ~ Defined(k)}
<1>1. \A s \in SUBSET S : IsFiniteSet(s) /\ Cardinality(s) \in Nat /\ Cardinality(s) <= Cardinality(S)
  BY FS_Subset, FS_CardinalityType
<1>2. Bad = {}
  <2>1. SUFFICES ASSUME Bad # {} PROVE FALSE OBVIOUS
  <2>2. PICK k \in Bad : \A j \in Bad : k <= j
    <3>. HIDE DEF Defined
    <3>. QED BY <2>1, LeastNatural
  <2>3. CASE k = 0
    <3>. DEFINE sum == [s \in UpTo(S, 0) |-> 0]
    <3>1. \A s \in UpTo(S, 0) : s = {}
      BY <1>1, FS_EmptySet DEF UpTo
    <3>2. \A s \in UpTo(S, 0) : SumStep(f, s, sum) = 0
      BY <3>1 DEF SumStep
    <3>3. sum = [s \in UpTo(S, 0) |-> SumStep(f, s, sum)]
      BY <3>2
    <3>. QED BY <3>3, <2>3
  <2>4. CASE k # 0
    <3>1. PICK low : low = [s \in UpTo(S, k - 1) |-> SumStep(f, s, low)]
      BY <2>2, <2>4
    <3>. DEFINE sum == [s \in UpTo(S, k) |-> SumStep(f, s, low)]
    <3>2. ASSUME NEW s \in UpTo(S, k) PROVE SumStep(f, s, low) = SumStep(f, s, sum)
      <4>1. CASE s = {} BY <4>1 DEF SumStep
      <4>2. CASE s # {}
        <5>. DEFINE t == s \ {Pick(s)}
        <5>1. t \in UpTo(S, k - 1) /\ t \in UpTo(S, k)
          BY <4>2, <1>1, Picked, <2>4 DEF UpTo
        <5>2. low[t] = SumStep(f, t, low) BY <3>1, <5>1
        <5>3. sum[t] = SumStep(f, t, low) BY <5>1
        <5>. HIDE DEF sum
        <5>. QED BY <5>2, <5>3 DEF SumStep
      <4>. QED BY <4>1, <4>2
    <3>3. sum = [s \in UpTo(S, k) |-> SumStep(f, s, sum)]
      BY <3>2
    <3>. QED BY <3>3, <2>2
  <2>. QED BY <2>3, <2>4
<1>3. UpTo(S, Cardinality(S)) = SUBSET S
  BY <1>1 DEF UpTo
<1>4. Defined(Cardinality(S))
  BY <1>2, FS_CardinalityType
<1>5. \E sum : sum = [s \in SUBSET S |-> SumStep(f, s, sum)]
  BY <1>3, <1>4
<1>. QED BY <1>5 DEF Summed

\* The sum of equal numbers and, last, of one that may differ.
LEMMA LastDiffers ==
  ASSUME NEW L \in Nat, NEW full \in Nat, NEW last \in Nat, NEW f,
         \A i \in 1 .. L : f[i] = IF i = L THEN last ELSE full
  PROVE  Summed(f, 1 .. L)[1 .. L] = IF L = 0 THEN 0 ELSE (L - 1) * full + last
<1>. DEFINE S == 1 .. L
            sum == Summed(f, S)
            Added(s) == IF L \in s THEN (Cardinality(s) - 1) * full + last
                        ELSE Cardinality(s) * full
<1>1. IsFiniteSet(S) /\ Cardinality(S) = L /\ (L # 0 => L \in S) /\ (L = 0 => S = {})
  BY FS_Interval
<1>2. \A s \in SUBSET S : IsFiniteSet(s) /\ Cardinality(s) \in Nat
  BY <1>1, FS_Subset, FS_CardinalityType
<1>4. \A i \in S : f[i] = IF i = L THEN last ELSE full OBVIOUS
<1>. HIDE DEF S
<1>3. \A s \in SUBSET S : sum[s] = SumStep(f, s, sum)
  <2>1. IsFiniteSet(S) BY <1>1
  <2>2. sum = [s \in SUBSET S |-> SumStep(f, s, sum)] BY ONLY <2>1, SumDefined
  <2>. HIDE DEF sum
  <2>. QED BY ONLY <2>2
<1>. HIDE DEF sum
<1>5. \A s \in SUBSET S : sum[s] = Added(s)
  <2>. DEFINE Wrong(k) == \E s \in SUBSET S : Cardinality(s) = k /\ sum[s] # Added(s)
              Bad == {k \in Nat : Wrong(k)}
  <2>1. SUFFICES ASSUME Bad # {} PROVE FALSE BY <1>2
  <2>2. PICK k \in Bad : \A j \in Bad : k <= j
    <3>. HIDE DEF Wrong
    <3>. QED BY <2>1, LeastNatural
  <2>3. PICK s \in SUBSET S : Cardinality(s) = k /\ sum[s] # Added(s)
    BY <2>2
  <2>4. s # {}
    <3>1. ASSUME s = {} PROVE FALSE
      <4>1. sum[s] = 0 BY <3>1, <1>3 DEF SumStep
      <4>2. Cardinality(s) = 0 BY <3>1, FS_EmptySet
      <4>3. Added(s) = 0 BY <3>1, <4>2
      <4>. QED BY <4>1, <4>3, <2>3
    <3>. QED BY <3>1
  <2>. DEFINE i == Pick(s)
              t == s \ {i}
  <2>5. i \in s /\ k \in Nat \ {0} /\ Cardinality(t) = k - 1
    BY <2>3, <2>4, <1>2, Picked
  <2>6. t \in SUBSET S OBVIOUS
  <2>7. sum[t] = Added(t)
    <3>1. k - 1 \notin Bad /\ k - 1 \in Nat BY <2>2, <2>5
    <3>. QED BY <3>1, <2>5, <2>6
  <2>8. sum[s] = f[i] + sum[t] BY <2>4, <1>3 DEF SumStep
  <2>9. (L \in t <=> L \in s /\ i # L) OBVIOUS
  <2>10. i \in S BY <2>5
  <2>. HIDE DEF t, i
  <2>11. CASE i = L
    <3>1. f[i] = last /\ sum[t] = (k - 1) * full /\ Added(s) = (k - 1) * full + last
      BY <2>11, <1>4, <2>3, <2>5, <2>7, <2>9, <2>10
    <3>2. (k - 1) * full \in Nat BY <2>5
    <3>. QED BY <3>1, <3>2, <2>3, <2>8
  <2>12. CASE i # L /\ L \in s
    <3>1. f[i] = full /\ sum[t] = ((k - 1) - 1) * full + last /\ Added(s) = (k - 1) * full + last
      BY <2>12, <1>4, <2>3, <2>5, <2>7, <2>9, <2>10
    <3>2. ((k - 1) - 1) * full + full = (k - 1) * full /\ ((k - 1) - 1) * full \in Int
          /\ (k - 1) * full \in Int BY <2>5
    <3>. QED BY <3>1, <3>2, <2>3, <2>8
  <2>13. CASE i # L /\ L \notin s
    <3>1. f[i] = full /\ sum[t] = (k - 1) * full /\ Added(s) = k * full
      BY <2>13, <1>4, <2>3, <2>5, <2>7, <2>9, <2>10
    <3>2. (k - 1) * full + full = k * full /\ (k - 1) * full \in Nat BY <2>5
    <3>. QED BY <3>1, <3>2, <2>3, <2>8
  <2>. QED BY <2>11, <2>12, <2>13
<1>6. sum[S] = Added(S) BY <1>5
<1>. QED BY <1>1, <1>6 DEF sum, S

-----------------------------------------------------------------------------
(* Reading the cache *)

CacheToken == [key : HeadValues, value : HeadValues]

PageSizes == [p \in DOMAIN cache |-> PageSize(cache[p])]

\* The sizes of the pages add up to the number of tokens that were appended.
LEMMA TokensCounted == ASSUME CacheInv PROVE CacheTokens = Len(appended)
<1>. DEFINE S == DOMAIN cache
            L == Len(cache)
            Folded(sum) == [s \in SUBSET S |-> SumStep(PageSizes, s, sum)]
            Mapped(sum) == [s \in SUBSET S |->
                              IF s = {} THEN 0
                              ELSE PageSize(cache[CHOOSE x \in s : TRUE])
                                     + sum[s \ {CHOOSE x \in s : TRUE}]]
<1>1. ASSUME NEW sum PROVE Folded(sum) = Mapped(sum)
  <2>1. ASSUME NEW s \in SUBSET S, s # {}
        PROVE  PageSizes[Pick(s)] = PageSize(cache[CHOOSE x \in s : TRUE])
    <3>1. Pick(s) \in S BY <2>1 DEF Pick
    <3>. QED BY <3>1 DEF Pick, PageSizes
  <2>. QED BY <2>1 DEF SumStep, Pick
<1>2. (CHOOSE sum : sum = Folded(sum)) = (CHOOSE sum : sum = Mapped(sum))
  <2>. HIDE DEF Folded, Mapped
  <2>. QED BY <1>1
<1>3. Summed(PageSizes, S) = CHOOSE sum : sum = Folded(sum) BY DEF Summed
<1>4. CacheTokens = (CHOOSE sum : sum = Mapped(sum))[S]
  BY DEF CacheTokens, MapThenSumSet, MapThenFoldSet
<1>5. CacheTokens = Summed(PageSizes, S)[S] BY <1>2, <1>3, <1>4
<1>6. cache \in Seq(CachePage) /\ S = 1 .. L /\ L \in Nat BY DEF CacheInv, Laid
<1>7. \A p \in 1 .. L : Len(cache[p].keys) \in Nat BY <1>6 DEF CachePage
<1>. DEFINE last == IF L = 0 THEN 0 ELSE Len(cache[L].keys)
<1>8. last \in Nat BY <1>6, <1>7
<1>9. \A p \in 1 .. L : PageSizes[p] = IF p = L THEN last ELSE PageTokens
  <2>1. \A p \in 1 .. L - 1 : Len(cache[p].keys) = PageTokens BY DEF CacheInv, Laid
  <2>2. \A p \in 1 .. L : PageSizes[p] = Len(cache[p].keys) BY <1>6 DEF PageSizes, PageSize
  <2>. SUFFICES ASSUME NEW p \in 1 .. L
                PROVE  PageSizes[p] = IF p = L THEN last ELSE PageTokens
    OBVIOUS
  <2>3. CASE p = L
    <3>1. L # 0 BY <1>6
    <3>. QED BY <2>2, <2>3, <3>1
  <2>4. CASE p # L
    <3>1. p \in 1 .. L - 1
      <4>1. L \in Nat BY <1>6
      <4>. HIDE DEF L
      <4>. QED BY <2>4, <4>1
    <3>. QED BY <2>1, <2>2, <2>4, <3>1
  <2>. QED BY <2>3, <2>4
<1>10. Len(appended) = IF L = 0 THEN 0 ELSE (L - 1) * PageTokens + last
  <2>1. L = 0 => cache = <<>> BY <1>6
  <2>2. L # 0 => cache # <<>> BY <1>6
  <2>. QED BY <2>1, <2>2 DEF CacheInv, Laid
<1>. HIDE DEF last, L, S
<1>11. Summed(PageSizes, 1 .. L)[1 .. L] = IF L = 0 THEN 0 ELSE (L - 1) * PageTokens + last
  BY <1>6, <1>8, <1>9, LastDiffers, CacheSizes
<1>. QED BY <1>5, <1>6, <1>10, <1>11

\* So no index of an appended token is refused.
LEMMA TokenAt ==
  ASSUME CacheInv, NEW index \in 0 .. Len(appended) - 1
  PROVE  GetToken(index) = <<appended[index + 1]>>
<1>1. GetToken(index) \in {None, <<appended[index + 1]>>} BY TokenFound
<1>2. CacheTokens = Len(appended) BY TokensCounted
<1>3. GetToken(index) # None BY <1>2 DEF GetToken, None
<1>. QED BY <1>1, <1>3

\* The loops of the reference that go over a sequence: what is collected after
\* each of its elements.
FlattenAfter(seqs, flat, i) == IF i = 1 THEN seqs[i] ELSE flat[i - 1] \o seqs[i]
KeptAfter(cached, mask, taken, t) ==
  IF t = 0 THEN <<>>
  ELSE IF mask = None \/ mask[1][t] THEN Append(taken[t - 1], cached[t])
  ELSE taken[t - 1]

LEMMA FlattenExists ==
  ASSUME NEW seqs, NEW K \in Nat
  PROVE  \E flat : flat = [i \in 1 .. K |-> FlattenAfter(seqs, flat, i)]
<1>. DEFINE Upto(N, flat) == flat = [i \in 1 .. N |-> FlattenAfter(seqs, flat, i)]
            Bad == {N \in Nat : ~ \E flat : Upto(N, flat)}
<1>1. SUFFICES ASSUME Bad # {} PROVE FALSE OBVIOUS
<1>2. PICK N \in Bad : \A M \in Bad : N <= M
  <2>. HIDE DEF Upto
  <2>. QED BY <1>1, LeastNatural
<1>3. CASE N = 0
  <2>. DEFINE none == [i \in 1 .. 0 |-> seqs]
  <2>1. none = [i \in 1 .. 0 |-> FlattenAfter(seqs, none, i)] OBVIOUS
  <2>. QED BY <2>1, <1>3
<1>4. CASE N # 0
  <2>0. N - 1 \in Nat /\ N - 1 \notin Bad BY <1>2, <1>4
  <2>1. PICK flat : Upto(N - 1, flat) BY <2>0
  <2>. DEFINE next == [i \in 1 .. N |-> FlattenAfter(seqs, flat, i)]
  <2>2. ASSUME NEW i \in 1 .. N PROVE FlattenAfter(seqs, flat, i) = FlattenAfter(seqs, next, i)
    <3>1. CASE i = 1 BY <3>1 DEF FlattenAfter
    <3>2. CASE i # 1
      <4>1. i - 1 \in 1 .. N - 1 /\ i - 1 \in 1 .. N BY <3>2, <1>4
      <4>2. flat[i - 1] = FlattenAfter(seqs, flat, i - 1) BY <4>1, <2>1
      <4>3. next[i - 1] = flat[i - 1] BY <4>1, <4>2
      <4>. HIDE DEF next
      <4>. QED BY <4>3 DEF FlattenAfter
    <3>. QED BY <3>1, <3>2
  <2>3. next = [i \in 1 .. N |-> FlattenAfter(seqs, next, i)] BY <2>2
  <2>. HIDE DEF next
  <2>. QED BY <2>3
<1>. QED BY <1>3, <1>4

LEMMA KeptExists ==
  ASSUME NEW cached, NEW mask, NEW K \in Nat
  PROVE  \E taken : taken = [t \in 0 .. K |-> KeptAfter(cached, mask, taken, t)]
<1>. DEFINE Upto(N, taken) == taken = [t \in 0 .. N |-> KeptAfter(cached, mask, taken, t)]
            Bad == {N \in Nat : ~ \E taken : Upto(N, taken)}
<1>1. SUFFICES ASSUME Bad # {} PROVE FALSE OBVIOUS
<1>2. PICK N \in Bad : \A M \in Bad : N <= M
  <2>. HIDE DEF Upto
  <2>. QED BY <1>1, LeastNatural
<1>3. CASE N = 0
  <2>. DEFINE first == [t \in 0 .. 0 |-> <<>>]
  <2>1. \A t \in 0 .. 0 : KeptAfter(cached, mask, first, t) = <<>> BY DEF KeptAfter
  <2>2. first = [t \in 0 .. 0 |-> KeptAfter(cached, mask, first, t)] BY <2>1
  <2>. QED BY <2>2, <1>3
<1>4. CASE N # 0
  <2>0. N - 1 \in Nat /\ N - 1 \notin Bad BY <1>2, <1>4
  <2>1. PICK taken : Upto(N - 1, taken) BY <2>0
  <2>. DEFINE next == [t \in 0 .. N |-> KeptAfter(cached, mask, taken, t)]
  <2>2. ASSUME NEW t \in 0 .. N
        PROVE  KeptAfter(cached, mask, taken, t) = KeptAfter(cached, mask, next, t)
    <3>1. CASE t = 0 BY <3>1 DEF KeptAfter
    <3>2. CASE t # 0
      <4>1. t - 1 \in 0 .. N - 1 /\ t - 1 \in 0 .. N BY <3>2, <1>4
      <4>2. taken[t - 1] = KeptAfter(cached, mask, taken, t - 1) BY <4>1, <2>1
      <4>3. next[t - 1] = taken[t - 1] BY <4>1, <4>2
      <4>. HIDE DEF next
      <4>. QED BY <4>3 DEF KeptAfter
    <3>. QED BY <3>1, <3>2
  <2>3. next = [t \in 0 .. N |-> KeptAfter(cached, mask, next, t)] BY <2>2
  <2>. HIDE DEF next
  <2>. QED BY <2>3
<1>. QED BY <1>3, <1>4

\* L pieces of P elements, the last of any length, that hold a sequence in order.
Pieces(T, L, P, whole, seqs) ==
  /\ L \in Nat \ {0} /\ P \in Nat /\ whole \in Seq(T)
  /\ seqs \in Seq(Seq(T)) /\ Len(seqs) = L
  /\ \A p \in 1 .. L - 1 : Len(seqs[p]) = P
  /\ Len(whole) = (L - 1) * P + Len(seqs[L])
  /\ \A p \in 1 .. L : \A i \in 1 .. Len(seqs[p]) : whole[(p - 1) * P + i] = seqs[p][i]

\* A sequence is what another begins with, and has a length.
Begins(T, s, n, whole) == s \in Seq(T) /\ Len(s) = n /\ \A k \in 1 .. n : s[k] = whole[k]

LEMMA BeginsLonger ==
  ASSUME NEW T, NEW a, NEW m \in Nat, NEW whole, Begins(T, a, m, whole), NEW b \in Seq(T),
         \A i \in 1 .. Len(b) : whole[m + i] = b[i]
  PROVE  Begins(T, a \o b, m + Len(b), whole)
<1>. DEFINE n == Len(b)
<1>1. a \in Seq(T) /\ Len(a) = m /\ n \in Nat BY DEF Begins
<1>2. a \o b \in Seq(T) /\ Len(a \o b) = m + n BY <1>1, ConcatProperties
<1>3. ASSUME NEW k \in 1 .. m + n PROVE (a \o b)[k] = whole[k]
  <2>1. CASE k <= m
    <3>1. k \in 1 .. m /\ k \in 1 .. m + n BY <1>1, <2>1, <1>3
    <3>2. (a \o b)[k] = a[k] BY <1>1, <3>1
    <3>. QED BY <3>1, <3>2 DEF Begins
  <2>2. CASE k > m
    <3>. HIDE DEF n
    <3>1. k - m \in 1 .. n /\ m + (k - m) = k BY <1>1, <2>2, <1>3
    <3>2. (a \o b)[k] = b[k - m] BY <1>1, <1>3, <2>2 DEF n
    <3>. QED BY <3>1, <3>2 DEF n
  <2>. QED BY <1>1, <2>1, <2>2, <1>3
<1>. QED BY <1>2, <1>3 DEF Begins

LEMMA Concatenated ==
  ASSUME NEW T, NEW L, NEW P, NEW whole, NEW seqs, Pieces(T, L, P, whole, seqs)
  PROVE  FlattenSeq(seqs) = whole
<1>. DEFINE flat == CHOOSE g : g = [i \in 1 .. L |-> FlattenAfter(seqs, g, i)]
            size(p) == (p - 1) * P + Len(seqs[p])
            Good(p) == Begins(T, flat[p], size(p), whole)
<1>0. L \in Nat \ {0} /\ P \in Nat /\ whole \in Seq(T) /\ Len(seqs) = L
  BY DEF Pieces
<1>1. flat = [i \in 1 .. L |-> FlattenAfter(seqs, flat, i)]
  <2>1. \E g : g = [i \in 1 .. L |-> FlattenAfter(seqs, g, i)] BY <1>0, FlattenExists
  <2>. QED BY <2>1
<1>2. FlattenSeq(seqs) = flat[L] BY <1>0 DEF FlattenSeq, FlattenAfter
<1>. HIDE DEF flat
<1>3. \A p \in 1 .. L : seqs[p] \in Seq(T) /\ Len(seqs[p]) \in Nat
  BY DEF Pieces
<1>4. \A p \in 1 .. L : Good(p)
  <2>. DEFINE Bad == {p \in 1 .. L : ~ Good(p)}
  <2>1. SUFFICES ASSUME Bad # {} PROVE FALSE
    <3>. HIDE DEF Good
    <3>. QED OBVIOUS
  <2>2. PICK p \in Bad : \A j \in Bad : p <= j
    <3>. HIDE DEF Good
    <3>1. Bad \in SUBSET Nat BY <1>0
    <3>. HIDE DEF Bad
    <3>. QED BY <2>1, <3>1, LeastNatural
  <2>3. p \in 1 .. L /\ ~ Good(p)
    <3>. HIDE DEF Good
    <3>. QED OBVIOUS
  <2>4. \A j \in 1 .. L : j < p => Good(j)
    <3>. HIDE DEF Good
    <3>. QED BY <2>2
  <2>. HIDE DEF Bad
  <2>5. flat[p] = FlattenAfter(seqs, flat, p) BY <1>1, <2>3
  <2>6. \A i \in 1 .. Len(seqs[p]) : whole[(p - 1) * P + i] = seqs[p][i]
    BY <2>3 DEF Pieces
  <2>7. (p - 1) * P \in Nat BY <1>0, <2>3
  <2>8. CASE p = 1
    <3>. DEFINE b == seqs[p]
    <3>1. flat[p] = b BY <2>5, <2>8 DEF FlattenAfter
    <3>2. (p - 1) * P = 0 BY <1>0, <2>8
    <3>3. b \in Seq(T) /\ Len(b) \in Nat BY <1>3, <2>3
    <3>4. \A i \in 1 .. Len(b) : whole[0 + i] = b[i] BY <2>6, <3>2
    <3>5. size(p) = 0 + Len(b) BY <3>2
    <3>. HIDE DEF b
    <3>6. Begins(T, b, 0 + Len(b), whole) BY <3>3, <3>4 DEF Begins
    <3>. QED BY <2>3, <3>1, <3>5, <3>6
  <2>9. CASE p # 1
    <3>. DEFINE m == (p - 1) * P
    <3>1. p - 1 \in 1 .. L - 1 /\ p - 1 \in 1 .. L /\ p - 1 < p BY <1>0, <2>3, <2>9
    <3>2. Good(p - 1)
      <4>. HIDE DEF Good
      <4>. QED BY <2>4, <3>1
    <3>3. size(p - 1) = m
      <4>1. Len(seqs[p - 1]) = P BY <3>1 DEF Pieces
      <4>2. ((p - 1) - 1) * P + P = (p - 1) * P BY <1>0, <3>1
      <4>. QED BY <4>1, <4>2
    <3>4. flat[p] = flat[p - 1] \o seqs[p] BY <2>5, <2>9 DEF FlattenAfter
    <3>5. Begins(T, flat[p - 1], m, whole) BY <3>2, <3>3
    <3>6. seqs[p] \in Seq(T) /\ m \in Nat BY <1>3, <2>3, <2>7
    <3>7. Begins(T, flat[p - 1] \o seqs[p], m + Len(seqs[p]), whole)
      <4>1. \A i \in 1 .. Len(seqs[p]) : whole[m + i] = seqs[p][i] BY <2>6
      <4>. HIDE DEF m
      <4>. QED BY ONLY <3>5, <3>6, <4>1, BeginsLonger
    <3>. QED BY <2>3, <3>4, <3>7
  <2>. QED BY <2>8, <2>9
<1>5. Begins(T, flat[L], Len(whole), whole)
  <2>1. L \in 1 .. L BY <1>0
  <2>2. size(L) = Len(whole) BY DEF Pieces
  <2>. QED BY <1>4, <2>1, <2>2
<1>6. flat[L] = whole
  <2>. DEFINE v == flat[L]
  <2>1. v \in Seq(T) /\ Len(v) = Len(whole) /\ \A k \in 1 .. Len(whole) : v[k] = whole[k]
    BY <1>5 DEF Begins
  <2>. HIDE DEF v
  <2>2. v = whole BY <1>0, <2>1, SeqEqual
  <2>. QED BY <2>2 DEF v
<1>. QED BY <1>2, <1>6

\* What the loop over pages and tokens yields are the appended tokens.
LEMMA AllIterated ==
  ASSUME CacheInv
  PROVE  FlattenSeq([p \in DOMAIN cache |-> Zipped(cache[p])]) = appended
<1>. DEFINE L == Len(cache)
            pieces == [p \in DOMAIN cache |-> Zipped(cache[p])]
<1>1. cache \in Seq(CachePage) /\ DOMAIN cache = 1 .. L /\ L \in Nat
      /\ appended \in Seq(CacheToken)
  BY DEF CacheInv, Laid, CacheToken
<1>2. ASSUME NEW p \in 1 .. L
      PROVE  /\ Zipped(cache[p]) \in Seq(CacheToken)
             /\ Len(Zipped(cache[p])) = Len(cache[p].keys)
             /\ \A i \in 1 .. Len(cache[p].keys) :
                  Zipped(cache[p])[i] = appended[(p - 1) * PageTokens + i]
  <2>. DEFINE page == cache[p]
              n == Len(page.keys)
  <2>1. page \in CachePage /\ Holds(cache, p, appended) BY <1>1 DEF CacheInv, Laid
  <2>2. page.keys \in Seq(HeadValues) /\ page.values \in Seq(HeadValues) /\ n \in Nat
        /\ Len(page.values) = n
    BY <2>1 DEF CachePage, Holds
  <2>3. \A i \in 1 .. n : appended[(p - 1) * PageTokens + i] = Token(page.keys[i], page.values[i])
    BY <2>1 DEF Holds
  <2>. HIDE DEF page
  <2>4. \A i \in 1 .. n : Token(page.keys[i], page.values[i]) \in CacheToken
    BY <2>2 DEF Token, CacheToken
  <2>5. Zipped(page) = [i \in 1 .. n |-> Token(page.keys[i], page.values[i])]
    BY DEF Zipped, PageSize
  <2>. HIDE DEF n
  <2>6. Zipped(page) \in Seq(CacheToken) /\ Len(Zipped(page)) = n
    BY <2>2, <2>4, <2>5
  <2>. QED BY <2>3, <2>5, <2>6 DEF page, n
<1>3. CASE L = 0
  <2>1. cache = <<>> BY <1>1, <1>3
  <2>2. appended = <<>> /\ pieces = <<>> BY <2>1 DEF CacheInv, Laid
  <2>3. Len(pieces) = 0 BY <2>2
  <2>. HIDE DEF pieces
  <2>4. FlattenSeq(pieces) = pieces BY <2>3 DEF FlattenSeq
  <2>. QED BY <2>2, <2>4 DEF pieces
<1>4. CASE L # 0
  <2>1. cache # <<>> BY <1>1, <1>4
  <2>2. /\ Len(appended) = (L - 1) * PageTokens + Len(cache[L].keys)
        /\ \A p \in 1 .. L - 1 : Len(cache[p].keys) = PageTokens
    BY <2>1 DEF CacheInv, Laid
  <2>. HIDE DEF L
  <2>3. pieces \in Seq(Seq(CacheToken)) /\ Len(pieces) = L
        /\ \A p \in 1 .. L : pieces[p] = Zipped(cache[p])
    BY <1>1, <1>2
  <2>. HIDE DEF pieces
  <2>4. L \in Nat \ {0} /\ L \in 1 .. L /\ \A p \in 1 .. L - 1 : p \in 1 .. L BY <1>1, <1>4
  <2>5. \A p \in 1 .. L - 1 : Len(pieces[p]) = PageTokens BY <1>2, <2>2, <2>3, <2>4
  <2>6. Len(appended) = (L - 1) * PageTokens + Len(pieces[L]) BY <1>2, <2>2, <2>3, <2>4
  <2>7. \A p \in 1 .. L : \A i \in 1 .. Len(pieces[p]) :
          appended[(p - 1) * PageTokens + i] = pieces[p][i]
    <3>1. ASSUME NEW p \in 1 .. L, NEW i \in 1 .. Len(pieces[p])
          PROVE  appended[(p - 1) * PageTokens + i] = pieces[p][i]
      <4>1. pieces[p] = Zipped(cache[p]) BY ONLY <2>3, <3>1
      <4>. QED BY ONLY <1>2, <3>1, <4>1
    <3>. QED BY ONLY <3>1
  <2>8. PageTokens \in Nat BY CacheSizes
  <2>9. Pieces(CacheToken, L, PageTokens, appended, pieces)
    BY <1>1, <2>3, <2>4, <2>5, <2>6, <2>7, <2>8 DEF Pieces
  <2>10. FlattenSeq(pieces) = appended BY <2>9, Concatenated
  <2>. QED BY <2>10 DEF pieces
<1>. QED BY <1>3, <1>4

\* A limit gives the first tokens, as many as there are of them.
LEMMA Iterated ==
  ASSUME CacheInv
  PROVE  /\ IterTokens(None) = appended
         /\ \A limit \in Nat :
              IterTokens(<<limit>>) =
                SubSeq(appended, 1, IF limit < Len(appended) THEN limit ELSE Len(appended))
<1>. DEFINE all == FlattenSeq([p \in DOMAIN cache |-> Zipped(cache[p])])
<1>1. appended \in Seq(CacheToken) /\ Len(appended) \in Nat BY DEF CacheInv, Laid, CacheToken
<1>2. all = appended BY AllIterated
<1>3. \A limit : IterTokens(limit) =
        IF limit = None \/ limit[1] >= Len(appended) THEN appended
        ELSE SubSeq(appended, 1, limit[1])
  <2>. HIDE DEF all
  <2>. QED BY <1>2 DEF IterTokens, all
<1>4. SubSeq(appended, 1, Len(appended)) = appended BY <1>1
<1>5. \A limit \in Nat : <<limit>> # None /\ <<limit>>[1] = limit BY DEF None
<1>. QED BY <1>1, <1>3, <1>4, <1>5

\* The positions up to t that a mask keeps, and how many of them are up to i.
KeptUpTo(mask, t) == {i \in 1 .. t : mask = None \/ mask[1][i]}
RankIn(positions, i) == Cardinality({j \in positions : j <= i})

\* What is kept of the first t tokens: as many as there are positions, each at
\* the place of its rank, and no place without a position.
KeptSound(cached, mask, t, taken) ==
  LET positions == KeptUpTo(mask, t)
  IN  /\ taken \in Seq(CacheToken)
      /\ Len(taken) = Cardinality(positions)
      /\ \A i \in positions :
           RankIn(positions, i) \in 1 .. Len(taken) /\ taken[RankIn(positions, i)] = cached[i]
      /\ \A k \in 1 .. Len(taken) : \E i \in positions : RankIn(positions, i) = k

LEMMA UpToFinite ==
  ASSUME NEW mask, NEW t \in Nat
  PROVE  /\ IsFiniteSet(KeptUpTo(mask, t)) /\ Cardinality(KeptUpTo(mask, t)) \in Nat
         /\ \A i \in KeptUpTo(mask, t) : i \in 1 .. t
<1>1. KeptUpTo(mask, t) \subseteq 1 .. t BY DEF KeptUpTo
<1>2. IsFiniteSet(1 .. t) BY FS_Interval
<1>3. IsFiniteSet(KeptUpTo(mask, t)) BY <1>1, <1>2, FS_Subset
<1>. QED BY <1>1, <1>3, FS_CardinalityType

LEMMA KeptStep ==
  ASSUME NEW cached \in Seq(CacheToken), NEW mask, NEW t \in 1 .. Len(cached),
         NEW taken, KeptSound(cached, mask, t - 1, taken)
  PROVE  KeptSound(cached, mask, t,
                   IF mask = None \/ mask[1][t] THEN Append(taken, cached[t]) ELSE taken)
<1>. DEFINE P == KeptUpTo(mask, t - 1)
            Q == KeptUpTo(mask, t)
            n == Len(taken)
            more == Append(taken, cached[t])
<1>1. t \in Nat \ {0} /\ t - 1 \in Nat /\ cached[t] \in CacheToken OBVIOUS
<1>2. /\ taken \in Seq(CacheToken) /\ n = Cardinality(P) /\ n \in Nat
      /\ \A i \in P : RankIn(P, i) \in 1 .. n /\ taken[RankIn(P, i)] = cached[i]
      /\ \A k \in 1 .. n : \E i \in P : RankIn(P, i) = k
  BY DEF KeptSound
<1>3. IsFiniteSet(P) /\ \A i \in P : i \in 1 .. t - 1 BY <1>1, UpToFinite
<1>4. CASE ~ (mask = None \/ mask[1][t])
  <2>1. Q = P BY <1>1, <1>4 DEF KeptUpTo
  <2>. QED BY <1>4, <2>1 DEF KeptSound
<1>5. CASE mask = None \/ mask[1][t]
  <2>1. Q = P \cup {t} BY <1>1, <1>5 DEF KeptUpTo
  <2>2. t \notin P BY <1>1, <1>3
  <2>3. Cardinality(Q) = n + 1 BY <1>2, <1>3, <2>1, <2>2, FS_AddElement
  <2>4. more \in Seq(CacheToken) /\ Len(more) = n + 1 /\ more[n + 1] = cached[t]
        /\ \A k \in 1 .. n : more[k] = taken[k]
    BY <1>1, <1>2
  <2>. HIDE DEF P, Q, more, n
  <2>5. ASSUME NEW i \in P PROVE RankIn(Q, i) = RankIn(P, i)
    <3>1. {j \in Q : j <= i} = {j \in P : j <= i} BY <1>1, <1>3, <2>1, <2>5
    <3>. QED BY <3>1 DEF RankIn
  <2>6. RankIn(Q, t) = n + 1
    <3>1. {j \in Q : j <= t} = Q BY <1>1, <1>3, <2>1
    <3>. QED BY <2>3, <3>1 DEF RankIn
  <2>7. \A i \in Q : RankIn(Q, i) \in 1 .. n + 1 /\ more[RankIn(Q, i)] = cached[i]
    <3>1. ASSUME NEW i \in P PROVE RankIn(Q, i) \in 1 .. n + 1 /\ more[RankIn(Q, i)] = cached[i]
      <4>1. RankIn(P, i) \in 1 .. n /\ taken[RankIn(P, i)] = cached[i] BY <1>2
      <4>2. RankIn(P, i) \in 1 .. n + 1 BY <1>2, <4>1
      <4>. QED BY <2>4, <2>5, <4>1, <4>2
    <3>2. RankIn(Q, t) \in 1 .. n + 1 /\ more[RankIn(Q, t)] = cached[t] BY <1>2, <2>4, <2>6
    <3>. QED BY <2>1, <3>1, <3>2
  <2>8. \A k \in 1 .. n + 1 : \E i \in Q : RankIn(Q, i) = k
    <3>1. \A k \in 1 .. n + 1 : k \in 1 .. n \/ k = n + 1 BY <1>2
    <3>. QED BY <1>2, <2>1, <2>5, <2>6, <3>1
  <2>9. KeptSound(cached, mask, t, more) BY <2>3, <2>4, <2>7, <2>8 DEF KeptSound, Q
  <2>. QED BY <1>5, <2>9 DEF more
<1>. QED BY <1>4, <1>5

\* The loop of a decode step keeps the tokens at the positions of the mask.
LEMMA KeptIsSound ==
  ASSUME NEW cached \in Seq(CacheToken), NEW mask
  PROVE  KeptSound(cached, mask, Len(cached), Kept(cached, mask))
<1>. DEFINE K == Len(cached)
            taken == CHOOSE g : g = [t \in 0 .. K |-> KeptAfter(cached, mask, g, t)]
            Good(t) == KeptSound(cached, mask, t, taken[t])
<1>0. K \in Nat OBVIOUS
<1>1. taken = [t \in 0 .. K |-> KeptAfter(cached, mask, taken, t)]
  <2>. HIDE DEF K
  <2>1. \E g : g = [t \in 0 .. K |-> KeptAfter(cached, mask, g, t)] BY <1>0, KeptExists
  <2>. QED BY <2>1
<1>2. Kept(cached, mask) = taken[K] BY DEF Kept, KeptAfter
<1>. HIDE DEF taken
<1>3. \A t \in 0 .. K : Good(t)
  <2>. DEFINE Bad == {t \in 0 .. K : ~ Good(t)}
  <2>. HIDE DEF Good
  <2>1. SUFFICES ASSUME Bad # {} PROVE FALSE OBVIOUS
  <2>2. PICK t \in Bad : \A j \in Bad : t <= j
    <3>1. Bad \in SUBSET Nat BY <1>0
    <3>. HIDE DEF Bad
    <3>. QED BY <2>1, <3>1, LeastNatural
  <2>3. t \in 0 .. K /\ ~ Good(t) OBVIOUS
  <2>4. \A j \in 0 .. K : j < t => Good(j) BY <2>2
  <2>. HIDE DEF Bad
  <2>5. taken[t] = KeptAfter(cached, mask, taken, t) BY <1>1, <2>3
  <2>6. CASE t = 0
    <3>1. taken[t] = <<>> BY <2>5, <2>6 DEF KeptAfter
    <3>2. KeptUpTo(mask, 0) = {} BY DEF KeptUpTo
    <3>3. Cardinality({}) = 0 BY FS_EmptySet
    <3>4. KeptSound(cached, mask, 0, <<>>)
      <4>. DEFINE P == KeptUpTo(mask, 0)
      <4>1. P = {} /\ Cardinality(P) = 0 BY <3>2, <3>3
      <4>2. <<>> \in Seq(CacheToken) /\ Len(<<>>) = 0 OBVIOUS
      <4>. HIDE DEF P
      <4>3. \A k \in 1 .. Len(<<>>) : FALSE BY <4>2
      <4>4. \A i \in P : FALSE BY <4>1
      <4>. QED BY <4>1, <4>2, <4>3, <4>4 DEF KeptSound, P
    <3>. QED BY <2>3, <2>6, <3>1, <3>4 DEF Good
  <2>7. CASE t # 0
    <3>1. t - 1 \in 0 .. K /\ t - 1 < t /\ t \in 1 .. K BY <1>0, <2>3, <2>7
    <3>2. KeptSound(cached, mask, t - 1, taken[t - 1]) BY <2>4, <3>1 DEF Good
    <3>3. taken[t] = IF mask = None \/ mask[1][t] THEN Append(taken[t - 1], cached[t])
                    ELSE taken[t - 1]
      BY <2>5, <2>7 DEF KeptAfter
    <3>4. KeptSound(cached, mask, t, taken[t]) BY <3>1, <3>2, <3>3, KeptStep
    <3>. QED BY <2>3, <3>4 DEF Good
  <2>. QED BY <2>6, <2>7
<1>4. K \in 0 .. K BY <1>0
<1>. QED BY <1>2, <1>3, <1>4

\* Without a mask every token is kept.
LEMMA AllKept ==
  ASSUME NEW cached \in Seq(CacheToken) PROVE Kept(cached, None) = cached
<1>. DEFINE K == Len(cached)
            P == KeptUpTo(None, K)
            taken == Kept(cached, None)
<1>1. K \in Nat /\ P = 1 .. K BY DEF KeptUpTo
<1>2. KeptSound(cached, None, K, taken) BY KeptIsSound
<1>. HIDE DEF taken, K
<1>3. \A i \in 1 .. K : RankIn(P, i) = i
  <2>. SUFFICES ASSUME NEW i \in 1 .. K PROVE RankIn(P, i) = i
    OBVIOUS
  <2>1. {j \in P : j <= i} = 1 .. i BY <1>1
  <2>2. i \in Nat BY <1>1
  <2>3. Cardinality(1 .. i) = i
    <3>1. Cardinality(1 .. i) = IF 1 > i THEN 0 ELSE i - 1 + 1 BY <2>2, FS_Interval
    <3>. QED BY <1>1, <3>1
  <2>. QED BY <2>1, <2>3 DEF RankIn
<1>4. Cardinality(P) = K
  <2>1. Cardinality(1 .. K) = IF 1 > K THEN 0 ELSE K - 1 + 1 BY <1>1, FS_Interval
  <2>. QED BY <1>1, <2>1
<1>. HIDE DEF P
<1>5. taken \in Seq(CacheToken) /\ Len(taken) = K /\ \A i \in 1 .. K : taken[i] = cached[i]
  BY <1>1, <1>2, <1>3, <1>4 DEF KeptSound, P
<1>6. taken = cached BY <1>5, SeqEqual DEF K
<1>. QED BY <1>6 DEF taken

\* With a mask, the tokens of the context at its positions.
LEMMA MaskKept ==
  ASSUME appended \in Seq(CacheToken), NEW n \in 0 .. Len(appended), NEW mask
  PROVE  Kept(SubSeq(appended, 1, n), <<mask>>) = KeptBy(mask, n)
<1>. DEFINE cached == SubSeq(appended, 1, n)
            positions == {i \in 1 .. n : mask[i]}
            P == KeptUpTo(<<mask>>, n)
            taken == Kept(cached, <<mask>>)
<1>0. n \in Nat OBVIOUS
<1>1. cached \in Seq(CacheToken) /\ Len(cached) = n /\ \A i \in 1 .. n : cached[i] = appended[i]
  OBVIOUS
<1>2. <<mask>> # None /\ <<mask>>[1] = mask BY DEF None
<1>3. P = positions
  <2>1. \A i \in 1 .. n : i \in P <=> i \in positions BY <1>2 DEF KeptUpTo
  <2>. QED BY <2>1 DEF KeptUpTo
<1>. HIDE DEF cached
<1>4. KeptSound(cached, <<mask>>, n, taken)
  <2>1. KeptSound(cached, <<mask>>, Len(cached), taken) BY <1>1, KeptIsSound
  <2>. QED BY <1>1, <2>1
<1>. HIDE DEF taken
<1>5. taken = [k \in 1 .. Cardinality(P) |-> taken[k]]
  <2>1. taken \in Seq(CacheToken) /\ Len(taken) = Cardinality(P) BY <1>4 DEF KeptSound
  <2>. HIDE DEF P
  <2>. QED BY <2>1
<1>6. ASSUME NEW k \in 1 .. Cardinality(P)
      PROVE  taken[k] = appended[CHOOSE i \in P : Cardinality({j \in P : j <= i}) = k]
  <2>. DEFINE c == CHOOSE i \in P : Cardinality({j \in P : j <= i}) = k
  <2>1. \E i \in P : RankIn(P, i) = k BY <1>4 DEF KeptSound
  <2>. HIDE DEF P
  <2>2. c \in P /\ RankIn(P, c) = k BY <2>1 DEF RankIn
  <2>. HIDE DEF c
  <2>3. taken[k] = cached[c] BY <1>4, <2>2 DEF KeptSound, P
  <2>4. c \in 1 .. n BY <2>2 DEF P, KeptUpTo
  <2>. QED BY <1>1, <2>3, <2>4 DEF c
<1>7. KeptBy(mask, n) =
        [k \in 1 .. Cardinality(P) |->
           appended[CHOOSE i \in P : Cardinality({j \in P : j <= i}) = k]]
  <2>. DEFINE Ranked(S) == [k \in 1 .. Cardinality(S) |->
                              appended[CHOOSE i \in S : Cardinality({j \in S : j <= i}) = k]]
  <2>1. KeptBy(mask, n) = Ranked(positions) BY DEF KeptBy
  <2>. HIDE DEF P, positions
  <2>2. Ranked(positions) = Ranked(P) BY <1>3
  <2>. QED BY <2>1, <2>2
<1>. HIDE DEF P
<1>8. taken = KeptBy(mask, n) BY <1>5, <1>6, <1>7
<1>. QED BY <1>8 DEF taken, cached

\* Heads of equal groups: the head that the quotient of the products gives is
\* the one of the group.
LEMMA GroupHead ==
  ASSUME NEW heads \in Nat \ {0}, NEW queries \in Nat \ {0}, queries % heads = 0,
         NEW a \in Nat
  PROVE  (a * heads) \div queries = a \div (queries \div heads)
<1>. DEFINE g == queries \div heads
            d == a \div g
            r == a % g
<1>1. g \in Nat /\ queries = heads * g
  <2>1. g \in Nat /\ queries = heads * g + (queries % heads) BY Divided
  <2>2. heads * g \in Nat BY <2>1
  <2>. HIDE DEF g
  <2>. QED BY <2>1, <2>2
<1>2. g # 0
  <2>. HIDE DEF g
  <2>1. SUFFICES ASSUME g = 0 PROVE FALSE OBVIOUS
  <2>2. heads * g = 0 BY <2>1
  <2>. QED BY <1>1, <2>2
<1>. HIDE DEF g
<1>3. d \in Nat /\ r \in 0 .. g - 1 /\ a = g * d + r BY <1>1, <1>2, Divided
<1>. HIDE DEF d, r
<1>4. a * heads = queries * d + r * heads
  <2>1. (g * d + r) * heads = (g * d) * heads + r * heads BY <1>1, <1>3
  <2>2. (g * d) * heads = (heads * g) * d BY <1>1, <1>3
  <2>. QED BY <1>1, <1>3, <2>1, <2>2
<1>5. r * heads \in 0 .. queries - 1
  <2>1. r \in Nat /\ r + 1 \in Nat /\ r + 1 <= g BY <1>1, <1>3
  <2>2. (r + 1) * heads <= g * heads /\ (r + 1) * heads = r * heads + heads /\ r * heads \in Nat
    BY <1>1, <2>1, Multiples
  <2>3. g * heads = heads * g BY <1>1
  <2>. QED BY <1>1, <2>2, <2>3
<1>6. (queries * d + r * heads) \div queries = d
  <2>. DEFINE e == r * heads
              x == queries * d + e
              q == x \div queries
  <2>1. e \in 0 .. queries - 1 /\ x \in Nat BY <1>3, <1>5
  <2>. HIDE DEF e
  <2>2. q \in Nat /\ x % queries \in 0 .. queries - 1 /\ x = queries * q + (x % queries)
    BY <2>1, Divided
  <2>. DEFINE f == x % queries
  <2>3. queries * d + e = queries * q + f BY <2>2
  <2>4. q \in Nat /\ f \in 0 .. queries - 1 BY <2>2
  <2>. HIDE DEF q, f
  <2>5. d = q
    <3>. DEFINE z == d - q
    <3>1. z \in Int /\ d = q + z BY <1>3, <2>4
    <3>2. queries * d = queries * q + queries * z
      <4>1. queries * (q + z) = queries * q + queries * z BY <2>4, <3>1
      <4>. QED BY <3>1, <4>1
    <3>3. queries * z = f - e /\ queries * q \in Int /\ queries * z \in Int
      BY <1>3, <2>1, <2>3, <2>4, <3>1, <3>2
    <3>. HIDE DEF z
    <3>4. z >= 1 => queries * z >= queries BY <3>1
    <3>5. z <= -1 => queries * z <= -queries BY <3>1
    <3>. QED BY <1>3, <2>1, <2>4, <3>1, <3>3, <3>4, <3>5
  <2>. QED BY <2>5 DEF q, e
<1>. QED BY <1>4, <1>6 DEF d, g

\* What a decode step weighs, from the tokens that it keeps.
LEMMA Decoded ==
  ASSUME NEW queries \in QueryLists, QueriesFit(queries), Len(queries) % KvHeads = 0,
         NEW context, NEW mask, DecodeAllowed(queries, context, mask)
  PROVE  AttentionDecode(queries, context, mask) =
           WeighedFrom(Kept(IterTokens(<<ContextOf(context)>>), mask), queries)
<1>. DEFINE tokens == Kept(IterTokens(<<ContextOf(context)>>), mask)
            N == Len(queries)
<1>1. queries \in Seq(Seq(Int)) /\ queries # <<>> BY CacheSizes DEF QueriesFit
<1>2. N \in Nat \ {0} /\ DOMAIN queries = 1 .. N BY <1>1
<1>. HIDE DEF N
<1>3. \A q \in 1 .. N : KvHeadOf(q - 1, N) = (q - 1) \div GroupSize(queries)
  <2>. SUFFICES ASSUME NEW q \in 1 .. N PROVE KvHeadOf(q - 1, N) = (q - 1) \div GroupSize(queries)
    OBVIOUS
  <2>1. q - 1 \in Nat BY <1>2
  <2>2. ((q - 1) * KvHeads) \div N = (q - 1) \div (N \div KvHeads)
    BY <1>2, <2>1, GroupHead, CacheSizes DEF N
  <2>. QED BY <2>2 DEF KvHeadOf, GroupSize, N
<1>. HIDE DEF tokens
<1>4. AttentionDecode(queries, context, mask) =
        [q \in DOMAIN queries |-> Weighed(queries[q], tokens, KvHeadOf(q - 1, N) + 1)]
  BY DEF AttentionDecode, tokens, N
<1>5. WeighedFrom(tokens, queries) =
        [q \in DOMAIN queries |->
           Weighed(queries[q], tokens, ((q - 1) \div GroupSize(queries)) + 1)]
  BY DEF WeighedFrom
<1>. QED BY <1>2, <1>3, <1>4, <1>5 DEF tokens

\* Whatever was appended is what is read, in that order: by iteration, by index
\* and by a decode step over any context and any mask, for every page size,
\* every number of heads and every list of queries (iter_tokens, get_token,
\* attention_decode).
THEOREM CacheReads == CacheSpec => []CacheReadsAppended
<1>1. CacheInv => CacheReadsAppended
  <2>. SUFFICES ASSUME CacheInv PROVE CacheReadsAppended
    OBVIOUS
  <2>. DEFINE n == Len(appended)
  <2>1. appended \in Seq(CacheToken) /\ n \in Nat BY DEF CacheInv, Laid, CacheToken
  <2>2. CacheTokens = n BY TokensCounted
  <2>3. PagesPacked BY Packed
  <2>4. IterTokens(None) = appended BY Iterated
  <2>5. \A limit \in 0 .. n + 1 :
          IterTokens(<<limit>>) = SubSeq(appended, 1, IF limit < n THEN limit ELSE n)
    <3>1. \A limit \in Nat :
            IterTokens(<<limit>>) = SubSeq(appended, 1, IF limit < n THEN limit ELSE n)
      BY Iterated
    <3>2. \A limit \in 0 .. n + 1 : limit \in Nat BY <2>1
    <3>. QED BY <3>1, <3>2
  <2>6. \A index \in -1 .. n :
          GetToken(index) = IF index \in 0 .. n - 1 THEN <<appended[index + 1]>> ELSE None
    <3>. SUFFICES ASSUME NEW index \in -1 .. n
                  PROVE  GetToken(index) = IF index \in 0 .. n - 1 THEN <<appended[index + 1]>>
                                           ELSE None
      OBVIOUS
    <3>1. CASE index \in 0 .. n - 1 BY <2>2, <3>1, TokenAt
    <3>2. CASE index \notin 0 .. n - 1 BY <2>2, <3>2 DEF GetToken
    <3>. QED BY <3>1, <3>2
  <2>7. \A context \in 0 .. n : IterTokens(<<context>>) = SubSeq(appended, 1, context)
    <3>1. \A context \in 0 .. n : context \in 0 .. n + 1 /\ (IF context < n THEN context ELSE n) = context
      BY <2>1
    <3>. QED BY <2>5, <3>1
  <2>8. SubSeq(appended, 1, n) = appended BY <2>1
  <2>9. ASSUME NEW queries \in QueryLists, QueriesFit(queries), Len(queries) % KvHeads = 0
        PROVE  /\ \A context \in 0 .. n :
                    /\ \A mask \in [1 .. n -> BOOLEAN] :
                         AttentionDecode(queries, <<context>>, <<mask>>)
                           = WeighedFrom(KeptBy(mask, context), queries)
                    /\ context > 0 =>
                         AttentionDecode(queries, <<context>>, <<None>>) = None
               /\ AttentionDecode(queries, None, None) = WeighedFrom(appended, queries)
               /\ AttentionDecode(queries, <<n + 1>>, None) = None
    <3>. HIDE DEF n
    <3>1. ASSUME NEW context \in 0 .. n, NEW mask \in [1 .. n -> BOOLEAN]
          PROVE  AttentionDecode(queries, <<context>>, <<mask>>)
                   = WeighedFrom(KeptBy(mask, context), queries)
      <4>1. <<context>> # None /\ <<context>>[1] = context /\ <<mask>>[1] = mask BY DEF None
      <4>2. ContextOf(<<context>>) = context BY <4>1 DEF ContextOf
      <4>3. Len(mask) = n BY <2>1
      <4>4. DecodeAllowed(queries, <<context>>, <<mask>>)
        BY <2>1, <2>2, <2>9, <4>1, <4>2, <4>3 DEF DecodeAllowed
      <4>5. Kept(SubSeq(appended, 1, context), <<mask>>) = KeptBy(mask, context)
        BY <2>1, MaskKept DEF n
      <4>. QED BY <2>7, <2>9, <4>2, <4>4, <4>5, Decoded
    <3>2. ASSUME NEW context \in 0 .. n, context > 0
          PROVE  AttentionDecode(queries, <<context>>, <<None>>) = None
      <4>1. <<context>> # None /\ <<context>>[1] = context /\ <<None>>[1] = <<>>
            /\ <<None>> # None
        BY DEF None
      <4>2. ContextOf(<<context>>) = context BY <4>1 DEF ContextOf
      <4>3. Len(<<>>) = 0 OBVIOUS
      <4>4. ~ (Len(<<None>>[1]) >= context) BY <2>1, <3>2, <4>1, <4>3
      <4>5. ~ DecodeAllowed(queries, <<context>>, <<None>>)
        BY <4>1, <4>2, <4>4 DEF DecodeAllowed
      <4>. QED BY <4>5 DEF AttentionDecode
    <3>3. AttentionDecode(queries, None, None) = WeighedFrom(appended, queries)
      <4>1. ContextOf(None) = n BY <2>2 DEF ContextOf
      <4>2. DecodeAllowed(queries, None, None) BY <2>1, <2>2, <2>9, <4>1 DEF DecodeAllowed
      <4>3. IterTokens(<<n>>) = appended BY <2>1, <2>7, <2>8
      <4>4. Kept(appended, None) = appended BY <2>1, AllKept
      <4>. QED BY <2>9, <4>1, <4>2, <4>3, <4>4, Decoded
    <3>4. AttentionDecode(queries, <<n + 1>>, None) = None
      <4>1. <<n + 1>> # None /\ <<n + 1>>[1] = n + 1 BY DEF None
      <4>2. ContextOf(<<n + 1>>) = n + 1 BY <4>1 DEF ContextOf
      <4>3. ~ DecodeAllowed(queries, <<n + 1>>, None) BY <2>1, <2>2, <4>2 DEF DecodeAllowed
      <4>. QED BY <4>3 DEF AttentionDecode
    <3>. QED BY <3>1, <3>2, <3>3, <3>4
  <2>. HIDE DEF n
  <2>. QED BY <2>3, <2>4, <2>5, <2>6, <2>9 DEF CacheReadsAppended, n
<1>. QED BY <1>1, CacheInvariance, PTL

-----------------------------------------------------------------------------
(* The monitor: its tables tally the calls that were made *)

MonitorValue ==
  [accepted : [RequestIds -> Nat], completed : [RequestIds -> Nat],
   kv_pages : [Keys -> PhysicalPages \union {NO_PAGE}], refcounts : [Keys -> Nat],
   ready_dependencies : SUBSET Dependencies]

\* The page of k is the one that was mapped last, if any was.
LastMapped(k) ==
  \/ OfKey("map_kv", k) = {} /\ monitor.kv_pages[k] = NO_PAGE
  \/ \E i \in OfKey("map_kv", k) :
       /\ \A j \in OfKey("map_kv", k) : j <= i
       /\ monitor.kv_pages[k] = history[i].page

Tallied ==
  /\ history \in Seq(Changing)
  /\ monitor \in MonitorValue
  /\ \A r \in RequestIds :
       /\ monitor.accepted[r] = Cardinality(OfRequest("accept", r))
       /\ monitor.completed[r] = Cardinality(OfRequest("complete", r))
  /\ \A k \in Keys :
       /\ monitor.refcounts[k] + Cardinality(OfKey("release_kv", k))
            = Cardinality(OfKey("map_kv", k))
       /\ LastMapped(k)
  /\ monitor.ready_dependencies = {history[i].dependency : i \in Made("ready")}

LEMMA MadeFinite ==
  ASSUME history \in Seq(Changing), NEW op
  PROVE  /\ IsFiniteSet(Made(op)) /\ Made(op) \subseteq 1 .. Len(history)
         /\ \A r : /\ IsFiniteSet(OfRequest(op, r))
                  /\ Cardinality(OfRequest(op, r)) \in Nat
         /\ \A k : IsFiniteSet(OfKey(op, k)) /\ Cardinality(OfKey(op, k)) \in Nat
<1>1. Made(op) \in SUBSET (1 .. Len(history)) BY DEF Made
<1>2. IsFiniteSet(1 .. Len(history)) BY FS_Interval
<1>3. IsFiniteSet(Made(op)) BY <1>1, <1>2, FS_Subset
<1>4. \A r : OfRequest(op, r) \in SUBSET Made(op) BY DEF OfRequest
<1>5. \A k : OfKey(op, k) \in SUBSET Made(op) BY DEF OfKey
<1>6. \A T \in SUBSET Made(op) : IsFiniteSet(T) /\ Cardinality(T) \in Nat
  BY <1>3, FS_Subset, FS_CardinalityType
<1>. QED BY <1>1, <1>3, <1>4, <1>5, <1>6

\* One more call: what is counted grows by it if it is of that kind.
LEMMA OneMore ==
  ASSUME history \in Seq(Changing), NEW c \in Changing, history' = Append(history, c)
  PROVE  LET n == Len(history) + 1
         IN  /\ history' \in Seq(Changing) /\ history'[n] = c
             /\ \A i \in 1 .. Len(history) : history'[i] = history[i]
             /\ \A op : /\ n \notin Made(op)
                       /\ Made(op)' = IF c.op = op THEN Made(op) \union {n} ELSE Made(op)
<1>. DEFINE n == Len(history) + 1
<1>1. Len(history) \in Nat /\ n \notin 1 .. Len(history) OBVIOUS
<1>2. /\ history' \in Seq(Changing) /\ Len(history') = n /\ history'[n] = c
      /\ \A i \in 1 .. Len(history) : history'[i] = history[i]
  OBVIOUS
<1>3. DOMAIN history = 1 .. Len(history) /\ DOMAIN history' = 1 .. Len(history) \union {n}
  BY <1>1, <1>2
<1>. HIDE DEF n
<1>4. \A op : n \notin Made(op) BY <1>1, <1>3 DEF Made
<1>5. \A op : Made(op)' = IF c.op = op THEN Made(op) \union {n} ELSE Made(op)
  BY <1>1, <1>2, <1>3 DEF Made
<1>. QED BY <1>2, <1>4, <1>5 DEF n

LEMMA RequestsOneMore ==
  ASSUME history \in Seq(Changing), NEW c \in Changing, history' = Append(history, c),
         NEW op, NEW r
  PROVE  Cardinality(OfRequest(op, r)')
           = IF c.op = op /\ c.request = r THEN Cardinality(OfRequest(op, r)) + 1
             ELSE Cardinality(OfRequest(op, r))
<1>. DEFINE n == Len(history) + 1
<1>1. /\ history'[n] = c /\ n \notin Made(op)
      /\ \A i \in 1 .. Len(history) : history'[i] = history[i]
      /\ Made(op)' = IF c.op = op THEN Made(op) \union {n} ELSE Made(op)
  BY OneMore
<1>2. Made(op) \subseteq 1 .. Len(history) /\ IsFiniteSet(OfRequest(op, r))
  BY MadeFinite
<1>. HIDE DEF n
<1>3. OfRequest(op, r)' = IF c.op = op /\ c.request = r THEN OfRequest(op, r) \union {n}
                          ELSE OfRequest(op, r)
  BY <1>1, <1>2 DEF OfRequest
<1>4. n \notin OfRequest(op, r) BY <1>1 DEF OfRequest
<1>. QED BY <1>2, <1>3, <1>4, FS_AddElement

LEMMA KeysOneMore ==
  ASSUME history \in Seq(Changing), NEW c \in Changing, history' = Append(history, c),
         NEW op, NEW k
  PROVE  /\ OfKey(op, k)' = IF c.op = op /\ c.key = k
                             THEN OfKey(op, k) \union {Len(history) + 1} ELSE OfKey(op, k)
         /\ Cardinality(OfKey(op, k)')
              = IF c.op = op /\ c.key = k THEN Cardinality(OfKey(op, k)) + 1
                ELSE Cardinality(OfKey(op, k))
<1>. DEFINE n == Len(history) + 1
<1>1. /\ history'[n] = c /\ n \notin Made(op)
      /\ \A i \in 1 .. Len(history) : history'[i] = history[i]
      /\ Made(op)' = IF c.op = op THEN Made(op) \union {n} ELSE Made(op)
  BY OneMore
<1>2. Made(op) \subseteq 1 .. Len(history) /\ IsFiniteSet(OfKey(op, k))
  BY MadeFinite
<1>. HIDE DEF n
<1>3. OfKey(op, k)' = IF c.op = op /\ c.key = k THEN OfKey(op, k) \union {n}
                      ELSE OfKey(op, k)
  BY <1>1, <1>2 DEF OfKey
<1>4. n \notin OfKey(op, k) BY <1>1 DEF OfKey
<1>. QED BY <1>2, <1>3, <1>4, FS_AddElement DEF n

LEMMA Tables ==
  ASSUME monitor \in MonitorValue, NEW c \in Changing, Allowed(c), monitor' = After(c)
  PROVE  /\ monitor' \in MonitorValue
         /\ monitor'.accepted = IF c.op = "accept"
                                THEN [monitor.accepted EXCEPT ![c.request] = @ + 1]
                                ELSE monitor.accepted
         /\ monitor'.completed = IF c.op = "complete"
                                 THEN [monitor.completed EXCEPT ![c.request] = @ + 1]
                                 ELSE monitor.completed
         /\ monitor'.kv_pages = IF c.op = "map_kv"
                                THEN [monitor.kv_pages EXCEPT ![c.key] = c.page]
                                ELSE monitor.kv_pages
         /\ monitor'.refcounts = IF c.op = "map_kv"
                                 THEN [monitor.refcounts EXCEPT ![c.key] = @ + 1]
                                 ELSE IF c.op = "release_kv"
                                 THEN [monitor.refcounts EXCEPT ![c.key] = @ - 1]
                                 ELSE monitor.refcounts
         /\ monitor'.ready_dependencies =
              IF c.op = "ready" THEN monitor.ready_dependencies \union {c.dependency}
              ELSE monitor.ready_dependencies
<1>1. CASE c \in [op : {"accept"}, request : RequestIds]
  <2>1. c.op = "accept" /\ c.request \in RequestIds BY <1>1
  <2>2. monitor' = [monitor EXCEPT !.accepted[c.request] = @ + 1] BY <2>1 DEF After
  <2>. QED BY <2>1, <2>2 DEF MonitorValue
<1>2. CASE c \in [op : {"complete"}, request : RequestIds]
  <2>1. c.op = "complete" /\ c.request \in RequestIds BY <1>2
  <2>2. monitor' = [monitor EXCEPT !.completed[c.request] = @ + 1] BY <2>1 DEF After
  <2>. QED BY <2>1, <2>2 DEF MonitorValue
<1>3. CASE c \in [op : {"map_kv"}, key : Keys, page : PhysicalPages]
  <2>1. c.op = "map_kv" /\ c.key \in Keys /\ c.page \in PhysicalPages BY <1>3
  <2>. DEFINE mapped == [monitor EXCEPT !.kv_pages[c.key] = c.page]
  <2>2. mapped \in MonitorValue /\ mapped.refcounts = monitor.refcounts
        /\ mapped.accepted = monitor.accepted /\ mapped.completed = monitor.completed
        /\ mapped.kv_pages = [monitor.kv_pages EXCEPT ![c.key] = c.page]
        /\ mapped.ready_dependencies = monitor.ready_dependencies
    BY <2>1 DEF MonitorValue
  <2>3. monitor' = [mapped EXCEPT !.refcounts[c.key] = @ + 1]
    BY <2>1, Zenon DEF After
  <2>. HIDE DEF mapped
  <2>4. /\ monitor' \in MonitorValue
        /\ monitor'.accepted = mapped.accepted /\ monitor'.completed = mapped.completed
        /\ monitor'.kv_pages = mapped.kv_pages
        /\ monitor'.refcounts = [mapped.refcounts EXCEPT ![c.key] = @ + 1]
        /\ monitor'.ready_dependencies = mapped.ready_dependencies
    BY <2>1, <2>2, <2>3 DEF MonitorValue
  <2>. QED BY <2>1, <2>2, <2>4
<1>4. CASE c \in [op : {"release_kv"}, key : Keys]
  <2>1. c.op = "release_kv" /\ c.key \in Keys BY <1>4
  <2>2. monitor' = [monitor EXCEPT !.refcounts[c.key] = @ - 1] BY <2>1 DEF After
  <2>3. monitor.refcounts[c.key] \in Nat \ {0} BY <2>1 DEF Allowed, MonitorValue
  <2>4. monitor.refcounts[c.key] - 1 \in Nat BY <2>3
  <2>. QED BY <2>1, <2>2, <2>4 DEF MonitorValue
<1>5. CASE c \in [op : {"ready"}, dependency : Dependencies]
  <2>1. c.op = "ready" /\ c.dependency \in Dependencies BY <1>5
  <2>2. monitor' = [monitor EXCEPT !.ready_dependencies = @ \union {c.dependency}]
    BY <2>1 DEF After
  <2>. QED BY <2>1, <2>2 DEF MonitorValue
<1>. QED BY <1>1, <1>2, <1>3, <1>4, <1>5 DEF Changing

LEMMA TalliedStays ==
  ASSUME Tallied, monitor' = monitor, history' = history
  PROVE  Tallied'
<1>1. \A op : Made(op)' = Made(op) BY DEF Made
<1>2. \A op, r : OfRequest(op, r)' = OfRequest(op, r) BY <1>1 DEF OfRequest
<1>3. \A op, k : OfKey(op, k)' = OfKey(op, k) BY <1>1 DEF OfKey
<1>4. \A k : LastMapped(k)' <=> LastMapped(k) BY <1>3 DEF LastMapped
<1>. QED BY <1>1, <1>2, <1>3, <1>4 DEF Tallied

LEMMA CallTallied ==
  ASSUME Tallied, NEW c \in Changing, Allowed(c), Perform(c)
  PROVE  Tallied'
<1>1. CASE After(c) = monitor
  <2>1. monitor' = monitor /\ history' = history BY <1>1 DEF Perform
  <2>. QED BY <2>1, TalliedStays
<1>2. CASE After(c) # monitor
  <2>1. /\ history \in Seq(Changing) /\ monitor \in MonitorValue
        /\ history' = Append(history, c) /\ monitor' = After(c)
    BY <1>2 DEF Perform, Tallied
  <2>2. history' \in Seq(Changing) /\ monitor' \in MonitorValue
    <3>1. monitor' \in MonitorValue BY <2>1, Tables, Zenon
    <3>2. history' \in Seq(Changing) BY <2>1
    <3>. QED BY <3>1, <3>2
  <2>3. ASSUME NEW r \in RequestIds
        PROVE  /\ monitor'.accepted[r] = Cardinality(OfRequest("accept", r)')
               /\ monitor'.completed[r] = Cardinality(OfRequest("complete", r)')
    <3>1. /\ monitor.accepted[r] = Cardinality(OfRequest("accept", r))
          /\ monitor.completed[r] = Cardinality(OfRequest("complete", r))
      BY DEF Tallied
    <3>2. /\ monitor.accepted \in [RequestIds -> Nat] /\ monitor.completed \in [RequestIds -> Nat]
      BY <2>1 DEF MonitorValue
    <3>3. /\ c.op = "accept" => c.request \in RequestIds
          /\ c.op = "complete" => c.request \in RequestIds
      BY DEF Changing
    <3>4. Cardinality(OfRequest("accept", r)')
            = IF c.op = "accept" /\ c.request = r THEN Cardinality(OfRequest("accept", r)) + 1
              ELSE Cardinality(OfRequest("accept", r))
      BY <2>1, RequestsOneMore
    <3>5. Cardinality(OfRequest("complete", r)')
            = IF c.op = "complete" /\ c.request = r
              THEN Cardinality(OfRequest("complete", r)) + 1
              ELSE Cardinality(OfRequest("complete", r))
      BY <2>1, RequestsOneMore
    <3>6. /\ monitor'.accepted = IF c.op = "accept"
                                 THEN [monitor.accepted EXCEPT ![c.request] = @ + 1]
                                 ELSE monitor.accepted
          /\ monitor'.completed = IF c.op = "complete"
                                  THEN [monitor.completed EXCEPT ![c.request] = @ + 1]
                                  ELSE monitor.completed
      BY <2>1, Tables
    <3>7. monitor'.accepted[r] = IF c.op = "accept" /\ c.request = r THEN monitor.accepted[r] + 1
                                 ELSE monitor.accepted[r]
      BY <3>2, <3>3, <3>6
    <3>8. monitor'.completed[r] = IF c.op = "complete" /\ c.request = r
                                  THEN monitor.completed[r] + 1 ELSE monitor.completed[r]
      BY <3>2, <3>3, <3>6
    <3>. QED BY <3>1, <3>4, <3>5, <3>7, <3>8
  <2>4. ASSUME NEW k \in Keys
        PROVE  monitor'.refcounts[k] + Cardinality(OfKey("release_kv", k)')
                 = Cardinality(OfKey("map_kv", k)')
    <3>1. monitor.refcounts[k] + Cardinality(OfKey("release_kv", k))
            = Cardinality(OfKey("map_kv", k))
      BY DEF Tallied
    <3>2. monitor.refcounts \in [Keys -> Nat] BY <2>1 DEF MonitorValue
    <3>3. /\ c.op = "map_kv" => c.key \in Keys
          /\ c.op = "release_kv" => c.key \in Keys
      BY DEF Changing
    <3>4. Cardinality(OfKey("map_kv", k)')
            = IF c.op = "map_kv" /\ c.key = k THEN Cardinality(OfKey("map_kv", k)) + 1
              ELSE Cardinality(OfKey("map_kv", k))
      BY <2>1, KeysOneMore
    <3>5. Cardinality(OfKey("release_kv", k)')
            = IF c.op = "release_kv" /\ c.key = k
              THEN Cardinality(OfKey("release_kv", k)) + 1
              ELSE Cardinality(OfKey("release_kv", k))
      BY <2>1, KeysOneMore
    <3>6. monitor'.refcounts = IF c.op = "map_kv"
                                 THEN [monitor.refcounts EXCEPT ![c.key] = @ + 1]
                                 ELSE IF c.op = "release_kv"
                                 THEN [monitor.refcounts EXCEPT ![c.key] = @ - 1]
                                 ELSE monitor.refcounts
      BY <2>1, Tables
    <3>7. monitor'.refcounts[k] = IF c.op = "map_kv" /\ c.key = k THEN monitor.refcounts[k] + 1
                                  ELSE IF c.op = "release_kv" /\ c.key = k
                                  THEN monitor.refcounts[k] - 1
                                  ELSE monitor.refcounts[k]
      BY <3>2, <3>3, <3>6
    <3>8. monitor.refcounts[k] \in Nat /\ Cardinality(OfKey("map_kv", k)) \in Nat
          /\ Cardinality(OfKey("release_kv", k)) \in Nat
      BY <2>1, <3>2, MadeFinite
    <3>. QED BY <3>1, <3>4, <3>5, <3>7, <3>8
  <2>5. ASSUME NEW k \in Keys PROVE LastMapped(k)'
    <3>1. LastMapped(k) BY DEF Tallied
    <3>2. OfKey("map_kv", k)' = IF c.op = "map_kv" /\ c.key = k
                                THEN OfKey("map_kv", k) \union {Len(history) + 1}
                                ELSE OfKey("map_kv", k)
      BY <2>1, KeysOneMore
    <3>3. monitor'.kv_pages = IF c.op = "map_kv"
                              THEN [monitor.kv_pages EXCEPT ![c.key] = c.page]
                              ELSE monitor.kv_pages
      BY <2>1, Tables
    <3>4. monitor.kv_pages \in [Keys -> PhysicalPages \union {NO_PAGE}]
      BY <2>1 DEF MonitorValue
    <3>5. /\ history'[Len(history) + 1] = c
          /\ \A i \in 1 .. Len(history) : history'[i] = history[i]
      BY <2>1, OneMore
    <3>6. OfKey("map_kv", k) \subseteq 1 .. Len(history)
      BY <2>1, MadeFinite DEF OfKey
    <3>7. CASE c.op = "map_kv" /\ c.key = k
      <4>1. Len(history) + 1 \in OfKey("map_kv", k)' BY <3>2, <3>7
      <4>2. \A j \in OfKey("map_kv", k)' : j <= Len(history) + 1
        BY <2>1, <3>2, <3>6, <3>7
      <4>3. monitor'.kv_pages[k] = history'[Len(history) + 1].page
        BY <3>3, <3>4, <3>5, <3>7
      <4>. QED BY <4>1, <4>2, <4>3 DEF LastMapped
    <3>8. CASE ~(c.op = "map_kv" /\ c.key = k)
      <4>1. OfKey("map_kv", k)' = OfKey("map_kv", k) BY <3>2, <3>8
      <4>2. monitor'.kv_pages[k] = monitor.kv_pages[k]
        <5>1. c.op = "map_kv" => c.key # k BY <3>8
        <5>. QED BY <3>3, <3>4, <5>1
      <4>3. \A i \in OfKey("map_kv", k) : history'[i] = history[i] BY <3>5, <3>6
      <4>. QED BY <3>1, <4>1, <4>2, <4>3 DEF LastMapped
    <3>. QED BY <3>7, <3>8
  <2>6. monitor'.ready_dependencies = {history'[i].dependency : i \in Made("ready")'}
    <3>1. monitor.ready_dependencies = {history[i].dependency : i \in Made("ready")}
      BY DEF Tallied
    <3>2. /\ history'[Len(history) + 1] = c
          /\ \A i \in 1 .. Len(history) : history'[i] = history[i]
          /\ Made("ready")' = IF c.op = "ready" THEN Made("ready") \union {Len(history) + 1}
                              ELSE Made("ready")
      BY <2>1, OneMore
    <3>3. \A i \in Made("ready") : history'[i] = history[i]
      BY <2>1, <3>2, MadeFinite
    <3>4. monitor'.ready_dependencies =
            IF c.op = "ready" THEN monitor.ready_dependencies \union {c.dependency}
            ELSE monitor.ready_dependencies
      BY <2>1, Tables
    <3>. QED BY <3>1, <3>2, <3>3, <3>4
  <2>. QED BY <2>2, <2>3, <2>4, <2>5, <2>6 DEF Tallied
<1>. QED BY <1>1, <1>2

\* The pure checks judge by the calls made so far.
LEMMA PureJudged ==
  ASSUME Tallied, NEW c, c.op \in {"dma", "issue", "route", "sample"},
         c.op = "dma" => c.address \in Int /\ c.length \in Int
  PROVE  Allowed(c) <=> Contract(c)
<1>1. CASE c.op = "dma"
  <2>1. Allowed(c) = DmaAllowed(c) /\ Contract(c) = BytesInWindow(c) BY <1>1 DEF Allowed, Contract
  <2>2. CASE c.tenant \notin DOMAIN DmaWindows
    BY <2>1, <2>2 DEF DmaAllowed, BytesInWindow
  <2>3. CASE c.tenant \in DOMAIN DmaWindows
    <3>. DEFINE first == DmaWindows[c.tenant][1]
                past == DmaWindows[c.tenant][2]
                a == c.address
                l == c.length
    <3>1. first \in Int /\ past \in Int /\ a \in Int /\ l \in Int
      BY <1>1, <2>3, MonitorAssumption
    <3>2. DmaAllowed(c) <=> l > 0 /\ a >= first /\ a + l <= past
      BY <2>3 DEF DmaAllowed
    <3>3. BytesInWindow(c) <=> l >= 1 /\ \A byte \in a .. a + l - 1 : byte \in first .. past - 1
      BY <2>3 DEF BytesInWindow
    <3>. HIDE DEF first, past, a, l
    <3>4. l >= 1 => a \in a .. a + l - 1 /\ a + l - 1 \in a .. a + l - 1 BY <3>1
    <3>. QED BY <2>1, <3>1, <3>2, <3>3, <3>4
  <2>. QED BY <2>2, <2>3
<1>2. CASE c.op = "issue"
  <2>1. Allowed(c) <=> c.dependencies \subseteq monitor.ready_dependencies
    BY <1>2 DEF Allowed
  <2>2. Contract(c) <=> \A d \in c.dependencies : \E i \in Made("ready") : history[i].dependency = d
    BY <1>2 DEF Contract
  <2>. QED BY <2>1, <2>2 DEF Tallied
<1>3. CASE c.op = "route"
  <2>1. Allowed(c) <=> PartitionOf(c.source) = PartitionOf(c.destination)
    BY <1>3 DEF Allowed
  <2>2. Contract(c) <=> SamePartition(c) BY <1>3 DEF Contract
  <2>3. \A n \in DOMAIN NodePartitions : NodePartitions[n] # NO_PARTITION
    BY MonitorAssumption
  <2>. QED BY <2>1, <2>2, <2>3 DEF PartitionOf, SamePartition
<1>4. CASE c.op = "sample"
  BY <1>4 DEF Allowed, Contract
<1>. QED BY <1>1, <1>2, <1>3, <1>4

LEMMA TalliedJudges == Tallied => CallsJudged
<1>. SUFFICES ASSUME Tallied PROVE CallsJudged
  OBVIOUS
<1>1. history \in Seq(Changing) /\ monitor \in MonitorValue BY DEF Tallied
<1>2. ASSUME NEW r \in RequestIds
      PROVE  Allowed([op |-> "complete", request |-> r])
               <=> Cardinality(OfRequest("complete", r)) < Cardinality(OfRequest("accept", r))
  BY <1>2 DEF Allowed, Tallied
<1>3. ASSUME NEW k \in Keys
      PROVE  Allowed([op |-> "release_kv", key |-> k])
               <=> Cardinality(OfKey("release_kv", k)) < Cardinality(OfKey("map_kv", k))
  <2>1. /\ monitor.refcounts[k] \in Nat /\ Cardinality(OfKey("map_kv", k)) \in Nat
        /\ Cardinality(OfKey("release_kv", k)) \in Nat
    BY <1>1, MadeFinite DEF MonitorValue
  <2>2. monitor.refcounts[k] + Cardinality(OfKey("release_kv", k))
            = Cardinality(OfKey("map_kv", k))
    BY DEF Tallied
  <2>3. Allowed([op |-> "release_kv", key |-> k]) <=> monitor.refcounts[k] # 0
    BY DEF Allowed
  <2>. QED BY <2>1, <2>2, <2>3
<1>4. ASSUME NEW requester \in Tenants, NEW owner \in Tenants
      PROVE  LET c == [op |-> "read_kv", requester |-> requester, owner |-> owner]
                 mappings == OfKey("map_kv", <<owner, VirtualPage>>)
             IN  /\ Allowed(c) <=> requester = owner /\ mappings # {}
                 /\ Allowed(c) =>
                      \E i \in mappings :
                        /\ \A j \in mappings : j <= i
                        /\ monitor.kv_pages[<<owner, VirtualPage>>] = history[i].page
  <2>. DEFINE k == <<owner, VirtualPage>>
              c == [op |-> "read_kv", requester |-> requester, owner |-> owner]
  <2>1. k \in Keys BY DEF Keys
  <2>2. Allowed(c) <=> requester = owner /\ monitor.kv_pages[k] # NO_PAGE BY DEF Allowed
  <2>3. LastMapped(k) BY <2>1 DEF Tallied
  <2>4. \A i \in OfKey("map_kv", k) : history[i].page # NO_PAGE
    <3>1. \A i \in OfKey("map_kv", k) : history[i] \in Changing /\ history[i].op = "map_kv"
      BY <1>1 DEF OfKey, Made
    <3>2. \A x \in Changing : x.op = "map_kv" => x.page \in PhysicalPages BY DEF Changing
    <3>. QED BY <3>1, <3>2, MonitorAssumption
  <2>. HIDE DEF k, c
  <2>5. /\ Allowed(c) <=> requester = owner /\ OfKey("map_kv", k) # {}
        /\ Allowed(c) => \E i \in OfKey("map_kv", k) :
                            /\ \A j \in OfKey("map_kv", k) : j <= i
                            /\ monitor.kv_pages[k] = history[i].page
    BY <2>2, <2>3, <2>4 DEF LastMapped
  <2>. QED BY <2>5 DEF k, c
<1>5. \A c \in JudgedCalls : Allowed(c) <=> Contract(c)
  BY MonitorAssumption, PureJudged
<1>6. Drained <=> \A r \in RequestIds : Cardinality(OfRequest("complete", r))
                                          = Cardinality(OfRequest("accept", r))
  BY <1>1 DEF Drained, Tallied, MonitorValue
<1>. QED BY <1>2, <1>3, <1>4, <1>5, <1>6 DEF CallsJudged

-----------------------------------------------------------------------------
(* The monitor: a trace is run in order *)

BodyCalls ==
  [op : {"map_kv"}, key : Keys, page : PhysicalPages]
    \union [op : {"ready"}, dependency : Dependencies]
    \union {[op |-> "read_kv", requester |-> t, owner |-> t] : t \in Tenants}
    \union [op : {"issue"}, dependencies : SUBSET Dependencies]
    \union {o.call : o \in {o \in Operations : o.kind \in {"dma", "collective"}}}
    \union {[op |-> "unsupported"]}

Steps ==
  BodyCalls \union Changing \union {[op |-> "sample", point |-> o.point] : o \in Operations}

\* A read, the i-th of the calls, finds its page or a call before it maps the page.
Readable(calls, i) ==
  calls[i].op = "read_kv" =>
    LET k == <<calls[i].owner, VirtualPage>>
    IN  \/ monitor.kv_pages[k] # NO_PAGE
        \/ \E j \in 1 .. i - 1 : calls[j].op = "map_kv" /\ calls[j].key = k

\* From the call `first` on: the body, the completion of r, the sample.
BodyFrom(calls, r, first) ==
  /\ Len(calls) >= first + 1
  /\ calls[Len(calls) - 1] = [op |-> "complete", request |-> r]
  /\ calls[Len(calls)].op = "sample"
  /\ \A i \in first .. Len(calls) - 2 : calls[i] \in BodyCalls /\ Readable(calls, i)

\* The command r, and no other, is accepted and not completed.
Owed(r) == monitor.accepted = [monitor.completed EXCEPT ![r] = @ + 1]

InOrder(calls) ==
  \/ calls = <<>> /\ Drained
  \/ \E r \in RequestIds :
       calls[1] = [op |-> "accept", request |-> r] /\ BodyFrom(calls, r, 2) /\ Drained
  \/ \E r \in RequestIds : BodyFrom(calls, r, 1) /\ Owed(r)
  \/ Len(calls) = 1 /\ calls[1].op = "sample" /\ Drained

TraceInv ==
  /\ Tallied
  /\ to_run \in Seq(Operations) /\ run_calls \in Seq(Steps)
  /\ outcome = "none" => Drained /\ run_calls = <<>>
  /\ outcome = "running" => InOrder(run_calls)
  /\ outcome = "failed" => /\ run_calls # <<>>
                           /\ ~Contract(Head(run_calls))
                           /\ Head(run_calls).op = "sample" <=> Drained

LEMMA BodyNames ==
  ASSUME NEW c \in BodyCalls
  PROVE  /\ \/ c \in Changing /\ c.op \in {"map_kv", "ready"}
            \/ c.op \in {"read_kv", "issue", "dma", "route", "unsupported"}
         /\ c.op = "read_kv" => c.owner \in Tenants /\ c.requester = c.owner
         /\ c.op = "dma" => c.address \in Int /\ c.length \in Int
<1>1. CASE c \in [op : {"map_kv"}, key : Keys, page : PhysicalPages]
  <2>1. c \in Changing BY <1>1 DEF Changing
  <2>. QED BY <1>1, <2>1
<1>2. CASE c \in [op : {"ready"}, dependency : Dependencies]
  <2>1. c \in Changing BY <1>2 DEF Changing
  <2>. QED BY <1>2, <2>1
<1>3. CASE c \in {[op |-> "read_kv", requester |-> t, owner |-> t] : t \in Tenants}
  BY <1>3
<1>4. CASE c \in [op : {"issue"}, dependencies : SUBSET Dependencies]
  BY <1>4
<1>5. CASE c \in {o.call : o \in {o \in Operations : o.kind \in {"dma", "collective"}}}
  <2>1. PICK o \in Operations : o.kind \in {"dma", "collective"} /\ c = o.call BY <1>5
  <2>2. CASE o.kind = "dma"
    <3>1. c.op = "dma" BY <2>1, <2>2, MonitorAssumption
    <3>2. c \in {p.call : p \in {p \in Operations : p.kind = "dma"}} BY <2>1, <2>2
    <3>3. c.address \in Int /\ c.length \in Int BY <3>1, <3>2, MonitorAssumption
    <3>. QED BY <3>1, <3>3
  <2>3. CASE o.kind = "collective"
    <3>1. c.op = "route" BY <2>1, <2>3, MonitorAssumption
    <3>. QED BY <3>1
  <2>. QED BY <2>1, <2>2, <2>3
<1>6. CASE c = [op |-> "unsupported"]
  BY <1>6
<1>. QED BY <1>1, <1>2, <1>3, <1>4, <1>5, <1>6 DEF BodyCalls

LEMMA BodyTyped ==
  ASSUME NEW o \in Operations
  PROVE  /\ BodyOf(o) \in Seq(BodyCalls)
         /\ \A i \in 1 .. Len(BodyOf(o)) : BodyOf(o)[i].op = "read_kv" =>
              /\ i > 1
              /\ BodyOf(o)[i - 1].op = "map_kv"
              /\ BodyOf(o)[i - 1].key = <<BodyOf(o)[i].owner, VirtualPage>>
<1>1. CASE o.kind = "kv"
  <2>. DEFINE c == o.call
              t == c.key[1]
              read == [op |-> "read_kv", requester |-> t, owner |-> t]
  <2>1. c \in [op : {"map_kv"}, key : Keys, page : PhysicalPages]
    BY <1>1, MonitorAssumption
  <2>2. t \in Tenants /\ c.key = <<t, VirtualPage>> BY <2>1 DEF Keys
  <2>3. read \in BodyCalls /\ c \in BodyCalls BY <2>1, <2>2 DEF BodyCalls
  <2>4. BodyOf(o) = <<c, read>> BY <1>1 DEF BodyOf
  <2>5. read.op = "read_kv" /\ read.owner = t /\ c.op = "map_kv" BY <2>1
  <2>. HIDE DEF c, t, read
  <2>. QED BY <2>2, <2>3, <2>4, <2>5
<1>2. CASE o.kind = "scheduler"
  <2>. DEFINE issue == [op |-> "issue",
                        dependencies |-> {o.announced[i].dependency : i \in DOMAIN o.announced}]
  <2>. DEFINE Announcements == [op : {"ready"}, dependency : Dependencies]
              told == o.announced
  <2>1. told \in Seq(Announcements)
    BY <1>2, MonitorAssumption
  <2>2. \A c \in Announcements : c \in BodyCalls /\ c.op = "ready" /\ c.dependency \in Dependencies
    BY DEF BodyCalls
  <2>3. BodyOf(o) = Append(told, issue) BY <1>2 DEF BodyOf
  <2>4. issue = [op |-> "issue", dependencies |-> {told[i].dependency : i \in DOMAIN told}]
    OBVIOUS
  <2>. HIDE DEF Announcements, told, issue
  <2>5. \A i \in DOMAIN told : told[i] \in Announcements BY <2>1
  <2>6. told \in Seq(BodyCalls) /\ issue \in BodyCalls /\ issue.op = "issue"
    <3>1. {told[i].dependency : i \in DOMAIN told} \in SUBSET Dependencies
      BY <2>2, <2>5
    <3>2. issue \in [op : {"issue"}, dependencies : SUBSET Dependencies] BY <2>4, <3>1
    <3>3. told \in Seq(BodyCalls) BY <2>1, <2>2
    <3>. QED BY <3>2, <3>3 DEF BodyCalls
  <2>7. \A i \in 1 .. Len(BodyOf(o)) : BodyOf(o)[i].op # "read_kv"
    BY <2>1, <2>2, <2>3, <2>5, <2>6
  <2>. QED BY <2>1, <2>3, <2>6, <2>7
<1>3. CASE o.kind \in {"dma", "collective"}
  <2>1. o.call \in BodyCalls BY <1>3 DEF BodyCalls
  <2>2. BodyOf(o) = <<o.call>> BY <1>3 DEF BodyOf
  <2>3. o.call.op # "read_kv" BY <1>3, MonitorAssumption
  <2>. QED BY <2>1, <2>2, <2>3
<1>4. CASE o.kind \notin {"kv", "scheduler", "dma", "collective"}
  <2>1. BodyOf(o) = << [op |-> "unsupported"] >> BY <1>4 DEF BodyOf
  <2>2. [op |-> "unsupported"] \in BodyCalls BY DEF BodyCalls
  <2>3. [op |-> "unsupported"].op # "read_kv" OBVIOUS
  <2>. QED BY <2>1, <2>2, <2>3
<1>. QED BY <1>1, <1>2, <1>3, <1>4

\* What an allowed call of an operation leaves behind.
LEMMA StepPerformed ==
  ASSUME Tallied, NEW c \in Steps, Allowed(c), Perform(c)
  PROVE  /\ Tallied'
         /\ monitor'.accepted = IF c.op = "accept"
                                THEN [monitor.accepted EXCEPT ![c.request] = @ + 1]
                                ELSE monitor.accepted
         /\ monitor'.completed = IF c.op = "complete"
                                 THEN [monitor.completed EXCEPT ![c.request] = @ + 1]
                                 ELSE monitor.completed
         /\ \A k \in Keys : monitor.kv_pages[k] # NO_PAGE \/ (c.op = "map_kv" /\ c.key = k)
                            => monitor'.kv_pages[k] # NO_PAGE
<1>1. CASE c \in Changing
  <2>1. monitor \in MonitorValue /\ monitor' = After(c) BY DEF Tallied, Perform
  <2>2. Tallied' BY <1>1, CallTallied
  <2>3. /\ monitor'.accepted = IF c.op = "accept"
                                THEN [monitor.accepted EXCEPT ![c.request] = @ + 1]
                                ELSE monitor.accepted
        /\ monitor'.completed = IF c.op = "complete"
                                 THEN [monitor.completed EXCEPT ![c.request] = @ + 1]
                                 ELSE monitor.completed
        /\ monitor'.kv_pages = IF c.op = "map_kv"
                                THEN [monitor.kv_pages EXCEPT ![c.key] = c.page]
                                ELSE monitor.kv_pages
    BY <1>1, <2>1, Tables
  <2>4. c.op = "map_kv" => c.page \in PhysicalPages BY <1>1 DEF Changing
  <2>5. NO_PAGE \notin PhysicalPages BY MonitorAssumption
  <2>6. monitor.kv_pages \in [Keys -> PhysicalPages \union {NO_PAGE}] BY <2>1 DEF MonitorValue
  <2>7. \A k \in Keys : monitor.kv_pages[k] # NO_PAGE \/ (c.op = "map_kv" /\ c.key = k)
                        => monitor'.kv_pages[k] # NO_PAGE
    BY <2>3, <2>4, <2>5, <2>6
  <2>. QED BY <2>2, <2>3, <2>7
<1>2. CASE c \notin Changing
  <2>1. c.op \in {"read_kv", "issue", "dma", "route", "unsupported", "sample"}
    <3>1. CASE c \in BodyCalls BY <1>2, <3>1, BodyNames
    <3>2. CASE c \in {[op |-> "sample", point |-> o.point] : o \in Operations} BY <3>2
    <3>. QED BY <1>2, <3>1, <3>2 DEF Steps
  <2>2. After(c) = monitor BY <2>1 DEF After
  <2>3. monitor' = monitor /\ history' = history BY <2>2 DEF Perform
  <2>4. Tallied' BY <2>3, TalliedStays
  <2>. QED BY <2>1, <2>3, <2>4
<1>. QED BY <1>1, <1>2

LEMMA BodyInOrder ==
  ASSUME NEW o \in Operations
  PROVE  /\ CallsOf(o) \in Seq(Steps)
         /\ CallsOf(o)[1] = [op |-> "accept", request |-> o.request]
         /\ BodyFrom(CallsOf(o), o.request, 2)
<1>. DEFINE body == BodyOf(o)
            accept == [op |-> "accept", request |-> o.request]
            complete == [op |-> "complete", request |-> o.request]
            sample == [op |-> "sample", point |-> o.point]
            calls == CallsOf(o)
            l == Len(body)
<1>1. /\ body \in Seq(BodyCalls)
      /\ \A i \in 1 .. l : body[i].op = "read_kv" =>
              /\ i > 1
              /\ body[i - 1].op = "map_kv"
              /\ body[i - 1].key = <<body[i].owner, VirtualPage>>
  BY BodyTyped
<1>2. o.request \in RequestIds BY MonitorAssumption
<1>3. accept \in Steps /\ complete \in Steps BY <1>2 DEF Steps, Changing
<1>4. sample \in Steps /\ sample.op = "sample" BY DEF Steps
<1>5. calls = <<accept>> \o body \o <<complete, sample>> BY DEF CallsOf
<1>6. body \in Seq(Steps) /\ l \in Nat BY <1>1 DEF Steps
<1>. HIDE DEF body, accept, complete, sample, calls
<1>7. /\ <<accept>> \o body \in Seq(Steps) /\ Len(<<accept>> \o body) = l + 1
      /\ (<<accept>> \o body)[1] = accept
      /\ \A i \in 1 .. l : (<<accept>> \o body)[i + 1] = body[i]
  BY <1>3, <1>6
<1>8. /\ calls \in Seq(Steps) /\ Len(calls) = l + 3
      /\ calls[l + 2] = complete /\ calls[l + 3] = sample
      /\ \A i \in 1 .. l + 1 : calls[i] = (<<accept>> \o body)[i]
  BY <1>3, <1>4, <1>5, <1>6, <1>7
<1>9. calls[1] = accept BY <1>6, <1>7, <1>8
<1>10. \A i \in 2 .. l + 1 : i - 1 \in 1 .. l /\ calls[i] = body[i - 1]
  BY <1>6, <1>7, <1>8
<1>11. ASSUME NEW i \in 2 .. l + 1
       PROVE  calls[i] \in BodyCalls /\ Readable(calls, i)
  <2>1. i - 1 \in 1 .. l /\ calls[i] = body[i - 1] /\ calls[i] \in BodyCalls
    BY <1>1, <1>10
  <2>2. ASSUME calls[i].op = "read_kv"
        PROVE  \E j \in 1 .. i - 1 : calls[j].op = "map_kv"
                                     /\ calls[j].key = <<calls[i].owner, VirtualPage>>
    <3>1. /\ i - 1 > 1 /\ body[(i - 1) - 1].op = "map_kv"
          /\ body[(i - 1) - 1].key = <<calls[i].owner, VirtualPage>>
      BY <1>1, <2>1, <2>2
    <3>2. i - 1 \in 2 .. l + 1 /\ i - 1 \in 1 .. i - 1 BY <1>6, <3>1
    <3>3. calls[i - 1] = body[(i - 1) - 1] BY <1>10, <3>2
    <3>. QED BY <3>1, <3>2, <3>3
  <2>. QED BY <2>1, <2>2 DEF Readable
<1>12. l + 3 >= 2 + 1 /\ l + 3 - 1 = l + 2 /\ l + 3 - 2 = l + 1 BY <1>6
<1>13. BodyFrom(calls, o.request, 2)
  BY <1>4, <1>8, <1>11, <1>12 DEF BodyFrom, complete
<1>. QED BY <1>8, <1>9, <1>13 DEF calls, accept

\* An allowed call leaves the calls after it in order.
LEMMA CallsStayInOrder ==
  ASSUME Tallied, run_calls \in Seq(Steps), run_calls # <<>>, InOrder(run_calls),
         Allowed(Head(run_calls)), Perform(Head(run_calls)), run_calls' = Tail(run_calls)
  PROVE  Tallied' /\ run_calls' \in Seq(Steps) /\ InOrder(run_calls)'
<1>. DEFINE c == run_calls[1]
            n == Len(run_calls)
<1>1. /\ Head(run_calls) = c /\ c \in Steps /\ n \in Nat \ {0}
      /\ run_calls' \in Seq(Steps) /\ Len(run_calls') = n - 1
      /\ \A i \in 1 .. n - 1 : run_calls'[i] = run_calls[i + 1]
  OBVIOUS
<1>2. monitor \in MonitorValue BY DEF Tallied
<1>3. /\ Tallied'
      /\ monitor'.accepted = IF c.op = "accept"
                                THEN [monitor.accepted EXCEPT ![c.request] = @ + 1]
                                ELSE monitor.accepted
      /\ monitor'.completed = IF c.op = "complete"
                                 THEN [monitor.completed EXCEPT ![c.request] = @ + 1]
                                 ELSE monitor.completed
      /\ \A k \in Keys : monitor.kv_pages[k] # NO_PAGE \/ (c.op = "map_kv" /\ c.key = k)
                            => monitor'.kv_pages[k] # NO_PAGE
  BY <1>1, StepPerformed
<1>. HIDE DEF c, n
<1>4. ASSUME NEW i \in 2 .. n, Readable(run_calls, i), run_calls[i] \in BodyCalls
      PROVE  run_calls'[i - 1] \in BodyCalls /\ Readable(run_calls, i - 1)'
  <2>1. run_calls'[i - 1] = run_calls[i] /\ i - 1 \in 1 .. n - 1
    BY <1>1
  <2>. SUFFICES ASSUME run_calls[i].op = "read_kv" PROVE Readable(run_calls, i - 1)'
    BY <1>4, <2>1 DEF Readable
  <2>. DEFINE k == <<run_calls[i].owner, VirtualPage>>
  <2>2. k \in Keys
    <3>1. run_calls[i].owner \in Tenants BY <1>4, BodyNames
    <3>. QED BY <3>1 DEF Keys
  <2>3. \/ monitor.kv_pages[k] # NO_PAGE
        \/ \E j \in 1 .. i - 1 : run_calls[j].op = "map_kv" /\ run_calls[j].key = k
    BY <1>4 DEF Readable
  <2>. HIDE DEF k
  <2>4. CASE monitor'.kv_pages[k] # NO_PAGE
    BY <2>1, <2>4 DEF Readable, k
  <2>5. CASE monitor'.kv_pages[k] = NO_PAGE
    <3>1. ~(c.op = "map_kv" /\ c.key = k) /\ monitor.kv_pages[k] = NO_PAGE
      BY <1>3, <2>2, <2>5
    <3>2. PICK j \in 1 .. i - 1 : run_calls[j].op = "map_kv" /\ run_calls[j].key = k
      BY <2>3, <3>1
    <3>3. j # 1 BY <3>1, <3>2 DEF c
    <3>4. j - 1 \in 1 .. (i - 1) - 1 /\ run_calls'[j - 1] = run_calls[j]
      BY <1>1, <3>3
    <3>5. \E m \in 1 .. (i - 1) - 1 : run_calls'[m].op = "map_kv" /\ run_calls'[m].key = k
      BY <3>2, <3>4
    <3>. QED BY <2>1, <3>5 DEF Readable, k
  <2>. QED BY <2>4, <2>5
<1>5. ASSUME NEW r, NEW first \in {1, 2}, BodyFrom(run_calls, r, first), n >= 3
      PROVE  BodyFrom(run_calls, r, 1)'
  <2>1. /\ n >= first + 1 /\ run_calls[n - 1] = [op |-> "complete", request |-> r]
        /\ run_calls[n].op = "sample"
        /\ \A i \in first .. n - 2 : run_calls[i] \in BodyCalls /\ Readable(run_calls, i)
    BY <1>5 DEF BodyFrom, n
  <2>2. /\ Len(run_calls') = n - 1 /\ n - 1 >= 1 + 1
        /\ run_calls'[(n - 1) - 1] = run_calls[n - 1] /\ run_calls'[n - 1] = run_calls[n]
    BY <1>1, <1>5
  <2>3. \A i \in 1 .. (n - 1) - 2 : run_calls'[i] \in BodyCalls /\ Readable(run_calls, i)'
    <3>. SUFFICES ASSUME NEW i \in 1 .. (n - 1) - 2
                  PROVE  run_calls'[i] \in BodyCalls /\ Readable(run_calls, i)'
      OBVIOUS
    <3>1. i + 1 \in first .. n - 2 /\ i + 1 \in 2 .. n /\ (i + 1) - 1 = i BY <1>1
    <3>2. /\ run_calls'[(i + 1) - 1] \in BodyCalls
          /\ Readable(run_calls, (i + 1) - 1)'
      BY <1>4, <2>1, <3>1
    <3>. QED BY <3>1, <3>2
  <2>. QED BY <2>1, <2>2, <2>3 DEF BodyFrom
<1>6. CASE run_calls = <<>> /\ Drained
  BY <1>6
<1>7. ASSUME NEW r \in RequestIds, run_calls[1] = [op |-> "accept", request |-> r],
             BodyFrom(run_calls, r, 2), Drained
      PROVE  InOrder(run_calls)'
  <2>1. n >= 3 BY <1>7, <1>1 DEF BodyFrom, n
  <2>2. BodyFrom(run_calls, r, 1)' BY <1>5, <1>7, <2>1
  <2>3. c.op = "accept" /\ c.request = r BY <1>7 DEF c
  <2>4. Owed(r)' BY <1>3, <1>7, <2>3 DEF Owed, Drained
  <2>. QED BY <2>2, <2>4 DEF InOrder
<1>8. ASSUME NEW r \in RequestIds, BodyFrom(run_calls, r, 1), Owed(r)
      PROVE  InOrder(run_calls)'
  <2>1. n >= 2 /\ run_calls[n - 1] = [op |-> "complete", request |-> r]
        /\ run_calls[n].op = "sample"
    BY <1>8 DEF BodyFrom, n
  <2>2. CASE n >= 3
    <3>1. BodyFrom(run_calls, r, 1)' BY <1>5, <1>8, <2>2
    <3>2. c \in BodyCalls
      <4>1. 1 \in 1 .. n - 2 BY <1>1, <2>2
      <4>. QED BY <1>8, <4>1 DEF BodyFrom, c, n
    <3>3. c.op # "accept" /\ c.op # "complete" BY <3>2, BodyNames
    <3>4. Owed(r)' BY <1>3, <1>8, <3>3 DEF Owed
    <3>. QED BY <3>1, <3>4 DEF InOrder
  <2>3. CASE n = 2
    <3>1. c = [op |-> "complete", request |-> r] BY <2>1, <2>3 DEF c
    <3>2. c.op = "complete" /\ c.request = r BY <3>1
    <3>3. Drained' BY <1>3, <1>8, <3>2 DEF Owed, Drained
    <3>4. Len(run_calls') = 1 /\ run_calls'[1] = run_calls[n] BY <1>1, <2>3
    <3>. QED BY <2>1, <3>3, <3>4 DEF InOrder
  <2>. QED BY <1>1, <2>1, <2>2, <2>3
<1>9. ASSUME n = 1, run_calls[1].op = "sample", Drained
      PROVE  InOrder(run_calls)'
  <2>1. c.op = "sample" BY <1>9 DEF c
  <2>2. Drained' BY <1>3, <1>9, <2>1 DEF Drained
  <2>3. run_calls' = <<>> BY <1>1, <1>9
  <2>. QED BY <2>2, <2>3 DEF InOrder
<1>10. InOrder(run_calls)' BY <1>6, <1>7, <1>8, <1>9 DEF InOrder, n
<1>. QED BY <1>1, <1>3, <1>10

\* Only a call that breaks the contract is refused within an operation, and only
\* the sample at its end with the command completed.
LEMMA RefusalJustified ==
  ASSUME Tallied, run_calls \in Seq(Steps), run_calls # <<>>, InOrder(run_calls), ~CallAllowed
  PROVE  ~Contract(Head(run_calls)) /\ (Head(run_calls).op = "sample" <=> Drained)
<1>. DEFINE c == run_calls[1]
            n == Len(run_calls)
<1>1. Head(run_calls) = c /\ n \in Nat \ {0} OBVIOUS
<1>. HIDE DEF c, n
<1>2. c.op = "unsupported" \/ ~Allowed(c) BY <1>1 DEF CallAllowed
<1>3. c.op = "unsupported" => ~Contract(c) BY DEF Contract
<1>4. ASSUME NEW r \in RequestIds, BodyFrom(run_calls, r, 2),
             run_calls[1] = [op |-> "accept", request |-> r]
      PROVE  FALSE
  <2>1. c.op = "accept" BY <1>4 DEF c
  <2>2. Allowed(c) BY <2>1 DEF Allowed
  <2>. QED BY <1>2, <2>1, <2>2
<1>5. ASSUME NEW r \in RequestIds, BodyFrom(run_calls, r, 1), Owed(r)
      PROVE  ~Contract(c) /\ c.op # "sample" /\ ~Drained
  <2>1. monitor \in MonitorValue BY DEF Tallied
  <2>2. monitor.accepted[r] = monitor.completed[r] + 1 /\ monitor.completed[r] \in Nat
    BY <1>5, <2>1 DEF Owed, MonitorValue
  <2>3. ~Drained BY <2>2 DEF Drained
  <2>4. n >= 2 /\ run_calls[n - 1] = [op |-> "complete", request |-> r]
    BY <1>5 DEF BodyFrom, n
  <2>5. n # 2
    <3>. SUFFICES ASSUME n = 2 PROVE FALSE
      OBVIOUS
    <3>1. c = [op |-> "complete", request |-> r] BY <2>4 DEF c
    <3>2. c.op = "complete" /\ c.request = r BY <3>1
    <3>3. Allowed(c) BY <2>2, <3>2 DEF Allowed
    <3>. QED BY <1>2, <3>2, <3>3
  <2>6. 1 \in 1 .. n - 2 BY <1>1, <2>4, <2>5
  <2>7. c \in BodyCalls /\ Readable(run_calls, 1) BY <1>5, <2>6 DEF BodyFrom, c, n
  <2>8. /\ c.op \in {"map_kv", "ready", "read_kv", "issue", "dma", "route", "unsupported"}
        /\ c.op = "read_kv" => c.owner \in Tenants /\ c.requester = c.owner
        /\ c.op = "dma" => c.address \in Int /\ c.length \in Int
    BY <2>7, BodyNames
  <2>9. CASE c.op \in {"map_kv", "ready"}
    <3>1. Allowed(c) BY <2>9 DEF Allowed
    <3>. QED BY <1>2, <2>9, <3>1
  <2>10. CASE c.op = "read_kv"
    <3>1. monitor.kv_pages[<<c.owner, VirtualPage>>] # NO_PAGE
      <4>1. ~ \E j \in 1 .. 1 - 1 : TRUE OBVIOUS
      <4>. QED BY <2>7, <2>10, <4>1 DEF Readable, c
    <3>2. Allowed(c) BY <2>8, <2>10, <3>1 DEF Allowed
    <3>. QED BY <1>2, <2>10, <3>2
  <2>11. CASE c.op \in {"issue", "dma", "route"}
    <3>1. Allowed(c) <=> Contract(c) BY <2>8, <2>11, PureJudged
    <3>. QED BY <1>2, <2>3, <2>11, <3>1
  <2>12. CASE c.op = "unsupported"
    BY <1>3, <2>3, <2>12
  <2>. QED BY <2>8, <2>9, <2>10, <2>11, <2>12
<1>6. ASSUME run_calls[1].op = "sample", Drained
      PROVE  ~Contract(c)
  <2>1. c.op = "sample" BY <1>6 DEF c
  <2>2. Allowed(c) <=> Contract(c) BY <2>1 DEF Allowed, Contract
  <2>. QED BY <1>2, <2>1, <2>2
<1>. QED BY <1>1, <1>4, <1>5, <1>6 DEF InOrder, c

LEMMA MonitorStep ==
  ASSUME TraceInv, MonitorNext
  PROVE  TraceInv'
<1>1. ASSUME NewMonitor PROVE TraceInv'
  <2>1. Tallied' BY <1>1, TalliedStays DEF NewMonitor, TraceInv
  <2>. QED BY <1>1, <2>1 DEF NewMonitor, TraceInv
<1>2. ASSUME NEW c \in Changing, Call(c) PROVE TraceInv'
  <2>1. Tallied' BY <1>2, CallTallied DEF Call, TraceInv
  <2>. QED BY <1>2, <2>1 DEF Call, TraceInv
<1>3. ASSUME StartTrace PROVE TraceInv'
  <2>1. Tallied' BY <1>3, TalliedStays DEF StartTrace, TraceInv
  <2>2. to_run' \in Seq(Operations)
    <3>1. PICK n \in 0 .. MaxTrace : to_run' \in [1 .. n -> Operations] BY <1>3 DEF StartTrace
    <3>2. n \in Nat BY MonitorAssumption
    <3>. QED BY <3>1, <3>2
  <2>3. run_calls' = <<>> /\ Drained' BY <1>3 DEF StartTrace, TraceInv, Drained
  <2>4. InOrder(run_calls)' BY <2>3 DEF InOrder
  <2>. QED BY <1>3, <2>1, <2>2, <2>3, <2>4 DEF StartTrace, TraceInv
<1>4. ASSUME NextOperation PROVE TraceInv'
  <2>1. Tallied' BY <1>4, TalliedStays DEF NextOperation, TraceInv
  <2>0. to_run' \in Seq(Operations) /\ Head(to_run) \in Operations
    BY <1>4 DEF NextOperation, TraceInv
  <2>2. PICK o \in Operations : o = Head(to_run)
    BY <2>0
  <2>3. Drained
    <3>1. InOrder(run_calls) /\ run_calls = <<>> BY <1>4 DEF NextOperation, TraceInv
    <3>. QED BY <3>1 DEF InOrder, BodyFrom
  <2>4. run_calls' = CallsOf(o) BY <1>4, <2>2 DEF NextOperation
  <2>5. monitor' = monitor /\ outcome' = "running" BY <1>4 DEF NextOperation
  <2>6. /\ CallsOf(o) \in Seq(Steps)
        /\ CallsOf(o)[1] = [op |-> "accept", request |-> o.request]
        /\ BodyFrom(CallsOf(o), o.request, 2)
    BY BodyInOrder
  <2>7. o.request \in RequestIds BY MonitorAssumption
  <2>8. BodyFrom(run_calls, o.request, 2)'
    BY <2>4, <2>5, <2>6 DEF BodyFrom, Readable
  <2>9. Drained' BY <2>3, <2>5 DEF Drained
  <2>10. InOrder(run_calls)' BY <2>4, <2>6, <2>7, <2>8, <2>9 DEF InOrder
  <2>. QED BY <2>0, <2>1, <2>4, <2>5, <2>6, <2>10 DEF TraceInv
<1>5. ASSUME TraceCall PROVE TraceInv'
  <2>1. /\ Tallied /\ run_calls \in Seq(Steps) /\ InOrder(run_calls)
        /\ run_calls # <<>> /\ Allowed(Head(run_calls)) /\ Perform(Head(run_calls))
        /\ run_calls' = Tail(run_calls)
    BY <1>5 DEF TraceCall, CallAllowed, TraceInv
  <2>2. Tallied' /\ run_calls' \in Seq(Steps) /\ InOrder(run_calls)'
    BY <2>1, CallsStayInOrder
  <2>. QED BY <1>5, <2>2 DEF TraceCall, TraceInv
<1>6. ASSUME TraceRaises PROVE TraceInv'
  <2>1. Tallied' BY <1>6, TalliedStays DEF TraceRaises, TraceInv
  <2>2. /\ Tallied /\ run_calls \in Seq(Steps) /\ InOrder(run_calls)
        /\ run_calls # <<>> /\ ~CallAllowed
    BY <1>6 DEF TraceRaises, TraceInv
  <2>3. ~Contract(Head(run_calls)) /\ (Head(run_calls).op = "sample" <=> Drained)
    BY <2>2, RefusalJustified
  <2>4. UNCHANGED <<monitor, history, to_run, run_calls>> BY <1>6 DEF TraceRaises
  <2>5. Contract(Head(run_calls))' <=> Contract(Head(run_calls))
    BY <2>4 DEF Contract, BytesInWindow, SamePartition, Made
  <2>6. Drained' <=> Drained BY <2>4 DEF Drained
  <2>. QED BY <1>6, <2>1, <2>2, <2>3, <2>4, <2>5, <2>6 DEF TraceRaises, TraceInv
<1>7. ASSUME EndTrace PROVE TraceInv'
  <2>1. Tallied' BY <1>7, TalliedStays DEF EndTrace, TraceInv
  <2>2. Drained
    <3>1. InOrder(run_calls) /\ run_calls = <<>> BY <1>7 DEF EndTrace, TraceInv
    <3>. QED BY <3>1 DEF InOrder, BodyFrom
  <2>. QED BY <1>7, <2>1, <2>2 DEF EndTrace, TraceInv
<1>. QED BY <1>1, <1>2, <1>3, <1>4, <1>5, <1>6, <1>7 DEF MonitorNext

LEMMA TraceInvariance == MonitorSpec => []TraceInv
<1>1. MonitorInit => TraceInv
  <2>. SUFFICES ASSUME MonitorInit PROVE TraceInv
    OBVIOUS
  <2>1. history = <<>> /\ monitor = FreshMonitor /\ history \in Seq(Changing) BY DEF MonitorInit
  <2>2. \A op : Made(op) = {} BY <2>1 DEF Made
  <2>3. /\ \A op, r : OfRequest(op, r) = {}
        /\ \A op, k : OfKey(op, k) = {}
    BY <2>2 DEF OfRequest, OfKey
  <2>4. Cardinality({}) = 0 BY FS_EmptySet
  <2>5. monitor \in MonitorValue BY <2>1 DEF FreshMonitor, MonitorValue
  <2>6. /\ monitor.accepted = [r \in RequestIds |-> 0]
        /\ monitor.completed = [r \in RequestIds |-> 0]
        /\ monitor.kv_pages = [k \in Keys |-> NO_PAGE]
        /\ monitor.refcounts = [k \in Keys |-> 0]
        /\ monitor.ready_dependencies = {}
    BY <2>1 DEF FreshMonitor
  <2>7. Tallied
    <3>1. ASSUME NEW r \in RequestIds
          PROVE  /\ monitor.accepted[r] = Cardinality(OfRequest("accept", r))
                 /\ monitor.completed[r] = Cardinality(OfRequest("complete", r))
      BY <2>3, <2>4, <2>6
    <3>2. ASSUME NEW k \in Keys
          PROVE  /\ monitor.refcounts[k] + Cardinality(OfKey("release_kv", k))
                       = Cardinality(OfKey("map_kv", k))
                 /\ LastMapped(k)
      BY <2>3, <2>4, <2>6 DEF LastMapped
    <3>3. monitor.ready_dependencies = {history[i].dependency : i \in Made("ready")}
      BY <2>2, <2>6
    <3>. QED BY <2>1, <2>5, <3>1, <3>2, <3>3 DEF Tallied
  <2>8. Drained BY <2>6 DEF Drained
  <2>. QED BY <2>7, <2>8 DEF MonitorInit, TraceInv
<1>2. TraceInv /\ [MonitorNext]_monitorVars => TraceInv'
  <2>. SUFFICES ASSUME TraceInv, [MonitorNext]_monitorVars PROVE TraceInv'
    OBVIOUS
  <2>1. CASE MonitorNext BY <2>1, MonitorStep
  <2>2. CASE UNCHANGED monitorVars
    <3>1. UNCHANGED <<monitor, history, to_run, run_calls, outcome>> BY <2>2 DEF monitorVars
    <3>2. Tallied' BY <3>1, TalliedStays DEF TraceInv
    <3>3. Drained' <=> Drained BY <3>1 DEF Drained
    <3>4. InOrder(run_calls)' <=> InOrder(run_calls)
      BY <3>1 DEF InOrder, BodyFrom, Readable, Owed, Drained
    <3>5. Contract(Head(run_calls))' <=> Contract(Head(run_calls))
      BY <3>1 DEF Contract, BytesInWindow, SamePartition, Made
    <3>. QED BY <3>1, <3>2, <3>3, <3>4, <3>5 DEF TraceInv
  <2>. QED BY <2>1, <2>2
<1>. QED BY <1>1, <1>2, PTL DEF MonitorSpec

\* For every number of requests, tenants and pages and whatever the calls and the
\* traces are: the monitor raises exactly when the calls made so far break its
\* contract, and a trace fails at the operation that does (FullChipMonitor,
\* run_trace).
THEOREM MonitorJudges == MonitorSpec => []MonitorExact
<1>1. TraceInv => MonitorExact
  <2>. SUFFICES ASSUME TraceInv PROVE CallsJudged /\ TraceJudged
    BY DEF MonitorExact
  <2>1. CallsJudged BY TalliedJudges DEF TraceInv
  <2>2. outcome = "running" /\ run_calls = <<>> => Drained
    BY DEF TraceInv, InOrder, BodyFrom
  <2>. QED BY <2>1, <2>2 DEF TraceInv, TraceJudged
<1>. QED BY <1>1, TraceInvariance, PTL

-----------------------------------------------------------------------------
(* The event simulator: sums over the results *)

\* What is true of no element, and of a set once it is true of it without one
\* element, is true of every finite set.
LEMMA SetByElements ==
  ASSUME NEW S, IsFiniteSet(S), NEW G, {} \in G,
         \A s \in SUBSET S : s # {} /\ s \ {Pick(s)} \in G => s \in G
  PROVE  S \in G
<1>. DEFINE Wrong(k) == \E s \in SUBSET S : Cardinality(s) = k /\ s \notin G
            Bad == {k \in Nat : Wrong(k)}
<1>1. \A s \in SUBSET S : IsFiniteSet(s) /\ Cardinality(s) \in Nat
  BY FS_Subset, FS_CardinalityType
<1>2. SUFFICES ASSUME Bad # {} PROVE FALSE BY <1>1
<1>3. PICK k \in Bad : \A j \in Bad : k <= j
  <2>. HIDE DEF Wrong
  <2>. QED BY <1>2, LeastNatural
<1>4. PICK s \in SUBSET S : Cardinality(s) = k /\ s \notin G BY <1>3
<1>5. s # {} BY <1>4
<1>. DEFINE t == s \ {Pick(s)}
<1>6. t \in SUBSET S /\ k - 1 \in Nat /\ Cardinality(t) = k - 1
  BY <1>1, <1>4, <1>5, Picked
<1>7. k - 1 \notin Bad BY <1>3, <1>6
<1>8. t \in G BY <1>6, <1>7
<1>. QED BY <1>4, <1>5, <1>8

LEMMA SumSteps ==
  ASSUME NEW S, IsFiniteSet(S), NEW f
  PROVE  /\ Summed(f, S)[{}] = 0
         /\ \A s \in SUBSET S :
              s # {} => /\ Pick(s) \in S /\ s \ {Pick(s)} \in SUBSET S
                        /\ Summed(f, S)[s] = f[Pick(s)] + Summed(f, S)[s \ {Pick(s)}]
<1>. DEFINE sum == Summed(f, S)
<1>1. sum = [s \in SUBSET S |-> SumStep(f, s, sum)] BY SumDefined
<1>. HIDE DEF sum
<1>2. \A s \in SUBSET S : sum[s] = SumStep(f, s, sum) BY <1>1
<1>3. sum[{}] = 0 BY <1>2 DEF SumStep
<1>4. ASSUME NEW s \in SUBSET S, s # {}
      PROVE  /\ Pick(s) \in S /\ s \ {Pick(s)} \in SUBSET S
             /\ sum[s] = f[Pick(s)] + sum[s \ {Pick(s)}]
  <2>1. Pick(s) \in s BY <1>4 DEF Pick
  <2>. QED BY <2>1, <1>2, <1>4 DEF SumStep
<1>. QED BY <1>3, <1>4 DEF sum

LEMMA SumIsInt ==
  ASSUME NEW S, IsFiniteSet(S), NEW f \in [S -> Int]
  PROVE  Summed(f, S)[S] \in Int
<1>. DEFINE F == Summed(f, S)
            G == {s \in SUBSET S : F[s] \in Int}
<1>1. F[{}] = 0 /\ \A s \in SUBSET S : s # {} => /\ Pick(s) \in S /\ s \ {Pick(s)} \in SUBSET S
                                                 /\ F[s] = f[Pick(s)] + F[s \ {Pick(s)}]
  BY SumSteps
<1>. HIDE DEF F
<1>2. {} \in G BY <1>1
<1>3. \A s \in SUBSET S : s # {} /\ s \ {Pick(s)} \in G => s \in G BY <1>1
<1>4. S \in G
  <2>. HIDE DEF G
  <2>. QED BY <1>2, <1>3, SetByElements
<1>. QED BY <1>4 DEF F

TimesAtMost(S, f, g, c) == \A i \in S : c * f[i] <= g[i]
Multiple(S, f, g, c) == \A i \in S : g[i] = c * f[i]
AddedUp(S, f, g, h) == \A i \in S : h[i] = f[i] + g[i]

LEMMA SumOrder ==
  ASSUME NEW S, IsFiniteSet(S), NEW f \in [S -> Int], NEW g \in [S -> Int], NEW c \in Int,
         TimesAtMost(S, f, g, c)
  PROVE  c * Summed(f, S)[S] <= Summed(g, S)[S]
<1>. DEFINE F == Summed(f, S)
            H == Summed(g, S)
            G == {s \in SUBSET S : F[s] \in Int /\ H[s] \in Int /\ c * F[s] <= H[s]}
<1>1. F[{}] = 0 /\ \A s \in SUBSET S : s # {} => /\ Pick(s) \in S /\ s \ {Pick(s)} \in SUBSET S
                                                 /\ F[s] = f[Pick(s)] + F[s \ {Pick(s)}]
  BY SumSteps
<1>2. H[{}] = 0 /\ \A s \in SUBSET S : s # {} => /\ Pick(s) \in S /\ s \ {Pick(s)} \in SUBSET S
                                                 /\ H[s] = g[Pick(s)] + H[s \ {Pick(s)}]
  <2>. HIDE DEF F
  <2>. QED BY SumSteps
<1>. HIDE DEF F, H
<1>3. {} \in G BY <1>1, <1>2
<1>4. ASSUME NEW s \in SUBSET S, s # {}, s \ {Pick(s)} \in G PROVE s \in G
  <2>. DEFINE x == f[Pick(s)]
              y == g[Pick(s)]
              m == F[s \ {Pick(s)}]
              n == H[s \ {Pick(s)}]
  <2>1. x \in Int /\ y \in Int /\ c * x <= y BY <1>1, <1>4 DEF TimesAtMost
  <2>2. m \in Int /\ n \in Int /\ c * m <= n BY <1>4
  <2>3. F[s] = x + m /\ H[s] = y + n BY <1>1, <1>2, <1>4
  <2>. HIDE DEF x, y, m, n
  <2>4. c * (x + m) = c * x + c * m BY <2>1, <2>2
  <2>5. c * x \in Int /\ c * m \in Int BY <2>1, <2>2
  <2>6. c * (x + m) <= y + n BY <2>1, <2>2, <2>4, <2>5
  <2>. QED BY <2>1, <2>2, <2>3, <2>6
<1>5. S \in G
  <2>. HIDE DEF G
  <2>. QED BY <1>3, <1>4, SetByElements
<1>. QED BY <1>5 DEF F, H

LEMMA SumTimes ==
  ASSUME NEW S, IsFiniteSet(S), NEW f \in [S -> Int], NEW g \in [S -> Int], NEW c \in Int,
         Multiple(S, f, g, c)
  PROVE  Summed(g, S)[S] = c * Summed(f, S)[S]
<1>. DEFINE F == Summed(f, S)
            H == Summed(g, S)
            G == {s \in SUBSET S : F[s] \in Int /\ H[s] = c * F[s]}
<1>1. F[{}] = 0 /\ \A s \in SUBSET S : s # {} => /\ Pick(s) \in S /\ s \ {Pick(s)} \in SUBSET S
                                                 /\ F[s] = f[Pick(s)] + F[s \ {Pick(s)}]
  BY SumSteps
<1>2. H[{}] = 0 /\ \A s \in SUBSET S : s # {} => /\ Pick(s) \in S /\ s \ {Pick(s)} \in SUBSET S
                                                 /\ H[s] = g[Pick(s)] + H[s \ {Pick(s)}]
  <2>. HIDE DEF F
  <2>. QED BY SumSteps
<1>. HIDE DEF F, H
<1>3. {} \in G BY <1>1, <1>2
<1>4. ASSUME NEW s \in SUBSET S, s # {}, s \ {Pick(s)} \in G PROVE s \in G
  <2>. DEFINE x == f[Pick(s)]
              y == g[Pick(s)]
              m == F[s \ {Pick(s)}]
              n == H[s \ {Pick(s)}]
  <2>1. x \in Int /\ y = c * x BY <1>1, <1>4 DEF Multiple
  <2>2. m \in Int /\ n = c * m BY <1>4
  <2>3. F[s] = x + m /\ H[s] = y + n BY <1>1, <1>2, <1>4
  <2>. HIDE DEF x, y, m, n
  <2>4. c * (x + m) = y + n BY <2>1, <2>2
  <2>. QED BY <2>1, <2>2, <2>3, <2>4
<1>5. S \in G
  <2>. HIDE DEF G
  <2>. QED BY <1>3, <1>4, SetByElements
<1>. QED BY <1>5 DEF F, H

LEMMA SumAdds ==
  ASSUME NEW S, IsFiniteSet(S), NEW f \in [S -> Int], NEW g \in [S -> Int], NEW h \in [S -> Int],
         AddedUp(S, f, g, h)
  PROVE  Summed(h, S)[S] = Summed(f, S)[S] + Summed(g, S)[S]
<1>. DEFINE F == Summed(f, S)
            H == Summed(g, S)
            K == Summed(h, S)
            G == {s \in SUBSET S : F[s] \in Int /\ H[s] \in Int /\ K[s] = F[s] + H[s]}
<1>3. K[{}] = 0 /\ \A s \in SUBSET S : s # {} => /\ Pick(s) \in S /\ s \ {Pick(s)} \in SUBSET S
                                                 /\ K[s] = h[Pick(s)] + K[s \ {Pick(s)}]
  <2>. HIDE DEF F, H
  <2>. QED BY SumSteps
<1>1. F[{}] = 0 /\ \A s \in SUBSET S : s # {} => /\ Pick(s) \in S /\ s \ {Pick(s)} \in SUBSET S
                                                 /\ F[s] = f[Pick(s)] + F[s \ {Pick(s)}]
  <2>. HIDE DEF K, H
  <2>. QED BY SumSteps
<1>2. H[{}] = 0 /\ \A s \in SUBSET S : s # {} => H[s] = g[Pick(s)] + H[s \ {Pick(s)}]
  <2>. HIDE DEF F, K
  <2>. QED BY SumSteps
<1>. HIDE DEF F, H, K
<1>4. {} \in G BY <1>1, <1>2, <1>3
<1>5. ASSUME NEW s \in SUBSET S, s # {}, s \ {Pick(s)} \in G PROVE s \in G
  <2>. DEFINE i == Pick(s)
              t == s \ {Pick(s)}
  <2>1. i \in S BY <1>1, <1>5
  <2>2. F[s] = f[i] + F[t] /\ H[s] = g[i] + H[t] /\ K[s] = h[i] + K[t]
    BY <1>1, <1>2, <1>3, <1>5
  <2>3. F[t] \in Int /\ H[t] \in Int /\ K[t] = F[t] + H[t] BY <1>5
  <2>. HIDE DEF i, t
  <2>4. f[i] \in Int /\ g[i] \in Int /\ h[i] = f[i] + g[i] BY <2>1 DEF AddedUp
  <2>5. F[s] \in Int /\ H[s] \in Int /\ K[s] = F[s] + H[s] BY <2>2, <2>3, <2>4
  <2>. QED BY <2>5
<1>6. S \in G
  <2>. HIDE DEF G
  <2>. QED BY <1>4, <1>5, SetByElements
<1>. QED BY <1>6 DEF F, H, K

\* The sum of the model is that sum.
LEMMA SumOfIs ==
  ASSUME NEW f
  PROVE  SumOf(f) = Summed(f, DOMAIN f)[DOMAIN f]
<1>. DEFINE S == DOMAIN f
            Folded(sum) == [s \in SUBSET S |-> SumStep(f, s, sum)]
            Mapped(sum) == [s \in SUBSET S |->
                              IF s = {} THEN 0
                              ELSE f[CHOOSE x \in s : TRUE] + sum[s \ {CHOOSE x \in s : TRUE}]]
<1>1. \A sum : Folded(sum) = Mapped(sum) BY DEF SumStep, Pick
<1>2. (CHOOSE sum : sum = Folded(sum)) = (CHOOSE sum : sum = Mapped(sum))
  <2>. HIDE DEF Folded, Mapped
  <2>. QED BY <1>1
<1>3. Summed(f, S) = CHOOSE sum : sum = Folded(sum) BY DEF Summed
<1>4. SumOf(f) = (CHOOSE sum : sum = Mapped(sum))[S]
  BY DEF SumOf, MapThenSumSet, MapThenFoldSet
<1>. QED BY <1>2, <1>3, <1>4

-----------------------------------------------------------------------------
(* The event simulator: order statistics *)

LEMMA BijectionIs ==
  ASSUME NEW S, NEW p
  PROVE  p \in Bijection(S, S) <=>
           /\ p \in [S -> S]
           /\ \A i, j \in S : p[i] = p[j] => i = j
           /\ \A k \in S : \E i \in S : p[i] = k
BY DEF Bijection, Injection, Surjection, IsInjective

\* A place of a list with place m taken out, and where it was before.
Skip(m, j) == IF j < m THEN j ELSE j + 1

Sortable(n) ==
  \A values \in [1 .. n -> Nat] :
    \E places \in Bijection(1 .. n, 1 .. n) : Ascending(Rearranged(values, places))

\* Values can be put in order: the least first, then the others in order.
LEMMA AllSortable == \A n \in Nat : Sortable(n)
<1>. DEFINE Bad == {n \in Nat : ~ Sortable(n)}
<1>1. SUFFICES ASSUME Bad # {} PROVE FALSE OBVIOUS
<1>2. PICK n \in Bad : \A k \in Bad : n <= k
  BY <1>1, LeastNatural
<1>3. PICK values \in [1 .. n -> Nat] :
        ~ \E places \in Bijection(1 .. n, 1 .. n) : Ascending(Rearranged(values, places))
  BY <1>2 DEF Sortable
<1>4. CASE n = 0
  <2>. DEFINE none == [i \in 1 .. n |-> i]
  <2>1. none \in Bijection(1 .. n, 1 .. n) BY BijectionIs
  <2>2. Ascending(Rearranged(values, none)) BY <1>4 DEF Ascending, Rearranged
  <2>. QED BY <1>3, <2>1, <2>2
<1>5. CASE n # 0
  <2>1. n - 1 \in Nat /\ Sortable(n - 1) BY <1>2, <1>5
  <2>2. PICK m \in 1 .. n : \A i \in 1 .. n : values[m] <= values[i]
    <3>. DEFINE V == {values[i] : i \in 1 .. n}
    <3>1. V \in SUBSET Nat /\ values[1] \in V BY <1>2, <1>5
    <3>2. PICK x \in V : \A y \in V : x <= y
      <4>. HIDE DEF V
      <4>. QED BY <3>1, LeastNatural
    <3>. QED BY <3>2
  <2>. DEFINE others == [j \in 1 .. n - 1 |-> values[Skip(m, j)]]
  <2>3. \A j \in 1 .. n - 1 : Skip(m, j) \in 1 .. n /\ Skip(m, j) # m
    BY <1>2, <2>1 DEF Skip
  <2>4. others \in [1 .. n - 1 -> Nat] BY <2>3
  <2>5. PICK q \in Bijection(1 .. n - 1, 1 .. n - 1) : Ascending(Rearranged(others, q))
    <3>. HIDE DEF others
    <3>. QED BY <2>1, <2>4 DEF Sortable
  <2>6. /\ q \in [1 .. n - 1 -> 1 .. n - 1]
        /\ \A i, j \in 1 .. n - 1 : q[i] = q[j] => i = j
        /\ \A k \in 1 .. n - 1 : \E i \in 1 .. n - 1 : q[i] = k
    BY <2>5, BijectionIs
  <2>. DEFINE p == [i \in 1 .. n |-> IF i = 1 THEN m ELSE Skip(m, q[i - 1])]
  <2>7. n \in Nat /\ 1 \in 1 .. n /\ \A i \in 1 .. n : i # 1 => i - 1 \in 1 .. n - 1
    BY <1>2, <1>5
  <2>8. \A i \in 1 .. n : i # 1 => q[i - 1] \in 1 .. n - 1 /\ p[i] = Skip(m, q[i - 1])
                                   /\ p[i] \in 1 .. n /\ p[i] # m
    BY <2>6, <2>7, <2>3
  <2>9. p[1] = m BY <2>7
  <2>10. p \in [1 .. n -> 1 .. n]
    <3>1. \A i \in 1 .. n : p[i] \in 1 .. n BY <2>8, <2>9
    <3>. QED BY <3>1
  <2>. HIDE DEF p
  <2>11. ASSUME NEW i \in 1 .. n, NEW j \in 1 .. n, p[i] = p[j] PROVE i = j
    <3>1. CASE i = 1 \/ j = 1 BY <3>1, <2>8, <2>9, <2>11
    <3>2. CASE i # 1 /\ j # 1
      <4>. DEFINE a == q[i - 1]
                  b == q[j - 1]
      <4>1. a \in 1 .. n - 1 /\ b \in 1 .. n - 1 /\ Skip(m, a) = Skip(m, b)
        BY <2>8, <2>11, <3>2
      <4>2. a = b
        <5>. HIDE DEF a, b
        <5>. QED BY <4>1, <2>7 DEF Skip
      <4>3. i - 1 = j - 1 BY <4>2, <2>6, <2>7, <3>2
      <4>. QED BY <4>3
    <3>. QED BY <3>1, <3>2
  <2>12. ASSUME NEW k \in 1 .. n PROVE \E i \in 1 .. n : p[i] = k
    <3>1. CASE k = m BY <3>1, <2>9, <2>7
    <3>2. CASE k # m
      <4>. DEFINE j == IF k < m THEN k ELSE k - 1
      <4>1. j \in 1 .. n - 1 /\ Skip(m, j) = k BY <3>2, <2>7 DEF Skip
      <4>2. PICK i \in 1 .. n - 1 : q[i] = j
        <5>. HIDE DEF j
        <5>. QED BY <4>1, <2>6
      <4>3. i + 1 \in 1 .. n /\ i + 1 # 1 /\ (i + 1) - 1 = i BY <2>7
      <4>4. p[i + 1] = k BY <4>1, <4>2, <4>3, <2>8
      <4>. QED BY <4>3, <4>4
    <3>. QED BY <3>1, <3>2
  <2>13. p \in Bijection(1 .. n, 1 .. n) BY <2>10, <2>11, <2>12, BijectionIs
  <2>14. ASSUME NEW i \in 1 .. n, NEW j \in 1 .. n, i < j
         PROVE  values[p[i]] <= values[p[j]]
    <3>1. CASE i = 1 BY <3>1, <2>2, <2>9, <2>10
    <3>2. CASE i # 1
      <4>1. j # 1 BY <3>2, <2>14
      <4>2. i - 1 \in 1 .. n - 1 /\ j - 1 \in 1 .. n - 1 /\ i - 1 < j - 1
        BY <3>2, <4>1, <2>7, <2>14
      <4>3. others[q[i - 1]] <= others[q[j - 1]]
        <5>. HIDE DEF others
        <5>. QED BY <4>2, <2>5, <2>4 DEF Ascending, Rearranged
      <4>4. others[q[i - 1]] = values[p[i]] /\ others[q[j - 1]] = values[p[j]]
        BY <2>8, <3>2, <4>1
      <4>. HIDE DEF others
      <4>. QED BY <4>3, <4>4
    <3>. QED BY <3>1, <3>2
  <2>15. Ascending(Rearranged(values, p)) BY <2>14 DEF Ascending, Rearranged
  <2>. QED BY <2>13, <2>15, <1>3
<1>. QED BY <1>4, <1>5

\* The ordered values are the values, in order.
LEMMA OrderedIs ==
  ASSUME NEW n \in Nat, NEW values \in [1 .. n -> Nat]
  PROVE  /\ Ordered(values) \in [1 .. n -> Nat]
         /\ Len(Ordered(values)) = n
         /\ \A i, j \in 1 .. n : i <= j => Ordered(values)[i] <= Ordered(values)[j]
         /\ \A i \in 1 .. n : \E j \in 1 .. n : Ordered(values)[i] = values[j]
         /\ \A j \in 1 .. n : \E i \in 1 .. n : Ordered(values)[i] = values[j]
<1>. DEFINE Right(places) == places \in Bijection(1 .. n, 1 .. n) /\ Ascending(Rearranged(values, places))
            places == CHOOSE p \in Bijection(1 .. n, 1 .. n) : Ascending(Rearranged(values, p))
            sorted == Rearranged(values, places)
<1>1. \E p \in Bijection(1 .. n, 1 .. n) : Ascending(Rearranged(values, p))
  BY AllSortable DEF Sortable
<1>2. places \in Bijection(1 .. n, 1 .. n) /\ Ascending(sorted) BY <1>1
<1>3. Ordered(values) = sorted BY DEF Ordered
<1>. HIDE DEF places
<1>4. sorted = [i \in 1 .. n |-> values[places[i]]] BY DEF Rearranged
<1>5. /\ places \in [1 .. n -> 1 .. n]
      /\ \A k \in 1 .. n : \E i \in 1 .. n : places[i] = k
  BY <1>2, BijectionIs
<1>6. sorted \in [1 .. n -> Nat] /\ \A i \in 1 .. n : sorted[i] = values[places[i]]
  BY <1>4, <1>5
<1>. HIDE DEF sorted
<1>7. Len(sorted) = n BY <1>6
<1>8. \A i, j \in 1 .. n : i <= j => sorted[i] <= sorted[j]
  BY <1>2, <1>6 DEF Ascending
<1>9. \A i \in 1 .. n : \E j \in 1 .. n : sorted[i] = values[j] BY <1>5, <1>6
<1>10. \A j \in 1 .. n : \E i \in 1 .. n : sorted[i] = values[j] BY <1>5, <1>6
<1>. QED BY <1>3, <1>6, <1>7, <1>8, <1>9, <1>10

\* Between the values at place low and the next, p hundredths of the way.
Between(s, n, rank) ==
  LET low == (rank \div 100) + 1
      high == IF low < n THEN low + 1 ELSE n
  IN  s[low] * (100 - (rank % 100)) + s[high] * (rank % 100)

IsBetween(s, n, rank, low, high, part) ==
  /\ rank = 100 * (low - 1) + part
  /\ low <= high /\ (part # 0 => high = low + 1)
  /\ s[low] \in Nat /\ s[high] \in Nat
  /\ Between(s, n, rank) = 100 * s[low] + part * (s[high] - s[low])
  /\ Between(s, n, rank) \in Int
  /\ 100 * s[low] <= Between(s, n, rank) /\ Between(s, n, rank) <= 100 * s[high]

Ordering(s, n) == s \in [1 .. n -> Nat] /\ \A i, j \in 1 .. n : i <= j => s[i] <= s[j]

LEMMA BetweenIs ==
  ASSUME NEW n \in Nat \ {0}, NEW s, Ordering(s, n), NEW rank \in 0 .. 100 * (n - 1)
  PROVE  \E low, high \in 1 .. n : \E part \in 0 .. 99 : IsBetween(s, n, rank, low, high, part)
<1>. DEFINE low == (rank \div 100) + 1
            high == IF low < n THEN low + 1 ELSE n
            part == rank % 100
            x == s[low]
            y == s[high]
<1>0. s \in [1 .. n -> Nat] /\ \A i, j \in 1 .. n : i <= j => s[i] <= s[j] BY DEF Ordering
<1>1. /\ low \in 1 .. n /\ part \in 0 .. 99 /\ rank = 100 * (low - 1) + part
      /\ (part # 0 => low < n)
  OBVIOUS
<1>2. Between(s, n, rank) = x * (100 - part) + y * part BY DEF Between
<1>. HIDE DEF low, part
<1>3. high \in 1 .. n /\ low <= high /\ (part # 0 => high = low + 1) BY <1>1
<1>. HIDE DEF high
<1>4. x \in Nat /\ y \in Nat /\ x <= y BY <1>0, <1>1, <1>3
<1>. HIDE DEF x, y
<1>5. PICK d \in Nat : y = x + d
  <2>1. y - x \in Nat /\ y = x + (y - x) BY <1>4
  <2>. QED BY <2>1
<1>6. x * (100 - part) + y * part = 100 * x + part * d
  <2>1. y * part = x * part + d * part BY <1>1, <1>4, <1>5
  <2>2. x * (100 - part) = 100 * x - x * part BY <1>1, <1>4
  <2>3. x * part \in Int /\ d * part \in Int /\ d * part = part * d BY <1>1, <1>4, <1>5
  <2>. QED BY <2>1, <2>2, <2>3, <1>4
<1>7. part * d \in Nat /\ part * d <= 100 * d
  <2>1. part * d <= 99 * d /\ part * d \in Nat BY <1>1, <1>5, Multiples
  <2>. QED BY <2>1, <1>5
<1>8. y - x = d BY <1>4, <1>5
<1>9. Between(s, n, rank) = 100 * x + part * (y - x) BY <1>2, <1>6, <1>8
<1>10. 100 * x <= 100 * x + part * d /\ 100 * x + part * d <= 100 * y
  BY <1>4, <1>5, <1>7
<1>11. 100 * x <= Between(s, n, rank) /\ Between(s, n, rank) <= 100 * y
  BY <1>2, <1>6, <1>10
<1>12. Between(s, n, rank) \in Int BY <1>2, <1>6, <1>7, <1>4
<1>13. IsBetween(s, n, rank, low, high, part)
  BY <1>1, <1>3, <1>4, <1>9, <1>11, <1>12 DEF x, y, IsBetween
<1>. QED BY <1>1, <1>3, <1>13

\* A later rank has no smaller value.
LEMMA BetweenGrows ==
  ASSUME NEW n \in Nat \ {0}, NEW s, Ordering(s, n),
         NEW rank \in 0 .. 100 * (n - 1), NEW later \in 0 .. 100 * (n - 1), rank <= later
  PROVE  Between(s, n, rank) <= Between(s, n, later)
<1>0. s \in [1 .. n -> Nat] /\ \A i, j \in 1 .. n : i <= j => s[i] <= s[j] BY DEF Ordering
<1>11. PICK l1, h1 \in 1 .. n, p1 \in 0 .. 99 : IsBetween(s, n, rank, l1, h1, p1)
  BY BetweenIs
<1>12. PICK l2, h2 \in 1 .. n, p2 \in 0 .. 99 : IsBetween(s, n, later, l2, h2, p2)
  BY BetweenIs
<1>1. /\ rank = 100 * (l1 - 1) + p1
      /\ l1 <= h1 /\ (p1 # 0 => h1 = l1 + 1)
      /\ Between(s, n, rank) = 100 * s[l1] + p1 * (s[h1] - s[l1])
      /\ Between(s, n, rank) \in Int /\ Between(s, n, rank) <= 100 * s[h1]
  BY <1>11 DEF IsBetween
<1>2. /\ later = 100 * (l2 - 1) + p2
      /\ l2 <= h2 /\ (p2 # 0 => h2 = l2 + 1)
      /\ Between(s, n, later) = 100 * s[l2] + p2 * (s[h2] - s[l2])
      /\ Between(s, n, later) \in Int /\ 100 * s[l2] <= Between(s, n, later)
  BY <1>12 DEF IsBetween
<1>3. \A i \in 1 .. n : s[i] \in Nat BY <1>0
<1>4. l1 <= l2 BY <1>1, <1>2
<1>5. CASE l1 = l2
  <2>1. p1 <= p2 BY <1>1, <1>2, <1>5
  <2>2. CASE p1 = 0
    <3>1. Between(s, n, rank) = 100 * s[l1]
      <4>1. 0 * (s[h1] - s[l1]) = 0 /\ s[l1] \in Nat BY <1>3
      <4>. QED BY <4>1, <1>1, <2>2
    <3>. QED BY <3>1, <1>2, <1>5
  <2>3. CASE p1 # 0
    <3>1. h1 = h2 BY <1>1, <1>2, <1>5, <2>1, <2>3
    <3>. DEFINE d == s[h1] - s[l1]
    <3>2. d \in Nat
      <4>1. s[l1] <= s[h1] /\ s[l1] \in Nat /\ s[h1] \in Nat BY <1>0, <1>1
      <4>. QED BY <4>1
    <3>3. Between(s, n, rank) = 100 * s[l1] + p1 * d /\ Between(s, n, later) = 100 * s[l1] + p2 * d
      BY <1>1, <1>2, <1>5, <3>1
    <3>. HIDE DEF d
    <3>4. p1 * d <= p2 * d /\ p1 * d \in Nat /\ p2 * d \in Nat BY <2>1, <3>2, Multiples
    <3>. QED BY <3>3, <3>4, <1>3
  <2>. QED BY <2>2, <2>3
<1>6. CASE l1 < l2
  <2>1. CASE p1 = 0
    <3>1. Between(s, n, rank) = 100 * s[l1]
      <4>1. 0 * (s[h1] - s[l1]) = 0 /\ s[l1] \in Nat BY <1>3
      <4>. QED BY <4>1, <1>1, <2>1
    <3>2. s[l1] <= s[l2] BY <1>0, <1>6
    <3>. QED BY <3>1, <3>2, <1>2, <1>3
  <2>2. CASE p1 # 0
    <3>1. h1 <= l2 BY <1>1, <1>6, <2>2
    <3>2. s[h1] <= s[l2] BY <1>0, <3>1
    <3>3. Between(s, n, rank) <= 100 * s[h1] /\ 100 * s[h1] <= 100 * s[l2]
          /\ 100 * s[l2] <= Between(s, n, later)
      BY <3>2, <1>1, <1>2, <1>3
    <3>4. Between(s, n, rank) \in Int /\ Between(s, n, later) \in Int
      BY <1>1, <1>2, <1>3
    <3>. QED BY <3>3, <3>4, <1>3
  <2>. QED BY <2>1, <2>2
<1>. QED BY <1>4, <1>5, <1>6

\* The summary of at least one value.
LEMMA PercentilesWithin ==
  ASSUME NEW n \in Nat \ {0}, NEW values \in [1 .. n -> Nat]
  PROVE  Within(<<Median(values), Percentile(values, 95), Percentile(values, 99)>>, values)
<1>. DEFINE s == Ordered(values)
<1>1. /\ s \in [1 .. n -> Nat] /\ Len(s) = n
      /\ \A i, j \in 1 .. n : i <= j => s[i] <= s[j]
      /\ \A i \in 1 .. n : \E j \in 1 .. n : s[i] = values[j]
      /\ \A j \in 1 .. n : \E i \in 1 .. n : s[i] = values[j]
  BY OrderedIs
<1>2. \A pct \in {95, 99} : Percentile(values, pct) = Between(s, n, (n - 1) * pct)
  BY <1>1 DEF Percentile, Between
<1>. HIDE DEF s
<1>3. Median(values) = Between(s, n, (n - 1) * 50)
  <2>. DEFINE half == n \div 2
              rank == (n - 1) * 50
  <2>1. half \in Nat /\ (n % 2 = 1 => n = 2 * half + 1) /\ (n % 2 # 1 => n = 2 * half)
    OBVIOUS
  <2>2. Median(values) = IF n % 2 = 1 THEN 100 * s[half + 1] ELSE 50 * (s[half] + s[half + 1])
    BY <1>1 DEF Median, s
  <2>. HIDE DEF half
  <2>3. CASE n % 2 = 1
    <3>1. rank = 100 * half BY <2>1, <2>3
    <3>2. rank \div 100 = half /\ rank % 100 = 0
      <4>. HIDE DEF rank
      <4>. QED BY <3>1, <2>1
    <3>. DEFINE high == IF half + 1 < n THEN half + 1 + 1 ELSE n
    <3>3. Between(s, n, rank) = s[half + 1] * (100 - 0) + s[high] * 0
      <4>. HIDE DEF rank
      <4>. QED BY <3>2 DEF Between
    <3>4. half + 1 \in 1 .. n /\ high \in 1 .. n BY <2>1, <2>3
    <3>5. s[half + 1] \in Nat /\ s[high] \in Nat
      <4>. HIDE DEF high
      <4>. QED BY <1>1, <3>4
    <3>6. s[half + 1] * (100 - 0) + s[high] * 0 = 100 * s[half + 1]
      <4>. HIDE DEF high
      <4>. QED BY <3>5
    <3>. QED BY <2>2, <2>3, <3>3, <3>6
  <2>4. CASE n % 2 # 1
    <3>1. half # 0 /\ rank = 100 * (half - 1) + 50 BY <2>1, <2>4
    <3>2. rank \div 100 = half - 1 /\ rank % 100 = 50
      <4>. HIDE DEF rank
      <4>. QED BY <3>1, <2>1
    <3>3. (half - 1) + 1 = half /\ half < n BY <2>1, <3>1, <2>4
    <3>4. Between(s, n, rank) = s[half] * (100 - 50) + s[half + 1] * 50
      <4>. HIDE DEF rank
      <4>. QED BY <3>2, <3>3 DEF Between
    <3>5. half \in 1 .. n /\ half + 1 \in 1 .. n BY <2>1, <3>1, <3>3
    <3>6. s[half] \in Nat /\ s[half + 1] \in Nat BY <1>1, <3>5
    <3>7. s[half] * (100 - 50) + s[half + 1] * 50 = 50 * (s[half] + s[half + 1])
      BY <3>6
    <3>. QED BY <2>2, <2>4, <3>4, <3>7
  <2>. QED BY <2>3, <2>4
<1>. DEFINE r50 == (n - 1) * 50
            r95 == (n - 1) * 95
            r99 == (n - 1) * 99
<1>4. /\ r50 \in 0 .. 100 * (n - 1) /\ r95 \in 0 .. 100 * (n - 1) /\ r99 \in 0 .. 100 * (n - 1)
      /\ r50 <= r95 /\ r95 <= r99
  OBVIOUS
<1>14. Ordering(s, n) BY <1>1 DEF Ordering
<1>15. Median(values) = Between(s, n, r50) BY <1>3
<1>16. Percentile(values, 95) = Between(s, n, r95) /\ Percentile(values, 99) = Between(s, n, r99)
  BY <1>2
<1>. HIDE DEF r50, r95, r99
<1>5. Median(values) <= Percentile(values, 95) BY <1>14, <1>15, <1>16, <1>4, BetweenGrows
<1>6. Percentile(values, 95) <= Percentile(values, 99) BY <1>14, <1>16, <1>4, BetweenGrows
<1>7. \A x \in ToSet(values) : x \in Nat /\ s[1] <= x /\ x <= s[n]
  <2>. SUFFICES ASSUME NEW j \in 1 .. n
                PROVE  values[j] \in Nat /\ s[1] <= values[j] /\ values[j] <= s[n]
    BY DEF ToSet
  <2>1. PICK i \in 1 .. n : s[i] = values[j] BY <1>1
  <2>2. 1 \in 1 .. n /\ n \in 1 .. n /\ 1 <= i /\ i <= n OBVIOUS
  <2>. QED BY <2>1, <2>2, <1>1
<1>8. s[1] \in ToSet(values) /\ s[n] \in ToSet(values)
  <2>1. 1 \in 1 .. n /\ n \in 1 .. n OBVIOUS
  <2>2. (\E j \in 1 .. n : s[1] = values[j]) /\ \E j \in 1 .. n : s[n] = values[j]
    BY <1>1, <2>1
  <2>. QED BY <2>2 DEF ToSet
<1>9. Min(ToSet(values)) = s[1]
  <2>1. \E x \in ToSet(values) : \A y \in ToSet(values) : x <= y BY <1>7, <1>8
  <2>2. Min(ToSet(values)) \in ToSet(values)
        /\ \A y \in ToSet(values) : Min(ToSet(values)) <= y BY <2>1 DEF Min
  <2>. QED BY <2>2, <1>7, <1>8
<1>10. Max(ToSet(values)) = s[n]
  <2>1. \E x \in ToSet(values) : \A y \in ToSet(values) : x >= y BY <1>7, <1>8
  <2>2. Max(ToSet(values)) \in ToSet(values)
        /\ \A y \in ToSet(values) : Max(ToSet(values)) >= y BY <2>1 DEF Max
  <2>. QED BY <2>2, <1>7, <1>8
<1>11. \A rank \in 0 .. 100 * (n - 1) : /\ Between(s, n, rank) \in Int
                                         /\ 100 * s[1] <= Between(s, n, rank)
                                         /\ Between(s, n, rank) <= 100 * s[n]
  <2>. SUFFICES ASSUME NEW rank \in 0 .. 100 * (n - 1)
                PROVE  /\ Between(s, n, rank) \in Int
                       /\ 100 * s[1] <= Between(s, n, rank)
                       /\ Between(s, n, rank) <= 100 * s[n]
    OBVIOUS
  <2>1. PICK low, high \in 1 .. n, part \in 0 .. 99 : IsBetween(s, n, rank, low, high, part)
    BY <1>14, BetweenIs
  <2>2. 1 \in 1 .. n /\ n \in 1 .. n /\ 1 <= low /\ high <= n OBVIOUS
  <2>3. s[1] <= s[low] /\ s[high] <= s[n] /\ s[1] \in Nat /\ s[n] \in Nat BY <1>1, <2>2
  <2>4. /\ Between(s, n, rank) \in Int /\ s[low] \in Nat /\ s[high] \in Nat
        /\ 100 * s[low] <= Between(s, n, rank) /\ Between(s, n, rank) <= 100 * s[high]
    BY <2>1 DEF IsBetween
  <2>. DEFINE a == s[1]
              b == s[low]
              c == s[high]
              d == s[n]
              between == Between(s, n, rank)
  <2>5. /\ a \in Nat /\ b \in Nat /\ c \in Nat /\ d \in Nat /\ between \in Int
        /\ a <= b /\ c <= d /\ 100 * b <= between /\ between <= 100 * c
    BY <2>3, <2>4
  <2>. HIDE DEF a, b, c, d, between
  <2>6. 100 * a <= between /\ between <= 100 * d BY <2>5
  <2>. QED BY <2>5, <2>6 DEF a, d, between
<1>12. 100 * s[1] <= Median(values) BY <1>15, <1>4, <1>11
<1>13. Percentile(values, 99) <= 100 * s[n] BY <1>16, <1>4, <1>11
<1>. QED BY <1>5, <1>6, <1>9, <1>10, <1>12, <1>13 DEF Within

-----------------------------------------------------------------------------
(* The event simulator: the tokens of a request *)

LEMMA ByNumbers ==
  ASSUME NEW N \in Nat, NEW G, 0 \in G, \A i \in 0 .. N - 1 : i \in G => i + 1 \in G
  PROVE  \A i \in 0 .. N : i \in G
<1>. DEFINE Bad == {i \in 0 .. N : i \notin G}
<1>1. SUFFICES ASSUME Bad # {} PROVE FALSE OBVIOUS
<1>2. PICK i \in Bad : \A j \in Bad : i <= j
  <2>1. Bad \in SUBSET Nat OBVIOUS
  <2>. QED BY <1>1, <2>1, LeastNatural
<1>3. i # 0 BY <1>2
<1>4. i - 1 \in 0 .. N - 1 /\ i - 1 \in 0 .. N /\ (i - 1) + 1 = i BY <1>3
<1>5. i - 1 \notin Bad BY <1>2, <1>4
<1>. QED BY <1>4, <1>5, <1>2

\* TokenTime of hardware h.
KvTimeOf(h, bytes) ==
  bytes * h.local * h.local_ticks
    + (bytes * h.remote + 4 * (bytes * (10 - h.local - h.remote))) * h.remote_ticks

TimeOf(h, context) ==
  Larger(KvTimeOf(h, context * KvBytes),
         Larger(10 * WeightBytes * h.local_ticks, 10 * h.compute_ticks))
    + 10 * h.collective

LEMMA TokenTimeIs ==
  ASSUME NEW context PROVE TokenTime(context) = TimeOf(hardware, context)
BY DEF TokenTime, TimeOf, KvTime, KvTimeOf, LocalPart, RemotePart, ColdPart, KvRead

Reads(h) == h \in Hardwares /\ h.local + h.remote <= 10

LEMMA HardwareTyped ==
  ASSUME NEW h \in Hardwares
  PROVE  /\ h.local \in Nat /\ h.remote \in Nat /\ h.local_ticks \in Nat
         /\ h.remote_ticks \in Nat /\ h.prefill_ticks \in Nat /\ h.compute_ticks \in Nat
         /\ h.collective \in Nat
BY EventAssumption

LEMMA RequestTyped ==
  ASSUME NEW r \in Requests
  PROVE  /\ r.prefix \in Nat /\ r.reused \in Nat /\ r.prefill \in Nat
         /\ r.output \in Nat \ {0} /\ r.output <= SCALE
         /\ \E k \in Nat : SCALE = r.output * k
<1>1. /\ r.prefix \in Nat /\ r.reused \in Nat /\ r.prefill \in Nat /\ r.output \in Nat \ {0}
      /\ SCALE % r.output = 0 /\ SCALE \in Nat \ {0}
  BY EventAssumption
<1>. DEFINE n == r.output
            k == SCALE \div n
<1>2. n \in Nat \ {0} /\ SCALE % n = 0 BY <1>1
<1>. HIDE DEF n
<1>3. k \in Nat /\ SCALE = n * k + (SCALE % n) BY <1>1, <1>2, Divided
<1>. HIDE DEF k
<1>4. SCALE = n * k BY <1>1, <1>2, <1>3
<1>5. k # 0 BY <1>1, <1>2, <1>4
<1>6. 1 * n <= k * n BY <1>2, <1>3, <1>5, Multiples
<1>7. n <= SCALE BY <1>2, <1>3, <1>4, <1>6
<1>. QED BY <1>1, <1>3, <1>4, <1>7 DEF n

\* More context never makes a token faster.
LEMMA TimeGrows ==
  ASSUME NEW h, Reads(h), NEW a \in Nat, NEW b \in Nat, a <= b
  PROVE  TimeOf(h, a) \in Nat /\ TimeOf(h, b) \in Nat /\ TimeOf(h, a) <= TimeOf(h, b)
<1>. DEFINE l == h.local
            r == h.remote
            c == 10 - h.local - h.remote
            lt == h.local_ticks
            rt == h.remote_ticks
            x == a * KvBytes
            y == b * KvBytes
            floor == Larger(10 * WeightBytes * h.local_ticks, 10 * h.compute_ticks)
            extra == 10 * h.collective
<1>1. l \in Nat /\ r \in Nat /\ c \in Nat /\ lt \in Nat /\ rt \in Nat /\ extra \in Nat
  BY HardwareTyped DEF Reads
<1>2. floor \in Nat BY HardwareTyped, EventAssumption DEF Reads, Larger
<1>3. x \in Nat /\ y \in Nat /\ x <= y BY EventAssumption, Multiples
<1>4. KvTimeOf(h, x) = x * l * lt + (x * r + 4 * (x * c)) * rt BY DEF KvTimeOf
<1>5. KvTimeOf(h, y) = y * l * lt + (y * r + 4 * (y * c)) * rt BY DEF KvTimeOf
<1>6. TimeOf(h, a) = Larger(KvTimeOf(h, x), floor) + extra
      /\ TimeOf(h, b) = Larger(KvTimeOf(h, y), floor) + extra BY DEF TimeOf
<1>. HIDE DEF l, r, c, lt, rt, x, y, floor, extra
<1>. DEFINE u == KvTimeOf(h, x)
            v == KvTimeOf(h, y)
<1>7. u \in Nat /\ v \in Nat /\ u <= v
  <2>1. /\ x * l \in Nat /\ y * l \in Nat /\ x * l <= y * l
        /\ x * r \in Nat /\ y * r \in Nat /\ x * r <= y * r
        /\ x * c \in Nat /\ y * c \in Nat /\ x * c <= y * c
    BY <1>1, <1>3, Multiples
  <2>. DEFINE s == x * r + 4 * (x * c)
              t == y * r + 4 * (y * c)
              m == x * l
              n == y * l
  <2>2. s \in Nat /\ t \in Nat /\ s <= t BY <2>1
  <2>3. m \in Nat /\ n \in Nat /\ m <= n BY <2>1
  <2>4. u = m * lt + s * rt /\ v = n * lt + t * rt BY <1>4, <1>5
  <2>. HIDE DEF s, t, m, n, u, v
  <2>5. /\ m * lt \in Nat /\ n * lt \in Nat /\ m * lt <= n * lt
        /\ s * rt \in Nat /\ t * rt \in Nat /\ s * rt <= t * rt
    BY <2>2, <2>3, <1>1, Multiples
  <2>. QED BY <2>4, <2>5
<1>. HIDE DEF u, v
<1>8. Larger(u, floor) \in Nat /\ Larger(v, floor) \in Nat /\ Larger(u, floor) <= Larger(v, floor)
  BY <1>2, <1>7 DEF Larger
<1>9. TimeOf(h, a) = Larger(u, floor) + extra /\ TimeOf(h, b) = Larger(v, floor) + extra
  BY <1>6 DEF u, v
<1>. QED BY <1>1, <1>8, <1>9

\* f counts the time of the first tokens after a prefix.
Adds(h, prefix, f) ==
  /\ f \in [0 .. SCALE -> Nat] /\ f[0] = 0
  /\ \A n \in 0 .. SCALE - 1 : f[n + 1] = f[n] + TimeOf(h, prefix + n)

LEMMA AddsExists ==
  ASSUME NEW h, Reads(h), NEW prefix \in Nat
  PROVE  \E f : Adds(h, prefix, f)
<1>. DEFINE Upto(N, f) == /\ f \in [0 .. N -> Nat] /\ f[0] = 0
                          /\ \A n \in 0 .. N - 1 : f[n + 1] = f[n] + TimeOf(h, prefix + n)
            G == {N \in Nat : \E f : Upto(N, f)}
<1>1. 0 \in G
  <2>1. Upto(0, [n \in 0 .. 0 |-> 0]) OBVIOUS
  <2>. QED BY <2>1
<1>2. ASSUME NEW N \in 0 .. SCALE - 1, N \in G PROVE N + 1 \in G
  <2>1. N \in Nat BY EventAssumption
  <2>2. PICK f : Upto(N, f) BY <1>2
  <2>. DEFINE next == [n \in 0 .. N + 1 |-> IF n = N + 1 THEN f[N] + TimeOf(h, prefix + N) ELSE f[n]]
  <2>3. TimeOf(h, prefix + N) \in Nat BY <2>1, TimeGrows
  <2>4. next \in [0 .. N + 1 -> Nat] BY <2>1, <2>2, <2>3
  <2>5. next[0] = 0 BY <2>1, <2>2
  <2>6. ASSUME NEW n \in 0 .. (N + 1) - 1 PROVE next[n + 1] = next[n] + TimeOf(h, prefix + n)
    <3>1. n \in 0 .. N /\ n # N + 1 /\ n + 1 \in 0 .. N + 1 /\ n \in 0 .. N + 1 BY <2>1
    <3>2. next[n] = f[n] BY <3>1
    <3>3. CASE n = N BY <3>1, <3>2, <3>3
    <3>4. CASE n # N
      <4>1. n \in 0 .. N - 1 /\ n + 1 # N + 1 BY <3>1, <3>4, <2>1
      <4>2. next[n + 1] = f[n + 1] BY <3>1, <4>1
      <4>. HIDE DEF next
      <4>. QED BY <3>2, <4>1, <4>2, <2>2
    <3>. QED BY <3>3, <3>4
  <2>. HIDE DEF next
  <2>7. Upto(N + 1, next) BY <2>4, <2>5, <2>6
  <2>. HIDE DEF Upto
  <2>8. N + 1 \in Nat /\ \E g : Upto(N + 1, g) BY <2>1, <2>7
  <2>. QED BY <2>8
<1>3. SCALE \in Nat /\ SCALE \in 0 .. SCALE BY EventAssumption
<1>4. SCALE \in G
  <2>. HIDE DEF G
  <2>. QED BY <1>1, <1>2, <1>3, ByNumbers
<1>. QED BY <1>4 DEF Adds

\* The first n tokens take at least n times the first's time, at most n times
\* the last's; after a longer prefix they take no less.
LEMMA AddsBounds ==
  ASSUME NEW h, Reads(h), NEW prefix \in Nat, NEW longer \in Nat, prefix <= longer,
         NEW f, Adds(h, prefix, f), NEW g, Adds(h, longer, g)
  PROVE  \A n \in 0 .. SCALE : /\ n * TimeOf(h, prefix) <= f[n]
                               /\ n # 0 => f[n] <= n * TimeOf(h, prefix + n - 1)
                               /\ f[n] <= g[n]
<1>. DEFINE T(n) == TimeOf(h, prefix + n)
            G == {n \in 0 .. SCALE : /\ n * TimeOf(h, prefix) <= f[n]
                                     /\ n # 0 => f[n] <= n * TimeOf(h, prefix + n - 1)
                                     /\ f[n] <= g[n]}
<1>1. SCALE \in Nat BY EventAssumption
<1>2. 0 \in G
  <2>1. TimeOf(h, prefix) \in Nat BY TimeGrows
  <2>. QED BY <1>1, <2>1 DEF Adds
<1>3. ASSUME NEW n \in 0 .. SCALE - 1, n \in G PROVE n + 1 \in G
  <2>. DEFINE a == TimeOf(h, prefix)
              b == TimeOf(h, prefix + n)
              c == TimeOf(h, longer + n)
              d == TimeOf(h, prefix + n - 1)
  <2>1. n \in Nat /\ n \in 0 .. SCALE /\ n + 1 \in 0 .. SCALE BY <1>1
  <2>2. a \in Nat /\ b \in Nat /\ c \in Nat /\ a <= b /\ b <= c
    BY <2>1, TimeGrows
  <2>3. n # 0 => d \in Nat /\ d <= b
    <3>1. ASSUME n # 0 PROVE prefix + n - 1 \in Nat /\ prefix + n \in Nat /\ prefix + n - 1 <= prefix + n
      BY <2>1, <3>1
    <3>. QED BY <3>1, TimeGrows
  <2>4. f[n + 1] = f[n] + b /\ g[n + 1] = g[n] + c /\ f[n] \in Nat /\ g[n] \in Nat
    BY <2>1 DEF Adds
  <2>5. n * a <= f[n] /\ (n # 0 => f[n] <= n * d) /\ f[n] <= g[n] /\ (n = 0 => f[n] = 0)
    BY <1>3 DEF Adds
  <2>6. prefix + (n + 1) - 1 = prefix + n BY <2>1
  <2>. HIDE DEF a, b, c, d
  <2>. DEFINE x == f[n]
              y == g[n]
  <2>7. x \in Nat /\ y \in Nat /\ n * a <= x /\ (n # 0 => x <= n * d) /\ x <= y /\ (n = 0 => x = 0)
    BY <2>4, <2>5
  <2>. HIDE DEF x, y
  <2>8. (n + 1) * a = n * a + a /\ n * a \in Nat /\ (n + 1) * b = n * b + b /\ n * b \in Nat
    BY <2>1, <2>2
  <2>9. (n + 1) * a <= x + b BY <2>2, <2>7, <2>8
  <2>10. x <= n * b
    <3>1. CASE n = 0 BY <3>1, <2>2, <2>7
    <3>2. CASE n # 0
      <4>1. d * n <= b * n /\ d * n \in Nat BY <3>2, <2>1, <2>2, <2>3, Multiples
      <4>2. d * n = n * d /\ b * n = n * b BY <3>2, <2>1, <2>2, <2>3
      <4>. QED BY <4>1, <4>2, <3>2, <2>7, <2>8
    <3>. QED BY <3>1, <3>2
  <2>11. x + b <= (n + 1) * b BY <2>10, <2>2, <2>7, <2>8
  <2>12. x + b <= y + c BY <2>2, <2>7
  <2>13. f[n + 1] = x + b /\ g[n + 1] = y + c BY <2>4 DEF x, y
  <2>. QED BY <2>1, <2>6, <2>9, <2>11, <2>12, <2>13 DEF a, b
<1>. HIDE DEF G
<1>4. \A n \in 0 .. SCALE : n \in G BY <1>1, <1>2, <1>3, ByNumbers
<1>. QED BY <1>4 DEF G

\* The mean time of a token grows with their number.
LEMMA MeanGrows ==
  ASSUME NEW h, Reads(h), NEW prefix \in Nat, NEW f, Adds(h, prefix, f),
         NEW n \in 1 .. SCALE, NEW m \in 1 .. SCALE, n <= m
  PROVE  m * f[n] <= n * f[m]
<1>. DEFINE G == {i \in 0 .. SCALE : n <= i => i * f[n] <= n * f[i]}
<1>1. SCALE \in Nat /\ n \in Nat \ {0} /\ n \in 0 .. SCALE BY EventAssumption
<1>2. 0 \in G BY <1>1
<1>3. ASSUME NEW i \in 0 .. SCALE - 1, i \in G PROVE i + 1 \in G
  <2>1. i \in Nat /\ i \in 0 .. SCALE /\ i + 1 \in 0 .. SCALE BY <1>1
  <2>2. CASE i + 1 < n BY <2>1, <2>2, <1>1
  <2>3. CASE i + 1 = n
    <3>1. (i + 1) * f[n] = n * f[i + 1] BY <2>3
    <3>2. f[n] \in Nat BY <1>1 DEF Adds
    <3>3. n * f[n] \in Nat BY <3>2, <1>1
    <3>. QED BY <2>1, <2>3, <3>1, <3>3
  <2>4. CASE i >= n
    <3>. DEFINE b == TimeOf(h, prefix + i)
                d == TimeOf(h, prefix + n - 1)
                x == f[n]
                y == f[i]
    <3>1. f[i + 1] = y + b /\ x \in Nat /\ y \in Nat BY <1>1, <2>1 DEF Adds
    <3>2. i * x <= n * y BY <1>3, <2>4
    <3>3. prefix + n - 1 \in Nat /\ prefix + i \in Nat /\ prefix + n - 1 <= prefix + i
      BY <1>1, <2>1, <2>4
    <3>4. b \in Nat /\ d \in Nat /\ d <= b BY <3>3, TimeGrows
    <3>5. x <= n * d BY <1>1, AddsBounds
    <3>. HIDE DEF b, d, x, y
    <3>6. d * n <= b * n /\ d * n \in Nat /\ b * n \in Nat BY <3>4, <1>1, Multiples
    <3>7. d * n = n * d /\ b * n = n * b BY <3>4, <1>1
    <3>8. (i + 1) * x = i * x + x /\ n * (y + b) = n * y + n * b BY <1>1, <2>1, <3>1, <3>4
    <3>9. i * x \in Nat /\ n * y \in Nat BY <1>1, <2>1, <3>1
    <3>10. (i + 1) * x <= n * (y + b) BY <3>1, <3>2, <3>5, <3>6, <3>7, <3>8, <3>9
    <3>. QED BY <2>1, <3>1, <3>10 DEF x
  <2>5. i + 1 < n \/ i + 1 = n \/ i >= n BY <1>1, <2>1
  <2>. QED BY <2>2, <2>3, <2>4, <2>5
<1>. HIDE DEF G
<1>4. m \in G BY <1>1, <1>2, <1>3, ByNumbers
<1>. QED BY <1>4 DEF G

-----------------------------------------------------------------------------
(* The event simulator: what the results add up to *)

\* The sums of the first t tokens of a request.
Running(h, r, t, sums) ==
  /\ sums \in [kv : Nat, local : Nat, remote : Nat, cold : Nat, weights : Nat, decode : Nat]
  /\ sums.kv = KvBytes * (t * r.prefix + (t * (t - 1)) \div 2)
  /\ sums.local = sums.kv * h.local /\ sums.remote = sums.kv * h.remote
  /\ sums.cold = sums.kv * (10 - h.local - h.remote)
  /\ sums.weights = t * WeightBytes
  /\ \A f : Adds(h, r.prefix, f) => sums.decode = f[t]

MadeBy(h, result) ==
  /\ result.request \in Requests /\ result.ttft \in Nat
  /\ Running(h, result.request, result.request.output, result.totals)
  /\ result.tpot = Mean(result.totals.decode, result.request.output)

SimResults(h) == {result \in [request : Requests, ttft : Nat, tpot : Nat, written : Nat,
                             totals : [kv : Nat, local : Nat, remote : Nat, cold : Nat,
                                       weights : Nat, decode : Nat]] : MadeBy(h, result)}

Simulated(h) ==
  /\ hardware = h
  /\ trace \in Seq(Requests) /\ token \in Nat /\ results \in Seq(SimResults(h))
  /\ sim_state \in {"reading", "running", "done", "refused"}
  /\ sim_state \in {"reading", "refused"} => results = <<>>
  /\ sim_state = "reading" => token = 0 /\ totals = NoTotals
  /\ sim_state \in {"running", "done"} => h.local + h.remote <= 10
  /\ sim_state = "done" => results # <<>>
  /\ sim_state = "running" /\ trace = <<>> => results # <<>>
  /\ sim_state = "running" /\ trace # <<>> =>
       token <= Head(trace).output /\ Running(h, Head(trace), token, totals)

EventInv == \E h \in Hardwares : Simulated(h)

LEMMA NothingRun ==
  ASSUME NEW h \in Hardwares, NEW r \in Requests
  PROVE  Running(h, r, 0, NoTotals)
<1>1. h.local \in Nat /\ h.remote \in Nat /\ r.prefix \in Nat /\ KvBytes \in Nat /\ WeightBytes \in Nat
  BY HardwareTyped, RequestTyped, EventAssumption
<1>2. 0 * r.prefix = 0 /\ (0 * (0 - 1)) \div 2 = 0 /\ KvBytes * (0 + 0) = 0 /\ 0 * WeightBytes = 0
  BY <1>1
<1>3. NoTotals \in [kv : Nat, local : Nat, remote : Nat, cold : Nat, weights : Nat, decode : Nat]
  BY DEF NoTotals
<1>4. 0 * h.local = 0 /\ 0 * h.remote = 0 /\ 0 * (10 - h.local - h.remote) = 0 BY <1>1
<1>5. \A f : Adds(h, r.prefix, f) => f[0] = 0 BY DEF Adds
<1>. QED BY <1>2, <1>3, <1>4, <1>5 DEF Running, NoTotals

LEMMA HeadAndTailOf ==
  ASSUME NEW T, NEW s \in Seq(T), s # <<>>
  PROVE  Head(s) \in T /\ Tail(s) \in Seq(T)
OBVIOUS

\* One more token.
LEMMA TokenRuns ==
  ASSUME NEW h, Reads(h), NEW r \in Requests, NEW t \in Nat, t < r.output, NEW sums,
         Running(h, r, t, sums),
         NEW next, NEW context, NEW bytes, context = r.prefix + t, bytes = context * KvBytes,
         next = [kv |-> sums.kv + bytes,
                 local |-> sums.local + bytes * h.local,
                 remote |-> sums.remote + bytes * h.remote,
                 cold |-> sums.cold + bytes * (10 - h.local - h.remote),
                 weights |-> sums.weights + WeightBytes,
                 decode |-> sums.decode + TimeOf(h, context)]
  PROVE  Running(h, r, t + 1, next)
<1>. DEFINE l == h.local
            m == h.remote
            c == 10 - h.local - h.remote
            kv == sums.kv
            p == r.prefix
            half == (t * (t - 1)) \div 2
<1>1. l \in Nat /\ m \in Nat /\ c \in Nat BY HardwareTyped DEF Reads
<1>2. p \in Nat /\ KvBytes \in Nat /\ WeightBytes \in Nat /\ t + 1 <= SCALE /\ SCALE \in Nat
  BY RequestTyped, EventAssumption
<1>3. context \in Nat /\ bytes \in Nat /\ TimeOf(h, context) \in Nat BY <1>2, TimeGrows
<1>4. /\ kv \in Nat /\ sums.local = kv * l /\ sums.remote = kv * m /\ sums.cold = kv * c
      /\ sums.weights = t * WeightBytes /\ sums.decode \in Nat
      /\ kv = KvBytes * (t * p + half)
  BY DEF Running
<1>5. next.kv = kv + bytes /\ next.local = kv * l + bytes * l /\ next.remote = kv * m + bytes * m
      /\ next.cold = kv * c + bytes * c /\ next.weights = t * WeightBytes + WeightBytes
      /\ next.decode = sums.decode + TimeOf(h, context)
      /\ next = [kv |-> next.kv, local |-> next.local, remote |-> next.remote, cold |-> next.cold,
                 weights |-> next.weights, decode |-> next.decode]
  BY <1>4
<1>6. ((t + 1) * ((t + 1) - 1)) \div 2 = half + t /\ half \in Nat
  <2>. DEFINE x == t * (t - 1)
  <2>1. (t + 1) * ((t + 1) - 1) = x + 2 * t OBVIOUS
  <2>2. x \in Nat
    <3>1. CASE t = 0 BY <3>1
    <3>2. CASE t # 0
      <4>1. t - 1 \in Nat BY <3>2
      <4>. QED BY <4>1
    <3>. QED BY <3>1, <3>2
  <2>. HIDE DEF x
  <2>3. (x + 2 * t) \div 2 = (x \div 2) + t /\ x \div 2 \in Nat BY <2>2
  <2>. QED BY <2>1, <2>3 DEF x
<1>7. bytes = (p + t) * KvBytes OBVIOUS
<1>. HIDE DEF l, m, c, kv, p, half
<1>8. kv + bytes = KvBytes * ((t + 1) * p + (half + t))
  <2>1. (t + 1) * p = t * p + p /\ t * p \in Nat BY <1>2
  <2>2. KvBytes * ((t * p + p) + (half + t)) = KvBytes * (t * p + half) + (p + t) * KvBytes
    <3>. DEFINE x == t * p + half
                y == p + t
    <3>1. x \in Nat /\ y \in Nat /\ (t * p + p) + (half + t) = x + y BY <1>2, <1>6, <2>1
    <3>. HIDE DEF x, y
    <3>2. KvBytes * (x + y) = KvBytes * x + y * KvBytes BY <3>1, <1>2
    <3>. QED BY <3>1, <3>2 DEF x, y
  <2>. QED BY <1>4, <1>7, <2>1, <2>2
<1>9. /\ kv * l + bytes * l = (kv + bytes) * l /\ kv * m + bytes * m = (kv + bytes) * m
      /\ kv * c + bytes * c = (kv + bytes) * c
      /\ t * WeightBytes + WeightBytes = (t + 1) * WeightBytes
  BY <1>1, <1>2, <1>3, <1>4
<1>10. ASSUME NEW f, Adds(h, p, f) PROVE next.decode = f[t + 1]
  <2>1. t \in 0 .. SCALE - 1 BY <1>2
  <2>2. f[t + 1] = f[t] + TimeOf(h, p + t) BY <1>10, <2>1 DEF Adds
  <2>3. sums.decode = f[t] BY <1>10 DEF Running, p
  <2>. QED BY <2>2, <2>3, <1>5 DEF p
<1>11. /\ next.kv \in Nat /\ next.local \in Nat /\ next.remote \in Nat /\ next.cold \in Nat
       /\ next.weights \in Nat /\ next.decode \in Nat
  BY <1>1, <1>2, <1>3, <1>4, <1>5, <1>9
<1>12. next \in [kv : Nat, local : Nat, remote : Nat, cold : Nat, weights : Nat, decode : Nat]
  BY <1>5, <1>11
<1>13. next.kv = KvBytes * ((t + 1) * p + ((t + 1) * ((t + 1) - 1)) \div 2)
  BY <1>5, <1>6, <1>8
<1>. QED BY <1>5, <1>9, <1>10, <1>12, <1>13 DEF Running, l, m, c, p

LEMMA ResultIsMade ==
  ASSUME NEW h, Reads(h), hardware = h, NEW r \in Requests, Running(h, r, r.output, totals)
  PROVE  Result(r) \in SimResults(h)
<1>1. /\ r.output \in Nat \ {0} /\ r.prefill \in Nat /\ h.prefill_ticks \in Nat /\ h.local_ticks \in Nat
      /\ KvBytes \in Nat /\ SCALE \in Nat
  BY RequestTyped, HardwareTyped, EventAssumption DEF Reads
<1>2. totals \in [kv : Nat, local : Nat, remote : Nat, cold : Nat, weights : Nat, decode : Nat]
      /\ totals.decode \in Nat
  BY DEF Running
<1>3. Mean(totals.decode, r.output) \in Nat
  <2>. DEFINE x == totals.decode * SCALE
              n == r.output
  <2>1. x \in Nat /\ n \in Nat \ {0} BY <1>1, <1>2
  <2>. HIDE DEF x, n
  <2>2. x \div n \in Nat BY <2>1
  <2>. QED BY <2>2 DEF Mean, x, n
<1>4. PrefillTime(r) \in Nat
  <2>1. r.prefill * h.prefill_ticks \in Nat /\ r.prefill * KvBytes * h.local_ticks \in Nat BY <1>1
  <2>. QED BY <2>1 DEF PrefillTime, Larger
<1>5. r.prefill * KvBytes \in Nat BY <1>1
<1>6. PrefillTime(r) * SCALE + Mean(totals.decode, r.output) \in Nat BY <1>1, <1>3, <1>4
<1>7. Result(r) = [request |-> r, ttft |-> PrefillTime(r) * SCALE + Mean(totals.decode, r.output),
                   tpot |-> Mean(totals.decode, r.output), totals |-> totals,
                   written |-> r.prefill * KvBytes]
  BY DEF Result
<1>. QED BY <1>2, <1>3, <1>5, <1>6, <1>7 DEF SimResults, MadeBy

LEMMA EventStarts == EventInit => EventInv
<1>. SUFFICES ASSUME EventInit PROVE EventInv OBVIOUS
<1>1. PICK h \in Hardwares : hardware = h BY DEF EventInit
<1>2. Simulated(h) BY <1>1 DEF EventInit, Simulated
<1>. QED BY <1>2 DEF EventInv

LEMMA EventStep ==
  ASSUME EventInv, [EventNext]_eventVars PROVE EventInv'
<1>1. PICK h \in Hardwares : Simulated(h) BY DEF EventInv
<1>2. SUFFICES Simulated(h)' BY DEF EventInv
<1>3. CASE ReadTrace
  <2>1. PICK n \in 0 .. MaxSimulated : trace' \in [1 .. n -> Requests] BY <1>3 DEF ReadTrace
  <2>2. trace' \in Seq(Requests)
    <3>1. CASE n \in Nat BY <2>1, <3>1
    <3>. QED BY <3>1
  <2>3. TraceAccepted(h, trace') => h.local + h.remote <= 10 /\ trace' # <<>>
    BY DEF TraceAccepted
  <2>4. trace' # <<>> => Running(h, Head(trace'), 0, NoTotals) /\ Head(trace').output \in Nat
    BY <2>2, HeadAndTailOf, NothingRun, RequestTyped
  <2>. QED BY <1>1, <1>3, <2>2, <2>3, <2>4 DEF ReadTrace, Simulated
<1>4. CASE DecodeToken
  <2>1. Reads(h) /\ Head(trace) \in Requests BY <1>1, <1>4, HeadAndTailOf DEF Simulated, DecodeToken, Reads
  <2>2. token < Head(trace).output /\ token \in Nat /\ Head(trace).output \in Nat
        /\ Running(h, Head(trace), token, totals)
    BY <1>1, <1>4, <2>1, RequestTyped DEF Simulated, DecodeToken
  <2>. DEFINE context == Head(trace).prefix + token
              bytes == context * KvBytes
  <2>3. totals' = [kv |-> totals.kv + bytes,
                   local |-> totals.local + bytes * h.local,
                   remote |-> totals.remote + bytes * h.remote,
                   cold |-> totals.cold + bytes * (10 - h.local - h.remote),
                   weights |-> totals.weights + WeightBytes,
                   decode |-> totals.decode + TimeOf(h, context)]
    BY <1>1, <1>4, TokenTimeIs DEF Simulated, DecodeToken, KvRead, LocalPart, RemotePart, ColdPart
  <2>4. Running(h, Head(trace), token + 1, totals')
    <3>. HIDE DEF context
    <3>. QED BY <2>1, <2>2, <2>3, TokenRuns DEF context
  <2>. QED BY <1>1, <1>4, <2>2, <2>4 DEF Simulated, DecodeToken
<1>5. CASE FinishRequest
  <2>1. Reads(h) /\ Head(trace) \in Requests /\ Tail(trace) \in Seq(Requests) /\ hardware = h
    BY <1>1, <1>5, HeadAndTailOf DEF Simulated, FinishRequest, Reads
  <2>2. Running(h, Head(trace), Head(trace).output, totals)
    BY <1>1, <1>5 DEF Simulated, FinishRequest
  <2>3. Result(Head(trace)) \in SimResults(h) BY <2>1, <2>2, ResultIsMade
  <2>4. results' \in Seq(SimResults(h)) /\ results' # <<>>
    BY <1>1, <1>5, <2>3 DEF Simulated, FinishRequest
  <2>5. trace' # <<>> => Running(h, Head(trace'), 0, NoTotals) /\ Head(trace').output \in Nat
    BY <1>5, <2>1, HeadAndTailOf, NothingRun, RequestTyped DEF FinishRequest
  <2>. QED BY <1>1, <1>5, <2>1, <2>4, <2>5 DEF Simulated, FinishRequest
<1>6. CASE FinishTrace BY <1>1, <1>6 DEF Simulated, FinishTrace
<1>7. CASE UNCHANGED eventVars BY <1>1, <1>7 DEF Simulated, eventVars
<1>. QED BY <1>3, <1>4, <1>5, <1>6, <1>7 DEF EventNext

\* What a result says of its request.
LEMMA ResultFacts ==
  ASSUME NEW h, Reads(h), NEW result \in SimResults(h)
  PROVE  /\ result.request \in Requests /\ result.ttft \in Nat /\ result.tpot \in Nat
         /\ result.totals.kv \in Nat /\ result.totals.local \in Nat /\ result.totals.remote \in Nat
         /\ result.totals.cold \in Nat /\ result.totals.weights \in Nat
         /\ result.totals.decode \in Nat
         /\ result.totals.kv = KvOf(result.request)
         /\ result.totals.local + result.totals.remote + result.totals.cold
              = 10 * result.totals.kv
         /\ result.totals.weights = WeightBytes * result.request.output
         /\ result.request.output * result.tpot = SCALE * result.totals.decode
         /\ \E f : /\ Adds(h, result.request.prefix, f)
                   /\ result.totals.decode = f[result.request.output]
<1>. DEFINE r == result.request
            sums == result.totals
            n == r.output
            kv == sums.kv
            d == sums.decode
<1>1. /\ r \in Requests /\ result.ttft \in Nat /\ result.tpot \in Nat
      /\ Running(h, r, n, sums) /\ result.tpot = Mean(d, n)
  BY DEF SimResults, MadeBy
<1>2. /\ n \in Nat \ {0} /\ r.prefix \in Nat /\ h.local \in Nat /\ h.remote \in Nat
      /\ KvBytes \in Nat /\ SCALE \in Nat /\ WeightBytes \in Nat
  BY <1>1, RequestTyped, HardwareTyped, EventAssumption DEF Reads
<1>3. /\ kv \in Nat /\ sums.local \in Nat /\ sums.remote \in Nat /\ sums.cold \in Nat
      /\ sums.weights \in Nat /\ d \in Nat
      /\ kv = KvBytes * (n * r.prefix + (n * (n - 1)) \div 2)
      /\ sums.local = kv * h.local /\ sums.remote = kv * h.remote
      /\ sums.cold = kv * (10 - h.local - h.remote) /\ sums.weights = n * WeightBytes
      /\ \A f : Adds(h, r.prefix, f) => d = f[n]
  BY <1>1 DEF Running
<1>4. kv = KvOf(r) BY <1>3 DEF KvOf
<1>5. sums.local + sums.remote + sums.cold = 10 * kv
  <2>. DEFINE a == h.local
              b == h.remote
  <2>1. a \in Nat /\ b \in Nat /\ kv \in Nat /\ sums.local = kv * a /\ sums.remote = kv * b
        /\ sums.cold = kv * (10 - a - b)
    BY <1>2, <1>3
  <2>. HIDE DEF a, b, kv, sums
  <2>2. kv * (10 - a - b) = 10 * kv - kv * a - kv * b /\ kv * a \in Nat /\ kv * b \in Nat BY <2>1
  <2>. QED BY <2>1, <2>2
<1>6. sums.weights = WeightBytes * n BY <1>2, <1>3
<1>7. n * result.tpot = SCALE * d
  <2>1. PICK k \in Nat : SCALE = n * k BY <1>1, RequestTyped
  <2>2. result.tpot = (d * SCALE) \div n BY <1>1 DEF Mean
  <2>. HIDE DEF n, d
  <2>. DEFINE x == d * k
  <2>3. d \in Nat /\ n \in Nat \ {0} BY <1>2, <1>3
  <2>4. x \in Nat BY <2>3
  <2>5. d * SCALE = n * x
    <3>1. d * (n * k) = n * (d * k) BY <2>3
    <3>. QED BY <2>1, <3>1
  <2>. HIDE DEF x
  <2>6. (n * x) \div n = x
    <3>1. n * x \in Nat BY <2>3, <2>4
    <3>2. n * x = n * ((n * x) \div n) + ((n * x) % n) /\ (n * x) \div n \in Nat
          /\ (n * x) % n \in 0 .. n - 1
      BY <2>3, <3>1, Divided
    <3>. DEFINE q == (n * x) \div n
                e == (n * x) % n
    <3>3. q \in Nat /\ e \in 0 .. n - 1 /\ n * x = n * q + e BY <3>2
    <3>. HIDE DEF q, e
    <3>4. CASE q < x
      <4>1. (q + 1) * n <= x * n /\ (q + 1) * n = q * n + n /\ q * n \in Nat
        BY <3>3, <3>4, <2>3, <2>4, Multiples
      <4>. QED BY <4>1, <3>3, <2>3, <2>4
    <3>5. CASE q > x
      <4>1. (x + 1) * n <= q * n /\ (x + 1) * n = x * n + n /\ x * n \in Nat
        BY <3>3, <3>5, <2>3, <2>4, Multiples
      <4>. QED BY <4>1, <3>3, <2>3, <2>4
    <3>. QED BY <3>3, <3>4, <3>5, <2>4 DEF q
  <2>7. result.tpot = x BY <2>2, <2>5, <2>6
  <2>8. SCALE * d = d * SCALE BY <2>3, <1>2
  <2>. QED BY <2>5, <2>7, <2>8
<1>8. PICK f : Adds(h, r.prefix, f) BY <1>2, AddsExists
<1>9. d = f[n] BY <1>3, <1>8
<1>. QED BY <1>1, <1>3, <1>4, <1>5, <1>6, <1>7, <1>8, <1>9

LEMMA Cancels ==
  ASSUME NEW n \in Nat \ {0}, NEW a \in Nat, NEW b \in Nat, n * a <= n * b
  PROVE  a <= b
<1>1. CASE b < a
  <2>1. (b + 1) * n <= a * n /\ (b + 1) * n = b * n + n /\ b * n \in Nat /\ a * n \in Nat
    BY <1>1, Multiples
  <2>2. b * n = n * b /\ a * n = n * a OBVIOUS
  <2>. QED BY <2>1, <2>2
<1>. QED BY <1>1

LEMMA ResultsSound ==
  ASSUME NEW h, Reads(h), hardware = h, NEW result \in SimResults(h)
  PROVE  ResultSound(result)
<1>. DEFINE r == result.request
            n == r.output
            d == result.totals.decode
            v == result.tpot
            lo == TimeOf(h, r.prefix)
            hi == TimeOf(h, r.prefix + n - 1)
<1>1. /\ r \in Requests /\ v \in Nat /\ d \in Nat /\ n * v = SCALE * d
      /\ result.totals.kv = KvOf(r)
      /\ result.totals.local + result.totals.remote + result.totals.cold = 10 * result.totals.kv
  BY ResultFacts
<1>2. PICK f : Adds(h, r.prefix, f) /\ d = f[n] BY ResultFacts
<1>3. n \in Nat \ {0} /\ n \in 0 .. SCALE /\ r.prefix \in Nat /\ SCALE \in Nat
  BY <1>1, RequestTyped, EventAssumption
<1>4. r.prefix + n - 1 \in Nat BY <1>3
<1>5. lo \in Nat /\ hi \in Nat BY <1>3, <1>4, TimeGrows
<1>6. n * lo <= d /\ d <= n * hi BY <1>2, <1>3, AddsBounds
<1>7. TokenTime(r.prefix) = lo /\ TokenTime(r.prefix + n - 1) = hi BY TokenTimeIs
<1>8. SCALE * lo <= v /\ v <= SCALE * hi
  <2>. HIDE DEF n, d, v, lo, hi
  <2>1. (n * lo) * SCALE <= d * SCALE /\ d * SCALE <= (n * hi) * SCALE
    BY <1>1, <1>3, <1>5, <1>6, Multiples
  <2>2. (n * lo) * SCALE = n * (SCALE * lo) /\ (n * hi) * SCALE = n * (SCALE * hi)
        /\ d * SCALE = SCALE * d /\ SCALE * lo \in Nat /\ SCALE * hi \in Nat
    BY <1>1, <1>3, <1>5
  <2>3. n * (SCALE * lo) <= n * v /\ n * v <= n * (SCALE * hi) BY <1>1, <2>1, <2>2
  <2>. QED BY <1>1, <1>3, <2>2, <2>3, Cancels
<1>. QED BY <1>1, <1>7, <1>8 DEF ResultSound

LEMMA ResultsOrdered ==
  ASSUME NEW h, Reads(h), NEW result \in SimResults(h), NEW other \in SimResults(h)
  PROVE  NoCheaper(result, other)
<1>. DEFINE r == result.request
            q == other.request
            n == r.output
            m == q.output
            d == result.totals.decode
            e == other.totals.decode
            v == result.tpot
            w == other.tpot
<1>. SUFFICES ASSUME r.prefix <= q.prefix, n <= m PROVE v <= w /\ d <= e
  BY DEF NoCheaper
<1>1. r \in Requests /\ v \in Nat /\ d \in Nat /\ n * v = SCALE * d BY ResultFacts
<1>2. q \in Requests /\ w \in Nat /\ e \in Nat /\ m * w = SCALE * e BY ResultFacts
<1>3. PICK f : Adds(h, r.prefix, f) /\ d = f[n] BY ResultFacts
<1>4. PICK g : Adds(h, q.prefix, g) /\ e = g[m] BY ResultFacts
<1>5. n \in Nat \ {0} /\ m \in Nat \ {0} /\ n \in 1 .. SCALE /\ m \in 1 .. SCALE
      /\ r.prefix \in Nat /\ q.prefix \in Nat /\ SCALE \in Nat
  BY <1>1, <1>2, RequestTyped, EventAssumption
<1>6. f[n] <= g[n] /\ f[n] \in Nat /\ g[n] \in Nat
  <2>1. n \in 0 .. SCALE BY <1>5
  <2>2. f[n] \in Nat /\ g[n] \in Nat BY <2>1, <1>3, <1>4 DEF Adds
  <2>. HIDE DEF n
  <2>3. f[n] <= g[n] BY <2>1, <1>3, <1>4, <1>5, AddsBounds
  <2>. QED BY <2>2, <2>3
<1>7. m * g[n] <= n * e BY <1>4, <1>5, MeanGrows
<1>. DEFINE x == g[n]
<1>8. d <= x /\ x \in Nat /\ m * x <= n * e BY <1>3, <1>6, <1>7
<1>. HIDE DEF n, m, d, e, v, w, x
<1>9. m * d <= n * e
  <2>1. d * m <= x * m /\ d * m \in Nat /\ x * m \in Nat BY <1>1, <1>5, <1>8, Multiples
  <2>2. d * m = m * d /\ x * m = m * x /\ n * e \in Nat BY <1>1, <1>2, <1>5, <1>8
  <2>. QED BY <2>1, <2>2, <1>8
<1>10. v <= w
  <2>1. (m * d) * SCALE <= (n * e) * SCALE BY <1>1, <1>2, <1>5, <1>9, Multiples
  <2>2. (m * d) * SCALE = m * (SCALE * d) /\ (n * e) * SCALE = n * (SCALE * e)
    BY <1>1, <1>2, <1>5
  <2>3. m * (n * v) <= n * (m * w) BY <1>1, <1>2, <2>1, <2>2
  <2>4. m * (n * v) = (m * n) * v /\ n * (m * w) = (m * n) * w /\ m * n \in Nat \ {0}
    BY <1>1, <1>2, <1>5
  <2>. DEFINE k == m * n
  <2>5. k \in Nat \ {0} /\ k * v <= k * w BY <2>3, <2>4
  <2>. HIDE DEF k
  <2>. QED BY <2>5, <1>1, <1>2, Cancels
<1>11. d <= e
  <2>1. n * d <= m * d
    <3>1. n * d <= m * d BY <1>1, <1>5, Multiples DEF n, m
    <3>. QED BY <3>1
  <2>2. n * d \in Nat /\ m * d \in Nat /\ n * e \in Nat BY <1>1, <1>2, <1>5
  <2>3. n * d <= n * e BY <2>1, <2>2, <1>9
  <2>. QED BY <2>3, <1>1, <1>2, <1>5, Cancels
<1>. QED BY <1>10, <1>11

\* The summary of the results of a trace.
LEMMA SummarySound ==
  ASSUME NEW h, Reads(h), hardware = h, results \in Seq(SimResults(h)), results # <<>>
  PROVE  /\ Summary.local + Summary.remote + Summary.cold = 10 * Summary.kv
         /\ Summary.weights = Summary.tokens * WeightBytes
         /\ Summary.tokens * SCALE * TokenTime(0) <= Summary.time
         /\ Within(Summary.ttft, Ttft)
         /\ Within(Summary.tpot, Tpot)
<1>. DEFINE n == Len(results)
            S == 1 .. n
            Kv == [i \in S |-> results[i].totals["kv"]]
            Local == [i \in S |-> results[i].totals["local"]]
            Remote == [i \in S |-> results[i].totals["remote"]]
            Cold == [i \in S |-> results[i].totals["cold"]]
            Weights == [i \in S |-> results[i].totals["weights"]]
            Decode == [i \in S |-> results[i].totals["decode"]]
            Tokens == [i \in S |-> results[i].request.output]
            Near == [i \in S |-> Local[i] + Remote[i]]
            Tiers == [i \in S |-> Near[i] + Cold[i]]
            zero == TimeOf(h, 0)
<1>1. n \in Nat \ {0} /\ DOMAIN results = S /\ \A i \in S : results[i] \in SimResults(h) OBVIOUS
<1>2. IsFiniteSet(S) BY <1>1, FS_Interval
<1>3. ASSUME NEW i \in S
      PROVE  /\ results[i].ttft \in Nat /\ results[i].tpot \in Nat
             /\ Kv[i] \in Nat /\ Local[i] \in Nat /\ Remote[i] \in Nat /\ Cold[i] \in Nat
             /\ Weights[i] \in Nat /\ Decode[i] \in Nat /\ Tokens[i] \in Nat
             /\ Tiers[i] = 10 * Kv[i] /\ Weights[i] = WeightBytes * Tokens[i]
             /\ zero * Tokens[i] <= Decode[i]
  <2>. DEFINE result == results[i]
              t == result.request.output
              p == result.request.prefix
  <2>1. result \in SimResults(h) BY <1>1
  <2>2. /\ result.request \in Requests /\ result.ttft \in Nat /\ result.tpot \in Nat
        /\ result.totals.kv \in Nat /\ result.totals.local \in Nat /\ result.totals.remote \in Nat
        /\ result.totals.cold \in Nat /\ result.totals.weights \in Nat
        /\ result.totals.decode \in Nat
        /\ result.totals.local + result.totals.remote + result.totals.cold
             = 10 * result.totals.kv
        /\ result.totals.weights = WeightBytes * t
    BY <2>1, ResultFacts
  <2>3. PICK f : Adds(h, p, f) /\ result.totals.decode = f[t] BY <2>1, ResultFacts
  <2>4. t \in Nat /\ p \in Nat /\ t \in 0 .. SCALE BY <2>2, RequestTyped, EventAssumption
  <2>5. t * TimeOf(h, p) <= f[t] BY <2>3, <2>4, AddsBounds
  <2>6. zero \in Nat /\ TimeOf(h, p) \in Nat /\ zero <= TimeOf(h, p)
    <3>1. ASSUME NEW a \in Nat, a <= p
          PROVE  TimeOf(h, a) \in Nat /\ TimeOf(h, p) \in Nat /\ TimeOf(h, a) <= TimeOf(h, p)
      BY <2>4, <3>1, TimeGrows
    <3>2. 0 \in Nat /\ 0 <= p BY <2>4
    <3>. QED BY <3>1, <3>2
  <2>. HIDE DEF zero, result, t, p
  <2>7. zero * t <= result.totals.decode
    <3>. DEFINE x == TimeOf(h, p)
    <3>1. zero * t <= x * t /\ x * t = t * x /\ zero * t \in Nat /\ t * x \in Nat
      BY <2>4, <2>6, Multiples
    <3>. QED BY <3>1, <2>2, <2>3, <2>5
  <2>. QED BY <2>2, <2>4, <2>7 DEF result, t
<1>4. /\ Kv \in [S -> Int] /\ Local \in [S -> Int] /\ Remote \in [S -> Int] /\ Cold \in [S -> Int]
      /\ Weights \in [S -> Int] /\ Decode \in [S -> Int] /\ Tokens \in [S -> Int]
      /\ Ttft \in [S -> Nat] /\ Tpot \in [S -> Nat]
      /\ Near \in [S -> Int] /\ Tiers \in [S -> Int]
  <2>1. /\ \A i \in S : Kv[i] \in Int /\ Local[i] \in Int /\ Remote[i] \in Int /\ Cold[i] \in Int
        /\ \A i \in S : Weights[i] \in Int /\ Decode[i] \in Int /\ Tokens[i] \in Int
        /\ \A i \in S : results[i].ttft \in Nat /\ results[i].tpot \in Nat
    BY <1>3
  <2>2. Ttft = [i \in S |-> results[i].ttft] /\ Tpot = [i \in S |-> results[i].tpot]
    BY <1>1 DEF Ttft, Tpot
  <2>3. Near \in [S -> Int] BY <2>1
  <2>. QED BY <2>1, <2>2, <2>3
<1>5. AddedUp(S, Local, Remote, Near) /\ AddedUp(S, Near, Cold, Tiers) BY DEF AddedUp
<1>6. /\ Total("kv") = SumOf(Kv) /\ Total("local") = SumOf(Local) /\ Total("remote") = SumOf(Remote)
      /\ Total("cold") = SumOf(Cold) /\ Total("weights") = SumOf(Weights)
      /\ Total("decode") = SumOf(Decode)
      /\ SumOf([i \in DOMAIN results |-> results[i].request.output]) = SumOf(Tokens)
  BY <1>1 DEF Total
<1>7. DOMAIN Kv = S /\ DOMAIN Local = S /\ DOMAIN Remote = S /\ DOMAIN Cold = S
      /\ DOMAIN Weights = S /\ DOMAIN Decode = S /\ DOMAIN Tokens = S /\ DOMAIN Ttft = S
  BY <1>4
<1>8. /\ Multiple(S, Kv, Tiers, 10) /\ Multiple(S, Tokens, Weights, WeightBytes)
      /\ TimesAtMost(S, Tokens, Decode, zero) /\ TimesAtMost(S, Ttft, Ttft, 0)
  <2>1. \A i \in S : Ttft[i] \in Nat BY <1>4
  <2>2. \A i \in S : Tiers[i] = 10 * Kv[i] /\ Weights[i] = WeightBytes * Tokens[i]
                     /\ zero * Tokens[i] <= Decode[i]
    BY <1>3
  <2>. HIDE DEF S, Kv, Tiers, Tokens, Weights, Decode, zero
  <2>3. \A i \in S : 0 * Ttft[i] <= Ttft[i] BY <2>1
  <2>. QED BY <2>2, <2>3 DEF Multiple, TimesAtMost
<1>9. zero \in Nat BY TimeGrows
<1>10. WeightBytes \in Int /\ SCALE \in Nat BY EventAssumption
<1>. HIDE DEF S, Kv, Local, Remote, Cold, Weights, Decode, Tokens, Near, Tiers, zero, n
<1>11. /\ SumOf(Kv) = Summed(Kv, S)[S] /\ SumOf(Local) = Summed(Local, S)[S]
       /\ SumOf(Remote) = Summed(Remote, S)[S] /\ SumOf(Cold) = Summed(Cold, S)[S]
       /\ SumOf(Weights) = Summed(Weights, S)[S] /\ SumOf(Decode) = Summed(Decode, S)[S]
       /\ SumOf(Tokens) = Summed(Tokens, S)[S] /\ SumOf(Ttft) = Summed(Ttft, S)[S]
  BY <1>7, SumOfIs
<1>12. /\ SumOf(Kv) \in Int /\ SumOf(Local) \in Int /\ SumOf(Remote) \in Int /\ SumOf(Cold) \in Int
       /\ SumOf(Tokens) \in Int /\ SumOf(Decode) \in Int /\ SumOf(Ttft) \in Int
  <2>1. Ttft \in [S -> Int] BY <1>4
  <2>. QED BY <1>2, <1>4, <1>11, <2>1, SumIsInt
<1>13. SumOf(Local) + SumOf(Remote) + SumOf(Cold) = 10 * SumOf(Kv)
  <2>5. IsFiniteSet(S) BY <1>2
  <2>6. /\ Local \in [S -> Int] /\ Remote \in [S -> Int] /\ Cold \in [S -> Int]
        /\ Near \in [S -> Int] /\ Tiers \in [S -> Int]
    BY <1>4
  <2>7. AddedUp(S, Local, Remote, Near) BY <1>5
  <2>8. AddedUp(S, Near, Cold, Tiers) BY <1>5
  <2>9. \A k \in [S -> Int] : \A f, g \in [S -> Int] :
          AddedUp(S, f, g, k) => Summed(k, S)[S] = Summed(f, S)[S] + Summed(g, S)[S]
    <3>. TAKE k \in [S -> Int]
    <3>. TAKE f, g \in [S -> Int]
    <3>. HAVE AddedUp(S, f, g, k)
    <3>. QED BY <2>5, SumAdds
  <2>1. Summed(Near, S)[S] = Summed(Local, S)[S] + Summed(Remote, S)[S]
    BY ONLY <2>6, <2>7, <2>9, Zenon
  <2>2. Summed(Tiers, S)[S] = Summed(Near, S)[S] + Summed(Cold, S)[S]
    BY ONLY <2>6, <2>8, <2>9, Zenon
  <2>4. 10 \in Int OBVIOUS
  <2>3. Summed(Tiers, S)[S] = 10 * Summed(Kv, S)[S]
    BY <2>4, <1>2, <1>4, <1>8, SumTimes, Zenon
  <2>. QED BY <2>1, <2>2, <2>3, <1>11
<1>14. SumOf(Weights) = WeightBytes * SumOf(Tokens)
  <2>1. Summed(Weights, S)[S] = WeightBytes * Summed(Tokens, S)[S]
    BY <1>2, <1>4, <1>8, <1>10, SumTimes, Zenon
  <2>. QED BY <2>1, <1>11
<1>15. zero * SumOf(Tokens) <= SumOf(Decode)
  <2>1. zero \in Int BY <1>9
  <2>2. zero * Summed(Tokens, S)[S] <= Summed(Decode, S)[S]
    BY <2>1, <1>2, <1>4, <1>8, SumOrder, Zenon
  <2>. QED BY <2>2, <1>11
<1>16. 0 <= SumOf(Ttft)
  <2>1. Ttft \in [S -> Int] BY <1>4
  <2>2. 0 * Summed(Ttft, S)[S] <= Summed(Ttft, S)[S] BY <1>2, <1>8, <2>1, SumOrder
  <2>. QED BY <2>2, <1>11, <1>12
<1>17. SumOf(Tokens) * SCALE * zero <= SumOf(Ttft) + SCALE * SumOf(Decode)
  <2>. DEFINE t == SumOf(Tokens)
              d == SumOf(Decode)
  <2>1. t \in Int /\ d \in Int /\ zero * t <= d BY <1>12, <1>15
  <2>. HIDE DEF t, d
  <2>2. d - zero * t \in Nat BY <2>1, <1>9
  <2>3. PICK x \in Nat : d = zero * t + x
    <3>1. d = zero * t + (d - zero * t) BY <2>1, <1>9
    <3>. QED BY <2>2, <3>1
  <2>4. SCALE * d = t * SCALE * zero + SCALE * x BY <2>1, <2>3, <1>9, <1>10
  <2>5. SCALE * x \in Nat /\ t * SCALE * zero \in Int BY <2>1, <1>9, <1>10
  <2>6. t * SCALE * zero <= SumOf(Ttft) + SCALE * d
    BY <2>4, <2>5, <1>12, <1>16
  <2>. QED BY <2>6 DEF t, d
<1>18. Within(<<Median(Ttft), Percentile(Ttft, 95), Percentile(Ttft, 99)>>, Ttft)
  BY <1>1, <1>4, PercentilesWithin DEF S
<1>19. Within(<<Median(Tpot), Percentile(Tpot, 95), Percentile(Tpot, 99)>>, Tpot)
  BY <1>1, <1>4, PercentilesWithin DEF S
<1>20. TokenTime(0) = zero BY TokenTimeIs DEF zero
<1>21. SumOf(Tokens) * WeightBytes = WeightBytes * SumOf(Tokens) BY <1>10, <1>12
<1>. QED BY <1>6, <1>13, <1>14, <1>17, <1>18, <1>19, <1>20, <1>21 DEF Summary

LEMMA AddsUp == EventInv => TotalsAddUp
<1>. SUFFICES ASSUME EventInv PROVE TotalsAddUp OBVIOUS
<1>1. PICK h \in Hardwares : Simulated(h) BY DEF EventInv
<1>2. CASE results = <<>> BY <1>1, <1>2 DEF Simulated, TotalsAddUp
<1>3. CASE results # <<>>
  <2>1. Reads(h) /\ hardware = h /\ results \in Seq(SimResults(h)) BY <1>1, <1>3 DEF Simulated, Reads
  <2>2. \A i \in DOMAIN results : results[i] \in SimResults(h) BY <2>1
  <2>3. \A i \in DOMAIN results : ResultSound(results[i]) BY <2>1, <2>2, ResultsSound
  <2>4. \A i, j \in DOMAIN results : NoCheaper(results[i], results[j])
    BY <2>1, <2>2, ResultsOrdered
  <2>. QED BY <1>3, <2>1, <2>3, <2>4, SummarySound DEF TotalsAddUp
<1>. QED BY <1>2, <1>3

EventSpec == EventInit /\ [][EventNext]_eventVars

\* For every hardware and every trace that the schema allows, the results of the
\* simulator agree with their requests and with one another, and the summary
\* with them: traffic and tiers add up, more context or output is never
\* cheaper, percentiles are order statistics, no throughput is beyond that of tokens
\* without context (simulate_request, percentile, simulate_trace).
THEOREM SimulatorAddsUp == EventSpec => []TotalsAddUp
<1>1. EventInv /\ [EventNext]_eventVars => EventInv' BY EventStep
<1>. QED BY EventStarts, <1>1, AddsUp, PTL DEF EventSpec

-----------------------------------------------------------------------------
(* Attention by a running sum: shifts and quotients *)

TwoTo(k) == 2 ^ k

LEMMA TwoTos ==
  /\ TwoTo(0) = 1 /\ TwoTo(1) = 2 /\ TwoTo(2) = 4 /\ TwoTo(3) = 8
  /\ TwoTo(4) = 16 /\ TwoTo(5) = 32 /\ TwoTo(6) = 64 /\ TwoTo(7) = 128
  /\ TwoTo(8) = 256 /\ TwoTo(9) = 512 /\ TwoTo(10) = 1024 /\ TwoTo(11) = 2048
  /\ TwoTo(12) = 4096 /\ TwoTo(13) = 8192 /\ TwoTo(14) = 16384 /\ TwoTo(15) = 32768
<1>1. TwoTo(0) = 1 /\ TwoTo(1) = 2 /\ TwoTo(2) = 4 /\ TwoTo(3) = 8 BY DEF TwoTo
<1>2. TwoTo(4) = 16 /\ TwoTo(5) = 32 /\ TwoTo(6) = 64 /\ TwoTo(7) = 128 BY DEF TwoTo
<1>3. TwoTo(8) = 256 /\ TwoTo(9) = 512 /\ TwoTo(10) = 1024 /\ TwoTo(11) = 2048 BY DEF TwoTo
<1>4. TwoTo(12) = 4096 /\ TwoTo(13) = 8192 /\ TwoTo(14) = 16384 /\ TwoTo(15) = 32768
  BY DEF TwoTo
<1>. QED BY <1>1, <1>2, <1>3, <1>4

LEMMA TwoToGrows ==
  /\ \A k \in 0 .. 15 : TwoTo(k) \in Int /\ 1 <= TwoTo(k) /\ TwoTo(k) <= 32768
  /\ \A k \in 0 .. 14 : TwoTo(k + 1) = 2 * TwoTo(k)
<1>1. ASSUME NEW k \in 0 .. 15
      PROVE  TwoTo(k) \in Int /\ 1 <= TwoTo(k) /\ TwoTo(k) <= 32768
  <2>1. \/ k = 0 \/ k = 1 \/ k = 2 \/ k = 3 \/ k = 4 \/ k = 5 \/ k = 6 \/ k = 7
        \/ k = 8 \/ k = 9 \/ k = 10 \/ k = 11 \/ k = 12 \/ k = 13 \/ k = 14 \/ k = 15
    OBVIOUS
  <2>. QED BY ONLY <2>1, TwoTos
<1>2. \A k \in 0 .. 14 : TwoTo(k + 1) = 2 * TwoTo(k) BY ONLY TwoTos
<1>. QED BY ONLY <1>1, <1>2

LEMMA TwoToAdds ==
  ASSUME NEW a \in 0 .. 15, NEW b \in 0 .. 15, a + b <= 15
  PROVE  TwoTo(a + b) = TwoTo(a) * TwoTo(b)
<1>. DEFINE G == {i \in 0 .. b : TwoTo(a + i) = TwoTo(a) * TwoTo(i)}
<1>1. 0 \in G BY TwoTos, TwoToGrows
<1>2. ASSUME NEW i \in 0 .. b - 1, i \in G PROVE i + 1 \in G
  <2>. DEFINE x == TwoTo(a)
              y == TwoTo(i)
  <2>1. TwoTo(a + i) = x * y BY <1>2
  <2>0. a + i \in 0 .. 14 /\ i \in 0 .. 14 OBVIOUS
  <2>2. TwoTo((a + i) + 1) = 2 * TwoTo(a + i) /\ TwoTo(i + 1) = 2 * y
    BY ONLY <2>0, TwoToGrows
  <2>3. x \in Int /\ y \in Int BY TwoToGrows
  <2>4. a + (i + 1) = (a + i) + 1 OBVIOUS
  <2>. HIDE DEF x, y
  <2>5. 2 * (x * y) = x * (2 * y) BY <2>3
  <2>6. TwoTo(a + (i + 1)) = x * TwoTo(i + 1) BY <2>1, <2>2, <2>4, <2>5
  <2>. QED BY <2>6 DEF x
<1>3. b \in Nat /\ b \in 0 .. b OBVIOUS
<1>4. b \in G
  <2>. HIDE DEF G
  <2>. QED BY <1>1, <1>2, <1>3, ByNumbers
<1>. QED BY <1>4

LEMMA ShiftIs ==
  ASSUME NEW d \in Nat
  PROVE  /\ Shift(d) \in 0 .. 15 /\ (d > 0 => Shift(d) > 0)
         /\ Shift(d) = IF d <= 15 THEN d ELSE 15
BY DEF Shift, Least, WEIGHT_BITS

LEMMA OneIs == One = 32768 /\ One = TwoTo(15)
<1>1. One = TwoTo(15) BY DEF One, WEIGHT_BITS, TwoTo
<1>. QED BY <1>1, TwoTos

\* The weight of a token so far below the maximum.
LEMMA WeightIs ==
  ASSUME NEW d \in Nat
  PROVE  /\ Faded(One, d) = TwoTo(15 - Shift(d))
         /\ Faded(One, d) \in Int /\ 1 <= Faded(One, d) /\ Faded(One, d) <= One
         /\ d = 0 => Faded(One, d) = One
<1>. DEFINE s == Shift(d)
<1>1. s \in 0 .. 15 /\ 15 - s \in 0 .. 15 /\ (d = 0 => s = 0) BY ShiftIs
<1>2. Faded(One, d) = One \div TwoTo(s) BY DEF Faded, TwoTo
<1>. HIDE DEF s
<1>3. One = TwoTo(15 - s) * TwoTo(s)
  <2>1. (15 - s) + s = 15 BY <1>1
  <2>2. TwoTo((15 - s) + s) = TwoTo(15 - s) * TwoTo(s) BY <1>1, TwoToAdds
  <2>. QED BY <2>1, <2>2, OneIs
<1>4. /\ TwoTo(15 - s) \in Int /\ 1 <= TwoTo(15 - s) /\ TwoTo(15 - s) <= 32768
      /\ TwoTo(s) \in Int /\ 1 <= TwoTo(s)
  BY <1>1, TwoToGrows
<1>5. \A x, y \in Nat \ {0} : (x * y) \div y = x OBVIOUS
<1>6. One \div TwoTo(s) = TwoTo(15 - s) BY <1>3, <1>4, <1>5
<1>. QED BY <1>1, <1>2, <1>4, <1>6, OneIs DEF s

\* What is left of a sum after the maximum rose, times the factor it was divided by.
LEMMA FadedIs ==
  ASSUME NEW n \in Int, NEW r \in Nat \ {0}, NEW p, p = TwoTo(Shift(r))
  PROVE  /\ p \in Int /\ 2 <= p /\ Faded(n, r) \in Int
         /\ p * Faded(n, r) <= n /\ n <= p * Faded(n, r) + p - 1
<1>1. Shift(r) \in 1 .. 15 BY ShiftIs
<1>2. p \in Int /\ 2 <= p
  <2>1. Shift(r) - 1 \in 0 .. 14 /\ (Shift(r) - 1) + 1 = Shift(r) BY <1>1
  <2>2. p = 2 * TwoTo(Shift(r) - 1) BY <2>1, TwoToGrows
  <2>3. TwoTo(Shift(r) - 1) \in Int /\ 1 <= TwoTo(Shift(r) - 1) BY <2>1, TwoToGrows
  <2>. QED BY <2>2, <2>3
<1>3. Faded(n, r) = n \div p BY DEF Faded, TwoTo
<1>4. \A x \in Int, y \in Nat \ {0} :
        /\ x \div y \in Int /\ y * (x \div y) <= x /\ x <= y * (x \div y) + y - 1
  OBVIOUS
<1>5. n \in Int /\ p \in Nat \ {0} BY <1>2
<1>6. n \div p \in Int /\ p * (n \div p) <= n /\ n <= p * (n \div p) + p - 1
  BY ONLY <1>4, <1>5
<1>. QED BY ONLY <1>2, <1>3, <1>6

\* A weight fades with the maximum, but for what it has to keep as the least one.
LEMMA WeightFades ==
  ASSUME NEW d \in Nat, NEW r \in Nat \ {0}, NEW p, p = TwoTo(Shift(r))
  PROVE  /\ Faded(One, d) <= p * Faded(One, d + r)
         /\ p * Faded(One, d + r) <= Faded(One, d) + p - 1
<1>. DEFINE s == Shift(d)
            u == Shift(r)
            v == Shift(d + r)
<1>1. /\ s \in 0 .. 15 /\ u \in 1 .. 15 /\ v \in 0 .. 15
      /\ (s + u <= 15 => v = s + u) /\ (s + u > 15 => v = 15)
  BY ShiftIs
<1>2. /\ Faded(One, d) = TwoTo(15 - s) /\ Faded(One, d + r) = TwoTo(15 - v) /\ p = TwoTo(u)
  BY WeightIs
<1>. HIDE DEF s, u, v
<1>3. CASE s + u <= 15
  <2>1. (15 - v) + u = 15 - s BY <1>1, <1>3
  <2>2. 15 - v \in 0 .. 15 /\ u \in 0 .. 15 /\ (15 - v) + u <= 15 BY <1>1, <1>3
  <2>3. TwoTo((15 - v) + u) = TwoTo(15 - v) * TwoTo(u) BY <2>2, TwoToAdds
  <2>4. TwoTo(15 - v) \in Int /\ TwoTo(u) \in Int /\ 1 <= TwoTo(u) BY <2>2, TwoToGrows
  <2>5. Faded(One, d) = Faded(One, d + r) * p BY <1>2, <2>1, <2>3
  <2>6. Faded(One, d + r) * p = p * Faded(One, d + r) /\ p >= 1 BY <1>2, <2>4
  <2>7. Faded(One, d) \in Int BY WeightIs
  <2>. QED BY <1>2, <2>4, <2>5, <2>6, <2>7
<1>4. CASE s + u > 15
  <2>1. Faded(One, d + r) = 1 BY <1>1, <1>2, <1>4, TwoTos
  <2>2. 15 - s \in 0 .. 15 /\ u \in 0 .. 15 /\ u - (15 - s) \in 0 .. 15
        /\ (15 - s) + (u - (15 - s)) = u
    BY <1>1, <1>4
  <2>3. TwoTo((15 - s) + (u - (15 - s))) = TwoTo(15 - s) * TwoTo(u - (15 - s))
    BY <2>2, TwoToAdds
  <2>4. /\ TwoTo(15 - s) \in Int /\ 1 <= TwoTo(15 - s)
        /\ TwoTo(u - (15 - s)) \in Int /\ 1 <= TwoTo(u - (15 - s))
        /\ TwoTo(u) \in Int /\ 1 <= TwoTo(u)
    BY <2>2, TwoToGrows
  <2>5. \A x, y \in Nat \ {0} : x <= x * y OBVIOUS
  <2>6. TwoTo(15 - s) <= TwoTo(u) BY <2>2, <2>3, <2>4, <2>5
  <2>. QED BY <1>2, <2>1, <2>4, <2>6
<1>. QED BY <1>1, <1>3, <1>4

\* A quotient towards zero.
LEMMA QuotientIs ==
  ASSUME NEW T \in Int, NEW D \in Nat \ {0}, NEW q, q = TruncatedQuotient(T, D)
  PROVE  /\ q \in Int
         /\ T >= 0 => q >= 0 /\ q * D <= T /\ T < q * D + D
         /\ T < 0 => q <= 0 /\ q * D - D < T /\ T <= q * D
<1>1. \A x \in Nat : x \div D \in Nat /\ (x \div D) * D <= x /\ x < (x \div D) * D + D
  OBVIOUS
<1>2. CASE T >= 0
  <2>1. q = T \div D /\ T \in Nat BY <1>2 DEF TruncatedQuotient
  <2>. QED BY <1>1, <1>2, <2>1
<1>3. CASE T < 0
  <2>. DEFINE m == (-T) \div D
  <2>1. q = -m /\ -T \in Nat BY <1>3 DEF TruncatedQuotient
  <2>2. m \in Nat /\ m * D <= -T /\ -T < m * D + D BY <1>1, <2>1
  <2>. HIDE DEF m
  <2>3. (-m) * D = -(m * D) /\ m * D \in Int BY <2>2
  <2>. DEFINE y == m * D
  <2>. HIDE DEF y
  <2>4. (-m) * D = -y /\ y \in Int /\ y <= -T /\ -T < y + D BY <2>2, <2>3 DEF y
  <2>. QED BY <1>3, <2>1, <2>2, <2>4
<1>. QED BY <1>2, <1>3

-----------------------------------------------------------------------------
(* Attention by a running sum: sums over the kept tokens *)

\* Whichever element is taken off first.
LEMMA SumWithout ==
  ASSUME NEW S, IsFiniteSet(S), NEW f \in [S -> Int]
  PROVE  \A s \in SUBSET S : \A x \in s :
           /\ Summed(f, S)[s] \in Int
           /\ Summed(f, S)[s] = f[x] + Summed(f, S)[s \ {x}]
<1>. DEFINE F == Summed(f, S)
            Fails(s) == ~ (F[s] \in Int /\ \A x \in s : F[s] = f[x] + F[s \ {x}])
            Bad == {k \in Nat : \E s \in SUBSET S : Cardinality(s) = k /\ Fails(s)}
<1>1. \A s \in SUBSET S : IsFiniteSet(s) /\ Cardinality(s) \in Nat
  BY FS_Subset, FS_CardinalityType
<1>2. F[{}] = 0 /\ \A s \in SUBSET S : s # {} => /\ Pick(s) \in S /\ s \ {Pick(s)} \in SUBSET S
                                                 /\ F[s] = f[Pick(s)] + F[s \ {Pick(s)}]
  BY SumSteps
<1>. HIDE DEF F
<1>3. SUFFICES Bad = {}
  <2>1. \A s \in SUBSET S : ~ Fails(s) BY <1>1, <1>3
  <2>. QED BY <2>1 DEF F
<1>4. SUFFICES ASSUME Bad # {} PROVE FALSE OBVIOUS
<1>5. PICK k \in Bad : \A j \in Bad : k <= j
  <2>1. Bad \in SUBSET Nat OBVIOUS
  <2>. HIDE DEF Bad
  <2>. QED BY <1>4, <2>1, LeastNatural
<1>6. PICK s \in SUBSET S : Cardinality(s) = k /\ Fails(s) BY <1>5
<1>7. s # {}
  <2>1. F[{}] \in Int BY <1>2
  <2>2. ~ Fails({}) BY <2>1
  <2>. HIDE DEF Fails
  <2>. QED BY <1>6, <2>2
<1>. DEFINE c == Pick(s)
<1>8. c \in s /\ c \in S /\ F[s] = f[c] + F[s \ {c}] BY <1>2, <1>7 DEF Pick
<1>. HIDE DEF c
<1>9. ASSUME NEW x \in s PROVE s \ {x} \in SUBSET S /\ ~ Fails(s \ {x})
  <2>1. s \ {x} \in SUBSET S /\ Cardinality(s \ {x}) = k - 1 BY <1>1, <1>6, FS_RemoveElement
  <2>2. k - 1 \notin Bad BY <1>5
  <2>3. k - 1 \in Nat BY <1>1, <2>1
  <2>. QED BY <2>1, <2>2, <2>3
<1>10. F[s \ {c}] \in Int /\ f[c] \in Int /\ F[s] \in Int
  <2>1. f[c] \in Int BY <1>8
  <2>2. F[s \ {c}] \in Int BY <1>8, <1>9
  <2>. QED BY ONLY <1>8, <2>1, <2>2
<1>11. ASSUME NEW x \in s PROVE F[s] = f[x] + F[s \ {x}]
  <2>1. CASE x = c BY <1>8, <2>1
  <2>2. CASE x # c
    <3>1. x \in s \ {c} /\ c \in s \ {x} /\ (s \ {c}) \ {x} = (s \ {x}) \ {c} BY <1>8, <2>2
    <3>. DEFINE rest == F[(s \ {c}) \ {x}]
    <3>2. F[s \ {c}] = f[x] + rest BY <1>8, <1>9, <3>1
    <3>3. F[s \ {x}] = f[c] + rest BY <1>9, <3>1
    <3>4. f[x] \in Int /\ F[s \ {x}] \in Int BY <1>9
    <3>5. rest \in Int
      <4>1. (s \ {c}) \ {x} \in SUBSET S /\ Cardinality((s \ {c}) \ {x}) = k - 2
        <5>1. s \ {c} \in SUBSET S /\ IsFiniteSet(s \ {c}) BY <1>1
        <5>2. Cardinality(s \ {c}) = k - 1 BY <1>1, <1>6, <1>8, FS_RemoveElement
        <5>. DEFINE r == s \ {c}
        <5>5. x \in r /\ IsFiniteSet(r) BY <3>1, <5>1
        <5>. HIDE DEF r
        <5>6. Cardinality(r \ {x}) = Cardinality(r) - 1 BY ONLY <5>5, FS_RemoveElement
        <5>3. Cardinality((s \ {c}) \ {x}) = (k - 1) - 1 BY <5>2, <5>6 DEF r
        <5>4. (k - 1) - 1 = k - 2 OBVIOUS
        <5>. QED BY <5>1, <5>3, <5>4
      <4>2. k - 2 \notin Bad BY <1>5
      <4>3. k - 2 \in Nat BY <1>1, <4>1
      <4>. QED BY <4>1, <4>2, <4>3
    <3>. HIDE DEF rest
    <3>. QED BY <1>8, <1>10, <3>2, <3>3, <3>4, <3>5
  <2>. QED BY <2>1, <2>2
<1>. QED BY <1>6, <1>10, <1>11

\* Only the elements summed over matter.
LEMMA SumLocal ==
  ASSUME NEW S, IsFiniteSet(S), NEW s \in SUBSET S, NEW f, NEW g, \A x \in s : f[x] = g[x]
  PROVE  Summed(f, S)[s] = Summed(g, s)[s]
<1>. DEFINE F == Summed(f, S)
            H == Summed(g, s)
            G == {t \in SUBSET s : F[t] = H[t]}
<1>1. IsFiniteSet(s) BY FS_Subset
<1>2. F[{}] = 0 /\ \A t \in SUBSET S : t # {} => F[t] = f[Pick(t)] + F[t \ {Pick(t)}]
  <2>. HIDE DEF H
  <2>. QED BY SumSteps
<1>3. H[{}] = 0 /\ \A t \in SUBSET s : t # {} => H[t] = g[Pick(t)] + H[t \ {Pick(t)}]
  <2>. HIDE DEF F
  <2>. QED BY <1>1, SumSteps
<1>. HIDE DEF F, H
<1>4. {} \in G BY <1>2, <1>3
<1>5. ASSUME NEW t \in SUBSET s, t # {}, t \ {Pick(t)} \in G PROVE t \in G
  <2>1. Pick(t) \in t BY <1>5 DEF Pick
  <2>2. f[Pick(t)] = g[Pick(t)] BY <2>1
  <2>3. F[t] = f[Pick(t)] + F[t \ {Pick(t)}] BY <1>2, <1>5
  <2>4. H[t] = g[Pick(t)] + H[t \ {Pick(t)}] BY <1>3, <1>5
  <2>5. F[t \ {Pick(t)}] = H[t \ {Pick(t)}] BY <1>5
  <2>. QED BY <2>2, <2>3, <2>4, <2>5
<1>6. s \in G
  <2>. HIDE DEF G
  <2>. QED BY <1>1, <1>4, <1>5, SetByElements
<1>. QED BY <1>6 DEF F, H

\* The sum of the first n numbers.
SumTo(f, n) == Summed(f, 1 .. n)[1 .. n]

LEMMA SumToNext ==
  /\ \A f : SumTo(f, 0) = 0
  /\ \A n \in Nat : \A f \in [1 .. n -> Int] : SumTo(f, n) \in Int
  /\ \A n \in Nat : \A f \in [1 .. n + 1 -> Int] : \A g \in [1 .. n -> Int] :
       (\A t \in 1 .. n : f[t] = g[t]) => SumTo(f, n + 1) = f[n + 1] + SumTo(g, n)
<1>1. \A n \in Nat : IsFiniteSet(1 .. n) BY FS_Interval
<1>2. ASSUME NEW f PROVE SumTo(f, 0) = 0
  <2>1. 1 .. 0 = {} OBVIOUS
  <2>2. Summed(f, {})[{}] = 0 BY FS_EmptySet, SumSteps
  <2>. QED BY <2>1, <2>2 DEF SumTo
<1>3. ASSUME NEW n \in Nat, NEW f \in [1 .. n -> Int] PROVE SumTo(f, n) \in Int
  BY <1>1, SumIsInt DEF SumTo
<1>4. ASSUME NEW n \in Nat, NEW f \in [1 .. n + 1 -> Int], NEW g \in [1 .. n -> Int],
             \A t \in 1 .. n : f[t] = g[t]
      PROVE  SumTo(f, n + 1) = f[n + 1] + SumTo(g, n)
  <2>. DEFINE S == 1 .. n + 1
              s == 1 .. n
  <2>1. IsFiniteSet(S) /\ s \in SUBSET S /\ n + 1 \in S /\ S \ {n + 1} = s BY <1>1
  <2>2. \A x \in s : f[x] = g[x] BY <1>4
  <2>3. S \in SUBSET S /\ f \in [S -> Int] OBVIOUS
  <2>. HIDE DEF S, s
  <2>4. \A r \in SUBSET S : \A x \in r : Summed(f, S)[r] = f[x] + Summed(f, S)[r \ {x}]
    <3>1. \A h \in [S -> Int] : \A r \in SUBSET S : \A x \in r :
            Summed(h, S)[r] = h[x] + Summed(h, S)[r \ {x}]
      <4>. TAKE h \in [S -> Int]
      <4>1. \A r \in SUBSET S : \A x \in r :
              /\ Summed(h, S)[r] \in Int
              /\ Summed(h, S)[r] = h[x] + Summed(h, S)[r \ {x}]
        BY <2>1, SumWithout, Zenon
      <4>. QED BY <4>1, Zenon
    <3>. QED BY <2>3, <3>1, Zenon
  <2>5. Summed(f, S)[S] = f[n + 1] + Summed(f, S)[S \ {n + 1}] BY <2>1, <2>4, Zenon
  <2>6. \A h, k : (\A x \in s : h[x] = k[x]) => Summed(h, S)[s] = Summed(k, s)[s]
    BY <2>1, SumLocal
  <2>7. Summed(f, S)[s] = Summed(g, s)[s] BY <2>2, <2>6, Zenon
  <2>. QED BY <2>1, <2>5, <2>7 DEF SumTo, S, s
<1>. QED BY <1>2, <1>3, <1>4

-----------------------------------------------------------------------------
(* Attention by a running sum: the run *)

RunStep(query, tokens, run, t) ==
  IF t = 0 THEN NothingSeen(query)
  ELSE OnlineStep(run[t - 1], Dot(query, tokens[t].key), tokens[t].value)
RunTo(query, tokens, N, run) == run = [t \in 0 .. N |-> RunStep(query, tokens, run, t)]
RunOf(query, tokens) == CHOOSE run : RunTo(query, tokens, Len(tokens), run)

LEMMA RunDefined ==
  ASSUME NEW query, NEW tokens, Len(tokens) \in Nat
  PROVE  /\ RunTo(query, tokens, Len(tokens), RunOf(query, tokens))
         /\ OnlineRun(query, tokens) = RunOf(query, tokens)[Len(tokens)]
<1>. DEFINE G == {N \in Nat : \E run : RunTo(query, tokens, N, run)}
<1>1. 0 \in G
  <2>. DEFINE run == [t \in 0 .. 0 |-> NothingSeen(query)]
  <2>1. \A t \in 0 .. 0 : RunStep(query, tokens, run, t) = NothingSeen(query) BY DEF RunStep
  <2>2. RunTo(query, tokens, 0, run) BY <2>1 DEF RunTo
  <2>. QED BY <2>2
<1>2. ASSUME NEW N \in 0 .. Len(tokens) - 1, N \in G PROVE N + 1 \in G
  <2>1. PICK low : RunTo(query, tokens, N, low) BY <1>2
  <2>. DEFINE run == [t \in 0 .. N + 1 |-> RunStep(query, tokens, low, t)]
  <2>2. ASSUME NEW t \in 0 .. N + 1
        PROVE  RunStep(query, tokens, low, t) = RunStep(query, tokens, run, t)
    <3>1. CASE t = 0 BY <3>1 DEF RunStep
    <3>2. CASE t # 0
      <4>1. t - 1 \in 0 .. N /\ t - 1 \in 0 .. N + 1 BY <3>2
      <4>2. low[t - 1] = RunStep(query, tokens, low, t - 1) BY <2>1, <4>1 DEF RunTo
      <4>3. run[t - 1] = RunStep(query, tokens, low, t - 1) BY <4>1
      <4>. HIDE DEF run
      <4>. QED BY <4>2, <4>3 DEF RunStep
    <3>. QED BY <3>1, <3>2
  <2>3. RunTo(query, tokens, N + 1, run) BY <2>2 DEF RunTo
  <2>. HIDE DEF run
  <2>4. N + 1 \in Nat /\ \E r : RunTo(query, tokens, N + 1, r) BY <2>3
  <2>. QED BY <2>4
<1>3. Len(tokens) \in G
  <2>1. Len(tokens) \in 0 .. Len(tokens) OBVIOUS
  <2>. HIDE DEF G
  <2>. QED BY <1>1, <1>2, <2>1, ByNumbers
<1>4. RunTo(query, tokens, Len(tokens), RunOf(query, tokens)) BY <1>3 DEF RunOf
<1>5. OnlineRun(query, tokens) = RunOf(query, tokens)[Len(tokens)]
  BY DEF OnlineRun, RunOf, RunTo, RunStep
<1>. QED BY <1>4, <1>5

LEMMA RunStarts == ASSUME NEW query PROVE OnlineRun(query, <<>>) = NothingSeen(query)
<1>1. Len(<<>>) = 0 OBVIOUS
<1>2. /\ RunTo(query, <<>>, 0, RunOf(query, <<>>))
      /\ OnlineRun(query, <<>>) = RunOf(query, <<>>)[0]
  BY <1>1, RunDefined
<1>3. RunOf(query, <<>>)[0] = RunStep(query, <<>>, RunOf(query, <<>>), 0) BY <1>2 DEF RunTo
<1>. QED BY <1>2, <1>3 DEF RunStep

LEMMA RunIs ==
  ASSUME NEW query, NEW S, NEW tokens \in Seq(S), NEW item \in S
  PROVE  OnlineRun(query, Append(tokens, item))
           = OnlineStep(OnlineRun(query, tokens), Dot(query, item.key), item.value)
<1>. DEFINE more == Append(tokens, item)
            n == Len(tokens)
            a == RunOf(query, tokens)
            b == RunOf(query, more)
            G == {t \in 0 .. n : a[t] = b[t]}
<1>2. /\ n \in Nat /\ Len(more) = n + 1 /\ more[n + 1] = item
      /\ \A t \in 1 .. n : more[t] = tokens[t]
  OBVIOUS
<1>. HIDE DEF more, n
<1>3. RunTo(query, tokens, n, a) /\ OnlineRun(query, tokens) = a[n] BY <1>2, RunDefined DEF n
<1>4. RunTo(query, more, n + 1, b) /\ OnlineRun(query, more) = b[n + 1]
  <2>1. n + 1 \in Nat BY <1>2
  <2>. QED BY <1>2, <2>1, RunDefined
<1>. HIDE DEF a, b
<1>5. \A t \in 0 .. n : a[t] = RunStep(query, tokens, a, t) BY <1>3 DEF RunTo
<1>6. \A t \in 0 .. n + 1 : b[t] = RunStep(query, more, b, t) BY <1>4 DEF RunTo
<1>7. 0 \in G BY <1>2, <1>5, <1>6 DEF RunStep
<1>8. ASSUME NEW t \in 0 .. n - 1, t \in G PROVE t + 1 \in G
  <2>1. t + 1 \in 0 .. n /\ t + 1 \in 0 .. n + 1 /\ t + 1 # 0 /\ (t + 1) - 1 = t /\ t + 1 \in 1 .. n
    BY <1>2
  <2>2. a[t + 1] = OnlineStep(a[t], Dot(query, tokens[t + 1].key), tokens[t + 1].value)
    BY <1>5, <2>1 DEF RunStep
  <2>3. b[t + 1] = OnlineStep(b[t], Dot(query, more[t + 1].key), more[t + 1].value)
    BY <1>6, <2>1 DEF RunStep
  <2>4. more[t + 1] = tokens[t + 1] BY <1>2, <2>1
  <2>. QED BY <1>8, <2>1, <2>2, <2>3, <2>4
<1>9. a[n] = b[n]
  <2>1. n \in 0 .. n BY <1>2
  <2>2. n \in G
    <3>. HIDE DEF G
    <3>. QED BY <1>2, <1>7, <1>8, <2>1, ByNumbers
  <2>. QED BY <2>2
<1>10. b[n + 1] = OnlineStep(b[n], Dot(query, more[n + 1].key), more[n + 1].value)
  <2>1. n + 1 \in 0 .. n + 1 /\ n + 1 # 0 /\ (n + 1) - 1 = n BY <1>2
  <2>. QED BY <1>6, <2>1 DEF RunStep
<1>. QED BY <1>2, <1>3, <1>4, <1>9, <1>10 DEF more

-----------------------------------------------------------------------------
(* Attention by a running sum: bounds that fading keeps *)

LEMMA TimesOrder ==
  /\ \A p \in Nat : \A x, y \in Int : x <= y => p * x <= p * y
  /\ \A p \in Nat \ {0} : \A x, y \in Int : p * x <= p * y + p - 1 => x <= y
<1>1. ASSUME NEW p \in Nat, NEW x \in Int, NEW y \in Int, x <= y PROVE p * x <= p * y
  <2>. DEFINE k == y - x
  <2>1. k \in Nat /\ y = x + k BY <1>1
  <2>. HIDE DEF k
  <2>2. p * (x + k) = p * x + p * k /\ p * k >= 0 /\ p * x \in Int /\ p * k \in Int BY <2>1
  <2>. QED BY <2>1, <2>2
<1>2. ASSUME NEW p \in Nat \ {0}, NEW x \in Int, NEW y \in Int, p * x <= p * y + p - 1
      PROVE  x <= y
  <2>1. SUFFICES ASSUME y + 1 <= x PROVE FALSE OBVIOUS
  <2>2. p * (y + 1) <= p * x BY <1>1, <2>1
  <2>3. p * (y + 1) = p * y + p /\ p * y \in Int /\ p * x \in Int OBVIOUS
  <2>. QED BY <1>2, <2>2, <2>3
<1>. QED BY ONLY <1>1, <1>2

\* A number and what is left of it, in units of the factor it was divided by.
Fades(n, k, p) == p * k <= n /\ n <= p * k + p - 1

\* A sum T of numbers that are at least b, or at most b, with weights that add up
\* to D: rounding has cost at most c, and nothing on the side of zero.
Above(T, D, b, c) == b * D - c <= T /\ (b >= 0 => b * D <= T)
Below(T, D, b, c) == T <= b * D + c /\ (b < 0 => T <= b * D)

LEMMA AboveFades ==
  ASSUME NEW T \in Int, NEW D \in Int, NEW t \in Int, NEW d \in Int, NEW p \in Int, 2 <= p,
         NEW b \in Int, NEW c \in Int, 0 <= c, 1 - b <= c,
         Fades(T, t, p), Fades(D, d, p), Above(T, D, b, c)
  PROVE  Above(t, d, b, c)
<1>. DEFINE x == b * d
            y == b * D
            z == p * d
            u == p * t
<1>1. x \in Int /\ y \in Int /\ z \in Int /\ u \in Int OBVIOUS
<1>2. z <= D /\ D <= z + p - 1 /\ u <= T /\ T <= u + p - 1 BY DEF Fades
<1>3. b * z = p * x OBVIOUS
<1>4. y - c <= T /\ (b >= 0 => y <= T) BY DEF Above
<1>5. CASE b >= 0
  <2>1. b * z <= y
    <3>1. b \in Nat BY <1>5
    <3>. HIDE DEF z
    <3>. QED BY <1>1, <1>2, <3>1, TimesOrder
  <2>2. p * x <= u + p - 1
    <3>. DEFINE w == p * x
    <3>. HIDE DEF w, x, y, z, u
    <3>. QED BY <1>1, <1>2, <1>3, <1>4, <1>5, <2>1 DEF w
  <2>3. x <= t
    <3>. HIDE DEF x
    <3>1. p \in Nat \ {0} /\ p * x <= p * t + p - 1 BY <2>2
    <3>. QED BY <1>1, <3>1, TimesOrder
  <2>. HIDE DEF x
  <2>. QED BY <1>1, <1>5, <2>3 DEF Above, x
<1>6. CASE b < 0
  <2>. DEFINE m == -b
  <2>1. m \in Nat BY <1>6
  <2>2. m * D <= m * (z + (p - 1))
    <3>1. z + (p - 1) \in Int /\ D <= z + (p - 1) BY <1>1, <1>2
    <3>. HIDE DEF m, z
    <3>. QED BY <2>1, <3>1, TimesOrder
  <2>3. m * D = -y /\ m * (z + (p - 1)) = -(b * z) + m * (p - 1) /\ m * (p - 1) \in Int
    BY <2>1
  <2>4. (p - 1) * (1 + m) <= (p - 1) * c
    <3>1. p - 1 \in Nat /\ 1 + m \in Int /\ 1 + m <= c BY <2>1
    <3>. HIDE DEF m
    <3>. QED BY <3>1, TimesOrder
  <2>5. /\ (p - 1) * (1 + m) = p - 1 + m * (p - 1)
        /\ (p - 1) * c = p * c - c /\ p * c \in Int /\ p * x \in Int
        /\ p * (x - c) = p * x - p * c
    BY <1>1, <2>1
  <2>6. p * (x - c) <= u
    <3>. DEFINE e == m * (p - 1)
                g == p * c
                h == p * x
                l == (p - 1) * c
                k == b * z
                o == m * D
                r == m * (z + (p - 1))
                s == (p - 1) * (1 + m)
                q == p * (x - c)
    <3>1. /\ o = -y /\ r = -k + e /\ e \in Int /\ o <= r /\ s <= l /\ s = p - 1 + e
          /\ l = g - c /\ g \in Int /\ h \in Int /\ q = h - g /\ k = h
      BY <1>3, <2>2, <2>3, <2>4, <2>5
    <3>. HIDE DEF e, g, h, l, k, o, r, s, q, x, y, z, u, m
    <3>2. -y <= -h + e /\ p - 1 + e <= g - c BY ONLY <3>1
    <3>3. y - c <= u + p - 1 BY <1>1, <1>2, <1>4
    <3>4. h - g <= u BY <1>1, <3>1, <3>2, <3>3
    <3>. QED BY ONLY <3>1, <3>4 DEF q
  <2>7. x - c <= t
    <3>1. p \in Nat \ {0} /\ x - c \in Int BY <1>1
    <3>. DEFINE o == x - c
    <3>2. o \in Int /\ p * o <= u BY <2>6, <3>1
    <3>. HIDE DEF o, x
    <3>3. p * o <= p * t + p - 1 BY <3>1, <3>2
    <3>4. o <= t BY <3>1, <3>2, <3>3, TimesOrder
    <3>. QED BY <3>4 DEF o
  <2>. HIDE DEF x
  <2>. QED BY <1>6, <2>7 DEF Above, x
<1>. QED BY <1>5, <1>6

LEMMA BelowFades ==
  ASSUME NEW T \in Int, NEW D \in Int, NEW t \in Int, NEW d \in Int, NEW p \in Int, 2 <= p,
         NEW b \in Int, NEW c \in Int, 0 <= c, b <= c,
         Fades(T, t, p), Fades(D, d, p), Below(T, D, b, c)
  PROVE  Below(t, d, b, c)
<1>. DEFINE x == b * d
            y == b * D
            z == p * d
            u == p * t
            h == p * x
<1>1. x \in Int /\ y \in Int /\ z \in Int /\ u \in Int /\ h \in Int OBVIOUS
<1>2. z <= D /\ D <= z + p - 1 /\ u <= T /\ T <= u + p - 1 BY DEF Fades
<1>3. b * z = h OBVIOUS
<1>4. T <= y + c /\ (b < 0 => T <= y) BY DEF Below
<1>5. p \in Nat \ {0} OBVIOUS
<1>6. CASE b >= 0
  <2>. DEFINE e == b * (p - 1)
              o == x + c
  <2>1. y <= h + e
    <3>1. b \in Nat /\ z + (p - 1) \in Int /\ D <= z + (p - 1) BY <1>1, <1>2, <1>6
    <3>2. b * D <= b * (z + (p - 1))
      <4>. HIDE DEF z
      <4>. QED BY <3>1, TimesOrder
    <3>3. b * (z + (p - 1)) = b * z + e BY <1>1
    <3>. QED BY <1>3, <3>2, <3>3
  <2>2. e <= c * (p - 1) /\ e \in Int
    <3>1. p - 1 \in Nat BY <1>5
    <3>2. (p - 1) * b <= (p - 1) * c BY <3>1, TimesOrder
    <3>. QED BY <3>1, <3>2
  <2>3. p * o = h + (c * (p - 1) + c) /\ c * (p - 1) \in Int BY <1>1
  <2>4. u <= p * o
    <3>. DEFINE f == c * (p - 1)
                g == p * o
    <3>1. e <= f /\ e \in Int /\ g = h + (f + c) /\ f \in Int BY <2>2, <2>3
    <3>. HIDE DEF e, f, g, h, u, y
    <3>2. u <= g BY <1>1, <1>2, <1>4, <2>1, <3>1
    <3>. QED BY <3>2 DEF g
  <2>5. t <= o
    <3>1. o \in Int BY <1>1
    <3>2. p * o \in Int BY <3>1
    <3>. HIDE DEF o
    <3>3. p * t <= p * o + p - 1 BY <1>5, <2>4, <3>1, <3>2
    <3>. QED BY <1>5, <3>1, <3>3, TimesOrder
  <2>. HIDE DEF x
  <2>. QED BY <1>6, <2>5 DEF Below, x
<1>7. CASE b < 0
  <2>. DEFINE m == -b
  <2>1. m * z <= m * D
    <3>1. m \in Nat BY <1>7
    <3>. HIDE DEF m, z
    <3>. QED BY <1>1, <1>2, <3>1, TimesOrder
  <2>2. m * z = -h /\ m * D = -y BY <1>3
  <2>3. u <= h
    <3>. DEFINE k == m * z
                l == m * D
    <3>1. k <= l /\ k = -h /\ l = -y BY <2>1, <2>2
    <3>. HIDE DEF k, l, h, y, u
    <3>. QED BY <1>1, <1>2, <1>4, <1>7, <3>1
  <2>4. t <= x
    <3>1. u <= h + p - 1
      <4>. HIDE DEF u, h
      <4>. QED BY <1>1, <1>5, <2>3
    <3>. HIDE DEF x
    <3>. QED BY <1>1, <1>5, <3>1, TimesOrder
  <2>. HIDE DEF x
  <2>. QED BY <1>1, <1>7, <2>4 DEF Below, x
<1>. QED BY <1>6, <1>7

LEMMA BoundsAdd ==
  ASSUME NEW t \in Int, NEW d \in Int, NEW b \in Int, NEW c \in Int, NEW v \in Int, NEW w \in Nat
  PROVE  /\ Above(t, d, b, c) /\ b <= v => Above(t + v * w, d + w, b, c)
         /\ Below(t, d, b, c) /\ v <= b => Below(t + v * w, d + w, b, c)
<1>. DEFINE x == b * d
            y == b * w
            z == v * w
<1>1. x \in Int /\ y \in Int /\ z \in Int /\ b * (d + w) = x + y OBVIOUS
<1>2. (b <= v => y <= z) /\ (v <= b => z <= y)
  <2>1. y = w * b /\ z = w * v OBVIOUS
  <2>2. (b <= v => w * b <= w * v) /\ (v <= b => w * v <= w * b) BY TimesOrder
  <2>. HIDE DEF y, z
  <2>. QED BY <2>1, <2>2
<1>. HIDE DEF x, y, z
<1>3. Above(t, d, b, c) /\ b <= v => Above(t + z, d + w, b, c)
  BY <1>1, <1>2 DEF Above, x
<1>4. Below(t, d, b, c) /\ v <= b => Below(t + z, d + w, b, c)
  BY <1>1, <1>2 DEF Below, x
<1>. QED BY <1>3, <1>4 DEF z

\* The distance that the two passes allow.
Near(T, S, c) == T - S <= c /\ S - T <= c

LEMMA NearFades ==
  ASSUME NEW T \in Int, NEW S \in Int, NEW t \in Int, NEW s \in Int, NEW p \in Int, 2 <= p,
         NEW e \in Nat, NEW c \in Int, 1 + e <= c,
         Near(T, S, c), Fades(T, t, p), Near(p * s, S, e * (p - 1))
  PROVE  Near(t, s, c)
<1>. DEFINE u == p * t
            x == p * s
            f == e * (p - 1)
            g == p * c
            k == t - s
<1>1. u \in Int /\ x \in Int /\ f \in Int /\ g \in Int /\ k \in Int /\ p \in Nat \ {0} OBVIOUS
<1>2. u <= T /\ T <= u + p - 1 /\ T - S <= c /\ S - T <= c /\ x - S <= f /\ S - x <= f
  BY DEF Fades, Near
<1>3. p * k = u - x /\ p * (-k) = x - u OBVIOUS
<1>4. f + (p - 1) + c <= g
  <2>1. p - 1 \in Nat /\ 1 + e \in Int BY <1>1
  <2>2. (p - 1) * (1 + e) <= (p - 1) * c BY <2>1, TimesOrder
  <2>3. (p - 1) * (1 + e) = f + (p - 1) /\ (p - 1) * c = g - c OBVIOUS
  <2>. DEFINE y == (p - 1) * (1 + e)
              z == (p - 1) * c
  <2>4. y <= z /\ y = f + (p - 1) /\ z = g - c BY <2>2, <2>3
  <2>. HIDE DEF y, z, f, g
  <2>. QED BY <1>1, <2>4
<1>5. u - x <= g /\ x - u <= g
  <2>. HIDE DEF u, x, f, g, k
  <2>. QED BY <1>1, <1>2, <1>4
<1>6. p * k <= p * c + p - 1 /\ p * (-k) <= p * c + p - 1
  <2>. DEFINE h == p * k
              l == p * (-k)
  <2>1. h <= g /\ l <= g /\ h \in Int /\ l \in Int BY <1>3, <1>5
  <2>. HIDE DEF h, l, g
  <2>2. h <= g + p - 1 /\ l <= g + p - 1 BY <1>1, <2>1
  <2>. QED BY <2>2 DEF h, l, g
<1>7. k <= c /\ -k <= c
  <2>1. -k \in Int BY <1>1
  <2>. HIDE DEF k
  <2>. QED BY <1>1, <1>6, <2>1, TimesOrder
<1>. QED BY <1>7 DEF Near

\* Sums of numbers that are that close, term by term.
LEMMA SumDistance ==
  ASSUME NEW n \in Nat, NEW f \in [1 .. n -> Int], NEW g \in [1 .. n -> Int],
         NEW p \in Int, NEW e \in Nat, \A t \in 1 .. n : Near(p * f[t], g[t], e)
  PROVE  Near(p * SumTo(f, n), SumTo(g, n), n * e)
<1>. DEFINE F(k) == [t \in 1 .. k |-> f[t]]
            H(k) == [t \in 1 .. k |-> g[t]]
            G == {k \in 0 .. n : Near(p * SumTo(F(k), k), SumTo(H(k), k), k * e)}
<1>1. 0 \in G
  <2>1. SumTo(F(0), 0) = 0 /\ SumTo(H(0), 0) = 0 BY SumToNext
  <2>2. p * 0 = 0 /\ 0 * e = 0 OBVIOUS
  <2>3. Near(p * 0, 0, 0 * e) BY <2>2 DEF Near
  <2>. QED BY <2>1, <2>3
<1>2. ASSUME NEW k \in 0 .. n - 1, k \in G PROVE k + 1 \in G
  <2>1. k \in Nat /\ k + 1 \in 0 .. n /\ k + 1 \in 1 .. n /\ k + 1 \in 1 .. k + 1 OBVIOUS
  <2>2. /\ F(k) \in [1 .. k -> Int] /\ F(k + 1) \in [1 .. k + 1 -> Int]
        /\ H(k) \in [1 .. k -> Int] /\ H(k + 1) \in [1 .. k + 1 -> Int]
        /\ \A t \in 1 .. k : F(k + 1)[t] = F(k)[t] /\ H(k + 1)[t] = H(k)[t]
        /\ F(k + 1)[k + 1] = f[k + 1] /\ H(k + 1)[k + 1] = g[k + 1]
    OBVIOUS
  <2>. DEFINE a == SumTo(F(k), k)
              b == SumTo(H(k), k)
              x == f[k + 1]
              y == g[k + 1]
              c == k * e
  <2>3. Near(p * a, b, c) /\ Near(p * x, y, e) BY <1>2, <2>1
  <2>. HIDE DEF F, H
  <2>4. SumTo(F(k + 1), k + 1) = x + a /\ SumTo(H(k + 1), k + 1) = y + b
    BY <2>1, <2>2, SumToNext
  <2>5. a \in Int /\ b \in Int BY <2>1, <2>2, SumToNext
  <2>6. x \in Int /\ y \in Int /\ c \in Int /\ (k + 1) * e = c + e BY <2>1
  <2>. HIDE DEF a, b, x, y, c
  <2>7. p * (x + a) = p * x + p * a /\ p * x \in Int /\ p * a \in Int BY <2>5, <2>6
  <2>. DEFINE u == p * x
              v == p * a
  <2>8. u \in Int /\ v \in Int /\ Near(v, b, c) /\ Near(u, y, e) BY <2>3, <2>7
  <2>. HIDE DEF u, v
  <2>9. Near(u + v, y + b, c + e) BY <2>5, <2>6, <2>8 DEF Near
  <2>10. Near(p * (x + a), y + b, (k + 1) * e) BY <2>6, <2>7, <2>9 DEF u, v
  <2>. QED BY <2>1, <2>4, <2>10
<1>3. n \in G
  <2>1. n \in 0 .. n OBVIOUS
  <2>. HIDE DEF G
  <2>. QED BY <1>1, <1>2, <2>1, ByNumbers
<1>4. F(n) = f /\ H(n) = g OBVIOUS
<1>. QED BY <1>3, <1>4

\* A scalar product is such a sum.
LEMMA DotIs ==
  ASSUME NEW n \in Nat, NEW u \in [1 .. n -> Int], NEW v \in [1 .. n -> Int]
  PROVE  /\ Dot(u, v) = SumTo([i \in 1 .. n |-> u[i] * v[i]], n)
         /\ Dot(u, v) \in Int
<1>. DEFINE S == 1 .. n
            f == [i \in S |-> u[i] * v[i]]
            Folded(sum) == [s \in SUBSET S |-> SumStep(f, s, sum)]
            Mapped(sum) == [s \in SUBSET S |->
                              IF s = {} THEN 0
                              ELSE u[CHOOSE x \in s : TRUE] * v[CHOOSE x \in s : TRUE]
                                     + sum[s \ {CHOOSE x \in s : TRUE}]]
<1>1. ASSUME NEW sum PROVE Folded(sum) = Mapped(sum)
  <2>1. ASSUME NEW s \in SUBSET S, s # {} PROVE f[Pick(s)] = u[Pick(s)] * v[Pick(s)]
    <3>1. Pick(s) \in S BY <2>1 DEF Pick
    <3>. QED BY <3>1
  <2>. HIDE DEF f, S
  <2>2. ASSUME NEW s \in SUBSET S
        PROVE  Folded(sum)[s] = Mapped(sum)[s]
    <3>1. CASE s = {} BY <3>1 DEF SumStep
    <3>2. CASE s # {}
      <4>1. SumStep(f, s, sum) = u[Pick(s)] * v[Pick(s)] + sum[s \ {Pick(s)}]
        BY <2>1, <3>2 DEF SumStep
      <4>. QED BY <3>2, <4>1 DEF Pick
    <3>. QED BY <3>1, <3>2
  <2>. QED BY <2>2
<1>2. (CHOOSE sum : sum = Folded(sum)) = (CHOOSE sum : sum = Mapped(sum))
  <2>. HIDE DEF Folded, Mapped
  <2>. QED BY <1>1
<1>3. Summed(f, S) = CHOOSE sum : sum = Folded(sum) BY DEF Summed
<1>4. DOMAIN u = S OBVIOUS
<1>5. Dot(u, v) = (CHOOSE sum : sum = Mapped(sum))[S]
  <2>. HIDE DEF S
  <2>. QED BY <1>4 DEF Dot, MapThenSumSet, MapThenFoldSet
<1>6. Dot(u, v) = SumTo(f, n) BY <1>2, <1>3, <1>5 DEF SumTo
<1>7. f \in [1 .. n -> Int] OBVIOUS
<1>. QED BY <1>6, <1>7, SumToNext

\* Tokens of a query's length, with values of at most V in size.
TokensFor(query, V) ==
  {item \in [key : Seq(Int), value : Seq(Int)] :
     /\ Len(item.key) = Len(query) /\ Len(item.value) = Len(query)
     /\ \A i \in DOMAIN query : item.value[i] \in -V .. V}

Weight(query, item, m) == Faded(One, m - Dot(query, item.key))
Weights(query, tokens, m) == [t \in 1 .. Len(tokens) |-> Weight(query, tokens[t], m)]
Weighted(query, tokens, m, i) ==
  [t \in 1 .. Len(tokens) |-> Weight(query, tokens[t], m) * tokens[t].value[i]]

Dominates(m, query, tokens) == \A t \in 1 .. Len(tokens) : Dot(query, tokens[t].key) <= m

\* Coordinate i of the sums: near the weighting in two passes, and between any
\* bounds of the values.
Coordinate(V, query, tokens, m, D, T, i) ==
  /\ Near(T[i], SumTo(Weighted(query, tokens, m, i), Len(tokens)), 1 + V * Len(tokens))
  /\ \A b \in -V .. V :
       /\ (\A t \in 1 .. Len(tokens) : b <= tokens[t].value[i]) => Above(T[i], D, b, V + 1)
       /\ (\A t \in 1 .. Len(tokens) : tokens[t].value[i] <= b) => Below(T[i], D, b, V + 1)

\* What the denominator D and the totals T keep of the tokens under a maximum m.
Balanced(V, query, tokens, m, D, T) ==
  /\ Dominates(m, query, tokens)
  /\ D \in Nat /\ T \in [DOMAIN query -> Int]
  /\ Near(D, SumTo(Weights(query, tokens, m), Len(tokens)), 1 + Len(tokens))
  /\ \A i \in DOMAIN query : Coordinate(V, query, tokens, m, D, T, i)

LEMMA WeightTyped ==
  ASSUME NEW query \in Seq(Int), NEW V \in Nat, NEW item \in TokensFor(query, V), NEW m \in Int,
         Dot(query, item.key) <= m
  PROVE  /\ Dot(query, item.key) \in Int /\ m - Dot(query, item.key) \in Nat
         /\ Weight(query, item, m) \in Nat /\ 1 <= Weight(query, item, m)
<1>1. /\ query \in [1 .. Len(query) -> Int] /\ item.key \in [1 .. Len(query) -> Int]
      /\ Len(query) \in Nat
  BY DEF TokensFor
<1>2. Dot(query, item.key) \in Int BY <1>1, DotIs
<1>3. m - Dot(query, item.key) \in Nat BY <1>2
<1>. DEFINE d == m - Dot(query, item.key)
<1>4. d \in Nat BY <1>3
<1>. HIDE DEF d
<1>5. Faded(One, d) \in Int /\ 1 <= Faded(One, d) BY <1>4, WeightIs
<1>. QED BY <1>2, <1>3, <1>5 DEF Weight, d

LEMMA WeightsTyped ==
  ASSUME NEW query \in Seq(Int), NEW V \in Nat, NEW tokens \in Seq(TokensFor(query, V)),
         NEW m \in Int, Dominates(m, query, tokens)
  PROVE  /\ Len(tokens) \in Nat
         /\ Weights(query, tokens, m) \in [1 .. Len(tokens) -> Int]
         /\ \A t \in 1 .. Len(tokens) : 1 <= Weights(query, tokens, m)[t]
         /\ \A i \in DOMAIN query :
              /\ Weighted(query, tokens, m, i) \in [1 .. Len(tokens) -> Int]
              /\ \A t \in 1 .. Len(tokens) :
                   /\ Weighted(query, tokens, m, i)[t]
                        = Weights(query, tokens, m)[t] * tokens[t].value[i]
                   /\ tokens[t].value[i] \in -V .. V
<1>1. Len(tokens) \in Nat OBVIOUS
<1>2. ASSUME NEW t \in 1 .. Len(tokens)
      PROVE  /\ Weight(query, tokens[t], m) \in Nat /\ 1 <= Weight(query, tokens[t], m)
             /\ \A i \in DOMAIN query : tokens[t].value[i] \in -V .. V
  <2>1. tokens[t] \in TokensFor(query, V) /\ Dot(query, tokens[t].key) <= m BY DEF Dominates
  <2>. QED BY <2>1, WeightTyped DEF TokensFor
<1>3. ASSUME NEW i \in DOMAIN query, NEW t \in 1 .. Len(tokens)
      PROVE  Weight(query, tokens[t], m) * tokens[t].value[i] \in Int
  <2>1. Weight(query, tokens[t], m) \in Int /\ tokens[t].value[i] \in Int BY <1>2
  <2>. DEFINE x == Weight(query, tokens[t], m)
              y == tokens[t].value[i]
  <2>2. x \in Int /\ y \in Int BY <2>1
  <2>. HIDE DEF x, y
  <2>3. x * y \in Int BY <2>2
  <2>. QED BY <2>3 DEF x, y
<1>. QED BY <1>1, <1>2, <1>3 DEF Weights, Weighted

\* Before the first token anything may be the maximum.
LEMMA NothingBalanced ==
  ASSUME NEW query \in Seq(Int), NEW V \in Nat, NEW m \in Int
  PROVE  Balanced(V, query, <<>>, m, 0, [i \in DOMAIN query |-> 0])
<1>1. Len(<<>>) = 0 OBVIOUS
<1>2. \A f : SumTo(f, 0) = 0 BY SumToNext
<1>3. Near(0, 0, 1 + 0) /\ Near(0, 0, 1 + V * 0) BY DEF Near
<1>4. ASSUME NEW b \in -V .. V PROVE Above(0, 0, b, V + 1) /\ Below(0, 0, b, V + 1)
  <2>1. b * 0 = 0 /\ V + 1 >= 0 OBVIOUS
  <2>. QED BY <2>1 DEF Above, Below
<1>5. Dominates(m, query, <<>>) BY <1>1 DEF Dominates
<1>. DEFINE T == [i \in DOMAIN query |-> 0]
<1>6. T \in [DOMAIN query -> Int] /\ \A i \in DOMAIN query : T[i] = 0 OBVIOUS
<1>. HIDE DEF T
<1>7. ASSUME NEW i \in DOMAIN query PROVE Coordinate(V, query, <<>>, m, 0, T, i)
  BY <1>1, <1>2, <1>3, <1>4, <1>6 DEF Coordinate
<1>8. Balanced(V, query, <<>>, m, 0, T)
  BY <1>1, <1>2, <1>3, <1>5, <1>6, <1>7 DEF Balanced
<1>. QED BY <1>8 DEF T

\* One more token, of a score that is not above the maximum.
LEMMA TokenAdds ==
  ASSUME NEW query \in Seq(Int), NEW V \in Nat, NEW tokens \in Seq(TokensFor(query, V)),
         NEW item \in TokensFor(query, V), NEW m \in Int, Dot(query, item.key) <= m,
         NEW D, NEW T, Balanced(V, query, tokens, m, D, T),
         NEW w, w = Weight(query, item, m)
  PROVE  Balanced(V, query, Append(tokens, item), m, D + w,
                  [i \in DOMAIN query |-> T[i] + item.value[i] * w])
<1>. DEFINE n == Len(tokens)
            more == Append(tokens, item)
            U == [i \in DOMAIN query |-> T[i] + item.value[i] * w]
<1>1. /\ n \in Nat /\ Len(more) = n + 1 /\ more[n + 1] = item
      /\ \A t \in 1 .. n : more[t] = tokens[t]
      /\ more \in Seq(TokensFor(query, V))
  OBVIOUS
<1>2. w \in Nat /\ 1 <= w BY WeightTyped
<1>3. /\ Dominates(m, query, tokens) /\ D \in Nat /\ T \in [DOMAIN query -> Int]
      /\ Near(D, SumTo(Weights(query, tokens, m), n), 1 + n)
      /\ \A i \in DOMAIN query : Coordinate(V, query, tokens, m, D, T, i)
  BY DEF Balanced
<1>. HIDE DEF n, more
<1>4. Dominates(m, query, more)
  <2>1. ASSUME NEW t \in 1 .. n + 1 PROVE Dot(query, more[t].key) <= m
    <3>1. CASE t = n + 1 BY <1>1, <3>1
    <3>2. CASE t # n + 1
      <4>1. t \in 1 .. n BY <1>1, <3>2
      <4>. QED BY <1>1, <1>3, <4>1 DEF Dominates, n
    <3>. QED BY <3>1, <3>2
  <2>. QED BY <1>1, <2>1 DEF Dominates
<1>5. /\ Weights(query, tokens, m) \in [1 .. n -> Int]
      /\ \A i \in DOMAIN query : Weighted(query, tokens, m, i) \in [1 .. n -> Int]
  BY <1>3, WeightsTyped DEF n
<1>6. /\ Weights(query, more, m) \in [1 .. n + 1 -> Int]
      /\ \A i \in DOMAIN query : Weighted(query, more, m, i) \in [1 .. n + 1 -> Int]
  BY <1>1, <1>4, WeightsTyped
<1>7. SumTo(Weights(query, more, m), n + 1) = w + SumTo(Weights(query, tokens, m), n)
  <2>1. \A t \in 1 .. n : Weights(query, more, m)[t] = Weights(query, tokens, m)[t]
    BY <1>1 DEF Weights, n
  <2>2. Weights(query, more, m)[n + 1] = w BY <1>1 DEF Weights
  <2>. QED BY <1>1, <1>5, <1>6, <2>1, <2>2, SumToNext
<1>8. Near(D + w, SumTo(Weights(query, more, m), n + 1), 1 + (n + 1))
  <2>1. SumTo(Weights(query, tokens, m), n) \in Int BY <1>1, <1>5, SumToNext
  <2>2. Near(D + w, w + SumTo(Weights(query, tokens, m), n), 1 + (n + 1))
    BY <1>1, <1>2, <1>3, <2>1 DEF Near
  <2>. QED BY <1>7, <2>2
<1>9. ASSUME NEW i \in DOMAIN query
      PROVE  U[i] \in Int /\ Coordinate(V, query, more, m, D + w, U, i)
  <2>. DEFINE v == item.value[i]
              a == T[i]
              x == v * w
              s == SumTo(Weighted(query, tokens, m, i), n)
  <2>1. v \in -V .. V /\ v \in Int BY DEF TokensFor
  <2>2. a \in Int /\ x \in Int /\ U[i] = a + x /\ w * v = x BY <1>2, <1>3, <2>1
  <2>3. s \in Int BY <1>1, <1>5, SumToNext
  <2>4. SumTo(Weighted(query, more, m, i), n + 1) = x + s
    <3>1. \A t \in 1 .. n : Weighted(query, more, m, i)[t] = Weighted(query, tokens, m, i)[t]
      BY <1>1 DEF Weighted, n
    <3>2. Weighted(query, more, m, i)[n + 1] = w * v BY <1>1 DEF Weighted
    <3>. HIDE DEF x, v
    <3>3. SumTo(Weighted(query, more, m, i), n + 1)
            = Weighted(query, more, m, i)[n + 1] + SumTo(Weighted(query, tokens, m, i), n)
      BY <1>1, <1>5, <1>6, <3>1, SumToNext
    <3>. QED BY <2>2, <3>2, <3>3
  <2>5. Near(a + x, x + s, 1 + V * (n + 1))
    <3>1. Near(a, s, 1 + V * n) BY <1>3 DEF Coordinate, n
    <3>0. \A k, l \in Nat : k * (l + 1) = k * l + k /\ k * l \in Int OBVIOUS
    <3>2. V * (n + 1) = V * n + V /\ V * n \in Int BY <1>1, <3>0, Zenon
    <3>. DEFINE c == V * n
    <3>3. Near(a, s, 1 + c) /\ c \in Int BY <3>1, <3>2
    <3>. HIDE DEF c, a, s, x
    <3>4. Near(a + x, x + s, 1 + (c + V)) BY <2>2, <2>3, <3>3 DEF Near
    <3>. QED BY <3>2, <3>4 DEF c
  <2>6. ASSUME NEW b \in -V .. V
        PROVE  /\ (\A t \in 1 .. n + 1 : b <= more[t].value[i]) => Above(a + x, D + w, b, V + 1)
               /\ (\A t \in 1 .. n + 1 : more[t].value[i] <= b) => Below(a + x, D + w, b, V + 1)
    <3>1. /\ (\A t \in 1 .. n : b <= tokens[t].value[i]) => Above(a, D, b, V + 1)
          /\ (\A t \in 1 .. n : tokens[t].value[i] <= b) => Below(a, D, b, V + 1)
      BY <1>3 DEF Coordinate, n
    <3>2. b \in Int /\ V + 1 \in Int /\ D \in Int BY <1>3
    <3>3. /\ Above(a, D, b, V + 1) /\ b <= v => Above(a + x, D + w, b, V + 1)
          /\ Below(a, D, b, V + 1) /\ v <= b => Below(a + x, D + w, b, V + 1)
      <4>. HIDE DEF a, v
      <4>. QED BY <1>2, <2>1, <2>2, <3>2, BoundsAdd
    <3>4. n + 1 \in 1 .. n + 1 /\ \A t \in 1 .. n : t \in 1 .. n + 1 BY <1>1
    <3>5. ASSUME \A t \in 1 .. n + 1 : b <= more[t].value[i] PROVE Above(a + x, D + w, b, V + 1)
      <4>1. b <= v /\ \A t \in 1 .. n : b <= tokens[t].value[i] BY <1>1, <3>4, <3>5
      <4>. QED BY <3>1, <3>3, <4>1
    <3>6. ASSUME \A t \in 1 .. n + 1 : more[t].value[i] <= b PROVE Below(a + x, D + w, b, V + 1)
      <4>1. v <= b /\ \A t \in 1 .. n : tokens[t].value[i] <= b BY <1>1, <3>4, <3>6
      <4>. QED BY <3>1, <3>3, <4>1
    <3>. QED BY <3>5, <3>6
  <2>. HIDE DEF a, x, s, U
  <2>7. Near(U[i], SumTo(Weighted(query, more, m, i), Len(more)), 1 + V * Len(more))
    BY <1>1, <2>2, <2>4, <2>5
  <2>8. Coordinate(V, query, more, m, D + w, U, i)
    BY <1>1, <2>2, <2>6, <2>7 DEF Coordinate
  <2>. QED BY <2>2, <2>8
<1>10. U \in [DOMAIN query -> Int]
  <2>1. \A i \in DOMAIN query : U[i] \in Int BY <1>9
  <2>. QED BY <2>1
<1>11. D + w \in Nat BY <1>2, <1>3
<1>. HIDE DEF U
<1>12. Balanced(V, query, more, m, D + w, U)
  BY <1>1, <1>4, <1>8, <1>9, <1>10, <1>11 DEF Balanced
<1>. QED BY <1>12 DEF more, U

\* Products that are that close, times a number of at most V in size.
LEMMA NearTimes ==
  ASSUME NEW x \in Int, NEW y \in Int, NEW p \in Int, NEW e \in Nat, NEW V \in Nat, NEW v \in -V .. V,
         y <= p * x, p * x <= y + e
  PROVE  Near(p * x, y, e) /\ Near(p * (x * v), y * v, V * e)
<1>. DEFINE k == p * x - y
            u == p * (x * v)
            z == y * v
            a == k * v
            l == V * e
            j == V * k
<1>1. k \in Nat /\ k <= e /\ v \in Int OBVIOUS
<1>2. Near(p * x, y, e)
  <2>1. p * x \in Int OBVIOUS
  <2>. DEFINE h == p * x
  <2>2. h \in Int /\ y <= h /\ h <= y + e OBVIOUS
  <2>. HIDE DEF h
  <2>3. Near(h, y, e) BY <2>2 DEF Near
  <2>. QED BY <2>3 DEF h
<1>3. u - z = a /\ u \in Int /\ z \in Int /\ a \in Int /\ l \in Int /\ j \in Int
  <2>1. p * (x * v) = (p * x) * v OBVIOUS
  <2>2. k * v = (p * x) * v - y * v OBVIOUS
  <2>. QED BY <1>1, <2>1, <2>2
<1>4. a <= j /\ -a <= j
  <2>1. a = k * v /\ -a = k * (-v) /\ j = k * V OBVIOUS
  <2>. DEFINE o == -v
  <2>2. v <= V /\ o <= V /\ o \in Int BY <1>1
  <2>3. a = k * v /\ -a = k * o /\ j = k * V BY <2>1
  <2>. HIDE DEF k, a, j, o
  <2>4. k * v <= k * V /\ k * o <= k * V BY <1>1, <2>2, TimesOrder
  <2>. QED BY ONLY <2>3, <2>4
<1>5. j <= l
  <2>. HIDE DEF k
  <2>. QED BY <1>1, TimesOrder
<1>. HIDE DEF u, z, a, l, j, k
<1>6. Near(u, z, l) BY <1>3, <1>4, <1>5 DEF Near
<1>. QED BY <1>2, <1>6 DEF u, z, l

\* Under a higher maximum everything fades alike.
LEMMA MaximumRises ==
  ASSUME NEW query \in Seq(Int), NEW V \in Nat, NEW tokens \in Seq(TokensFor(query, V)),
         NEW m \in Int, NEW high \in Int, m < high,
         NEW D, NEW T, Balanced(V, query, tokens, m, D, T)
  PROVE  Balanced(V, query, tokens, high, Faded(D, high - m),
                  [i \in DOMAIN query |-> Faded(T[i], high - m)])
<1>. DEFINE n == Len(tokens)
            r == high - m
            p == TwoTo(Shift(r))
            E == Faded(D, r)
            U == [i \in DOMAIN query |-> Faded(T[i], r)]
            w == Weights(query, tokens, m)
            x == Weights(query, tokens, high)
<1>1. n \in Nat /\ r \in Nat \ {0} OBVIOUS
<1>2. /\ Dominates(m, query, tokens) /\ D \in Nat /\ T \in [DOMAIN query -> Int]
      /\ Near(D, SumTo(w, n), 1 + n)
      /\ \A i \in DOMAIN query : Coordinate(V, query, tokens, m, D, T, i)
  BY DEF Balanced
<1>. HIDE DEF n
<1>3. high = m + r BY <1>1
<1>4. ASSUME NEW t \in 1 .. n
      PROVE  /\ Dot(query, tokens[t].key) \in Int /\ Dot(query, tokens[t].key) <= m
             /\ m - Dot(query, tokens[t].key) \in Nat
  <2>1. tokens[t] \in TokensFor(query, V) BY DEF n
  <2>2. Dot(query, tokens[t].key) <= m BY <1>2 DEF Dominates, n
  <2>. QED BY <2>1, <2>2, WeightTyped
<1>5. Dominates(high, query, tokens) BY <1>3, <1>4, <1>1 DEF Dominates, n
<1>. HIDE DEF r, p, E, U
<1>6. p \in Int /\ 2 <= p /\ p - 1 \in Nat
  <2>1. p \in Int /\ 2 <= p BY <1>1, FadedIs DEF p
  <2>. QED BY <2>1
<1>7. \A k \in Int : Faded(k, r) \in Int /\ Fades(k, Faded(k, r), p)
  BY <1>1, FadedIs DEF Fades, p
<1>8. /\ w \in [1 .. n -> Int] /\ x \in [1 .. n -> Int]
      /\ \A i \in DOMAIN query :
           /\ Weighted(query, tokens, m, i) \in [1 .. n -> Int]
           /\ Weighted(query, tokens, high, i) \in [1 .. n -> Int]
           /\ \A t \in 1 .. n :
                /\ Weighted(query, tokens, m, i)[t] = w[t] * tokens[t].value[i]
                /\ Weighted(query, tokens, high, i)[t] = x[t] * tokens[t].value[i]
                /\ tokens[t].value[i] \in -V .. V
  BY <1>2, <1>5, WeightsTyped DEF n
<1>9. ASSUME NEW t \in 1 .. n PROVE w[t] <= p * x[t] /\ p * x[t] <= w[t] + (p - 1)
  <2>. DEFINE d == m - Dot(query, tokens[t].key)
  <2>1. d \in Nat BY <1>4
  <2>2. high - Dot(query, tokens[t].key) = d + r BY <1>1, <1>3, <1>4
  <2>3. w[t] = Faded(One, d) /\ x[t] = Faded(One, d + r)
    BY <2>2 DEF Weights, Weight, n
  <2>. HIDE DEF d, w, x
  <2>4. /\ Faded(One, d) <= p * Faded(One, d + r)
        /\ p * Faded(One, d + r) <= Faded(One, d) + p - 1
    BY <1>1, <2>1, WeightFades DEF p
  <2>5. w[t] <= p * x[t] /\ p * x[t] <= w[t] + p - 1 BY <2>3, <2>4
  <2>. DEFINE y == w[t]
              z == p * x[t]
  <2>6. y \in Int /\ z \in Int
    <3>1. y \in Int /\ x[t] \in Int BY <1>8
    <3>. QED BY <1>6, <3>1
  <2>. HIDE DEF y, z
  <2>7. y <= z /\ z <= y + p - 1 BY <2>5 DEF y, z
  <2>8. y <= z /\ z <= y + (p - 1) BY <1>6, <2>6, <2>7
  <2>. QED BY <2>8 DEF y, z
<1>. HIDE DEF w, x
<1>10. Near(E, SumTo(x, n), 1 + n)
  <2>1. \A t \in 1 .. n : Near(p * x[t], w[t], p - 1)
    <3>. TAKE t \in 1 .. n
    <3>1. w[t] \in Int /\ x[t] \in Int /\ 0 \in -V .. V BY <1>8
    <3>. DEFINE y == w[t]
                z == x[t]
    <3>2. y \in Int /\ z \in Int /\ y <= p * z /\ p * z <= y + (p - 1) BY <1>9, <3>1
    <3>. HIDE DEF y, z
    <3>3. Near(p * z, y, p - 1) BY <1>6, <3>1, <3>2, NearTimes
    <3>. QED BY <3>3 DEF y, z
  <2>2. Near(p * SumTo(x, n), SumTo(w, n), n * (p - 1)) BY <1>1, <1>6, <1>8, <2>1, SumDistance
  <2>3. SumTo(x, n) \in Int /\ SumTo(w, n) \in Int BY <1>1, <1>8, SumToNext
  <2>4. E \in Int /\ Fades(D, E, p) BY <1>2, <1>7 DEF E
  <2>5. D \in Int /\ 1 + n \in Int BY <1>1, <1>2
  <2>. QED BY <1>1, <1>2, <1>6, <2>2, <2>3, <2>4, <2>5, NearFades
<1>11. E \in Nat
  <2>1. E \in Int /\ Fades(D, E, p) BY <1>2, <1>7 DEF E
  <2>. DEFINE u == p * E
  <2>2. p * 0 = 0 /\ u \in Int /\ D >= 0 /\ D <= u + p - 1 BY <1>2, <1>6, <2>1 DEF Fades
  <2>3. p * 0 <= u + p - 1
    <3>. HIDE DEF u
    <3>. QED BY <1>2, <1>6, <2>2
  <2>4. p \in Nat \ {0} BY <1>6
  <2>5. 0 <= E BY <2>1, <2>3, <2>4, TimesOrder
  <2>. QED BY <2>1, <2>5
<1>12. ASSUME NEW i \in DOMAIN query
       PROVE  U[i] \in Int /\ Coordinate(V, query, tokens, high, E, U, i)
  <2>. DEFINE f == Weighted(query, tokens, m, i)
              g == Weighted(query, tokens, high, i)
              a == T[i]
              b == U[i]
              c == V * n
  <2>1. a \in Int /\ b = Faded(a, r) BY <1>2 DEF U
  <2>2. b \in Int /\ Fades(a, b, p) /\ E \in Int /\ Fades(D, E, p) BY <1>2, <1>7, <2>1 DEF E
  <2>3. c \in Nat /\ c + 1 \in Int /\ V * (p - 1) \in Nat /\ n * (V * (p - 1)) = c * (p - 1)
    <3>1. \A k, l, o \in Nat : k * l \in Nat /\ k * l + 1 \in Int /\ l * (k * o) = (k * l) * o OBVIOUS
    <3>. QED BY <1>1, <1>6, <3>1
  <2>. HIDE DEF f, g, a, b, c
  <2>4. ASSUME NEW t \in 1 .. n PROVE Near(p * g[t], f[t], V * (p - 1))
    <3>. DEFINE y == w[t]
                z == x[t]
                v == tokens[t].value[i]
    <3>1. y \in Int /\ z \in Int /\ v \in -V .. V /\ f[t] = y * v /\ g[t] = z * v
      BY <1>8 DEF f, g
    <3>2. y <= p * z /\ p * z <= y + (p - 1) BY <1>9
    <3>. HIDE DEF y, z, v
    <3>3. Near(p * (z * v), y * v, V * (p - 1)) BY <1>6, <3>1, <3>2, NearTimes
    <3>. QED BY <3>1, <3>3
  <2>5. f \in [1 .. n -> Int] /\ g \in [1 .. n -> Int] BY <1>8 DEF f, g
  <2>6. Near(p * SumTo(g, n), SumTo(f, n), n * (V * (p - 1)))
    BY <1>1, <1>6, <2>3, <2>4, <2>5, SumDistance
  <2>7. SumTo(f, n) \in Int /\ SumTo(g, n) \in Int BY <1>1, <2>5, SumToNext
  <2>8. Near(a, SumTo(f, n), 1 + c) BY <1>2 DEF Coordinate, n, a, c, f
  <2>9. Near(b, SumTo(g, n), 1 + c)
    <3>1. Near(p * SumTo(g, n), SumTo(f, n), c * (p - 1)) BY <2>3, <2>6
    <3>2. 1 + c \in Int /\ 1 + c <= 1 + c BY <2>3
    <3>. QED BY <1>6, <2>1, <2>2, <2>3, <2>7, <2>8, <3>1, <3>2, NearFades
  <2>10. ASSUME NEW k \in -V .. V
         PROVE  /\ (\A t \in 1 .. n : k <= tokens[t].value[i]) => Above(b, E, k, V + 1)
                /\ (\A t \in 1 .. n : tokens[t].value[i] <= k) => Below(b, E, k, V + 1)
    <3>1. /\ (\A t \in 1 .. n : k <= tokens[t].value[i]) => Above(a, D, k, V + 1)
          /\ (\A t \in 1 .. n : tokens[t].value[i] <= k) => Below(a, D, k, V + 1)
      BY <1>2 DEF Coordinate, n, a
    <3>2. k \in Int /\ V + 1 \in Int /\ 0 <= V + 1 /\ 1 - k <= V + 1 /\ k <= V + 1 /\ D \in Int
      BY <1>2
    <3>3. Above(a, D, k, V + 1) => Above(b, E, k, V + 1)
      BY <1>6, <2>1, <2>2, <3>2, AboveFades
    <3>4. Below(a, D, k, V + 1) => Below(b, E, k, V + 1)
      BY <1>6, <2>1, <2>2, <3>2, BelowFades
    <3>. QED BY <3>1, <3>3, <3>4
  <2>11. Coordinate(V, query, tokens, high, E, U, i)
    BY <2>9, <2>10 DEF Coordinate, n, b, c, g
  <2>. QED BY <2>2, <2>11 DEF b
<1>13. U \in [DOMAIN query -> Int] BY <1>12 DEF U
<1>14. Balanced(V, query, tokens, high, E, U)
  BY <1>5, <1>10, <1>11, <1>12, <1>13 DEF Balanced, n, x
<1>. QED BY <1>14 DEF E, U, r

-----------------------------------------------------------------------------
(* Attention by a running sum: quotients of sums *)

LEMMA QuotientAtMost ==
  ASSUME NEW T \in Int, NEW S \in Int, NEW D \in Nat \ {0}, NEW E \in Nat \ {0},
         T * E < S * D + D * E
  PROVE  TruncatedQuotient(T, D) <= TruncatedQuotient(S, E) + 1
<1>. DEFINE q == TruncatedQuotient(T, D)
            s == TruncatedQuotient(S, E)
            P == D * E
            x == T * E
            y == S * D
<1>1. q \in Int /\ (T >= 0 => q >= 0 /\ q * D <= T) /\ (T < 0 => q <= 0 /\ q * D - D < T)
  BY QuotientIs
<1>2. s \in Int /\ (S >= 0 => s >= 0 /\ S < s * E + E) /\ (S < 0 => s <= 0 /\ S <= s * E)
  BY QuotientIs
<1>3. x \in Int /\ y \in Int /\ P \in Nat \ {0} /\ x < y + P OBVIOUS
<1>. HIDE DEF q, s
<1>4. SUFFICES ASSUME s + 2 <= q PROVE FALSE BY <1>1, <1>2 DEF q, s
<1>5. \A k \in Int : (k * D) * E = P * k /\ (k * E) * D = P * k
  OBVIOUS
<1>6. \A k, l \in Int : l < k => P * l + P <= P * k
  <2>. TAKE k, l \in Int
  <2>1. HAVE l < k
  <2>2. l + 1 \in Int /\ l + 1 <= k BY <2>1
  <2>3. P * (l + 1) = P * l + P BY <1>3
  <2>4. P \in Nat BY <1>3
  <2>. HIDE DEF P
  <2>5. P * (l + 1) <= P * k BY <2>2, <2>4, TimesOrder
  <2>. QED BY <2>3, <2>5
<1>7. q > 0 => P * q <= x
  <2>1. HAVE q > 0
  <2>2. q * D <= T BY <1>1, <2>1
  <2>3. E * (q * D) <= E * T
    <3>. DEFINE k == q * D
    <3>1. k \in Int /\ k <= T /\ E \in Nat BY <1>1, <2>2
    <3>. HIDE DEF k
    <3>2. E * k <= E * T BY <3>1, TimesOrder
    <3>. QED BY <3>2 DEF k
  <2>4. E * (q * D) = P * q /\ E * T = x BY <1>1
  <2>. QED BY <2>3, <2>4
<1>8. P * (q - 1) < x
  <2>1. (q - 1) * D + 1 <= T
    <3>. DEFINE k == q * D
    <3>1. k \in Int /\ (q - 1) * D = k - D BY <1>1
    <3>2. (T >= 0 => k <= T) /\ (T < 0 => k - D < T) BY <1>1
    <3>. HIDE DEF k
    <3>3. k - D + 1 <= T BY <3>1, <3>2
    <3>. QED BY <3>1, <3>3
  <2>2. E * ((q - 1) * D + 1) <= E * T
    <3>. DEFINE k == (q - 1) * D + 1
    <3>1. k \in Int /\ k <= T /\ E \in Nat BY <1>1, <2>1
    <3>. HIDE DEF k
    <3>2. E * k <= E * T BY <3>1, TimesOrder
    <3>. QED BY <3>2 DEF k
  <2>3. E * ((q - 1) * D + 1) = P * (q - 1) + E /\ E * T = x /\ P * (q - 1) \in Int BY <1>1
  <2>. DEFINE k == P * (q - 1)
  <2>. HIDE DEF k, x
  <2>. QED BY <2>2, <2>3, <1>3
<1>9. y < P * (s + 1)
  <2>1. S + 1 <= (s + 1) * E
    <3>. DEFINE k == s * E
    <3>1. k \in Int /\ (s + 1) * E = k + E BY <1>2
    <3>2. (S >= 0 => S < k + E) /\ (S < 0 => S <= k) BY <1>2
    <3>. HIDE DEF k
    <3>3. S + 1 <= k + E BY <3>1, <3>2
    <3>. QED BY <3>1, <3>3
  <2>2. D * (S + 1) <= D * ((s + 1) * E)
    <3>. DEFINE k == (s + 1) * E
    <3>1. k \in Int /\ S + 1 <= k /\ S + 1 \in Int /\ D \in Nat BY <1>2, <2>1
    <3>. HIDE DEF k
    <3>2. D * (S + 1) <= D * k BY <3>1, TimesOrder
    <3>. QED BY <3>2 DEF k
  <2>3. D * ((s + 1) * E) = P * (s + 1) /\ D * (S + 1) = y + D /\ P * (s + 1) \in Int BY <1>2
  <2>. DEFINE k == P * (s + 1)
  <2>. HIDE DEF k, y
  <2>. QED BY <2>2, <2>3, <1>3
<1>10. s < 0 => y <= P * s
  <2>1. HAVE s < 0
  <2>2. S <= s * E BY <1>2, <2>1
  <2>3. D * S <= D * (s * E)
    <3>. DEFINE k == s * E
    <3>1. k \in Int /\ S <= k /\ D \in Nat BY <1>2, <2>2
    <3>. HIDE DEF k
    <3>2. D * S <= D * k BY <3>1, TimesOrder
    <3>. QED BY <3>2 DEF k
  <2>4. D * (s * E) = P * s /\ D * S = y BY <1>2
  <2>. QED BY <2>3, <2>4
<1>11. P * q \in Int /\ P * s \in Int /\ P * (s + 1) = P * s + P /\ P * (q - 1) = P * q - P
  BY <1>1, <1>2, <1>3
<1>12. P * s + P <= P * (q - 1)
  <2>1. s < q - 1 /\ q - 1 \in Int BY <1>1, <1>2, <1>4
  <2>. QED BY <1>2, <1>6, <2>1
<1>. DEFINE a == P * q
            b == P * s
<1>13. /\ a \in Int /\ b \in Int /\ b + P <= a - P /\ (q > 0 => a <= x) /\ a - P < x
       /\ y < b + P /\ (s < 0 => y <= b)
  BY <1>7, <1>8, <1>9, <1>10, <1>11, <1>12
<1>. HIDE DEF a, b, x, y, P
<1>14. CASE q > 0 BY <1>3, <1>13, <1>14
<1>15. CASE q <= 0
  <2>1. s < 0 BY <1>1, <1>2, <1>4, <1>15
  <2>. QED BY <1>3, <1>13, <2>1
<1>. QED BY <1>1, <1>14, <1>15

\* The least and the largest of numbers within bounds.
LEMMA ExtremesAre ==
  ASSUME NEW V \in Nat, NEW values \in SUBSET (-V .. V), values # {}
  PROVE  /\ Min(values) \in values /\ \A v \in values : Min(values) <= v
         /\ Max(values) \in values /\ \A v \in values : v <= Max(values)
<1>1. PICK low \in values : \A v \in values : low <= v
  <2>. DEFINE S == {v + V : v \in values}
  <2>1. S \in SUBSET Nat /\ S # {}
    <3>1. \A v \in values : v + V \in Nat OBVIOUS
    <3>2. S # {} OBVIOUS
    <3>. QED BY <3>1, <3>2
  <2>2. PICK x \in S : \A y \in S : x <= y
    <3>. HIDE DEF S
    <3>. QED BY <2>1, LeastNatural
  <2>3. PICK v \in values : x = v + V BY <2>2
  <2>4. \A u \in values : v <= u
    <3>. TAKE u \in values
    <3>1. u + V \in S OBVIOUS
    <3>2. v + V <= u + V BY <2>2, <2>3, <3>1
    <3>. QED BY <3>2
  <2>. QED BY <2>4
<1>2. PICK high \in values : \A v \in values : v <= high
  <2>. DEFINE S == {V - v : v \in values}
  <2>1. S \in SUBSET Nat /\ S # {}
    <3>1. \A v \in values : V - v \in Nat OBVIOUS
    <3>2. S # {} OBVIOUS
    <3>. QED BY <3>1, <3>2
  <2>2. PICK x \in S : \A y \in S : x <= y
    <3>. HIDE DEF S
    <3>. QED BY <2>1, LeastNatural
  <2>3. PICK v \in values : x = V - v BY <2>2
  <2>4. \A u \in values : u <= v
    <3>. TAKE u \in values
    <3>1. V - u \in S OBVIOUS
    <3>2. V - v <= V - u BY <2>2, <2>3, <3>1
    <3>. QED BY <3>2
  <2>. QED BY <2>4
<1>3. Min(values) \in values /\ \A v \in values : Min(values) =< v
  BY <1>1 DEF Min
<1>4. \A v \in values : high >= v BY <1>2
<1>5. Max(values) \in values /\ \A v \in values : Max(values) >= v
  BY <1>4 DEF Max
<1>. QED BY <1>3, <1>5

\* A quotient of sums that are within bounds is within them, where rounding has cost
\* less than the denominator.
LEMMA QuotientWithin ==
  ASSUME NEW T \in Int, NEW D \in Nat \ {0}, NEW b \in Int, NEW c \in Nat, c < D
  PROVE  /\ Above(T, D, b, c) => b <= TruncatedQuotient(T, D)
         /\ Below(T, D, b, c) => TruncatedQuotient(T, D) <= b
<1>. DEFINE q == TruncatedQuotient(T, D)
            x == q * D
            y == b * D
<1>1. /\ q \in Int /\ (T >= 0 => q >= 0 /\ x <= T /\ T < x + D)
      /\ (T < 0 => q <= 0 /\ x - D < T /\ T <= x)
  BY QuotientIs
<1>. HIDE DEF q
<1>2. x \in Int /\ y \in Int BY <1>1
<1>3. \A k, l \in Int : D * k < D * l + D => k <= l
  <2>. TAKE k, l \in Int
  <2>1. HAVE D * k < D * l + D
  <2>. DEFINE u == D * k
              v == D * l
  <2>2. u \in Int /\ v \in Int /\ u < v + D BY <2>1
  <2>. HIDE DEF u, v
  <2>3. u <= v + D - 1 BY <2>2
  <2>4. D * k <= D * l + D - 1 BY <2>3 DEF u, v
  <2>. QED BY <2>4, TimesOrder
<1>4. x = D * q /\ y = D * b BY <1>1
<1>. HIDE DEF x, y
<1>5. (y < x + D => b <= q) /\ (x < y + D => q <= b) BY <1>1, <1>3, <1>4
<1>6. ASSUME Above(T, D, b, c) PROVE b <= q
  <2>1. y - c <= T /\ (b >= 0 => y <= T) BY <1>6 DEF Above, y
  <2>2. CASE b >= 0
    <3>1. y >= 0
      <4>1. \A k, l \in Nat : k * l >= 0 OBVIOUS
      <4>. QED BY <2>2, <4>1 DEF y
    <3>2. y < x + D BY <1>1, <1>2, <2>1, <2>2, <3>1
    <3>. QED BY <1>5, <3>2
  <2>3. CASE b < 0
    <3>1. CASE T >= 0 BY <1>1, <2>3, <3>1
    <3>2. CASE T < 0
      <4>1. y < x + D BY <1>1, <1>2, <2>1, <3>2
      <4>. QED BY <1>5, <4>1
    <3>. QED BY <3>1, <3>2
  <2>. QED BY <2>2, <2>3
<1>7. ASSUME Below(T, D, b, c) PROVE q <= b
  <2>1. T <= y + c /\ (b < 0 => T <= y) BY <1>7 DEF Below, y
  <2>2. CASE b < 0
    <3>1. y < 0
      <4>. DEFINE k == -b
      <4>1. k \in Nat \ {0} /\ b = -k BY <2>2
      <4>. HIDE DEF k
      <4>2. k * D > 0 /\ (-k) * D = -(k * D) BY <4>1
      <4>. QED BY <4>1, <4>2 DEF y
    <3>2. T < 0 BY <1>2, <2>1, <2>2, <3>1
    <3>3. x - D < y BY <1>1, <1>2, <2>1, <2>2, <3>2
    <3>4. x < y + D BY <1>2, <3>3
    <3>. QED BY <1>5, <3>4
  <2>3. CASE b >= 0
    <3>1. CASE T < 0 BY <1>1, <2>3, <3>1
    <3>2. CASE T >= 0
      <4>1. x < y + D BY <1>1, <1>2, <2>1, <3>2
      <4>. QED BY <1>5, <4>1
    <3>. QED BY <3>1, <3>2
  <2>. QED BY <2>2, <2>3
<1>. QED BY <1>6, <1>7 DEF q

-----------------------------------------------------------------------------
(* Attention by a running sum: the stream *)

\* A stream's steps, without fairness.
StreamSpec == StreamInit /\ [][StreamNext]_streamVars

\* Values of at most V in size, and so few tokens that what rounding costs the
\* sums is less than the least denominator.
ValuesFit(V) ==
  /\ V \in Nat /\ 1 + (2 * MaxStream + 1) * V < One
  /\ \A item \in StreamTokens : \A i \in DOMAIN item.value : item.value[i] \in -V .. V

\* The run after its first token: some token has the score that is the maximum.
Follows(V, query, tokens, run) ==
  \E m \in Int, D \in Nat, T \in [DOMAIN query -> Int] :
    /\ run = [maximum |-> <<m>>, denominator |-> D, total |-> T]
    /\ One <= D
    /\ \E t \in 1 .. Len(tokens) : Dot(query, tokens[t].key) = m
    /\ Balanced(V, query, tokens, m, D, T)

StreamInv(V) ==
  /\ stream_query \in Queries \cup {<<>>} /\ kept \in Seq(TokensFor(stream_query, V))
  /\ stream_query = <<>> => kept = <<>>
  /\ Len(kept) <= MaxStream
  /\ partial = OnlineRun(stream_query, kept)
  /\ IF kept = <<>> THEN partial = NothingSeen(stream_query)
     ELSE Follows(V, stream_query, kept, partial)

LEMMA StreamInputs ==
  ASSUME NEW V, ValuesFit(V)
  PROVE  /\ <<>> \in Seq(Int) /\ Queries \subseteq Seq(Int) \ {<<>>} /\ MaxStream \in Nat
         /\ \A query \in Queries : StreamTokens \subseteq TokensFor(query, V)
<1>1. /\ Queries \subseteq Seq(Int) \ {<<>>} /\ MaxStream \in Nat
      /\ StreamTokens \subseteq [key : Seq(Int), value : Seq(Int)]
      /\ \A query \in Queries, item \in StreamTokens :
           Len(item.key) = Len(query) /\ Len(item.value) = Len(query)
  BY GoldenAssumption DEF InputsChecked
<1>2. ASSUME NEW query \in Queries, NEW item \in StreamTokens PROVE item \in TokensFor(query, V)
  <2>1. /\ query \in Seq(Int) /\ item \in [key : Seq(Int), value : Seq(Int)]
        /\ Len(item.key) = Len(query) /\ Len(item.value) = Len(query)
    BY <1>1
  <2>2. item.value \in Seq(Int) BY <2>1
  <2>3. DOMAIN item.value = DOMAIN query BY <2>1, <2>2
  <2>4. \A i \in DOMAIN query : item.value[i] \in -V .. V BY <2>3 DEF ValuesFit
  <2>. QED BY <2>1, <2>4 DEF TokensFor
<1>. QED BY <1>1, <1>2

\* A token begins the run, raises the maximum or is added under it.
LEMMA RunFollows ==
  ASSUME NEW V \in Nat, NEW query \in Seq(Int), NEW tokens \in Seq(TokensFor(query, V)),
         NEW item \in TokensFor(query, V), NEW run,
         IF tokens = <<>> THEN run = NothingSeen(query) ELSE Follows(V, query, tokens, run)
  PROVE  Follows(V, query, Append(tokens, item),
                 OnlineStep(run, Dot(query, item.key), item.value))
<1>. DEFINE score == Dot(query, item.key)
            more == Append(tokens, item)
            n == Len(tokens)
            w(m) == Weight(query, item, m)
            Plus(T, m) == [i \in DOMAIN query |-> T[i] + item.value[i] * w(m)]
            next == OnlineStep(run, score, item.value)
<1>1. /\ n \in Nat /\ Len(more) = n + 1 /\ more[n + 1] = item
      /\ \A t \in 1 .. n : t \in 1 .. Len(more) /\ more[t] = tokens[t]
  OBVIOUS
<1>2. DOMAIN item.value = DOMAIN query /\ \A i \in DOMAIN query : item.value[i] \in Int
  <2>1. /\ item.value \in Seq(Int) /\ Len(item.value) = Len(query)
        /\ \A i \in DOMAIN query : item.value[i] \in -V .. V
    BY DEF TokensFor
  <2>. QED BY <2>1
<1>3. score \in Int
  <2>1. /\ query \in [1 .. Len(query) -> Int] /\ item.key \in [1 .. Len(query) -> Int]
        /\ Len(query) \in Nat
    BY DEF TokensFor
  <2>. QED BY <2>1, DotIs
<1>4. \E t \in 1 .. Len(more) : Dot(query, more[t].key) = score
  <2>1. n + 1 \in 1 .. Len(more) BY <1>1
  <2>. HIDE DEF more
  <2>. QED BY <1>1, <2>1
<1>5. w(score) = One
  <2>1. score - score = 0 BY <1>3
  <2>2. Faded(One, 0) = One BY WeightIs
  <2>. HIDE DEF score
  <2>3. Weight(query, item, score) = Faded(One, score - score) BY DEF Weight, score
  <2>. QED BY <2>1, <2>2, <2>3
<1>6. ASSUME NEW m \in Int, score <= m, NEW D, NEW T, Balanced(V, query, tokens, m, D, T)
      PROVE  /\ D \in Nat /\ T \in [DOMAIN query -> Int]
             /\ Balanced(V, query, more, m, D + w(m), Plus(T, m))
             /\ D + w(m) \in Nat /\ Plus(T, m) \in [DOMAIN query -> Int] /\ D <= D + w(m)
             /\ w(m) <= D + w(m)
  <2>1. Balanced(V, query, more, m, D + w(m), Plus(T, m)) BY <1>6, TokenAdds
  <2>2. D \in Nat /\ T \in [DOMAIN query -> Int] BY <1>6 DEF Balanced
  <2>3. D + w(m) \in Nat /\ Plus(T, m) \in [DOMAIN query -> Int]
    <3>. HIDE DEF Plus, w, more
    <3>. QED BY <2>1 DEF Balanced
  <2>4. w(m) \in Nat BY <1>6, WeightTyped
  <2>. HIDE DEF Plus, w, more
  <2>. QED BY <2>1, <2>2, <2>3, <2>4
<1>7. One \in Nat BY OneIs
<1>8. ASSUME tokens = <<>> PROVE Follows(V, query, more, next)
  <2>. DEFINE T == [i \in DOMAIN query |-> 0]
  <2>1. run.maximum = <<>> BY <1>8 DEF NothingSeen
  <2>2. next = FirstToken(score, item.value) BY <2>1 DEF OnlineStep
  <2>3. Balanced(V, query, tokens, score, 0, T) BY <1>3, <1>8, NothingBalanced
  <2>. DEFINE E == 0 + w(score)
              U == Plus(T, score)
  <2>4. /\ E \in Nat /\ U \in [DOMAIN query -> Int] /\ Balanced(V, query, more, score, E, U)
        /\ One <= E
    <3>1. score \in Int /\ score <= score BY <1>3
    <3>. HIDE DEF T, score, w, Plus, more
    <3>2. /\ E \in Nat /\ U \in [DOMAIN query -> Int] /\ Balanced(V, query, more, score, E, U)
          /\ w(score) <= E
      BY <1>6, <2>3, <3>1, Zenon
    <3>. QED BY <1>5, <3>2
  <2>5. E = One BY <1>5, <1>7
  <2>6. U = [i \in DOMAIN item.value |-> item.value[i] * One]
    <3>. DEFINE one == One
    <3>1. one \in Nat /\ w(score) = one BY <1>5, <1>7
    <3>. HIDE DEF one, w, score
    <3>2. \A v \in Int : 0 + v * one = v * one BY <3>1
    <3>. QED BY <1>2, <3>1, <3>2 DEF one
  <2>7. next = [maximum |-> <<score>>, denominator |-> E, total |-> U]
    BY <2>2, <2>5, <2>6 DEF FirstToken
  <2>. HIDE DEF score, E, U, next, more
  <2>. QED BY <1>3, <1>4, <2>4, <2>7 DEF Follows
<1>9. ASSUME tokens # <<>> PROVE Follows(V, query, more, next)
  <2>1. PICK m \in Int, D \in Nat, T \in [DOMAIN query -> Int] :
          /\ run = [maximum |-> <<m>>, denominator |-> D, total |-> T]
          /\ One <= D
          /\ \E t \in 1 .. n : Dot(query, tokens[t].key) = m
          /\ Balanced(V, query, tokens, m, D, T)
    BY <1>9 DEF Follows
  <2>2. run.maximum = <<m>> /\ run.maximum # <<>> /\ run.maximum[1] = m
        /\ run.denominator = D /\ run.total = T
    BY <2>1
  <2>3. CASE score > m
    <3>1. next = NewMaximum(run, score, item.value) BY <2>2, <2>3 DEF OnlineStep
    <3>. DEFINE F == Faded(D, score - m)
                R == [i \in DOMAIN query |-> Faded(T[i], score - m)]
                E == F + w(score)
                U == Plus(R, score)
    <3>2. Balanced(V, query, tokens, score, F, R) BY <1>3, <2>1, <2>3, MaximumRises
    <3>3. /\ F \in Nat /\ R \in [DOMAIN query -> Int] /\ E \in Nat
          /\ U \in [DOMAIN query -> Int] /\ Balanced(V, query, more, score, E, U) /\ One <= E
      <4>1. score \in Int /\ score <= score BY <1>3
      <4>. HIDE DEF F, R, score, w, Plus, more
      <4>2. /\ F \in Nat /\ R \in [DOMAIN query -> Int] /\ E \in Nat
            /\ U \in [DOMAIN query -> Int] /\ Balanced(V, query, more, score, E, U)
            /\ w(score) <= E
        BY <1>6, <3>2, <4>1, Zenon
      <4>. QED BY <1>5, <4>2
    <3>4. E = F + One BY <1>5
    <3>5. U = [i \in DOMAIN item.value |-> Faded(T[i], score - m) + item.value[i] * One]
      BY <1>2, <1>5
    <3>6. next = [maximum |-> <<score>>, denominator |-> E, total |-> U]
      BY <2>2, <3>1, <3>4, <3>5 DEF NewMaximum
    <3>. HIDE DEF score, E, U, next, more, R, F
    <3>. QED BY <1>3, <1>4, <3>3, <3>6 DEF Follows
  <2>4. CASE score <= m
    <3>1. next = LesserScore(run, score, item.value) BY <1>3, <2>2, <2>4 DEF OnlineStep
    <3>. DEFINE E == D + w(m)
                U == Plus(T, m)
    <3>2. /\ E \in Nat /\ U \in [DOMAIN query -> Int] /\ Balanced(V, query, more, m, E, U)
          /\ D <= E
      BY <1>6, <2>1, <2>4
    <3>3. w(m) = Faded(One, m - score) BY DEF Weight
    <3>4. next = [run EXCEPT !.denominator = E, !.total = U]
      BY <1>2, <2>2, <3>1, <3>3 DEF LesserScore
    <3>. HIDE DEF E, U
    <3>5. next = [maximum |-> <<m>>, denominator |-> E, total |-> U]
      <4>. HIDE DEF next
      <4>. QED BY <2>1, <3>4
    <3>6. \E t \in 1 .. Len(more) : Dot(query, more[t].key) = m BY <1>1, <2>1
    <3>7. One <= E BY <1>7, <2>1, <3>2
    <3>. HIDE DEF next, more
    <3>. QED BY <3>2, <3>5, <3>6, <3>7 DEF Follows
  <2>. QED BY <1>3, <2>3, <2>4
<1>. QED BY <1>8, <1>9

LEMMA StreamStarts == ASSUME NEW V, ValuesFit(V) PROVE StreamInit => StreamInv(V)
<1>. SUFFICES ASSUME StreamInit PROVE StreamInv(V) OBVIOUS
<1>1. stream_query = <<>> /\ kept = <<>> /\ partial = NothingSeen(<<>>) BY DEF StreamInit
<1>2. OnlineRun(<<>>, <<>>) = NothingSeen(<<>>) BY RunStarts
<1>3. Len(<<>>) = 0 /\ 0 <= MaxStream /\ <<>> \in Seq(TokensFor(<<>>, V)) BY StreamInputs
<1>. QED BY <1>1, <1>2, <1>3 DEF StreamInv

LEMMA StreamStep ==
  ASSUME NEW V, ValuesFit(V) PROVE StreamInv(V) /\ [StreamNext]_streamVars => StreamInv(V)'
<1>. SUFFICES ASSUME StreamInv(V), [StreamNext]_streamVars PROVE StreamInv(V)' OBVIOUS
<1>0. /\ <<>> \in Seq(Int) /\ Queries \subseteq Seq(Int) \ {<<>>} /\ MaxStream \in Nat
      /\ \A query \in Queries : StreamTokens \subseteq TokensFor(query, V)
      /\ V \in Nat
  BY StreamInputs DEF ValuesFit
<1>1. ASSUME NEW query \in Queries, BeginStream(query) PROVE StreamInv(V)'
  <2>1. stream_query = <<>> /\ stream_query' = query /\ partial' = NothingSeen(query) /\ kept' = kept
    BY <1>1 DEF BeginStream
  <2>2. kept = <<>> BY <2>1 DEF StreamInv
  <2>3. OnlineRun(query, <<>>) = NothingSeen(query) BY RunStarts
  <2>4. Len(<<>>) = 0 /\ <<>> \in Seq(TokensFor(query, V)) OBVIOUS
  <2>. QED BY <1>0, <2>1, <2>2, <2>3, <2>4 DEF StreamInv
<1>2. ASSUME NEW item \in StreamTokens, KeepToken(item) PROVE StreamInv(V)'
  <2>1. /\ stream_query # <<>> /\ Len(kept) < MaxStream /\ stream_query' = stream_query
        /\ partial' = OnlineStep(partial, Dot(stream_query, item.key), item.value)
        /\ kept' = Append(kept, item)
    BY <1>2 DEF KeepToken
  <2>. DEFINE query == stream_query
  <2>2. /\ query \in Queries /\ query \in Seq(Int) /\ kept \in Seq(TokensFor(query, V))
        /\ item \in TokensFor(query, V) /\ partial = OnlineRun(query, kept)
        /\ (IF kept = <<>> THEN partial = NothingSeen(query)
            ELSE Follows(V, query, kept, partial))
    BY <1>0, <2>1 DEF StreamInv
  <2>3. Follows(V, query, kept', partial') BY <1>0, <2>1, <2>2, RunFollows
  <2>4. partial' = OnlineRun(query, kept') BY <2>1, <2>2, RunIs
  <2>5. kept' \in Seq(TokensFor(query, V)) /\ kept' # <<>> /\ Len(kept') <= MaxStream
    BY <1>0, <2>1, <2>2
  <2>. HIDE DEF query
  <2>6. /\ stream_query' = query /\ query # <<>> /\ query \in Queries BY <2>1, <2>2 DEF query
  <2>. QED BY <2>3, <2>4, <2>5, <2>6 DEF StreamInv
<1>3. CASE UNCHANGED streamVars BY <1>3 DEF StreamInv, streamVars
<1>. QED BY <1>1, <1>2, <1>3 DEF StreamNext

\* What the sums in two passes are.
LEMMA TwoPassIs ==
  ASSUME NEW V \in Nat, stream_query \in Seq(Int), kept \in Seq(TokensFor(stream_query, V)),
         NEW m \in Int, Dominates(m, stream_query, kept),
         \E t \in 1 .. Len(kept) : Dot(stream_query, kept[t].key) = m,
         NEW i \in DOMAIN stream_query
  PROVE  TwoPass(i) = TruncatedQuotient(SumTo(Weighted(stream_query, kept, m, i), Len(kept)),
                                        SumTo(Weights(stream_query, kept, m), Len(kept)))
<1>. DEFINE n == Len(kept)
            S == 1 .. n
            f == Weighted(stream_query, kept, m, i)
            g == Weights(stream_query, kept, m)
<1>1. n \in Nat /\ DOMAIN kept = S OBVIOUS
<1>. HIDE DEF n
<1>2. \A t \in S : ScoreOf(t) = Dot(stream_query, kept[t].key) /\ ScoreOf(t) <= m /\ ScoreOf(t) \in Int
  <2>. TAKE t \in S
  <2>1. kept[t] \in TokensFor(stream_query, V) BY DEF n
  <2>2. Dot(stream_query, kept[t].key) <= m BY DEF Dominates, n
  <2>3. Dot(stream_query, kept[t].key) \in Int BY <2>1, <2>2, WeightTyped
  <2>. QED BY <2>2, <2>3 DEF ScoreOf
<1>3. Max({ScoreOf(u) : u \in DOMAIN kept}) = m
  <2>. DEFINE scores == {ScoreOf(u) : u \in DOMAIN kept}
  <2>1. m \in scores BY <1>1, <1>2 DEF n
  <2>2. \A x \in scores : x \in Int /\ m >= x BY <1>1, <1>2
  <2>. HIDE DEF scores
  <2>3. Max(scores) \in scores /\ \A x \in scores : Max(scores) >= x BY <2>1, <2>2 DEF Max
  <2>4. Max(scores) >= m /\ m >= Max(scores) /\ Max(scores) \in Int BY <2>1, <2>2, <2>3
  <2>. QED BY <2>4 DEF scores
<1>4. \A t \in S : /\ WeightOf(t) = g[t]
                   /\ WeightOf(t) * kept[t].value[i] = f[t]
  <2>. TAKE t \in S
  <2>1. WeightOf(t) = Weight(stream_query, kept[t], m) BY <1>2, <1>3 DEF WeightOf, Weight
  <2>2. g[t] = Weight(stream_query, kept[t], m)
        /\ f[t] = Weight(stream_query, kept[t], m) * kept[t].value[i]
    BY DEF Weights, Weighted, n
  <2>. QED BY <2>1, <2>2
<1>. HIDE DEF f, g
<1>. DEFINE FoldedF(sum) == [s \in SUBSET S |-> SumStep(f, s, sum)]
            MappedF(sum) == [s \in SUBSET S |->
                               IF s = {} THEN 0
                               ELSE WeightOf(CHOOSE x \in s : TRUE)
                                      * kept[CHOOSE x \in s : TRUE].value[i]
                                      + sum[s \ {CHOOSE x \in s : TRUE}]]
            FoldedG(sum) == [s \in SUBSET S |-> SumStep(g, s, sum)]
            MappedG(sum) == [s \in SUBSET S |->
                               IF s = {} THEN 0
                               ELSE WeightOf(CHOOSE x \in s : TRUE)
                                      + sum[s \ {CHOOSE x \in s : TRUE}]]
<1>5. ASSUME NEW sum PROVE FoldedF(sum) = MappedF(sum) /\ FoldedG(sum) = MappedG(sum)
  <2>1. ASSUME NEW s \in SUBSET S, s # {}
        PROVE  /\ f[Pick(s)] = WeightOf(Pick(s)) * kept[Pick(s)].value[i]
               /\ g[Pick(s)] = WeightOf(Pick(s))
    <3>1. Pick(s) \in S BY <2>1 DEF Pick
    <3>. QED BY <1>4, <3>1
  <2>. HIDE DEF S
  <2>2. ASSUME NEW s \in SUBSET S
        PROVE  FoldedF(sum)[s] = MappedF(sum)[s] /\ FoldedG(sum)[s] = MappedG(sum)[s]
    <3>1. CASE s = {} BY <3>1 DEF SumStep
    <3>2. CASE s # {}
      <4>1. /\ SumStep(f, s, sum)
                 = WeightOf(Pick(s)) * kept[Pick(s)].value[i] + sum[s \ {Pick(s)}]
            /\ SumStep(g, s, sum) = WeightOf(Pick(s)) + sum[s \ {Pick(s)}]
        BY <2>1, <3>2 DEF SumStep
      <4>. QED BY <3>2, <4>1 DEF Pick
    <3>. QED BY <3>1, <3>2
  <2>. QED BY <2>2
<1>6. /\ (CHOOSE sum : sum = FoldedF(sum)) = (CHOOSE sum : sum = MappedF(sum))
      /\ (CHOOSE sum : sum = FoldedG(sum)) = (CHOOSE sum : sum = MappedG(sum))
  <2>. HIDE DEF FoldedF, MappedF, FoldedG, MappedG
  <2>. QED BY <1>5
<1>7. /\ SumTo(f, n) = (CHOOSE sum : sum = FoldedF(sum))[S]
      /\ SumTo(g, n) = (CHOOSE sum : sum = FoldedG(sum))[S]
  BY DEF Summed, SumTo
<1>8. /\ MapThenSumSet(LAMBDA t : WeightOf(t) * kept[t].value[i], DOMAIN kept)
           = (CHOOSE sum : sum = MappedF(sum))[S]
      /\ MapThenSumSet(WeightOf, DOMAIN kept) = (CHOOSE sum : sum = MappedG(sum))[S]
  <2>. HIDE DEF S
  <2>. QED BY <1>1 DEF MapThenSumSet, MapThenFoldSet
<1>. HIDE DEF FoldedF, MappedF, FoldedG, MappedG
<1>9. /\ MapThenSumSet(LAMBDA t : WeightOf(t) * kept[t].value[i], DOMAIN kept) = SumTo(f, n)
      /\ MapThenSumSet(WeightOf, DOMAIN kept) = SumTo(g, n)
  BY <1>6, <1>7, <1>8
<1>. QED BY <1>9 DEF TwoPass, f, g, n

LEMMA SumAtLeast ==
  ASSUME NEW n \in Nat, NEW f \in [1 .. n -> Int], \A t \in 1 .. n : 1 <= f[t]
  PROVE  n <= SumTo(f, n)
<1>. DEFINE F(k) == [t \in 1 .. k |-> f[t]]
            G == {k \in 0 .. n : k <= SumTo(F(k), k)}
<1>1. 0 \in G
  <2>1. SumTo(F(0), 0) = 0 BY SumToNext
  <2>. QED BY <2>1
<1>2. ASSUME NEW k \in 0 .. n - 1, k \in G PROVE k + 1 \in G
  <2>1. k \in Nat /\ k + 1 \in 0 .. n /\ k + 1 \in 1 .. n /\ k + 1 \in 1 .. k + 1 OBVIOUS
  <2>2. /\ F(k) \in [1 .. k -> Int] /\ F(k + 1) \in [1 .. k + 1 -> Int]
        /\ \A t \in 1 .. k : F(k + 1)[t] = F(k)[t]
        /\ F(k + 1)[k + 1] = f[k + 1]
    OBVIOUS
  <2>3. k <= SumTo(F(k), k) BY <1>2
  <2>. HIDE DEF F
  <2>4. SumTo(F(k + 1), k + 1) = f[k + 1] + SumTo(F(k), k) BY <2>1, <2>2, SumToNext
  <2>5. SumTo(F(k), k) \in Int BY <2>1, <2>2, SumToNext
  <2>6. f[k + 1] \in Int /\ 1 <= f[k + 1] BY <2>1
  <2>7. k + 1 <= SumTo(F(k + 1), k + 1) BY <2>1, <2>3, <2>4, <2>5, <2>6
  <2>. QED BY <2>1, <2>7
<1>3. n \in G
  <2>1. n \in 0 .. n OBVIOUS
  <2>. HIDE DEF G
  <2>. QED BY <1>1, <1>2, <2>1, ByNumbers
<1>4. F(n) = f OBVIOUS
<1>. QED BY <1>3, <1>4

LEMMA SumsWithin ==
  ASSUME NEW query \in Seq(Int), NEW V \in Nat, NEW tokens \in Seq(TokensFor(query, V)),
         NEW m \in Int, Dominates(m, query, tokens), NEW i \in DOMAIN query
  PROVE  Near(0, SumTo(Weighted(query, tokens, m, i), Len(tokens)),
              V * SumTo(Weights(query, tokens, m), Len(tokens)))
<1>. DEFINE n == Len(tokens)
            S == 1 .. n
            w == Weights(query, tokens, m)
            f == Weighted(query, tokens, m, i)
            g == [t \in S |-> V * w[t]]
            h == [t \in S |-> -1 * f[t]]
<1>1. /\ n \in Nat /\ w \in [S -> Int] /\ f \in [S -> Int]
      /\ \A t \in S : w[t] \in Int /\ 1 <= w[t] /\ f[t] = w[t] * tokens[t].value[i]
                      /\ tokens[t].value[i] \in -V .. V
  <2>. HIDE DEF g, h
  <2>1. /\ n \in Nat /\ w \in [S -> Int] /\ f \in [S -> Int]
        /\ \A t \in S : 1 <= w[t] /\ f[t] = w[t] * tokens[t].value[i]
                        /\ tokens[t].value[i] \in -V .. V
    BY WeightsTyped
  <2>. HIDE DEF w, f, S
  <2>. QED BY <2>1
<1>. HIDE DEF n, w, f
<1>2. g \in [S -> Int] /\ h \in [S -> Int]
  <2>1. \A x, y \in Int : x * y \in Int OBVIOUS
  <2>2. \A t \in S : V * w[t] \in Int /\ -1 * f[t] \in Int
    <3>1. V \in Int /\ -1 \in Int OBVIOUS
    <3>2. \A t \in S : w[t] \in Int /\ f[t] \in Int BY <1>1
    <3>. QED BY ONLY <2>1, <3>1, <3>2
  <2>. QED BY <2>2
<1>3. IsFiniteSet(S) BY <1>1, FS_Interval
<1>4. ASSUME NEW t \in S PROVE f[t] <= V * w[t] /\ -1 * f[t] <= V * w[t]
  <2>. DEFINE x == w[t]
              v == tokens[t].value[i]
              o == -v
  <2>1. x \in Nat /\ v \in Int /\ o \in Int /\ v <= V /\ o <= V /\ f[t] = x * v
    <3>1. x \in Int /\ 1 <= x /\ v \in -V .. V /\ f[t] = x * v BY <1>1
    <3>. HIDE DEF x
    <3>. QED BY <3>1
  <2>2. x * v <= x * V /\ x * o <= x * V
    <3>. HIDE DEF x, v, o
    <3>. QED BY <2>1, TimesOrder
  <2>3. x * o = -1 * (x * v) /\ x * V = V * x
    <3>1. \A k, l \in Int : k * (-l) = -1 * (k * l) /\ k * l = l * k OBVIOUS
    <3>2. x \in Int /\ v \in Int /\ V \in Int BY <2>1
    <3>. HIDE DEF x, v
    <3>. QED BY <3>1, <3>2
  <2>. HIDE DEF x, v, o
  <2>4. f[t] <= V * x /\ -1 * f[t] <= V * x BY ONLY <2>1, <2>2, <2>3
  <2>. QED BY <2>4 DEF x
<1>5. TimesAtMost(S, f, g, 1) /\ TimesAtMost(S, h, g, 1) /\ Multiple(S, f, h, -1)
      /\ Multiple(S, w, g, V)
  <2>1. \A t \in S : f[t] \in Int /\ h[t] = -1 * f[t] /\ h[t] \in Int /\ g[t] = V * w[t]
    BY <1>1, <1>2
  <2>2. \A x \in Int : 1 * x = x OBVIOUS
  <2>. HIDE DEF g, h
  <2>. QED BY <1>4, <2>1, <2>2 DEF TimesAtMost, Multiple
<1>. HIDE DEF S, g, h
<1>6. \A a, b \in [S -> Int] : \A c \in Int :
        /\ TimesAtMost(S, a, b, c) => c * Summed(a, S)[S] <= Summed(b, S)[S]
        /\ Multiple(S, a, b, c) => Summed(b, S)[S] = c * Summed(a, S)[S]
        /\ Summed(a, S)[S] \in Int
  <2>. TAKE a, b \in [S -> Int]
  <2>. TAKE c \in Int
  <2>1. TimesAtMost(S, a, b, c) => c * Summed(a, S)[S] <= Summed(b, S)[S] BY <1>3, SumOrder
  <2>2. Multiple(S, a, b, c) => Summed(b, S)[S] = c * Summed(a, S)[S] BY <1>3, SumTimes
  <2>3. Summed(a, S)[S] \in Int BY <1>3, SumIsInt
  <2>. QED BY <2>1, <2>2, <2>3
<1>. DEFINE F == Summed(f, S)[S]
            H == Summed(h, S)[S]
            K == Summed(g, S)[S]
            W == Summed(w, S)[S]
<1>7. 1 * F <= K /\ 1 * H <= K /\ H = -1 * F /\ K = V * W /\ F \in Int /\ W \in Int
  <2>1. 1 \in Int /\ -1 \in Int /\ V \in Int OBVIOUS
  <2>2. 1 * F <= K BY <1>1, <1>2, <1>5, <1>6, <2>1, Zenon
  <2>3. 1 * H <= K BY <1>1, <1>2, <1>5, <1>6, <2>1, Zenon
  <2>. DEFINE c == -1
  <2>7. c \in Int /\ Multiple(S, f, h, c) BY <1>5, <2>1
  <2>. HIDE DEF c
  <2>8. H = c * F BY <1>1, <1>2, <1>6, <2>7, Zenon
  <2>5. K = V * W BY <1>1, <1>2, <1>5, <1>6, <2>1, Zenon
  <2>6. F \in Int /\ W \in Int BY <1>1, <1>6, <2>1, Zenon
  <2>4. H = -1 * F
    <3>1. c = -1 BY DEF c
    <3>. HIDE DEF F, H, W, K
    <3>2. F \in Int BY <2>6
    <3>. QED BY ONLY <2>8, <3>1, <3>2
  <2>. QED BY <2>2, <2>3, <2>4, <2>5, <2>6
<1>. HIDE DEF F, H, K, W
<1>8. V * W \in Int BY <1>7
<1>9. 0 - F <= V * W /\ F - 0 <= V * W
  <2>. DEFINE k == V * W
  <2>1. k \in Int /\ 1 * F <= k /\ -1 * F <= k
    <3>1. K \in Int BY <1>7, <1>8
    <3>2. H \in Int /\ 1 * H = H BY <1>7
    <3>. QED BY <1>7, <1>8, <3>1, <3>2
  <2>. HIDE DEF k
  <2>2. 0 - F <= k /\ F - 0 <= k BY <1>7, <2>1
  <2>. QED BY <2>2 DEF k
<1>10. F = SumTo(f, n) /\ W = SumTo(w, n) BY DEF F, W, SumTo, S
<1>. QED BY <1>9, <1>10 DEF Near, n, f, w

\* The quotients of the run and of the two passes.
LEMMA QuotientsNear ==
  ASSUME NEW T \in Int, NEW S \in Int, NEW D \in Nat, NEW E \in Int, NEW V \in Nat, NEW n \in Nat,
         Near(T, S, 1 + V * n), Near(D, E, 1 + n), Near(0, S, V * E), E > 0,
         1 + V * n + V * (1 + n) < D
  PROVE  Distance(TruncatedQuotient(T, D), TruncatedQuotient(S, E)) <= 1
<1>. DEFINE a == T - S
            b == D - E
            k == 1 + V * n
            l == 1 + n
            x == T * E
            y == S * D
            u == a * E
            v == S * b
            P == D * E
<1>1. /\ a \in Int /\ b \in Int /\ k \in Nat /\ l \in Nat /\ D \in Nat \ {0} /\ E \in Nat \ {0}
      /\ x \in Int /\ y \in Int /\ u \in Int /\ v \in Int /\ P \in Int
  <2>1. V * n \in Nat /\ V * (1 + n) \in Nat
    <3>1. \A i, j \in Nat : i * j \in Nat OBVIOUS
    <3>2. 1 + n \in Nat OBVIOUS
    <3>. QED BY <3>1, <3>2
  <2>2. D \in Nat \ {0} /\ k \in Nat
    <3>. DEFINE i == V * n
                j == V * (1 + n)
    <3>1. i \in Nat /\ j \in Nat /\ 1 + i + j < D BY <2>1
    <3>. HIDE DEF i, j
    <3>2. D \in Nat \ {0} /\ 1 + i \in Nat BY <3>1
    <3>. QED BY <3>2 DEF i
  <2>. QED BY <2>2
<1>2. x - y = u - v
  <2>1. T = S + a /\ D = E + b OBVIOUS
  <2>. HIDE DEF a, b
  <2>2. (S + a) * E = S * E + a * E /\ S * (E + b) = S * E + S * b BY <1>1
  <2>3. S * E \in Int BY <1>1
  <2>. QED BY <1>1, <2>1, <2>2, <2>3
<1>3. a <= k /\ -a <= k /\ b <= l /\ -b <= l
  <2>1. T - S <= k /\ S - T <= k /\ D - E <= l /\ E - D <= l BY DEF Near
  <2>. HIDE DEF k, l
  <2>. QED BY <1>1, <2>1
<1>4. u <= E * k /\ -u <= E * k
  <2>. DEFINE o == -a
  <2>1. o \in Int /\ o <= k /\ u = E * a /\ -u = E * o BY <1>1, <1>3
  <2>2. E * a <= E * k /\ E * o <= E * k
    <3>1. E \in Nat BY <1>1
    <3>. HIDE DEF a, k, o
    <3>. QED BY <1>1, <1>3, <2>1, <3>1, TimesOrder
  <2>. HIDE DEF u, o, a, k
  <2>. QED BY ONLY <2>1, <2>2
<1>5. v <= E * (V * l) /\ -v <= E * (V * l)
  <2>. DEFINE z == V * E
              s == IF S >= 0 THEN S ELSE -S
              c == IF b >= 0 THEN b ELSE -b
              m == z * l
  <2>1. z \in Nat
    <3>1. \A i, j \in Nat : i * j \in Nat OBVIOUS
    <3>. QED BY <1>1, <3>1
  <2>2. s \in Nat /\ c \in Nat /\ s <= z /\ c <= l
    <3>1. 0 - S <= z /\ S - 0 <= z BY DEF Near
    <3>. HIDE DEF z, b, l
    <3>. QED BY <1>1, <1>3, <2>1, <3>1
  <2>3. v = s * c \/ v = -(s * c)
    <3>1. \A i, j \in Int : (-i) * (-j) = i * j /\ (-i) * j = -(i * j) /\ i * (-j) = -(i * j)
      OBVIOUS
    <3>. HIDE DEF b
    <3>. QED BY <1>1, <3>1
  <2>. HIDE DEF s, c, z, v
  <2>4. s * c <= z * l
    <3>1. s * c <= s * l BY <1>1, <2>2, TimesOrder
    <3>2. l * s <= l * z BY <1>1, <2>1, <2>2, TimesOrder
    <3>3. l * s = s * l /\ l * z = z * l BY <1>1, <2>1, <2>2
    <3>4. s * c \in Int /\ s * l \in Int /\ z * l \in Int BY <1>1, <2>1, <2>2
    <3>. QED BY <3>1, <3>2, <3>3, <3>4
  <2>5. z * l = E * (V * l) /\ s * c \in Nat /\ z * l \in Int
    <3>1. \A i, j, o \in Nat : (i * j) * o = j * (i * o) /\ i * j \in Nat /\ (i * j) * o \in Int OBVIOUS
    <3>2. (V * E) * l = E * (V * l) /\ (V * E) * l \in Int BY <1>1, <3>1
    <3>. QED BY <2>2, <3>1, <3>2 DEF z
  <2>. DEFINE i == s * c
              j == z * l
  <2>6. i \in Nat /\ j \in Int /\ i <= j /\ (v = i \/ v = -i) BY <2>3, <2>4, <2>5
  <2>. HIDE DEF i, j
  <2>7. v <= j /\ -v <= j BY <2>6
  <2>. QED BY <2>5, <2>7 DEF j
<1>6. E * k + E * (V * l) < P
  <2>. DEFINE o == k + V * l
  <2>1. o \in Int /\ o + 1 <= D
    <3>1. V * l \in Int BY <1>1
    <3>2. k + V * l < D BY DEF k, l
    <3>. HIDE DEF k, l
    <3>. QED BY <1>1, <3>1, <3>2
  <2>2. E * (o + 1) <= E * D
    <3>1. o + 1 \in Int BY <2>1
    <3>. HIDE DEF o
    <3>. QED BY <1>1, <2>1, <3>1, TimesOrder
  <2>3. E * (o + 1) = E * k + E * (V * l) + E /\ E * D = P
    <3>1. V * l \in Int BY <1>1
    <3>. HIDE DEF k, l
    <3>2. \A i, j \in Int : E * (i + j + 1) = E * i + E * j + E OBVIOUS
    <3>. QED BY <1>1, <3>1, <3>2
  <2>4. E * k \in Int /\ E * (V * l) \in Int
    <3>1. V * l \in Int BY <1>1
    <3>. HIDE DEF k, l
    <3>. QED BY <1>1, <3>1
  <2>. DEFINE i == E * k
              j == E * (V * l)
              q == E * (o + 1)
              r == E * D
  <2>5. q <= r /\ q = i + j + E /\ r = P /\ i \in Int /\ j \in Int BY <2>2, <2>3, <2>4
  <2>. HIDE DEF i, j, q, r, P
  <2>6. i + j < P BY <1>1, <2>5
  <2>. QED BY <2>6 DEF i, j
<1>7. x < y + P /\ y < x + P
  <2>. DEFINE i == E * k
              j == E * (V * l)
  <2>1. i \in Int /\ j \in Int
    <3>1. V * l \in Int BY <1>1
    <3>. HIDE DEF k, l
    <3>. QED BY <1>1, <3>1
  <2>2. u <= i /\ -u <= i /\ v <= j /\ -v <= j /\ i + j < P BY <1>4, <1>5, <1>6
  <2>. HIDE DEF i, j, u, v, x, y, P
  <2>. QED BY <1>1, <1>2, <2>1, <2>2
<1>8. TruncatedQuotient(T, D) <= TruncatedQuotient(S, E) + 1
  BY <1>1, <1>7, QuotientAtMost
<1>9. TruncatedQuotient(S, E) <= TruncatedQuotient(T, D) + 1
  <2>1. S * D < T * E + E * D BY <1>1, <1>7
  <2>. QED BY <1>1, <2>1, QuotientAtMost
<1>10. TruncatedQuotient(T, D) \in Int /\ TruncatedQuotient(S, E) \in Int BY <1>1, QuotientIs
<1>. QED BY <1>8, <1>9, <1>10 DEF Distance

LEMMA ContextIsSound == ASSUME NEW V, ValuesFit(V), StreamInv(V) PROVE ContextSound
<1>. DEFINE query == stream_query
            n == Len(kept)
<1>1. /\ query \in Seq(Int) /\ V \in Nat /\ kept \in Seq(TokensFor(query, V))
      /\ n \in Nat /\ n <= MaxStream /\ MaxStream \in Nat
  BY StreamInputs DEF StreamInv, ValuesFit
<1>2. Context = OnlineAttention(query, kept)
  BY DEF Context, OnlineAttention, StreamInv
<1>3. ASSUME kept = <<>>, NEW i \in DOMAIN query PROVE Context[i] = 0
  <2>1. partial.maximum = <<>> BY <1>3 DEF StreamInv, NothingSeen
  <2>. QED BY <2>1 DEF Context
<1>4. ASSUME kept # <<>>, NEW i \in DOMAIN query
      PROVE  LET values == {kept[t].value[i] : t \in DOMAIN kept}
             IN  /\ Context[i] \in Min(values) .. Max(values)
                 /\ Distance(Context[i], TwoPass(i)) <= 1
  <2>1. PICK m \in Int, D \in Nat, T \in [DOMAIN query -> Int] :
          /\ partial = [maximum |-> <<m>>, denominator |-> D, total |-> T]
          /\ One <= D
          /\ \E t \in 1 .. n : Dot(query, kept[t].key) = m
          /\ Balanced(V, query, kept, m, D, T)
    BY <1>4 DEF StreamInv, Follows
  <2>2. Context[i] = TruncatedQuotient(T[i], D)
    <3>1. partial.maximum # <<>> /\ partial.denominator = D /\ partial.total = T BY <2>1
    <3>. QED BY <3>1 DEF Context
  <2>3. /\ Dominates(m, query, kept) /\ T[i] \in Int
        /\ Near(D, SumTo(Weights(query, kept, m), n), 1 + n)
        /\ Coordinate(V, query, kept, m, D, T, i)
    BY <2>1 DEF Balanced
  <2>. DEFINE f == SumTo(Weighted(query, kept, m, i), n)
              E == SumTo(Weights(query, kept, m), n)
              values == {kept[t].value[i] : t \in DOMAIN kept}
              q == Context[i]
  <2>4. 1 + V * n + V * (1 + n) < One /\ V + 1 < One
    <3>1. 1 + (2 * MaxStream + 1) * V < One BY DEF ValuesFit
    <3>2. \A x, y, v \in Nat : x <= y =>
            /\ v * (2 * x + 1) <= v * (2 * y + 1)
            /\ v <= v * (2 * x + 1)
            /\ v * (2 * x + 1) = v * x + v * (1 + x) /\ (2 * y + 1) * v = v * (2 * y + 1)
            /\ v * (2 * x + 1) \in Nat /\ v * (2 * y + 1) \in Nat
            /\ v * x \in Nat /\ v * (1 + x) \in Nat
      <4>. TAKE x, y, v \in Nat
      <4>1. HAVE x <= y
      <4>2. /\ v * (2 * x + 1) = v * x + v * (1 + x) /\ (2 * y + 1) * v = v * (2 * y + 1)
            /\ v * (2 * x + 1) \in Nat /\ v * (2 * y + 1) \in Nat
            /\ v * x \in Nat /\ v * (1 + x) \in Nat
        OBVIOUS
      <4>3. 2 * x + 1 <= 2 * y + 1 /\ 1 <= 2 * x + 1 /\ 2 * x + 1 \in Int /\ 2 * y + 1 \in Int
        BY <4>1
      <4>. DEFINE a == 2 * x + 1
                  b == 2 * y + 1
      <4>4. a \in Int /\ b \in Int /\ a <= b /\ 1 <= a BY <4>3
      <4>5. v * a <= v * b /\ v * 1 <= v * a
        <5>. HIDE DEF a, b
        <5>. QED BY <4>4, TimesOrder
      <4>6. v * 1 = v OBVIOUS
      <4>. QED BY <4>2, <4>5, <4>6
    <3>3. /\ V * (2 * n + 1) <= V * (2 * MaxStream + 1) /\ V <= V * (2 * n + 1)
          /\ V * (2 * n + 1) = V * n + V * (1 + n)
          /\ (2 * MaxStream + 1) * V = V * (2 * MaxStream + 1)
          /\ V * (2 * n + 1) \in Nat /\ V * (2 * MaxStream + 1) \in Nat
          /\ V * n \in Nat /\ V * (1 + n) \in Nat
      <4>. HIDE DEF n
      <4>. QED BY <1>1, <3>2
    <3>. DEFINE a == V * (2 * n + 1)
                b == V * (2 * MaxStream + 1)
                c == V * n
                d == V * (1 + n)
                e == (2 * MaxStream + 1) * V
    <3>4. /\ a <= b /\ V <= a /\ a = c + d /\ e = b /\ a \in Nat /\ b \in Nat /\ c \in Nat /\ d \in Nat
          /\ 1 + e < One
      BY <3>1, <3>3
    <3>5. One \in Int BY OneIs
    <3>. HIDE DEF a, b, c, d, e
    <3>6. 1 + c + d < One /\ V + 1 < One BY <1>1, <3>4, <3>5
    <3>. QED BY <3>6 DEF c, d
  <2>5. D \in Nat \ {0} /\ V + 1 < D /\ 1 + V * n + V * (1 + n) < D /\ V + 1 \in Nat
    <3>1. One \in Nat /\ 0 < One BY OneIs
    <3>2. V * n \in Int /\ V * (1 + n) \in Int
      <4>1. \A x, y \in Int : x * y \in Int OBVIOUS
      <4>2. V \in Int /\ n \in Int /\ 1 + n \in Int BY <1>1
      <4>. QED BY <4>1, <4>2
    <3>. DEFINE c == V * n
                d == V * (1 + n)
    <3>3. c \in Int /\ d \in Int /\ 1 + c + d < One /\ V + 1 < One BY <2>4, <3>2
    <3>. HIDE DEF c, d
    <3>4. D \in Nat \ {0} /\ V + 1 < D /\ 1 + c + d < D /\ V + 1 \in Nat
      BY <1>1, <2>1, <3>1, <3>3
    <3>. QED BY <3>4 DEF c, d
  <2>6. DOMAIN kept = 1 .. n /\ n # 0 BY <1>1, <1>4
  <2>7. values \in SUBSET (-V .. V) /\ values # {}
    <3>1. \A t \in 1 .. n : kept[t].value[i] \in -V .. V
      <4>. TAKE t \in 1 .. n
      <4>1. kept[t] \in TokensFor(query, V) BY <1>1
      <4>. QED BY <4>1 DEF TokensFor
    <3>2. 1 \in DOMAIN kept BY <1>1, <2>6
    <3>. QED BY <2>6, <3>1, <3>2
  <2>8. /\ Min(values) \in values /\ \A v \in values : Min(values) <= v
        /\ Max(values) \in values /\ \A v \in values : v <= Max(values)
    <3>. HIDE DEF values
    <3>. QED BY <1>1, <2>7, ExtremesAre
  <2>9. \A t \in 1 .. n : kept[t].value[i] \in values BY <2>6
  <2>10. Min(values) \in -V .. V /\ Max(values) \in -V .. V
    <3>. HIDE DEF values
    <3>. QED BY <2>7, <2>8
  <2>11. q \in Min(values) .. Max(values)
    <3>. DEFINE a == T[i]
                lo == Min(values)
                hi == Max(values)
    <3>1. Above(a, D, lo, V + 1) /\ Below(a, D, hi, V + 1)
      <4>1. \A t \in 1 .. n : lo <= kept[t].value[i] /\ kept[t].value[i] <= hi BY <2>8, <2>9
      <4>. HIDE DEF lo, hi, values
      <4>2. lo \in -V .. V /\ hi \in -V .. V BY <2>10 DEF lo, hi
      <4>. QED BY <2>3, <4>1, <4>2 DEF Coordinate
    <3>2. lo \in Int /\ hi \in Int /\ a \in Int /\ q = TruncatedQuotient(a, D)
      BY <1>1, <2>2, <2>3, <2>10
    <3>. HIDE DEF a, lo, hi, q, values
    <3>3. lo <= q /\ q <= hi BY <2>5, <3>1, <3>2, QuotientWithin
    <3>4. q \in Int BY <2>5, <3>2, QuotientIs
    <3>. QED BY <3>2, <3>3, <3>4 DEF lo, hi
  <2>12. TwoPass(i) = TruncatedQuotient(f, E) BY <1>1, <2>1, <2>3, TwoPassIs
  <2>13. /\ Weights(query, kept, m) \in [1 .. n -> Int]
         /\ \A t \in 1 .. n : 1 <= Weights(query, kept, m)[t]
         /\ Weighted(query, kept, m, i) \in [1 .. n -> Int]
    BY <1>1, <2>3, WeightsTyped
  <2>14. f \in Int /\ E \in Int
    <3>. HIDE DEF n
    <3>. QED BY <1>1, <2>13, SumToNext
  <2>15. E > 0
    <3>. HIDE DEF n
    <3>1. n <= E BY <1>1, <2>13, SumAtLeast
    <3>2. n > 0 BY <1>1, <2>6
    <3>. QED BY <1>1, <2>14, <3>1, <3>2
  <2>16. Near(T[i], f, 1 + V * n) /\ Near(D, E, 1 + n) BY <2>3 DEF Coordinate
  <2>17. Near(0, f, V * E) BY <1>1, <2>3, SumsWithin
  <2>18. Distance(q, TwoPass(i)) <= 1
    <3>. DEFINE a == T[i]
    <3>1. a \in Int /\ q = TruncatedQuotient(a, D) BY <2>2, <2>3
    <3>. HIDE DEF a, q, f, E, n
    <3>2. Distance(TruncatedQuotient(a, D), TruncatedQuotient(f, E)) <= 1
      BY <1>1, <2>5, <2>14, <2>15, <2>16, <2>17, QuotientsNear DEF a
    <3>. QED BY <2>12, <3>1, <3>2
  <2>. QED BY <2>11, <2>18
<1>. QED BY <1>2, <1>3, <1>4 DEF ContextSound

-----------------------------------------------------------------------------
(* Projections and norms *)

\* The lanes of a packed word are decoded as two's complement.
LEMMA LanesDecoded ==
  ASSUME NEW format \in {"int8", "int4"}, NEW zero_point \in Int, NEW raw \in Nat,
         raw < 2 ^ LaneBits[format]
  PROVE  /\ DecodeWeight(raw, format, zero_point) \in Int
         /\ DecodeWeight(raw, format, zero_point) + zero_point
              = SignedOf(raw, LaneBits[format])
<1>. DEFINE bits == LaneBits[format]
            whole == TwoTo(bits)
            half == TwoTo(bits - 1)
            n == IF raw >= half THEN raw - whole ELSE raw
<1>1. \/ bits = 8 /\ whole = 256 /\ half = 128
      \/ bits = 4 /\ whole = 16 /\ half = 8
  <2>1. CASE format = "int8"
    <3>1. bits = 8 /\ bits - 1 = 7 BY <2>1 DEF LaneBits
    <3>2. whole = TwoTo(8) /\ half = TwoTo(7) BY ONLY <3>1
    <3>. HIDE DEF whole, half, bits
    <3>3. whole = 256 /\ half = 128 BY ONLY <3>2, TwoTos
    <3>. QED BY ONLY <3>1, <3>3
  <2>2. CASE format = "int4"
    <3>1. bits = 4 /\ bits - 1 = 3 BY <2>2 DEF LaneBits
    <3>2. whole = TwoTo(4) /\ half = TwoTo(3) BY ONLY <3>1
    <3>. HIDE DEF whole, half, bits
    <3>. QED BY ONLY <3>1, <3>2, TwoTos
  <2>. QED BY <2>1, <2>2
<1>2. raw < whole BY DEF TwoTo
<1>3. DecodeWeight(raw, format, zero_point) = n - zero_point BY DEF DecodeWeight, TwoTo
<1>4. SignedOf(raw, bits) = CHOOSE k \in -half .. half - 1 : k % whole = raw
  BY DEF SignedOf, TwoTo
<1>. HIDE DEF bits, whole, half
<1>5. n \in -half .. half - 1 /\ n % whole = raw
  <2>1. CASE whole = 256 /\ half = 128 BY <1>2, <2>1
  <2>2. CASE whole = 16 /\ half = 8 BY <1>2, <2>2
  <2>. QED BY <1>1, <2>1, <2>2
<1>6. ASSUME NEW k \in -half .. half - 1, k % whole = raw PROVE k = n
  <2>1. CASE whole = 256 /\ half = 128 BY <1>2, <1>6, <2>1
  <2>2. CASE whole = 16 /\ half = 8 BY <1>2, <1>6, <2>2
  <2>. QED BY <1>1, <2>1, <2>2
<1>7. n \in Int BY <1>1
<1>. HIDE DEF n
<1>8. SignedOf(raw, bits) = n BY <1>4, <1>5, <1>6
<1>9. n - zero_point \in Int /\ (n - zero_point) + zero_point = n BY <1>7
<1>. QED BY <1>3, <1>8, <1>9 DEF bits

LEMMA RowsExact ==
  ASSUME NEW activation \in Seq(Int),
         NEW row \in [packed : Seq(Nat), format : {"int8", "int4"}, zero_point : Int,
                      scale : Int, bias : Int],
         Len(row.packed) = Len(activation),
         \A lane \in DOMAIN row.packed : row.packed[lane] < 2 ^ LaneBits[row.format],
         NEW mode \in {"bypass", "relu", "clamp_int8"}
  PROVE  RowExact(activation, row, mode)
<1>. DEFINE weights == DecodePackedWeights(row.packed, row.format, row.zero_point)
            exact == RowSum(activation, row) * row.scale
            out == QuantizedGemv(activation, <<row>>, mode)[1]
            full == QuantizedGemv(activation, <<row>>, "bypass")[1]
            before == BeforeSaturation(activation, row)
            sat == SaturateInt16(before)
            n == Len(activation)
<1>1. /\ n \in Nat /\ activation \in [1 .. n -> Int] /\ DOMAIN row.packed = 1 .. n
      /\ \A lane \in 1 .. n : row.packed[lane] \in Nat
      /\ row.format \in {"int8", "int4"} /\ row.zero_point \in Int /\ row.scale \in Int
      /\ row.bias \in Int
  OBVIOUS
<1>2. \A lane \in DOMAIN weights :
        /\ weights[lane] \in Int
        /\ weights[lane] + row.zero_point = SignedOf(row.packed[lane], LaneBits[row.format])
  BY <1>1, LanesDecoded DEF DecodePackedWeights
<1>3. DOMAIN weights = 1 .. n BY <1>1 DEF DecodePackedWeights
<1>4. weights \in [1 .. n -> Int] BY <1>1, <1>2, <1>3 DEF DecodePackedWeights
<1>5. RowSum(activation, row) \in Int
  <2>. HIDE DEF weights, n
  <2>1. Dot(activation, weights) \in Int BY <1>1, <1>4, DotIs
  <2>. QED BY <2>1 DEF RowSum, weights
<1>6. exact \in Int
  <2>1. \A x, y \in Int : x * y \in Int OBVIOUS
  <2>. QED BY <1>1, <1>5, <2>1
<1>7. before = RoundQ8_8(exact) + row.bias BY DEF BeforeSaturation
<1>8. /\ out = Activated(mode, sat) /\ full = Activated("bypass", sat)
      /\ (Saturated(activation, <<row>>)[1] <=> sat # before)
  <2>1. DOMAIN <<row>> = {1} /\ <<row>>[1] = row OBVIOUS
  <2>. DEFINE rows == <<row>>
  <2>. HIDE DEF rows
  <2>2. DOMAIN rows = {1} /\ rows[1] = row BY <2>1 DEF rows
  <2>3. /\ QuantizedGemv(activation, rows, mode)[1] = Activated(mode, sat)
        /\ QuantizedGemv(activation, rows, "bypass")[1] = Activated("bypass", sat)
    BY <2>2 DEF QuantizedGemv
  <2>4. Saturated(activation, rows)[1] <=> sat # before
    <3>. HIDE DEF sat, before
    <3>1. Saturated(activation, rows)[1] = (sat # before) BY <2>2 DEF Saturated, sat, before
    <3>. QED BY <3>1
  <2>. QED BY <2>3, <2>4 DEF rows
<1>. HIDE DEF weights, exact, before, sat, out, full
<1>9. Nearest(exact, RoundQ8_8(exact)) /\ RoundQ8_8(exact) \in Int
  <2>1. Nearest(exact, RoundQ8_8(exact)) BY <1>6, RoundsToNearest
  <2>2. RoundQ8_8(exact) \in Int BY <1>6 DEF RoundQ8_8
  <2>. QED BY <2>1, <2>2
<1>10. full = sat BY <1>8 DEF Activated
<1>11. before \in Int /\ before - row.bias = RoundQ8_8(exact) BY <1>1, <1>7, <1>9
<1>12. sat \in Int /\ (sat # before => sat \in {-32768, 32767})
  BY <1>11 DEF sat, SaturateInt16, Clamp, Least
<1>13. /\ mode = "relu" => out >= 0 /\ (full >= 0 => out = full)
       /\ mode = "clamp_int8" => out \in -128 .. 127 /\ (full \in -128 .. 127 => out = full)
  <2>1. ASSUME mode = "relu" PROVE out >= 0 /\ (full >= 0 => out = full)
    <3>1. out = IF sat < 0 THEN 0 ELSE sat BY <1>8, <2>1 DEF Activated
    <3>. QED BY <1>10, <1>12, <3>1
  <2>2. ASSUME mode = "clamp_int8"
        PROVE  out \in -128 .. 127 /\ (full \in -128 .. 127 => out = full)
    <3>1. out = Clamp(-128, 127, sat) BY <1>8, <2>2 DEF Activated
    <3>2. out = IF sat < -128 THEN -128 ELSE IF 127 <= sat THEN 127 ELSE sat
      BY <3>1 DEF Clamp, Least
    <3>3. sat \in Int /\ full = sat BY <1>10, <1>12
    <3>4. CASE sat < -128
      <4>1. out = -128 /\ ~ (full \in -128 .. 127) BY ONLY <3>2, <3>3, <3>4
      <4>2. -128 \in -128 .. 127 OBVIOUS
      <4>. QED BY ONLY <4>1, <4>2
    <3>5. CASE 127 <= sat
      <4>1. out = 127 /\ (full \in -128 .. 127 => full = 127) BY ONLY <3>2, <3>3, <3>5
      <4>2. 127 \in -128 .. 127 OBVIOUS
      <4>. QED BY ONLY <4>1, <4>2
    <3>6. CASE ~ (sat < -128) /\ ~ (127 <= sat)
      <4>1. out = full /\ full \in -128 .. 127 BY ONLY <3>2, <3>3, <3>6
      <4>. QED BY ONLY <4>1
    <3>. QED BY <3>4, <3>5, <3>6
  <2>. QED BY <2>1, <2>2
<1>14. sat = before => Nearest(exact, full - row.bias) BY <1>9, <1>10, <1>11
<1>15. sat # before => full \in {-32768, 32767} BY <1>10, <1>12
<1>16. /\ ~ Saturated(activation, <<row>>)[1] => Nearest(exact, full - row.bias)
       /\ Saturated(activation, <<row>>)[1] => full \in {-32768, 32767}
  BY <1>8, <1>14, <1>15
<1>. QED BY <1>2, <1>13, <1>16 DEF RowExact, weights, exact, out, full

LEMMA RootIs ==
  ASSUME NEW n \in Nat PROVE IntegerRoot(n) \in 0 .. n
<1>. DEFINE S == {r \in Nat : (r + 1) * (r + 1) > n}
<1>1. n \in S
  <2>1. (n + 1) * (n + 1) = n * n + n + (n + 1) /\ n * n \in Nat OBVIOUS
  <2>. DEFINE k == n * n
  <2>2. k \in Nat /\ (n + 1) * (n + 1) = k + n + (n + 1) BY <2>1
  <2>. HIDE DEF k
  <2>3. k + n + (n + 1) > n BY <2>2
  <2>. QED BY <2>2, <2>3
<1>2. PICK r \in S : \A k \in S : r <= k
  <2>1. S \in SUBSET Nat /\ S # {} BY <1>1
  <2>. HIDE DEF S
  <2>. QED BY <2>1, LeastNatural
<1>3. r \in 0 .. n BY <1>1, <1>2
<1>4. r * r <= n
  <2>1. CASE r = 0 BY <2>1
  <2>2. CASE r # 0
    <3>1. r - 1 \in Nat /\ (r - 1) + 1 = r /\ ~ (r <= r - 1) BY <1>3, <2>2
    <3>2. r - 1 \notin S BY <1>2, <3>1
    <3>3. ~ (r * r > n) BY <3>1, <3>2
    <3>4. r * r \in Int BY <1>3
    <3>. QED BY <3>3, <3>4
  <2>. QED BY <2>1, <2>2
<1>5. \E k \in 0 .. n : k * k <= n /\ (k + 1) * (k + 1) > n BY <1>2, <1>3, <1>4
<1>. QED BY <1>5 DEF IntegerRoot

\* What is left of a number of a sign, and of two numbers in order.
LEMMA QuotientKeeps ==
  ASSUME NEW x \in Int, NEW y \in Int, NEW D \in Nat \ {0}
  PROVE  /\ TruncatedQuotient(x, D) \in Int
         /\ x >= 0 => TruncatedQuotient(x, D) >= 0
         /\ x < 0 => TruncatedQuotient(x, D) <= 0
         /\ x <= y => TruncatedQuotient(x, D) <= TruncatedQuotient(y, D)
<1>. DEFINE q == TruncatedQuotient(x, D)
            s == TruncatedQuotient(y, D)
<1>1. /\ q \in Int /\ (x >= 0 => q >= 0 /\ q * D <= x) /\ (x < 0 => q <= 0 /\ q * D - D < x)
  BY QuotientIs
<1>2. /\ s \in Int /\ (y >= 0 => s >= 0 /\ y < s * D + D) /\ (y < 0 => s <= 0 /\ y <= s * D)
  BY QuotientIs
<1>. HIDE DEF q, s
<1>3. ASSUME x <= y PROVE q <= s
  <2>1. \A k, l \in Int : k * D < l * D + D => k <= l
    <3>. TAKE k, l \in Int
    <3>1. HAVE k * D < l * D + D
    <3>2. k * D = D * k /\ l * D = D * l /\ D * k \in Int /\ D * l \in Int OBVIOUS
    <3>3. D * k <= D * l + D - 1 BY <3>1, <3>2
    <3>. QED BY <3>3, TimesOrder
  <2>. DEFINE a == q * D
              b == s * D
  <2>2. a \in Int /\ b \in Int BY <1>1, <1>2
  <2>3. a < b + D => q <= s BY <1>1, <1>2, <2>1
  <2>4. /\ (x >= 0 => q >= 0 /\ a <= x) /\ (x < 0 => q <= 0 /\ a - D < x)
        /\ (y >= 0 => s >= 0 /\ y < b + D) /\ (y < 0 => s <= 0 /\ y <= b)
    BY <1>1, <1>2
  <2>. HIDE DEF a, b
  <2>5. CASE x >= 0 BY <1>3, <2>2, <2>3, <2>4, <2>5
  <2>6. CASE x < 0 /\ y >= 0 BY <1>1, <1>2, <2>4, <2>6
  <2>7. CASE y < 0 BY <1>3, <2>2, <2>3, <2>4, <2>7
  <2>. QED BY <2>5, <2>6, <2>7
<1>. QED BY <1>1, <1>3 DEF q, s

LEMMA NormsKeep ==
  ASSUME NEW values \in Seq(Int) \ {<<>>}, NEW gains \in Seq(Int), Len(values) = Len(gains)
  PROVE  NormKeeps(values, gains)
<1>. DEFINE n == Len(values)
            rms == RootMeanSquare(values, 0)
            out == IntegerRmsNorm(values, gains, 0)
<1>1. /\ n \in Nat \ {0} /\ values \in [1 .. n -> Int] /\ DOMAIN values = 1 .. n
      /\ \A i \in 1 .. n : values[i] \in Int /\ gains[i] \in Int
  OBVIOUS
<1>2. rms \in Nat
  <2>. DEFINE S == 1 .. n
              f == [i \in S |-> values[i] * values[i]]
              F == Summed(f, S)[S]
  <2>1. Dot(values, values) = F /\ F \in Int
    <3>1. Dot(values, values) = SumTo(f, n) /\ Dot(values, values) \in Int BY <1>1, DotIs
    <3>. QED BY <3>1 DEF SumTo
  <2>2. f \in [S -> Int] /\ IsFiniteSet(S)
    <3>1. \A x \in Int : x * x \in Int OBVIOUS
    <3>2. \A i \in S : values[i] * values[i] \in Int BY <1>1, <3>1
    <3>3. IsFiniteSet(S) BY <1>1, FS_Interval
    <3>. QED BY <3>2, <3>3
  <2>3. TimesAtMost(S, f, f, 0)
    <3>1. \A x \in Int : 0 * (x * x) <= x * x
      <4>. TAKE x \in Int
      <4>1. x * x >= 0 /\ x * x \in Int
        <5>1. CASE x >= 0
          <6>1. \A k \in Nat : k * k >= 0 /\ k * k \in Int OBVIOUS
          <6>. QED BY <5>1, <6>1
        <5>2. CASE x < 0
          <6>1. \A k \in Nat : (-k) * (-k) = k * k /\ k * k >= 0 /\ k * k \in Int OBVIOUS
          <6>2. -x \in Nat /\ -(-x) = x BY <5>2
          <6>. QED BY <6>1, <6>2
        <5>. QED BY <5>1, <5>2
      <4>. DEFINE k == x * x
      <4>2. k \in Int /\ k >= 0 BY <4>1
      <4>. HIDE DEF k
      <4>3. 0 * k <= k BY <4>2
      <4>. QED BY <4>3 DEF k
    <3>2. \A i \in S : f[i] = values[i] * values[i] /\ values[i] \in Int BY <1>1
    <3>. HIDE DEF f, S
    <3>. QED BY <3>1, <3>2 DEF TimesAtMost
  <2>4. 0 * F <= F
    <3>1. 0 \in Int OBVIOUS
    <3>. HIDE DEF f, S
    <3>. QED BY <2>2, <2>3, <3>1, SumOrder, Zenon
  <2>. HIDE DEF F
  <2>5. F \in Nat BY <2>1, <2>4
  <2>6. F \div n \in Nat BY <1>1, <2>5, Divided
  <2>7. F \div n + 0 = F \div n BY <2>6
  <2>8. rms = IntegerRoot(F \div n) BY <2>1, <2>7 DEF RootMeanSquare
  <2>. QED BY <2>6, <2>8, RootIs
<1>. DEFINE x(i) == values[i] * gains[i]
            q(i) == TruncatedQuotient(x(i), rms)
<1>3. \A i \in 1 .. n : out[i] = IF rms = 0 THEN 0 ELSE SaturateInt16(q(i))
  BY <1>1 DEF IntegerRmsNorm
<1>4. \A i \in 1 .. n : x(i) \in Int
  <2>1. \A a, b \in Int : a * b \in Int OBVIOUS
  <2>. QED BY <1>1, <2>1
<1>. HIDE DEF rms, out, x, n
<1>5. ASSUME NEW i \in 1 .. n PROVE out[i] \in Int /\ (x(i) >= 0 => out[i] >= 0)
                                    /\ (x(i) < 0 => out[i] <= 0)
  <2>1. CASE rms = 0 BY <1>3, <2>1
  <2>2. CASE rms # 0
    <3>1. rms \in Nat \ {0} BY <1>2, <2>2
    <3>. DEFINE k == q(i)
    <3>2. k \in Int /\ (x(i) >= 0 => k >= 0) /\ (x(i) < 0 => k <= 0)
      BY <1>4, <3>1, QuotientKeeps
    <3>3. out[i] = SaturateInt16(k) BY <1>3, <2>2
    <3>. HIDE DEF k
    <3>. QED BY <1>4, <3>2, <3>3 DEF SaturateInt16, Clamp, Least
  <2>. QED BY <2>1, <2>2
<1>6. ASSUME NEW i \in 1 .. n PROVE out[i] * values[i] * gains[i] >= 0
  <2>1. \A a, b, c \in Int : a * b * c = a * (b * c) OBVIOUS
  <2>2. out[i] * values[i] * gains[i] = out[i] * x(i) BY <1>1, <1>5, <2>1 DEF x
  <2>3. \A a, b \in Int : (b >= 0 => a >= 0) /\ (b < 0 => a <= 0) => a * b >= 0
    <3>. TAKE a, b \in Int
    <3>1. HAVE (b >= 0 => a >= 0) /\ (b < 0 => a <= 0)
    <3>2. CASE b >= 0
      <4>1. a \in Nat /\ b \in Nat BY <3>1, <3>2
      <4>2. \A k, l \in Nat : k * l >= 0 OBVIOUS
      <4>. QED BY <4>1, <4>2
    <3>3. CASE b < 0
      <4>1. -a \in Nat /\ -b \in Nat BY <3>1, <3>3
      <4>2. \A k, l \in Nat : k * l >= 0 OBVIOUS
      <4>3. (-a) * (-b) = a * b OBVIOUS
      <4>. QED BY <4>1, <4>2, <4>3
    <3>. QED BY <3>2, <3>3
  <2>. QED BY <1>4, <1>5, <2>2, <2>3
<1>7. ASSUME NEW i \in 1 .. n, NEW j \in 1 .. n, gains[i] = gains[j], gains[i] > 0,
             values[i] <= values[j]
      PROVE  out[i] <= out[j]
  <2>1. x(i) <= x(j)
    <3>. DEFINE g == gains[i]
                a == values[i]
                b == values[j]
    <3>1. g \in Nat /\ a \in Int /\ b \in Int /\ a <= b /\ gains[j] = g BY <1>1, <1>7
    <3>2. x(i) = a * g /\ x(j) = b * g BY <1>7 DEF x
    <3>. HIDE DEF g, a, b
    <3>3. g * a <= g * b BY <3>1, TimesOrder
    <3>4. g * a = a * g /\ g * b = b * g BY <3>1
    <3>. QED BY <3>2, <3>3, <3>4
  <2>2. CASE rms = 0 BY <1>3, <2>2
  <2>3. CASE rms # 0
    <3>1. rms \in Nat \ {0} BY <1>2, <2>3
    <3>. DEFINE k == q(i)
                l == q(j)
    <3>2. k \in Int /\ l \in Int /\ k <= l BY <1>4, <2>1, <3>1, QuotientKeeps
    <3>3. out[i] = SaturateInt16(k) /\ out[j] = SaturateInt16(l) BY <1>3, <2>3
    <3>. HIDE DEF k, l
    <3>. QED BY <3>2, <3>3 DEF SaturateInt16, Clamp, Least
  <2>. QED BY <2>2, <2>3
<1>8. ASSUME NEW i \in 1 .. n, rms = 0 PROVE out[i] = 0 BY <1>3, <1>8
<1>9. DOMAIN values = 1 .. n BY <1>1
<1>. QED BY <1>6, <1>7, <1>8, <1>9 DEF NormKeeps, rms, out

LEMMA ProjectionsSound == ProjectionSound
<1>1. /\ \A p \in Projections :
           /\ p.activation \in Seq(Int)
           /\ p.row \in [packed : Seq(Nat), format : {"int8", "int4"}, zero_point : Int,
                         scale : Int, bias : Int]
           /\ Len(p.row.packed) = Len(p.activation)
           /\ \A lane \in DOMAIN p.row.packed : p.row.packed[lane] < 2 ^ LaneBits[p.row.format]
      /\ Modes \subseteq {"bypass", "relu", "clamp_int8"}
      /\ Normalised \subseteq [values : Seq(Int) \ {<<>>}, gains : Seq(Int)]
      /\ \A n \in Normalised : Len(n.values) = Len(n.gains)
      /\ Products \subseteq Int
  BY GoldenAssumption DEF InputsChecked
<1>2. ASSUME NEW product \in Products PROVE Nearest(product, RoundQ8_8(product))
  BY <1>1, RoundsToNearest
<1>3. ASSUME NEW p \in Projections, NEW mode \in Modes
      PROVE  RowExact(p.activation, p.row, mode)
  <2>. DEFINE activation == p.activation
              row == p.row
  <2>1. /\ activation \in Seq(Int)
        /\ row \in [packed : Seq(Nat), format : {"int8", "int4"}, zero_point : Int,
                    scale : Int, bias : Int]
        /\ Len(row.packed) = Len(activation)
        /\ \A lane \in DOMAIN row.packed : row.packed[lane] < 2 ^ LaneBits[row.format]
        /\ mode \in {"bypass", "relu", "clamp_int8"}
    BY <1>1
  <2>. HIDE DEF activation, row
  <2>2. RowExact(activation, row, mode) BY <2>1, RowsExact
  <2>. QED BY <2>2 DEF activation, row
<1>4. ASSUME NEW n \in Normalised PROVE NormKeeps(n.values, n.gains)
  <2>1. n.values \in Seq(Int) \ {<<>>} /\ n.gains \in Seq(Int) /\ Len(n.values) = Len(n.gains)
    BY <1>1
  <2>. QED BY <2>1, NormsKeep
<1>. QED BY <1>2, <1>3, <1>4 DEF ProjectionSound

LEMMA StreamInvariance == ASSUME NEW V, ValuesFit(V) PROVE StreamSpec => []StreamInv(V)
<1>1. StreamInit => StreamInv(V) BY StreamStarts
<1>2. StreamInv(V) /\ [StreamNext]_streamVars => StreamInv(V)' BY StreamStep
<1>. QED BY <1>1, <1>2, PTL DEF StreamSpec

\* Where the values are small and the tokens few enough for the sums, in whatever
\* order the scores rise and fall, the streaming attention never leaves the range of
\* the kept values and is within one of the weighting that knows the largest score
\* beforehand; projections and norms are exact of any length and any numbers
\* (rtl_online_attention, quantized_gemv, integer_rms_norm).
THEOREM ArithmeticIsSound ==
  ASSUME NEW V, ValuesFit(V) PROVE StreamSpec => []ArithmeticSound
<1>1. StreamInv(V) => ArithmeticSound
  BY ContextIsSound, ProjectionsSound DEF ArithmeticSound
<1>. QED BY <1>1, StreamInvariance, PTL

=============================================================================

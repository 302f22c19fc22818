--------------------------- MODULE GoldenReference ---------------------------
(***************************************************************************)
(* The golden arithmetic at work: an attention that is given its tokens    *)
(* one at a time, and projections and normalisations of single vectors.    *)
(***************************************************************************)
EXTENDS GoldenArithmetic

CONSTANTS
  Queries,
  StreamTokens,   \* the tokens a stream may hold, as [key, value]
  MaxStream,      \* bound: tokens kept of a stream
  Projections,    \* inputs of quantized_gemv: [activation, row]
  Modes,          \* activation modes
  Normalised,     \* inputs of integer_rms_norm: [values, gains]
  Products        \* inputs of round_q8_8

\* The lengths and widths that rtl_online_attention, quantized_gemv and
\* integer_rms_norm check or unpack.
InputsChecked ==
  /\ Queries \subseteq Seq(Int) \ {<<>>} /\ MaxStream \in Nat
  /\ StreamTokens \subseteq [key : Seq(Int), value : Seq(Int)]
  /\ \A query \in Queries, token \in StreamTokens :
       Len(token.key) = Len(query) /\ Len(token.value) = Len(query)
  /\ \A p \in Projections :
       /\ p.activation \in Seq(Int)
       /\ p.row \in [packed : Seq(Nat), format : {"int8", "int4"}, zero_point : Int,
                     scale : Int, bias : Int]
       /\ Len(p.row.packed) = Len(p.activation)
       /\ \A lane \in DOMAIN p.row.packed : p.row.packed[lane] < 2 ^ LaneBits[p.row.format]
  /\ Modes \subseteq {"bypass", "relu", "clamp_int8"}
  /\ Normalised \subseteq [values : Seq(Int) \ {<<>>}, gains : Seq(Int)]
  /\ \A n \in Normalised : Len(n.values) = Len(n.gains)
  /\ Products \subseteq Int

ASSUME GoldenAssumption == InputsChecked

VARIABLES
  stream_query,   \* <<>> before the first token
  partial,   \* the maximum, the denominator and the sums so far
  kept       \* history: the tokens that the mask kept

streamVars == <<stream_query, partial, kept>>

StreamInit ==
  /\ stream_query = <<>>
  /\ partial = NothingSeen(<<>>)
  /\ kept = <<>>

BeginStream(query) ==
  /\ stream_query = <<>>
  /\ stream_query' = query
  /\ partial' = NothingSeen(query)
  /\ UNCHANGED kept

\* A masked token is passed over: only a kept one is a step.
KeepToken(token) ==
  /\ stream_query # <<>>
  /\ Len(kept) < MaxStream
  /\ partial' = OnlineStep(partial, Dot(stream_query, token.key), token.value)
  /\ kept' = Append(kept, token)
  /\ UNCHANGED stream_query

StreamNext ==
  \/ \E query \in Queries : BeginStream(query)
  \/ \E token \in StreamTokens : KeepToken(token)

Context ==
  IF partial.maximum = <<>> THEN [i \in DOMAIN stream_query |-> 0]
  ELSE [i \in DOMAIN stream_query |->
          TruncatedQuotient(partial.total[i], partial.denominator)]

-----------------------------------------------------------------------------

\* The weighting in two passes: the largest score is known beforehand.
ScoreOf(t) == Dot(stream_query, kept[t].key)
WeightOf(t) == Faded(One, Max({ScoreOf(u) : u \in DOMAIN kept}) - ScoreOf(t))
TwoPass(i) ==
  TruncatedQuotient(
    MapThenSumSet(LAMBDA t : WeightOf(t) * kept[t].value[i], DOMAIN kept),
    MapThenSumSet(WeightOf, DOMAIN kept))

Distance(m, n) == IF m <= n THEN n - m ELSE m - n

\* The nearest multiple, a tie away from zero.
Nearest(product, rounded) ==
  LET error == Distance(256 * rounded, product)
  IN  \/ error < 128
      \/ error = 128 /\ Distance(256 * rounded, 0) > Distance(product, 0)

\* The signed number of so many bits that has this pattern.
SignedOf(raw, bits) ==
  CHOOSE n \in -(2 ^ (bits - 1)) .. 2 ^ (bits - 1) - 1 : n % (2 ^ bits) = raw

RowExact(activation, row, mode) ==
  LET weights == DecodePackedWeights(row.packed, row.format, row.zero_point)
      exact == RowSum(activation, row) * row.scale
      out == QuantizedGemv(activation, <<row>>, mode)[1]
      full == QuantizedGemv(activation, <<row>>, "bypass")[1]
  IN  /\ \A lane \in DOMAIN weights :
           weights[lane] + row.zero_point
             = SignedOf(row.packed[lane], LaneBits[row.format])
      /\ ~Saturated(activation, <<row>>)[1] => Nearest(exact, full - row.bias)
      /\ Saturated(activation, <<row>>)[1] => full \in {-32768, 32767}
      /\ mode = "relu" => out >= 0 /\ (full >= 0 => out = full)
      /\ mode = "clamp_int8" => out \in -128 .. 127
                                  /\ (full \in -128 .. 127 => out = full)

\* A normalised vector keeps signs and, under one gain, the order.
NormKeeps(values, gains) ==
  LET out == IntegerRmsNorm(values, gains, 0)
  IN  \A i, j \in DOMAIN values :
        /\ out[i] * values[i] * gains[i] >= 0
        /\ gains[i] = gains[j] /\ gains[i] > 0 /\ values[i] <= values[j]
             => out[i] <= out[j]
        /\ RootMeanSquare(values, 0) = 0 => out[i] = 0

\* The context is that of the reference; it never leaves the range of the kept
\* values, and is within one of the weighting in two passes.
ContextSound ==
  /\ Context = OnlineAttention(stream_query, kept)
  /\ \A i \in DOMAIN stream_query :
       IF kept = <<>> THEN Context[i] = 0
       ELSE LET values == {kept[t].value[i] : t \in DOMAIN kept}
            IN  /\ Context[i] \in Min(values) .. Max(values)
                /\ Distance(Context[i], TwoPass(i)) <= 1

ProjectionSound ==
  /\ \A product \in Products : Nearest(product, RoundQ8_8(product))
  /\ \A p \in Projections, mode \in Modes : RowExact(p.activation, p.row, mode)
  /\ \A n \in Normalised : NormKeeps(n.values, n.gains)

\* In whatever order the scores rise and fall, the streaming attention is what is
\* left of the kept values, as if the largest score were known beforehand.
\* Weights are decoded as two's complement, products are rounded to the nearest
\* with ties away from zero and saturate only when they do not fit, and the
\* activation and the norm leave the order of numbers alone
\* (rtl_online_attention, quantized_gemv, round_q8_8, integer_rms_norm).
ArithmeticSound ==
  /\ ContextSound
  /\ stream_query # <<>> /\ kept = <<>> => ProjectionSound

=============================================================================

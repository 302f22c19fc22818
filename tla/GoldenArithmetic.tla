-------------------------- MODULE GoldenArithmetic --------------------------
(***************************************************************************)
(* The integer arithmetic of dv/golden: streaming attention with power of  *)
(* two weights, and the four-row matrix-vector product with its scaling,   *)
(* rounding and saturation.                                                *)
(*                                                                         *)
(* A vector is a sequence, a packed word the sequence of its lanes.  The   *)
(* weights are powers of two, so that a multiplication by one of them and  *)
(* a shift back is a single shift.                                         *)
(***************************************************************************)
EXTENDS Integers, Sequences, SequencesExt, FiniteSetsExt

Dot(u, v) == MapThenSumSet(LAMBDA i : u[i] * v[i], DOMAIN u)

Least(m, n) == IF m <= n THEN m ELSE n
Clamp(low, high, n) == IF n < low THEN low ELSE Least(high, n)

\* int(total / denominator): towards zero.
TruncatedQuotient(total, denominator) ==
  IF total >= 0 THEN total \div denominator ELSE -((-total) \div denominator)

-----------------------------------------------------------------------------
(* rtl_online_attention *)

WEIGHT_BITS == 16
One == 2 ^ (WEIGHT_BITS - 1)

\* A weight is 2^-d with d at most 15: the shift it stands for.
Shift(distance) == Least(distance, WEIGHT_BITS - 1)
Faded(n, distance) == n \div (2 ^ Shift(distance))

NothingSeen(query) ==
  [maximum |-> <<>>, denominator |-> 0, total |-> [i \in DOMAIN query |-> 0]]

FirstToken(score, value) ==
  [maximum |-> <<score>>, denominator |-> One,
   total |-> [i \in DOMAIN value |-> value[i] * One]]

\* Mutant: the denominator is not scaled down with the sums.
NewMaximumKeepsDenominator(run, score, value) ==
  [maximum |-> <<score>>,
   denominator |-> run.denominator + One,
   total |-> [i \in DOMAIN value |->
                Faded(run.total[i], score - run.maximum[1]) + value[i] * One]]

\* The sums so far are scaled down to the new maximum.
NewMaximum(run, score, value) ==
  LET rise == score - run.maximum[1]
  IN  [maximum |-> <<score>>,
       denominator |-> Faded(run.denominator, rise) + One,
       total |-> [i \in DOMAIN value |-> Faded(run.total[i], rise) + value[i] * One]]

LesserScore(run, score, value) ==
  LET weight == Faded(One, run.maximum[1] - score)
  IN  [run EXCEPT !.denominator = @ + weight,
                  !.total = [i \in DOMAIN value |-> @[i] + value[i] * weight]]

OnlineStep(run, score, value) ==
  IF run.maximum = <<>> THEN FirstToken(score, value)
  ELSE IF score > run.maximum[1] THEN NewMaximum(run, score, value)
  ELSE LesserScore(run, score, value)

\* tokens are those that the mask keeps, as [key, value].
OnlineRun(query, tokens) ==
  LET run[t \in 0 .. Len(tokens)] ==
        IF t = 0 THEN NothingSeen(query)
        ELSE OnlineStep(run[t - 1], Dot(query, tokens[t].key), tokens[t].value)
  IN  run[Len(tokens)]

OnlineAttention(query, tokens) ==
  LET run == OnlineRun(query, tokens)
  IN  IF run.maximum = <<>> THEN [i \in DOMAIN query |-> 0]
      ELSE [i \in DOMAIN query |-> TruncatedQuotient(run.total[i], run.denominator)]

-----------------------------------------------------------------------------
(* quantized_gemv *)

LaneBits == [int8 |-> 8, int4 |-> 4]

DecodeWeight(raw, format, zero_point) ==
  (IF raw >= 2 ^ (LaneBits[format] - 1) THEN raw - 2 ^ LaneBits[format] ELSE raw)
    - zero_point

DecodePackedWeights(packed, format, zero_point) ==
  [lane \in DOMAIN packed |-> DecodeWeight(packed[lane], format, zero_point)]

\* To the nearest, with ties away from zero; \div rounds down.
RoundQ8_8(product) == (product + (IF product >= 0 THEN 128 ELSE 127)) \div 256

SaturateInt16(n) == Clamp(-32768, 32767, n)

Activated(mode, n) ==
  CASE mode = "relu" -> IF n < 0 THEN 0 ELSE n
    [] mode = "clamp_int8" -> Clamp(-128, 127, n)
    [] OTHER -> n

RowSum(activation, row) ==
  Dot(activation, DecodePackedWeights(row.packed, row.format, row.zero_point))

BeforeSaturation(activation, row) ==
  RoundQ8_8(RowSum(activation, row) * row.scale) + row.bias

\* A row is [packed, format, zero_point, scale, bias].
QuantizedGemv(activation, rows, mode) ==
  [r \in DOMAIN rows |->
     Activated(mode, SaturateInt16(BeforeSaturation(activation, rows[r])))]

Saturated(activation, rows) ==
  [r \in DOMAIN rows |->
     SaturateInt16(BeforeSaturation(activation, rows[r]))
       # BeforeSaturation(activation, rows[r])]

-----------------------------------------------------------------------------
(* integer_rms_norm *)

IntegerRoot(n) == CHOOSE r \in 0 .. n : r * r <= n /\ (r + 1) * (r + 1) > n

RootMeanSquare(values, epsilon) ==
  IntegerRoot(Dot(values, values) \div Len(values) + epsilon)

IntegerRmsNorm(values, gains, epsilon) ==
  LET rms == RootMeanSquare(values, epsilon)
  IN  [i \in DOMAIN values |->
         IF rms = 0 THEN 0
         ELSE SaturateInt16(TruncatedQuotient(values[i] * gains[i], rms))]

=============================================================================

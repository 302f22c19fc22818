----------------------------- MODULE TensorArray -----------------------------
(***************************************************************************)
(* The tensor array (rtl/tensor/rcif_tensor_array.sv) with its weight      *)
(* decoder, MAC tile, scaling, activation, result bank and norm unit.      *)
(*                                                                         *)
(* One step is one clock edge on which something changes, or a reset.  Rows *)
(* and lanes are numbered from one; a packed word is the sequence of its   *)
(* lanes.                                                                  *)
(***************************************************************************)
EXTENDS GoldenArithmetic

CONSTANTS
  LANES, OUT_W,
  WeightRows,     \* [packed, format, zero_point, scale, bias, norm_gain]
  ArrayJobs       \* [activation, mode, norm_enable, epsilon]

Formats == {"int8", "int4", "reserved"}
ActivationModes == {"bypass", "relu", "clamp_int8", "reserved"}
Lane == 1 .. LANES

ASSUME ArrayAssumption == LANES \in Nat \ {0} /\ OUT_W \in 9 .. 16

\* The ports: a weight is a byte of its row, epsilon has sixteen bits.
ASSUME PortAssumption ==
  /\ WeightRows \subseteq
       [packed : [Lane -> 0 .. 255], format : Formats, zero_point : Int, scale : Int,
        bias : Int, norm_gain : Int]
  /\ ArrayJobs \subseteq
       [activation : [Lane -> Int], mode : ActivationModes, norm_enable : BOOLEAN,
        epsilon : 0 .. 2 ^ 16 - 1]

MAX_VALUE == 2 ^ (OUT_W - 1) - 1
MIN_VALUE == -(2 ^ (OUT_W - 1))

VARIABLES
  array,          \* state_q
  weight_rows, weight_valid,
  job,            \* the registers of a request
  row,
  bank,           \* the accumulator bank
  saturated,      \* the rows whose bit is set
  config_error,
  norm            \* the response register of the norm unit; <<>> while not valid

arrayVars == <<array, weight_rows, weight_valid, job, row, bank, saturated,
               config_error, norm>>

ZeroRow ==
  [packed |-> [lane \in Lane |-> 0], format |-> "int8", zero_point |-> 0, scale |-> 0,
   bias |-> 0, norm_gain |-> 256]
NoJob ==
  [activation |-> [lane \in Lane |-> 0], mode |-> "bypass", norm_enable |-> FALSE,
   epsilon |-> 0]
ZeroBank == [i \in Lane |-> 0]

-----------------------------------------------------------------------------
(* One row *)

Decoded(r) ==
  IF r.format = "reserved" THEN ZeroBank
  ELSE LET half == 2 ^ (LaneBits[r.format] - 1)
       IN  [lane \in Lane |->
              (IF r.packed[lane] >= half THEN r.packed[lane] - 2 * half
               ELSE r.packed[lane]) - r.zero_point]

MacTile(r) == Dot(job.activation, Decoded(r))

\* The arithmetic shift rounds down.
ScaleApply(r) ==
  LET product == MacTile(r) * r.scale
  IN  (product + (IF product >= 0 THEN 128 ELSE 127)) \div 256 + r.bias

OutOfRange(n) == n \notin MIN_VALUE .. MAX_VALUE
Saturate(n) == Clamp(MIN_VALUE, MAX_VALUE, n)

Activate(n) ==
  CASE job.mode = "bypass" -> n
    [] job.mode = "relu" -> IF n < 0 THEN 0 ELSE n
    [] job.mode = "clamp_int8" -> Clamp(-128, 127, n)
    [] job.mode = "reserved" -> 0

-----------------------------------------------------------------------------
(* The norm unit *)

\* In a sum with the unsigned sum_square an operand is unsigned, and extended
\* with zeros.
Unsigned(n) == n % 2 ^ OUT_W
SumSquare(values) ==
  MapThenSumSet(LAMBDA i : Unsigned(values[i]) * Unsigned(values[i]), Lane)

\* From the sixteenth bit down, a bit is set unless the square gets too large.
SetBit(n, root, bit) == IF (root + bit) * (root + bit) <= n THEN root + bit ELSE root
IntegerSqrt(n) ==
  LET refine[bits \in 0 .. 16] ==
        [root \in Nat |-> IF bits = 0 THEN root
                          ELSE refine[bits - 1][SetBit(n, root, 2 ^ (bits - 1))]]
  IN  refine[16][0]

Rms(values) == IntegerSqrt(SumSquare(values) \div LANES + job.epsilon)

Normalized(i) ==
  IF Rms(bank) = 0 THEN 0
  ELSE TruncatedQuotient(bank[i] * weight_rows[i].norm_gain, Rms(bank))

NormResponse ==
  [values |-> [i \in Lane |-> Saturate(Normalized(i))],
   saturated |-> {i \in Lane : OutOfRange(Normalized(i))}]

-----------------------------------------------------------------------------
(* Clock edges *)

\* A row can be written, and a request refused meanwhile, only when idle.
WriteWeights(i, r) ==
  /\ array = "IDLE"
  /\ weight_rows' = [weight_rows EXCEPT ![i] = r]
  /\ weight_valid' = weight_valid \union {i}
  /\ UNCHANGED <<array, job, row, bank, saturated, config_error, norm>>

RequestValid(j) ==
  /\ weight_valid = Lane
  /\ \A i \in Lane : weight_rows[i].format # "reserved"
  /\ j.mode # "reserved"

\* Mutant: the saturation bits of the request before stay.
AcceptJobKeepsBits(j) ==
  /\ array = "IDLE"
  /\ job' = [j EXCEPT !.norm_enable = @ /\ RequestValid(j)]
  /\ row' = 1 /\ bank' = ZeroBank
  /\ config_error' = ~ RequestValid(j)
  /\ array' = IF RequestValid(j) THEN "RUN" ELSE "RESPOND"
  /\ UNCHANGED <<weight_rows, weight_valid, norm, saturated>>

AcceptJob(j) ==
  /\ array = "IDLE"
  /\ job' = [j EXCEPT !.norm_enable = @ /\ RequestValid(j)]
  /\ row' = 1 /\ bank' = ZeroBank /\ saturated' = {}
  /\ config_error' = ~ RequestValid(j)
  /\ array' = IF RequestValid(j) THEN "RUN" ELSE "RESPOND"
  /\ UNCHANGED <<weight_rows, weight_valid, norm>>

RunRow ==
  LET value == ScaleApply(weight_rows[row])
  IN  /\ array = "RUN"
      /\ bank' = [bank EXCEPT ![row] = Activate(Saturate(value))]
      /\ saturated' = IF OutOfRange(value) THEN saturated \union {row} ELSE saturated
      /\ config_error' = (config_error \/ weight_rows[row].format = "reserved"
                                       \/ job.mode = "reserved")
      /\ IF row = LANES THEN array' = "POST" /\ UNCHANGED row
         ELSE row' = row + 1 /\ UNCHANGED array
      /\ UNCHANGED <<weight_rows, weight_valid, job, norm>>

SkipNorm ==
  /\ array = "POST" /\ ~ job.norm_enable
  /\ array' = "RESPOND"
  /\ UNCHANGED <<weight_rows, weight_valid, job, row, bank, saturated, config_error, norm>>

\* The norm unit is ready while its register is free.
StartNorm ==
  /\ array = "POST" /\ job.norm_enable /\ norm = <<>>
  /\ norm' = <<NormResponse>>
  /\ array' = "WAIT_NORM"
  /\ UNCHANGED <<weight_rows, weight_valid, job, row, bank, saturated, config_error>>

ArrayRspValid ==
  \/ array = "RESPOND" /\ ~ job.norm_enable
  \/ array = "WAIT_NORM" /\ norm # <<>>

\* In RESPOND the engine leaves without a look at its own valid.
TakeResult ==
  /\ array = "RESPOND" \/ (array = "WAIT_NORM" /\ norm # <<>>)
  /\ array' = "IDLE"
  /\ norm' = IF array = "WAIT_NORM" THEN <<>> ELSE norm
  /\ UNCHANGED <<weight_rows, weight_valid, job, row, bank, saturated, config_error>>

ArrayInit ==
  /\ array = "IDLE" /\ row = 1 /\ config_error = FALSE
  /\ weight_rows = [i \in Lane |-> ZeroRow] /\ weight_valid = {}
  /\ job = NoJob /\ bank = ZeroBank /\ saturated = {} /\ norm = <<>>

ArrayReset ==
  /\ array' = "IDLE" /\ row' = 1 /\ config_error' = FALSE
  /\ weight_rows' = [i \in Lane |-> ZeroRow] /\ weight_valid' = {}
  /\ job' = NoJob /\ bank' = ZeroBank /\ saturated' = {} /\ norm' = <<>>

Compute == RunRow \/ SkipNorm \/ StartNorm

ArrayNext ==
  \/ \E i \in Lane, r \in WeightRows : WriteWeights(i, r)
  \/ \E j \in ArrayJobs : AcceptJob(j)
  \/ Compute
  \/ TakeResult
  \/ ArrayReset

ArraySpec == ArrayInit /\ [][ArrayNext]_arrayVars /\ WF_arrayVars(Compute)

-----------------------------------------------------------------------------
(* Properties *)

RspResult == IF job.norm_enable THEN norm[1].values ELSE bank
RspSaturated ==
  saturated \union (IF job.norm_enable THEN norm[1].saturated ELSE {})

\* What tensor_ref.py computes, in words of OUT_W bits.
Projected ==
  [i \in Lane |-> Activated(job.mode, Saturate(BeforeSaturation(job.activation, weight_rows[i])))]
ProjectionSaturates ==
  {i \in Lane : OutOfRange(BeforeSaturation(job.activation, weight_rows[i]))}
NormBeforeSaturation ==
  LET rms == RootMeanSquare(Projected, job.epsilon)
  IN  [i \in Lane |-> IF rms = 0 THEN 0
                      ELSE TruncatedQuotient(Projected[i] * weight_rows[i].norm_gain, rms)]

AsProjected == RspResult = Projected /\ RspSaturated = ProjectionSaturates
AsNormed ==
  /\ RspResult = [i \in Lane |-> Saturate(NormBeforeSaturation[i])]
  /\ RspSaturated =
       ProjectionSaturates \union {i \in Lane : OutOfRange(NormBeforeSaturation[i])}

\* Whatever was asked before and however the rows were written, an answer is the
\* reference's for this request and the rows as they are: each row's result in
\* its place, each saturation bit its row's, and for a request the array cannot
\* run an error with nothing else set.  (With a norm, of values that are not
\* negative: see NormExact.)
TensorExact ==
  ArrayRspValid =>
    IF ~ RequestValid(job)
    THEN config_error /\ RspResult = ZeroBank /\ RspSaturated = {}
    ELSE /\ ~ config_error
         /\ ~ job.norm_enable => AsProjected
         /\ job.norm_enable /\ (\A i \in Lane : Projected[i] >= 0) => AsNormed

\* The norm is the reference's for every vector.
NormExact == ArrayRspValid /\ RequestValid(job) /\ job.norm_enable => AsNormed

\* An accepted request is answered, or a reset ends it.
ArrayAnswers == array # "IDLE" ~> array = "IDLE" \/ ArrayRspValid

=============================================================================

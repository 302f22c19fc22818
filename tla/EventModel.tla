----------------------------- MODULE EventModel -----------------------------
(***************************************************************************)
(* The event simulator, sim/event_model/rcif_sim.py: the time and the      *)
(* traffic of every token of every request of a trace, and their summary.  *)
(*                                                                         *)
(* Times and bytes are integers: a hit rate is in tenths and what depends  *)
(* on one is counted in tenths; a bandwidth is the ticks of a byte; a mean *)
(* is counted in parts of SCALE, which every number of tokens divides.     *)
(***************************************************************************)
EXTENDS Integers, Sequences, SequencesExt, FiniteSetsExt

CONSTANTS
  Hardwares,   \* [local, remote: hits in tenths, local_ticks, remote_ticks: of a byte,
               \*  prefill_ticks: of a prefilled token, compute_ticks: of a token, collective]
  KvBytes, WeightBytes,   \* of a token
  Requests,               \* [prefix, reused, prefill, output]
  MaxSimulated,            \* bound: requests of a trace
  SCALE

\* The numbers that sim/workloads/agentic_coding_trace_schema.json allows.
ASSUME EventAssumption ==
  /\ KvBytes \in Nat /\ WeightBytes \in Nat /\ SCALE \in Nat \ {0}
  /\ Hardwares \subseteq [local : Nat, remote : Nat, local_ticks : Nat, remote_ticks : Nat,
                         prefill_ticks : Nat, compute_ticks : Nat, collective : Nat]
  /\ Requests \subseteq [prefix : Nat, reused : Nat, prefill : Nat, output : Nat \ {0}]
  /\ \A r \in Requests : SCALE % r.output = 0

VARIABLES
  hardware,
  trace,       \* the requests still to be simulated
  token,       \* token_index of the current request
  totals,      \* its sums so far
  results,     \* of the requests before
  sim_state    \* "reading", "running", "done" or "refused"

eventVars == <<hardware, trace, token, totals, results, sim_state>>

Larger(m, n) == IF m >= n THEN m ELSE n

NoTotals == [kv |-> 0, local |-> 0, remote |-> 0, cold |-> 0, weights |-> 0,
             decode |-> 0]

\* validate_trace_shape, with the checks of the two from_dict.
TraceAccepted(h, requests) ==
  /\ requests # <<>>
  /\ h.local + h.remote <= 10
  /\ \A i \in DOMAIN requests : requests[i].reused <= requests[i].prefix

ReadTrace ==
  /\ sim_state = "reading"
  /\ \E n \in 0 .. MaxSimulated : trace' \in [1 .. n -> Requests]
  /\ sim_state' = IF TraceAccepted(hardware, trace') THEN "running" ELSE "refused"
  /\ UNCHANGED <<hardware, token, totals, results>>

-----------------------------------------------------------------------------
(* simulate_request *)

KvRead(context) == context * KvBytes

\* Of a number of bytes, in tenths of a byte.
LocalPart(bytes) == bytes * hardware.local
RemotePart(bytes) == bytes * hardware.remote
ColdPart(bytes) == bytes * (10 - hardware.local - hardware.remote)

KvTime(bytes) ==
  LocalPart(bytes) * hardware.local_ticks
    + (RemotePart(bytes) + 4 * ColdPart(bytes)) * hardware.remote_ticks

\* In tenths of a tick.
TokenTime(context) ==
  Larger(KvTime(KvRead(context)),
         Larger(10 * WeightBytes * hardware.local_ticks, 10 * hardware.compute_ticks))
    + 10 * hardware.collective

PrefillTime(request) ==
  10 * Larger(request.prefill * hardware.prefill_ticks,
              request.prefill * KvBytes * hardware.local_ticks)

DecodeToken ==
  /\ sim_state = "running"
  /\ trace # <<>>
  /\ token < Head(trace).output
  /\ LET context == Head(trace).prefix + token
         bytes == KvRead(context)
     IN  totals' = [kv |-> totals.kv + bytes,
                    local |-> totals.local + LocalPart(bytes),
                    remote |-> totals.remote + RemotePart(bytes),
                    cold |-> totals.cold + ColdPart(bytes),
                    weights |-> totals.weights + WeightBytes,
                    decode |-> totals.decode + TokenTime(context)]
  /\ token' = token + 1
  /\ UNCHANGED <<hardware, trace, results, sim_state>>

\* In parts of SCALE.
Mean(total, tokens) == (total * SCALE) \div tokens

Result(request) ==
  LET tpot == Mean(totals.decode, request.output)
  IN  [request |-> request,
       ttft |-> PrefillTime(request) * SCALE + tpot,
       tpot |-> tpot,
       totals |-> totals,
       written |-> request.prefill * KvBytes]

\* Mutant: the next request starts from this one's sums.
FinishKeepsTotals ==
  /\ sim_state = "running"
  /\ trace # <<>>
  /\ token = Head(trace).output
  /\ results' = Append(results, Result(Head(trace)))
  /\ trace' = Tail(trace)
  /\ token' = 0
  /\ UNCHANGED <<hardware, totals, sim_state>>

FinishRequest ==
  /\ sim_state = "running"
  /\ trace # <<>>
  /\ token = Head(trace).output
  /\ results' = Append(results, Result(Head(trace)))
  /\ trace' = Tail(trace)
  /\ token' = 0
  /\ totals' = NoTotals
  /\ UNCHANGED <<hardware, sim_state>>

FinishTrace ==
  /\ sim_state = "running"
  /\ trace = <<>>
  /\ sim_state' = "done"
  /\ UNCHANGED <<hardware, trace, token, totals, results>>

-----------------------------------------------------------------------------
(* The summary; a percentile is in hundredths of its values *)

Ascending(values) == \A i, j \in DOMAIN values : i < j => values[i] <= values[j]

Rearranged(values, places) == [i \in DOMAIN values |-> values[places[i]]]

Ordered(values) ==
  Rearranged(values, CHOOSE places \in Bijection(DOMAIN values, DOMAIN values) :
                       Ascending(Rearranged(values, places)))

\* Between the two nearest ranks.
Percentile(values, pct) ==
  LET sorted == Ordered(values)
      rank == (Len(sorted) - 1) * pct
      low == (rank \div 100) + 1
      high == IF low < Len(sorted) THEN low + 1 ELSE Len(sorted)
  IN  sorted[low] * (100 - (rank % 100)) + sorted[high] * (rank % 100)

Median(values) ==
  LET sorted == Ordered(values)
      half == Len(sorted) \div 2
  IN  IF Len(sorted) % 2 = 1 THEN 100 * sorted[half + 1]
      ELSE 50 * (sorted[half] + sorted[half + 1])

Ttft == [i \in DOMAIN results |-> results[i].ttft]
Tpot == [i \in DOMAIN results |-> results[i].tpot]

SumOf(values) == MapThenSumSet(LAMBDA i : values[i], DOMAIN values)
Total(name) == SumOf([i \in DOMAIN results |-> results[i].totals[name]])

Summary ==
  [ttft |-> <<Median(Ttft), Percentile(Ttft, 95), Percentile(Ttft, 99)>>,
   tpot |-> <<Median(Tpot), Percentile(Tpot, 95), Percentile(Tpot, 99)>>,
   tokens |-> SumOf([i \in DOMAIN results |-> results[i].request.output]),
   time |-> SumOf(Ttft) + SCALE * Total("decode"),
   kv |-> Total("kv"), local |-> Total("local"), remote |-> Total("remote"),
   cold |-> Total("cold"), weights |-> Total("weights"),
   written |-> SumOf([i \in DOMAIN results |-> results[i].written])]

EventInit ==
  /\ hardware \in Hardwares
  /\ trace = <<>>
  /\ token = 0
  /\ totals = NoTotals
  /\ results = <<>>
  /\ sim_state = "reading"

EventNext == ReadTrace \/ DecodeToken \/ FinishRequest \/ FinishTrace

-----------------------------------------------------------------------------

\* The bytes of all contexts of a request, in closed form.
KvOf(request) ==
  KvBytes * (request.output * request.prefix
               + (request.output * (request.output - 1)) \div 2)

\* A request's traffic is that of its contexts, split without loss between the
\* tiers; its mean token lies between its first and its last.
ResultSound(r) ==
  /\ r.totals.kv = KvOf(r.request)
  /\ r.totals.local + r.totals.remote + r.totals.cold = 10 * r.totals.kv
  /\ SCALE * TokenTime(r.request.prefix) <= r.tpot
  /\ r.tpot <= SCALE * TokenTime(r.request.prefix + r.request.output - 1)

\* More context or more output never makes a token faster.
NoCheaper(r, q) ==
  r.request.prefix <= q.request.prefix /\ r.request.output <= q.request.output
    => r.tpot <= q.tpot /\ r.totals.decode <= q.totals.decode

Within(percentiles, values) ==
  /\ 100 * Min(ToSet(values)) <= percentiles[1]
  /\ percentiles[1] <= percentiles[2]
  /\ percentiles[2] <= percentiles[3]
  /\ percentiles[3] <= 100 * Max(ToSet(values))

\* The results of a trace agree with its requests and with one another, and
\* its summary with its results: sums are the sums of the parts, percentiles
\* are ordered and between the smallest and the largest value, and there are
\* never more tokens per second than tokens without any context would allow
\* (simulate_request, percentile, simulate_trace).
TotalsAddUp ==
  /\ \A i \in DOMAIN results : ResultSound(results[i])
  /\ \A i, j \in DOMAIN results : NoCheaper(results[i], results[j])
  /\ sim_state = "done" =>
       /\ results # <<>>
       /\ Summary.local + Summary.remote + Summary.cold = 10 * Summary.kv
       /\ Summary.weights = Summary.tokens * WeightBytes
       /\ Summary.tokens * SCALE * TokenTime(0) <= Summary.time
       /\ Within(Summary.ttft, Ttft)
       /\ Within(Summary.tpot, Tpot)

=============================================================================

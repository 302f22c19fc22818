-------------------------- MODULE MCReferenceModels --------------------------
(***************************************************************************)
(* The Python models of the repository side by side, the prototype device  *)
(* and the references: every behaviour is one of the subject.              *)
(***************************************************************************)
EXTENDS MCFpgaPrototype, KvCache, ChipMonitor, GoldenReference, EventModel

VARIABLE subject

modelVars == <<vars, cacheVars, monitorVars, queueVars, streamVars, eventVars, subject>>

-----------------------------------------------------------------------------
(* KV cache: two heads of one element, with misshapen head values *)

MCHeadValues == { <<<<1>>, <<2>>>>, <<<<-3>>, <<5>>>>, <<<<1>>>>, <<<<1>>, <<2, 3>>>> }
MCQueryLists == { <<>>, <<<<1>>>>, <<<<1>>, <<2>>>>, <<<<1>>, <<2, 3>>>>, <<<<1>>, <<2>>, <<3>>, <<-1>>>> }

-----------------------------------------------------------------------------
(* Monitor *)

MCDmaWindows == [a |-> <<4, 8>>, b |-> <<8, 12>>]
MCNodePartitions == (0 :> "left") @@ (1 :> "left") @@ (2 :> "right")

Dma(tenant, address, length) ==
  [op |-> "dma", tenant |-> tenant, address |-> address, length |-> length]
Route(source, destination) ==
  [op |-> "route", source |-> source, destination |-> destination]

MCJudgedCalls ==
  {Dma(t, address, length) : t \in {"a", "b", "c"}, address \in {3, 4, 7, 8, 11, 12},
                            length \in {-1, 0, 1, 4, 5}}
    \union {Route(s, d) : s, d \in 0 .. 4}
    \union {[op |-> "issue", dependencies |-> D] : D \in SUBSET {"kv", "weights"}}
    \union {[op |-> "sample", point |-> p] : p \in {"bin", "no bin"}}

Operation(kind, call, point) ==
  [kind |-> kind, request |-> "r1", call |-> call, point |-> point]

MCOperations ==
  {Operation("kv", [op |-> "map_kv", key |-> <<"a", 0>>, page |-> p], "bin") : p \in {7, 8}}
    \union {Operation("dma", Dma("a", 4, n), p) : n \in {4, 5}, p \in {"bin", "no bin"}}
    \union {Operation("collective", Route(0, d), "bin") : d \in {1, 2}}
    \union {[kind |-> "scheduler", request |-> "r2", point |-> "bin",
             announced |-> << [op |-> "ready", dependency |-> "kv"],
                              [op |-> "ready", dependency |-> "weights"] >>],
            Operation("unknown", Route(0, 0), "bin")}

-----------------------------------------------------------------------------
(* Arithmetic: distances beyond the fifteen bits of a weight *)

MCQueries == { <<1, 0>>, <<2, -1>> }
MCStreamTokens ==
  {[key |-> k, value |-> v] :
     k \in { <<0, 0>>, <<1, 0>>, <<-1, 3>>, <<20, 1>> },
     v \in { <<127, -5>>, <<-128, -7>> }}

MCProjections ==
  {[activation |-> a,
    row |-> [packed |-> IF f = "int8" THEN <<128, 127>> ELSE <<8, 7>>,
             format |-> f, zero_point |-> z, scale |-> s, bias |-> b]] :
     a \in { <<127, 127>>, <<-128, 1>>, <<-3, 2>>, <<0, 0>> },
     f \in {"int8", "int4"}, z \in {-4, 0, 4},
     s \in {-512, -3, 1, 255, 256, 4096}, b \in {-1000, 0, 1000}}
MCModes == {"bypass", "relu", "clamp_int8"}
MCNormalised ==
  {[values |-> v, gains |-> g] :
     v \in { <<3, 4, 0, 0>>, <<0, 0, 0, 0>>, <<-7, 7, 1, -1>>, <<127, -128, 5, 5>>,
             <<1, 0, 0, 0>> },
     g \in { <<256, 256, 256, 256>>, <<256, -3, 1, 32767>>, <<7, 7, -7, -7>> }}
MCProducts == -1030 .. 1030

-----------------------------------------------------------------------------
(* Event model: memory bound and compute bound, all tiers and one tier *)

Hardware(local, remote, compute) ==
  [local |-> local, remote |-> remote, local_ticks |-> 1, remote_ticks |-> 3,
   prefill_ticks |-> 5, compute_ticks |-> compute, collective |-> 2]
MCHardwares ==
  {Hardware(6, 3, 1), Hardware(10, 0, 40), Hardware(0, 0, 1), Hardware(8, 3, 1)}
Request(prefix, reused, prefill, output) ==
  [prefix |-> prefix, reused |-> reused, prefill |-> prefill, output |-> output]
MCRequests ==
  {Request(0, 0, 4, 1), Request(8, 6, 2, 3), Request(8, 8, 0, 2), Request(3, 0, 3, 4),
   Request(2, 3, 0, 1)}

-----------------------------------------------------------------------------

ModelsInit ==
  /\ subject \in {"fpga", "cache", "monitor", "queue", "stream", "event"}
  /\ Init
  /\ CacheInit
  /\ MonitorInit
  /\ QueueInit
  /\ StreamInit
  /\ EventInit
  /\ subject # "fpga" => memory.pages[ATTENTION_PAGE].payload = "toy"
  /\ subject # "event" => hardware = Hardware(6, 3, 1)

Only(s) ==
  /\ subject = s
  /\ UNCHANGED subject
  /\ s # "fpga" => UNCHANGED vars
  /\ s # "cache" => UNCHANGED cacheVars
  /\ s # "monitor" => UNCHANGED monitorVars
  /\ s # "queue" => UNCHANGED queueVars
  /\ s # "stream" => UNCHANGED streamVars
  /\ s # "event" => UNCHANGED eventVars

ModelsNext ==
  \/ Only("fpga") /\ Next
  \/ Only("cache") /\ CacheNext
  \/ Only("monitor") /\ MonitorNext
  \/ Only("queue") /\ QueueNext
  \/ Only("stream") /\ StreamNext
  \/ Only("event") /\ EventNext

\* A graph that was begun is executed to its end by the call that submitted it;
\* every cycle of the explored queue is a step of its clock.
ModelsSpec ==
  /\ ModelsInit
  /\ [][ModelsNext]_modelVars
  /\ WF_vars(Only("fpga") /\ GraphStep)
  /\ WF_queueVars(Only("queue") /\ QueueNext)

=============================================================================

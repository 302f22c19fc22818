---------------------- MODULE CollectiveEngine_proofs ----------------------
(***************************************************************************)
(* The collective engine commits whole results or nothing, and refuses     *)
(* exactly the commands its table cannot serve, for every number of nodes, *)
(* every topology table, good or bad, and every sequence of faults.        *)
(***************************************************************************)
EXTENDS CollectiveEngine, Integers, FiniteSetTheorems, TLAPS

-----------------------------------------------------------------------------
(* The order of the all-to-all pairs *)

Index(s, d) == s * NUM_NODES + d

LEMMA IndexRange ==
  ASSUME NEW s \in Node, NEW d \in Node
  PROVE  Index(s, d) \in 0 .. NumPairs - 1
<1>. NUM_NODES \in Nat /\ NUM_NODES >= 2 BY TopologyAssumption
<1>1. s * NUM_NODES <= (NUM_NODES - 1) * NUM_NODES /\ s * NUM_NODES >= 0
  BY SMT DEF Node
<1>2. (NUM_NODES - 1) * NUM_NODES = NUM_NODES * NUM_NODES - NUM_NODES BY SMT
<1>3. s * NUM_NODES \in Int /\ NUM_NODES * NUM_NODES \in Int BY SMT DEF Node
<1>. QED BY <1>1, <1>2, <1>3 DEF Index, Node, NumPairs

LEMMA DivisionRange ==
  ASSUME NEW j \in Int, NEW n \in Nat, n >= 2
  PROVE  /\ j \div n \in Int /\ j % n \in 0 .. n - 1
         /\ j = (j \div n) * n + (j % n)
BY SMT

LEMMA PairInRange ==
  ASSUME NEW i \in 0 .. NumPairs - 1
  PROVE  /\ i \div NUM_NODES \in Node /\ i % NUM_NODES \in Node
         /\ i = Index(i \div NUM_NODES, i % NUM_NODES)
<1>. NUM_NODES \in Nat /\ NUM_NODES >= 2 BY TopologyAssumption
<1>1. /\ i \div NUM_NODES \in Int /\ i % NUM_NODES \in 0 .. NUM_NODES - 1
      /\ i = (i \div NUM_NODES) * NUM_NODES + (i % NUM_NODES)
  <2>1. i \in Int
    <3>1. NUM_NODES * NUM_NODES \in Int BY SMT
    <3>. QED BY <3>1, SMT DEF NumPairs
  <2>. QED BY <2>1, DivisionRange
<1>2. i \div NUM_NODES \in Node
  <2>. DEFINE q == i \div NUM_NODES
  <2>1. q * NUM_NODES <= i /\ i < NUM_NODES * NUM_NODES /\ i >= 0 /\ i < (q + 1) * NUM_NODES
    <3>1. (q + 1) * NUM_NODES = q * NUM_NODES + NUM_NODES BY <1>1, SMT
    <3>. QED BY <1>1, <3>1, SMT DEF NumPairs
  <2>2. q \in Int BY <1>1
  <2>. HIDE DEF q
  <2>3. q >= 0
    <3>1. SUFFICES ASSUME q <= -1 PROVE FALSE BY <2>2
    <3>2. (q + 1) * NUM_NODES <= 0 BY <3>1, <2>2, SMT
    <3>. QED BY <3>2, <2>1, <2>2, SMT
  <2>4. q < NUM_NODES
    <3>1. SUFFICES ASSUME q >= NUM_NODES PROVE FALSE BY <2>2
    <3>2. q * NUM_NODES >= NUM_NODES * NUM_NODES BY <3>1, <2>2, SMT
    <3>. QED BY <3>2, <2>1, <2>2, SMT
  <2>. QED BY <2>2, <2>3, <2>4 DEF q, Node
<1>. QED BY <1>1, <1>2 DEF Index, Node

LEMMA IndexInjective ==
  ASSUME NEW s \in Node, NEW d \in Node, NEW x \in Node, NEW y \in Node,
         Index(s, d) = Index(x, y)
  PROVE  s = x /\ d = y
<1>. NUM_NODES \in Nat /\ NUM_NODES >= 2 BY TopologyAssumption
<1>1. ASSUME NEW a \in Node, NEW b \in Node, NEW k \in Node, NEW l \in Node, a < k
      PROVE  Index(a, b) < Index(k, l)
  <2>1. (a + 1) * NUM_NODES <= k * NUM_NODES BY <1>1, SMT DEF Node
  <2>2. (a + 1) * NUM_NODES = a * NUM_NODES + NUM_NODES BY SMT DEF Node
  <2>3. a * NUM_NODES \in Int /\ k * NUM_NODES \in Int BY SMT DEF Node
  <2>. QED BY <2>1, <2>2, <2>3 DEF Index, Node
<1>2. ~ s < x /\ ~ x < s
  <2>1. Index(s, d) \in Int BY SMT DEF Index, Node
  <2>. QED BY <1>1, <2>1
<1>3. s = x BY <1>2, SMT DEF Node
<1>. QED BY <1>3, SMT DEF Index, Node

\* Before pair number i + 1 come the pairs before number i, and pair i.
LEMMA NextPair ==
  ASSUME NEW i \in 0 .. NumPairs - 1, NEW s \in Node, NEW d \in Node
  PROVE  /\ Index(s, d) < i + 1 <=> (Index(s, d) < i \/ <<s, d>> = Pair(i))
         /\ Pair(i) \in Edge
         /\ Pair(i)[1] = i \div NUM_NODES /\ Pair(i)[2] = i % NUM_NODES
<1>1. Index(s, d) = i <=> <<s, d>> = Pair(i)
  <2>1. ASSUME Index(s, d) = i PROVE <<s, d>> = Pair(i)
    BY <2>1, PairInRange, IndexInjective DEF Pair
  <2>2. ASSUME <<s, d>> = Pair(i) PROVE Index(s, d) = i
    BY <2>2, PairInRange DEF Pair
  <2>. QED BY <2>1, <2>2
<1>2. Index(s, d) \in Int /\ i \in Int
  <2>1. NumPairs \in Int BY TopologyAssumption, SMT DEF NumPairs
  <2>. QED BY IndexRange, <2>1, SMT
<1>. QED BY <1>1, <1>2, PairInRange DEF Pair, Edge

-----------------------------------------------------------------------------
(* The invariant *)

\* Participants whose value has not been handed to their parent.
Unprocessed == Members \ engine.processed

\* Each participant's value was added once into exactly one unprocessed node.
OwnedOnce ==
  \A n \in Members : \E p \in Unprocessed : \A q \in Unprocessed :
    engine.tree_accum[q][n] = IF q = p THEN 1 ELSE 0

\* A node that is its own parent was processed: its subtree is lost to the sum,
\* and the broadcast will not reach it.
SelfLooped == \E q \in engine.processed : topology.tree_parent[q] = q

RingReduceInv ==
  /\ engine.visited \subseteq Members
  /\ engine.reduction = SumOf(engine.visited)
  /\ engine.tree_accum = [n \in Node |-> LocalValue(n)]
  /\ response.local = NoLocals /\ response.alltoall = NoPayloads

RingBroadcastInv ==
  /\ engine.reduction = SumOf(Members)
  /\ engine.broadcast \subseteq Members
  /\ response.local =
       [n \in Node |-> IF n \in engine.broadcast THEN SumOf(Members) ELSE Zero]
  /\ response.alltoall = NoPayloads

TreeReduceInv ==
  /\ engine.processed \subseteq Members \ {Root}
  /\ \A child \in Unprocessed : topology.tree_parent[child] \notin engine.processed
  /\ \A q \in Members, n \in Node \ Members : engine.tree_accum[q][n] = 0
  /\ SelfLooped \/ OwnedOnce
  /\ response.local = NoLocals /\ response.alltoall = NoPayloads

TreeBroadcastInv ==
  /\ engine.processed = Members \ {Root}
  /\ engine.broadcast \subseteq Members
  /\ \A b \in engine.broadcast \ {Root} : topology.tree_parent[b] # b
  /\ SelfLooped \/ engine.tree_accum[Root] = SumOf(Members)
  /\ response.local = [n \in Node |-> IF n \in engine.broadcast
                                      THEN engine.tree_accum[Root] ELSE Zero]
  /\ response.alltoall = NoPayloads

Delivered(s, d) == s \in Members /\ d \in Members /\ Index(s, d) < engine.pair_index

ExchangeInv ==
  /\ response.local = NoLocals
  /\ \A s, d \in Node :
       response.alltoall[d][s] = IF Delivered(s, d) THEN <<s, d>> ELSE NoPayload

RouteInv ==
  /\ engine.pair_index < NumPairs
  /\ engine.pair = Pair(engine.pair_index)
  /\ engine.pair[1] \in Members /\ engine.pair[2] \in Members

\* What each state of the operation has gathered so far.
Gathered ==
  /\ engine.state = "RING_REDUCE" => RingReduceInv
  /\ engine.state = "RING_BROADCAST" => RingBroadcastInv
  /\ engine.state = "TREE_REDUCE" => TreeReduceInv
  /\ engine.state = "TREE_BROADCAST" => TreeBroadcastInv
  /\ engine.state \in {"A2A_SELECT", "A2A_ROUTE"} => ExchangeInv
  /\ engine.state = "A2A_ROUTE" => RouteInv

OpcodeOf(state) ==
  CASE state \in {"RING_REDUCE", "RING_BROADCAST"} -> "RING_ALLREDUCE"
    [] state \in {"TREE_REDUCE", "TREE_BROADCAST"} -> "TREE_ALLREDUCE"
    [] OTHER -> "ALLTOALL"

OperationInv ==
  /\ engine.command = issued.command /\ engine.command \in Commands
  /\ Root \in Members
  /\ ~ response.valid
  /\ engine.command.opcode = OpcodeOf(engine.state)
  /\ Gathered

EngineGood ==
  /\ topology \in Topology /\ engine \in Engine /\ response \in Response
  /\ ~ Idle => OperationInv
  /\ CommitsWholeOrNothing

\* What stays as it is while an operation takes a step.
Frame == topology' = topology /\ issued'.command = issued.command

-----------------------------------------------------------------------------
(* Types *)

LEMMA ConstantsTyped ==
  /\ 0 \in Node /\ <<0, 0>> \in Edge
  /\ Zero \in Word /\ NoLocals \in Locals /\ NoPayloads \in Payloads
  /\ \A n \in Node : LocalValue(n) \in Word
  /\ \A v, w \in Word : Plus(v, w) \in Word
BY TopologyAssumption
   DEF Node, Edge, Zero, Word, NoLocals, Locals, NoPayloads, Payloads, NoPayload, Payload,
       LocalValue, Plus

LEMMA BoundsTyped ==
  0 \in Byte /\ 0 \in RetryCount /\ 0 \in HopCount /\ 0 \in PairIndex /\ {} \in Group
<1>1. NUM_NODES \in Nat /\ NumPairs \in Nat BY TopologyAssumption, SMT DEF NumPairs
<1>. QED BY <1>1 DEF Byte, RetryCount, RetryModulus, HopCount, PairIndex, Group

LEMMA NoOperationTyped == NoOperation \in Engine /\ NoOperation.state = "IDLE"
<1>1. NullCommand \in Command
  BY ConstantsTyped, TopologyAssumption DEF NullCommand, Command, Opcode
<1>2. "IDLE" \in State BY DEF State
<1>. QED BY <1>1, <1>2, ConstantsTyped, BoundsTyped DEF NoOperation, Engine

LEMMA NoResponseTyped == NoResponse \in Response /\ ~ NoResponse.valid
BY ConstantsTyped, BoundsTyped DEF NoResponse, Response, Status

LEMMA EngineFields ==
  ASSUME NEW e \in Engine
  PROVE  /\ e.state \in State /\ e.command \in Command /\ e.current \in Node
         /\ e.edge_retry \in Byte /\ e.retry_count \in RetryCount
         /\ e.hop_count \in HopCount /\ e.reduction \in Word
         /\ e.visited \in Group /\ e.processed \in Group /\ e.broadcast \in Group
         /\ e.tree_accum \in Locals /\ e.pair_index \in PairIndex /\ e.pair \in Edge
         /\ e.command.collective_id \in Byte /\ e.command.retry_limit \in Byte
         /\ e.command.participants \in Group /\ e.command.root \in Node
BY DEF Engine, Command, Byte, Group

LEMMA ResponseFields ==
  ASSUME NEW r \in Response
  PROVE  /\ r.local \in Locals /\ r.alltoall \in Payloads /\ r.edge \in Edge
         /\ r.valid \in BOOLEAN /\ r.committed \in BOOLEAN /\ r.status \in Status
BY DEF Response

\* One node's result, or one payload, put into the response.
LEMMA ResultPut ==
  ASSUME response \in Response, NEW n \in Node, NEW w \in Word, Store(n, w)
  PROVE  /\ response' \in Response /\ response'.valid = response.valid
         /\ response'.alltoall = response.alltoall
         /\ response'.local = [response.local EXCEPT ![n] = w]
<1>1. [response.local EXCEPT ![n] = w] \in Locals BY ResponseFields DEF Locals
<1>2. response' \in Response BY <1>1, Zenon DEF Response, Store
<1>. QED BY <1>2 DEF Response, Store

LEMMA PayloadPut ==
  ASSUME response \in Response, NEW pair \in Edge, Deliver(pair)
  PROVE  /\ response' \in Response /\ response'.valid = response.valid
         /\ response'.local = response.local
         /\ \A s, d \in Node : response'.alltoall[d][s] =
              IF <<s, d>> = pair THEN pair ELSE response.alltoall[d][s]
<1>1. response.alltoall \in Payloads BY ResponseFields
<1>2. pair[1] \in Node /\ pair[2] \in Node /\ pair = <<pair[1], pair[2]>> /\ pair \in Payload
  BY DEF Edge, Payload
<1>. DEFINE all == [response.alltoall EXCEPT ![pair[2]][pair[1]] = pair]
<1>3. /\ all \in Payloads
      /\ \A s, d \in Node : all[d][s] =
           IF s = pair[1] /\ d = pair[2] THEN pair ELSE response.alltoall[d][s]
  BY <1>1, <1>2, SMT DEF Payloads
<1>4. response' = [response EXCEPT !.alltoall = all] BY DEF Deliver
<1>. HIDE DEF all
<1>5. response' \in Response BY <1>3, <1>4, Zenon DEF Response
<1>6. /\ response'.valid = response.valid /\ response'.local = response.local
      /\ response'.alltoall = all
  BY <1>4 DEF Response
<1>7. \A s, d \in Node : <<s, d>> = pair <=> (s = pair[1] /\ d = pair[2]) BY <1>2
<1>. QED BY <1>3, <1>5, <1>6, <1>7

-----------------------------------------------------------------------------
(* Failing, completing, retrying and going on *)

LEMMA FailGood ==
  ASSUME EngineGood, Frame, ~ Idle, NEW status \in Status \ {"OK"},
         NEW from \in Node, NEW to \in Node, Fail(status, from, to)
  PROVE  EngineGood'
<1>1. engine' \in Engine /\ Idle' BY NoOperationTyped DEF Fail, Idle
<1>2. response' \in Response
  <2>1. engine.command.collective_id \in Byte /\ engine.retry_count \in RetryCount
    BY EngineFields DEF EngineGood
  <2>2. <<from, to>> \in Edge BY DEF Edge
  <2>. QED BY <2>1, <2>2, ConstantsTyped DEF Fail, Response
<1>3. CommitsWholeOrNothing'
  <2>1. /\ response'.collective_id = engine.command.collective_id
        /\ response'.status = status /\ ~ response'.committed
        /\ response'.local = NoLocals /\ response'.alltoall = NoPayloads
    BY DEF Fail
  <2>2. issued'.command = engine.command BY DEF EngineGood, OperationInv, Frame
  <2>. QED BY <2>1, <2>2 DEF CommitsWholeOrNothing, NoLocals, NoPayloads, Zero
<1>. QED BY <1>1, <1>2, <1>3 DEF EngineGood, Frame

LEMMA CompleteGood ==
  ASSUME EngineGood, Frame, ~ Idle, WholeResult(issued.command), Complete
  PROVE  EngineGood'
<1>1. engine' \in Engine /\ Idle' BY NoOperationTyped DEF Complete, Idle
<1>2. response' \in Response
  <2>1. engine.command.collective_id \in Byte /\ engine.retry_count \in RetryCount
    BY EngineFields DEF EngineGood
  <2>2. response.local \in Locals /\ response.alltoall \in Payloads
    BY ResponseFields DEF EngineGood
  <2>. QED BY <2>1, <2>2, ConstantsTyped DEF Complete, Response, Status
<1>3. CommitsWholeOrNothing'
  <2>1. /\ response'.collective_id = engine.command.collective_id
        /\ response'.status = "OK" /\ response'.committed
        /\ response'.local = response.local /\ response'.alltoall = response.alltoall
    BY DEF Complete
  <2>2. issued'.command = issued.command /\ issued.command = engine.command
    BY DEF EngineGood, OperationInv, Frame
  <2>3. WholeResult(issued.command)' BY <2>1, <2>2 DEF WholeResult, NoLocals, NoPayloads, Zero, SumOf
  <2>. QED BY <2>1, <2>2, <2>3 DEF CommitsWholeOrNothing
<1>. QED BY <1>1, <1>2, <1>3 DEF EngineGood, Frame

\* A step that ends in a state of the same operation.
LEMMA GoesOnGood ==
  ASSUME EngineGood, Frame, ~ Idle, engine' \in Engine, response' \in Response,
         engine'.command = engine.command, response'.valid = response.valid,
         \/ engine'.state = engine.state
         \/ engine.state = "RING_REDUCE" /\ engine'.state = "RING_BROADCAST"
         \/ engine.state = "TREE_REDUCE" /\ engine'.state = "TREE_BROADCAST"
         \/ engine.state = "A2A_SELECT" /\ engine'.state = "A2A_ROUTE"
         \/ engine.state = "A2A_ROUTE" /\ engine'.state = "A2A_SELECT",
         Gathered'
  PROVE  EngineGood'
<1>1. OperationInv BY DEF EngineGood
<1>2. ~ response'.valid BY <1>1 DEF OperationInv
<1>3. OperationInv'
  BY <1>1, <1>2 DEF OperationInv, OpcodeOf, Frame, Root, Members, Idle
<1>. QED BY <1>2, <1>3 DEF EngineGood, CommitsWholeOrNothing, Frame

LEMMA RetryGood ==
  ASSUME EngineGood, Frame, ~ Idle, NEW from \in Node, NEW to \in Node,
         RetryOrFail(from, to)
  PROVE  EngineGood'
<1>0. engine \in Engine BY DEF EngineGood
<1>1. CASE engine.edge_retry < engine.command.retry_limit
  <2>. DEFINE retry == engine.edge_retry + 1
              count == (engine.retry_count + 1) % RetryModulus
  <2>1. retry \in Byte /\ count \in RetryCount
    <3>1. /\ engine.edge_retry \in Byte /\ engine.command.retry_limit \in Byte
          /\ engine.retry_count \in RetryCount
      BY <1>0, EngineFields
    <3>2. \A a, b \in Byte : a < b => a + 1 \in Byte BY DEF Byte
    <3>3. RetryModulus \in Nat /\ RetryModulus >= 2 BY DEF RetryModulus
    <3>4. \A c \in RetryCount : (c + 1) % RetryModulus \in RetryCount
      BY <3>3, DivisionRange DEF RetryCount
    <3>. QED BY <1>1, <3>1, <3>2, <3>4
  <2>2. engine' = [engine EXCEPT !.edge_retry = retry, !.retry_count = count]
        /\ response' = response
    BY <1>1 DEF RetryOrFail, Advance
  <2>. HIDE DEF retry, count
  <2>3. engine' \in Engine BY <1>0, <2>1, <2>2, Zenon DEF Engine
  <2>4. /\ engine'.state = engine.state /\ engine'.command = engine.command
        /\ engine'.visited = engine.visited /\ engine'.reduction = engine.reduction
        /\ engine'.tree_accum = engine.tree_accum /\ engine'.broadcast = engine.broadcast
        /\ engine'.processed = engine.processed /\ engine'.pair = engine.pair
        /\ engine'.pair_index = engine.pair_index
    BY <1>0, <2>2 DEF Engine
  <2>5. Gathered'
    BY <2>2, <2>4
    DEF EngineGood, OperationInv, Gathered, Members, Root, RingReduceInv,
        RingBroadcastInv, TreeReduceInv, TreeBroadcastInv, ExchangeInv, RouteInv,
        Delivered, Unprocessed, OwnedOnce, SelfLooped, Frame
  <2>. QED BY <2>2, <2>3, <2>4, <2>5, GoesOnGood DEF EngineGood
<1>2. CASE ~ engine.edge_retry < engine.command.retry_limit
  BY <1>2, FailGood DEF RetryOrFail, Status
<1>. QED BY <1>1, <1>2

LEMMA RefusedGood ==
  ASSUME EngineGood, Frame, ~ Idle, NEW from \in Node, NEW to \in Node,
         HopRefused(from, to)
  PROVE  EngineGood'
BY FailGood, RetryGood DEF HopRefused, Status

-----------------------------------------------------------------------------
(* Ring all-reduce *)

\* Adding a node's own value to the sum of a group without it.
LEMMA SumGrows ==
  ASSUME NEW group, NEW n \in Node, n \notin group
  PROVE  Plus(SumOf(group), LocalValue(n)) = SumOf(group \cup {n})
BY DEF Plus, SumOf, LocalValue

LEMMA RingNodes ==
  ASSUME EngineGood
  PROVE  /\ engine.current \in Node /\ topology.ring_next[engine.current] \in Node
         /\ Members \subseteq Node
<1>1. engine.current \in Node /\ Members \in Group
  BY EngineFields DEF EngineGood, Members
<1>2. topology.ring_next \in [Node -> Node] BY DEF EngineGood, Topology
<1>. QED BY <1>1, <1>2 DEF Group

LEMMA RingReduceGood ==
  ASSUME EngineGood, Frame, RingReduce
  PROVE  EngineGood'
<1>. DEFINE from == engine.current
            to == topology.ring_next[from]
<1>0. /\ engine \in Engine /\ response \in Response /\ engine.state = "RING_REDUCE"
      /\ ~ Idle /\ OperationInv /\ RingReduceInv
  BY DEF EngineGood, RingReduce, Idle, OperationInv, Gathered
<1>1. from \in Node /\ to \in Node /\ Members \subseteq Node BY RingNodes
<1>2. 0 \in Byte BY BoundsTyped
<1>3. CASE HopRefused(from, to) BY <1>0, <1>1, <1>3, RefusedGood
<1>4. CASE /\ to = Root /\ engine.visited = Members
           /\ engine' = [Crossed EXCEPT !.current = to, !.broadcast = {to},
                                        !.state = "RING_BROADCAST"]
           /\ Store(to, engine.reduction)
  <2>1. {to} \in Group /\ "RING_BROADCAST" \in State BY <1>1 DEF Group, State
  <2>2. engine' \in Engine BY <1>0, <1>1, <1>2, <1>4, <2>1, Zenon DEF Engine, Crossed
  <2>3. /\ engine'.state = "RING_BROADCAST" /\ engine'.command = engine.command
        /\ engine'.broadcast = {to} /\ engine'.reduction = engine.reduction
    BY <1>0, <1>4 DEF Engine, Crossed
  <2>4. engine.reduction \in Word BY <1>0, EngineFields
  <2>5. /\ response' \in Response /\ response'.valid = response.valid
        /\ response'.alltoall = response.alltoall
        /\ response'.local = [response.local EXCEPT ![to] = engine.reduction]
    BY <1>0, <1>1, <1>4, <2>4, ResultPut
  <2>6. RingBroadcastInv'
    <3>1. engine.reduction = SumOf(Members) /\ to \in Members
      BY <1>0, <1>4 DEF RingReduceInv, OperationInv
    <3>2. response'.local = [n \in Node |-> IF n \in {to} THEN SumOf(Members) ELSE Zero]
      BY <1>0, <1>1, <2>5, <3>1 DEF RingReduceInv, NoLocals
    <3>3. Members' = Members BY <2>3 DEF Members
    <3>. QED BY <1>0, <2>3, <2>5, <3>1, <3>2, <3>3
             DEF RingBroadcastInv, RingReduceInv, SumOf, NoPayloads, Zero
  <2>. QED BY <1>0, <2>2, <2>3, <2>5, <2>6, GoesOnGood DEF Gathered
<1>5. CASE /\ HopOpen(from, to) /\ to \notin engine.visited
           /\ Advance([Crossed EXCEPT !.current = to,
                         !.reduction = Plus(@, engine.tree_accum[to]),
                         !.visited = @ \cup {to}])
  <2>. DEFINE sum == Plus(engine.reduction, engine.tree_accum[to])
              visited == engine.visited \cup {to}
  <2>1. engine.reduction = SumOf(engine.visited) /\ engine.tree_accum[to] = LocalValue(to)
    BY <1>0, <1>1 DEF RingReduceInv
  <2>2. sum = SumOf(visited) /\ sum \in Word /\ visited \in Group /\ visited \subseteq Members
    <3>1. sum = SumOf(visited) BY <1>1, <1>5, <2>1, SumGrows
    <3>2. sum \in Word BY <1>0, <1>1, <2>1, EngineFields, ConstantsTyped
    <3>3. to \in Members BY <1>5 DEF HopOpen, HopValid
    <3>. QED BY <1>0, <1>1, <3>1, <3>2, <3>3 DEF RingReduceInv, Group
  <2>3. /\ engine' = [Crossed EXCEPT !.current = to, !.reduction = sum, !.visited = visited]
        /\ response' = response
    BY <1>0, <1>5 DEF Advance, Crossed, Engine
  <2>. HIDE DEF sum, visited
  <2>4. engine' \in Engine BY <1>0, <1>1, <1>2, <2>2, <2>3, Zenon DEF Engine, Crossed
  <2>5. /\ engine'.state = engine.state /\ engine'.command = engine.command
        /\ engine'.visited = visited /\ engine'.reduction = sum
        /\ engine'.tree_accum = engine.tree_accum
    BY <1>0, <2>3 DEF Engine, Crossed
  <2>6. RingReduceInv'
    <3>1. Members' = Members BY <2>5 DEF Members
    <3>. QED BY <1>0, <2>2, <2>3, <2>5, <3>1
             DEF RingReduceInv, NoLocals, NoPayloads, SumOf, LocalValue
  <2>. QED BY <1>0, <2>3, <2>4, <2>5, <2>6, GoesOnGood DEF Gathered
<1>6. CASE Fail("TOPOLOGY", from, to) BY <1>0, <1>1, <1>6, FailGood DEF Status
<1>. QED BY <1>3, <1>4, <1>5, <1>6 DEF RingReduce

LEMMA RingBroadcastGood ==
  ASSUME EngineGood, Frame, RingBroadcast
  PROVE  EngineGood'
<1>. DEFINE from == engine.current
            to == topology.ring_next[from]
<1>0. /\ engine \in Engine /\ response \in Response /\ engine.state = "RING_BROADCAST"
      /\ ~ Idle /\ OperationInv /\ RingBroadcastInv
  BY DEF EngineGood, RingBroadcast, Idle, OperationInv, Gathered
<1>1. from \in Node /\ to \in Node /\ Members \subseteq Node BY RingNodes
<1>2. 0 \in Byte BY BoundsTyped
<1>3. CASE HopRefused(from, to) BY <1>0, <1>1, <1>3, RefusedGood
<1>4. CASE engine.broadcast = Members /\ Complete
  <2>1. issued.command.opcode = "RING_ALLREDUCE" /\ Members = issued.command.participants
    BY <1>0 DEF OperationInv, OpcodeOf, Members
  <2>2. WholeResult(issued.command) BY <1>0, <1>4, <2>1 DEF WholeResult, RingBroadcastInv
  <2>. QED BY <1>0, <1>4, <2>2, CompleteGood
<1>5. CASE /\ HopOpen(from, to)
           /\ engine' = [Crossed EXCEPT !.current = to, !.broadcast = @ \cup {to}]
           /\ Store(to, engine.reduction)
  <2>. DEFINE broadcast == engine.broadcast \cup {to}
  <2>1. to \in Members BY <1>5 DEF HopOpen, HopValid
  <2>2. broadcast \in Group /\ broadcast \subseteq Members
    BY <1>0, <1>1, <2>1 DEF RingBroadcastInv, Group
  <2>3. engine' = [Crossed EXCEPT !.current = to, !.broadcast = broadcast]
    BY <1>0, <1>5 DEF Crossed, Engine
  <2>. HIDE DEF broadcast
  <2>4. engine' \in Engine BY <1>0, <1>1, <1>2, <2>2, <2>3, Zenon DEF Engine, Crossed
  <2>5. /\ engine'.state = engine.state /\ engine'.command = engine.command
        /\ engine'.broadcast = broadcast /\ engine'.reduction = engine.reduction
    BY <1>0, <2>3 DEF Engine, Crossed
  <2>6. engine.reduction \in Word /\ engine.reduction = SumOf(Members)
    BY <1>0, EngineFields DEF RingBroadcastInv
  <2>7. /\ response' \in Response /\ response'.valid = response.valid
        /\ response'.alltoall = response.alltoall
        /\ response'.local = [response.local EXCEPT ![to] = engine.reduction]
    BY <1>0, <1>1, <1>5, <2>6, ResultPut
  <2>8. RingBroadcastInv'
    <3>1. response'.local =
            [n \in Node |-> IF n \in broadcast THEN SumOf(Members) ELSE Zero]
      BY <1>0, <1>1, <2>6, <2>7 DEF RingBroadcastInv, broadcast
    <3>2. Members' = Members BY <2>5 DEF Members
    <3>. QED BY <1>0, <2>2, <2>5, <2>6, <2>7, <3>1, <3>2
             DEF RingBroadcastInv, SumOf, NoPayloads, Zero
  <2>. QED BY <1>0, <2>4, <2>5, <2>7, <2>8, GoesOnGood DEF Gathered
<1>6. CASE Fail("TOPOLOGY", from, to) BY <1>0, <1>1, <1>6, FailGood DEF Status
<1>. QED BY <1>3, <1>4, <1>5, <1>6 DEF RingBroadcast

-----------------------------------------------------------------------------
(* Tree all-reduce *)

LEMMA TreeNodes ==
  ASSUME EngineGood
  PROVE  /\ \A n \in Node : topology.tree_parent[n] \in Node
         /\ Members \subseteq Node /\ Root \in Node /\ engine.processed \subseteq Node
         /\ engine.broadcast \subseteq Node
         /\ \A n \in Node : engine.tree_accum[n] \in Word
         /\ \A n, m \in Node : engine.tree_accum[n][m] \in Nat
<1>1. /\ Root \in Node /\ Members \in Group /\ engine.processed \in Group
      /\ engine.broadcast \in Group /\ engine.tree_accum \in Locals
  BY EngineFields DEF EngineGood, Members, Root
<1>2. topology.tree_parent \in [Node -> Node] BY DEF EngineGood, Topology
<1>. QED BY <1>1, <1>2 DEF Group, Locals, Word

\* Handing one node's sum to its parent keeps every value in one place.
LEMMA HandingOver ==
  ASSUME EngineGood, TreeReduceInv, NEW node \in TreeReady \ {Root}, NEW parent,
         parent = topology.tree_parent[node], parent \in Members,
         engine'.tree_accum =
           [engine.tree_accum EXCEPT
              ![parent] = Plus(engine.tree_accum[parent], engine.tree_accum[node])],
         engine'.processed = engine.processed \cup {node},
         engine'.command = engine.command,
         response' = response, topology' = topology
  PROVE  TreeReduceInv'
<1>1. /\ node \in Members /\ node \in Unprocessed /\ node # Root /\ node \in Node
      /\ parent \in Node
      /\ \A child \in Unprocessed : topology.tree_parent[child] = node => child = node
  BY TreeNodes DEF TreeReady, Unprocessed
<1>2. Members' = Members /\ Root' = Root /\ Unprocessed' = Unprocessed \ {node}
  BY DEF Members, Root, Unprocessed
<1>3. parent \in Unprocessed BY <1>1 DEF TreeReduceInv, Unprocessed
<1>4. \A q \in Node, n \in Node : engine'.tree_accum[q][n] =
        IF q = parent THEN engine.tree_accum[parent][n] + engine.tree_accum[node][n]
        ELSE engine.tree_accum[q][n]
  <2>1. engine.tree_accum \in Locals BY EngineFields DEF EngineGood
  <2>. QED BY <1>1, <2>1 DEF Locals, Plus
<1>5. engine'.processed \subseteq Members \ {Root}
  BY <1>1 DEF TreeReduceInv
<1>6. \A child \in Unprocessed' : topology.tree_parent[child] \notin engine'.processed
  BY <1>1, <1>2 DEF TreeReduceInv
<1>7. \A q \in Members, n \in Node \ Members : engine'.tree_accum[q][n] = 0
  <2>. TAKE q \in Members, n \in Node \ Members
  <2>1. /\ engine.tree_accum[q][n] = 0 /\ engine.tree_accum[parent][n] = 0
        /\ engine.tree_accum[node][n] = 0
    BY <1>1 DEF TreeReduceInv
  <2>. QED BY <1>4, <2>1, TreeNodes
<1>8. SelfLooped' \/ OwnedOnce'
  <2>1. CASE parent = node BY <2>1 DEF SelfLooped
  <2>2. CASE SelfLooped BY <2>2 DEF SelfLooped
  <2>3. CASE parent # node /\ OwnedOnce
    <3>1. SUFFICES ASSUME NEW n \in Members
                   PROVE  \E p \in Unprocessed' : \A q \in Unprocessed' :
                            engine'.tree_accum[q][n] = IF q = p THEN 1 ELSE 0
      BY <1>2 DEF OwnedOnce
    <3>2. PICK p \in Unprocessed : \A q \in Unprocessed :
                 engine.tree_accum[q][n] = IF q = p THEN 1 ELSE 0
      BY <2>3 DEF OwnedOnce
    <3>3. /\ n \in Node /\ Unprocessed \subseteq Node
      BY TreeNodes DEF Unprocessed
    <3>4. CASE p = node
      <4>1. \A q \in Unprocessed' :
              engine'.tree_accum[q][n] = IF q = parent THEN 1 ELSE 0
        BY <1>1, <1>2, <1>3, <1>4, <2>3, <3>2, <3>3, <3>4
      <4>. QED BY <1>2, <1>3, <2>3, <4>1
    <3>5. CASE p # node
      <4>1. \A q \in Unprocessed' :
              engine'.tree_accum[q][n] = IF q = p THEN 1 ELSE 0
        BY <1>1, <1>2, <1>3, <1>4, <2>3, <3>2, <3>3, <3>5
      <4>. QED BY <1>2, <3>5, <4>1
    <3>. QED BY <3>4, <3>5
  <2>. QED BY <2>1, <2>2, <2>3 DEF TreeReduceInv
<1>. QED BY <1>2, <1>5, <1>6, <1>7, <1>8 DEF TreeReduceInv, NoLocals, NoPayloads, Zero

\* When only the root is left, it holds the sum of all.
LEMMA RootHoldsSum ==
  ASSUME EngineGood, TreeReduceInv, OwnedOnce, Root \in Members,
         engine.processed = Members \ {Root}
  PROVE  engine.tree_accum[Root] = SumOf(Members)
<1>1. Unprocessed = {Root} BY DEF Unprocessed
<1>2. \A n \in Members : engine.tree_accum[Root][n] = 1 BY <1>1 DEF OwnedOnce
<1>3. \A n \in Node \ Members : engine.tree_accum[Root][n] = 0 BY DEF TreeReduceInv
<1>4. engine.tree_accum[Root] \in [Node -> Nat] BY TreeNodes DEF Word
<1>. QED BY <1>2, <1>3, <1>4 DEF SumOf

LEMMA TreeReduceGood ==
  ASSUME EngineGood, Frame, TreeReduce
  PROVE  EngineGood'
<1>0. /\ engine \in Engine /\ response \in Response /\ engine.state = "TREE_REDUCE"
      /\ ~ Idle /\ OperationInv /\ TreeReduceInv /\ Root \in Members /\ Root \in Node
  BY TreeNodes DEF EngineGood, TreeReduce, Idle, OperationInv, Gathered
<1>1. 0 \in Byte BY BoundsTyped
<1>2. CASE Fail("TOPOLOGY", Root, Root) BY <1>0, <1>2, FailGood DEF Status
<1>3. CASE TreeReduceRoot
  <2>1. CASE engine.processed \cup {Root} = Members
    <3>1. /\ engine' = [engine EXCEPT !.broadcast = {Root}, !.state = "TREE_BROADCAST"]
          /\ Store(Root, engine.tree_accum[Root])
      BY <1>3, <2>1 DEF TreeReduceRoot
    <3>2. {Root} \in Group /\ "TREE_BROADCAST" \in State BY <1>0 DEF Group, State
    <3>3. engine' \in Engine BY <1>0, <3>1, <3>2, Zenon DEF Engine
    <3>4. /\ engine'.state = "TREE_BROADCAST" /\ engine'.command = engine.command
          /\ engine'.broadcast = {Root} /\ engine'.processed = engine.processed
          /\ engine'.tree_accum = engine.tree_accum
      BY <1>0, <3>1 DEF Engine
    <3>5. /\ response' \in Response /\ response'.valid = response.valid
          /\ response'.alltoall = response.alltoall
          /\ response'.local = [response.local EXCEPT ![Root] = engine.tree_accum[Root]]
      <4>1. engine.tree_accum[Root] \in Word BY <1>0, TreeNodes
      <4>. QED BY <1>0, <3>1, <4>1, ResultPut
    <3>6. TreeBroadcastInv'
      <4>1. Members' = Members /\ Root' = Root BY <3>4 DEF Members, Root
      <4>2. engine.processed = Members \ {Root} BY <1>0, <2>1 DEF TreeReduceInv
      <4>3. SelfLooped \/ engine.tree_accum[Root] = SumOf(Members)
        BY <1>0, <4>2, RootHoldsSum DEF TreeReduceInv
      <4>4. SelfLooped' <=> SelfLooped BY <3>4 DEF SelfLooped, Frame
      <4>5. response'.local =
              [n \in Node |-> IF n \in {Root} THEN engine.tree_accum[Root] ELSE Zero]
        BY <1>0, <3>5 DEF TreeReduceInv, NoLocals
      <4>. QED BY <1>0, <3>4, <3>5, <4>1, <4>2, <4>3, <4>4, <4>5
               DEF TreeBroadcastInv, TreeReduceInv, SumOf, NoPayloads, Zero
    <3>. QED BY <1>0, <3>3, <3>4, <3>5, <3>6, GoesOnGood DEF Gathered
  <2>2. CASE engine.processed \cup {Root} # Members
    BY <1>2, <1>3, <2>2 DEF TreeReduceRoot
  <2>. QED BY <2>1, <2>2
<1>4. ASSUME NEW node \in Lowest(TreeReady) \ {Root}, TreeReduceNode(node)
      PROVE  EngineGood'
  <2>. DEFINE parent == topology.tree_parent[node]
  <2>1. node \in TreeReady /\ node \in Members /\ node \in Node /\ parent \in Node
    BY TreeNodes DEF Lowest, TreeReady
  <2>2. CASE Fail("TOPOLOGY", node, parent) BY <1>0, <2>1, <2>2, FailGood DEF Status
  <2>3. CASE Fail("PARTITION", node, parent) BY <1>0, <2>1, <2>3, FailGood DEF Status
  <2>4. CASE RetryOrFail(node, parent) BY <1>0, <2>1, <2>4, RetryGood
  <2>5. CASE /\ parent \in Members
             /\ Advance([Crossed EXCEPT
                           !.tree_accum[parent] = Plus(@, engine.tree_accum[node]),
                           !.processed = @ \cup {node}])
    <3>. DEFINE accum == [engine.tree_accum EXCEPT ![parent] =
                            Plus(engine.tree_accum[parent], engine.tree_accum[node])]
                processed == engine.processed \cup {node}
    <3>1. accum \in Locals
      <4>1. engine.tree_accum \in Locals BY <1>0, EngineFields
      <4>2. Plus(engine.tree_accum[parent], engine.tree_accum[node]) \in Word
        BY <2>1, TreeNodes, ConstantsTyped
      <4>. QED BY <4>1, <4>2 DEF Locals
    <3>2. processed \in Group BY <2>1, TreeNodes DEF Group
    <3>3. /\ engine' = [Crossed EXCEPT !.tree_accum = accum, !.processed = processed]
          /\ response' = response
      BY <1>0, <2>5 DEF Advance, Crossed, Engine
    <3>. HIDE DEF accum, processed
    <3>4. engine' \in Engine BY <1>0, <1>1, <3>1, <3>2, <3>3, Zenon DEF Engine, Crossed
    <3>5. /\ engine'.state = engine.state /\ engine'.command = engine.command
          /\ engine'.tree_accum = accum /\ engine'.processed = processed
      BY <1>0, <3>3 DEF Engine, Crossed
    <3>6. TreeReduceInv'
      <4>1. node \in TreeReady \ {Root} BY <2>1
      <4>. QED BY <1>0, <2>5, <3>3, <3>5, <4>1, HandingOver DEF accum, processed, Frame
    <3>. QED BY <1>0, <3>3, <3>4, <3>5, <3>6, GoesOnGood DEF Gathered
  <2>. QED BY <1>4, <2>2, <2>3, <2>4, <2>5 DEF TreeReduceNode
<1>. QED BY <1>2, <1>3, <1>4 DEF TreeReduce

LEMMA TreeBroadcastGood ==
  ASSUME EngineGood, Frame, TreeBroadcast
  PROVE  EngineGood'
<1>0. /\ engine \in Engine /\ response \in Response /\ engine.state = "TREE_BROADCAST"
      /\ ~ Idle /\ OperationInv /\ TreeBroadcastInv /\ Root \in Members /\ Root \in Node
  BY TreeNodes DEF EngineGood, TreeBroadcast, Idle, OperationInv, Gathered
<1>1. 0 \in Byte BY BoundsTyped
<1>2. CASE Fail("TOPOLOGY", Root, Root) BY <1>0, <1>2, FailGood DEF Status
<1>3. CASE engine.broadcast = Members /\ Complete
  <2>1. issued.command.opcode = "TREE_ALLREDUCE" /\ Members = issued.command.participants
    BY <1>0 DEF OperationInv, OpcodeOf, Members
  <2>2. ~ SelfLooped BY <1>0, <1>3 DEF SelfLooped, TreeBroadcastInv
  <2>3. engine.tree_accum[Root] = SumOf(Members) BY <1>0, <2>2 DEF TreeBroadcastInv
  <2>4. WholeResult(issued.command)
    BY <1>0, <1>3, <2>1, <2>3 DEF WholeResult, TreeBroadcastInv
  <2>. QED BY <1>0, <1>3, <2>4, CompleteGood
<1>4. ASSUME NEW node \in Lowest(BroadcastReady), TreeBroadcastNode(node)
      PROVE  EngineGood'
  <2>. DEFINE parent == topology.tree_parent[node]
  <2>1. /\ node \in Members \ engine.broadcast /\ parent \in engine.broadcast
        /\ node \in Node /\ parent \in Node
    BY TreeNodes DEF Lowest, BroadcastReady
  <2>2. CASE Fail("TOPOLOGY", parent, node) BY <1>0, <2>1, <2>2, FailGood DEF Status
  <2>3. CASE RetryOrFail(parent, node) BY <1>0, <2>1, <2>3, RetryGood
  <2>4. CASE /\ engine' = [Crossed EXCEPT !.broadcast = @ \cup {node}]
             /\ Store(node, engine.tree_accum[Root])
    <3>. DEFINE broadcast == engine.broadcast \cup {node}
    <3>1. broadcast \in Group BY <2>1, TreeNodes DEF Group
    <3>2. engine' = [Crossed EXCEPT !.broadcast = broadcast]
      BY <1>0, <2>4 DEF Crossed, Engine
    <3>. HIDE DEF broadcast
    <3>3. engine' \in Engine BY <1>0, <1>1, <3>1, <3>2, Zenon DEF Engine, Crossed
    <3>4. /\ engine'.state = engine.state /\ engine'.command = engine.command
          /\ engine'.broadcast = broadcast /\ engine'.processed = engine.processed
          /\ engine'.tree_accum = engine.tree_accum
      BY <1>0, <3>2 DEF Engine, Crossed
    <3>5. /\ response' \in Response /\ response'.valid = response.valid
          /\ response'.alltoall = response.alltoall
          /\ response'.local = [response.local EXCEPT ![node] = engine.tree_accum[Root]]
      <4>1. engine.tree_accum[Root] \in Word BY <1>0, TreeNodes
      <4>. QED BY <1>0, <2>1, <2>4, <4>1, ResultPut
    <3>6. TreeBroadcastInv'
      <4>1. Members' = Members /\ Root' = Root BY <3>4 DEF Members, Root
      <4>2. SelfLooped' <=> SelfLooped BY <3>4 DEF SelfLooped, Frame
      <4>3. response'.local =
              [n \in Node |-> IF n \in broadcast THEN engine.tree_accum[Root] ELSE Zero]
        BY <1>0, <2>1, <3>5 DEF TreeBroadcastInv, broadcast
      <4>4. /\ broadcast \subseteq Members
            /\ \A b \in broadcast \ {Root} : topology.tree_parent[b] # b
        BY <1>0, <2>1 DEF TreeBroadcastInv, broadcast
      <4>. QED BY <1>0, <3>4, <3>5, <4>1, <4>2, <4>3, <4>4
               DEF TreeBroadcastInv, SumOf, NoPayloads, Zero, Frame
    <3>. QED BY <1>0, <3>3, <3>4, <3>5, <3>6, GoesOnGood DEF Gathered
  <2>. QED BY <1>4, <2>2, <2>3, <2>4 DEF TreeBroadcastNode
<1>. QED BY <1>2, <1>3, <1>4 DEF TreeBroadcast

-----------------------------------------------------------------------------
(* All-to-all *)

\* Delivering the pair whose turn it is, or skipping one that is not asked for.
LEMMA PairTaken ==
  ASSUME EngineGood, ExchangeInv, engine.pair_index \in 0 .. NumPairs - 1,
         engine'.command = engine.command, engine'.pair_index = engine.pair_index + 1,
         \/ /\ ~ (/\ Pair(engine.pair_index)[1] \in Members
                  /\ Pair(engine.pair_index)[2] \in Members)
            /\ response' = response
         \/ /\ Pair(engine.pair_index)[1] \in Members
            /\ Pair(engine.pair_index)[2] \in Members
            /\ Deliver(Pair(engine.pair_index))
  PROVE  ExchangeInv'
<1>. DEFINE pair == Pair(engine.pair_index)
<1>0. response \in Response /\ Members' = Members BY DEF EngineGood, Members
<1>1. ASSUME NEW s \in Node, NEW d \in Node
      PROVE  Delivered(s, d)' <=>
               (Delivered(s, d) \/ (s \in Members /\ d \in Members /\ <<s, d>> = pair))
  BY <1>0, NextPair DEF Delivered
<1>2. /\ pair \in Edge /\ pair[1] \in Node /\ pair[2] \in Node
      /\ \A s, d \in Node : <<s, d>> = pair => pair[1] = s /\ pair[2] = d
  <2>1. \E s \in Node : TRUE BY ConstantsTyped
  <2>2. pair \in Edge BY <2>1, NextPair
  <2>. QED BY <2>2 DEF Edge
<1>3. CASE ~ (pair[1] \in Members /\ pair[2] \in Members) /\ response' = response
  <2>1. \A s, d \in Node : Delivered(s, d)' <=> Delivered(s, d) BY <1>1, <1>2, <1>3
  <2>. QED BY <1>3, <2>1 DEF ExchangeInv, NoLocals, Zero
<1>4. CASE pair[1] \in Members /\ pair[2] \in Members /\ Deliver(pair)
  <2>. HIDE DEF pair
  <2>1. /\ response'.local = response.local
        /\ \A s, d \in Node : response'.alltoall[d][s] =
             IF <<s, d>> = pair THEN pair ELSE response.alltoall[d][s]
    BY <1>0, <1>2, <1>4, PayloadPut
  <2>2. \A s, d \in Node : Delivered(s, d)' <=> (Delivered(s, d) \/ <<s, d>> = pair)
    BY <1>1, <1>2, <1>4
  <2>3. \A s, d \in Node :
          response'.alltoall[d][s] = IF Delivered(s, d)' THEN <<s, d>> ELSE NoPayload
    BY <2>1, <2>2 DEF ExchangeInv
  <2>. QED BY <2>1, <2>3 DEF ExchangeInv, NoLocals, Zero
<1>. QED BY <1>3, <1>4

\* After the last pair everything is delivered.
LEMMA AllDelivered ==
  ASSUME EngineGood, ExchangeInv, engine.pair_index = NumPairs, Members \subseteq Node
  PROVE  response.alltoall =
           [d \in Node |-> [s \in Node |->
              IF d \in Members /\ s \in Members THEN <<s, d>> ELSE NoPayload]]
<1>1. \A s, d \in Node : Index(s, d) < NumPairs
  <2>1. NumPairs \in Int BY TopologyAssumption, SMT DEF NumPairs
  <2>. QED BY IndexRange, <2>1
<1>2. \A s, d \in Node : response.alltoall[d][s] =
        IF d \in Members /\ s \in Members THEN <<s, d>> ELSE NoPayload
  BY <1>1 DEF ExchangeInv, Delivered
<1>3. response.alltoall \in [Node -> [Node -> Payload]]
  BY ResponseFields DEF EngineGood, Payloads
<1>. QED BY <1>2, <1>3

LEMMA PairIndexStep ==
  ASSUME EngineGood, engine.pair_index # NumPairs
  PROVE  /\ engine.pair_index \in 0 .. NumPairs - 1 /\ engine.pair_index < NumPairs
         /\ engine.pair_index + 1 \in PairIndex
         /\ Pair(engine.pair_index) \in Edge
<1>1. NumPairs \in Int BY TopologyAssumption, SMT DEF NumPairs
<1>2. engine.pair_index \in 0 .. NumPairs BY EngineFields DEF EngineGood, PairIndex
<1>3. /\ engine.pair_index \in 0 .. NumPairs - 1 /\ engine.pair_index < NumPairs
      /\ engine.pair_index + 1 \in PairIndex
  BY <1>1, <1>2 DEF PairIndex
<1>. QED BY <1>3, NextPair, ConstantsTyped

LEMMA SelectPairGood ==
  ASSUME EngineGood, Frame, SelectPair
  PROVE  EngineGood'
<1>. DEFINE pair == Pair(engine.pair_index)
            next == engine.pair_index + 1
            selected == [Crossed EXCEPT !.pair = pair, !.hop_count = 0]
            skipped == [selected EXCEPT !.pair_index = @ + 1]
<1>0. /\ engine \in Engine /\ response \in Response /\ engine.state = "A2A_SELECT"
      /\ ~ Idle /\ OperationInv /\ ExchangeInv
  BY DEF EngineGood, SelectPair, Idle, OperationInv, Gathered
<1>1. 0 \in Byte /\ 0 \in HopCount BY BoundsTyped
<1>2. CASE engine.pair_index = NumPairs /\ Complete
  <2>1. issued.command.opcode = "ALLTOALL" /\ Members = issued.command.participants
    BY <1>0 DEF OperationInv, OpcodeOf, Members
  <2>2. Members \subseteq Node BY TreeNodes
  <2>3. WholeResult(issued.command)
    BY <1>0, <1>2, <2>1, <2>2, AllDelivered DEF WholeResult, ExchangeInv
  <2>. QED BY <1>0, <1>2, <2>3, CompleteGood
<1>3. CASE engine.pair_index # NumPairs
  <2>1. /\ engine.pair_index \in 0 .. NumPairs - 1 /\ engine.pair_index < NumPairs
        /\ next \in PairIndex /\ pair \in Edge
    BY <1>3, PairIndexStep
  <2>2. pair[1] \in Node BY <2>1 DEF Edge
  <2>3. CASE /\ engine' = skipped
             /\ \/ ~ (pair[1] \in Members /\ pair[2] \in Members) /\ response' = response
                \/ pair[1] \in Members /\ pair[1] = pair[2] /\ Deliver(pair)
    <3>0. engine' = [Crossed EXCEPT !.pair = pair, !.hop_count = 0, !.pair_index = next]
      <4>1. selected.pair_index = engine.pair_index BY <1>0 DEF Engine, Crossed
      <4>2. skipped = [selected EXCEPT !.pair_index = next] BY <4>1, Zenon
      <4>. QED BY <2>3, <4>2
    <3>. HIDE DEF pair, next, skipped
    <3>1. engine' \in Engine BY <1>0, <1>1, <2>1, <3>0, Zenon DEF Engine, Crossed
    <3>2. /\ engine'.state = "A2A_SELECT" /\ engine'.command = engine.command
          /\ engine'.pair_index = next
      BY <1>0, <3>0 DEF Engine, Crossed
    <3>3. CASE ~ (pair[1] \in Members /\ pair[2] \in Members) /\ response' = response
      <4>1. ExchangeInv' BY <1>0, <2>1, <3>2, <3>3, PairTaken DEF pair, next
      <4>. QED BY <1>0, <3>1, <3>2, <3>3, <4>1, GoesOnGood DEF Gathered
    <3>4. CASE pair[1] \in Members /\ pair[1] = pair[2] /\ Deliver(pair)
      <4>1. ExchangeInv' BY <1>0, <2>1, <3>2, <3>4, PairTaken DEF pair, next
      <4>2. response' \in Response /\ response'.valid = response.valid
        BY <1>0, <2>1, <3>4, PayloadPut
      <4>. QED BY <1>0, <3>1, <3>2, <4>1, <4>2, GoesOnGood DEF Gathered
    <3>. QED BY <2>3, <3>3, <3>4
  <2>4. CASE /\ pair[1] \in Members /\ pair[2] \in Members
             /\ engine' = [selected EXCEPT !.current = pair[1], !.state = "A2A_ROUTE"]
             /\ response' = response
    <3>1. "A2A_ROUTE" \in State BY DEF State
    <3>. HIDE DEF pair, next
    <3>2. engine' \in Engine
      BY <1>0, <1>1, <2>1, <2>2, <2>4, <3>1, Zenon DEF Engine, Crossed
    <3>3. /\ engine'.state = "A2A_ROUTE" /\ engine'.command = engine.command
          /\ engine'.pair_index = engine.pair_index /\ engine'.pair = pair
      BY <1>0, <2>4 DEF Engine, Crossed
    <3>4. Members' = Members BY <3>3 DEF Members
    <3>5. ExchangeInv'
      BY <1>0, <2>4, <3>3, <3>4 DEF ExchangeInv, Delivered, NoLocals, Zero
    <3>6. RouteInv' BY <2>1, <2>4, <3>3, <3>4 DEF RouteInv, pair
    <3>. QED BY <1>0, <2>4, <3>2, <3>3, <3>5, <3>6, GoesOnGood DEF Gathered
  <2>. QED BY <1>3, <2>3, <2>4, Zenon DEF SelectPair, Advance
<1>. QED BY <1>2, <1>3 DEF SelectPair

LEMMA RoutePairGood ==
  ASSUME EngineGood, Frame, RoutePair
  PROVE  EngineGood'
<1>. DEFINE from == engine.current
            destination == engine.pair[2]
            to == topology.next_hop[from][destination]
            hops == engine.hop_count + 1
            next == engine.pair_index + 1
            moved == [Crossed EXCEPT !.hop_count = @ + 1, !.current = to]
<1>0. /\ engine \in Engine /\ response \in Response /\ engine.state = "A2A_ROUTE"
      /\ ~ Idle /\ OperationInv /\ ExchangeInv /\ RouteInv
  BY DEF EngineGood, RoutePair, Idle, OperationInv, Gathered
<1>1. from \in Node /\ destination \in Node /\ to \in Node
  <2>1. from \in Node /\ engine.pair \in Edge BY <1>0, EngineFields
  <2>2. topology.next_hop \in [Node -> [Node -> Node]] BY DEF EngineGood, Topology
  <2>. QED BY <2>1, <2>2 DEF Edge
<1>2. 0 \in Byte BY BoundsTyped
<1>3. CASE engine.hop_count >= NUM_NODES /\ Fail("HOP_LIMIT", from, destination)
  BY <1>0, <1>1, <1>3, FailGood DEF Status
<1>4. CASE engine.hop_count < NUM_NODES /\ RouteHop
  <2>1. hops \in HopCount
    <3>1. engine.hop_count \in 0 .. NUM_NODES BY <1>0, EngineFields DEF HopCount
    <3>. QED BY <1>4, <3>1, TopologyAssumption DEF HopCount
  <2>2. CASE HopRefused(from, to) BY <1>0, <1>1, <2>2, RefusedGood
  <2>3. CASE Fail("TOPOLOGY", from, to) BY <1>0, <1>1, <2>3, FailGood DEF Status
  <2>0. /\ moved = [Crossed EXCEPT !.hop_count = hops, !.current = to]
        /\ moved.pair_index = engine.pair_index
    <3>1. Crossed.hop_count = engine.hop_count BY <1>0 DEF Engine, Crossed
    <3>2. moved.pair_index = engine.pair_index BY <1>0 DEF Engine, Crossed
    <3>. QED BY <3>1, <3>2, Zenon
  <2>4. CASE engine' = moved /\ response' = response
    <3>0. engine' = [Crossed EXCEPT !.hop_count = hops, !.current = to] BY <2>0, <2>4
    <3>. HIDE DEF hops, moved
    <3>1. engine' \in Engine BY <1>0, <1>1, <1>2, <2>1, <3>0, Zenon DEF Engine, Crossed
    <3>2. /\ engine'.state = engine.state /\ engine'.command = engine.command
          /\ engine'.pair_index = engine.pair_index /\ engine'.pair = engine.pair
      BY <1>0, <3>0 DEF Engine, Crossed
    <3>3. Members' = Members BY <3>2 DEF Members
    <3>4. ExchangeInv'
      BY <1>0, <2>4, <3>2, <3>3 DEF ExchangeInv, Delivered, NoLocals, Zero
    <3>5. RouteInv' BY <1>0, <3>2, <3>3 DEF RouteInv
    <3>. QED BY <1>0, <2>4, <3>1, <3>2, <3>4, <3>5, GoesOnGood DEF Gathered
  <2>5. CASE /\ engine' = [moved EXCEPT !.pair_index = @ + 1, !.state = "A2A_SELECT"]
             /\ Deliver(engine.pair)
    <3>0. engine' = [Crossed EXCEPT !.hop_count = hops, !.current = to,
                                    !.pair_index = next, !.state = "A2A_SELECT"]
      <4>. HIDE DEF moved, hops
      <4>1. engine' = [moved EXCEPT !.pair_index = next, !.state = "A2A_SELECT"]
        BY <2>0, <2>5, Zenon
      <4>. QED BY <2>0, <4>1, Zenon
    <3>1. engine.pair_index # NumPairs
      <4>1. NumPairs \in Int BY TopologyAssumption, SMT DEF NumPairs
      <4>. QED BY <1>0, <4>1 DEF RouteInv
    <3>2. /\ engine.pair_index \in 0 .. NumPairs - 1 /\ next \in PairIndex
          /\ engine.pair \in Edge /\ "A2A_SELECT" \in State
      BY <1>0, <3>1, PairIndexStep DEF RouteInv, State
    <3>. HIDE DEF hops, next, moved
    <3>3. engine' \in Engine
      BY <1>0, <1>1, <1>2, <2>1, <3>0, <3>2, Zenon DEF Engine, Crossed
    <3>4. /\ engine'.state = "A2A_SELECT" /\ engine'.command = engine.command
          /\ engine'.pair_index = next
      BY <1>0, <3>0 DEF Engine, Crossed
    <3>5. ExchangeInv' BY <1>0, <2>5, <3>2, <3>4, PairTaken DEF RouteInv, next
    <3>6. response' \in Response /\ response'.valid = response.valid
      BY <1>0, <2>5, <3>2, PayloadPut
    <3>. QED BY <1>0, <3>3, <3>4, <3>5, <3>6, GoesOnGood DEF Gathered
  <2>. QED BY <1>4, <2>2, <2>3, <2>4, <2>5, Zenon DEF RouteHop, Advance
<1>. QED BY <1>3, <1>4 DEF RoutePair

-----------------------------------------------------------------------------
(* Software: commands, faults and table entries *)

SoftwareTyped ==
  /\ program \in Seq(NodeEntry \cup RouteEntry)
  /\ fault \in Fault \cup {NoFault}
  /\ issued \in Issued

LEMMA ConfiguredTyped ==
  ASSUME fault \in Fault \cup {NoFault}, NEW setting \in Settings
  PROVE  Configured(setting) \in Fault \cup {NoFault}
<1>1. setting.arm \in {NoFault} \cup [edge : FaultEdges, persistent : BOOLEAN]
  BY DEF Settings
<1>2. [edge : FaultEdges, persistent : BOOLEAN] \subseteq Fault
  BY EngineAssumption DEF Fault
<1>. QED BY <1>1, <1>2 DEF Configured

LEMMA WriteTyped ==
  ASSUME NEW t \in Topology, NEW e \in NodeEntry \cup RouteEntry
  PROVE  Write(t, e) \in Topology
<1>1. CASE e \in NodeEntry
  <2>1. /\ e.node \in Node /\ e.partition \in Partitions /\ e.ring_next \in Node
        /\ e.tree_parent \in Node
    BY <1>1 DEF NodeEntry
  <2>. QED BY <1>1, <2>1 DEF Write, WriteNode, With, Topology
<1>2. CASE e \notin NodeEntry
  <2>1. e.node \in Node /\ e.destination \in Node /\ e.next_hop \in Node
    BY <1>2 DEF RouteEntry
  <2>2. With(t.links, <<e.node, e.next_hop>>, e.link_enable) \in SUBSET (Node \X Node)
    BY <2>1 DEF With, Topology
  <2>. QED BY <1>2, <2>1, <2>2 DEF Write, WriteRoute, Topology
<1>. QED BY <1>1, <1>2

LEMMA ProgramsTyped ==
  /\ ResetTopology \in Topology
  /\ Programs \cup Repairs \subseteq Seq(NodeEntry \cup RouteEntry)
BY ConstantsTyped, TopologyAssumption, EngineAssumption DEF ResetTopology, Topology

LEMMA AcceptGood ==
  ASSUME EngineGood, SoftwareTyped, NEW c \in Commands, NEW setting \in Settings,
         Accept(c, setting)
  PROVE  EngineGood' /\ SoftwareTyped'
<1>0. /\ engine \in Engine /\ response \in Response /\ topology' = topology
      /\ topology \in Topology /\ Idle /\ StartOrRefuse(c) /\ issued'.command = c
  BY DEF EngineGood, Accept, CmdReady, Issue
<1>1. /\ c \in Command /\ c.collective_id \in Byte /\ c.root \in Node
      /\ c.participants \in SUBSET Node
  BY EngineAssumption DEF Command, Byte
<1>2. ASSUME NEW status \in Status \ {"OK"}, NEW edge \in Edge, Refuse(c, status, edge)
      PROVE  EngineGood'
  <2>1. /\ response'.collective_id = c.collective_id /\ response'.status = status
        /\ response'.committed = FALSE
        /\ response'.local = NoLocals /\ response'.alltoall = NoPayloads
    BY <1>2 DEF Refuse, NoResponse
  <2>2. response' \in Response
    BY <1>1, <1>2, ConstantsTyped, BoundsTyped DEF Refuse, NoResponse, Response
  <2>3. engine' = engine BY <1>2 DEF Refuse
  <2>4. CommitsWholeOrNothing'
    BY <1>0, <2>1 DEF CommitsWholeOrNothing, NoLocals, NoPayloads, Zero
  <2>. QED BY <1>0, <2>2, <2>3, <2>4 DEF EngineGood, Idle
<1>3. ASSUME ~ BadCommand(c), c.opcode # "UNKNOWN", engine' = Started(c),
             response' = [NoResponse EXCEPT !.edge = response.edge]
      PROVE  EngineGood'
  <2>1. /\ response' \in Response /\ ~ response'.valid
        /\ response'.local = NoLocals /\ response'.alltoall = NoPayloads
    <3>1. response.edge \in Edge BY <1>0, ResponseFields
    <3>. QED BY <1>3, <3>1, ConstantsTyped, BoundsTyped
             DEF NoResponse, Response, Status
  <2>2. c.root \in c.participants BY <1>3 DEF BadCommand
  <2>3. c.opcode \in {"RING_ALLREDUCE", "TREE_ALLREDUCE", "ALLTOALL"}
    BY <1>1, <1>3 DEF Command, Opcode
  <2>4. FirstState(c.opcode) = CASE c.opcode = "RING_ALLREDUCE" -> "RING_REDUCE"
                                 [] c.opcode = "TREE_ALLREDUCE" -> "TREE_REDUCE"
                                 [] OTHER -> "A2A_SELECT"
    BY <2>3 DEF FirstState
  <2>. DEFINE own == [n \in Node |-> LocalValue(n)]
  <2>5. engine' \in Engine
    <3>1. own \in Locals /\ LocalValue(c.root) \in Word BY <1>1, ConstantsTyped DEF Locals
    <3>2. {c.root} \in Group BY <1>1 DEF Group
    <3>3. FirstState(c.opcode) \in State BY <2>3, <2>4 DEF State
    <3>. HIDE DEF own
    <3>4. engine' = [NoOperation EXCEPT
                       !.state = FirstState(c.opcode), !.command = c, !.current = c.root,
                       !.reduction = LocalValue(c.root), !.visited = {c.root},
                       !.tree_accum = own]
      BY <1>3 DEF Started, own
    <3>. QED BY <1>1, <3>1, <3>2, <3>3, <3>4, NoOperationTyped, Zenon DEF Engine
  <2>6. /\ engine'.state = FirstState(c.opcode) /\ engine'.command = c
        /\ engine'.reduction = LocalValue(c.root) /\ engine'.visited = {c.root}
        /\ engine'.processed = {} /\ engine'.pair_index = 0 /\ engine'.tree_accum = own
    BY <1>3 DEF Started, NoOperation
  <2>. HIDE DEF own
  <2>7. /\ Members' = c.participants /\ Root' = c.root BY <2>6 DEF Members, Root
  <2>8. ASSUME Gathered', c.opcode = OpcodeOf(engine'.state)
        PROVE  EngineGood'
    <3>1. OperationInv' BY <1>0, <2>1, <2>2, <2>6, <2>7, <2>8 DEF OperationInv
    <3>. QED BY <1>0, <2>1, <2>5, <3>1 DEF EngineGood, CommitsWholeOrNothing
  <2>9. CASE c.opcode = "RING_ALLREDUCE"
    <3>1. engine'.state = "RING_REDUCE" BY <2>4, <2>6, <2>9
    <3>2. LocalValue(c.root) = SumOf({c.root}) BY DEF LocalValue, SumOf
    <3>3. RingReduceInv'
      BY <2>1, <2>2, <2>6, <2>7, <3>2
      DEF RingReduceInv, own, SumOf, LocalValue, NoLocals, NoPayloads, Zero
    <3>8. Gathered' BY <3>1, <3>3 DEF Gathered
    <3>9. c.opcode = OpcodeOf(engine'.state) BY <2>9, <3>1 DEF OpcodeOf
    <3>. QED BY <2>8, <3>8, <3>9
  <2>10. CASE c.opcode = "TREE_ALLREDUCE"
    <3>1. engine'.state = "TREE_REDUCE" BY <2>4, <2>6, <2>10
    <3>2. Unprocessed' = c.participants BY <2>6, <2>7 DEF Unprocessed
    <3>3. OwnedOnce'
      <4>1. \A n, p \in c.participants :
              engine'.tree_accum[p][n] = IF p = n THEN 1 ELSE 0
        BY <1>1, <2>6 DEF own, LocalValue
      <4>. QED BY <2>7, <3>2, <4>1 DEF OwnedOnce
    <3>4. \A q \in c.participants, n \in Node \ c.participants :
            engine'.tree_accum[q][n] = 0
      BY <1>1, <2>6 DEF own, LocalValue
    <3>5. TreeReduceInv'
      BY <2>1, <2>6, <2>7, <3>3, <3>4 DEF TreeReduceInv, NoLocals, NoPayloads, Zero
    <3>8. Gathered' BY <3>1, <3>5 DEF Gathered
    <3>9. c.opcode = OpcodeOf(engine'.state) BY <2>10, <3>1 DEF OpcodeOf
    <3>. QED BY <2>8, <3>8, <3>9
  <2>11. CASE c.opcode = "ALLTOALL"
    <3>1. engine'.state = "A2A_SELECT" BY <2>4, <2>6, <2>11
    <3>2. \A s, d \in Node : ~ Delivered(s, d)'
      <4>1. \A s, d \in Node : ~ Index(s, d) < 0
        BY IndexRange, TopologyAssumption, SMT DEF NumPairs
      <4>. QED BY <2>6, <4>1 DEF Delivered
    <3>3. ExchangeInv'
      BY <2>1, <3>2 DEF ExchangeInv, NoLocals, NoPayloads, Zero
    <3>8. Gathered' BY <3>1, <3>3 DEF Gathered
    <3>9. c.opcode = OpcodeOf(engine'.state) BY <2>11, <3>1 DEF OpcodeOf
    <3>. QED BY <2>8, <3>8, <3>9
  <2>. QED BY <2>3, <2>9, <2>10, <2>11
<1>4. EngineGood'
  <2>1. response.edge \in Edge /\ <<0, 0>> \in Edge
    BY <1>0, ResponseFields, ConstantsTyped
  <2>. QED BY <1>0, <1>2, <1>3, <2>1 DEF StartOrRefuse, Status
<1>5. SoftwareTyped'
  <2>1. program' = program /\ fault' \in Fault \cup {NoFault}
    BY ConfiguredTyped DEF Accept, SoftwareTyped
  <2>2. issued' \in Issued
    <3>1. issued' = Issue(c) BY DEF Accept
    <3>. QED BY <3>1, EngineAssumption DEF Issue, Issued
  <2>. QED BY <2>1, <2>2 DEF SoftwareTyped
<1>. QED BY <1>4, <1>5

LEMMA OperateGood ==
  ASSUME EngineGood, SoftwareTyped, NEW setting \in Settings, Operate(setting)
  PROVE  EngineGood' /\ SoftwareTyped'
<1>1. issued' \in Issued /\ issued'.command = issued.command
  <2>1. /\ issued \in Issued /\ issued' = Noted(setting) /\ MaxArms \in Nat
        /\ Arms(setting) => issued.arms < MaxArms
    BY EngineAssumption DEF SoftwareTyped, Operate
  <2>2. CASE ~ Arms(setting) BY <2>1, <2>2 DEF Noted
  <2>3. CASE Arms(setting)
    <3>. DEFINE arms == issued.arms + 1
                persistent == issued.persistent \/ setting.arm.persistent
    <3>1. /\ issued' = [issued EXCEPT !.arms = arms, !.persistent = persistent]
          /\ arms \in 0 .. MaxArms + 1 /\ persistent \in BOOLEAN
      BY <2>1, <2>3 DEF Noted, Issued
    <3>. HIDE DEF arms, persistent
    <3>. QED BY <2>1, <3>1 DEF Issued
  <2>. QED BY <2>2, <2>3
<1>2. Frame BY <1>1 DEF Operate, Frame
<1>3. EngineGood'
  BY <1>2, RingReduceGood, RingBroadcastGood, TreeReduceGood, TreeBroadcastGood,
     SelectPairGood, RoutePairGood
  DEF Operate
<1>4. program' = program /\ fault' \in Fault \cup {NoFault}
  BY ConfiguredTyped DEF Operate, SoftwareTyped, FaultNext
<1>. QED BY <1>1, <1>3, <1>4 DEF SoftwareTyped

LEMMA RestGood ==
  ASSUME EngineGood, SoftwareTyped, NEW setting \in Settings, NEW rsp_ready \in BOOLEAN,
         Rest(rsp_ready, setting)
  PROVE  EngineGood' /\ SoftwareTyped'
<1>0. /\ response \in Response /\ engine \in Engine /\ engine' = engine /\ Idle
      /\ topology \in Topology /\ Configure
  BY DEF EngineGood, Rest
<1>1. /\ topology' \in Topology /\ program' \in Seq(NodeEntry \cup RouteEntry)
      /\ issued' \in Issued /\ issued'.command = issued.command
  <2>1. program \in Seq(NodeEntry \cup RouteEntry) /\ issued \in Issued BY DEF SoftwareTyped
  <2>2. CASE program = <<>> BY <1>0, <2>1, <2>2 DEF Configure
  <2>3. CASE program # <<>>
    <3>1. /\ topology' = Write(topology, Head(program)) /\ program' = Tail(program)
          /\ issued' = [issued EXCEPT !.reprogrammed = TRUE]
      BY <1>0, <2>3 DEF Configure
    <3>2. /\ Head(program) \in NodeEntry \cup RouteEntry
          /\ Tail(program) \in Seq(NodeEntry \cup RouteEntry)
      BY <2>1, <2>3
    <3>3. issued' \in Issued /\ issued'.command = issued.command BY <2>1, <3>1 DEF Issued
    <3>. QED BY <1>0, <3>1, <3>2, <3>3, WriteTyped
  <2>. QED BY <2>2, <2>3
<1>2. response' \in Response /\ (response' = response \/ ~ response'.valid)
  <2>1. CASE response' = response BY <1>0, <2>1
  <2>2. CASE response' = [NoResponse EXCEPT !.edge = response.edge]
    <3>1. response.edge \in Edge BY <1>0, ResponseFields
    <3>. QED BY <2>2, <3>1, ConstantsTyped, BoundsTyped DEF NoResponse, Response, Status
  <2>. QED BY <2>1, <2>2 DEF Rest
<1>3. CommitsWholeOrNothing'
  BY <1>1, <1>2
  DEF EngineGood, CommitsWholeOrNothing, WholeResult, SumOf, NoLocals, NoPayloads, Zero
<1>4. fault' \in Fault \cup {NoFault} BY ConfiguredTyped DEF Rest, SoftwareTyped
<1>. QED BY <1>0, <1>1, <1>2, <1>3, <1>4 DEF EngineGood, SoftwareTyped, Idle

LEMMA ReprogramGood ==
  ASSUME EngineGood, SoftwareTyped, Reprogram
  PROVE  EngineGood' /\ SoftwareTyped'
<1>1. program' \in Seq(NodeEntry \cup RouteEntry) BY ProgramsTyped DEF Reprogram
<1>2. /\ topology' = topology /\ engine' = engine /\ fault' = fault
      /\ response' = response /\ issued' = issued /\ Idle
  BY DEF Reprogram
<1>3. CommitsWholeOrNothing'
  BY <1>2 DEF EngineGood, CommitsWholeOrNothing, WholeResult, SumOf, NoLocals, NoPayloads,
              Zero
<1>. QED BY <1>1, <1>2, <1>3 DEF EngineGood, SoftwareTyped, Idle, Issued

-----------------------------------------------------------------------------
(* The theorems *)

LEMMA InitGood == Init => EngineGood /\ SoftwareTyped
<1>1. NothingIssued \in Issued BY EngineAssumption DEF NothingIssued, Issued
<1>. QED BY <1>1, NoOperationTyped, NoResponseTyped, ProgramsTyped
         DEF Init, EngineGood, SoftwareTyped, Idle, CommitsWholeOrNothing

LEMMA ResetGood == Reset => EngineGood' /\ SoftwareTyped'
<1>1. NothingIssued \in Issued BY EngineAssumption DEF NothingIssued, Issued
<1>. QED BY <1>1, NoOperationTyped, NoResponseTyped, ProgramsTyped
         DEF Reset, EngineGood, SoftwareTyped, Idle, CommitsWholeOrNothing, Issued

LEMMA StepGood ==
  ASSUME EngineGood, SoftwareTyped, [Next]_vars
  PROVE  EngineGood' /\ SoftwareTyped'
<1>1. CASE Next
  BY <1>1, AcceptGood, OperateGood, RestGood, ReprogramGood, ResetGood DEF Next
<1>2. CASE UNCHANGED vars
  BY <1>2
  DEF vars, EngineGood, SoftwareTyped, Idle, OperationInv, Gathered, Members, Root,
      RingReduceInv, RingBroadcastInv, TreeReduceInv, TreeBroadcastInv, ExchangeInv,
      RouteInv, Delivered, Unprocessed, OwnedOnce, SelfLooped, CommitsWholeOrNothing,
      WholeResult, Issued
<1>. QED BY <1>1, <1>2

\* The operation under way has gathered exactly what its state says.
THEOREM EngineInvariant == Spec => [](EngineGood /\ SoftwareTyped)
<1>. QED BY InitGood, StepGood, PTL DEF Spec

\* The registers keep their types.
THEOREM CollectiveTypeCorrect == Spec => []TypeOK
<1>1. EngineGood /\ SoftwareTyped => TypeOK BY DEF EngineGood, SoftwareTyped, TypeOK
<1>. QED BY <1>1, EngineInvariant, PTL

\* A response carries the whole result of its command or nothing: for every number
\* of nodes, every table, good or bad, and every injected fault.
THEOREM WholeOrNothing == Spec => []CommitsWholeOrNothing
<1>1. EngineGood => CommitsWholeOrNothing BY DEF EngineGood
<1>. QED BY <1>1, EngineInvariant, PTL
-----------------------------------------------------------------------------
(* Verdicts: the invariant *)

\* The trail of ring nodes from the root to cur: a path, over open links, that
\* has not come back to the root.
Trail(S, cur) ==
  /\ Root \in S /\ cur \in S /\ S \subseteq Members
  /\ \A n \in S \ {cur} :
       /\ topology.ring_next[n] \in S \ {Root}
       /\ <<n, topology.ring_next[n]>> \in topology.links
  /\ \A m \in S \ {Root} : \E n \in S \ {cur} : topology.ring_next[n] = m
  /\ \A m, n \in S \ {cur} : topology.ring_next[m] = topology.ring_next[n] => m = n
  /\ \A T \in SUBSET (S \ {cur}) : T # {} => \E n \in T : topology.ring_next[n] \notin T

\* The nodes that handed their sums up have a parent in the group and a link to it.
HandedUp(S) ==
  \A n \in S : /\ topology.tree_parent[n] \in Members
               /\ <<n, topology.tree_parent[n]>> \in topology.links

\* The nodes that were told are below the root, over links downwards.
Told(S) ==
  /\ Root \in S
  /\ \A n \in S \ {Root} : /\ topology.tree_parent[n] \in S
                           /\ <<topology.tree_parent[n], n>> \in topology.links
  /\ \A T \in SUBSET (S \ {Root}) : T # {} => \E n \in T : topology.tree_parent[n] \notin T

NextHop(n, d) == topology.next_hop[n][d]

HopGood(n, d) == NextHop(n, d) \in Members /\ <<n, NextHop(n, d)>> \in topology.links

\* No set of nodes without d that holds s is closed under the routes to d.
Arrives(s, d) ==
  \A T \in SUBSET (Members \ {d}) : s \in T => \E n \in T : NextHop(n, d) \notin T

\* The route under way: it has come from its source to the current node, and on
\* good routes it has left as many nodes behind as it took hops.
UnderWay(s, d, cur, hops) ==
  /\ s # d /\ cur \in Members \ {d}
  /\ cur = s \/ HopGood(s, d)
  /\ \A T \in SUBSET (Members \ {d}) :
       s \in T /\ (\A n \in T : NextHop(n, d) \in T) => cur \in T
  /\ RoutesConnect(topology, Members) =>
       \E V \in SUBSET (Members \ {d, cur}) :
         /\ Cardinality(V) = hops
         /\ \A n \in V : NextHop(n, d) \in V \cup {cur}

Traced ==
  /\ engine.state = "RING_REDUCE" => Trail(engine.visited, engine.current)
  /\ engine.state = "RING_BROADCAST" =>
       /\ RingConnects(topology, Members, Root)
       /\ Trail(engine.broadcast, engine.current)
  /\ engine.state = "TREE_REDUCE" => HandedUp(engine.processed)
  /\ engine.state = "TREE_BROADCAST" =>
       /\ HandedUp(Members \ {Root}) /\ topology.tree_parent[Root] \notin Members \ {Root}
       /\ Told(engine.broadcast)
  /\ engine.state \in {"A2A_SELECT", "A2A_ROUTE"} =>
       \A s, d \in Members :
         s # d /\ Index(s, d) < engine.pair_index => HopGood(s, d) /\ Arrives(s, d)
  /\ engine.state = "A2A_ROUTE" =>
       UnderWay(engine.pair[1], engine.pair[2], engine.current, engine.hop_count)

\* The edge the operation tries next, as a set.
Facing ==
  {edge \in Edge :
     LET from == edge[1]
         to == edge[2]
     IN  \/ /\ engine.state \in {"RING_REDUCE", "RING_BROADCAST"}
            /\ from = engine.current /\ to = topology.ring_next[from]
         \/ /\ engine.state = "TREE_REDUCE"
            /\ from \in Lowest(TreeReady) \ {Root} /\ to = topology.tree_parent[from]
         \/ /\ engine.state = "TREE_BROADCAST"
            /\ to \in Lowest(BroadcastReady) /\ from = topology.tree_parent[to]
         \/ /\ engine.state = "A2A_ROUTE"
            /\ from = engine.current /\ to = NextHop(from, engine.pair[2])}

\* An armed fault costs at most 255 retries, a transient one costs one.
Counted ==
  /\ engine.edge_retry <= engine.command.retry_limit
  /\ engine.edge_retry <= engine.retry_count
  /\ engine.retry_count <= 255 * issued.arms
  /\ fault # NoFault =>
       \/ engine.retry_count + 255 <= 255 * issued.arms
       \/ /\ fault.persistent /\ fault.edge \in Facing
          /\ engine.retry_count + 255 - engine.edge_retry <= 255 * issued.arms
  /\ fault # NoFault /\ fault.persistent => issued.persistent
  /\ ~ issued.persistent =>
       engine.edge_retry + (IF fault = NoFault THEN 0 ELSE 1) <= issued.arms

OperationJudged ==
  /\ ~ BadCommand(engine.command) /\ ~ WrongPartition(engine.command)
  /\ Traced /\ Counted

VerdictsGood ==
  /\ ~ Idle => OperationJudged
  /\ VerdictsJustified

-----------------------------------------------------------------------------
(* Verdicts: rings *)

LEMMA TrailStarts ==
  ASSUME Root \in Members
  PROVE  Trail({Root}, Root)
BY DEF Trail

LEMMA TrailGrows ==
  ASSUME NEW S, NEW cur, Trail(S, cur), topology.ring_next[cur] \in Members \ S,
         <<cur, topology.ring_next[cur]>> \in topology.links
  PROVE  Trail(S \cup {topology.ring_next[cur]}, topology.ring_next[cur])
<1>. DEFINE to == topology.ring_next[cur]
            U == S \cup {to}
<1>1. U \ {to} = S /\ Root \in S /\ to # Root BY DEF Trail
<1>2. \A n \in S : topology.ring_next[n] \in U \ {Root}
                   /\ <<n, topology.ring_next[n]>> \in topology.links
  BY <1>1 DEF Trail
<1>3. \A m \in U \ {Root} : \E n \in S : topology.ring_next[n] = m
  <2>1. cur \in S BY DEF Trail
  <2>. QED BY <2>1 DEF Trail
<1>4. \A m, n \in S : topology.ring_next[m] = topology.ring_next[n] => m = n
  BY DEF Trail
<1>5. ASSUME NEW T \in SUBSET S, T # {}
      PROVE  \E n \in T : topology.ring_next[n] \notin T
  <2>1. CASE cur \in T BY <2>1
  <2>2. CASE cur \notin T
    <3>1. T \in SUBSET (S \ {cur}) BY <2>2
    <3>. QED BY <1>5, <3>1 DEF Trail
  <2>. QED BY <2>1, <2>2
<1>6. U \subseteq Members BY DEF Trail
<1>. QED BY <1>1, <1>2, <1>3, <1>4, <1>5, <1>6 DEF Trail

\* A trail through the whole group that comes back to the root is a ring.
LEMMA TrailCloses ==
  ASSUME NEW cur, Trail(Members, cur), topology.ring_next[cur] = Root,
         <<cur, Root>> \in topology.links
  PROVE  RingConnects(topology, Members, Root)
<1>1. /\ cur \in Members /\ Root \in Members
      /\ \A n \in Members : topology.ring_next[n] \in Members
                            /\ <<n, topology.ring_next[n]>> \in topology.links
  BY DEF Trail
<1>2. \A m, n \in Members : topology.ring_next[m] = topology.ring_next[n] => m = n
  BY DEF Trail
<1>3. ASSUME NEW T \in SUBSET (Members \ {Root}), T # {}
      PROVE  \E n \in T : topology.ring_next[n] \notin T
  <2>1. CASE cur \in T BY <2>1
  <2>2. CASE cur \notin T
    <3>1. T \in SUBSET (Members \ {cur}) BY <2>2
    <3>. QED BY <1>3, <3>1 DEF Trail
  <2>. QED BY <2>1, <2>2
<1>. QED BY <1>1, <1>2, <1>3 DEF RingConnects, LeadsInto

\* On a ring the trail comes back only to the root, and only when it is whole.
LEMMA TrailWhole ==
  ASSUME NEW S, NEW cur, Trail(S, cur), RingConnects(topology, Members, Root),
         topology.ring_next[cur] \in S
  PROVE  topology.ring_next[cur] = Root /\ S = Members
<1>1. /\ cur \in S /\ Root \in S /\ S \subseteq Members
      /\ \A m, n \in Members : topology.ring_next[m] = topology.ring_next[n] => m = n
      /\ \A n \in Members : topology.ring_next[n] \in Members
  BY DEF Trail, RingConnects, LeadsInto
<1>2. topology.ring_next[cur] = Root BY <1>1 DEF Trail
<1>3. \A m \in S : \E n \in S : topology.ring_next[n] = m BY <1>1, <1>2 DEF Trail
<1>4. \A n \in Members \ S : topology.ring_next[n] \in Members \ S BY <1>1, <1>3
<1>5. Members \ S = {}
  <2>1. Members \ S \in SUBSET (Members \ {Root}) BY <1>1
  <2>. QED BY <1>4, <2>1 DEF RingConnects, LeadsInto
<1>. QED BY <1>1, <1>2, <1>5

-----------------------------------------------------------------------------
(* Verdicts: trees *)

\* When a good tree has no ready node but the root, the root is the last one.
LEMMA RootLast ==
  ASSUME TreeReduceInv, TreeConnects(topology, Members, Root), Root \in TreeReady
  PROVE  engine.processed \cup {Root} = Members
<1>. DEFINE T == Unprocessed \ {Root}
<1>1. /\ engine.processed \subseteq Members \ {Root}
      /\ \A child \in Unprocessed : topology.tree_parent[child] \notin engine.processed
      /\ Root \in Members
  BY DEF TreeReduceInv, TreeReady
<1>2. \A n \in T : topology.tree_parent[n] \in T
  BY <1>1 DEF TreeConnects, LeadsInto, TreeReady, Unprocessed
<1>3. T = {}
  <2>1. T \in SUBSET (Members \ {Root}) BY DEF Unprocessed
  <2>. QED BY <1>2, <2>1 DEF TreeConnects, LeadsInto
<1>. QED BY <1>1, <1>3 DEF Unprocessed

\* On a good tree some node is ready: else every unprocessed node is the parent of
\* another, and there are more parents than children.
LEMMA SomeReady ==
  ASSUME EngineGood, TreeReduceInv, TreeConnects(topology, Members, Root), Root \in Members
  PROVE  TreeReady # {}
<1>1. SUFFICES ASSUME TreeReady = {} PROVE FALSE OBVIOUS
<1>. DEFINE U == Unprocessed
            C == U \ {Root}
            f == [n \in C |-> topology.tree_parent[n]]
<1>2. /\ engine.processed \subseteq Members \ {Root} /\ Root \in U
      /\ \A child \in U : topology.tree_parent[child] \notin engine.processed
  BY DEF TreeReduceInv, Unprocessed
<1>3. \A n \in C : topology.tree_parent[n] \in U
  BY <1>2 DEF TreeConnects, LeadsInto, Unprocessed
<1>4. ASSUME NEW n \in U PROVE \E child \in C : topology.tree_parent[child] = n
  <2>1. PICK child \in U : topology.tree_parent[child] = n /\ child # n
    BY <1>1 DEF TreeReady, Unprocessed
  <2>2. child # Root
    BY <2>1 DEF TreeConnects, Unprocessed
  <2>. QED BY <2>1, <2>2
<1>5. f \in Surjection(C, U) BY <1>3, <1>4 DEF Surjection
<1>6. IsFiniteSet(U)
  <2>1. U \subseteq Node BY TreeNodes DEF Unprocessed
  <2>2. IsFiniteSet(Node) BY TopologyAssumption, FS_Interval DEF Node
  <2>. QED BY <2>1, <2>2, FS_Subset
<1>7. IsFiniteSet(C) /\ Cardinality(C) = Cardinality(U) - 1 /\ Cardinality(U) \in Nat
  BY <1>2, <1>6, FS_RemoveElement, FS_CardinalityType
<1>8. Cardinality(U) <= Cardinality(C) BY <1>5, <1>7, FS_Surjection
<1>. QED BY <1>7, <1>8

\* When only the root is left, every other node has handed up, and the root is the
\* first to know the sum.
LEMMA ToldStarts ==
  ASSUME TreeReduceInv, HandedUp(engine.processed), Root \in Members,
         engine.processed \cup {Root} = Members
  PROVE  /\ HandedUp(Members \ {Root}) /\ Told({Root})
         /\ topology.tree_parent[Root] \notin Members \ {Root}
<1>1. engine.processed = Members \ {Root} BY DEF TreeReduceInv
<1>. QED BY <1>1 DEF TreeReduceInv, Unprocessed, HandedUp, Told

LEMMA ToldGrows ==
  ASSUME NEW S, Told(S), NEW n, n \notin S, topology.tree_parent[n] \in S,
         <<topology.tree_parent[n], n>> \in topology.links
  PROVE  Told(S \cup {n})
<1>1. ASSUME NEW T \in SUBSET ((S \cup {n}) \ {Root}), T # {}
      PROVE  \E m \in T : topology.tree_parent[m] \notin T
  <2>1. CASE T \ {n} = {}
    <3>1. T = {n} BY <1>1, <2>1
    <3>. QED BY <3>1
  <2>2. CASE T \ {n} # {}
    <3>1. T \ {n} \in SUBSET (S \ {Root}) OBVIOUS
    <3>2. PICK m \in T \ {n} : topology.tree_parent[m] \notin T \ {n}
      BY <2>2, <3>1 DEF Told
    <3>3. topology.tree_parent[m] \in S BY <3>1, <3>2 DEF Told
    <3>. QED BY <3>2, <3>3
  <2>. QED BY <2>1, <2>2
<1>2. Root \in S \cup {n} /\ (S \cup {n}) \ {Root} = (S \ {Root}) \cup {n} BY DEF Told
<1>. QED BY <1>1, <1>2 DEF Told

\* When everyone was told, the tables describe a good tree.
LEMMA ToldWhole ==
  ASSUME HandedUp(Members \ {Root}), Told(Members),
         topology.tree_parent[Root] \notin Members \ {Root}
  PROVE  TreeConnects(topology, Members, Root)
BY DEF HandedUp, Told, TreeConnects, LeadsInto

\* On a good tree some node can be told until everyone was.
LEMMA SomeoneToTell ==
  ASSUME TreeConnects(topology, Members, Root), NEW S, Root \in S, S \subseteq Members,
         S # Members
  PROVE  \E n \in Members \ S : topology.tree_parent[n] \in S
<1>1. Members \ S \in SUBSET (Members \ {Root}) /\ Members \ S # {} OBVIOUS
<1>2. PICK n \in Members \ S : topology.tree_parent[n] \notin Members \ S
  BY <1>1 DEF TreeConnects, LeadsInto
<1>. QED BY <1>2 DEF TreeConnects, LeadsInto

-----------------------------------------------------------------------------
(* Verdicts: routes *)

\* What good routes say of one destination, without the function of LeadsInto.
LEMMA RoutesMean ==
  ASSUME topology \in Topology, Members \subseteq Node
  PROVE  RoutesConnect(topology, Members) <=>
           \A d \in Members :
             /\ \A n \in Members \ {d} : HopGood(n, d)
             /\ \A T \in SUBSET (Members \ {d}) :
                  T # {} => \E n \in T : NextHop(n, d) \notin T
<1>1. ASSUME NEW d \in Members
      PROVE  LeadsInto(Members, [m \in Node |-> topology.next_hop[m][d]], d) <=>
               /\ \A n \in Members \ {d} : NextHop(n, d) \in Members
               /\ \A T \in SUBSET (Members \ {d}) :
                    T # {} => \E n \in T : NextHop(n, d) \notin T
  <2>. DEFINE f == [m \in Node |-> topology.next_hop[m][d]]
  <2>1. \A n \in Members : f[n] = NextHop(n, d) BY DEF NextHop
  <2>. HIDE DEF f
  <2>2. \A T \in SUBSET (Members \ {d}) :
          (\E n \in T : f[n] \notin T) <=> (\E n \in T : NextHop(n, d) \notin T)
    BY <2>1
  <2>3. LeadsInto(Members, f, d) <=>
          /\ \A n \in Members \ {d} : f[n] \in Members
          /\ \A T \in SUBSET (Members \ {d}) : T # {} => \E n \in T : f[n] \notin T
    BY DEF LeadsInto
  <2>4. LeadsInto(Members, f, d) <=>
          /\ \A n \in Members \ {d} : NextHop(n, d) \in Members
          /\ \A T \in SUBSET (Members \ {d}) :
               T # {} => \E n \in T : NextHop(n, d) \notin T
    BY <2>1, <2>2, <2>3
  <2>. QED BY <2>4 DEF f
<1>2. RoutesConnect(topology, Members) <=>
        \A d \in Members :
          /\ LeadsInto(Members, [m \in Node |-> topology.next_hop[m][d]], d)
          /\ \A n \in Members \ {d} : <<n, NextHop(n, d)>> \in topology.links
  BY DEF RoutesConnect, NextHop
<1>. QED BY <1>1, <1>2 DEF HopGood

LEMMA RouteStarts ==
  ASSUME NEW s \in Members, NEW d \in Members, s # d
  PROVE  UnderWay(s, d, s, 0)
<1>1. {} \in SUBSET (Members \ {d, s}) /\ Cardinality({}) = 0 BY FS_EmptySet
<1>. QED BY <1>1 DEF UnderWay

\* One more hop: on good routes, back to no node left behind.
LEMMA RouteGoesOn ==
  ASSUME topology \in Topology, Members \subseteq Node,
         NEW s, NEW d \in Members, NEW cur, NEW hops \in Nat, UnderWay(s, d, cur, hops),
         HopGood(cur, d), NextHop(cur, d) \notin {cur, d}
  PROVE  UnderWay(s, d, NextHop(cur, d), hops + 1)
<1>. DEFINE to == NextHop(cur, d)
<1>1. s # d /\ to \in Members \ {d} /\ HopGood(s, d) /\ cur \in Members \ {d}
  BY DEF UnderWay, HopGood
<1>2. \A T \in SUBSET (Members \ {d}) :
        s \in T /\ (\A n \in T : NextHop(n, d) \in T) => to \in T
  BY DEF UnderWay
<1>3. ASSUME RoutesConnect(topology, Members)
      PROVE  \E V \in SUBSET (Members \ {d, to}) :
               /\ Cardinality(V) = hops + 1
               /\ \A n \in V : NextHop(n, d) \in V \cup {to}
  <2>1. PICK V \in SUBSET (Members \ {d, cur}) :
               /\ Cardinality(V) = hops
               /\ \A n \in V : NextHop(n, d) \in V \cup {cur}
    BY <1>3 DEF UnderWay
  <2>. DEFINE W == V \cup {cur}
  <2>2. \A n \in W : NextHop(n, d) \in W \cup {to} BY <2>1
  <2>3. to \notin W
    <3>1. W \in SUBSET (Members \ {d}) /\ W # {} BY <1>1
    <3>2. \A T \in SUBSET (Members \ {d}) :
            T # {} => \E n \in T : NextHop(n, d) \notin T
      BY <1>3, RoutesMean
    <3>3. PICK n \in W : NextHop(n, d) \notin W BY <3>1, <3>2
    <3>. QED BY <2>2, <3>3
  <2>4. Cardinality(W) = hops + 1
    <3>1. IsFiniteSet(Node) BY TopologyAssumption, FS_Interval DEF Node
    <3>2. IsFiniteSet(V) BY <3>1, FS_Subset
    <3>. QED BY <2>1, <3>2, FS_AddElement
  <2>5. W \in SUBSET (Members \ {d, to}) BY <1>1, <2>3
  <2>. QED BY <2>2, <2>4, <2>5
<1>. QED BY <1>1, <1>2, <1>3 DEF UnderWay

LEMMA RouteArrives ==
  ASSUME NEW s \in Members, NEW d \in Members, NEW cur, NEW hops, UnderWay(s, d, cur, hops),
         HopGood(cur, d), NextHop(cur, d) = d
  PROVE  HopGood(s, d) /\ Arrives(s, d)
BY DEF UnderWay, Arrives

\* On good routes the next hop is there, and before NUM_NODES of them.
LEMMA RouteLeads ==
  ASSUME topology \in Topology, Members \subseteq Node, RoutesConnect(topology, Members),
         NEW s, NEW d \in Members, NEW cur, NEW hops \in Nat, UnderWay(s, d, cur, hops)
  PROVE  HopGood(cur, d) /\ NextHop(cur, d) # cur /\ hops < NUM_NODES
<1>1. cur \in Members \ {d} BY DEF UnderWay
<1>2. NextHop(cur, d) # cur
  <2>1. {cur} \in SUBSET (Members \ {d}) BY <1>1
  <2>2. \A T \in SUBSET (Members \ {d}) :
          T # {} => \E n \in T : NextHop(n, d) \notin T
    BY RoutesMean
  <2>. QED BY <2>1, <2>2
<1>3. hops < NUM_NODES
  <2>1. PICK V \in SUBSET (Members \ {d, cur}) : Cardinality(V) = hops BY DEF UnderWay
  <2>2. /\ IsFiniteSet(Node) /\ NUM_NODES \in Nat /\ NUM_NODES >= 2
        /\ Cardinality(Node) = NUM_NODES
    <3>1. NUM_NODES \in Nat /\ NUM_NODES >= 2 BY TopologyAssumption
    <3>. DEFINE last == NUM_NODES - 1
    <3>2. 0 \in Int /\ last \in Int /\ ~ 0 > last /\ last - 0 + 1 = NUM_NODES BY <3>1
    <3>3. Node = 0 .. last BY DEF Node
    <3>. HIDE DEF last
    <3>4. IsFiniteSet(0 .. last) /\ Cardinality(0 .. last) = last - 0 + 1
      BY <3>2, FS_Interval
    <3>. QED BY <3>1, <3>2, <3>3, <3>4
  <2>3. V \subseteq Node \ {cur} /\ cur \in Node BY <1>1
  <2>4. IsFiniteSet(Node \ {cur}) /\ Cardinality(Node \ {cur}) = NUM_NODES - 1
    BY <2>2, <2>3, FS_RemoveElement
  <2>5. Cardinality(V) <= NUM_NODES - 1 BY <2>3, <2>4, FS_Subset
  <2>. QED BY <2>1, <2>2, <2>5
<1>. QED BY <1>1, <1>2, <1>3, RoutesMean

LEMMA RoutesWhole ==
  ASSUME topology \in Topology, Members \subseteq Node,
         \A s, d \in Members : s # d => HopGood(s, d) /\ Arrives(s, d)
  PROVE  RoutesConnect(topology, Members)
<1>1. ASSUME NEW d \in Members, NEW T \in SUBSET (Members \ {d}), T # {}
      PROVE  \E n \in T : NextHop(n, d) \notin T
  <2>1. PICK s \in T : s \in Members /\ s # d BY <1>1
  <2>. QED BY <2>1 DEF Arrives
<1>. QED BY <1>1, RoutesMean

-----------------------------------------------------------------------------
(* Verdicts: what one step of an operation can come to *)

Retries ==
  /\ fault # NoFault /\ fault.edge \in Facing
  /\ engine.edge_retry < engine.command.retry_limit
  /\ Advance([engine EXCEPT !.edge_retry = @ + 1,
                            !.retry_count = (@ + 1) % RetryModulus])

Exhausts ==
  /\ fault # NoFault /\ ~ engine.edge_retry < engine.command.retry_limit
  /\ \E from, to \in Node : Fail("RETRY_EXHAUSTED", from, to)

Refuses ==
  /\ ~ Servable(engine.command)
  /\ \E status \in Status \ {"OK", "RETRY_EXHAUSTED"}, from, to \in Node :
       Fail(status, from, to)

Completes == Servable(engine.command) /\ Complete

\* On to the next edge: not over one with a fault.
GoesOn ==
  /\ engine'.state # "IDLE" /\ engine'.command = engine.command
  /\ engine'.retry_count = engine.retry_count
  /\ engine'.edge_retry \in {0, engine.edge_retry}
  /\ fault # NoFault => fault.edge \notin Facing
  /\ Traced'

Outcome == Retries \/ Exhausts \/ Refuses \/ Completes \/ GoesOn

LEMMA ServableMeans ==
  ASSUME EngineGood, ~ Idle, OperationJudged
  PROVE  /\ engine.state \in {"RING_REDUCE", "RING_BROADCAST"} =>
              (Servable(engine.command) <=> RingConnects(topology, Members, Root))
         /\ engine.state \in {"TREE_REDUCE", "TREE_BROADCAST"} =>
              (Servable(engine.command) <=> TreeConnects(topology, Members, Root))
         /\ engine.state \in {"A2A_SELECT", "A2A_ROUTE"} =>
              (Servable(engine.command) <=> RoutesConnect(topology, Members))
         /\ engine.state \in State \ {"IDLE"}
<1>1. OperationInv /\ engine.state \in State \ {"IDLE"} BY EngineFields DEF EngineGood, Idle
<1>2. /\ ~ BadCommand(engine.command) /\ ~ WrongPartition(engine.command)
      /\ engine.command.opcode = OpcodeOf(engine.state)
  BY <1>1 DEF OperationJudged, OperationInv
<1>. QED BY <1>1, <1>2 DEF Servable, OpcodeOf, Members, Root, State

LEMMA MembersValid ==
  ASSUME OperationJudged, NEW from \in Members, NEW to
  PROVE  /\ HopValid(from, to) <=> to \in Members
         /\ InPartition(from) /\ (to \in Members => InPartition(to))
<1>1. \A n \in Members : n \in topology.active /\ InPartition(n)
  BY DEF OperationJudged, BadCommand, WrongPartition, Members, InPartition
<1>. QED BY <1>1 DEF HopValid

LEMMA RetryOutcome ==
  ASSUME NEW from \in Node, NEW to \in Node, <<from, to>> \in Facing, Faulted(from, to),
         RetryOrFail(from, to)
  PROVE  Outcome
BY DEF RetryOrFail, Outcome, Retries, Exhausts, Faulted

LEMMA RefusedOutcome ==
  ASSUME OperationJudged, NEW from \in Members, NEW to \in Node, Members \subseteq Node,
         <<from, to>> \in Facing, HopRefused(from, to),
         (to \in Members /\ <<from, to>> \in topology.links) \/ ~ Servable(engine.command)
  PROVE  Outcome
<1>1. CASE ~ HopValid(from, to) /\ Fail("PARTITION", from, to)
  BY <1>1, MembersValid DEF Outcome, Refuses, Status
<1>2. CASE HopValid(from, to) /\ ~ Linked(from, to) /\ Fail("TOPOLOGY", from, to)
  BY <1>2 DEF Outcome, Refuses, Status, Linked
<1>3. CASE Faulted(from, to) /\ RetryOrFail(from, to) BY <1>3, RetryOutcome
<1>. QED BY <1>1, <1>2, <1>3 DEF HopRefused

LEMMA RingReduceOutcome ==
  ASSUME EngineGood, Frame, ~ Idle, OperationJudged, RingReduce
  PROVE  Outcome
<1>. DEFINE from == engine.current
            to == topology.ring_next[from]
<1>0. /\ engine \in Engine /\ engine.state = "RING_REDUCE" /\ OperationInv
      /\ Trail(engine.visited, from) /\ Root \in Members /\ Counted
      /\ Servable(engine.command) <=> RingConnects(topology, Members, Root)
  BY ServableMeans DEF EngineGood, RingReduce, OperationInv, OperationJudged, Traced
<1>1. from \in Node /\ to \in Node /\ Members \subseteq Node /\ from \in Members
  BY <1>0, RingNodes DEF Trail
<1>2. Facing = {<<from, to>>} BY <1>0, <1>1 DEF Facing, Edge
<1>3. CASE HopRefused(from, to)
  <2>1. RingConnects(topology, Members, Root) =>
          to \in Members /\ <<from, to>> \in topology.links
    BY <1>0, <1>1 DEF RingConnects, LeadsInto
  <2>. QED BY <1>0, <1>1, <1>2, <1>3, <2>1, RefusedOutcome
<1>4. CASE /\ HopOpen(from, to) /\ to = Root /\ engine.visited = Members
           /\ engine' = [Crossed EXCEPT !.current = to, !.broadcast = {to},
                                        !.state = "RING_BROADCAST"]
  <2>1. /\ engine'.state = "RING_BROADCAST" /\ engine'.command = engine.command
        /\ engine'.broadcast = {to} /\ engine'.current = to
        /\ engine'.retry_count = engine.retry_count /\ engine'.edge_retry = 0
    BY <1>0, <1>4 DEF Engine, Crossed
  <2>2. RingConnects(topology, Members, Root) /\ Trail({Root}, Root)
    BY <1>0, <1>4, TrailCloses, TrailStarts DEF HopOpen, Linked
  <2>3. Traced'
    BY <1>4, <2>1, <2>2 DEF Frame, Traced, Trail, Members, Root
  <2>. QED BY <1>2, <1>4, <2>1, <2>3 DEF Outcome, GoesOn, HopOpen, Faulted
<1>5. CASE /\ HopOpen(from, to) /\ to \notin engine.visited
           /\ Advance([Crossed EXCEPT !.current = to,
                         !.reduction = Plus(@, engine.tree_accum[to]),
                         !.visited = @ \cup {to}])
  <2>1. /\ engine'.state = "RING_REDUCE" /\ engine'.command = engine.command
        /\ engine'.visited = engine.visited \cup {to} /\ engine'.current = to
        /\ engine'.retry_count = engine.retry_count /\ engine'.edge_retry = 0
    BY <1>0, <1>5 DEF Engine, Crossed, Advance
  <2>2. Trail(engine.visited \cup {to}, to)
    BY <1>0, <1>5, TrailGrows DEF HopOpen, HopValid, Linked
  <2>3. Traced' BY <2>1, <2>2 DEF Frame, Traced, Trail, Members, Root
  <2>. QED BY <1>2, <1>5, <2>1, <2>3 DEF Outcome, GoesOn, HopOpen, Faulted
<1>6. CASE /\ HopOpen(from, to) /\ to \in engine.visited
           /\ ~ (to = Root /\ engine.visited = Members)
           /\ Fail("TOPOLOGY", from, to)
  BY <1>0, <1>1, <1>6, TrailWhole DEF Outcome, Refuses, Status
<1>. QED BY <1>3, <1>4, <1>5, <1>6, Zenon DEF RingReduce

LEMMA RingBroadcastOutcome ==
  ASSUME EngineGood, Frame, ~ Idle, OperationJudged, RingBroadcast
  PROVE  Outcome
<1>. DEFINE from == engine.current
            to == topology.ring_next[from]
<1>0. /\ engine \in Engine /\ engine.state = "RING_BROADCAST"
      /\ Trail(engine.broadcast, from) /\ RingConnects(topology, Members, Root)
      /\ Servable(engine.command)
  BY ServableMeans DEF EngineGood, RingBroadcast, OperationJudged, Traced
<1>1. /\ from \in Node /\ to \in Node /\ Members \subseteq Node /\ from \in Members
      /\ to \in Members /\ <<from, to>> \in topology.links
  BY <1>0, RingNodes DEF Trail, RingConnects, LeadsInto
<1>2. Facing = {<<from, to>>} BY <1>0, <1>1 DEF Facing, Edge
<1>3. CASE HopRefused(from, to) BY <1>0, <1>1, <1>2, <1>3, RefusedOutcome
<1>4. CASE Complete BY <1>0, <1>4 DEF Outcome, Completes
<1>5. CASE /\ HopOpen(from, to) /\ to \notin engine.broadcast
           /\ engine' = [Crossed EXCEPT !.current = to, !.broadcast = @ \cup {to}]
  <2>1. /\ engine'.state = "RING_BROADCAST" /\ engine'.command = engine.command
        /\ engine'.broadcast = engine.broadcast \cup {to} /\ engine'.current = to
        /\ engine'.retry_count = engine.retry_count /\ engine'.edge_retry = 0
    BY <1>0, <1>5 DEF Engine, Crossed
  <2>2. Trail(engine.broadcast \cup {to}, to) BY <1>0, <1>1, <1>5, TrailGrows
  <2>3. Traced' BY <1>0, <2>1, <2>2 DEF Frame, Traced, Trail, Members, Root
  <2>. QED BY <1>2, <1>5, <2>1, <2>3 DEF Outcome, GoesOn, HopOpen, Faulted
<1>6. ~ (to \in engine.broadcast /\ ~ (to = Root /\ engine.broadcast = Members))
  BY <1>0, TrailWhole
<1>. QED BY <1>3, <1>4, <1>5, <1>6, Zenon DEF RingBroadcast

\* There is one lowest node at most.
LEMMA LowestOnly ==
  ASSUME NEW S \in SUBSET Node, NEW m \in Lowest(S), NEW n \in Lowest(S)
  PROVE  m = n
BY DEF Lowest, Node

LEMMA TreeReduceOutcome ==
  ASSUME EngineGood, Frame, ~ Idle, OperationJudged, TreeReduce
  PROVE  Outcome
<1>0. /\ engine \in Engine /\ engine.state = "TREE_REDUCE" /\ OperationInv
      /\ TreeReduceInv /\ HandedUp(engine.processed) /\ Root \in Members
      /\ Servable(engine.command) <=> TreeConnects(topology, Members, Root)
  BY ServableMeans DEF EngineGood, TreeReduce, OperationInv, Gathered, OperationJudged,
                       Traced
<1>1. /\ Root \in Node /\ Members \subseteq Node /\ TreeReady \in SUBSET Members
      /\ \A n \in Node : topology.tree_parent[n] \in Node
  BY TreeNodes DEF TreeReady
<1>2. CASE TreeReady = {} /\ Fail("TOPOLOGY", Root, Root)
  BY <1>0, <1>1, <1>2, SomeReady DEF Outcome, Refuses, Status
<1>3. CASE Root \in Lowest(TreeReady) /\ TreeReduceRoot
  <2>1. Root \in TreeReady BY <1>3 DEF Lowest
  <2>2. CASE engine.processed \cup {Root} # Members
    BY <1>0, <1>1, <1>3, <2>1, <2>2, RootLast DEF TreeReduceRoot, Outcome, Refuses, Status
  <2>3. CASE engine.processed \cup {Root} = Members
    <3>1. engine' = [engine EXCEPT !.broadcast = {Root}, !.state = "TREE_BROADCAST"]
      BY <1>3, <2>3 DEF TreeReduceRoot
    <3>2. /\ engine'.state = "TREE_BROADCAST" /\ engine'.command = engine.command
          /\ engine'.broadcast = {Root}
          /\ engine'.retry_count = engine.retry_count
          /\ engine'.edge_retry = engine.edge_retry
      BY <1>0, <3>1 DEF Engine
    <3>3. /\ HandedUp(Members \ {Root}) /\ Told({Root})
          /\ topology.tree_parent[Root] \notin Members \ {Root}
      BY <1>0, <2>3, ToldStarts
    <3>4. Traced' BY <3>2, <3>3 DEF Frame, Traced, HandedUp, Told, Members, Root
    <3>5. Facing = {}
      <4>1. Lowest(TreeReady) \ {Root} = {}
        BY <1>1, <1>3, LowestOnly
      <4>. QED BY <1>0, <4>1 DEF Facing
    <3>. QED BY <3>2, <3>4, <3>5 DEF Outcome, GoesOn
  <2>. QED BY <2>2, <2>3
<1>4. ASSUME NEW node \in Lowest(TreeReady) \ {Root}, TreeReduceNode(node)
      PROVE  Outcome
  <2>. DEFINE parent == topology.tree_parent[node]
  <2>1. node \in Members \ {Root} /\ node \in Node /\ parent \in Node
    BY <1>1, <1>4 DEF Lowest
  <2>2. Facing = {<<node, parent>>}
    <3>1. \A n \in Lowest(TreeReady) : n = node BY <1>1, <1>4, LowestOnly
    <3>. QED BY <1>0, <1>4, <2>1, <3>1 DEF Facing, Edge
  <2>3. TreeConnects(topology, Members, Root) =>
          parent \in Members /\ <<node, parent>> \in topology.links
    BY <2>1 DEF TreeConnects, LeadsInto
  <2>4. CASE ~ Linked(node, parent) /\ Fail("TOPOLOGY", node, parent)
    BY <1>0, <2>1, <2>3, <2>4 DEF Linked, Outcome, Refuses, Status
  <2>5. CASE /\ ~ (InPartition(node) /\ InPartition(parent) /\ parent \in Members)
             /\ Fail("PARTITION", node, parent)
    BY <1>0, <2>1, <2>3, <2>5, MembersValid DEF Outcome, Refuses, Status
  <2>6. CASE Faulted(node, parent) /\ RetryOrFail(node, parent)
    BY <2>1, <2>2, <2>6, RetryOutcome
  <2>7. CASE /\ Linked(node, parent) /\ parent \in Members /\ ~ Faulted(node, parent)
             /\ Advance([Crossed EXCEPT
                           !.tree_accum[parent] = Plus(@, engine.tree_accum[node]),
                           !.processed = @ \cup {node}])
    <3>1. /\ engine'.state = "TREE_REDUCE" /\ engine'.command = engine.command
          /\ engine'.processed = engine.processed \cup {node}
          /\ engine'.retry_count = engine.retry_count /\ engine'.edge_retry = 0
      BY <1>0, <2>7 DEF Engine, Crossed, Advance
    <3>2. HandedUp(engine.processed \cup {node}) BY <1>0, <2>7 DEF HandedUp, Linked
    <3>3. Traced' BY <3>1, <3>2 DEF Frame, Traced, HandedUp, Members
    <3>. QED BY <2>2, <2>7, <3>1, <3>3 DEF Outcome, GoesOn, Faulted
  <2>. QED BY <1>4, <2>4, <2>5, <2>6, <2>7, Zenon DEF TreeReduceNode
<1>. QED BY <1>2, <1>3, <1>4 DEF TreeReduce

LEMMA TreeBroadcastOutcome ==
  ASSUME EngineGood, Frame, ~ Idle, OperationJudged, TreeBroadcast
  PROVE  Outcome
<1>0. /\ engine \in Engine /\ engine.state = "TREE_BROADCAST" /\ OperationInv
      /\ TreeBroadcastInv /\ Root \in Members
      /\ HandedUp(Members \ {Root}) /\ topology.tree_parent[Root] \notin Members \ {Root}
      /\ Told(engine.broadcast)
      /\ Servable(engine.command) <=> TreeConnects(topology, Members, Root)
  BY ServableMeans DEF EngineGood, TreeBroadcast, OperationInv, Gathered, OperationJudged,
                       Traced
<1>1. /\ Root \in Node /\ Members \subseteq Node /\ BroadcastReady \in SUBSET Members
      /\ \A n \in Node : topology.tree_parent[n] \in Node
      /\ engine.broadcast \subseteq Members /\ Root \in engine.broadcast
  BY <1>0, TreeNodes DEF BroadcastReady, TreeBroadcastInv, Told
<1>2. CASE engine.broadcast = Members /\ Complete
  BY <1>0, <1>2, ToldWhole DEF Outcome, Completes
<1>3. CASE /\ engine.broadcast # Members /\ BroadcastReady = {}
           /\ Fail("TOPOLOGY", Root, Root)
  <2>1. ~ TreeConnects(topology, Members, Root)
    BY <1>1, <1>3, SomeoneToTell DEF BroadcastReady
  <2>. QED BY <1>0, <1>1, <1>3, <2>1 DEF Outcome, Refuses, Status
<1>4. ASSUME NEW node \in Lowest(BroadcastReady), TreeBroadcastNode(node)
      PROVE  Outcome
  <2>. DEFINE parent == topology.tree_parent[node]
  <2>1. /\ node \in Members \ engine.broadcast /\ node \in Node /\ parent \in Node
        /\ parent \in engine.broadcast /\ node # Root
    BY <1>1, <1>4 DEF Lowest, BroadcastReady
  <2>2. Facing = {<<parent, node>>}
    <3>1. \A n \in Lowest(BroadcastReady) : n = node BY <1>1, <1>4, LowestOnly
    <3>. QED BY <1>0, <1>4, <2>1, <3>1 DEF Facing, Edge
  <2>3. CASE ~ Linked(parent, node) /\ Fail("TOPOLOGY", parent, node)
    <3>1. ~ TreeConnects(topology, Members, Root)
      BY <2>1, <2>3 DEF Linked, TreeConnects
    <3>. QED BY <1>0, <2>1, <2>3, <3>1 DEF Outcome, Refuses, Status
  <2>4. CASE Faulted(parent, node) /\ RetryOrFail(parent, node)
    BY <2>1, <2>2, <2>4, RetryOutcome
  <2>5. CASE /\ Linked(parent, node) /\ ~ Faulted(parent, node)
             /\ engine' = [Crossed EXCEPT !.broadcast = @ \cup {node}]
    <3>1. /\ engine'.state = "TREE_BROADCAST" /\ engine'.command = engine.command
          /\ engine'.broadcast = engine.broadcast \cup {node}
          /\ engine'.retry_count = engine.retry_count /\ engine'.edge_retry = 0
      BY <1>0, <2>5 DEF Engine, Crossed
    <3>2. Told(engine.broadcast \cup {node})
      BY <1>0, <2>1, <2>5, ToldGrows DEF Linked
    <3>3. Traced' BY <1>0, <3>1, <3>2 DEF Frame, Traced, HandedUp, Told, Members, Root
    <3>. QED BY <2>2, <2>5, <3>1, <3>3 DEF Outcome, GoesOn, Faulted
  <2>. QED BY <1>4, <2>3, <2>4, <2>5, Zenon DEF TreeBroadcastNode
<1>. QED BY <1>2, <1>3, <1>4 DEF TreeBroadcast

\* The routes of the pairs before a number are good.
RoutesBefore(index) ==
  \A s, d \in Members : s # d /\ Index(s, d) < index => HopGood(s, d) /\ Arrives(s, d)

LEMMA OneMoreRoute ==
  ASSUME EngineGood, engine.pair_index # NumPairs, RoutesBefore(engine.pair_index),
         NEW s, NEW d, Pair(engine.pair_index) = <<s, d>>,
         s \in Members /\ d \in Members /\ s # d => HopGood(s, d) /\ Arrives(s, d)
  PROVE  RoutesBefore(engine.pair_index + 1)
<1>. DEFINE i == engine.pair_index
<1>1. i \in 0 .. NumPairs - 1 /\ Members \subseteq Node
  BY PairIndexStep, RingNodes
<1>. HIDE DEF i
<1>2. \A x, y \in Members : Index(x, y) < i + 1 => (Index(x, y) < i \/ (x = s /\ y = d))
  BY <1>1, NextPair DEF i
<1>. QED BY <1>2 DEF RoutesBefore, i

LEMMA AllRoutesGood ==
  ASSUME EngineGood, RoutesBefore(NumPairs)
  PROVE  RoutesConnect(topology, Members)
<1>1. Members \subseteq Node BY RingNodes
<1>2. \A s, d \in Members : Index(s, d) < NumPairs
  <2>1. NumPairs \in Int BY TopologyAssumption, SMT DEF NumPairs
  <2>. QED BY <1>1, <2>1, IndexRange
<1>. QED BY <1>1, <1>2, RoutesWhole DEF RoutesBefore, EngineGood

LEMMA SelectPairOutcome ==
  ASSUME EngineGood, Frame, ~ Idle, OperationJudged, SelectPair
  PROVE  Outcome
<1>. DEFINE i == engine.pair_index
            pair == Pair(i)
            s == i \div NUM_NODES
            d == i % NUM_NODES
            selected == [Crossed EXCEPT !.pair = pair, !.hop_count = 0]
            skipped == [selected EXCEPT !.pair_index = @ + 1]
<1>0. /\ engine \in Engine /\ engine.state = "A2A_SELECT" /\ RoutesBefore(i)
      /\ Servable(engine.command) <=> RoutesConnect(topology, Members)
      /\ Facing = {} /\ pair = <<s, d>> /\ pair[1] = s /\ pair[2] = d
  BY ServableMeans DEF EngineGood, SelectPair, OperationJudged, Traced, RoutesBefore,
                       Facing, Pair
<1>1. CASE i = NumPairs /\ Complete
  BY <1>0, <1>1, AllRoutesGood DEF Outcome, Completes
<1>2. CASE i # NumPairs /\ engine' = skipped /\ ~ (s \in Members /\ d \in Members /\ s # d)
  <2>1. RoutesBefore(i + 1) BY <1>0, <1>2, OneMoreRoute
  <2>2. /\ engine'.state = "A2A_SELECT" /\ engine'.command = engine.command
        /\ engine'.pair_index = i + 1
        /\ engine'.retry_count = engine.retry_count /\ engine'.edge_retry = 0
    BY <1>0, <1>2 DEF Engine, Crossed
  <2>3. Traced'
    BY <2>1, <2>2 DEF Frame, Traced, RoutesBefore, HopGood, NextHop, Arrives, Members
  <2>. QED BY <1>0, <2>2, <2>3 DEF Outcome, GoesOn
<1>3. CASE /\ i # NumPairs /\ s \in Members /\ d \in Members /\ s # d
           /\ engine' = [selected EXCEPT !.current = pair[1], !.state = "A2A_ROUTE"]
  <2>1. /\ engine'.state = "A2A_ROUTE" /\ engine'.command = engine.command
        /\ engine'.pair_index = i /\ engine'.pair = pair /\ engine'.current = s
        /\ engine'.hop_count = 0
        /\ engine'.retry_count = engine.retry_count /\ engine'.edge_retry = 0
    BY <1>0, <1>3 DEF Engine, Crossed
  <2>2. UnderWay(s, d, s, 0) BY <1>3, RouteStarts
  <2>3. /\ engine'.pair[1] = s /\ engine'.pair[2] = d /\ Members' = Members
        /\ topology' = topology
    BY <1>0, <2>1 DEF Frame, Members
  <2>. HIDE DEF i, pair, s, d
  <2>4. UnderWay(engine.pair[1], engine.pair[2], engine.current, engine.hop_count)'
    BY <2>1, <2>2, <2>3 DEF UnderWay, RoutesConnect, HopGood, NextHop
  <2>5. Traced'
    BY <1>0, <2>1, <2>3, <2>4 DEF Traced, RoutesBefore, HopGood, NextHop, Arrives
  <2>. QED BY <1>0, <2>1, <2>5 DEF Outcome, GoesOn
<1>. QED BY <1>0, <1>1, <1>2, <1>3, Zenon DEF SelectPair, Advance

LEMMA RoutePairOutcome ==
  ASSUME EngineGood, Frame, ~ Idle, OperationJudged, RoutePair
  PROVE  Outcome
<1>. DEFINE from == engine.current
            s == engine.pair[1]
            d == engine.pair[2]
            to == topology.next_hop[from][d]
            hops == engine.hop_count + 1
            next == engine.pair_index + 1
            moved == [Crossed EXCEPT !.hop_count = @ + 1, !.current = to]
<1>0. /\ engine \in Engine /\ engine.state = "A2A_ROUTE" /\ RouteInv
      /\ RoutesBefore(engine.pair_index) /\ UnderWay(s, d, from, engine.hop_count)
      /\ Servable(engine.command) <=> RoutesConnect(topology, Members)
      /\ topology \in Topology /\ Members \subseteq Node
  BY ServableMeans, RingNodes
  DEF EngineGood, RoutePair, OperationInv, Gathered, OperationJudged, Traced, RoutesBefore
<1>1. /\ from \in Members /\ from # d /\ s \in Members /\ d \in Members /\ s # d
      /\ to \in Node /\ engine.hop_count \in Nat /\ to = NextHop(from, d)
  <2>1. topology.next_hop \in [Node -> [Node -> Node]] BY <1>0 DEF Topology
  <2>2. engine.hop_count \in Nat BY <1>0, EngineFields, TopologyAssumption DEF HopCount
  <2>. QED BY <1>0, <2>1, <2>2 DEF RouteInv, UnderWay, NextHop
<1>2. Facing = {<<from, to>>} BY <1>0, <1>1 DEF Facing, Edge
<1>3. RoutesConnect(topology, Members) =>
        HopGood(from, d) /\ to # from /\ engine.hop_count < NUM_NODES
  BY <1>0, <1>1, RouteLeads
<1>4. CASE engine.hop_count >= NUM_NODES /\ Fail("HOP_LIMIT", from, d)
  <2>1. ~ RoutesConnect(topology, Members) BY <1>1, <1>3, <1>4, TopologyAssumption
  <2>. QED BY <1>0, <1>1, <1>4, <2>1 DEF Outcome, Refuses, Status
<1>5. CASE HopRefused(from, to)
  BY <1>0, <1>1, <1>2, <1>3, <1>5, RefusedOutcome DEF HopGood
<1>6. CASE to = from /\ Fail("TOPOLOGY", from, to)
  BY <1>0, <1>1, <1>3, <1>6 DEF Outcome, Refuses, Status
<1>7. CASE HopOpen(from, to) /\ to \notin {from, d} /\ engine' = moved
  <2>1. /\ engine'.state = "A2A_ROUTE" /\ engine'.command = engine.command
        /\ engine'.pair_index = engine.pair_index /\ engine'.pair = engine.pair
        /\ engine'.current = to /\ engine'.hop_count = hops
        /\ engine'.retry_count = engine.retry_count /\ engine'.edge_retry = 0
    BY <1>0, <1>7 DEF Engine, Crossed
  <2>2. UnderWay(s, d, to, hops)
    BY <1>0, <1>1, <1>7, RouteGoesOn DEF HopOpen, HopValid, Linked, HopGood
  <2>3. /\ engine'.pair[1] = s /\ engine'.pair[2] = d /\ Members' = Members
        /\ topology' = topology
    BY <1>0, <2>1 DEF Frame, Members
  <2>. HIDE DEF from, s, d, to, hops, moved
  <2>4. UnderWay(engine.pair[1], engine.pair[2], engine.current, engine.hop_count)'
    BY <2>1, <2>2, <2>3 DEF UnderWay, RoutesConnect, HopGood, NextHop
  <2>5. Traced'
    BY <1>0, <2>1, <2>3, <2>4 DEF Traced, RoutesBefore, HopGood, NextHop, Arrives
  <2>. QED BY <1>2, <1>7, <2>1, <2>5 DEF Outcome, GoesOn, HopOpen, Faulted
<1>8. CASE /\ HopOpen(from, to) /\ to = d
           /\ engine' = [moved EXCEPT !.pair_index = @ + 1, !.state = "A2A_SELECT"]
  <2>1. /\ engine'.state = "A2A_SELECT" /\ engine'.command = engine.command
        /\ engine'.pair_index = next
        /\ engine'.retry_count = engine.retry_count /\ engine'.edge_retry = 0
    BY <1>0, <1>8 DEF Engine, Crossed
  <2>2. HopGood(s, d) /\ Arrives(s, d)
    BY <1>0, <1>1, <1>8, RouteArrives DEF HopOpen, HopValid, Linked, HopGood
  <2>3. engine.pair_index # NumPairs /\ Pair(engine.pair_index) = <<s, d>>
    <3>1. NumPairs \in Int BY TopologyAssumption, SMT DEF NumPairs
    <3>. QED BY <1>0, <3>1 DEF RouteInv, Pair
  <2>4. RoutesBefore(next) BY <1>0, <2>2, <2>3, OneMoreRoute
  <2>. HIDE DEF next
  <2>5. Traced'
    BY <2>1, <2>4 DEF Frame, Traced, RoutesBefore, HopGood, NextHop, Arrives, Members
  <2>. QED BY <1>2, <1>8, <2>1, <2>5 DEF Outcome, GoesOn, HopOpen, Faulted
<1>. QED BY <1>4, <1>5, <1>6, <1>7, <1>8, Zenon DEF RoutePair, RouteHop, Advance

-----------------------------------------------------------------------------
(* Verdicts: faults and retries *)

\* A setting arms a fault, which is counted, or leaves the fault or clears it.
LEMMA SettingCounted ==
  ASSUME SoftwareTyped, NEW setting \in Settings, issued' = Noted(setting)
  PROVE  \/ /\ Configured(setting) \in Fault /\ issued'.arms = issued.arms + 1
            /\ issued'.persistent = (issued.persistent \/ Configured(setting).persistent)
         \/ /\ Configured(setting) \in {NoFault, fault}
            /\ issued'.arms = issued.arms /\ issued'.persistent = issued.persistent
<1>1. issued \in Issued /\ fault \in Fault \cup {NoFault} BY DEF SoftwareTyped
<1>2. CASE Arms(setting)
  <2>1. issued' = [issued EXCEPT !.arms = @ + 1,
                                 !.persistent = @ \/ setting.arm.persistent]
    BY <1>2 DEF Noted
  <2>2. setting.arm \in Fault
    BY <1>2, EngineAssumption DEF Settings, Arms, Fault
  <2>. QED BY <1>1, <1>2, <2>1, <2>2 DEF Configured, Issued
<1>3. CASE ~ Arms(setting) BY <1>3 DEF Noted, Configured
<1>. QED BY <1>2, <1>3

LEMMA InRange ==
  ASSUME NEW n \in Nat, NEW x \in 0 .. n
  PROVE  x \in Nat /\ x <= n
OBVIOUS

LEMMA SmallModulus ==
  ASSUME NEW m \in Nat, NEW x \in Nat, x < m
  PROVE  x % m = x
BY SMT

LEMMA CountTypes ==
  ASSUME EngineGood, SoftwareTyped, MaxArms <= 255
  PROVE  /\ engine.edge_retry \in Nat /\ engine.retry_count \in Nat
         /\ engine.command.retry_limit \in Nat /\ engine.command.retry_limit <= 255
         /\ issued.arms \in Nat /\ issued.arms <= 256
         /\ issued.persistent \in BOOLEAN
         /\ fault # NoFault => fault \in Fault /\ fault.persistent \in BOOLEAN
         /\ NoFault \notin Fault
<1>1. /\ engine.edge_retry \in Byte /\ engine.retry_count \in RetryCount
      /\ engine.command.retry_limit \in Byte
  BY EngineFields DEF EngineGood
<1>2. MaxArms \in Nat /\ NoFault \notin Fault BY EngineAssumption
<1>3. /\ issued.arms \in 0 .. MaxArms + 1 /\ issued.persistent \in BOOLEAN
      /\ fault \in Fault \cup {NoFault}
  BY DEF SoftwareTyped, Issued
<1>4. /\ engine.edge_retry \in Nat
      /\ engine.command.retry_limit \in Nat /\ engine.command.retry_limit <= 255
  BY <1>1, InRange DEF Byte
<1>5. engine.retry_count \in Nat
  <2>1. RetryModulus - 1 \in Nat BY DEF RetryModulus
  <2>. QED BY <1>1, <2>1, InRange DEF RetryCount
<1>6. issued.arms \in Nat /\ issued.arms <= 256 BY <1>2, <1>3
<1>7. fault # NoFault => fault \in Fault /\ fault.persistent \in BOOLEAN
  BY <1>3 DEF Fault
<1>. QED BY <1>2, <1>3, <1>4, <1>5, <1>6, <1>7

\* The count of retries does not wrap.
LEMMA RetryCounts ==
  ASSUME EngineGood, SoftwareTyped, MaxArms <= 255, Counted, Retries
  PROVE  /\ engine'.edge_retry = engine.edge_retry + 1
         /\ engine'.retry_count = engine.retry_count + 1
         /\ engine.retry_count + 1 <= 255 * issued.arms
<1>1. engine.retry_count + 1 <= 255 * issued.arms
  BY CountTypes DEF Counted, Retries
<1>2. (engine.retry_count + 1) % RetryModulus = engine.retry_count + 1
  <2>1. engine.retry_count + 1 \in Nat /\ engine.retry_count + 1 <= 65280
    BY <1>1, CountTypes
  <2>2. RetryModulus \in Nat /\ 65280 < RetryModulus BY DEF RetryModulus
  <2>. QED BY <2>1, <2>2, SmallModulus
<1>3. engine \in Engine BY DEF EngineGood
<1>. QED BY <1>1, <1>2, <1>3 DEF Retries, Advance, Engine

\* The trail and the edge ahead depend neither on retries nor on faults.
LEMMA TracedKept ==
  ASSUME EngineGood, Traced, topology' = topology,
         engine'.state = engine.state, engine'.command = engine.command,
         engine'.current = engine.current, engine'.visited = engine.visited,
         engine'.processed = engine.processed, engine'.broadcast = engine.broadcast,
         engine'.pair_index = engine.pair_index, engine'.pair = engine.pair,
         engine'.hop_count = engine.hop_count
  PROVE  Traced' /\ Facing' = Facing
<1>1. Members' = Members /\ Root' = Root /\ engine \in Engine
  BY DEF Members, Root, EngineGood
<1>2. Traced'
  <2>1. CASE engine.state = "RING_REDUCE" BY <1>1, <2>1 DEF Traced, Trail
  <2>2. CASE engine.state = "RING_BROADCAST"
    BY <1>1, <2>2 DEF Traced, Trail, RingConnects, LeadsInto
  <2>3. CASE engine.state \in {"TREE_REDUCE", "TREE_BROADCAST"}
    BY <1>1, <2>3 DEF Traced, HandedUp, Told
  <2>4. CASE engine.state = "A2A_SELECT"
    BY <1>1, <2>4 DEF Traced, HopGood, NextHop, Arrives
  <2>5. CASE engine.state = "A2A_ROUTE"
    <3>1. UnderWay(engine.pair[1], engine.pair[2], engine.current, engine.hop_count)'
      BY <1>1, <2>5 DEF Traced, UnderWay, RoutesConnect, HopGood, NextHop
    <3>. QED BY <1>1, <2>5, <3>1 DEF Traced, HopGood, NextHop, Arrives
  <2>. QED BY <1>1, <2>1, <2>2, <2>3, <2>4, <2>5, EngineFields DEF State, Traced
<1>3. Facing' = Facing
  BY <1>1 DEF Facing, NextHop, TreeReady, BroadcastReady, Lowest
<1>. QED BY <1>2, <1>3

LEMMA RetryTraced ==
  ASSUME EngineGood, Frame, Traced, Retries
  PROVE  /\ Traced' /\ Facing' = Facing /\ engine'.command = engine.command
         /\ engine'.state = engine.state
<1>1. engine \in Engine /\ topology' = topology BY DEF EngineGood, Frame
<1>2. /\ engine'.state = engine.state /\ engine'.command = engine.command
      /\ engine'.current = engine.current /\ engine'.visited = engine.visited
      /\ engine'.processed = engine.processed /\ engine'.broadcast = engine.broadcast
      /\ engine'.pair_index = engine.pair_index /\ engine'.pair = engine.pair
      /\ engine'.hop_count = engine.hop_count
  BY <1>1 DEF Retries, Advance, Engine
<1>. QED BY <1>1, <1>2, TracedKept

LEMMA RetryCounted ==
  ASSUME EngineGood, SoftwareTyped, MaxArms <= 255, Frame, Traced, Counted, Retries,
         NEW setting \in Settings, issued' = Noted(setting), FaultNext(setting)
  PROVE  Counted'
<1>1. /\ engine'.edge_retry = engine.edge_retry + 1
      /\ engine'.retry_count = engine.retry_count + 1
      /\ engine.retry_count + 1 <= 255 * issued.arms
      /\ engine'.command = engine.command /\ Facing' = Facing
      /\ fault # NoFault /\ engine.edge_retry < engine.command.retry_limit
      /\ fault.edge \in Facing
  BY RetryCounts, RetryTraced DEF Retries
<1>2. fault' = IF ~ fault.persistent THEN NoFault ELSE Configured(setting)
  BY <1>1 DEF FaultNext, Retried
<1>3. \/ /\ Configured(setting) \in Fault /\ issued'.arms = issued.arms + 1
         /\ issued'.persistent = (issued.persistent \/ Configured(setting).persistent)
      \/ /\ Configured(setting) \in {NoFault, fault}
         /\ issued'.arms = issued.arms /\ issued'.persistent = issued.persistent
  BY SettingCounted
<1>4. issued.arms \in Nat /\ issued'.arms \in {issued.arms, issued.arms + 1}
  BY <1>3, CountTypes
<1>5. /\ engine'.edge_retry <= engine'.command.retry_limit
      /\ engine'.edge_retry <= engine'.retry_count
      /\ engine'.retry_count <= 255 * issued'.arms
  BY <1>1, <1>4, CountTypes DEF Counted
<1>6. fault' # NoFault =>
        \/ engine'.retry_count + 255 <= 255 * issued'.arms
        \/ /\ fault'.persistent /\ fault'.edge \in Facing'
           /\ engine'.retry_count + 255 - engine'.edge_retry <= 255 * issued'.arms
  <2>1. CASE fault' = fault /\ fault.persistent /\ issued'.arms = issued.arms
    BY <1>1, <2>1, CountTypes DEF Counted
  <2>2. CASE issued'.arms = issued.arms + 1 BY <1>1, <2>2, CountTypes
  <2>. QED BY <1>2, <1>3, <2>1, <2>2
<1>7. fault' # NoFault /\ fault'.persistent => issued'.persistent
  BY <1>2, <1>3 DEF Counted
<1>8. ~ issued'.persistent =>
        engine'.edge_retry + (IF fault' = NoFault THEN 0 ELSE 1) <= issued'.arms
  <2>1. SUFFICES ASSUME ~ issued'.persistent
                 PROVE  engine'.edge_retry + (IF fault' = NoFault THEN 0 ELSE 1)
                          <= issued'.arms
    OBVIOUS
  <2>2. ~ issued.persistent BY <1>3, <2>1
  <2>3. ~ fault.persistent BY <1>1, <2>2 DEF Counted
  <2>4. fault' = NoFault BY <1>2, <2>3
  <2>5. engine.edge_retry + 1 <= issued.arms BY <1>1, <2>2 DEF Counted
  <2>. QED BY <1>1, <1>4, <2>4, <2>5, CountTypes
<1>. QED BY <1>5, <1>6, <1>7, <1>8 DEF Counted

LEMMA GoesOnCounted ==
  ASSUME EngineGood, SoftwareTyped, MaxArms <= 255, Counted, GoesOn,
         NEW setting \in Settings, issued' = Noted(setting), FaultNext(setting)
  PROVE  Counted'
<1>1. /\ engine'.edge_retry \in {0, engine.edge_retry}
      /\ engine'.retry_count = engine.retry_count
      /\ engine'.command = engine.command
      /\ fault # NoFault => fault.edge \notin Facing
  BY DEF GoesOn
<1>2. fault' = Configured(setting)
  <2>1. ~ Retried BY <1>1, CountTypes DEF Retried
  <2>. QED BY <2>1 DEF FaultNext
<1>3. \/ /\ fault' \in Fault /\ issued'.arms = issued.arms + 1
         /\ issued'.persistent = (issued.persistent \/ fault'.persistent)
      \/ /\ fault' \in {NoFault, fault}
         /\ issued'.arms = issued.arms /\ issued'.persistent = issued.persistent
  BY <1>2, SettingCounted
<1>4. issued.arms \in Nat /\ issued'.arms \in {issued.arms, issued.arms + 1}
  BY <1>3, CountTypes
<1>5. /\ engine'.edge_retry <= engine'.command.retry_limit
      /\ engine'.edge_retry <= engine'.retry_count
      /\ engine'.retry_count <= 255 * issued'.arms
  BY <1>1, <1>4, CountTypes DEF Counted
<1>6. fault' # NoFault => engine'.retry_count + 255 <= 255 * issued'.arms
  <2>1. CASE fault' = fault /\ fault # NoFault /\ issued'.arms = issued.arms
    BY <1>1, <2>1 DEF Counted
  <2>2. CASE issued'.arms = issued.arms + 1 BY <1>1, <2>2, CountTypes DEF Counted
  <2>. QED BY <1>3, <2>1, <2>2
<1>7. fault' # NoFault /\ fault'.persistent => issued'.persistent
  BY <1>3 DEF Counted
<1>8. ~ issued'.persistent =>
        engine'.edge_retry + (IF fault' = NoFault THEN 0 ELSE 1) <= issued'.arms
  <2>1. SUFFICES ASSUME ~ issued'.persistent
                 PROVE  engine'.edge_retry + (IF fault' = NoFault THEN 0 ELSE 1)
                          <= issued'.arms
    OBVIOUS
  <2>2. ~ issued.persistent BY <1>3, <2>1
  <2>3. engine.edge_retry + (IF fault = NoFault THEN 0 ELSE 1) <= issued.arms
    BY <2>2 DEF Counted
  <2>4. engine'.edge_retry <= engine.edge_retry /\ engine'.edge_retry \in Nat
        /\ engine.edge_retry \in Nat
    BY <1>1, CountTypes
  <2>. QED BY <1>3, <1>4, <2>3, <2>4
<1>. QED BY <1>5, <1>6, <1>7, <1>8 DEF Counted

-----------------------------------------------------------------------------
(* Verdicts: every step *)

\* Servable reads only the table.
LEMMA ServableKept ==
  ASSUME topology' = topology, issued'.command = issued.command
  PROVE  Servable(issued.command)' <=> Servable(issued.command)
BY DEF Servable, BadCommand, WrongPartition, RingConnects, TreeConnects, RoutesConnect,
       LeadsInto

LEMMA OutcomeGood ==
  ASSUME EngineGood, SoftwareTyped, MaxArms <= 255, EngineGood', Frame, ~ Idle,
         OperationJudged, Outcome, NEW setting \in Settings, issued' = Noted(setting),
         FaultNext(setting)
  PROVE  VerdictsGood'
<1>1. /\ issued'.command = engine.command /\ issued.command = engine.command
      /\ topology' = topology /\ Counted /\ Traced
  BY DEF EngineGood, OperationInv, Frame, OperationJudged
<1>2. Servable(issued.command)' <=> Servable(engine.command)
  BY <1>1, ServableKept DEF Frame
<1>3. ASSUME ~ Idle', engine'.command = engine.command, Traced', Counted'
      PROVE  VerdictsGood'
  <2>1. ~ response'.valid BY <1>3 DEF EngineGood, OperationInv
  <2>2. OperationJudged'
    BY <1>1, <1>3 DEF OperationJudged, BadCommand, WrongPartition
  <2>. QED BY <2>1, <2>2 DEF VerdictsGood, VerdictsJustified
<1>4. CASE Retries
  <2>1. engine'.state = engine.state /\ engine'.command = engine.command /\ Traced'
    BY <1>1, <1>4, RetryTraced
  <2>. QED BY <1>1, <1>3, <1>4, <2>1, RetryCounted DEF Idle
<1>5. CASE GoesOn BY <1>1, <1>3, <1>5, GoesOnCounted DEF GoesOn, Idle
<1>6. CASE Exhausts
  <2>1. /\ response'.status = "RETRY_EXHAUSTED"
        /\ response'.retry_count = engine.retry_count
        /\ engine' = NoOperation
    BY <1>6 DEF Exhausts, Fail
  <2>2. engine.retry_count >= engine.command.retry_limit
        /\ (engine.edge_retry = engine.command.retry_limit) /\ fault # NoFault
    BY <1>1, <1>6, CountTypes DEF Exhausts, Counted
  <2>3. issued.persistent \/ issued.arms > engine.command.retry_limit
    BY <1>1, <2>2, CountTypes DEF Counted
  <2>4. /\ issued'.arms >= issued.arms /\ (issued.persistent => issued'.persistent)
        /\ issued.arms \in Nat /\ issued'.arms \in Nat
    BY SettingCounted, CountTypes
  <2>5. issued'.persistent \/ issued'.arms > engine.command.retry_limit
    BY <2>3, <2>4, CountTypes
  <2>6. Idle' BY <2>1, NoOperationTyped DEF Idle
  <2>. QED BY <1>1, <2>1, <2>2, <2>5, <2>6 DEF VerdictsGood, VerdictsJustified
<1>7. CASE Refuses
  <2>1. response'.status \notin {"OK", "RETRY_EXHAUSTED"} /\ engine' = NoOperation
    BY <1>7 DEF Refuses, Fail
  <2>2. Idle' BY <2>1, NoOperationTyped DEF Idle
  <2>. QED BY <1>2, <1>7, <2>1, <2>2 DEF Refuses, VerdictsGood, VerdictsJustified
<1>8. CASE Completes
  <2>1. response'.status = "OK" /\ engine' = NoOperation BY <1>8 DEF Completes, Complete
  <2>2. Idle' BY <2>1, NoOperationTyped DEF Idle
  <2>. QED BY <1>2, <1>8, <2>1, <2>2 DEF Completes, VerdictsGood, VerdictsJustified
<1>. QED BY <1>4, <1>5, <1>6, <1>7, <1>8 DEF Outcome

LEMMA OperateJudged ==
  ASSUME EngineGood, SoftwareTyped, MaxArms <= 255, VerdictsGood,
         NEW setting \in Settings, Operate(setting)
  PROVE  VerdictsGood'
<1>1. /\ issued' = Noted(setting) /\ FaultNext(setting) /\ topology' = topology
      /\ issued \in Issued
  BY DEF Operate, SoftwareTyped
<1>2. Frame BY <1>1 DEF Frame, Noted, Issued
<1>3. ~ Idle
  BY DEF Operate, Idle, RingReduce, RingBroadcast, TreeReduce, TreeBroadcast, SelectPair,
         RoutePair
<1>4. OperationJudged BY <1>3 DEF VerdictsGood
<1>5. Outcome
  BY <1>2, <1>3, <1>4, RingReduceOutcome, RingBroadcastOutcome, TreeReduceOutcome,
     TreeBroadcastOutcome, SelectPairOutcome, RoutePairOutcome
  DEF Operate
<1>6. EngineGood' BY OperateGood
<1>. QED BY <1>1, <1>2, <1>3, <1>4, <1>5, <1>6, OutcomeGood

LEMMA AcceptJudged ==
  ASSUME EngineGood, SoftwareTyped, MaxArms <= 255, NEW c \in Commands,
         NEW setting \in Settings, Accept(c, setting)
  PROVE  VerdictsGood'
<1>1. /\ issued' = Issue(c) /\ topology' = topology /\ fault' = Configured(setting)
      /\ Idle /\ c \in Command
  BY EngineAssumption DEF Accept, CmdReady
<1>2. issued'.command = c /\ ~ issued'.reprogrammed
      /\ issued'.arms = (IF fault' = NoFault THEN 0 ELSE 1)
      /\ issued'.persistent = (fault' # NoFault /\ fault'.persistent)
  BY <1>1 DEF Issue
<1>3. Servable(issued.command)' <=> Servable(c)
  BY <1>1, <1>2
  DEF Servable, BadCommand, WrongPartition, RingConnects, TreeConnects, RoutesConnect,
      LeadsInto
<1>4. ASSUME NEW status \in {"BAD_COMMAND", "PARTITION"}, NEW edge, ~ Servable(c),
             Refuse(c, status, edge)
      PROVE  VerdictsGood'
  <2>1. response'.status = status /\ engine' = engine BY <1>4 DEF Refuse, NoResponse
  <2>. QED BY <1>1, <1>3, <1>4, <2>1 DEF VerdictsGood, VerdictsJustified, Idle
<1>5. CASE BadCommand(c) \/ WrongPartition(c) \/ c.opcode = "UNKNOWN"
  <2>1. ~ Servable(c) BY <1>5 DEF Servable
  <2>. QED BY <1>4, <1>5, <2>1 DEF Accept, StartOrRefuse
<1>6. CASE ~ (BadCommand(c) \/ WrongPartition(c) \/ c.opcode = "UNKNOWN")
  <2>1. engine' = Started(c) /\ response' = [NoResponse EXCEPT !.edge = response.edge]
    BY <1>6 DEF Accept, StartOrRefuse
  <2>2. ~ response'.valid BY <2>1 DEF NoResponse
  <2>3. /\ engine'.state = FirstState(c.opcode) /\ engine'.command = c
        /\ engine'.current = c.root /\ engine'.visited = {c.root}
        /\ engine'.processed = {} /\ engine'.pair_index = 0
        /\ engine'.edge_retry = 0 /\ engine'.retry_count = 0
    BY <2>1 DEF Started, NoOperation
  <2>4. Members' = c.participants /\ Root' = c.root /\ c.root \in c.participants
    BY <1>6, <2>3 DEF Members, Root, BadCommand
  <2>5. engine'.state \in {"RING_REDUCE", "TREE_REDUCE", "A2A_SELECT"}
    BY <1>1, <1>6, <2>3 DEF FirstState, Command, Opcode
  <2>6. Traced'
    <3>1. Trail(engine.visited, engine.current)' BY <2>3, <2>4 DEF Trail
    <3>2. \A s, d \in c.participants : ~ Index(s, d) < 0
      <4>1. c.participants \subseteq Node BY <1>1 DEF Command
      <4>2. NumPairs \in Int BY TopologyAssumption, SMT DEF NumPairs
      <4>. QED BY <4>1, <4>2, IndexRange
    <3>. QED BY <2>3, <2>4, <2>5, <3>1, <3>2 DEF Traced, HandedUp
  <2>7. Counted'
    <3>1. c.retry_limit \in Nat
      BY <1>1, InRange DEF Command
    <3>2. fault' # NoFault => fault'.persistent \in BOOLEAN
      BY <1>1, ConfiguredTyped DEF SoftwareTyped, Fault
    <3>. QED BY <1>2, <2>3, <3>1, <3>2 DEF Counted
  <2>8. ~ BadCommand(engine.command)' /\ ~ WrongPartition(engine.command)'
    BY <1>1, <1>6, <2>3 DEF BadCommand, WrongPartition
  <2>. QED BY <2>2, <2>6, <2>7, <2>8 DEF VerdictsGood, OperationJudged, VerdictsJustified
<1>. QED BY <1>5, <1>6

LEMMA RestJudged ==
  ASSUME EngineGood, SoftwareTyped, VerdictsGood, NEW setting \in Settings,
         NEW rsp_ready \in BOOLEAN, Rest(rsp_ready, setting)
  PROVE  VerdictsGood'
<1>1. Idle' /\ issued \in Issued BY DEF Rest, Idle, SoftwareTyped
<1>2. response' = response \/ ~ response'.valid BY DEF Rest, NoResponse
<1>3. \/ issued' = issued /\ topology' = topology
      \/ /\ issued'.reprogrammed /\ issued'.command = issued.command
         /\ issued'.arms = issued.arms /\ issued'.persistent = issued.persistent
  BY <1>1 DEF Rest, Configure, Issued
<1>4. issued' = issued /\ topology' = topology =>
        (Servable(issued.command)' <=> Servable(issued.command))
  BY ServableKept
<1>5. VerdictsJustified'
  BY <1>2, <1>3, <1>4 DEF VerdictsGood, VerdictsJustified
<1>. QED BY <1>1, <1>5 DEF VerdictsGood

LEMMA VerdictsStutter ==
  ASSUME EngineGood, VerdictsGood, UNCHANGED <<topology, engine, fault, response, issued>>
  PROVE  VerdictsGood'
<1>1. VerdictsJustified' BY ServableKept DEF VerdictsGood, VerdictsJustified
<1>2. CASE Idle BY <1>1, <1>2 DEF VerdictsGood, Idle
<1>3. CASE ~ Idle
  <2>1. OperationJudged BY <1>3 DEF VerdictsGood
  <2>2. Traced' /\ Facing' = Facing BY <2>1, TracedKept DEF OperationJudged
  <2>3. Counted' BY <2>1, <2>2 DEF OperationJudged, Counted
  <2>4. OperationJudged'
    BY <2>1, <2>2, <2>3 DEF OperationJudged, BadCommand, WrongPartition
  <2>. QED BY <1>1, <2>4 DEF VerdictsGood
<1>. QED BY <1>2, <1>3

LEMMA VerdictsStep ==
  ASSUME EngineGood, SoftwareTyped, MaxArms <= 255, VerdictsGood, [Next]_vars
  PROVE  VerdictsGood'
<1>1. ASSUME NEW setting \in Settings, NEW c \in Commands, Accept(c, setting)
      PROVE  VerdictsGood'
  BY <1>1, AcceptJudged
<1>2. ASSUME NEW setting \in Settings, Operate(setting) PROVE VerdictsGood'
  BY <1>2, OperateJudged
<1>3. ASSUME NEW setting \in Settings, NEW rsp_ready \in BOOLEAN, Rest(rsp_ready, setting)
      PROVE  VerdictsGood'
  BY <1>3, RestJudged
<1>4. CASE Reprogram BY <1>4, VerdictsStutter DEF Reprogram
<1>5. CASE Reset
  BY <1>5, NoOperationTyped, NoResponseTyped DEF Reset, VerdictsGood, VerdictsJustified, Idle
<1>6. CASE UNCHANGED vars BY <1>6, VerdictsStutter DEF vars
<1>. QED BY <1>1, <1>2, <1>3, <1>4, <1>5, <1>6 DEF Next

\* The engine refuses exactly the commands its table cannot serve, and gives up on
\* retries only for a persistent fault or too many transient ones: for every number
\* of nodes, every table and every command.  The retry counter has 16 bits, hence
\* the bound on the faults armed during one operation.
THEOREM VerdictsRight == MaxArms <= 255 => (Spec => []VerdictsJustified)
<1>. SUFFICES ASSUME MaxArms <= 255 PROVE Spec => []VerdictsJustified OBVIOUS
<1>1. Init => VerdictsGood
  BY NoOperationTyped, NoResponseTyped DEF Init, VerdictsGood, VerdictsJustified, Idle
<1>2. EngineGood /\ SoftwareTyped /\ VerdictsGood /\ [Next]_vars => VerdictsGood'
  BY VerdictsStep
<1>3. VerdictsGood => VerdictsJustified BY DEF VerdictsGood
<1>. QED BY <1>1, <1>2, <1>3, EngineInvariant, PTL DEF Spec

=============================================================================

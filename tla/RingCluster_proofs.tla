------------------------- MODULE RingCluster_proofs -------------------------
(***************************************************************************)
(* Theorems about the ring cluster, for every number of nodes the code     *)
(* supports, every credit depth and every set of commands.                 *)
(***************************************************************************)
EXTENDS RingCluster, TLAPS

-----------------------------------------------------------------------------
(* The ring *)

LEMMA RingOrder ==
  \A n \in Node :
    /\ Successor(n) \in Node /\ Predecessor(n) \in Node
    /\ Successor(n) = IF n = NUM_NODES - 1 THEN 0 ELSE n + 1
    /\ Predecessor(n) = IF n = 0 THEN NUM_NODES - 1 ELSE n - 1
<1>1. CASE NUM_NODES = 1 BY <1>1 DEF Node, Successor, Predecessor
<1>2. CASE NUM_NODES = 2 BY <1>2 DEF Node, Successor, Predecessor
<1>3. CASE NUM_NODES = 3 BY <1>3 DEF Node, Successor, Predecessor
<1>4. CASE NUM_NODES = 4 BY <1>4 DEF Node, Successor, Predecessor
<1>5. CASE NUM_NODES = 5 BY <1>5 DEF Node, Successor, Predecessor
<1>6. CASE NUM_NODES = 6 BY <1>6 DEF Node, Successor, Predecessor
<1>7. CASE NUM_NODES = 7 BY <1>7 DEF Node, Successor, Predecessor
<1>8. CASE NUM_NODES = 8 BY <1>8 DEF Node, Successor, Predecessor
<1>. QED BY <1>1, <1>2, <1>3, <1>4, <1>5, <1>6, <1>7, <1>8, RingAssumption

LEMMA NeighboursInverse ==
  \A n \in Node : Predecessor(Successor(n)) = n /\ Successor(Predecessor(n)) = n
BY RingOrder, RingAssumption DEF Node

-----------------------------------------------------------------------------
(* Type correctness *)

LEMMA WordType ==
  /\ Zero \in Word
  /\ \A n, c : LocalValue(n, c) \in Word
  /\ \A v, w \in Word : Plus(v, w) \in Word
BY DEF Zero, LocalValue, Plus, Word

LEMMA MakeFlitType ==
  ASSUME NEW n \in Node, NEW data \in Word, NEW visited \in SUBSET Node,
         NEW phase \in {"REDUCE", "BROADCAST"}, NEW hop_limit \in 0 .. 127,
         NEW collective_id \in 0 .. 255
  PROVE  MakeFlit(n, data, visited, phase, hop_limit, collective_id) \in Flit
BY RingOrder DEF MakeFlit, Flit

LEMMA ResetType == ResetRegisters \in Registers
<1>1. 0 \in Node BY RingAssumption DEF Node
<1>2. NoFlit \in Flit BY <1>1, WordType DEF NoFlit, Flit
<1>. QED BY <1>2, WordType DEF ResetRegisters, Registers

\* The effects a node's registers are built from keep the types.
LEMMA EffectType ==
  ASSUME NEW r \in Registers
  PROVE  /\ \A data \in Word : Answer(r, data) \in Registers
         /\ \A flit \in Flit : Load(r, flit) \in Registers
         /\ End(r) \in Registers /\ Fail(r) \in Registers
         /\ [r EXCEPT !.finishing = TRUE] \in Registers
<1>1. \A data \in Word : Answer(r, data) \in Registers BY DEF Answer, Registers
<1>2. \A flit \in Flit : Load(r, flit) \in Registers BY DEF Load, Registers
<1>3. End(r) \in Registers /\ Fail(r) \in Registers BY DEF End, Fail, Registers
<1>4. [r EXCEPT !.finishing = TRUE] \in Registers BY DEF Registers
<1>. QED BY <1>1, <1>2, <1>3, <1>4

LEMMA ReceiveType ==
  ASSUME NEW n \in Node, node[n] \in Registers, NEW f \in Flit
  PROVE  Receive(n, f) \in Registers
<1>1. /\ node[n].collective_id \in 0 .. 255 /\ node[n].local_value \in Word
      /\ f.data \in Word /\ f.visited \in SUBSET Node /\ f.hop_limit \in 0 .. 127
      /\ f.phase \in {"REDUCE", "BROADCAST"}
  BY DEF Registers, Flit
<1>2. CASE f.hop_limit = 0 BY <1>2, EffectType DEF Receive
<1>3. CASE f.hop_limit # 0
  <2>1. \A data \in Word : Forward(n, f, data) \in Flit
    <3>1. f.hop_limit - 1 \in 0 .. 127 /\ f.visited \cup {n} \in SUBSET Node BY <1>1, <1>3
    <3>. QED BY <1>1, <3>1, MakeFlitType DEF Forward
  <2>2. Plus(f.data, node[n].local_value) \in Word BY <1>1, WordType
  <2>3. n = 0 => Broadcast(n, f.data) \in Flit
    <3>1. HopLimit \in 0 .. 127 BY RingAssumption DEF HopLimit
    <3>2. n = 0 => {0} \in SUBSET Node OBVIOUS
    <3>. QED BY <1>1, <3>1, <3>2, MakeFlitType DEF Broadcast
  <2>4. ReceiveReduce(n, f) \in Registers
    BY <1>1, <2>1, <2>2, <2>3, EffectType DEF ReceiveReduce
  <2>5. ReceiveBroadcast(n, f) \in Registers
    BY <1>1, <2>1, EffectType DEF ReceiveBroadcast
  <2>. QED BY <2>4, <2>5, EffectType DEF Receive
<1>. QED BY <1>2, <1>3

LEMMA InitNodeType ==
  ASSUME NEW n \in Node, node[n] \in Registers, NEW c \in Commands
  PROVE  InitNode(n, c) \in Registers
<1>1. c.collective_id \in 0 .. 255 /\ LocalValue(n, c) \in Word /\ LocalValue(0, c) \in Word
  BY RingAssumption, WordType
<1>2. node[n].tx_flit \in Flit BY DEF Registers
<1>3. InitRegisters(n, c, LocalValue(n, c)) \in Registers
  BY <1>1, <1>2, WordType DEF InitRegisters, ResetRegisters, Registers
<1>4. HopLimit \in 0 .. 127 /\ 0 \in Node /\ {0} \in SUBSET Node
  BY RingAssumption DEF HopLimit, Node
<1>5. FirstFlit(c) \in Flit BY <1>1, <1>4, MakeFlitType DEF FirstFlit
<1>. QED BY <1>3, <1>5, EffectType DEF InitNode

LEMMA LinkType ==
  ASSUME RingTypeOK, NEW n \in Node, NEW stall
  PROVE  LinkNext(n, stall) \in Seq(Flit) /\ Len(LinkNext(n, stall)) <= CREDIT_DEPTH
<1>. DEFINE rest == IF Pop(n, stall) THEN Tail(link[n]) ELSE link[n]
<1>1. link[n] \in Seq(Flit) /\ Len(link[n]) <= CREDIT_DEPTH /\ node[n].tx_flit \in Flit
  BY DEF RingTypeOK, Registers
<1>2. rest \in Seq(Flit) /\ Len(rest) <= Len(link[n])
  BY <1>1 DEF Pop
<1>3. LinkNext(n, stall) = IF Push(n) THEN Append(rest, node[n].tx_flit) ELSE rest
  BY DEF LinkNext
<1>. HIDE DEF rest
<1>4. CASE Push(n)
  <2>1. Len(link[n]) < CREDIT_DEPTH BY <1>4 DEF Push
  <2>2. Len(Append(rest, node[n].tx_flit)) = Len(rest) + 1 BY <1>1, <1>2
  <2>3. Len(rest) \in Nat /\ Len(link[n]) \in Nat BY <1>1, <1>2
  <2>. QED BY <1>1, <1>2, <1>3, <1>4, <2>1, <2>2, <2>3, RingAssumption
<1>5. CASE ~ Push(n)
  <2>1. Len(rest) \in Nat /\ Len(link[n]) \in Nat BY <1>1, <1>2
  <2>. QED BY <1>1, <1>2, <1>3, <1>5, <2>1, RingAssumption
<1>. QED BY <1>4, <1>5

\* Registers and links keep their types; no link holds more than its credits.
THEOREM RingTypeCorrect == RingSpec => []RingTypeOK
<1>1. RingInit => RingTypeOK
  <2>1. <<>> \in Seq(Flit) /\ Len(<<>>) <= CREDIT_DEPTH BY RingAssumption
  <2>. QED BY <2>1, ResetType DEF RingInit, RingTypeOK
<1>2. RingTypeOK /\ [RingNext]_ringVars => RingTypeOK'
  <2>. SUFFICES ASSUME RingTypeOK, [RingNext]_ringVars PROVE RingTypeOK' OBVIOUS
  <2>1. ASSUME NEW c \in Commands, Accept(c) PROVE RingTypeOK'
    BY <2>1, InitNodeType DEF Accept, RingTypeOK
  <2>2. ASSUME NEW stall \in SUBSET Node, Cycle(stall) PROVE RingTypeOK'
    <3>1. ASSUME NEW n \in Node PROVE NodeNext(n, stall) \in Registers
      <4>1. node[n] \in Registers BY DEF RingTypeOK
      <4>2. Sent(n) \in Registers BY <4>1 DEF Sent, Registers
      <4>3. ASSUME Pop(Predecessor(n), stall)
            PROVE  Receive(n, Head(link[Predecessor(n)])) \in Registers
        <5>1. link[Predecessor(n)] \in Seq(Flit) /\ link[Predecessor(n)] # <<>>
          BY <4>3, RingOrder DEF RingTypeOK, Pop
        <5>. QED BY <4>1, <5>1, ReceiveType
      <4>. QED BY <4>1, <4>2, <4>3 DEF NodeNext
    <3>. QED BY <2>2, <3>1, LinkType DEF Cycle, RingTypeOK
  <2>3. CASE RingReset
    <3>1. <<>> \in Seq(Flit) /\ Len(<<>>) <= CREDIT_DEPTH BY RingAssumption
    <3>. QED BY <2>3, <3>1, ResetType DEF RingReset, RingTypeOK
  <2>4. CASE UNCHANGED ringVars BY <2>4 DEF ringVars, RingTypeOK
  <2>. QED BY <2>1, <2>2, <2>3, <2>4 DEF RingNext
<1>. QED BY <1>1, <1>2, PTL DEF RingSpec

-----------------------------------------------------------------------------
(* One flit goes round *)

Phase == {"REDUCE", "BROADCAST"}
Place == {"tx", "link"}

LEMMA SumType == \A p : Sum(p) \in Word
BY DEF Sum, Word, Addend

\* Node p + 1 adds its value to the sum of the nodes up to p.
LEMMA SumNext ==
  ASSUME NEW p \in Node, p + 1 \in Node
  PROVE  Plus(Sum(p), LocalValue(p + 1, command)) = Sum(p + 1)
<1>1. ASSUME NEW a \in Addend
      PROVE  Plus(Sum(p), LocalValue(p + 1, command))[a] = Sum(p + 1)[a]
  <2>1. PICK n \in Node, c \in Commands : a = <<n, c>> BY DEF Addend
  <2>2. n \in Nat /\ p \in Nat BY DEF Node
  <2>3. Sum(p)[a] = (IF c = command /\ n <= p THEN 1 ELSE 0)
        /\ Sum(p + 1)[a] = (IF c = command /\ n <= p + 1 THEN 1 ELSE 0)
    BY <2>1 DEF Sum
  <2>4. LocalValue(p + 1, command)[a] = IF n = p + 1 /\ c = command THEN 1 ELSE 0
    BY <2>1 DEF LocalValue
  <2>. QED BY <2>2, <2>3, <2>4 DEF Plus
<1>2. /\ Plus(Sum(p), LocalValue(p + 1, command)) = [a \in Addend |->
            Plus(Sum(p), LocalValue(p + 1, command))[a]]
      /\ Sum(p + 1) = [a \in Addend |-> Sum(p + 1)[a]]
  BY DEF Plus, Sum
<1>. QED BY <1>1, <1>2

LEMMA SumFirst ==
  ASSUME NEW c \in Commands, command' = c
  PROVE  Sum(0)' = LocalValue(0, c)
<1>1. ASSUME NEW a \in Addend PROVE Sum(0)'[a] = LocalValue(0, c)[a]
  <2>1. PICK n \in Node, d \in Commands : a = <<n, d>> BY DEF Addend
  <2>2. n \in Nat BY DEF Node
  <2>. QED BY <2>1, <2>2 DEF Sum, LocalValue
<1>2. /\ Sum(0)' = [a \in Addend |-> Sum(0)'[a]]
      /\ LocalValue(0, c) = [a \in Addend |-> LocalValue(0, c)[a]]
  BY DEF Sum, LocalValue
<1>. QED BY <1>1, <1>2

\* Only the flit moves: who pushes and who pops.
LEMMA OnlyFlitMoves ==
  ASSUME RingTypeOK, NEW p \in Node, NEW phase \in Phase, NEW place \in Place,
         FlitAt(p, phase, place), NEW stall, NEW n \in Node
  PROVE  /\ Push(n) <=> n = p /\ place = "tx"
         /\ Pop(n, stall) => n = p /\ place = "link"
<1>1. link[n] = IF n = p /\ place = "link" THEN <<FlitOf(p, phase)>> ELSE <<>>
  BY DEF FlitAt
<1>2. node[n].tx_valid <=> n = p /\ place = "tx" BY DEF FlitAt, NodeAt
<1>3. Push(n) => n = p /\ place = "tx" BY <1>2 DEF Push
<1>4. ASSUME n = p, place = "tx" PROVE Push(n)
  <2>1. link[n] = <<>> /\ node[n].tx_valid BY <1>1, <1>2, <1>4
  <2>. QED BY <2>1, RingAssumption DEF Push
<1>5. Pop(n, stall) => n = p /\ place = "link" BY <1>1 DEF Pop
<1>. QED BY <1>3, <1>4, <1>5

\* The link takes the flit.
LEMMA FlitSent ==
  ASSUME RingTypeOK, NEW p \in Node, NEW phase \in Phase, FlitAt(p, phase, "tx"),
         NEW stall \in SUBSET Node, Cycle(stall)
  PROVE  FlitAt(p, phase, "link")'
<1>1. \A n \in Node : /\ Push(n) <=> n = p
                      /\ ~ Pop(n, stall)
  BY OnlyFlitMoves DEF Place
<1>2. /\ \A n \in Node : node'[n] = IF n = p THEN Sent(p) ELSE node[n]
      /\ \A n \in Node : link'[n] = IF n = p THEN Append(link[n], node[n].tx_flit) ELSE link[n]
      /\ command' = command
  BY <1>1, RingOrder DEF Cycle, NodeNext, LinkNext
<1>3. FlitOf(p, phase)' = FlitOf(p, phase) /\ Total' = Total
  BY <1>2 DEF FlitOf, Total, Sum
<1>4. node[p].tx_flit = FlitOf(p, phase) /\ link[p] = <<>> BY DEF FlitAt, NodeAt
<1>5. Append(<<>>, FlitOf(p, phase)) = <<FlitOf(p, phase)>> OBVIOUS
<1>6. ASSUME NEW n \in Node PROVE NodeAt(n, p, phase, "link")'
  <2>1. NodeAt(n, p, phase, "tx") /\ node[n] \in Registers /\ p \in Nat /\ n \in Nat
    BY DEF FlitAt, RingTypeOK, Node
  <2>2. CASE n # p
    <3>1. node'[n] = node[n] BY <1>2, <2>2
    <3>. QED BY <1>2, <1>3, <2>1, <2>2, <3>1 DEF NodeAt
  <2>3. CASE n = p
    <3>1. node'[n] = Sent(n) BY <1>2, <2>3
    <3>2. /\ ~ Sent(n).tx_valid /\ ~ Sent(n).finishing
          /\ (Sent(n).busy <=> node[n].busy /\ ~ node[n].finishing)
          /\ Sent(n).collective_id = node[n].collective_id
          /\ Sent(n).local_value = node[n].local_value
          /\ Sent(n).protocol_error = node[n].protocol_error
          /\ Sent(n).result_valid = node[n].result_valid
          /\ Sent(n).result = node[n].result
      BY <2>1 DEF Sent, Registers
    <3>. QED BY <1>2, <1>3, <2>1, <2>3, <3>1, <3>2 DEF NodeAt, Phase
  <2>. QED BY <2>2, <2>3
<1>. QED BY <1>2, <1>3, <1>4, <1>5, <1>6 DEF FlitAt

\* The successor takes the flit: the outcome of the receiving branches.
FlitReceived(p, phase) ==
  IF p # NUM_NODES - 1 THEN FlitAt(p + 1, phase, "tx")'
  ELSE IF phase = "REDUCE" THEN FlitAt(0, "BROADCAST", "tx")'
  ELSE NoFlitAnywhere' /\ \A n \in Node : node'[n].result_valid /\ node'[n].result = Total'

\* What the receiver makes of the flit.
LEMMA ReceiverNext ==
  ASSUME RingTypeOK, NEW p \in Node, NEW phase \in Phase, FlitAt(p, phase, "link"),
         NEW n \in Node, n = Successor(p)
  PROVE  Receive(n, FlitOf(p, phase)) =
           IF p # NUM_NODES - 1
           THEN IF phase = "REDUCE" THEN Load(node[n], FlitOf(p + 1, phase))
                ELSE [Load(Answer(node[n], Total), FlitOf(p + 1, phase)) EXCEPT !.finishing = TRUE]
           ELSE IF phase = "REDUCE" THEN Load(Answer(node[n], Total), FlitOf(0, "BROADCAST"))
           ELSE End(Answer(node[n], Total))
<1>. DEFINE f == FlitOf(p, phase)
<1>1. /\ f.phase = phase /\ f.destination = n /\ f.visited = 0 .. p
      /\ f.collective_id = node[n].collective_id
      /\ f.hop_limit = HopLimit - p
      /\ f.data = IF phase = "REDUCE" THEN Sum(p) ELSE Total
      /\ node[n].local_value = LocalValue(n, command)
      /\ node[n].collective_id = command.collective_id
  BY DEF FlitOf, MakeFlit, FlitAt, NodeAt
<1>2. n = IF p = NUM_NODES - 1 THEN 0 ELSE p + 1 BY RingOrder
<1>3. p \in Nat /\ NUM_NODES \in Nat /\ p <= NUM_NODES - 1 /\ NUM_NODES >= 1
  BY RingAssumption DEF Node
<1>. HIDE DEF f
<1>4. HeaderValid(n, f) /\ f.hop_limit # 0
  BY <1>1, <1>3 DEF HeaderValid, HopLimit
<1>5. Receive(n, f) = IF phase = "REDUCE" THEN ReceiveReduce(n, f) ELSE ReceiveBroadcast(n, f)
  BY <1>1, <1>4 DEF Receive
<1>6. CASE p # NUM_NODES - 1
  <2>1. n = p + 1 /\ n # 0 /\ n \notin f.visited BY <1>1, <1>2, <1>3, <1>6
  <2>2. 0 .. p \cup {n} = 0 .. p + 1 /\ HopLimit - p - 1 = HopLimit - (p + 1)
    BY <1>3, <2>1 DEF HopLimit
  <2>3. CASE phase = "REDUCE"
    <3>1. Plus(f.data, node[n].local_value) = Sum(p + 1)
      BY <1>1, <2>1, <2>3, SumNext
    <3>2. Forward(n, f, Sum(p + 1)) = FlitOf(p + 1, phase)
      BY <1>1, <2>1, <2>2, <2>3 DEF Forward, FlitOf
    <3>. QED BY <1>5, <1>6, <2>1, <2>3, <3>1, <3>2 DEF ReceiveReduce, f
  <2>4. CASE phase = "BROADCAST"
    <3>1. Forward(n, f, Total) = FlitOf(p + 1, phase)
      BY <1>1, <2>1, <2>2, <2>4 DEF Forward, FlitOf
    <3>. QED BY <1>1, <1>5, <1>6, <2>1, <2>4, <3>1 DEF ReceiveBroadcast, f
  <2>. QED BY <2>3, <2>4 DEF Phase
<1>7. CASE p = NUM_NODES - 1
  <2>1. n = 0 /\ f.visited = Node BY <1>1, <1>2, <1>7 DEF Node
  <2>2. CASE phase = "REDUCE"
    <3>1. f.data = Total BY <1>1, <1>7, <2>2 DEF Total
    <3>2. 0 .. 0 = {0} /\ HopLimit - 0 = HopLimit BY <1>3 DEF HopLimit
    <3>3. Broadcast(n, f.data) = FlitOf(0, "BROADCAST")
      BY <1>1, <2>1, <3>1, <3>2 DEF Broadcast, FlitOf
    <3>. QED BY <1>5, <1>7, <2>1, <2>2, <3>1, <3>3 DEF ReceiveReduce, f
  <2>3. CASE phase = "BROADCAST"
    BY <1>1, <1>5, <1>7, <2>1, <2>3 DEF ReceiveBroadcast, f
  <2>. QED BY <2>2, <2>3 DEF Phase
<1>. QED BY <1>6, <1>7

\* What the effects leave in the registers the invariant speaks of.
LEMMA EffectFields ==
  ASSUME NEW r \in Registers, NEW w \in Word, NEW flit \in Flit
  PROVE  /\ LET s == Load(r, flit)
            IN  /\ s.busy = r.busy /\ s.finishing = r.finishing
                /\ s.collective_id = r.collective_id /\ s.local_value = r.local_value
                /\ s.tx_valid /\ s.tx_flit = flit /\ s.protocol_error = r.protocol_error
                /\ s.result_valid = r.result_valid /\ s.result = r.result
         /\ LET s == Answer(r, w)
            IN  /\ s.busy = r.busy /\ s.finishing = r.finishing
                /\ s.collective_id = r.collective_id /\ s.local_value = r.local_value
                /\ s.tx_valid = r.tx_valid /\ s.protocol_error = r.protocol_error
                /\ s.result_valid /\ s.result = w
         /\ LET s == End(r)
            IN  /\ ~ s.busy /\ s.finishing = r.finishing
                /\ s.tx_valid = r.tx_valid /\ s.protocol_error = r.protocol_error
                /\ s.result_valid = r.result_valid /\ s.result = r.result
         /\ LET s == [r EXCEPT !.finishing = TRUE]
            IN  /\ s.busy = r.busy /\ s.finishing
                /\ s.collective_id = r.collective_id /\ s.local_value = r.local_value
                /\ s.tx_valid = r.tx_valid /\ s.tx_flit = r.tx_flit
                /\ s.protocol_error = r.protocol_error
                /\ s.result_valid = r.result_valid /\ s.result = r.result
<1>1. LET s == Load(r, flit)
      IN  /\ s.busy = r.busy /\ s.finishing = r.finishing
          /\ s.collective_id = r.collective_id /\ s.local_value = r.local_value
          /\ s.tx_valid /\ s.tx_flit = flit /\ s.protocol_error = r.protocol_error
          /\ s.result_valid = r.result_valid /\ s.result = r.result
  BY DEF Load, Registers
<1>2. LET s == Answer(r, w)
      IN  /\ s.busy = r.busy /\ s.finishing = r.finishing
          /\ s.collective_id = r.collective_id /\ s.local_value = r.local_value
          /\ s.tx_valid = r.tx_valid /\ s.protocol_error = r.protocol_error
          /\ s.result_valid /\ s.result = w
  BY DEF Answer, Registers
<1>3. LET s == End(r)
      IN  /\ ~ s.busy /\ s.finishing = r.finishing
          /\ s.tx_valid = r.tx_valid /\ s.protocol_error = r.protocol_error
          /\ s.result_valid = r.result_valid /\ s.result = r.result
  BY DEF End, Registers
<1>4. LET s == [r EXCEPT !.finishing = TRUE]
      IN  /\ s.busy = r.busy /\ s.finishing
          /\ s.collective_id = r.collective_id /\ s.local_value = r.local_value
          /\ s.tx_valid = r.tx_valid /\ s.tx_flit = r.tx_flit
          /\ s.protocol_error = r.protocol_error
          /\ s.result_valid = r.result_valid /\ s.result = r.result
  BY DEF Registers
<1>. QED BY <1>1, <1>2, <1>3, <1>4

LEMMA FlitOfType ==
  ASSUME NEW p \in Node, NEW phase \in Phase, command \in Commands
  PROVE  FlitOf(p, phase) \in Flit
<1>1. p \in 0 .. NUM_NODES - 1 /\ NUM_NODES \in 1 .. 8 BY RingAssumption DEF Node
<1>2. HopLimit - p \in 0 .. 127 BY <1>1 DEF HopLimit
<1>3. 0 .. p \in SUBSET Node BY <1>1 DEF Node
<1>4. command.collective_id \in 0 .. 255 BY RingAssumption
<1>. DEFINE data == IF phase = "REDUCE" THEN Sum(p) ELSE Total
<1>5. data \in Word BY SumType DEF Total
<1>6. FlitOf(p, phase) = MakeFlit(p, data, 0 .. p, phase, HopLimit - p, command.collective_id)
  BY DEF FlitOf
<1>7. phase \in {"REDUCE", "BROADCAST"} BY DEF Phase
<1>. HIDE DEF data
<1>8. MakeFlit(p, data, 0 .. p, phase, HopLimit - p, command.collective_id) \in Flit
  BY <1>2, <1>3, <1>4, <1>5, <1>7, MakeFlitType
<1>. QED BY <1>6, <1>8

LEMMA AnswerLoaded ==
  ASSUME NEW r \in Registers, NEW w \in Word, NEW flit \in Flit
  PROVE  LET s == Load(Answer(r, w), flit)
         IN  /\ s \in Registers
             /\ s.busy = r.busy /\ s.finishing = r.finishing
             /\ s.collective_id = r.collective_id /\ s.local_value = r.local_value
             /\ s.tx_valid /\ s.tx_flit = flit /\ s.protocol_error = r.protocol_error
             /\ s.result_valid /\ s.result = w
<1>. DEFINE a == Answer(r, w)
<1>1. a \in Registers BY EffectType
<1>2. /\ a.busy = r.busy /\ a.finishing = r.finishing
      /\ a.collective_id = r.collective_id /\ a.local_value = r.local_value
      /\ a.protocol_error = r.protocol_error /\ a.result_valid /\ a.result = w
  BY EffectFields
<1>. HIDE DEF a
<1>3. Load(a, flit) \in Registers BY <1>1, EffectType
<1>4. LET s == Load(a, flit)
      IN  /\ s.busy = a.busy /\ s.finishing = a.finishing
          /\ s.collective_id = a.collective_id /\ s.local_value = a.local_value
          /\ s.tx_valid /\ s.tx_flit = flit /\ s.protocol_error = a.protocol_error
          /\ s.result_valid = a.result_valid /\ s.result = a.result
  BY <1>1, EffectFields
<1>. QED BY <1>2, <1>3, <1>4 DEF a

\* After the flit is taken, the receiver and the nodes that stand by are where
\* the invariant wants them.
LEMMA ReceiverAt ==
  ASSUME RingTypeOK, NEW p \in Node, NEW phase \in Phase, FlitAt(p, phase, "link"),
         NEW n \in Node, n = Successor(p), command' = command,
         node'[n] = Receive(n, FlitOf(p, phase))
  PROVE  IF p # NUM_NODES - 1 THEN NodeAt(n, p + 1, phase, "tx")'
         ELSE IF phase = "REDUCE" THEN NodeAt(n, 0, "BROADCAST", "tx")'
         ELSE /\ ~ node'[n].busy /\ ~ node'[n].tx_valid
              /\ ~ node'[n].finishing /\ ~ node'[n].protocol_error
              /\ node'[n].result_valid /\ node'[n].result = Total
<1>1. NodeAt(n, p, phase, "link") /\ node[n] \in Registers BY DEF FlitAt, RingTypeOK
<1>2. n = IF p = NUM_NODES - 1 THEN 0 ELSE p + 1 BY RingOrder
<1>3. p \in Nat /\ n \in Nat /\ NUM_NODES \in Nat BY RingAssumption DEF Node
<1>4. /\ Total' = Total /\ Total \in Word /\ command \in Commands
      /\ FlitOf(n, phase)' = FlitOf(n, phase)
      /\ FlitOf(n, "BROADCAST")' = FlitOf(n, "BROADCAST")
  BY SumType DEF FlitOf, Total, Sum, FlitAt
<1>5. FlitOf(n, phase) \in Flit /\ FlitOf(n, "BROADCAST") \in Flit
  BY <1>4, FlitOfType DEF Phase
<1>6. CASE p # NUM_NODES - 1 /\ phase = "REDUCE"
  <2>1. node'[n] = Load(node[n], FlitOf(n, phase)) /\ n = p + 1
    BY <1>2, <1>6, ReceiverNext
  <2>. DEFINE s == Load(node[n], FlitOf(n, phase))
  <2>2. /\ s.busy = node[n].busy /\ s.finishing = node[n].finishing
        /\ s.collective_id = node[n].collective_id /\ s.local_value = node[n].local_value
        /\ s.tx_valid /\ s.tx_flit = FlitOf(n, phase)
        /\ s.protocol_error = node[n].protocol_error
        /\ s.result_valid = node[n].result_valid /\ s.result = node[n].result
    BY <1>1, <1>4, <1>5, EffectFields
  <2>. HIDE DEF s
  <2>3. NodeAt(n, n, phase, "tx")'
    BY <1>1, <1>3, <1>4, <1>6, <2>1, <2>2 DEF NodeAt, s
  <2>. QED BY <1>6, <2>1, <2>3
<1>7. CASE p # NUM_NODES - 1 /\ phase = "BROADCAST"
  <2>. DEFINE loaded == Load(Answer(node[n], Total), FlitOf(n, phase))
              s == [loaded EXCEPT !.finishing = TRUE]
  <2>1. node'[n] = s /\ n = p + 1 BY <1>2, <1>7, ReceiverNext
  <2>2. /\ loaded \in Registers
        /\ loaded.busy = node[n].busy
        /\ loaded.collective_id = node[n].collective_id
        /\ loaded.local_value = node[n].local_value
        /\ loaded.tx_valid /\ loaded.tx_flit = FlitOf(n, phase)
        /\ loaded.protocol_error = node[n].protocol_error
        /\ loaded.result_valid /\ loaded.result = Total
    BY <1>1, <1>4, <1>5, AnswerLoaded
  <2>. HIDE DEF loaded
  <2>3. /\ s.busy = loaded.busy /\ s.finishing
        /\ s.collective_id = loaded.collective_id /\ s.local_value = loaded.local_value
        /\ s.tx_valid = loaded.tx_valid /\ s.tx_flit = loaded.tx_flit
        /\ s.protocol_error = loaded.protocol_error
        /\ s.result_valid = loaded.result_valid /\ s.result = loaded.result
    BY <1>4, <1>5, <2>2, EffectFields
  <2>. HIDE DEF s
  <2>4. /\ s.collective_id = command.collective_id /\ s.local_value = LocalValue(n, command)
        /\ ~ s.protocol_error /\ s.tx_valid /\ s.tx_flit = FlitOf(n, phase)
        /\ s.finishing /\ s.result_valid /\ s.result = Total
    BY <1>1, <2>2, <2>3 DEF NodeAt
  <2>5. s.busy /\ n # 0
    BY <1>1, <1>3, <2>1, <2>2, <2>3 DEF NodeAt
  <2>6. NodeAt(n, n, phase, "tx")'
    BY <1>3, <1>4, <1>7, <2>1, <2>4, <2>5 DEF NodeAt
  <2>. QED BY <1>7, <2>1, <2>6
<1>8. CASE p = NUM_NODES - 1 /\ phase = "REDUCE"
  <2>. DEFINE s == Load(Answer(node[n], Total), FlitOf(n, "BROADCAST"))
  <2>1. node'[n] = s /\ n = 0 BY <1>2, <1>8, ReceiverNext
  <2>2. /\ s.busy = node[n].busy /\ s.finishing = node[n].finishing
        /\ s.collective_id = node[n].collective_id
        /\ s.local_value = node[n].local_value
        /\ s.tx_valid /\ s.tx_flit = FlitOf(n, "BROADCAST")
        /\ s.protocol_error = node[n].protocol_error
        /\ s.result_valid /\ s.result = Total
    BY <1>1, <1>4, <1>5, AnswerLoaded
  <2>. HIDE DEF s
  <2>3. NodeAt(n, 0, "BROADCAST", "tx")'
    BY <1>1, <1>3, <1>4, <1>8, <2>1, <2>2 DEF NodeAt
  <2>. QED BY <1>8, <2>3
<1>9. CASE p = NUM_NODES - 1 /\ phase = "BROADCAST"
  <2>. DEFINE a == Answer(node[n], Total)
  <2>1. node'[n] = End(a) BY <1>9, ReceiverNext
  <2>2. /\ a.tx_valid = node[n].tx_valid /\ a.finishing = node[n].finishing
        /\ a.protocol_error = node[n].protocol_error /\ a.result_valid /\ a.result = Total
    BY <1>1, <1>4, <1>5, EffectFields
  <2>3. a \in Registers BY <1>1, <1>4, EffectType
  <2>. HIDE DEF a
  <2>4. /\ ~ End(a).busy /\ End(a).tx_valid = a.tx_valid
        /\ End(a).finishing = a.finishing /\ End(a).protocol_error = a.protocol_error
        /\ End(a).result_valid = a.result_valid /\ End(a).result = a.result
    BY <1>4, <1>5, <2>3, EffectFields
  <2>5. ~ node[n].tx_valid /\ ~ node[n].finishing /\ ~ node[n].protocol_error
    BY <1>1 DEF NodeAt
  <2>. QED BY <1>9, <2>1, <2>2, <2>4, <2>5
<1>. QED BY <1>6, <1>7, <1>8, <1>9 DEF Phase

LEMMA BystanderAt ==
  ASSUME RingTypeOK, NEW p \in Node, NEW phase \in Phase, FlitAt(p, phase, "link"),
         NEW n \in Node, n # Successor(p), command' = command, node'[n] = node[n]
  PROVE  IF p # NUM_NODES - 1 THEN NodeAt(n, p + 1, phase, "tx")'
         ELSE IF phase = "REDUCE" THEN NodeAt(n, 0, "BROADCAST", "tx")'
         ELSE /\ ~ node'[n].busy /\ ~ node'[n].tx_valid
              /\ ~ node'[n].finishing /\ ~ node'[n].protocol_error
              /\ node'[n].result_valid /\ node'[n].result = Total
<1>1. NodeAt(n, p, phase, "link") BY DEF FlitAt
<1>2. n # IF p = NUM_NODES - 1 THEN 0 ELSE p + 1 BY RingOrder
<1>3. p \in Nat /\ n \in Nat /\ NUM_NODES \in Nat /\ n <= NUM_NODES - 1
  BY RingAssumption DEF Node
<1>4. Total' = Total BY DEF Total, Sum
<1>5. CASE p # NUM_NODES - 1
  <2>1. n # p + 1 BY <1>2, <1>5
  <2>2. NodeAt(n, p + 1, phase, "tx")'
    BY <1>1, <1>3, <1>4, <2>1 DEF NodeAt
  <2>. QED BY <1>5, <2>2
<1>6. CASE p = NUM_NODES - 1 /\ phase = "REDUCE"
  <2>1. n # 0 BY <1>2, <1>6
  <2>2. NodeAt(n, 0, "BROADCAST", "tx")'
    BY <1>1, <1>3, <1>4, <1>6, <2>1 DEF NodeAt
  <2>. QED BY <1>6, <2>2
<1>7. CASE p = NUM_NODES - 1 /\ phase = "BROADCAST"
  <2>1. n # 0 /\ n <= p BY <1>2, <1>3, <1>7
  <2>. QED BY <1>1, <1>3, <1>7, <2>1 DEF NodeAt
<1>. QED BY <1>5, <1>6, <1>7 DEF Phase

\* A flit on a link is held back by a stall or taken by the successor.
LEMMA FlitTaken ==
  ASSUME RingTypeOK, NEW p \in Node, NEW phase \in Phase, FlitAt(p, phase, "link"),
         NEW stall \in SUBSET Node, Cycle(stall)
  PROVE  UNCHANGED <<node, link, command>> \/ FlitReceived(p, phase)
<1>. DEFINE q == Successor(p)
<1>1. \A n \in Node : ~ Push(n) /\ (Pop(n, stall) => n = p)
  BY OnlyFlitMoves DEF Place
<1>2. q \in Node /\ (q = IF p = NUM_NODES - 1 THEN 0 ELSE p + 1) BY RingOrder
<1>3. node \in [Node -> Registers] /\ link \in [Node -> Seq(Flit)] BY DEF RingTypeOK
<1>4. /\ command' = command /\ command \in Commands
      /\ node' = [n \in Node |-> NodeNext(n, stall)]
      /\ link' = [n \in Node |-> LinkNext(n, stall)]
  BY DEF Cycle, FlitAt
<1>5. CASE ~ Pop(p, stall)
  <2>1. \A n \in Node : NodeNext(n, stall) = node[n] /\ LinkNext(n, stall) = link[n]
    BY <1>1, <1>5, RingOrder DEF NodeNext, LinkNext
  <2>. QED BY <1>3, <1>4, <2>1
<1>6. CASE Pop(p, stall)
  <2>1. link[p] = <<FlitOf(p, phase)>> /\ \A n \in Node \ {p} : link[n] = <<>>
    BY DEF FlitAt
  <2>2. Head(link[p]) = FlitOf(p, phase) /\ Tail(link[p]) = <<>>
    BY <2>1
  <2>3. \A n \in Node : link'[n] = <<>>
    BY <1>1, <1>4, <1>6, <2>1, <2>2 DEF LinkNext
  <2>4. \A n \in Node : Predecessor(n) = p <=> n = q
    BY NeighboursInverse
  <2>5. \A n \in Node : node'[n] = IF n = q THEN Receive(q, FlitOf(p, phase)) ELSE node[n]
    BY <1>1, <1>4, <1>6, <2>2, <2>4, RingOrder DEF NodeNext
  <2>6. \A n \in Node :
          IF p # NUM_NODES - 1 THEN NodeAt(n, p + 1, phase, "tx")'
          ELSE IF phase = "REDUCE" THEN NodeAt(n, 0, "BROADCAST", "tx")'
          ELSE /\ ~ node'[n].busy /\ ~ node'[n].tx_valid
               /\ ~ node'[n].finishing /\ ~ node'[n].protocol_error
               /\ node'[n].result_valid /\ node'[n].result = Total
    BY <1>2, <1>4, <2>5, ReceiverAt, BystanderAt
  <2>7. Total' = Total BY <1>4 DEF Total, Sum
  <2>. HIDE DEF q
  <2>. QED BY <1>4, <2>3, <2>6, <2>7 DEF FlitReceived, FlitAt, NoFlitAnywhere, NodeIdle
<1>. QED BY <1>5, <1>6

-----------------------------------------------------------------------------
(* The invariant and what follows from it *)

LEMMA Accepted ==
  ASSUME RingTypeOK, NEW c \in Commands, Accept(c)
  PROVE  FlitAt(0, "REDUCE", "tx")'
<1>1. /\ node' = [n \in Node |-> InitNode(n, c)] /\ link' = link /\ command' = c
      /\ \A n \in Node : link[n] = <<>>
  BY DEF Accept, CmdReady
<1>2. 0 \in Node BY RingAssumption DEF Node
<1>3. FlitOf(0, "REDUCE")' = FirstFlit(c)
  <2>1. Sum(0)' = LocalValue(0, c) BY <1>1, SumFirst
  <2>2. 0 .. 0 = {0} /\ HopLimit - 0 = HopLimit BY RingAssumption DEF HopLimit
  <2>. QED BY <1>1, <2>1, <2>2 DEF FlitOf, FirstFlit
<1>4. ASSUME NEW n \in Node PROVE NodeAt(n, 0, "REDUCE", "tx")'
  <2>. DEFINE r == InitRegisters(n, c, LocalValue(n, c))
  <2>1. /\ r.busy = TRUE /\ ~ r.finishing /\ r.collective_id = c.collective_id
        /\ r.local_value = LocalValue(n, c) /\ ~ r.tx_valid
        /\ ~ r.result_valid /\ ~ r.protocol_error
    BY DEF InitRegisters, ResetRegisters
  <2>2. r \in Registers
    <3>1. c.collective_id \in 0 .. 255 /\ LocalValue(n, c) \in Word
      BY RingAssumption, WordType
    <3>2. node[n].tx_flit \in Flit BY DEF RingTypeOK, Registers
    <3>. QED BY <3>1, <3>2, WordType DEF InitRegisters, ResetRegisters, Registers
  <2>3. node'[n] = IF n = 0 THEN Load(r, FirstFlit(c)) ELSE r
    BY <1>1 DEF InitNode
  <2>. HIDE DEF r
  <2>4. CASE n = 0
    <3>1. FirstFlit(c) \in Flit
      <4>1. HopLimit \in 0 .. 127 /\ {0} \in SUBSET Node /\ LocalValue(0, c) \in Word
            /\ c.collective_id \in 0 .. 255
        BY <1>2, RingAssumption, WordType DEF HopLimit
      <4>. QED BY <1>2, <4>1, MakeFlitType DEF FirstFlit
    <3>. DEFINE s == Load(r, FirstFlit(c))
    <3>2. /\ s.busy = r.busy /\ s.finishing = r.finishing
          /\ s.collective_id = r.collective_id /\ s.local_value = r.local_value
          /\ s.tx_valid /\ s.tx_flit = FirstFlit(c) /\ s.protocol_error = r.protocol_error
          /\ s.result_valid = r.result_valid
      BY <2>2, <3>1, SumType, EffectFields
    <3>3. node'[n] = s BY <2>3, <2>4
    <3>. HIDE DEF s
    <3>. QED BY <1>1, <1>3, <2>1, <2>4, <3>2, <3>3 DEF NodeAt
  <2>5. CASE n # 0
    BY <1>1, <2>1, <2>3, <2>5 DEF NodeAt
  <2>. QED BY <2>4, <2>5
<1>. QED BY <1>1, <1>3, <1>4 DEF FlitAt

\* Without a flit anywhere a clock edge changes nothing.
LEMMA QuietCycle ==
  ASSUME RingTypeOK, NoFlitAnywhere, NEW stall, Cycle(stall)
  PROVE  UNCHANGED ringVars
<1>1. \A n \in Node : link[n] = <<>> /\ ~ node[n].tx_valid
  BY DEF NoFlitAnywhere, NodeIdle
<1>2. \A n \in Node : ~ Push(n) /\ ~ Pop(n, stall)
  BY <1>1 DEF Push, Pop
<1>3. \A n \in Node : NodeNext(n, stall) = node[n] /\ LinkNext(n, stall) = link[n]
  BY <1>2, RingOrder DEF NodeNext, LinkNext
<1>4. node \in [Node -> Registers] /\ link \in [Node -> Seq(Flit)] BY DEF RingTypeOK
<1>. QED BY <1>3, <1>4 DEF Cycle, ringVars

LEMMA ResetQuiet ==
  /\ RingInit => NoFlitAnywhere /\ \A n \in Node : ~ node[n].result_valid
  /\ RingReset => NoFlitAnywhere' /\ \A n \in Node : ~ node'[n].result_valid
<1>1. /\ ~ ResetRegisters.busy /\ ~ ResetRegisters.tx_valid /\ ~ ResetRegisters.finishing
      /\ ~ ResetRegisters.protocol_error /\ ~ ResetRegisters.result_valid
  BY DEF ResetRegisters
<1>. QED BY <1>1 DEF RingInit, RingReset, NoFlitAnywhere, NodeIdle

LEMMA Unchanged ==
  ASSUME UNCHANGED <<node, link, command>>
  PROVE  RingInvariant => RingInvariant'
<1>1. Total' = Total /\ \A p, phase : FlitOf(p, phase)' = FlitOf(p, phase)
  BY DEF FlitOf, Total, Sum
<1>2. NoFlitAnywhere => NoFlitAnywhere'
  BY <1>1 DEF NoFlitAnywhere, NodeIdle
<1>3. ASSUME NEW p \in Node, NEW phase \in Phase, NEW place \in Place,
             FlitAt(p, phase, place)
      PROVE  FlitAt(p, phase, place)'
  <2>1. ASSUME NEW n \in Node PROVE NodeAt(n, p, phase, place)'
    <3>1. NodeAt(n, p, phase, place) BY <1>3 DEF FlitAt
    <3>. QED BY <1>1, <3>1 DEF NodeAt
  <2>. QED BY <1>1, <1>3, <2>1 DEF FlitAt
<1>. QED BY <1>2, <1>3 DEF RingInvariant, Phase, Place

\* The place and the phase of the flit, or its absence, decide the registers of
\* every node and the contents of every link.
THEOREM FlitDecidesAll == RingSpec => []RingInvariant
<1>1. RingInit => RingInvariant BY ResetQuiet DEF RingInvariant
<1>2. RingTypeOK /\ RingInvariant /\ [RingNext]_ringVars => RingInvariant'
  <2>. SUFFICES ASSUME RingTypeOK, RingInvariant, [RingNext]_ringVars PROVE RingInvariant' OBVIOUS
  <2>1. ASSUME NEW c \in Commands, Accept(c) PROVE RingInvariant'
    <3>1. 0 \in Node BY RingAssumption DEF Node
    <3>. QED BY <2>1, <3>1, Accepted DEF RingInvariant
  <2>2. ASSUME NEW stall \in SUBSET Node, Cycle(stall) PROVE RingInvariant'
    <3>1. CASE NoFlitAnywhere
      <4>1. UNCHANGED ringVars BY <2>2, <3>1, QuietCycle
      <4>. QED BY <4>1, Unchanged DEF ringVars
    <3>2. ASSUME NEW p \in Node, NEW phase \in Phase, FlitAt(p, phase, "tx")
          PROVE  RingInvariant'
      BY <2>2, <3>2, FlitSent DEF RingInvariant, Phase
    <3>3. ASSUME NEW p \in Node, NEW phase \in Phase, FlitAt(p, phase, "link")
          PROVE  RingInvariant'
      <4>1. CASE UNCHANGED <<node, link, command>>
        BY <4>1, Unchanged
      <4>2. CASE FlitReceived(p, phase)
        <5>1. p # NUM_NODES - 1 => p + 1 \in Node BY RingAssumption DEF Node
        <5>2. 0 \in Node BY RingAssumption DEF Node
        <5>. QED BY <4>2, <5>1, <5>2 DEF FlitReceived, RingInvariant, Phase
      <4>. QED BY <2>2, <3>3, <4>1, <4>2, FlitTaken
    <3>. QED BY <3>1, <3>2, <3>3 DEF RingInvariant, Phase
  <2>3. CASE RingReset BY <2>3, ResetQuiet DEF RingInvariant
  <2>4. CASE UNCHANGED ringVars BY <2>4, Unchanged DEF ringVars
  <2>. QED BY <2>1, <2>2, <2>3, <2>4 DEF RingNext
<1>. QED BY <1>1, <1>2, RingTypeCorrect, PTL DEF RingSpec

\* No node ever reports a protocol error, whatever the links are stalled.
THEOREM NeverAnError == RingSpec => []NoProtocolError
<1>1. RingInvariant => NoProtocolError
  BY DEF RingInvariant, NoFlitAnywhere, FlitAt, NodeAt, NoProtocolError
<1>. QED BY <1>1, FlitDecidesAll, PTL

\* At most one register or link of the ring holds a flit.
THEOREM AlwaysOneFlit == RingSpec => []OneFlit
<1>1. RingInvariant => OneFlit
  <2>1. NoFlitAnywhere => OneFlit
    BY DEF NoFlitAnywhere, NodeIdle, OneFlit, Carriers
  <2>2. ASSUME NEW p \in Node, NEW phase \in Phase, NEW place \in Place,
               FlitAt(p, phase, place)
        PROVE  OneFlit
    <3>1. \A n \in Node : /\ node[n].tx_valid <=> n = p /\ place = "tx"
                          /\ link[n] = IF n = p /\ place = "link" THEN <<FlitOf(p, phase)>> ELSE <<>>
      BY <2>2 DEF FlitAt, NodeAt
    <3>2. \A x \in Carriers : x = <<place, p>>
      BY <3>1 DEF Carriers
    <3>3. \A n \in Node : Len(link[n]) <= 1
      <4>. SUFFICES ASSUME NEW n \in Node PROVE Len(link[n]) <= 1 OBVIOUS
      <4>1. link[n] = <<FlitOf(p, phase)>> \/ link[n] = <<>> BY <3>1
      <4>2. \A f : Len(<<f>>) = 1 OBVIOUS
      <4>3. CASE link[n] = <<FlitOf(p, phase)>>
        <5>1. Len(link[n]) = 1 BY <4>2, <4>3, Zenon
        <5>. QED BY <5>1
      <4>4. CASE link[n] = <<>> BY <4>4
      <4>. QED BY <4>1, <4>3, <4>4
    <3>. QED BY <3>2, <3>3 DEF OneFlit
  <2>. QED BY <2>1, <2>2 DEF RingInvariant, Phase, Place
<1>. QED BY <1>1, FlitDecidesAll, PTL

-----------------------------------------------------------------------------
(* The cluster is an all-reduce *)

\* What AllReduce sees while a flit is at node p.
ResultsAt(p, phase) == [n \in Node |-> IF phase = "BROADCAST" /\ n <= p THEN Total ELSE NoResult]
Results == [n \in Node |-> Valid(n)]

LEMMA TotalIsSum == command \in Commands => A!SumOf(command) = Total
<1>1. ASSUME NEW a \in Addend
      PROVE  (IF a[2] = command THEN 1 ELSE 0)
               = (IF a[2] = command /\ a[1] <= NUM_NODES - 1 THEN 1 ELSE 0)
  <2>1. a[1] \in Node BY DEF Addend
  <2>. QED BY <2>1, RingAssumption DEF Node
<1>. QED BY <1>1 DEF A!SumOf, A!Addend, Addend, Total, Sum

LEMMA FlitSeen ==
  ASSUME NEW p \in Node, NEW phase \in Phase, NEW place \in Place, FlitAt(p, phase, place)
  PROVE  ~ CmdReady /\ Results = ResultsAt(p, phase)
<1>1. ~ CmdReady
  <2>1. NodeAt(p, p, phase, place) /\ link[p] = IF place = "link" THEN <<FlitOf(p, phase)>> ELSE <<>>
    BY DEF FlitAt
  <2>2. CASE place = "tx" BY <2>1, <2>2 DEF NodeAt, CmdReady, NodeIdle
  <2>3. CASE place = "link"
    <3>1. \A f : <<f>> # <<>> OBVIOUS
    <3>. QED BY <2>1, <2>3, <3>1 DEF CmdReady
  <2>. QED BY <2>2, <2>3 DEF Place
<1>2. ASSUME NEW n \in Node
      PROVE  Valid(n) = IF phase = "BROADCAST" /\ n <= p THEN Total ELSE NoResult
  BY DEF FlitAt, NodeAt, Valid
<1>. QED BY <1>1, <1>2 DEF Results, ResultsAt

LEMMA QuietSeen ==
  ASSUME NoFlitAnywhere
  PROVE  /\ CmdReady
         /\ (\A n \in Node : ~ node[n].result_valid) => Results = [n \in Node |-> NoResult]
         /\ (\A n \in Node : node[n].result_valid /\ node[n].result = Total)
              => Results = [n \in Node |-> Total]
BY DEF NoFlitAnywhere, CmdReady, Results, Valid

LEMMA FlitSeenNext ==
  ASSUME NEW p \in Node, NEW phase \in Phase, NEW place \in Place, FlitAt(p, phase, place)',
         command' = command
  PROVE  ~ CmdReady' /\ Results' = ResultsAt(p, phase)' /\ Total' = Total
<1>1. ~ CmdReady'
  <2>1. /\ NodeAt(p, p, phase, place)'
        /\ link'[p] = IF place = "link" THEN <<FlitOf(p, phase)'>> ELSE <<>>
    BY DEF FlitAt
  <2>2. CASE place = "tx" BY <2>1, <2>2 DEF NodeAt, CmdReady, NodeIdle
  <2>3. CASE place = "link"
    <3>1. \A f : <<f>> # <<>> OBVIOUS
    <3>. QED BY <2>1, <2>3, <3>1 DEF CmdReady
  <2>. QED BY <2>2, <2>3 DEF Place
<1>2. ASSUME NEW n \in Node
      PROVE  Valid(n)' = IF phase = "BROADCAST" /\ n <= p THEN Total' ELSE NoResult
  BY DEF FlitAt, NodeAt, Valid
<1>3. Total' = Total BY DEF Total, Sum
<1>. QED BY <1>1, <1>2, <1>3 DEF Results, ResultsAt

\* Every step of the cluster is a step of the abstract all-reduce or invisible
\* to it.
LEMMA StepSimulates ==
  ASSUME RingTypeOK, RingInvariant, [RingNext]_ringVars
  PROVE  A!Next \/ UNCHANGED <<CmdReady, command, Results>>
<1>. USE DEF Results
<1>1. ASSUME NEW c \in Commands, Accept(c) PROVE A!Start(c)
  <2>1. CmdReady /\ command' = c BY <1>1 DEF Accept
  <2>2. 0 \in Node BY RingAssumption DEF Node
  <2>3. FlitAt(0, "REDUCE", "tx")' BY <1>1, Accepted
  <2>4. ~ CmdReady'
    <3>1. NodeAt(0, 0, "REDUCE", "tx")' BY <2>2, <2>3 DEF FlitAt
    <3>. QED BY <2>2, <3>1 DEF NodeAt, CmdReady, NodeIdle
  <2>5. \A n \in Node : ~ node'[n].result_valid BY <2>3 DEF FlitAt, NodeAt
  <2>. QED BY <2>1, <2>4, <2>5 DEF A!Start, Valid
<1>2. ASSUME NEW stall \in SUBSET Node, Cycle(stall)
      PROVE  A!Next \/ UNCHANGED <<CmdReady, command, Results>>
  <2>1. command' = command BY <1>2 DEF Cycle
  <2>2. CASE UNCHANGED <<node, link, command>>
    BY <2>2 DEF CmdReady, NodeIdle, Valid
  <2>3. CASE NoFlitAnywhere
    BY <1>2, <2>2, <2>3, QuietCycle DEF ringVars
  <2>4. ASSUME NEW p \in Node, NEW phase \in Phase, FlitAt(p, phase, "tx")
        PROVE  UNCHANGED <<CmdReady, command, Results>>
    <3>1. FlitAt(p, phase, "link")' BY <1>2, <2>4, FlitSent
    <3>2. ~ CmdReady /\ Results = ResultsAt(p, phase) BY <2>4, FlitSeen DEF Place
    <3>3. ~ CmdReady' /\ Results' = ResultsAt(p, phase)' /\ Total' = Total
      BY <2>1, <3>1, FlitSeenNext DEF Place
    <3>. QED BY <2>1, <3>2, <3>3 DEF ResultsAt, CmdReady
  <2>5. ASSUME NEW p \in Node, NEW phase \in Phase, FlitAt(p, phase, "link"),
               FlitReceived(p, phase)
        PROVE  A!Next \/ UNCHANGED <<CmdReady, command, Results>>
    <3>1. ~ CmdReady /\ Results = ResultsAt(p, phase) BY <2>5, FlitSeen DEF Place
    <3>2. Total \in Word /\ Total # NoResult /\ A!SumOf(command) = Total
      BY <2>5, SumType, TotalIsSum, RingAssumption DEF Total, FlitAt
    <3>3. p \in Nat /\ p <= NUM_NODES - 1 /\ 0 \in Node BY RingAssumption DEF Node
    <3>4. CASE p # NUM_NODES - 1
      <4>1. p + 1 \in Node BY <3>3, <3>4, RingAssumption DEF Node
      <4>2. FlitAt(p + 1, phase, "tx")' BY <2>5, <3>4 DEF FlitReceived
      <4>3. ~ CmdReady' /\ Results' = ResultsAt(p + 1, phase)' /\ Total' = Total
        BY <2>1, <4>1, <4>2, FlitSeenNext DEF Place
      <4>4. CASE phase = "REDUCE"
        BY <2>1, <3>1, <4>3, <4>4 DEF ResultsAt, CmdReady
      <4>5. CASE phase = "BROADCAST"
        <5>1. Results' = [Results EXCEPT ![p + 1] = A!SumOf(command)]
          <6>1. Results' = [n \in Node |-> IF n <= p + 1 THEN Total ELSE NoResult]
            BY <4>3, <4>5 DEF ResultsAt
          <6>2. Results = [n \in Node |-> IF n <= p THEN Total ELSE NoResult]
            BY <3>1, <4>5 DEF ResultsAt
          <6>. HIDE DEF Results
          <6>3. \A n \in Node : n <= p + 1 <=> (n <= p \/ n = p + 1) BY <3>3 DEF Node
          <6>. QED BY <3>2, <4>1, <6>1, <6>2, <6>3
        <5>2. Results[p + 1] = NoResult BY <3>1, <3>3, <4>1, <4>5 DEF ResultsAt
        <5>3. CmdReady' = CmdReady BY <3>1, <4>3 DEF CmdReady
        <5>4. A!Answer(p + 1)
          BY <2>1, <3>1, <5>1, <5>2, <5>3 DEF A!Answer
        <5>. QED BY <4>1, <5>4 DEF A!Next, A!Progress
      <4>. QED BY <4>4, <4>5 DEF Phase
    <3>5. CASE p = NUM_NODES - 1 /\ phase = "REDUCE"
      <4>1. FlitAt(0, "BROADCAST", "tx")' BY <2>5, <3>5 DEF FlitReceived
      <4>2. ~ CmdReady' /\ Results' = ResultsAt(0, "BROADCAST")' /\ Total' = Total
        BY <2>1, <3>3, <4>1, FlitSeenNext DEF Place, Phase
      <4>3. Results = [n \in Node |-> NoResult] BY <3>1, <3>5 DEF ResultsAt
      <4>4. Results' = [n \in Node |-> IF n <= 0 THEN Total ELSE NoResult]
        BY <4>2 DEF ResultsAt
      <4>5. Results' = [Results EXCEPT ![0] = A!SumOf(command)]
        <5>. HIDE DEF Results
        <5>1. \A n \in Node : n <= 0 <=> n = 0 BY DEF Node
        <5>. QED BY <3>2, <3>3, <4>3, <4>4, <5>1
      <4>6. Results[0] = NoResult BY <3>3, <4>3
      <4>7. CmdReady' = CmdReady BY <3>1, <4>2 DEF CmdReady
      <4>8. A!Answer(0) BY <2>1, <3>1, <4>5, <4>6, <4>7 DEF A!Answer
      <4>. QED BY <3>3, <4>8 DEF A!Next, A!Progress
    <3>6. CASE p = NUM_NODES - 1 /\ phase = "BROADCAST"
      <4>1. /\ NoFlitAnywhere'
            /\ \A n \in Node : node'[n].result_valid /\ node'[n].result = Total'
        BY <2>5, <3>6 DEF FlitReceived
      <4>2. Total' = Total BY <2>1 DEF Total, Sum
      <4>3. CmdReady' BY <4>1 DEF NoFlitAnywhere, NodeIdle, CmdReady
      <4>4. Results' = [n \in Node |-> Total] BY <4>1, <4>2 DEF Valid
      <4>5. Results = [n \in Node |-> Total]
        BY <3>1, <3>6 DEF ResultsAt, Node
      <4>6. A!Complete BY <2>1, <3>1, <3>2, <4>3, <4>4, <4>5 DEF A!Complete
      <4>. QED BY <4>6 DEF A!Next, A!Progress
    <3>. QED BY <3>4, <3>5, <3>6 DEF Phase
  <2>6. ASSUME NEW p \in Node, NEW phase \in Phase, FlitAt(p, phase, "link")
        PROVE  A!Next \/ UNCHANGED <<CmdReady, command, Results>>
    BY <1>2, <2>2, <2>5, <2>6, FlitTaken
  <2>. QED BY <2>3, <2>4, <2>6 DEF RingInvariant, Phase
<1>3. CASE RingReset
  <2>1. NoFlitAnywhere' /\ (\A n \in Node : ~ node'[n].result_valid) /\ command' = NoCommand
    BY <1>3, ResetQuiet DEF RingReset
  <2>. QED BY <2>1 DEF NoFlitAnywhere, NodeIdle, CmdReady, Valid, A!Next, A!Reset
<1>4. CASE UNCHANGED ringVars BY <1>4 DEF ringVars, CmdReady, NodeIdle, Valid
<1>. QED BY <1>1, <1>2, <1>3, <1>4 DEF RingNext, A!Next

\* The ring implements the abstract all-reduce: every command is answered once
\* by every node, with the sum of that command's values.
THEOREM RingRefinesAllReduce == RingSpec => AllReduceSafety
<1>1. RingInit => A!Init
  <2>. SUFFICES ASSUME RingInit PROVE A!Init OBVIOUS
  <2>1. NoFlitAnywhere /\ (\A n \in Node : ~ node[n].result_valid) /\ command = NoCommand
    BY ResetQuiet DEF RingInit
  <2>. QED BY <2>1 DEF NoFlitAnywhere, NodeIdle, CmdReady, Valid, A!Init
<1>2. RingTypeOK /\ RingInvariant /\ [RingNext]_ringVars => [A!Next]_(A!vars)
  BY StepSimulates DEF A!vars, Results
<1>. QED BY <1>1, <1>2, RingTypeCorrect, FlitDecidesAll, PTL
     DEF RingSpec, AllReduceSafety, A!Safety

=============================================================================

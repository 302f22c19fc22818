---------------------------- MODULE RingCluster ----------------------------
(***************************************************************************)
(* The distributed ring all-reduce of                                      *)
(* rtl/collectives/rcif_collective_cluster.sv: NUM_NODES nodes             *)
(* (rcif_ring_collective_node.sv), each sending to its successor through a *)
(* credited link (rcif_credit_link.sv).                                    *)
(*                                                                         *)
(* One step is one rising clock edge, on which all nodes and links move    *)
(* together, or an assertion of rst_ni.  link_stall_i may hold any links   *)
(* back.  A link is the sequence of the flits it holds; its circular       *)
(* buffer is CircularFifo.  The links deliver what they are given, so the  *)
(* header fields every node sets alike (version, opcode, partition) and    *)
(* the CRC over them are left out; source is never read.                   *)
(***************************************************************************)
EXTENDS Naturals, Sequences

CONSTANTS
  NUM_NODES,
  CREDIT_DEPTH,   \* flits a link holds
  Commands,       \* commands the host gives: records with a collective_id
  NoCommand,      \* no command since reset
  NoResult        \* a node without a valid result, to AllReduce

Node == 0 .. NUM_NODES - 1
Addend == Node \X Commands     \* <<n, c>>: the local value command c gives node n
Word == [Addend -> Nat]        \* a word is the bag of local values summed into it

ASSUME RingAssumption ==
  /\ NUM_NODES \in 1 .. 8
  /\ CREDIT_DEPTH \in Nat \ {0}
  /\ \A c \in Commands : c.collective_id \in 0 .. 255
  /\ NoCommand \notin Commands /\ NoResult \notin Word

VARIABLES
  node,      \* the registers of each node
  link,      \* link n leads from node n to its successor
  command    \* the command the host gave last

ringVars == <<node, link, command>>

-----------------------------------------------------------------------------
(* Words and flits *)

Zero == [a \in Addend |-> 0]
LocalValue(n, c) == [a \in Addend |-> IF a = <<n, c>> THEN 1 ELSE 0]
Plus(v, w) == [a \in Addend |-> v[a] + w[a]]

Successor(n) == (n + 1) % NUM_NODES
Predecessor(n) == (n + NUM_NODES - 1) % NUM_NODES

HopLimitShort == NUM_NODES - 1

HopLimit == NUM_NODES + 1

Flit == [phase : {"REDUCE", "BROADCAST"}, collective_id : 0 .. 255, destination : Node,
         hop_limit : 0 .. 127, data : Word, visited : SUBSET Node]

MakeFlit(n, data, visited, phase, hop_limit, collective_id) ==
  [phase |-> phase, collective_id |-> collective_id, destination |-> Successor(n),
   hop_limit |-> hop_limit, data |-> data, visited |-> visited]

NoFlit == [phase |-> "REDUCE", collective_id |-> 0, destination |-> 0,
           hop_limit |-> 0, data |-> Zero, visited |-> {}]

-----------------------------------------------------------------------------
(* A node *)

Registers ==
  [busy : BOOLEAN, finishing : BOOLEAN, collective_id : 0 .. 255, local_value : Word,
   tx_valid : BOOLEAN, tx_flit : Flit,
   result_valid : BOOLEAN, result : Word, protocol_error : BOOLEAN]

ResetRegisters ==
  [busy |-> FALSE, finishing |-> FALSE, collective_id |-> 0, local_value |-> Zero,
   tx_valid |-> FALSE, tx_flit |-> NoFlit,
   result_valid |-> FALSE, result |-> Zero, protocol_error |-> FALSE]

RxReady(n) == node[n].busy /\ ~ node[n].tx_valid
NodeIdle(n) == ~ node[n].busy /\ ~ node[n].tx_valid

HeaderValid(n, f) ==
  /\ f.collective_id = node[n].collective_id
  /\ f.destination = n

\* What a flit does to the registers: give the result, load the transmit
\* register, end the node's part, or refuse.
Answer(r, data) == [r EXCEPT !.result = data, !.result_valid = TRUE]
Load(r, flit) == [r EXCEPT !.tx_valid = TRUE, !.tx_flit = flit]
End(r) == [r EXCEPT !.busy = FALSE]
Fail(r) == [r EXCEPT !.protocol_error = TRUE, !.busy = FALSE]

\* The node sends on what it got, with its own mark, in the same phase.
Forward(n, f, data) ==
  MakeFlit(n, data, f.visited \cup {n}, f.phase, f.hop_limit - 1, node[n].collective_id)

Broadcast(n, data) ==
  MakeFlit(n, data, {0}, "BROADCAST", HopLimit, node[n].collective_id)

ReceiveReduceFinishes(n, f) ==
  IF n = 0
  THEN [Load(Answer(node[n], f.data), Broadcast(n, f.data)) EXCEPT !.finishing = TRUE]
  ELSE Load(node[n], Forward(n, f, Plus(f.data, node[n].local_value)))

\* REDUCE: a node adds its value; node 0 starts the broadcast of the sum once
\* every node has added.
ReceiveReduce(n, f) ==
  IF n = 0
  THEN IF f.visited # Node THEN Fail(node[n])
       ELSE Load(Answer(node[n], f.data), Broadcast(n, f.data))
  ELSE IF n \in f.visited THEN Fail(node[n])
       ELSE Load(node[n], Forward(n, f, Plus(f.data, node[n].local_value)))

\* BROADCAST: a node keeps the sum and passes it on; back at node 0 it ends.
ReceiveBroadcast(n, f) ==
  LET answered == Answer(node[n], f.data)
  IN  IF n = 0
      THEN IF f.visited # Node THEN Fail(answered) ELSE End(answered)
      ELSE IF n \in f.visited THEN Fail(answered)
           ELSE [Load(answered, Forward(n, f, f.data)) EXCEPT !.finishing = TRUE]

Receive(n, f) ==
  IF ~ HeaderValid(n, f) \/ f.hop_limit = 0 THEN Fail(node[n])
  ELSE IF f.phase = "REDUCE" THEN ReceiveReduce(n, f) ELSE ReceiveBroadcast(n, f)

\* The link took the flit; after the broadcast flit the node is finished.
Sent(n) ==
  [node[n] EXCEPT !.tx_valid = FALSE, !.finishing = FALSE,
                  !.busy = @ /\ ~ node[n].finishing]

-----------------------------------------------------------------------------
(* The cluster *)

\* rcif_credit_link: push while credits are left, pop when the receiver is
\* ready and the link not stalled.
Push(n) == node[n].tx_valid /\ Len(link[n]) < CREDIT_DEPTH
Pop(n, stall) == link[n] # <<>> /\ RxReady(Successor(n)) /\ n \notin stall

LinkNext(n, stall) ==
  LET rest == IF Pop(n, stall) THEN Tail(link[n]) ELSE link[n]
  IN  IF Push(n) THEN Append(rest, node[n].tx_flit) ELSE rest

\* A node is not ready to receive while it has a flit to send.
NodeNext(n, stall) ==
  IF Push(n) THEN Sent(n)
  ELSE IF Pop(Predecessor(n), stall) THEN Receive(n, Head(link[Predecessor(n)]))
  ELSE node[n]

CmdReady == \A n \in Node : NodeIdle(n) /\ link[n] = <<>>
Done == CmdReady /\ \A n \in Node : node[n].result_valid

InitRegisters(n, c, value) ==
  [ResetRegisters EXCEPT
     !.busy = TRUE, !.collective_id = c.collective_id, !.local_value = value,
     !.tx_flit = node[n].tx_flit]

\* start_i
FirstFlit(c) ==
  MakeFlit(0, LocalValue(0, c), {0}, "REDUCE", HopLimit, c.collective_id)

InitNodeSameId(n, c) ==
  LET r == InitRegisters(n, c, IF c.collective_id = node[n].collective_id
                               THEN node[n].local_value ELSE LocalValue(n, c))
  IN  IF n = 0 THEN Load(r, FirstFlit(c)) ELSE r

\* init_i at every node, start_i at node 0.
InitNode(n, c) ==
  LET r == InitRegisters(n, c, LocalValue(n, c))
  IN  IF n = 0 THEN Load(r, FirstFlit(c)) ELSE r

\* The host gives a command to a ready cluster: nothing else moves.
Accept(c) ==
  /\ CmdReady
  /\ node' = [n \in Node |-> InitNode(n, c)]
  /\ command' = c
  /\ UNCHANGED link

\* A clock edge without a command.
Cycle(stall) ==
  /\ node' = [n \in Node |-> NodeNext(n, stall)]
  /\ link' = [n \in Node |-> LinkNext(n, stall)]
  /\ UNCHANGED command

RingInit ==
  /\ node = [n \in Node |-> ResetRegisters]
  /\ link = [n \in Node |-> <<>>]
  /\ command = NoCommand

RingReset ==
  /\ node' = [n \in Node |-> ResetRegisters]
  /\ link' = [n \in Node |-> <<>>]
  /\ command' = NoCommand

RingNext ==
  \/ \E c \in Commands : Accept(c)
  \/ \E stall \in SUBSET Node : Cycle(stall)
  \/ RingReset

RingSpec == RingInit /\ [][RingNext]_ringVars

\* The clock keeps running and no link is stalled for ever.
Unstalled(n) == \E stall \in SUBSET (Node \ {n}) : Cycle(stall)
RingFairSpec == RingSpec /\ \A n \in Node : WF_ringVars(Unstalled(n))

-----------------------------------------------------------------------------
(* Properties *)

\* Registers and links hold what their declarations allow; a link never holds
\* more flits than it has credits.
RingTypeOK ==
  /\ node \in [Node -> Registers]
  /\ link \in [Node -> Seq(Flit)] /\ \A n \in Node : Len(link[n]) <= CREDIT_DEPTH
  /\ command \in Commands \cup {NoCommand}

\* No stall pattern makes a node see a wrong header, an exhausted hop limit, a
\* node twice or a reduction that missed one (done_o |-> !protocol_error_o and
\* result_valid_o |-> !protocol_error_o, and more: it never happens at all).
NoProtocolError == \A n \in Node : ~ node[n].protocol_error

\* One flit goes round: a collective never occupies two links or registers, so
\* one credit per link is enough and no node can block its predecessor.
Carriers ==
  {<<"tx", n>> : n \in {m \in Node : node[m].tx_valid}}
    \cup {<<"link", n>> : n \in {m \in Node : link[m] # <<>>}}
OneFlit ==
  /\ \A x, y \in Carriers : x = y
  /\ \A n \in Node : Len(link[n]) <= 1

\* Where the flit is decides every register (the inductive invariant behind
\* the theorems).  It is the flit node p sent or is about to send, in the
\* first or the second round.
Sum(p) == [a \in Addend |-> IF a[2] = command /\ a[1] <= p THEN 1 ELSE 0]
Total == Sum(NUM_NODES - 1)
FlitOf(p, phase) ==
  MakeFlit(p, IF phase = "REDUCE" THEN Sum(p) ELSE Total, 0 .. p, phase, HopLimit - p,
           command.collective_id)

NodeAt(n, p, phase, place) ==
  /\ node[n].collective_id = command.collective_id
  /\ node[n].local_value = LocalValue(n, command)
  /\ ~ node[n].protocol_error
  /\ node[n].tx_valid <=> n = p /\ place = "tx"
  /\ node[n].tx_valid => node[n].tx_flit = FlitOf(p, phase)
  /\ node[n].finishing <=> phase = "BROADCAST" /\ n = p /\ place = "tx" /\ n # 0
  /\ node[n].busy <=> ~ (phase = "BROADCAST" /\ n # 0 /\ (n < p \/ (n = p /\ place = "link")))
  /\ node[n].result_valid <=> phase = "BROADCAST" /\ n <= p
  /\ node[n].result_valid => node[n].result = Total

FlitAt(p, phase, place) ==
  /\ command \in Commands
  /\ \A n \in Node : /\ NodeAt(n, p, phase, place)
                     /\ link[n] = IF n = p /\ place = "link" THEN <<FlitOf(p, phase)>> ELSE <<>>

NoFlitAnywhere ==
  /\ \A n \in Node : /\ NodeIdle(n) /\ link[n] = <<>>
                     /\ ~ node[n].finishing /\ ~ node[n].protocol_error
  /\ \/ \A n \in Node : ~ node[n].result_valid
     \/ \A n \in Node : node[n].result_valid /\ node[n].result = Total

RingInvariant ==
  \/ NoFlitAnywhere
  \/ \E p \in Node, phase \in {"REDUCE", "BROADCAST"}, place \in {"tx", "link"} :
       FlitAt(p, phase, place)

\* The cluster is an all-reduce: each command is answered once by every node,
\* with the sum of all values of that command, and never by a value left over
\* from the command before.
Valid(n) == IF node[n].result_valid THEN node[n].result ELSE NoResult
A == INSTANCE AllReduce WITH ready <- CmdReady, result <- [n \in Node |-> Valid(n)]

AllReduceSafety == A!Safety
AllReduceLive == A!Spec

=============================================================================

--------------------------- MODULE MCHostRuntime ---------------------------
(***************************************************************************)
(* Instances of HostRuntime: a few requests and images, and the check that *)
(* every small graph is answered as its nodes mean.                        *)
(***************************************************************************)
EXTENDS HostRuntime

CONSTANTS p1, p2

Node(opcode, id, dependencies, operand0) ==
  [opcode |-> opcode, node_id |-> id, dependencies |-> dependencies, operand0 |-> operand0]

GraphRequest(graph) ==
  [opcode |-> "SUBMIT_GRAPH", flags |-> FALSE, graph |-> graph, priority |-> 0,
   argument |-> p1]
TranslateRequest(page) ==
  [opcode |-> "KV_TRANSLATE", flags |-> FALSE, graph |-> <<>>, priority |-> 0,
   argument |-> page]

\* Out of order, with two orders of the NOPs that give one result.
ChainGraph ==
  << Node("COMPLETE", 2, {0, 1}, {0}), Node("NOP", 0, {}, {1}), Node("NOP", 1, {}, {2}) >>
CycleGraph == << Node("NOP", 0, {1}, {0}), Node("NOP", 1, {0}, {1}) >>

\* Kinds of request by id: three misses on two pages, then graphs or more
\* misses, enough to fill the fault ring, to overflow it, and to overflow the
\* completion ring with replays.
T1 == TranslateRequest(p1)
T2 == TranslateRequest(p2)
Chain == GraphRequest(ChainGraph)
Cycle == GraphRequest(CycleGraph)
Unknown == [TranslateRequest(p1) EXCEPT !.opcode = "OTHER"]
MixedRequests == << {T1}, {T2}, {T1}, {Cycle, T2}, {Chain, T1, Unknown} >>
FatalRequests == << {T1}, {T2}, {Chain}, {Chain}, {Chain}, {Chain} >>

GoodImage == [authentic |-> TRUE, security_version |-> 1]
NewImage == [authentic |-> TRUE, security_version |-> 2]
BadImage == [authentic |-> FALSE, security_version |-> 2]
AllImages == {GoodImage, NewImage, BadImage}
OneImage == {NewImage}

\* Every graph of up to three nodes over two ids that can be depended on and
\* one that cannot, with operands that show which nodes were folded in.
SmallGraphs ==
  LET nodes(i) == {Node(opcode, id, deps, {i}) :
                     opcode \in {"NOP", "COMPLETE", "TENSOR"}, id \in {0, 1, 8},
                     deps \in SUBSET {0, 1}}
  IN  {<<>>} \cup {<<a>> : a \in nodes(1)}
        \cup {<<a, b>> : a \in nodes(1), b \in nodes(2)}
        \cup {<<a, b, c>> : a \in nodes(1), b \in nodes(2),
                            c \in {n \in nodes(3) : n.node_id # 8}}

ASSUME GraphsAnsweredAsMeant ==
  \A graph \in SmallGraphs : MayAnswer(graph, 0, ExecuteGraph(graph, 0))

\* HostRuntime_proofs!GraphsAsMeant proves it for all requests; here it is computed.
ASSUME RequestsMeant == GraphsMeant

=============================================================================

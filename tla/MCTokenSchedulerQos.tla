------------------------- MODULE MCTokenSchedulerQos -------------------------
(***************************************************************************)
(* Instances of the token scheduler with its QoS monitor for TLC.          *)
(***************************************************************************)
EXTENDS TokenSchedulerQos, MCTokenScheduler

\* Two DMA nodes and a COMPLETE.  The whole graph takes ten cycles of service
\* or more, the graph of its last two descriptors six or seven.
QosGraphs == { MemoryOf(D("DMA", 0, {}, {}), D("DMA", 1, {}, {}), Complete(2, {}, {})) }
LongGraph(p) == [base |-> 0, nodes |-> 3, priority |-> p]
ShortGraph(p) == [base |-> 1, nodes |-> 2, priority |-> p]
QosRequests == { LongGraph(0), ShortGraph(0), ShortGraph(3) }
OneQosRequest == { ShortGraph(3) }

=============================================================================

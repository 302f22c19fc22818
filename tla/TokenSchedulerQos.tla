------------------------- MODULE TokenSchedulerQos -------------------------
(***************************************************************************)
(* The token scheduler with two history variables: the cycles of service   *)
(* the active graph really received, which the service counter of the QoS  *)
(* monitor is meant to count, and the most that any graph since reset had. *)
(***************************************************************************)
EXTENDS TokenScheduler

VARIABLES served, longest

Busy == state \notin {"IDLE", "FINISH"}

\* Between two graphs the scheduler is in FINISH and in IDLE: cycles of waiting
\* that are nobody's service.
HANDOVER == 2

\* Counted up to one past the allocation: more is not told apart.
ServedNext ==
  IF state = "IDLE" \/ state' = "IDLE" THEN 0
  ELSE IF Busy /\ served <= MAX_GRAPH_CYCLES THEN served + 1 ELSE served

QosInit == Init /\ served = 0 /\ longest = 0

QosNext ==
  \/ /\ ClockEdge
     /\ served' = ServedNext
     /\ longest' = IF ServedNext > longest THEN ServedNext ELSE longest
  \/ /\ Reset
     /\ served' = 0 /\ longest' = 0

QosSpec == QosInit /\ [][QosNext]_<<vars, served, longest>>

\* "a sticky violation if any graph exceeds its service allocation or a
\* priority-3 request exceeds the queue-derived latency bound"
\* (scheduler_vplan.md).  A graph that overran its allocation set the flag ...
ServiceOverrunFlagged == longest > MAX_GRAPH_CYCLES => violation

\* ... and the latency bound holds for the schedules the scheduler makes itself:
\* the flag is never set as long as each graph leaves the cycles of the handover
\* unused, which the bound, (slots + 1) allocations, has no other room for.
NoFalseViolation == violation => longest > MAX_GRAPH_CYCLES - HANDOVER

=============================================================================

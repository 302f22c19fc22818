----------------------------- MODULE AllReduce -----------------------------
(***************************************************************************)
(* What an all-reduce promises its host, whatever carries it out: after a  *)
(* command every node answers once, each with the sum of the local values  *)
(* that command gave to all the nodes, and no command is taken before.     *)
(*                                                                         *)
(* A word is the bag of the local values summed into it: addition is       *)
(* associative and commutative, so the bag determines the sum.             *)
(***************************************************************************)
EXTENDS Naturals

CONSTANTS Node, Commands, NoCommand, NoResult

Addend == Node \X Commands          \* <<n, c>>: what command c gave node n
Word == [Addend -> Nat]
SumOf(c) == [a \in Addend |-> IF a[2] = c THEN 1 ELSE 0]

VARIABLES ready, command, result

Init ==
  /\ ready = TRUE
  /\ command = NoCommand
  /\ result = [n \in Node |-> NoResult]

Start(c) ==
  /\ ready
  /\ ready' = FALSE
  /\ command' = c
  /\ result' = [n \in Node |-> NoResult]

Answer(n) ==
  /\ ~ ready
  /\ result[n] = NoResult
  /\ result' = [result EXCEPT ![n] = SumOf(command)]
  /\ UNCHANGED <<ready, command>>

Complete ==
  /\ ~ ready
  /\ \A n \in Node : result[n] # NoResult
  /\ ready' = TRUE
  /\ UNCHANGED <<command, result>>

\* A reset forgets the command.
Reset ==
  /\ ready' = TRUE
  /\ command' = NoCommand
  /\ result' = [n \in Node |-> NoResult]

Progress == Complete \/ \E n \in Node : Answer(n)

Next == Progress \/ Reset \/ \E c \in Commands : Start(c)

vars == <<ready, command, result>>

Safety == Init /\ [][Next]_vars
Spec == Safety /\ WF_vars(Progress)

=============================================================================

---------------------------- MODULE BoundedQueue ----------------------------
(***************************************************************************)
(* What every FIFO of the design promises: payloads leave in the order     *)
(* they came, at most DEPTH wait, none is lost, doubled or made up.  What  *)
(* differs is a push at a full queue (policy): refused ("stall"), accepted *)
(* on the cycle of a pop ("bypass"), or accepted at the cost of the oldest *)
(* payload ("overwrite").                                                  *)
(***************************************************************************)
EXTENDS Naturals, Sequences

CONSTANTS DEPTH, Payload, Nothing

Policy == {"stall", "bypass", "overwrite"}

VARIABLES
  contents,
  out,       \* the payload taken on the last cycle
  policy     \* never changes

Init == contents = <<>> /\ out = Nothing /\ policy \in Policy

Quiet == UNCHANGED contents /\ out' = Nothing

Put(x) ==
  /\ Len(contents) < DEPTH
  /\ contents' = Append(contents, x) /\ out' = Nothing

Take ==
  /\ contents # <<>>
  /\ contents' = Tail(contents) /\ out' = Head(contents)

\* Both on one cycle.  A full queue that stalls refuses the push.
PutAndTake(x) ==
  /\ contents # <<>>
  /\ policy = "stall" => Len(contents) < DEPTH
  /\ contents' = Append(Tail(contents), x) /\ out' = Head(contents)

Overwrite(x) ==
  /\ policy = "overwrite" /\ Len(contents) = DEPTH
  /\ contents' = Append(Tail(contents), x) /\ out' = Nothing

Flush == contents' = <<>> /\ out' = Nothing

Next ==
  /\ \/ Quiet \/ Take \/ Flush
     \/ \E x \in Payload : Put(x) \/ PutAndTake(x) \/ Overwrite(x)
  /\ UNCHANGED policy

vars == <<contents, out, policy>>

Spec == Init /\ [][Next]_vars

=============================================================================

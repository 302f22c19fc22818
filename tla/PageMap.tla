------------------------------- MODULE PageMap -------------------------------
(***************************************************************************)
(* What the KV MMU promises its client: a map from virtual pages to frames *)
(* of at most Capacity pages, and one request at a time.  The answer is    *)
(* what the map says when the request is taken: no cache shows.            *)
(***************************************************************************)
EXTENDS Naturals, FiniteSets

CONSTANTS VirtPages, Frames, ZeroPage, ZeroFrame, OpcodePage, Capacity

VARIABLES
  pages,      \* a function from the mapped pages to their frames
  reply       \* <<>>, or <<r>> with r the answer that is owed

Mapped == DOMAIN pages

PayloadOf(v, f, reserved) == [virt |-> v, frame |-> f, reserved |-> reserved]

Reply(status, payload) == <<[status |-> status, result |-> payload]>>

Init == pages = [v \in {} |-> ZeroFrame] /\ reply = <<>>

Extended(v, f) == [w \in Mapped \cup {v} |-> IF w = v THEN f ELSE pages[w]]

Map(v, f) ==
  /\ v \in Mapped \/ Cardinality(Mapped) < Capacity
  /\ pages' = Extended(v, f)
  /\ reply' = Reply("OK", PayloadOf(v, f, FALSE))

RefuseMap(v, f) ==
  /\ v \notin Mapped /\ Cardinality(Mapped) = Capacity
  /\ reply' = Reply("KV_FULL", PayloadOf(v, f, FALSE))
  /\ UNCHANGED pages

Translate(v) ==
  /\ reply' = IF v \in Mapped
              THEN Reply("OK", PayloadOf(v, pages[v], FALSE))
              ELSE Reply("KV_MISS", PayloadOf(v, ZeroFrame, FALSE))
  /\ UNCHANGED pages

RefusePayload(v, f) ==
  /\ reply' = Reply("KV_RESERVED_BITS", PayloadOf(v, f, TRUE))
  /\ UNCHANGED pages

RefuseOpcode ==
  /\ reply' = Reply("UNSUPPORTED_OPCODE", PayloadOf(OpcodePage, ZeroFrame, FALSE))
  /\ UNCHANGED pages

Take == reply # <<>> /\ reply' = <<>> /\ UNCHANGED pages

Reset == pages' = [v \in {} |-> ZeroFrame] /\ reply' = <<>>

Request(v, f) ==
  /\ reply = <<>>
  /\ \/ Map(v, f) \/ RefuseMap(v, f) \/ Translate(v)
     \/ RefusePayload(v, f) \/ RefuseOpcode

Next ==
  \/ \E v \in VirtPages, f \in Frames : Request(v, f)
  \/ Take
  \/ Reset

vars == <<pages, reply>>

Spec == Init /\ [][Next]_vars

=============================================================================

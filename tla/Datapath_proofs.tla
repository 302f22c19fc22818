--------------------------- MODULE Datapath_proofs ---------------------------
(***************************************************************************)
(* Four units of the data path, for every value of their constants: the    *)
(* circular buffer implements the bounded queue; the KV MMU keeps one      *)
(* place per page and a coherent TLB, and implements the abstract map of   *)
(* pages; the tensor array and the attention engine answer what the golden *)
(* reference computes.                                                     *)
(*                                                                         *)
(* The arithmetic is a sum over the lanes, a root found bit by bit and a   *)
(* run over the tokens.  What a recursive function computes is proved here *)
(* by the least counterexample: of the numbers at which a claim fails      *)
(* there would be a least one, and the step below it gives the             *)
(* contradiction.                                                          *)
(***************************************************************************)
EXTENDS CircularFifo, KvMmu, TensorArray, AttentionEngine, FunctionTheorems, FiniteSetTheorems,
        SequenceTheorems, WellFoundedInduction, TLAPS

-----------------------------------------------------------------------------
(* The circular buffer *)

FifoInv == FifoTypeOK /\ PointersAgree
Contents == [k \in 1 .. count |-> mem[At(k)]]

\* What one clock edge does, by what moves.
Moves(push, pop, overflow, x) ==
  /\ mem' = IF push THEN [mem EXCEPT ![wr_ptr] = x] ELSE mem
  /\ wr_ptr' = IF push THEN PtrInc(wr_ptr) ELSE wr_ptr
  /\ rd_ptr' = IF pop \/ overflow THEN PtrInc(rd_ptr) ELSE rd_ptr
  /\ count' = IF push /\ ~ pop /\ ~ overflow THEN count + 1
              ELSE IF pop /\ ~ push THEN count - 1 ELSE count
  /\ out' = IF pop THEN mem[rd_ptr] ELSE Nothing
  /\ UNCHANGED policy

LEMMA CycleMoves ==
  ASSUME FifoTypeOK, NEW valid \in BOOLEAN, NEW ready \in BOOLEAN, NEW x \in Payload,
         FifoCycle(valid, x, ready)
  PROVE  \E push, pop, overflow \in BOOLEAN :
           /\ Moves(push, pop, overflow, x)
           /\ pop => count > 0
           /\ push /\ ~ pop /\ ~ overflow => count < DEPTH
           /\ push /\ pop => count < DEPTH \/ policy # "stall"
           /\ overflow => push /\ ~ pop /\ count = DEPTH /\ policy = "overwrite"
<1>. DEFINE push == FifoPush(valid, ready)
            pop == FifoPop(ready)
            overflow == Overflow(valid, ready)
<1>1. push \in BOOLEAN /\ pop \in BOOLEAN /\ overflow \in BOOLEAN
  BY DEF FifoPush, FifoPop, Overflow
<1>2. Moves(push, pop, overflow, x)
  BY DEF FifoCycle, Moves, Written, Advance, NextCount
<1>3. pop => count > 0 BY DEF FifoPop, FifoValid, FifoTypeOK
<1>4. push /\ ~ pop /\ ~ overflow => count < DEPTH
  BY FifoAssumption DEF FifoPush, Overflow, Ready, Full, FifoTypeOK
<1>5. push /\ pop => count < DEPTH \/ policy # "stall"
  BY DEF FifoPush, Ready
<1>6. overflow => push /\ ~ pop /\ count = DEPTH /\ policy = "overwrite"
  BY DEF Overflow, Full
<1>. HIDE DEF push, pop, overflow
<1>. QED BY <1>1, <1>2, <1>3, <1>4, <1>5, <1>6

LEMMA SlotType == FifoInv => \A k \in 1 .. count : At(k) \in Ptr
BY FifoAssumption DEF FifoInv, FifoTypeOK, At, Ptr

\* The slot a push writes is none of the waiting ones, unless the buffer is
\* full: then it is the oldest.
LEMMA WriteSlot ==
  FifoInv => \A k \in 1 .. count : At(k) = wr_ptr <=> (count = DEPTH /\ k = 1)
BY FifoAssumption DEF FifoInv, FifoTypeOK, PointersAgree, At, Ptr

LEMMA MovesInv ==
  ASSUME FifoInv, NEW push \in BOOLEAN, NEW pop \in BOOLEAN, NEW overflow \in BOOLEAN,
         NEW x \in Payload, Moves(push, pop, overflow, x),
         pop => count > 0, push /\ ~ pop /\ ~ overflow => count < DEPTH,
         overflow => push /\ ~ pop /\ count = DEPTH
  PROVE  /\ FifoInv'
         /\ \A k \in 1 .. DEPTH : At(k)' = IF pop \/ overflow THEN At(k + 1) ELSE At(k)
<1>1. mem' \in [Ptr -> Payload] BY DEF FifoInv, FifoTypeOK, Moves
<1>2. rd_ptr' \in Ptr /\ wr_ptr' \in Ptr /\ count' \in 0 .. DEPTH
  BY FifoAssumption DEF FifoInv, FifoTypeOK, Moves, PtrInc, Ptr
<1>3. out' \in Payload \cup {Nothing} BY DEF FifoInv, FifoTypeOK, Moves
<1>6. policy' \in {"stall", "bypass", "overwrite"} BY DEF FifoInv, FifoTypeOK, Moves
<1>4. PointersAgree'
  BY FifoAssumption DEF FifoInv, FifoTypeOK, Moves, PtrInc, Ptr, PointersAgree, At
<1>5. \A k \in 1 .. DEPTH : At(k)' = IF pop \/ overflow THEN At(k + 1) ELSE At(k)
  BY FifoAssumption DEF FifoInv, FifoTypeOK, Moves, PtrInc, Ptr, At
<1>. QED BY <1>1, <1>2, <1>3, <1>4, <1>5, <1>6 DEF FifoInv, FifoTypeOK

\* The pointers never part from the count, through every wrap.
THEOREM FifoInvariant == FifoSpec => [](FifoTypeOK /\ PointersAgree)
<1>1. FifoInit => FifoInv
  BY FifoAssumption DEF FifoInit, FifoInv, FifoTypeOK, PointersAgree, At, Ptr
<1>2. FifoInv /\ [FifoNext]_fifoVars => FifoInv'
  <2>. SUFFICES ASSUME FifoInv, [FifoNext]_fifoVars PROVE FifoInv' OBVIOUS
  <2>1. ASSUME NEW valid \in BOOLEAN, NEW ready \in BOOLEAN, NEW x \in Payload,
               FifoCycle(valid, x, ready)
        PROVE  FifoInv'
    <3>1. FifoTypeOK BY DEF FifoInv
    <3>2. PICK push, pop, overflow \in BOOLEAN :
           /\ Moves(push, pop, overflow, x)
           /\ pop => count > 0
           /\ push /\ ~ pop /\ ~ overflow => count < DEPTH
           /\ overflow => push /\ ~ pop /\ count = DEPTH
      BY <2>1, <3>1, CycleMoves
    <3>. QED BY <3>2, MovesInv
  <2>2. CASE FifoReset
    BY <2>2, FifoAssumption DEF FifoReset, FifoInv, FifoTypeOK, PointersAgree, At, Ptr
  <2>3. CASE UNCHANGED fifoVars
    BY <2>3 DEF fifoVars, FifoInv, FifoTypeOK, PointersAgree, At
  <2>. QED BY <2>1, <2>2, <2>3 DEF FifoNext
<1>. QED BY <1>1, <1>2, PTL DEF FifoSpec, FifoInv

-----------------------------------------------------------------------------
(* The refinement *)

LEMMA ContentsFacts ==
  ASSUME FifoInv
  PROVE  /\ Contents \in Seq(Payload) /\ Len(Contents) = count
         /\ Contents = <<>> <=> count = 0
         /\ \A k \in 1 .. count : Contents[k] = mem[At(k)]
<1>1. count \in Nat /\ \A k \in 1 .. count : mem[At(k)] \in Payload
  BY SlotType DEF FifoInv, FifoTypeOK
<1>. QED BY <1>1 DEF Contents

\* One clock edge on the buffer, seen as the queue.
LEMMA MovesContents ==
  ASSUME FifoInv, NEW push \in BOOLEAN, NEW pop \in BOOLEAN, NEW overflow \in BOOLEAN,
         NEW x \in Payload, Moves(push, pop, overflow, x),
         pop => count > 0, push /\ ~ pop /\ ~ overflow => count < DEPTH,
         overflow => push /\ ~ pop /\ count = DEPTH
  PROVE  LET rest == IF pop \/ overflow THEN Tail(Contents) ELSE Contents
         IN  Contents' = IF push THEN Append(rest, x) ELSE rest
<1>. DEFINE rest == IF pop \/ overflow THEN Tail(Contents) ELSE Contents
            next == IF push THEN Append(rest, x) ELSE rest
            gone == IF pop \/ overflow THEN 1 ELSE 0
<1>1. /\ count \in 0 .. DEPTH /\ DEPTH \in Nat \ {0} /\ wr_ptr \in Ptr
      /\ mem \in [Ptr -> Payload] /\ wr_ptr = At(count + 1)
  BY FifoAssumption DEF FifoInv, FifoTypeOK, PointersAgree
<1>2. Contents \in Seq(Payload) /\ Len(Contents) = count BY ContentsFacts
<1>3. pop \/ overflow => count > 0 BY <1>1
<1>4. rest \in Seq(Payload) /\ Len(rest) = count - gone
      /\ \A k \in 1 .. count - gone : rest[k] = mem[At(k + gone)]
  <2>1. CASE pop \/ overflow
    <3>1. Contents # <<>> BY <1>3, <2>1, ContentsFacts, <1>1
    <3>2. rest = Tail(Contents) /\ gone = 1 BY <2>1
    <3>3. /\ Tail(Contents) \in Seq(Payload) /\ Len(Tail(Contents)) = count - 1
          /\ \A k \in 1 .. count - 1 : Tail(Contents)[k] = Contents[k + 1]
      BY <1>1, <1>2, <3>1
    <3>4. \A k \in 1 .. count - 1 : Contents[k + 1] = mem[At(k + 1)]
      BY <1>1, ContentsFacts
    <3>. QED BY <3>2, <3>3, <3>4
  <2>2. CASE ~ (pop \/ overflow)
    <3>1. rest = Contents /\ gone = 0 BY <2>2
    <3>. QED BY <1>1, <1>2, <3>1, ContentsFacts
  <2>. QED BY <2>1, <2>2
<1>5. gone \in {0, 1} /\ gone <= count BY <1>1, <1>3
<1>6. count' = count - gone + (IF push THEN 1 ELSE 0)
  BY <1>1 DEF Moves
<1>7. FifoInv' /\ \A k \in 1 .. DEPTH : At(k)' = At(k + gone)
  BY MovesInv
<1>. HIDE DEF rest, gone
<1>8. next \in Seq(Payload) /\ Len(next) = count'
  BY <1>1, <1>4, <1>5, <1>6
<1>9. ASSUME NEW k \in 1 .. count' PROVE next[k] = mem'[At(k)']
  <2>1. count' \in 0 .. DEPTH BY <1>7 DEF FifoInv, FifoTypeOK
  <2>2. At(k)' = At(k + gone)
    <3>1. k \in 1 .. DEPTH BY <1>1, <2>1
    <3>. QED BY <1>7, <3>1
  <2>3. CASE k <= count - gone
    <3>1. next[k] = mem[At(k + gone)] BY <1>1, <1>4, <1>5, <2>3
    <3>2. mem'[At(k + gone)] = mem[At(k + gone)]
      <4>1. k + gone \in 1 .. count BY <1>1, <1>5, <2>3
      <4>2. push => At(k + gone) # wr_ptr
        <5>1. push => ~ (count = DEPTH /\ k + gone = 1)
          BY <1>1, <1>5, <2>3 DEF gone
        <5>. QED BY <4>1, <5>1, WriteSlot
      <4>3. At(k + gone) \in Ptr BY <4>1, SlotType
      <4>. QED BY <1>1, <4>2, <4>3 DEF Moves
    <3>. QED BY <2>2, <3>1, <3>2
  <2>4. CASE k > count - gone
    <3>1. push /\ k = count - gone + 1 BY <1>1, <1>5, <1>6, <2>4
    <3>2. next[k] = x BY <1>1, <1>4, <1>5, <3>1
    <3>3. At(k + gone) = wr_ptr
      <4>1. k + gone = count + 1 BY <1>1, <1>5, <3>1
      <4>. QED BY <1>1, <4>1
    <3>4. mem'[wr_ptr] = x BY <1>1, <3>1 DEF Moves
    <3>. QED BY <2>2, <3>2, <3>3, <3>4
  <2>5. k \in Nat /\ count - gone \in Nat BY <1>1, <1>5, <2>1
  <2>. HIDE DEF next
  <2>. QED BY <2>3, <2>4, <2>5
<1>10. Contents' = [k \in 1 .. count' |-> mem'[At(k)']] BY DEF Contents
<1>11. next = [k \in 1 .. count' |-> next[k]] BY <1>8
<1>12. Contents' = next BY <1>9, <1>10, <1>11
<1>. QED BY <1>12 DEF rest

\* Every circular buffer of the design is a bounded queue.
THEOREM FifoRefinesQueue == FifoSpec => QueueSpec
<1>. USE DEF Contents
<1>1. FifoInit => Q!Init
  BY DEF FifoInit, Q!Init, Q!Policy
<1>2. FifoInv /\ [FifoNext]_fifoVars => [Q!Next]_(Q!vars)
  <2>. SUFFICES ASSUME FifoInv, [FifoNext]_fifoVars PROVE Q!Next \/ UNCHANGED Q!vars OBVIOUS
  <2>1. ASSUME NEW valid \in BOOLEAN, NEW ready \in BOOLEAN, NEW x \in Payload,
               FifoCycle(valid, x, ready)
        PROVE  Q!Next
    <3>1. FifoTypeOK BY DEF FifoInv
    <3>2. PICK push, pop, overflow \in BOOLEAN :
           /\ Moves(push, pop, overflow, x)
           /\ pop => count > 0
           /\ push /\ ~ pop /\ ~ overflow => count < DEPTH
           /\ push /\ pop => count < DEPTH \/ policy # "stall"
           /\ overflow => push /\ ~ pop /\ count = DEPTH /\ policy = "overwrite"
           /\ UNCHANGED policy
      BY <2>1, <3>1, CycleMoves DEF Moves
    <3>3. LET rest == IF pop \/ overflow THEN Tail(Contents) ELSE Contents
          IN  Contents' = IF push THEN Append(rest, x) ELSE rest
      BY <3>2, MovesContents
    <3>4. /\ Len(Contents) = count /\ (Contents = <<>> <=> count = 0)
          /\ count > 0 => Head(Contents) = mem[rd_ptr]
      <4>1. count \in Nat /\ rd_ptr \in Ptr BY DEF FifoInv, FifoTypeOK
      <4>2. count > 0 => Contents[1] = mem[rd_ptr]
        <5>1. At(1) = rd_ptr BY <4>1, FifoAssumption DEF At, Ptr
        <5>. QED BY <4>1, <5>1, ContentsFacts
      <4>. QED BY <4>1, <4>2, ContentsFacts
    <3>5. out' = IF pop THEN mem[rd_ptr] ELSE Nothing BY <3>2 DEF Moves
    <3>. HIDE DEF Contents
    <3>6. CASE ~ push /\ ~ pop
      BY <3>2, <3>3, <3>5, <3>6 DEF Q!Next, Q!Quiet, Contents
    <3>7. CASE ~ push /\ pop
      <4>1. Contents # <<>> /\ Contents' = Tail(Contents) /\ out' = Head(Contents)
        BY <3>2, <3>3, <3>4, <3>5, <3>7
      <4>2. Q!Take BY <4>1 DEF Q!Take, Contents
      <4>. QED BY <3>2, <4>2 DEF Q!Next
    <3>8. CASE push /\ ~ pop /\ ~ overflow
      <4>1. Q!Put(x) BY <3>2, <3>3, <3>4, <3>5, <3>8 DEF Q!Put, Contents
      <4>. QED BY <3>2, <4>1 DEF Q!Next
    <3>9. CASE push /\ pop
      <4>1. /\ Contents # <<>> /\ Contents' = Append(Tail(Contents), x)
            /\ out' = Head(Contents) /\ (policy = "stall" => Len(Contents) < DEPTH)
        BY <3>2, <3>3, <3>4, <3>5, <3>9
      <4>2. Q!PutAndTake(x) BY <4>1 DEF Q!PutAndTake, Contents
      <4>. QED BY <3>2, <4>2 DEF Q!Next
    <3>10. CASE overflow
      <4>1. Q!Overwrite(x) BY <3>2, <3>3, <3>4, <3>5, <3>10 DEF Q!Overwrite, Contents
      <4>. QED BY <3>2, <4>1 DEF Q!Next
    <3>. QED BY <3>6, <3>7, <3>8, <3>9, <3>10
  <2>2. CASE FifoReset
    <3>1. Contents' = <<>> BY <2>2 DEF FifoReset
    <3>. QED BY <2>2, <3>1 DEF FifoReset, Q!Next, Q!Flush
  <2>3. CASE UNCHANGED fifoVars BY <2>3 DEF fifoVars, Q!vars, At
  <2>. QED BY <2>1, <2>2, <2>3 DEF FifoNext
<1>. QED BY <1>1, <1>2, FifoInvariant, PTL DEF FifoSpec, QueueSpec, Q!Spec, FifoInv

-----------------------------------------------------------------------------
(* The KV MMU *)

LEMMA FirstIn ==
  ASSUME NEW S \in SUBSET Nat, S # {}
  PROVE  First(S) \in S
<1>1. IsWellFoundedOn(OpToRel(<, Nat), Nat)
  BY NatLessThanWellFounded
<1>2. PICK x \in S : \A y \in S : ~ (<<y, x>> \in OpToRel(<, Nat))
  BY <1>1, WFMin, Zenon
<1>3. \A y \in S : ~ (y < x)
  BY <1>2 DEF OpToRel
<1>4. \A y \in S : x <= y
  BY <1>3
<1>. QED BY <1>4 DEF First

-----------------------------------------------------------------------------
(* Stores: the page table and the TLB *)

Store(n) == [0 .. n - 1 -> Slot]

\* What a store says of a page: it holds it in one slot.
LEMMA HeldOnce ==
  ASSUME NEW n \in Nat, NEW store \in Store(n), Unique(store),
         NEW i \in 0 .. n - 1, store[i].valid
  PROVE  /\ Hit(store, store[i].virt)
         /\ LookupFrame(store, store[i].virt) = store[i].frame
<1>1. Holding(store, store[i].virt) = {i}
  BY DEF Holding, Unique, Store, Slot
<1>2. Holding(store, store[i].virt) \in SUBSET Nat BY <1>1
<1>3. First(Holding(store, store[i].virt)) = i BY <1>1, <1>2, FirstIn
<1>. QED BY <1>1, <1>3 DEF Hit, LookupFrame

LEMMA HeldSomewhere ==
  ASSUME NEW n \in Nat, NEW store \in Store(n), NEW v, Hit(store, v)
  PROVE  /\ First(Holding(store, v)) \in 0 .. n - 1
         /\ store[First(Holding(store, v))].valid
         /\ store[First(Holding(store, v))].virt = v
<1>1. Holding(store, v) # {} BY DEF Hit
<1>2. Holding(store, v) \in SUBSET (0 .. n - 1) BY DEF Holding, Store
<1>3. Holding(store, v) \in SUBSET Nat BY <1>2
<1>4. First(Holding(store, v)) \in Holding(store, v) BY <1>1, <1>3, FirstIn
<1>. QED BY <1>2, <1>4 DEF Holding

LEMMA LookupType ==
  ASSUME NEW n \in Nat, NEW store \in Store(n), NEW v
  PROVE  LookupFrame(store, v) \in Frames
<1>1. CASE Hit(store, v)
  <2>1. store[First(Holding(store, v))] \in Slot
    BY <1>1, HeldSomewhere DEF Store
  <2>. QED BY <1>1, <2>1 DEF LookupFrame, Slot
<1>2. CASE ~ Hit(store, v)
  BY <1>2, KvAssumption DEF LookupFrame
<1>. QED BY <1>1, <1>2

LEMMA Placed ==
  ASSUME NEW n \in Nat, NEW store \in Store(n), NEW v, NEW victim \in 0 .. n - 1
  PROVE  /\ Place(store, v, victim) \in 0 .. n - 1
         /\ Hit(store, v) => /\ store[Place(store, v, victim)].valid
                             /\ store[Place(store, v, victim)].virt = v
         /\ ~ Hit(store, v) /\ Free(store) # {} =>
              ~ store[Place(store, v, victim)].valid
<1>1. CASE Hit(store, v)
  BY <1>1, HeldSomewhere DEF Place
<1>2. CASE ~ Hit(store, v) /\ Free(store) # {}
  <2>1. Free(store) \in SUBSET (0 .. n - 1) BY DEF Free, Store
  <2>2. Free(store) \in SUBSET Nat BY <2>1
  <2>3. First(Free(store)) \in Free(store) BY <1>2, <2>2, FirstIn
  <2>. QED BY <1>2, <2>1, <2>3 DEF Place, Free
<1>3. CASE ~ Hit(store, v) /\ Free(store) = {}
  BY <1>3 DEF Place
<1>. QED BY <1>1, <1>2, <1>3

PutIn(store, v, f, victim) ==
  [store EXCEPT ![Place(store, v, victim)] = Entry(v, f)]

LEMMA WrittenType ==
  ASSUME NEW n \in Nat, NEW store \in Store(n), NEW v \in VirtPages, NEW f \in Frames,
         NEW victim \in 0 .. n - 1
  PROVE  /\ PutIn(store, v, f, victim) \in Store(n)
         /\ \A i \in 0 .. n - 1 :
              PutIn(store, v, f, victim)[i] =
                IF i = Place(store, v, victim) THEN Entry(v, f) ELSE store[i]
<1>1. Place(store, v, victim) \in 0 .. n - 1 BY Placed
<1>2. Entry(v, f) \in Slot BY DEF Entry, Slot
<1>. QED BY <1>1, <1>2 DEF PutIn, Store

\* Writing a mapping keeps one place per page and adds nothing else.
LEMMA WrittenUnique ==
  ASSUME NEW n \in Nat, NEW store \in Store(n), NEW v \in VirtPages, NEW f \in Frames,
         NEW victim \in 0 .. n - 1, Unique(store)
  PROVE  Unique(PutIn(store, v, f, victim))
<1>. DEFINE p == Place(store, v, victim)
            new == PutIn(store, v, f, victim)
<1>1. new \in Store(n) /\ \A i \in 0 .. n - 1 : new[i] = IF i = p THEN Entry(v, f) ELSE store[i]
  BY WrittenType
<1>2. p \in 0 .. n - 1 /\ (Hit(store, v) => store[p].valid /\ store[p].virt = v)
  BY Placed
<1>3. \A i \in 0 .. n - 1 : store[i].valid /\ store[i].virt = v => i = p
  <2>1. SUFFICES ASSUME NEW i \in 0 .. n - 1, store[i].valid, store[i].virt = v
                 PROVE  i = p
    OBVIOUS
  <2>2. Hit(store, v) BY <2>1, HeldOnce
  <2>. QED BY <1>2, <2>1, <2>2 DEF Unique, Store
<1>. HIDE DEF p, new
<1>4. \A i, j \in 0 .. n - 1 :
        new[i].valid /\ new[j].valid /\ new[i].virt = new[j].virt => i = j
  <2>1. SUFFICES ASSUME NEW i \in 0 .. n - 1, NEW j \in 0 .. n - 1,
                        new[i].valid, new[j].valid, new[i].virt = new[j].virt
                 PROVE  i = j
    OBVIOUS
  <2>2. Entry(v, f).virt = v BY DEF Entry
  <2>3. CASE i = p /\ j # p
    BY <1>1, <1>3, <2>1, <2>2, <2>3
  <2>4. CASE i # p /\ j = p
    BY <1>1, <1>3, <2>1, <2>2, <2>4
  <2>5. CASE i # p /\ j # p
    BY <1>1, <2>1, <2>5 DEF Unique, Store
  <2>. QED BY <2>3, <2>4, <2>5
<1>5. DOMAIN new = 0 .. n - 1 BY <1>1 DEF Store
<1>6. Unique(new) BY <1>4, <1>5 DEF Unique
<1>. QED BY <1>6 DEF new

\* After a mapping was written the store holds it, says of other pages nothing
\* it did not say before, and forgets none of them unless there was no room.
LEMMA WrittenSays ==
  ASSUME NEW n \in Nat, NEW store \in Store(n), NEW v \in VirtPages, NEW f \in Frames,
         NEW victim \in 0 .. n - 1, Unique(store),
         NEW new, new = PutIn(store, v, f, victim)
  PROVE  /\ Hit(new, v) /\ LookupFrame(new, v) = f
         /\ \A w : w # v /\ Hit(new, w) =>
              Hit(store, w) /\ LookupFrame(new, w) = LookupFrame(store, w)
         /\ Hit(store, v) \/ Free(store) # {} =>
              \A w : w # v /\ Hit(store, w) => Hit(new, w)
<1>. DEFINE p == Place(store, v, victim)
<1>1. new \in Store(n) /\ \A i \in 0 .. n - 1 : new[i] = IF i = p THEN Entry(v, f) ELSE store[i]
  BY WrittenType
<1>2. /\ p \in 0 .. n - 1
      /\ Hit(store, v) => store[p].valid /\ store[p].virt = v
      /\ ~ Hit(store, v) /\ Free(store) # {} => ~ store[p].valid
  BY Placed
<1>3. Unique(new) BY WrittenUnique
<1>. HIDE DEF p
<1>4. Entry(v, f).valid /\ Entry(v, f).virt = v /\ Entry(v, f).frame = f
  BY DEF Entry
<1>5. Hit(new, v) /\ LookupFrame(new, v) = f
  <2>1. new[p].valid /\ new[p].virt = v /\ new[p].frame = f
    BY <1>1, <1>2, <1>4
  <2>. QED BY <1>1, <1>2, <1>3, <2>1, HeldOnce
<1>6. ASSUME NEW w, w # v, Hit(new, w)
      PROVE  Hit(store, w) /\ LookupFrame(new, w) = LookupFrame(store, w)
  <2>1. PICK i \in 0 .. n - 1 : new[i].valid /\ new[i].virt = w
    BY <1>1, <1>6, HeldSomewhere
  <2>2. i # p BY <1>1, <1>2, <1>4, <1>6, <2>1
  <2>3. new[i] = store[i] BY <1>1, <2>2
  <2>. QED BY <1>1, <1>3, <2>1, <2>3, HeldOnce
<1>7. ASSUME Hit(store, v) \/ Free(store) # {}, NEW w, w # v, Hit(store, w)
      PROVE  Hit(new, w)
  <2>1. PICK i \in 0 .. n - 1 : store[i].valid /\ store[i].virt = w
    BY <1>7, HeldSomewhere
  <2>2. i # p BY <1>2, <1>7, <2>1
  <2>3. new[i] = store[i] BY <1>1, <2>2
  <2>. QED BY <1>1, <1>3, <2>1, <2>3, HeldOnce
<1>. QED BY <1>5, <1>6, <1>7

\* A store without a page in two places has a free slot exactly when it holds
\* fewer pages than it has slots.
Held(store) == {w \in VirtPages : Hit(store, w)}

LEMMA Room ==
  ASSUME NEW n \in Nat \ {0}, NEW store \in Store(n), Unique(store)
  PROVE  /\ Free(store) = {} => Cardinality(Held(store)) = n
         /\ Free(store) # {} => Cardinality(Held(store)) < n
<1>. DEFINE all == 0 .. n - 1
            used == {i \in all : store[i].valid}
            f == [i \in used |-> store[i].virt]
<1>1. IsFiniteSet(all) /\ Cardinality(all) = n
  BY FS_Interval
<1>2. /\ IsFiniteSet(used)
      /\ Cardinality(used) <= Cardinality(all)
      /\ Cardinality(all) = Cardinality(used) => all = used
  <2>1. used \in SUBSET all OBVIOUS
  <2>. HIDE DEF used, all
  <2>. QED BY <1>1, <2>1, FS_Subset
<1>3. f \in Bijection(used, Held(store))
  <2>1. \A i \in used : f[i] \in Held(store)
    BY HeldOnce DEF Held, Store, Slot
  <2>2. \A i, j \in used : f[i] = f[j] => i = j
    BY DEF Unique, Store
  <2>3. \A w \in Held(store) : \E i \in used : f[i] = w
    BY HeldSomewhere DEF Held
  <2>4. f \in [used -> Held(store)] BY <2>1
  <2>. HIDE DEF f, used
  <2>5. f \in Injection(used, Held(store)) BY <2>2, <2>4 DEF Injection, IsInjective
  <2>6. f \in Surjection(used, Held(store)) BY <2>3, <2>4 DEF Surjection
  <2>. QED BY <2>5, <2>6 DEF Bijection
<1>4. Cardinality(Held(store)) = Cardinality(used)
  <2>. HIDE DEF f, used
  <2>1. ExistsBijection(used, Held(store)) BY <1>3 DEF ExistsBijection
  <2>. QED BY <1>2, <2>1, FS_Bijection
<1>5. Cardinality(used) \in Nat BY <1>2, FS_CardinalityType
<1>6. Free(store) = {} <=> all = used
  BY DEF Free, Store, Slot
<1>. HIDE DEF used, all
<1>. QED BY <1>1, <1>2, <1>4, <1>5, <1>6

-----------------------------------------------------------------------------
(* The inductive invariant *)

Coherent ==
  \A w \in VirtPages : Hit(tlb, w) =>
    Hit(table, w) /\ LookupFrame(table, w) = LookupFrame(tlb, w)

MmuInv == MmuTypeOK /\ OnePlacePerPage /\ Coherent /\ WalkerInStep

LEMMA StoreTypes ==
  MmuTypeOK => /\ table \in Store(ENTRIES) /\ tlb \in Store(TLB_ENTRIES)
            /\ ENTRIES \in Nat \ {0} /\ TLB_ENTRIES \in Nat \ {0}
            /\ 0 \in 0 .. ENTRIES - 1 /\ replace_index \in 0 .. TLB_ENTRIES - 1
BY KvAssumption DEF MmuTypeOK, Store

\* What a mapping does to the page table.
LEMMA MappingStored ==
  ASSUME MmuInv, NEW v \in VirtPages, NEW f \in Frames, PageMapReady(v), StoreMapping(v, f)
  PROVE  /\ table' \in Store(ENTRIES) /\ Unique(table')
         /\ Hit(table', v) /\ LookupFrame(table', v) = f
         /\ \A w : w # v => /\ Hit(table', w) <=> Hit(table, w)
                            /\ Hit(table, w) => LookupFrame(table', w) = LookupFrame(table, w)
<1>1. table' = PutIn(table, v, f, 0) BY DEF StoreMapping, PutIn
<1>2. Unique(table) BY DEF MmuInv, OnePlacePerPage
<1>3. Hit(table, v) \/ Free(table) # {} BY DEF PageMapReady
<1>4. table \in Store(ENTRIES) /\ ENTRIES \in Nat /\ 0 \in 0 .. ENTRIES - 1
  BY StoreTypes DEF MmuInv
<1>5. table' \in Store(ENTRIES) BY <1>1, <1>4, WrittenType
<1>6. Unique(table') BY <1>1, <1>2, <1>4, WrittenUnique
<1>. QED BY <1>1, <1>2, <1>3, <1>4, <1>5, <1>6, WrittenSays

\* What a fill does to the TLB: it may evict, but adds only what it is given.
LEMMA Filled ==
  ASSUME MmuInv, NEW v \in VirtPages, NEW f \in Frames, Fill(Entry(v, f))
  PROVE  /\ tlb' \in Store(TLB_ENTRIES) /\ Unique(tlb')
         /\ replace_index' \in 0 .. TLB_ENTRIES - 1
         /\ LookupFrame(tlb', v) = f
         /\ \A w : w # v /\ Hit(tlb', w) =>
              Hit(tlb, w) /\ LookupFrame(tlb', w) = LookupFrame(tlb, w)
<1>1. tlb' = PutIn(tlb, v, f, replace_index)
  BY DEF Fill, PutIn, Entry
<1>2. Unique(tlb) BY DEF MmuInv, OnePlacePerPage
<1>3. /\ tlb \in Store(TLB_ENTRIES) /\ TLB_ENTRIES \in Nat \ {0}
      /\ replace_index \in 0 .. TLB_ENTRIES - 1
  BY StoreTypes DEF MmuInv
<1>4. replace_index' \in 0 .. TLB_ENTRIES - 1
  BY <1>3 DEF Fill
<1>5. tlb' \in Store(TLB_ENTRIES) BY <1>1, <1>3, WrittenType
<1>6. Unique(tlb') BY <1>1, <1>2, <1>3, WrittenUnique
<1>. QED BY <1>1, <1>2, <1>3, <1>4, <1>5, <1>6, WrittenSays

LEMMA InitInv == MmuInit => MmuInv
<1>. SUFFICES ASSUME MmuInit PROVE MmuInv OBVIOUS
<1>1. ZeroSlot \in Slot /\ ~ ZeroSlot.valid
  BY KvAssumption DEF ZeroSlot, Slot
<1>2. ZeroRsp \in [status : Status, result : KvPayload]
  BY KvAssumption DEF ZeroRsp, PackEntry, Status, KvPayload
<1>3. /\ ZeroWalk \in [valid : BOOLEAN, hit : BOOLEAN, virt : VirtPages, frame : Frames]
      /\ ~ ZeroWalk.valid
  BY KvAssumption DEF ZeroWalk
<1>4. 0 \in 0 .. TLB_ENTRIES - 1 BY KvAssumption
<1>5. MmuTypeOK BY <1>1, <1>2, <1>3, <1>4 DEF MmuInit, MmuTypeOK
<1>6. OnePlacePerPage BY <1>1 DEF MmuInit, OnePlacePerPage, Unique
<1>7. \A w : ~ Hit(tlb, w) BY <1>1 DEF MmuInit, Hit, Holding
<1>8. WalkerInStep BY <1>3 DEF MmuInit, WalkerInStep
<1>. QED BY <1>5, <1>6, <1>7, <1>8 DEF MmuInv, Coherent

LEMMA RespondType ==
  ASSUME NEW status \in Status, NEW answer \in KvPayload, Respond(status, answer)
  PROVE  /\ rsp' \in [status : Status, result : KvPayload]
         /\ state' = "RESPOND"
BY DEF Respond

LEMMA PackType ==
  ASSUME NEW v \in VirtPages, NEW f \in Frames
  PROVE  PackEntry(v, f) \in KvPayload
BY DEF PackEntry, KvPayload

\* A step that answers and leaves the stores and the walker alone.
LEMMA MmuAnswerInv ==
  ASSUME MmuInv, state = "IDLE", NEW status \in Status, NEW answer \in KvPayload,
         Respond(status, answer), UNCHANGED <<table, walk, tlb, replace_index>>
  PROVE  MmuInv'
<1>1. MmuTypeOK' BY RespondType DEF MmuInv, MmuTypeOK
<1>2. OnePlacePerPage' BY DEF MmuInv, OnePlacePerPage, Unique
<1>3. Coherent' BY DEF MmuInv, Coherent, Hit, LookupFrame, Holding
<1>4. WalkerInStep' BY RespondType DEF MmuInv, WalkerInStep
<1>. QED BY <1>1, <1>2, <1>3, <1>4 DEF MmuInv

LEMMA IdleWalker == MmuInv /\ state = "IDLE" => ~ walk.valid
BY DEF MmuInv, WalkerInStep

LEMMA MapInv ==
  ASSUME MmuInv, NEW p \in KvPayload, Map(p)
  PROVE  MmuInv'
<1>1. p.virt \in VirtPages /\ p.frame \in Frames BY DEF KvPayload
<1>2. state = "IDLE" /\ ~ walk.valid BY IdleWalker DEF Map, ReqReady
<1>3. Fill(Entry(p.virt, p.frame)) BY <1>2 DEF Map, FillEntry
<1>4. PageMapReady(p.virt) /\ StoreMapping(p.virt, p.frame) BY DEF Map
<1>5. /\ rsp' \in [status : Status, result : KvPayload]
      /\ state' = "RESPOND" /\ walk' = walk
  <2>1. "OK" \in Status BY DEF Status
  <2>. QED BY <1>1, <2>1, PackType, RespondType DEF Map
<1>6. MmuTypeOK'
  BY <1>1, <1>3, <1>4, <1>5, MappingStored, Filled DEF MmuInv, MmuTypeOK, Store
<1>7. OnePlacePerPage'
  BY <1>1, <1>3, <1>4, MappingStored, Filled DEF OnePlacePerPage
<1>8. Coherent'
  <2>1. SUFFICES ASSUME NEW w \in VirtPages, Hit(tlb', w)
                 PROVE  Hit(table', w) /\ LookupFrame(table', w) = LookupFrame(tlb', w)
    BY DEF Coherent
  <2>2. CASE w = p.virt
    BY <1>1, <1>3, <1>4, <2>2, MappingStored, Filled
  <2>3. CASE w # p.virt
    <3>1. Hit(tlb, w) /\ LookupFrame(tlb', w) = LookupFrame(tlb, w)
      BY <1>1, <1>3, <2>1, <2>3, Filled
    <3>2. Hit(table, w) /\ LookupFrame(table, w) = LookupFrame(tlb, w)
      BY <3>1 DEF MmuInv, Coherent
    <3>. QED BY <1>1, <1>4, <2>3, <3>1, <3>2, MappingStored
  <2>. QED BY <2>2, <2>3
<1>9. WalkerInStep' BY <1>2, <1>5 DEF WalkerInStep
<1>. QED BY <1>6, <1>7, <1>8, <1>9 DEF MmuInv

LEMMA StartWalkInv ==
  ASSUME MmuInv, NEW p \in KvPayload, StartWalk(p)
  PROVE  MmuInv'
<1>1. p.virt \in VirtPages BY DEF KvPayload
<1>2. UNCHANGED <<rsp, table, tlb, replace_index>> /\ state' = "WAIT_WALK"
  BY DEF StartWalk
<1>3. walk' = [valid |-> TRUE, hit |-> Hit(table, p.virt),
               virt |-> p.virt, frame |-> LookupFrame(table, p.virt)]
  BY DEF StartWalk, Lookup
<1>4. LookupFrame(table, p.virt) \in Frames BY StoreTypes, LookupType DEF MmuInv
<1>5. Hit(table, p.virt) \in BOOLEAN BY DEF Hit
<1>6. MmuTypeOK' BY <1>1, <1>2, <1>3, <1>4, <1>5 DEF MmuInv, MmuTypeOK
<1>7. OnePlacePerPage' BY <1>2 DEF MmuInv, OnePlacePerPage
<1>8. Coherent' BY <1>2 DEF MmuInv, Coherent
<1>9. WalkerInStep' BY <1>2, <1>3 DEF WalkerInStep
<1>. QED BY <1>6, <1>7, <1>8, <1>9 DEF MmuInv

LEMMA FinishWalkInv ==
  ASSUME MmuInv, NEW p \in KvPayload, FinishWalk(p)
  PROVE  MmuInv'
<1>1. walk.valid /\ walk.virt \in VirtPages /\ walk.frame \in Frames
  BY DEF MmuInv, MmuTypeOK, FinishWalk
<1>2. table' = table /\ walk' = ZeroWalk
  BY DEF FinishWalk
<1>3. /\ rsp' \in [status : Status, result : KvPayload]
      /\ state' = "RESPOND"
  <2>1. (IF walk.hit THEN "OK" ELSE "KV_MISS") \in Status BY DEF Status
  <2>. QED BY <1>1, <2>1, PackType, RespondType DEF FinishWalk
<1>4. /\ walk' \in [valid : BOOLEAN, hit : BOOLEAN, virt : VirtPages, frame : Frames]
      /\ ~ walk'.valid
  BY <1>2, KvAssumption DEF ZeroWalk
<1>5. WalkerInStep' BY <1>3, <1>4 DEF WalkerInStep
<1>6. CASE walk.hit
  <2>1. Fill(Entry(walk.virt, walk.frame))
    BY <1>1, <1>6 DEF FinishWalk, FillEntry
  <2>2. MmuTypeOK' BY <1>1, <1>2, <1>3, <1>4, <2>1, Filled DEF MmuInv, MmuTypeOK, Store
  <2>3. OnePlacePerPage' BY <1>1, <1>2, <2>1, Filled DEF MmuInv, OnePlacePerPage
  <2>4. Hit(table, walk.virt) /\ walk.frame = LookupFrame(table, walk.virt)
    BY <1>1, <1>6 DEF MmuInv, WalkerInStep
  <2>5. Coherent'
    <3>1. SUFFICES ASSUME NEW w \in VirtPages, Hit(tlb', w)
                   PROVE  Hit(table, w) /\ LookupFrame(table, w) = LookupFrame(tlb', w)
      BY <1>2 DEF Coherent
    <3>2. CASE w = walk.virt BY <1>1, <2>1, <2>4, <3>2, Filled
    <3>3. CASE w # walk.virt
      BY <1>1, <2>1, <3>1, <3>3, Filled DEF MmuInv, Coherent
    <3>. QED BY <3>2, <3>3
  <2>. QED BY <1>5, <2>2, <2>3, <2>5 DEF MmuInv
<1>7. CASE ~ walk.hit
  <2>1. UNCHANGED <<tlb, replace_index>> BY <1>7 DEF FinishWalk
  <2>2. MmuTypeOK' BY <1>2, <1>3, <1>4, <2>1 DEF MmuInv, MmuTypeOK
  <2>3. OnePlacePerPage' BY <1>2, <2>1 DEF MmuInv, OnePlacePerPage
  <2>4. Coherent' BY <1>2, <2>1 DEF MmuInv, Coherent
  <2>. QED BY <1>5, <2>2, <2>3, <2>4 DEF MmuInv
<1>. QED BY <1>6, <1>7

LEMMA TakeInv == MmuInv /\ TakeResponse => MmuInv'
<1>. SUFFICES ASSUME MmuInv, TakeResponse PROVE MmuInv' OBVIOUS
<1>1. UNCHANGED <<table, walk, tlb, replace_index>> /\ state = "RESPOND" /\ state' = "IDLE"
  BY DEF TakeResponse
<1>2. rsp' \in [status : Status, result : KvPayload]
  BY KvAssumption DEF TakeResponse, ZeroRsp, PackEntry, Status, KvPayload
<1>3. MmuTypeOK' BY <1>1, <1>2 DEF MmuInv, MmuTypeOK
<1>4. OnePlacePerPage' BY <1>1 DEF MmuInv, OnePlacePerPage
<1>5. Coherent' BY <1>1 DEF MmuInv, Coherent
<1>6. WalkerInStep' BY <1>1 DEF MmuInv, WalkerInStep
<1>. QED BY <1>3, <1>4, <1>5, <1>6 DEF MmuInv

LEMMA ResetInv == MmuReset => MmuInv'
<1>. SUFFICES ASSUME MmuReset PROVE MmuInv' OBVIOUS
<1>1. ZeroSlot \in Slot /\ ~ ZeroSlot.valid
  BY KvAssumption DEF ZeroSlot, Slot
<1>2. ZeroRsp \in [status : Status, result : KvPayload]
  BY KvAssumption DEF ZeroRsp, PackEntry, Status, KvPayload
<1>3. /\ ZeroWalk \in [valid : BOOLEAN, hit : BOOLEAN, virt : VirtPages, frame : Frames]
      /\ ~ ZeroWalk.valid
  BY KvAssumption DEF ZeroWalk
<1>4. 0 \in 0 .. TLB_ENTRIES - 1 BY KvAssumption
<1>5. MmuTypeOK' BY <1>1, <1>2, <1>3, <1>4 DEF MmuReset, MmuTypeOK
<1>6. OnePlacePerPage' BY <1>1 DEF MmuReset, OnePlacePerPage, Unique
<1>7. \A w : ~ Hit(tlb', w) BY <1>1 DEF MmuReset, Hit, Holding
<1>8. WalkerInStep' BY <1>3 DEF MmuReset, WalkerInStep
<1>. QED BY <1>5, <1>6, <1>7, <1>8 DEF MmuInv, Coherent

LEMMA RequestInv ==
  ASSUME MmuInv, NEW p \in KvPayload, Request(p)
  PROVE  MmuInv'
<1>1. p.virt \in VirtPages /\ p.frame \in Frames BY DEF KvPayload
<1>2. ASSUME NEW opcode \in Opcode, RefusePayload(opcode, p) PROVE MmuInv'
  <2>1. "KV_RESERVED_BITS" \in Status BY DEF Status
  <2>. QED BY <1>2, <2>1, MmuAnswerInv DEF RefusePayload, ReqReady
<1>3. CASE MapFull(p)
  <2>1. "KV_FULL" \in Status BY DEF Status
  <2>. QED BY <1>1, <1>3, <2>1, MmuAnswerInv, PackType DEF MapFull, ReqReady
<1>4. CASE TranslateHit(p)
  <2>1. "OK" \in Status BY DEF Status
  <2>2. LookupFrame(tlb, p.virt) \in Frames BY StoreTypes, LookupType DEF MmuInv
  <2>. QED BY <1>1, <1>4, <2>1, <2>2, MmuAnswerInv, PackType DEF TranslateHit, ReqReady
<1>5. CASE RefuseOpcode(p)
  <2>1. "UNSUPPORTED_OPCODE" \in Status BY DEF Status
  <2>. QED BY <1>5, <2>1, KvAssumption, MmuAnswerInv, PackType DEF RefuseOpcode, ReqReady
<1>. QED BY <1>2, <1>3, <1>4, <1>5, MapInv, StartWalkInv DEF Request

LEMMA StepInv == MmuInv /\ [MmuNext]_mmuVars => MmuInv'
<1>. SUFFICES ASSUME MmuInv, [MmuNext]_mmuVars PROVE MmuInv' OBVIOUS
<1>1. ASSUME NEW p \in KvPayload, Request(p) PROVE MmuInv' BY <1>1, RequestInv
<1>2. CASE Walk BY <1>2, FinishWalkInv DEF Walk
<1>3. CASE TakeResponse BY <1>3, TakeInv
<1>4. CASE MmuReset BY <1>4, ResetInv
<1>5. CASE UNCHANGED mmuVars
  <2>1. MmuTypeOK' BY <1>5 DEF mmuVars, MmuInv, MmuTypeOK
  <2>2. OnePlacePerPage' BY <1>5 DEF mmuVars, MmuInv, OnePlacePerPage
  <2>3. Coherent' BY <1>5 DEF mmuVars, MmuInv, Coherent
  <2>4. WalkerInStep' BY <1>5 DEF mmuVars, MmuInv, WalkerInStep
  <2>. QED BY <2>1, <2>2, <2>3, <2>4 DEF MmuInv
<1>. QED BY <1>1, <1>2, <1>3, <1>4, <1>5 DEF MmuNext

LEMMA SpecInv == MmuSpec => []MmuInv
<1>. QED BY InitInv, StepInv, PTL DEF MmuSpec

-----------------------------------------------------------------------------
(* The theorems *)

\* The registers of the MMU, its stores and its walker keep their types; the
\* round-robin victim stays a slot of the TLB.
THEOREM KvTypeCorrect == MmuSpec => []MmuTypeOK
<1>1. MmuInv => MmuTypeOK BY DEF MmuInv
<1>. QED BY <1>1, SpecInv, PTL

\* No page is ever in two slots of the page table or of the TLB.
THEOREM OneFramePerPage == MmuSpec => []OnePlacePerPage
<1>1. MmuInv => OnePlacePerPage BY DEF MmuInv
<1>. QED BY <1>1, SpecInv, PTL

\* The TLB never disagrees with the page table.
THEOREM TlbNeverStale == MmuSpec => []TlbCoherent
<1>1. MmuInv => TlbCoherent
  <2>1. SUFFICES ASSUME MmuInv, NEW i \in DOMAIN tlb, tlb[i].valid
                 PROVE  Caches(tlb[i].virt, tlb[i].frame)
    BY DEF TlbCoherent
  <2>2. tlb \in Store(TLB_ENTRIES) /\ TLB_ENTRIES \in Nat /\ Unique(tlb)
    BY <2>1, StoreTypes DEF MmuInv, OnePlacePerPage
  <2>3. i \in 0 .. TLB_ENTRIES - 1 /\ tlb[i].virt \in VirtPages
    BY <2>2 DEF Store, Slot
  <2>4. Hit(tlb, tlb[i].virt) /\ LookupFrame(tlb, tlb[i].virt) = tlb[i].frame
    BY <2>1, <2>2, <2>3, HeldOnce
  <2>. QED BY <2>1, <2>3, <2>4 DEF MmuInv, Coherent, Caches
<1>. QED BY <1>1, SpecInv, PTL

-----------------------------------------------------------------------------
(* The refinement.  Pages and Owed are what PageMap's variables stand for. *)

Pages == [v \in {w \in VirtPages : Hit(table, w)} |-> LookupFrame(table, v)]

WalkAnswer ==
  [status |-> IF walk.hit THEN "OK" ELSE "KV_MISS",
   result |-> PackEntry(walk.virt, walk.frame)]

Owed ==
  CASE state = "RESPOND" -> <<rsp>>
    [] state = "WAIT_WALK" -> <<WalkAnswer>>
    [] OTHER -> <<>>

Answered(status, answer) == Owed = <<[status |-> status, result |-> answer]>>

LEMMA OwedBy ==
  /\ state = "IDLE" => Owed = <<>>
  /\ state = "RESPOND" => Owed = <<rsp>>
  /\ state = "WAIT_WALK" => Owed = <<WalkAnswer>>
BY DEF Owed

LEMMA OwedAfter ==
  /\ state' = "IDLE" => Owed' = <<>>
  /\ state' = "RESPOND" => Owed' = <<rsp'>>
  /\ state' = "WAIT_WALK" => Owed' = <<WalkAnswer'>>
BY DEF Owed

LEMMA OwedResponse ==
  ASSUME NEW status, NEW answer, Respond(status, answer)
  PROVE  Owed' = <<[status |-> status, result |-> answer]>>
BY OwedAfter DEF Respond

\* The pages after a mapping was stored are the pages before, with it.
LEMMA PagesExtended ==
  ASSUME MmuInv, NEW v \in VirtPages, NEW f \in Frames, PageMapReady(v), StoreMapping(v, f)
  PROVE  Pages' = [w \in DOMAIN Pages \cup {v} |-> IF w = v THEN f ELSE Pages[w]]
<1>1. /\ Hit(table', v) /\ LookupFrame(table', v) = f
      /\ \A w : w # v => /\ Hit(table', w) <=> Hit(table, w)
                         /\ Hit(table, w) => LookupFrame(table', w) = LookupFrame(table, w)
  BY MappingStored
<1>2. {w \in VirtPages : Hit(table', w)} = {w \in VirtPages : Hit(table, w)} \cup {v}
  BY <1>1
<1>3. \A w \in {u \in VirtPages : Hit(table, u)} \cup {v} :
        LookupFrame(table', w) = IF w = v THEN f ELSE LookupFrame(table, w)
  BY <1>1
<1>. QED BY <1>2, <1>3 DEF Pages

LEMMA PagesKept == table' = table => Pages' = Pages
BY DEF Pages

LEMMA PagesDomain == DOMAIN Pages = Held(table)
BY DEF Pages, Held

\* PageMap counts pages as this module does.
LEMMA SameCardinality == M!Cardinality(M!Mapped) = Cardinality(M!Mapped)
BY DEF M!Cardinality, Cardinality

LEMMA MapStep ==
  ASSUME MmuInv, NEW p \in KvPayload, Map(p)
  PROVE  M!Request(p.virt, p.frame)
<1>1. p.virt \in VirtPages /\ p.frame \in Frames BY DEF KvPayload
<1>2. Owed = <<>> BY OwedBy DEF Map, ReqReady
<1>3. Owed' = <<[status |-> "OK", result |-> PackEntry(p.virt, p.frame)]>>
  BY OwedResponse DEF Map
<1>4. Pages' = [w \in DOMAIN Pages \cup {p.virt} |-> IF w = p.virt THEN p.frame ELSE Pages[w]]
  BY <1>1, PagesExtended DEF Map
<1>5. p.virt \in DOMAIN Pages \/ Cardinality(DOMAIN Pages) < ENTRIES
  <2>1. table \in Store(ENTRIES) /\ ENTRIES \in Nat \ {0} /\ Unique(table)
    BY StoreTypes DEF MmuInv, OnePlacePerPage
  <2>2. /\ Free(table) = {} => Cardinality(Held(table)) = ENTRIES
        /\ Free(table) # {} => Cardinality(Held(table)) < ENTRIES
    BY <2>1, Room
  <2>. QED BY <1>1, <2>2, PagesDomain DEF Map, PageMapReady, Held
<1>6. M!Map(p.virt, p.frame)
  <2>1. p.virt \in M!Mapped \/ Cardinality(M!Mapped) < ENTRIES
    BY <1>5 DEF M!Mapped, Pages
  <2>2. Pages' = M!Extended(p.virt, p.frame)
    BY <1>4 DEF M!Extended, M!Mapped, Pages
  <2>3. Owed' = M!Reply("OK", M!PayloadOf(p.virt, p.frame, FALSE))
    BY <1>3 DEF M!Reply, M!PayloadOf, PackEntry
  <2>. QED BY <2>1, <2>2, <2>3, SameCardinality DEF M!Map, Pages, Owed, WalkAnswer
<1>. QED BY <1>2, <1>6 DEF M!Request, Owed, WalkAnswer

LEMMA MapFullStep ==
  ASSUME MmuInv, NEW p \in KvPayload, MapFull(p)
  PROVE  M!Request(p.virt, p.frame)
<1>1. p.virt \in VirtPages /\ p.frame \in Frames BY DEF KvPayload
<1>2. Owed = <<>> BY OwedBy DEF MapFull, ReqReady
<1>3. Owed' = <<[status |-> "KV_FULL", result |-> PackEntry(p.virt, p.frame)]>>
  BY OwedResponse DEF MapFull
<1>4. Pages' = Pages BY PagesKept DEF MapFull
<1>5. p.virt \notin DOMAIN Pages /\ Cardinality(DOMAIN Pages) = ENTRIES
  <2>1. table \in Store(ENTRIES) /\ ENTRIES \in Nat \ {0} /\ Unique(table)
    BY StoreTypes DEF MmuInv, OnePlacePerPage
  <2>2. /\ Free(table) = {} => Cardinality(Held(table)) = ENTRIES
        /\ Free(table) # {} => Cardinality(Held(table)) < ENTRIES
    BY <2>1, Room
  <2>. QED BY <1>1, <2>2, PagesDomain DEF MapFull, PageMapReady, Held
<1>6. M!RefuseMap(p.virt, p.frame)
  <2>1. p.virt \notin M!Mapped /\ Cardinality(M!Mapped) = ENTRIES
    BY <1>5 DEF M!Mapped, Pages
  <2>2. Owed' = M!Reply("KV_FULL", M!PayloadOf(p.virt, p.frame, FALSE))
    BY <1>3 DEF M!Reply, M!PayloadOf, PackEntry
  <2>. QED BY <1>4, <2>1, <2>2, SameCardinality DEF M!RefuseMap, Pages, Owed, WalkAnswer
<1>. QED BY <1>2, <1>6 DEF M!Request, Owed, WalkAnswer

\* Whether the TLB answers or the walker: the answer is the map's.
LEMMA TranslateStep ==
  ASSUME MmuInv, NEW p \in KvPayload, TranslateHit(p) \/ StartWalk(p)
  PROVE  M!Request(p.virt, p.frame)
<1>1. p.virt \in VirtPages /\ p.frame \in Frames BY DEF KvPayload
<1>2. Owed = <<>> BY OwedBy DEF TranslateHit, StartWalk, ReqReady
<1>3. Pages' = Pages BY PagesKept DEF TranslateHit, StartWalk
<1>4. Owed' = IF p.virt \in DOMAIN Pages
              THEN <<[status |-> "OK", result |-> PackEntry(p.virt, Pages[p.virt])]>>
              ELSE <<[status |-> "KV_MISS", result |-> PackEntry(p.virt, ZeroFrame)]>>
  <2>1. CASE TranslateHit(p)
    <3>1. Hit(table, p.virt) /\ LookupFrame(table, p.virt) = LookupFrame(tlb, p.virt)
      BY <1>1, <2>1 DEF TranslateHit, MmuInv, Coherent
    <3>2. Owed' = <<[status |-> "OK", result |-> PackEntry(p.virt, LookupFrame(tlb, p.virt))]>>
      BY <2>1, OwedResponse DEF TranslateHit
    <3>. QED BY <1>1, <3>1, <3>2 DEF Pages
  <2>2. CASE StartWalk(p)
    <3>1. Owed' = <<WalkAnswer'>> BY <2>2, OwedAfter DEF StartWalk
    <3>2. walk' = [valid |-> TRUE, hit |-> Hit(table, p.virt),
                   virt |-> p.virt, frame |-> LookupFrame(table, p.virt)]
      BY <2>2 DEF StartWalk, Lookup
    <3>3. WalkAnswer' = [status |-> IF Hit(table, p.virt) THEN "OK" ELSE "KV_MISS",
                         result |-> PackEntry(p.virt, LookupFrame(table, p.virt))]
      BY <3>2 DEF WalkAnswer
    <3>4. CASE Hit(table, p.virt) BY <1>1, <3>1, <3>3, <3>4 DEF Pages
    <3>5. CASE ~ Hit(table, p.virt)
      <4>1. LookupFrame(table, p.virt) = ZeroFrame BY <3>5 DEF LookupFrame
      <4>. QED BY <1>1, <3>1, <3>3, <3>5, <4>1 DEF Pages
    <3>. QED BY <3>4, <3>5
  <2>. QED BY <2>1, <2>2
<1>5. M!Translate(p.virt)
  BY <1>3, <1>4
     DEF M!Translate, M!Mapped, M!Reply, M!PayloadOf, PackEntry, Pages, Owed, WalkAnswer
<1>. QED BY <1>2, <1>5 DEF M!Request, Owed, WalkAnswer

LEMMA RefuseStep ==
  ASSUME MmuInv, NEW p \in KvPayload, NEW opcode \in Opcode, RefusePayload(opcode, p)
  PROVE  M!Request(p.virt, p.frame)
<1>1. Owed = <<>> BY OwedBy DEF RefusePayload, ReqReady
<1>2. Owed' = <<[status |-> "KV_RESERVED_BITS", result |-> p]>>
  BY OwedResponse DEF RefusePayload
<1>3. p = [virt |-> p.virt, frame |-> p.frame, reserved |-> TRUE]
  BY DEF KvPayload, RefusePayload
<1>4. Pages' = Pages BY PagesKept DEF RefusePayload
<1>5. M!RefusePayload(p.virt, p.frame)
  BY <1>2, <1>3, <1>4
     DEF M!RefusePayload, M!Reply, M!PayloadOf, PackEntry, Pages, Owed, WalkAnswer
<1>. QED BY <1>1, <1>5 DEF M!Request, Owed, WalkAnswer

LEMMA OpcodeStep ==
  ASSUME MmuInv, NEW p \in KvPayload, RefuseOpcode(p)
  PROVE  M!Request(p.virt, p.frame)
<1>1. Owed = <<>> BY OwedBy DEF RefuseOpcode, ReqReady
<1>2. Owed' = <<[status |-> "UNSUPPORTED_OPCODE", result |-> PackEntry(OpcodePage, ZeroFrame)]>>
  BY OwedResponse DEF RefuseOpcode
<1>3. Pages' = Pages BY PagesKept DEF RefuseOpcode
<1>4. M!RefuseOpcode
  BY <1>2, <1>3
     DEF M!RefuseOpcode, M!Reply, M!PayloadOf, PackEntry, Pages, Owed, WalkAnswer
<1>. QED BY <1>1, <1>4 DEF M!Request, Owed, WalkAnswer

\* The end of a walk shows nothing: its answer was owed since the lookup.
LEMMA FinishStep ==
  ASSUME MmuInv, NEW p \in KvPayload, FinishWalk(p)
  PROVE  UNCHANGED M!vars
<1>1. Owed = <<WalkAnswer>> BY OwedBy DEF FinishWalk
<1>2. Owed' = <<WalkAnswer>> BY OwedResponse DEF FinishWalk, WalkAnswer
<1>3. Pages' = Pages BY PagesKept DEF FinishWalk
<1>. QED BY <1>1, <1>2, <1>3 DEF M!vars, Pages, Owed, WalkAnswer

LEMMA TakeStep ==
  ASSUME TakeResponse
  PROVE  M!Take
<1>1. Owed = <<rsp>> BY OwedBy DEF TakeResponse
<1>2. Owed' = <<>> BY OwedAfter DEF TakeResponse
<1>3. Pages' = Pages BY PagesKept DEF TakeResponse
<1>. QED BY <1>1, <1>2, <1>3 DEF M!Take, Pages, Owed, WalkAnswer

LEMMA NoPages ==
  ASSUME NEW store, store = [i \in 0 .. ENTRIES - 1 |-> ZeroSlot]
  PROVE  [v \in {w \in VirtPages : Hit(store, w)} |-> LookupFrame(store, v)]
         = [v \in {} |-> ZeroFrame]
<1>1. \A w : ~ Hit(store, w) BY DEF Hit, Holding, ZeroSlot
<1>2. {w \in VirtPages : Hit(store, w)} = {} BY <1>1
<1>. QED BY <1>2

LEMMA ResetStep == MmuReset => M!Reset
<1>. SUFFICES ASSUME MmuReset PROVE M!Reset OBVIOUS
<1>1. Owed' = <<>> BY OwedAfter DEF MmuReset
<1>2. Pages' = [v \in {} |-> ZeroFrame] BY NoPages DEF MmuReset, Pages
<1>. QED BY <1>1, <1>2 DEF M!Reset, Pages, Owed, WalkAnswer

LEMMA InitMaps == MmuInit => M!Init
<1>. SUFFICES ASSUME MmuInit PROVE M!Init OBVIOUS
<1>1. Owed = <<>> BY OwedBy DEF MmuInit
<1>2. Pages = [v \in {} |-> ZeroFrame] BY NoPages DEF MmuInit, Pages
<1>. QED BY <1>1, <1>2 DEF M!Init, Pages, Owed, WalkAnswer

LEMMA StepMaps == MmuInv /\ [MmuNext]_mmuVars => [M!Next]_(M!vars)
<1>. SUFFICES ASSUME MmuInv, [MmuNext]_mmuVars PROVE M!Next \/ UNCHANGED M!vars OBVIOUS
<1>1. ASSUME NEW p \in KvPayload, Request(p) PROVE M!Next
  <2>1. p.virt \in VirtPages /\ p.frame \in Frames BY DEF KvPayload
  <2>2. M!Request(p.virt, p.frame)
    BY <1>1, RefuseStep, MapStep, MapFullStep, TranslateStep, OpcodeStep DEF Request
  <2>. QED BY <2>1, <2>2 DEF M!Next
<1>2. CASE Walk BY <1>2, FinishStep DEF Walk
<1>3. CASE TakeResponse BY <1>3, TakeStep DEF M!Next
<1>4. CASE MmuReset BY <1>4, ResetStep DEF M!Next
<1>5. CASE UNCHANGED mmuVars
  BY <1>5 DEF mmuVars, M!vars
<1>. QED BY <1>1, <1>2, <1>3, <1>4, <1>5 DEF MmuNext

\* The MMU implements the map of pages: TLB hits, walks and evictions cannot be
\* told apart from looking the page up in the current map, and a mapping is
\* refused exactly when the table is full of other pages.
THEOREM KvRefinesPageMap == MmuSpec => PageMapSpec
<1>. QED BY InitMaps, StepMaps, SpecInv, PTL DEF MmuSpec, PageMapSpec, M!Spec

-----------------------------------------------------------------------------
(* The tensor array: least counterexamples and powers of two *)

LEMMA LeastElement ==
  ASSUME NEW S \in SUBSET Nat, S # {}
  PROVE  \E x \in S : \A y \in S : x <= y
<1>1. IsWellFoundedOn(OpToRel(<, Nat), Nat)
  BY NatLessThanWellFounded
<1>2. PICK x \in S : \A y \in S : ~ (<<y, x>> \in OpToRel(<, Nat))
  BY <1>1, WFMin, Zenon
<1>3. \A y \in S : ~ (y < x)
  BY <1>2 DEF OpToRel
<1>. QED BY <1>3

\* Powers of two, as a table: the provers do not reason about an exponent.
Power(k) == 2 ^ k

LEMMA Powers ==
  /\ Power(0) = 1 /\ Power(1) = 2
  /\ Power(2) = 4 /\ Power(3) = 8
  /\ Power(4) = 16 /\ Power(5) = 32
  /\ Power(6) = 64 /\ Power(7) = 128
  /\ Power(8) = 256 /\ Power(9) = 512
  /\ Power(10) = 1024 /\ Power(11) = 2048
  /\ Power(12) = 4096 /\ Power(13) = 8192
  /\ Power(14) = 16384 /\ Power(15) = 32768
  /\ Power(16) = 65536
<1>1. Power(0) = 1 /\ Power(1) = 2 /\ Power(2) = 4 /\ Power(3) = 8 /\ Power(4) = 16
  BY DEF Power
<1>2. Power(5) = 32 /\ Power(6) = 64 /\ Power(7) = 128 /\ Power(8) = 256
  BY DEF Power
<1>3. Power(9) = 512 /\ Power(10) = 1024 /\ Power(11) = 2048 /\ Power(12) = 4096
  BY DEF Power
<1>4. Power(13) = 8192 /\ Power(14) = 16384 /\ Power(15) = 32768 /\ Power(16) = 65536
  BY DEF Power
<1>. QED BY <1>1, <1>2, <1>3, <1>4

LEMMA Doubling ==
  \A k \in 1 .. 16 : Power(k) = 2 * Power(k - 1) /\ Power(k - 1) \in Nat \ {0}
BY Powers

LEMMA HalfRanges ==
  \A k \in 8 .. 15 : Power(k) \in Nat /\ 256 <= Power(k) /\ Power(k) <= 32768
BY Powers

-----------------------------------------------------------------------------
(* The integer root *)

\* One call of refine, after the calls for fewer bits.
Refined(n, bits, below) ==
  [root \in Nat |-> IF bits = 0 THEN root ELSE below[bits - 1][SetBit(n, root, Power(bits - 1))]]
Refinement(n, N, f) == f = [b \in 0 .. N |-> Refined(n, b, f)]

LEMMA RefinementExists ==
  ASSUME NEW n \in Nat
  PROVE  \E f : Refinement(n, 16, f)
<1>. DEFINE Bad == {N \in 0 .. 16 : ~ \E f : Refinement(n, N, f)}
<1>1. SUFFICES ASSUME Bad # {} PROVE FALSE OBVIOUS
<1>2. PICK N \in Bad : \A other \in Bad : N <= other
  BY <1>1, LeastElement
<1>3. CASE N = 0
  <2>. DEFINE f == [b \in 0 .. 0 |-> [root \in Nat |-> root]]
  <2>1. Refinement(n, 0, f)
    BY DEF Refinement, Refined
  <2>. QED BY <2>1, <1>3
<1>4. CASE N # 0
  <2>1. PICK f : Refinement(n, N - 1, f)
    BY <1>2, <1>4
  <2>. DEFINE h == [b \in 0 .. N |-> Refined(n, b, f)]
  <2>2. ASSUME NEW b \in 0 .. N PROVE h[b] = Refined(n, b, h)
    <3>1. CASE b = 0
      BY <3>1 DEF Refined
    <3>2. CASE b # 0
      <4>1. b - 1 \in 0 .. N - 1 BY <3>2, <1>4
      <4>2. f[b - 1] = Refined(n, b - 1, f) BY <4>1, <2>1 DEF Refinement
      <4>3. h[b - 1] = f[b - 1] BY <4>1, <4>2
      <4>. HIDE DEF h
      <4>4. Refined(n, b, h) = Refined(n, b, f) BY <4>3 DEF Refined
      <4>. QED BY <4>4 DEF h
    <3>. QED BY <3>1, <3>2
  <2>3. h = [b \in 0 .. N |-> Refined(n, b, h)]
    <3>1. \A b \in 0 .. N : Refined(n, b, f) = Refined(n, b, h) BY <2>2
    <3>. QED BY <3>1
  <2>. QED BY <2>3 DEF Refinement
<1>. QED BY <1>3, <1>4

\* As long as the root is less than 2^bits off, refine finds it.
Found(n, r) == r \in Nat /\ r * r <= n /\ n < (r + 1) * (r + 1)
Within(n, r, off) == r \in Nat /\ r * r <= n /\ n < (r + off) * (r + off)

LEMMA RefinementFinds ==
  ASSUME NEW n \in Nat, NEW f, Refinement(n, 16, f)
  PROVE  \A b \in 0 .. 16 : \A root \in Nat :
           Within(n, root, Power(b)) => Found(n, f[b][root])
<1>. DEFINE Misses(b) == \E root \in Nat : Within(n, root, Power(b)) /\ ~ Found(n, f[b][root])
            Bad == {b \in 0 .. 16 : Misses(b)}
<1>1. SUFFICES ASSUME Bad # {} PROVE FALSE OBVIOUS
<1>2. PICK b \in Bad : \A c \in Bad : b <= c
  <2>. HIDE DEF Misses
  <2>. QED BY <1>1, LeastElement
<1>3. PICK root \in Nat : Within(n, root, Power(b)) /\ ~ Found(n, f[b][root])
  BY <1>2
<1>4. f[b] = Refined(n, b, f)
  BY DEF Refinement
<1>5. CASE b = 0
  <2>1. f[b][root] = root BY <1>4, <1>5 DEF Refined
  <2>2. Power(b) = 1 BY <1>5, Powers
  <2>. QED BY <2>1, <2>2, <1>3 DEF Found, Within
<1>6. CASE b # 0
  <2>. DEFINE bit == Power(b - 1)
              s == SetBit(n, root, bit)
  <2>1. bit \in Nat \ {0} /\ Power(b) = 2 * bit
    <3>1. b \in 1 .. 16 BY <1>6
    <3>. QED BY <3>1, Doubling
  <2>2. f[b][root] = f[b - 1][s]
    BY <1>4, <1>6 DEF Refined
  <2>3. Within(n, root, 2 * bit)
    BY <1>3, <2>1
  <2>. HIDE DEF bit
  <2>4. Within(n, s, bit)
    <3>1. CASE (root + bit) * (root + bit) <= n
      <4>1. s = root + bit BY <3>1 DEF SetBit
      <4>. QED BY <4>1, <3>1, <2>1, <2>3 DEF Within
    <3>2. CASE ~ ((root + bit) * (root + bit) <= n)
      <4>1. s = root BY <3>2 DEF SetBit
      <4>. QED BY <4>1, <3>2, <2>1, <2>3 DEF Within
    <3>. QED BY <3>1, <3>2
  <2>5. b - 1 \in 0 .. 16 /\ b - 1 \notin Bad
    BY <1>2, <1>6
  <2>. HIDE DEF s
  <2>6. Found(n, f[b - 1][s])
    BY <2>4, <2>5 DEF Within, bit
  <2>. QED BY <2>6, <2>2, <1>3
<1>. QED BY <1>5, <1>6

\* The norm unit's root is the reference's, for all that sixteen bits can square.
LEMMA RootExact ==
  ASSUME NEW n \in Nat, n < 65536 * 65536
  PROVE  IntegerSqrt(n) = IntegerRoot(n) /\ IntegerSqrt(n) \in Nat
<1>. DEFINE f == CHOOSE g : Refinement(n, 16, g)
            r == f[16][0]
<1>1. Refinement(n, 16, f)
  BY RefinementExists
<1>2. IntegerSqrt(n) = r
  BY DEF IntegerSqrt, Refinement, Refined, Power
<1>. HIDE DEF f
<1>3. Within(n, 0, Power(16))
  BY Powers DEF Within
<1>4. Found(n, r)
  BY <1>1, <1>3, RefinementFinds
<1>. HIDE DEF r
<1>5. r \in 0 .. n
  <2>1. r * r >= r BY <1>4 DEF Found
  <2>. QED BY <2>1, <1>4 DEF Found
<1>6. ASSUME NEW q \in 0 .. n, q * q <= n, (q + 1) * (q + 1) > n
      PROVE  q = r
  <2>1. CASE q < r
    <3>1. (q + 1) * (q + 1) <= r * r BY <2>1, <1>4 DEF Found
    <3>. QED BY <3>1, <1>6, <1>4 DEF Found
  <2>2. CASE r < q
    <3>1. (r + 1) * (r + 1) <= q * q BY <2>2, <1>4 DEF Found
    <3>. QED BY <3>1, <1>6, <1>4 DEF Found
  <2>. QED BY <2>1, <2>2, <1>4 DEF Found
<1>7. IntegerRoot(n) = r
  BY <1>4, <1>5, <1>6 DEF IntegerRoot, Found
<1>. QED BY <1>2, <1>7, <1>5

-----------------------------------------------------------------------------
(* Sums *)

\* One step of the fold behind a sum: the chosen element, and what is left.
Pick(s) == CHOOSE x \in s : TRUE
SumStep(f, s, sum) == IF s = {} THEN 0 ELSE f[Pick(s)] + sum[s \ {Pick(s)}]
Summed(f, S) == CHOOSE sum : sum = [s \in SUBSET S |-> SumStep(f, s, sum)]
UpTo(S, k) == {s \in SUBSET S : Cardinality(s) <= k}

LEMMA Picked ==
  ASSUME NEW s, s # {}, IsFiniteSet(s)
  PROVE  /\ Pick(s) \in s
         /\ IsFiniteSet(s \ {Pick(s)})
         /\ Cardinality(s) \in Nat \ {0}
         /\ Cardinality(s \ {Pick(s)}) = Cardinality(s) - 1
<1>1. Pick(s) \in s BY DEF Pick
<1>2. Cardinality(s) \in Nat \ {0} BY FS_EmptySet, FS_CardinalityType
<1>. QED BY <1>1, <1>2, FS_RemoveElement

LEMMA SumDefined ==
  ASSUME NEW S, IsFiniteSet(S), NEW f
  PROVE  Summed(f, S) = [s \in SUBSET S |-> SumStep(f, s, Summed(f, S))]
<1>. DEFINE Defined(k) == \E sum : sum = [s \in UpTo(S, k) |-> SumStep(f, s, sum)]
            Bad == {k \in Nat : ~ Defined(k)}
<1>1. \A s \in SUBSET S : IsFiniteSet(s) /\ Cardinality(s) \in Nat /\ Cardinality(s) <= Cardinality(S)
  BY FS_Subset, FS_CardinalityType
<1>2. Bad = {}
  <2>1. SUFFICES ASSUME Bad # {} PROVE FALSE OBVIOUS
  <2>2. PICK k \in Bad : \A j \in Bad : k <= j
    <3>. HIDE DEF Defined
    <3>. QED BY <2>1, LeastElement
  <2>3. CASE k = 0
    <3>. DEFINE sum == [s \in UpTo(S, 0) |-> 0]
    <3>1. \A s \in UpTo(S, 0) : s = {}
      BY <1>1, FS_EmptySet DEF UpTo
    <3>2. \A s \in UpTo(S, 0) : SumStep(f, s, sum) = 0
      BY <3>1 DEF SumStep
    <3>3. sum = [s \in UpTo(S, 0) |-> SumStep(f, s, sum)]
      BY <3>2
    <3>. QED BY <3>3, <2>3
  <2>4. CASE k # 0
    <3>1. PICK low : low = [s \in UpTo(S, k - 1) |-> SumStep(f, s, low)]
      BY <2>2, <2>4
    <3>. DEFINE sum == [s \in UpTo(S, k) |-> SumStep(f, s, low)]
    <3>2. ASSUME NEW s \in UpTo(S, k) PROVE SumStep(f, s, low) = SumStep(f, s, sum)
      <4>1. CASE s = {} BY <4>1 DEF SumStep
      <4>2. CASE s # {}
        <5>. DEFINE t == s \ {Pick(s)}
        <5>1. t \in UpTo(S, k - 1) /\ t \in UpTo(S, k)
          BY <4>2, <1>1, Picked, <2>4 DEF UpTo
        <5>2. low[t] = SumStep(f, t, low) BY <3>1, <5>1
        <5>3. sum[t] = SumStep(f, t, low) BY <5>1
        <5>. HIDE DEF sum
        <5>. QED BY <5>2, <5>3 DEF SumStep
      <4>. QED BY <4>1, <4>2
    <3>3. sum = [s \in UpTo(S, k) |-> SumStep(f, s, sum)]
      BY <3>2
    <3>. QED BY <3>3, <2>2
  <2>. QED BY <2>3, <2>4
<1>3. UpTo(S, Cardinality(S)) = SUBSET S
  BY <1>1 DEF UpTo
<1>4. Defined(Cardinality(S))
  BY <1>2, FS_CardinalityType
<1>5. \E sum : sum = [s \in SUBSET S |-> SumStep(f, s, sum)]
  BY <1>3, <1>4
<1>. QED BY <1>5 DEF Summed

\* A sum of integers is an integer, and one of numbers up to a bound is at most
\* as many times the bound.
LEMMA SumRange ==
  ASSUME NEW S, IsFiniteSet(S), NEW f
  PROVE  /\ f \in [S -> Int] => Summed(f, S)[S] \in Int
         /\ \A bound \in Nat :
              f \in [S -> 0 .. bound] => Summed(f, S)[S] \in 0 .. Cardinality(S) * bound
<1>. DEFINE sum == Summed(f, S)
<1>1. \A s \in SUBSET S : sum[s] = SumStep(f, s, sum)
  BY SumDefined
<1>2. \A s \in SUBSET S : IsFiniteSet(s) /\ Cardinality(s) \in Nat
  BY FS_Subset, FS_CardinalityType
<1>. HIDE DEF sum
<1>3. ASSUME f \in [S -> Int] PROVE sum[S] \in Int
  <2>. DEFINE Wrong(k) == \E s \in SUBSET S : Cardinality(s) = k /\ sum[s] \notin Int
              Bad == {k \in Nat : Wrong(k)}
  <2>1. SUFFICES ASSUME Bad # {} PROVE FALSE BY <1>2
  <2>2. PICK k \in Bad : \A j \in Bad : k <= j
    <3>. HIDE DEF Wrong
    <3>. QED BY <2>1, LeastElement
  <2>3. PICK s \in SUBSET S : Cardinality(s) = k /\ sum[s] \notin Int
    BY <2>2
  <2>4. s # {}
    <3>1. ASSUME s = {} PROVE FALSE
      <4>1. sum[s] = 0 BY <3>1, <1>1 DEF SumStep
      <4>. QED BY <4>1, <2>3
    <3>. QED BY <3>1
  <2>. DEFINE t == s \ {Pick(s)}
  <2>5. Pick(s) \in S /\ t \in SUBSET S /\ k \in Nat \ {0} /\ Cardinality(t) = k - 1
    BY <2>3, <2>4, <1>2, Picked
  <2>6. sum[t] \in Int
    <3>1. k - 1 \notin Bad /\ k - 1 \in Nat BY <2>2, <2>5
    <3>. QED BY <3>1, <2>5
  <2>7. sum[s] = f[Pick(s)] + sum[t] BY <2>4, <1>1 DEF SumStep
  <2>. HIDE DEF t
  <2>. QED BY <2>3, <2>5, <2>6, <2>7, <1>3
<1>4. ASSUME NEW bound \in Nat, f \in [S -> 0 .. bound]
      PROVE  sum[S] \in 0 .. Cardinality(S) * bound
  <2>. DEFINE Wrong(k) == \E s \in SUBSET S : Cardinality(s) = k /\ sum[s] \notin 0 .. k * bound
              Bad == {k \in Nat : Wrong(k)}
  <2>1. SUFFICES ASSUME Bad # {} PROVE FALSE BY <1>2
  <2>2. PICK k \in Bad : \A j \in Bad : k <= j
    <3>. HIDE DEF Wrong
    <3>. QED BY <2>1, LeastElement
  <2>3. PICK s \in SUBSET S : Cardinality(s) = k /\ sum[s] \notin 0 .. k * bound
    BY <2>2
  <2>4. s # {}
    <3>1. ASSUME s = {} PROVE FALSE
      <4>1. sum[s] = 0 BY <3>1, <1>1 DEF SumStep
      <4>2. k = 0 BY <3>1, <2>3, FS_EmptySet
      <4>. QED BY <4>1, <4>2, <2>3
    <3>. QED BY <3>1
  <2>. DEFINE t == s \ {Pick(s)}
  <2>5. Pick(s) \in S /\ t \in SUBSET S /\ k \in Nat \ {0} /\ Cardinality(t) = k - 1
    BY <2>3, <2>4, <1>2, Picked
  <2>6. sum[t] \in 0 .. (k - 1) * bound
    <3>1. k - 1 \notin Bad /\ k - 1 \in Nat BY <2>2, <2>5
    <3>. QED BY <3>1, <2>5
  <2>7. sum[s] = f[Pick(s)] + sum[t] BY <2>4, <1>1 DEF SumStep
  <2>8. f[Pick(s)] \in 0 .. bound BY <2>5, <1>4
  <2>9. (k - 1) * bound + bound = k * bound /\ k * bound \in Nat BY <2>5
  <2>. DEFINE x == f[Pick(s)]
              y == sum[t]
              m == (k - 1) * bound
              n == k * bound
  <2>10. (k - 1) * bound \in Nat BY <2>5
  <2>11. m \in Nat /\ n \in Nat /\ m + bound = n /\ x \in 0 .. bound /\ y \in 0 .. m
    BY <2>6, <2>8, <2>9, <2>10
  <2>. HIDE DEF x, y, m, n
  <2>12. x + y \in 0 .. n BY <2>11
  <2>. QED BY <2>12, <2>3, <2>7 DEF x, y, n
<1>. QED BY <1>3, <1>4 DEF sum

\* The products of two vectors, added up.
Products(u, v, S) == [i \in S |-> u[i] * v[i]]

LEMMA ProductsSummed ==
  ASSUME NEW u, NEW v, NEW S
  PROVE  MapThenSumSet(LAMBDA i : u[i] * v[i], S) = Summed(Products(u, v, S), S)[S]
<1>. DEFINE Folded(sum) == [s \in SUBSET S |-> SumStep(Products(u, v, S), s, sum)]
            Mapped(sum) == [s \in SUBSET S |->
                              IF s = {} THEN 0
                              ELSE u[CHOOSE x \in s : TRUE] * v[CHOOSE x \in s : TRUE]
                                     + sum[s \ {CHOOSE x \in s : TRUE}]]
<1>1. ASSUME NEW sum PROVE Folded(sum) = Mapped(sum)
  <2>1. ASSUME NEW s \in SUBSET S, s # {}
        PROVE  Products(u, v, S)[Pick(s)] = u[CHOOSE x \in s : TRUE] * v[CHOOSE x \in s : TRUE]
    <3>1. Pick(s) \in S BY <2>1 DEF Pick
    <3>. QED BY <3>1 DEF Pick, Products
  <2>. QED BY <2>1 DEF SumStep, Pick
<1>2. (CHOOSE sum : sum = Folded(sum)) = (CHOOSE sum : sum = Mapped(sum))
  <2>. HIDE DEF Folded, Mapped
  <2>. QED BY <1>1
<1>3. Summed(Products(u, v, S), S) = CHOOSE sum : sum = Folded(sum) BY DEF Summed
<1>4. MapThenSumSet(LAMBDA i : u[i] * v[i], S) = (CHOOSE sum : sum = Mapped(sum))[S]
  BY DEF MapThenSumSet, MapThenFoldSet
<1>. QED BY <1>2, <1>3, <1>4

-----------------------------------------------------------------------------
(* One row *)

Row == [packed : [Lane -> 0 .. 255], format : Formats, zero_point : Int, scale : Int,
        bias : Int, norm_gain : Int]
Job == [activation : [Lane -> Int], mode : ActivationModes, norm_enable : BOOLEAN,
        epsilon : 0 .. 2 ^ 16 - 1]
Word == MIN_VALUE .. MAX_VALUE

LEMMA LanesPositive == LANES \in Nat \ {0}
BY ArrayAssumption

LEMMA WordWidth ==
  /\ MAX_VALUE \in Nat /\ 255 <= MAX_VALUE /\ MAX_VALUE <= 32767
  /\ MIN_VALUE = - MAX_VALUE - 1
  /\ Power(OUT_W) = 2 * (MAX_VALUE + 1)
<1>1. OUT_W \in 9 .. 16
  BY ArrayAssumption
<1>2. Power(OUT_W) = 2 * Power(OUT_W - 1)
  <2>1. OUT_W \in 1 .. 16 BY <1>1
  <2>. QED BY <1>1, <2>1, Doubling
<1>3. Power(OUT_W - 1) \in Nat /\ 256 <= Power(OUT_W - 1) /\ Power(OUT_W - 1) <= 32768
  <2>1. OUT_W - 1 \in 8 .. 15 BY <1>1
  <2>. QED BY <2>1, HalfRanges
<1>4. MAX_VALUE = Power(OUT_W - 1) - 1 /\ MIN_VALUE = - Power(OUT_W - 1)
  BY DEF MAX_VALUE, MIN_VALUE, Power
<1>. QED BY <1>2, <1>3, <1>4

LEMMA LanesFinite ==
  IsFiniteSet(Lane) /\ Cardinality(Lane) = LANES
<1>1. LANES \in Int /\ LANES \in Nat \ {0} /\ 1 \in Int
  BY LanesPositive
<1>2. /\ IsFiniteSet(1 .. LANES)
      /\ Cardinality(1 .. LANES) = IF 1 > LANES THEN 0 ELSE LANES - 1 + 1
  BY <1>1, FS_Interval
<1>. QED BY <1>1, <1>2 DEF Lane

\* The decoder and the reference read a lane alike.
LEMMA DecodedAlike ==
  ASSUME NEW r \in Row, r.format # "reserved"
  PROVE  /\ Decoded(r) = DecodePackedWeights(r.packed, r.format, r.zero_point)
         /\ Decoded(r) \in [Lane -> Int]
<1>1. r.format = "int8" \/ r.format = "int4" BY DEF Row, Formats
<1>2. 2 ^ (LaneBits[r.format] - 1) \in Nat
      /\ 2 ^ LaneBits[r.format] = 2 * 2 ^ (LaneBits[r.format] - 1)
  <2>1. CASE r.format = "int8" BY <2>1 DEF LaneBits
  <2>2. CASE r.format = "int4" BY <2>2 DEF LaneBits
  <2>. QED BY <1>1, <2>1, <2>2
<1>. DEFINE half == 2 ^ (LaneBits[r.format] - 1)
<1>3. DOMAIN r.packed = Lane /\ \A lane \in Lane : r.packed[lane] \in Int /\ r.zero_point \in Int
  BY DEF Row
<1>4. Decoded(r) = [lane \in Lane |->
                      (IF r.packed[lane] >= half THEN r.packed[lane] - 2 * half
                       ELSE r.packed[lane]) - r.zero_point]
  BY DEF Decoded
<1>5. DecodePackedWeights(r.packed, r.format, r.zero_point)
        = [lane \in Lane |->
             (IF r.packed[lane] >= half THEN r.packed[lane] - 2 * half
              ELSE r.packed[lane]) - r.zero_point]
  BY <1>2, <1>3 DEF DecodePackedWeights, DecodeWeight
<1>. HIDE DEF half
<1>6. half \in Int BY <1>2 DEF half
<1>. QED BY <1>3, <1>4, <1>5, <1>6

LEMMA DotIsInt ==
  ASSUME NEW u \in [Lane -> Int], NEW v \in [Lane -> Int]
  PROVE  Dot(u, v) \in Int
<1>1. Products(u, v, Lane) \in [Lane -> Int] BY DEF Products
<1>2. DOMAIN u = Lane OBVIOUS
<1>3. Dot(u, v) = Summed(Products(u, v, Lane), Lane)[Lane]
  BY <1>2, ProductsSummed DEF Dot
<1>. QED BY <1>1, <1>3, LanesFinite, SumRange

\* What a row gives, scaled: the reference's number.
LEMMA ScaledAlike ==
  ASSUME NEW r \in Row, r.format # "reserved", NEW activation \in [Lane -> Int],
         activation = job.activation
  PROVE  ScaleApply(r) = BeforeSaturation(activation, r) /\ ScaleApply(r) \in Int
<1>1. MacTile(r) = RowSum(activation, r)
  BY DecodedAlike DEF MacTile, RowSum
<1>2. MacTile(r) \in Int
  BY DecodedAlike, DotIsInt DEF MacTile
<1>3. ScaleApply(r) = BeforeSaturation(activation, r)
  BY <1>1 DEF ScaleApply, BeforeSaturation, RoundQ8_8
<1>4. r.scale \in Int /\ r.bias \in Int BY DEF Row
<1>. DEFINE product == MacTile(r) * r.scale
<1>5. product \in Int BY <1>2, <1>4
<1>6. ScaleApply(r) = (product + (IF product >= 0 THEN 128 ELSE 127)) \div 256 + r.bias
  BY DEF ScaleApply
<1>. HIDE DEF product
<1>7. ScaleApply(r) \in Int BY <1>4, <1>5, <1>6
<1>. QED BY <1>3, <1>7

LEMMA SaturateRange ==
  ASSUME NEW n \in Int
  PROVE  Saturate(n) \in Word
BY WordWidth DEF Saturate, Clamp, Least, Word

LEMMA ActivateAlike ==
  ASSUME NEW n \in Word, job.mode \in ActivationModes, job.mode # "reserved"
  PROVE  Activate(n) = Activated(job.mode, n) /\ Activate(n) \in Word
<1>1. n \in Int /\ 0 \in Word /\ \A k \in -128 .. 127 : k \in Word
  BY WordWidth DEF Word
<1>2. CASE job.mode = "bypass" BY <1>2 DEF Activate, Activated
<1>3. CASE job.mode = "relu" BY <1>1, <1>3 DEF Activate, Activated
<1>4. CASE job.mode = "clamp_int8"
  <2>1. Clamp(-128, 127, n) \in -128 .. 127 BY <1>1 DEF Clamp, Least
  <2>. QED BY <1>1, <1>4, <2>1 DEF Activate, Activated
<1>. QED BY <1>2, <1>3, <1>4 DEF ActivationModes

-----------------------------------------------------------------------------
(* The norm *)

LEMMA SquareGrows ==
  ASSUME NEW a \in Nat, NEW b \in Nat, a <= b
  PROVE  a * a \in Nat /\ a * a <= b * b
<1>. DEFINE k == b - a
<1>1. k \in Nat /\ b = a + k OBVIOUS
<1>. HIDE DEF k
<1>2. a * a \in Nat /\ 2 * (a * k) \in Nat /\ k * k \in Nat BY <1>1
<1>3. b * b = a * a + 2 * (a * k) + k * k BY <1>1
<1>. QED BY <1>2, <1>3

LEMMA SquaresSummed ==
  ASSUME NEW values, NEW f, f = [i \in Lane |-> Unsigned(values[i]) * Unsigned(values[i])]
  PROVE  SumSquare(values) = Summed(f, Lane)[Lane]
<1>. DEFINE Folded(sum) == [s \in SUBSET Lane |-> SumStep(f, s, sum)]
            Mapped(sum) == [s \in SUBSET Lane |->
                              IF s = {} THEN 0
                              ELSE Unsigned(values[CHOOSE x \in s : TRUE])
                                     * Unsigned(values[CHOOSE x \in s : TRUE])
                                     + sum[s \ {CHOOSE x \in s : TRUE}]]
<1>1. ASSUME NEW sum PROVE Folded(sum) = Mapped(sum)
  <2>1. ASSUME NEW s \in SUBSET Lane, s # {}
        PROVE  f[Pick(s)] = Unsigned(values[CHOOSE x \in s : TRUE])
                              * Unsigned(values[CHOOSE x \in s : TRUE])
    <3>1. Pick(s) \in Lane BY <2>1 DEF Pick
    <3>. QED BY <3>1 DEF Pick
  <2>. QED BY <2>1 DEF SumStep, Pick
<1>2. (CHOOSE sum : sum = Folded(sum)) = (CHOOSE sum : sum = Mapped(sum))
  <2>. HIDE DEF Folded, Mapped
  <2>. QED BY <1>1
<1>3. Summed(f, Lane) = CHOOSE sum : sum = Folded(sum) BY DEF Summed
<1>4. SumSquare(values) = (CHOOSE sum : sum = Mapped(sum))[Lane]
  BY DEF SumSquare, MapThenSumSet, MapThenFoldSet
<1>. QED BY <1>2, <1>3, <1>4

\* The mean of squares stays within what the root can find.
LEMMA RmsExact ==
  ASSUME NEW values \in [Lane -> 0 .. MAX_VALUE], job.epsilon \in 0 .. 2 ^ 16 - 1
  PROVE  Rms(values) = RootMeanSquare(values, job.epsilon) /\ Rms(values) \in Nat
<1>. DEFINE f == Products(values, values, Lane)
            sum == Summed(f, Lane)[Lane]
            bound == MAX_VALUE * MAX_VALUE
<1>1. ASSUME NEW i \in Lane
      PROVE  Unsigned(values[i]) = values[i] /\ values[i] \in Nat
             /\ values[i] * values[i] \in 0 .. bound
  <2>. DEFINE n == values[i]
  <2>1. n \in 0 .. MAX_VALUE OBVIOUS
  <2>. HIDE DEF n
  <2>2. n \in Nat /\ n < Power(OUT_W) /\ Power(OUT_W) \in Nat \ {0} BY <2>1, WordWidth
  <2>3. n % Power(OUT_W) = n
    BY <2>2
  <2>4. MAX_VALUE \in Nat /\ n <= MAX_VALUE BY <2>1, WordWidth
  <2>5. n * n \in 0 .. bound
    <3>1. n * n \in Nat /\ n * n <= bound BY <2>2, <2>4, SquareGrows
    <3>2. bound \in Nat BY <2>4
    <3>. HIDE DEF bound
    <3>. QED BY <3>1, <3>2
  <2>. QED BY <2>2, <2>3, <2>5 DEF Unsigned, Power, n
<1>2. SumSquare(values) = sum
  <2>1. f = [i \in Lane |-> Unsigned(values[i]) * Unsigned(values[i])]
    BY <1>1 DEF Products
  <2>. HIDE DEF f
  <2>. QED BY <2>1, SquaresSummed
<1>3. Dot(values, values) = sum
  <2>1. DOMAIN values = Lane OBVIOUS
  <2>. QED BY <2>1, ProductsSummed DEF Dot
<1>4. f \in [Lane -> 0 .. bound] BY <1>1 DEF Products
<1>5. bound \in Nat /\ bound <= 32767 * 32767
  <2>1. MAX_VALUE \in Nat /\ 32767 \in Nat /\ MAX_VALUE <= 32767 BY WordWidth
  <2>. QED BY <2>1, SquareGrows
<1>6. sum \in 0 .. LANES * bound
  <2>. HIDE DEF bound, f
  <2>. QED BY <1>4, <1>5, LanesFinite, SumRange
<1>. HIDE DEF sum, bound
<1>7. LANES \in Nat \ {0} BY LanesPositive
<1>8. sum \div LANES \in 0 .. bound
  BY <1>5, <1>6, <1>7
<1>9. Len(values) = LANES
  <2>1. values \in Seq(Int) BY <1>7, WordWidth DEF Lane
  <2>. QED BY <2>1, <1>7 DEF Lane
<1>. DEFINE mean == sum \div LANES + job.epsilon
<1>10. mean \in Nat /\ mean < 65536 * 65536
  BY <1>5, <1>8
<1>11. Rms(values) = IntegerSqrt(mean)
  BY <1>2 DEF Rms
<1>12. RootMeanSquare(values, job.epsilon) = IntegerRoot(mean)
  BY <1>3, <1>9 DEF RootMeanSquare
<1>. HIDE DEF mean
<1>. QED BY <1>10, <1>11, <1>12, RootExact

-----------------------------------------------------------------------------
(* The inductive invariant *)

RowDone(i) ==
  bank[i] = Projected[i] /\ (i \in saturated <=> i \in ProjectionSaturates)

ArrayTypes ==
  /\ array \in {"IDLE", "RUN", "POST", "WAIT_NORM", "RESPOND"}
  /\ weight_rows \in [Lane -> Row] /\ weight_valid \subseteq Lane
  /\ job \in Job /\ row \in Lane
  /\ bank \in [Lane -> Int] /\ saturated \subseteq Lane
  /\ config_error \in BOOLEAN

\* The rows before row are the reference's, and no bit of a row to come is set.
RowsSoFar == \A i \in Lane : IF i < row THEN RowDone(i) ELSE i \notin saturated
RowsDone == \A i \in Lane : RowDone(i)

ArrayInv ==
  /\ ArrayTypes
  /\ array \in {"RUN", "POST", "WAIT_NORM"} => RequestValid(job) /\ ~ config_error
  /\ array = "RUN" => RowsSoFar
  /\ array \in {"POST", "WAIT_NORM"} => RowsDone
  /\ norm = (IF array = "WAIT_NORM" THEN <<NormResponse>> ELSE <<>>)
  /\ array = "WAIT_NORM" => job.norm_enable
  /\ array = "RESPOND" =>
       /\ ~ job.norm_enable
       /\ IF RequestValid(job) THEN ~ config_error /\ RowsDone
          ELSE config_error /\ bank = ZeroBank /\ saturated = {}

LEMMA ArrayInvInit ==
  ArrayInit => ArrayInv
<1>. SUFFICES ASSUME ArrayInit PROVE ArrayInv OBVIOUS
<1>1. ZeroRow \in Row
  BY DEF ZeroRow, Row, Formats
<1>2. NoJob \in Job
  BY DEF NoJob, Job, ActivationModes
<1>3. ZeroBank \in [Lane -> Int] /\ 1 \in Lane
  BY LanesPositive DEF ZeroBank, Lane
<1>. QED BY <1>1, <1>2, <1>3 DEF ArrayInit, ArrayInv, ArrayTypes

\* What a row is asked for is a word.
LEMMA ProjectedWords ==
  ASSUME ArrayTypes, RequestValid(job), NEW i \in Lane
  PROVE  LET value == ScaleApply(weight_rows[i])
         IN  /\ Projected[i] = Activate(Saturate(value))
             /\ Projected[i] \in Word
             /\ i \in ProjectionSaturates <=> OutOfRange(value)
<1>1. weight_rows[i] \in Row /\ weight_rows[i].format # "reserved"
      /\ job.mode \in ActivationModes /\ job.mode # "reserved"
      /\ job.activation \in [Lane -> Int]
  BY DEF ArrayTypes, RequestValid, Job
<1>. DEFINE value == ScaleApply(weight_rows[i])
<1>2. value = BeforeSaturation(job.activation, weight_rows[i]) /\ value \in Int
  BY <1>1, ScaledAlike
<1>3. Projected[i] = Activated(job.mode, Saturate(value))
  BY <1>2 DEF Projected
<1>4. i \in ProjectionSaturates <=> OutOfRange(value)
  BY <1>2 DEF ProjectionSaturates
<1>. HIDE DEF value
<1>5. Saturate(value) \in Word
  BY <1>2, SaturateRange
<1>6. Activate(Saturate(value)) = Activated(job.mode, Saturate(value))
      /\ Activate(Saturate(value)) \in Word
  BY <1>1, <1>5, ActivateAlike
<1>. QED BY <1>3, <1>4, <1>6 DEF value

\* As long as the rows and the request stay, so does what is asked for.
LEMMA SameProjection ==
  ASSUME UNCHANGED <<weight_rows, job>>
  PROVE  Projected' = Projected /\ ProjectionSaturates' = ProjectionSaturates
BY DEF Projected, ProjectionSaturates

LEMMA RunRowInv ==
  ASSUME ArrayInv, RunRow
  PROVE  ArrayInv'
<1>. DEFINE value == ScaleApply(weight_rows[row])
<1>1. /\ array = "RUN" /\ ArrayTypes /\ RequestValid(job) /\ ~ config_error /\ RowsSoFar
      /\ norm = <<>> /\ row \in Lane
  BY DEF RunRow, ArrayInv, ArrayTypes
<1>2. /\ bank' = [bank EXCEPT ![row] = Activate(Saturate(value))]
      /\ saturated' = IF OutOfRange(value) THEN saturated \union {row} ELSE saturated
      /\ IF row = LANES THEN array' = "POST" /\ row' = row ELSE row' = row + 1 /\ array' = array
      /\ UNCHANGED <<weight_rows, weight_valid, job, norm>>
  BY DEF RunRow
<1>3. Projected[row] = Activate(Saturate(value)) /\ Projected[row] \in Word
      /\ (row \in ProjectionSaturates <=> OutOfRange(value))
  BY <1>1, ProjectedWords
<1>. HIDE DEF value
<1>4. Projected' = Projected /\ ProjectionSaturates' = ProjectionSaturates
  BY <1>2, SameProjection
<1>5. ASSUME NEW i \in Lane
      PROVE  IF i <= row THEN RowDone(i)' ELSE i \notin saturated'
  <2>1. i \in Int /\ row \in Int BY <1>1 DEF Lane
  <2>2. CASE i = row
    <3>1. bank'[i] = Projected'[i]
      BY <1>1, <1>2, <1>3, <1>4, <2>2 DEF ArrayTypes
    <3>2. i \notin saturated BY <1>1, <2>1, <2>2 DEF RowsSoFar
    <3>3. i \in saturated' <=> i \in ProjectionSaturates'
      BY <1>2, <1>3, <1>4, <2>2, <3>2
    <3>. QED BY <2>1, <2>2, <3>1, <3>3 DEF RowDone
  <2>3. CASE i # row
    <3>1. bank'[i] = bank[i] /\ (i \in saturated' <=> i \in saturated)
      BY <1>1, <1>2, <2>3 DEF ArrayTypes
    <3>2. (i <= row) = (i < row) BY <2>1, <2>3
    <3>3. IF i < row THEN RowDone(i) ELSE i \notin saturated BY <1>1 DEF RowsSoFar
    <3>. QED BY <1>4, <3>1, <3>2, <3>3 DEF RowDone
  <2>. QED BY <2>2, <2>3
<1>6. row' \in Lane /\ array' \in {"RUN", "POST"}
  <2>1. LANES \in Nat \ {0} BY LanesPositive
  <2>2. CASE row = LANES BY <1>1, <1>2, <2>2
  <2>3. CASE row # LANES
    <3>1. row + 1 \in Lane BY <1>1, <2>1, <2>3 DEF Lane
    <3>. QED BY <1>1, <1>2, <2>3, <3>1
  <2>. QED BY <2>2, <2>3
<1>7. RequestValid(job)' /\ ~ config_error'
  <2>1. RequestValid(job)' = RequestValid(job)
    BY <1>2 DEF RequestValid
  <2>2. weight_rows[row].format # "reserved" /\ job.mode # "reserved"
    BY <1>1 DEF RequestValid
  <2>. QED BY <1>1, <2>1, <2>2 DEF RunRow
<1>8. ArrayTypes'
  <2>1. bank' \in [Lane -> Int]
    <3>1. Activate(Saturate(value)) \in Int BY <1>3, WordWidth DEF Word
    <3>. QED BY <1>1, <1>2, <3>1 DEF ArrayTypes
  <2>2. saturated' \subseteq Lane BY <1>1, <1>2 DEF ArrayTypes
  <2>3. weight_rows' \in [Lane -> Row] /\ weight_valid' \subseteq Lane /\ job' \in Job
    BY <1>1, <1>2 DEF ArrayTypes
  <2>4. config_error' \in BOOLEAN BY DEF RunRow
  <2>. QED BY <1>6, <2>1, <2>2, <2>3, <2>4 DEF ArrayTypes
<1>9. CASE row = LANES
  <2>1. \A i \in Lane : i <= row BY <1>9, LanesPositive DEF Lane
  <2>2. RowsDone' BY <1>5, <2>1 DEF RowsDone
  <2>. QED BY <1>1, <1>2, <1>7, <1>8, <1>9, <2>2 DEF ArrayInv
<1>10. CASE row # LANES
  <2>1. \A i \in Lane : (i <= row) = (i < row + 1) BY <1>1 DEF Lane
  <2>2. RowsSoFar'
    <3>1. row' = row + 1 /\ array' = "RUN" BY <1>1, <1>2, <1>10
    <3>. QED BY <1>5, <2>1, <3>1 DEF RowsSoFar
  <2>. QED BY <1>1, <1>2, <1>7, <1>8, <1>10, <2>2 DEF ArrayInv
<1>. QED BY <1>9, <1>10

LEMMA AcceptJobInv ==
  ASSUME ArrayInv, NEW j \in ArrayJobs, AcceptJob(j)
  PROVE  ArrayInv'
<1>1. j \in Job BY PortAssumption DEF Job
<1>2. RequestValid(j) \in BOOLEAN BY DEF RequestValid
<1>3. /\ job' \in Job /\ job'.mode = j.mode
      /\ job'.norm_enable = (j.norm_enable /\ RequestValid(j))
  BY <1>1, <1>2 DEF Job, AcceptJob
<1>4. RequestValid(job)' = RequestValid(j)
  BY <1>3 DEF RequestValid, AcceptJob
<1>5. 1 \in Lane /\ \A i \in Lane : ~ (i < 1)
  BY LanesPositive DEF Lane
<1>6. ArrayTypes'
  BY <1>2, <1>3, <1>5 DEF ArrayInv, ArrayTypes, AcceptJob, ZeroBank
<1>7. norm' = <<>>
  BY DEF ArrayInv, AcceptJob
<1>8. CASE RequestValid(j)
  <2>1. array' = "RUN" /\ ~ config_error' /\ row' = 1 /\ saturated' = {}
    BY <1>8 DEF AcceptJob
  <2>2. RowsSoFar' BY <1>5, <2>1 DEF RowsSoFar
  <2>. QED BY <1>4, <1>6, <1>7, <1>8, <2>1, <2>2 DEF ArrayInv
<1>9. CASE ~ RequestValid(j)
  <2>1. array' = "RESPOND" /\ config_error' /\ bank' = ZeroBank' /\ saturated' = {}
    BY <1>9 DEF AcceptJob, ZeroBank
  <2>. QED BY <1>3, <1>4, <1>6, <1>7, <1>9, <2>1 DEF ArrayInv
<1>. QED BY <1>8, <1>9

LEMMA RowsStay ==
  ASSUME UNCHANGED <<weight_rows, weight_valid, job, bank, saturated>>
  PROVE  RowsDone' = RowsDone /\ RequestValid(job)' = RequestValid(job)
<1>1. Projected' = Projected /\ ProjectionSaturates' = ProjectionSaturates
  BY SameProjection
<1>. QED BY <1>1 DEF RowsDone, RowDone, RequestValid

LEMMA ArrayInvNext ==
  ArrayInv /\ [ArrayNext]_arrayVars => ArrayInv'
<1>. SUFFICES ASSUME ArrayInv, [ArrayNext]_arrayVars PROVE ArrayInv' OBVIOUS
<1>1. ASSUME NEW i \in Lane, NEW r \in WeightRows, WriteWeights(i, r) PROVE ArrayInv'
  <2>1. r \in Row BY PortAssumption DEF Row
  <2>. QED BY <1>1, <2>1 DEF WriteWeights, ArrayInv, ArrayTypes
<1>2. ASSUME NEW j \in ArrayJobs, AcceptJob(j) PROVE ArrayInv'
  BY <1>2, AcceptJobInv
<1>3. CASE RunRow BY <1>3, RunRowInv
<1>4. CASE SkipNorm
  <2>1. RowsDone' = RowsDone /\ RequestValid(job)' = RequestValid(job)
    BY <1>4, RowsStay DEF SkipNorm
  <2>. QED BY <1>4, <2>1 DEF SkipNorm, ArrayInv, ArrayTypes
<1>5. CASE StartNorm
  <2>1. RowsDone' = RowsDone /\ RequestValid(job)' = RequestValid(job)
    BY <1>5, RowsStay DEF StartNorm
  <2>2. NormResponse' = NormResponse
    BY <1>5 DEF StartNorm, NormResponse, Normalized, Rms
  <2>. QED BY <1>5, <2>1, <2>2 DEF StartNorm, ArrayInv, ArrayTypes
<1>6. CASE TakeResult
  BY <1>6 DEF TakeResult, ArrayInv, ArrayTypes
<1>7. CASE ArrayReset
  <2>1. ZeroRow \in Row BY DEF ZeroRow, Row, Formats
  <2>2. NoJob \in Job BY DEF NoJob, Job, ActivationModes
  <2>3. ZeroBank \in [Lane -> Int] /\ 1 \in Lane BY LanesPositive DEF ZeroBank, Lane
  <2>. QED BY <1>7, <2>1, <2>2, <2>3 DEF ArrayReset, ArrayInv, ArrayTypes
<1>8. CASE UNCHANGED arrayVars
  <2>1. RowsDone' = RowsDone /\ RequestValid(job)' = RequestValid(job)
    BY <1>8, RowsStay DEF arrayVars
  <2>2. NormResponse' = NormResponse
    BY <1>8 DEF arrayVars, NormResponse, Normalized, Rms
  <2>3. RowsSoFar' = RowsSoFar
    <3>1. Projected' = Projected /\ ProjectionSaturates' = ProjectionSaturates
      BY <1>8, SameProjection DEF arrayVars
    <3>. QED BY <1>8, <3>1 DEF arrayVars, RowsSoFar, RowDone
  <2>. QED BY <1>8, <2>1, <2>2, <2>3 DEF arrayVars, ArrayInv, ArrayTypes, ZeroBank
<1>. QED BY <1>1, <1>2, <1>3, <1>4, <1>5, <1>6, <1>7, <1>8 DEF ArrayNext, Compute

LEMMA ArrayInvExact ==
  ArrayInv => TensorExact
<1>. SUFFICES ASSUME ArrayInv, ArrayRspValid PROVE TensorExact BY DEF TensorExact
<1>1. CASE ~ RequestValid(job)
  <2>1. array = "RESPOND" BY <1>1 DEF ArrayRspValid, ArrayInv
  <2>2. ~ job.norm_enable /\ config_error /\ bank = ZeroBank /\ saturated = {}
    BY <1>1, <2>1 DEF ArrayInv
  <2>. QED BY <1>1, <2>2 DEF TensorExact, RspResult, RspSaturated
<1>2. CASE RequestValid(job)
  <2>1. ~ config_error /\ RowsDone /\ ArrayTypes
    BY <1>2 DEF ArrayRspValid, ArrayInv
  <2>2. bank = Projected
    BY <2>1 DEF RowsDone, RowDone, ArrayTypes, Projected
  <2>3. saturated = ProjectionSaturates
    BY <2>1 DEF RowsDone, RowDone, ArrayTypes, ProjectionSaturates
  <2>4. ~ job.norm_enable => AsProjected
    BY <2>2, <2>3 DEF AsProjected, RspResult, RspSaturated
  <2>5. ASSUME job.norm_enable, \A i \in Lane : Projected[i] >= 0 PROVE AsNormed
    <3>1. array = "WAIT_NORM" /\ norm = <<NormResponse>>
      BY <2>5 DEF ArrayRspValid, ArrayInv
    <3>2. norm[1] = NormResponse BY <3>1
    <3>3. bank \in [Lane -> 0 .. MAX_VALUE]
      <4>1. \A i \in Lane : Projected[i] \in Word
        BY <2>1, <1>2, ProjectedWords
      <4>2. \A i \in Lane : bank[i] \in 0 .. MAX_VALUE
        BY <4>1, <2>2, <2>5, WordWidth DEF Word
      <4>. QED BY <4>2, <2>1 DEF ArrayTypes
    <3>4. job.epsilon \in 0 .. 2 ^ 16 - 1
      BY <2>1 DEF ArrayTypes, Job
    <3>5. Rms(bank) = RootMeanSquare(bank, job.epsilon)
      BY <3>3, <3>4, RmsExact
    <3>6. \A i \in Lane : Normalized(i) = NormBeforeSaturation[i]
      BY <2>2, <3>5 DEF Normalized, NormBeforeSaturation
    <3>7. RspResult = [i \in Lane |-> Saturate(NormBeforeSaturation[i])]
      BY <2>5, <3>2, <3>6 DEF RspResult, NormResponse
    <3>8. RspSaturated = ProjectionSaturates \union {i \in Lane : OutOfRange(NormBeforeSaturation[i])}
      BY <2>3, <2>5, <3>2, <3>6 DEF RspSaturated, NormResponse
    <3>. QED BY <3>7, <3>8 DEF AsNormed
  <2>. QED BY <1>2, <2>1, <2>4, <2>5 DEF TensorExact
<1>. QED BY <1>1, <1>2

\* An answer of the tensor array is the reference's: for every number of lanes,
\* words of nine to sixteen bits, all weights and all requests, and whatever was
\* written, asked, answered or reset before.
THEOREM TensorExactly == ArraySpec => []TensorExact
<1>. QED BY ArrayInvInit, ArrayInvNext, ArrayInvExact, PTL DEF ArraySpec

-----------------------------------------------------------------------------
(* The attention engine: the reference's run over the words, word by word *)

\* One step of the run, by the words before it.
RunAfter(query, tokens, run, t) ==
  IF t = 0 THEN NothingSeen(query)
  ELSE OnlineStep(run[t - 1], Dot(query, tokens[t].key), tokens[t].value)

LEMMA RunExists ==
  ASSUME NEW query, NEW tokens, NEW K \in Nat
  PROVE  \E run : run = [t \in 0 .. K |-> RunAfter(query, tokens, run, t)]
<1>. DEFINE Upto(N, run) == run = [t \in 0 .. N |-> RunAfter(query, tokens, run, t)]
            Bad == {N \in Nat : ~ \E run : Upto(N, run)}
<1>1. SUFFICES ASSUME Bad # {} PROVE FALSE OBVIOUS
<1>2. PICK N \in Bad : \A other \in Bad : N <= other
  <2>. HIDE DEF Upto
  <2>. QED BY <1>1, LeastElement
<1>3. CASE N = 0
  <2>. DEFINE first == [t \in 0 .. 0 |-> NothingSeen(query)]
  <2>1. \A t \in 0 .. 0 : RunAfter(query, tokens, first, t) = NothingSeen(query) BY DEF RunAfter
  <2>2. first = [t \in 0 .. 0 |-> RunAfter(query, tokens, first, t)] BY <2>1
  <2>. QED BY <2>2, <1>3
<1>4. CASE N # 0
  <2>0. N - 1 \in Nat /\ N - 1 \notin Bad BY <1>2, <1>4
  <2>1. PICK before : Upto(N - 1, before) BY <2>0
  <2>. DEFINE next == [t \in 0 .. N |-> RunAfter(query, tokens, before, t)]
  <2>2. ASSUME NEW t \in 0 .. N
        PROVE  RunAfter(query, tokens, before, t) = RunAfter(query, tokens, next, t)
    <3>1. CASE t = 0 BY <3>1 DEF RunAfter
    <3>2. CASE t # 0
      <4>1. t - 1 \in 0 .. N - 1 /\ t - 1 \in 0 .. N BY <3>2, <1>4
      <4>2. before[t - 1] = RunAfter(query, tokens, before, t - 1) BY <4>1, <2>1
      <4>3. next[t - 1] = before[t - 1] BY <4>1, <4>2
      <4>. HIDE DEF next
      <4>. QED BY <4>3 DEF RunAfter
    <3>. QED BY <3>1, <3>2
  <2>3. next = [t \in 0 .. N |-> RunAfter(query, tokens, next, t)] BY <2>2
  <2>. HIDE DEF next
  <2>. QED BY <2>3
<1>. QED BY <1>3, <1>4

\* The run up to word t.
RunTo(query, tokens, t) ==
  (CHOOSE run : run = [k \in 0 .. Len(tokens) |-> RunAfter(query, tokens, run, k)])[t]

LEMMA RunSteps ==
  ASSUME NEW query, NEW tokens, Len(tokens) \in Nat
  PROVE  /\ OnlineRun(query, tokens) = RunTo(query, tokens, Len(tokens))
         /\ RunTo(query, tokens, 0) = NothingSeen(query)
         /\ \A t \in 1 .. Len(tokens) :
              RunTo(query, tokens, t)
                = OnlineStep(RunTo(query, tokens, t - 1), Dot(query, tokens[t].key),
                             tokens[t].value)
<1>. DEFINE L == Len(tokens)
            Unfolded(run) == [t \in 0 .. L |-> RunAfter(query, tokens, run, t)]
            whole == CHOOSE run : run = Unfolded(run)
<1>1. whole = Unfolded(whole)
  <2>1. \E run : run = Unfolded(run)
    <3>1. L \in Nat OBVIOUS
    <3>. HIDE DEF L
    <3>. QED BY <3>1, RunExists
  <2>. HIDE DEF Unfolded
  <2>. QED BY <2>1
<1>2. OnlineRun(query, tokens) = whole[L]
  BY DEF OnlineRun, RunAfter
<1>3. ASSUME NEW t PROVE RunTo(query, tokens, t) = whole[t]
  BY DEF RunTo
<1>. HIDE DEF whole
<1>4. ASSUME NEW t \in 0 .. L PROVE whole[t] = RunAfter(query, tokens, whole, t)
  <2>1. Unfolded(whole)[t] = RunAfter(query, tokens, whole, t) OBVIOUS
  <2>. HIDE DEF Unfolded
  <2>. QED BY <2>1, <1>1
<1>5. L \in Nat OBVIOUS
<1>. HIDE DEF L
<1>6. whole[0] = NothingSeen(query) BY <1>4, <1>5 DEF RunAfter
<1>7. ASSUME NEW t \in 1 .. L
      PROVE  whole[t] = OnlineStep(whole[t - 1], Dot(query, tokens[t].key), tokens[t].value)
  <2>1. t \in 0 .. L /\ t # 0 BY <1>5
  <2>. QED BY <2>1, <1>4 DEF RunAfter
<1>8. OnlineRun(query, tokens) = RunTo(query, tokens, L) BY <1>2, <1>3
<1>9. RunTo(query, tokens, 0) = NothingSeen(query) BY <1>3, <1>6
<1>10. ASSUME NEW t \in 1 .. L
       PROVE  RunTo(query, tokens, t)
                = OnlineStep(RunTo(query, tokens, t - 1), Dot(query, tokens[t].key),
                             tokens[t].value)
  BY <1>3, <1>7
<1>. QED BY <1>8, <1>9, <1>10 DEF L

\* A run over one word more is one step more.
LEMMA RunOverOneMore ==
  ASSUME NEW T, NEW query, NEW tokens \in Seq(T), NEW w \in T
  PROVE  /\ OnlineRun(query, <<>>) = NothingSeen(query)
         /\ OnlineRun(query, Append(tokens, w))
              = OnlineStep(OnlineRun(query, tokens), Dot(query, w.key), w.value)
<1>. DEFINE longer == Append(tokens, w)
            L == Len(tokens)
            Good(t) == RunTo(query, longer, t) = RunTo(query, tokens, t)
<1>1. L \in Nat /\ Len(longer) = L + 1 /\ longer[L + 1] = w
      /\ \A t \in 1 .. L : longer[t] = tokens[t]
  OBVIOUS
<1>. HIDE DEF longer
<1>2. /\ OnlineRun(query, longer) = RunTo(query, longer, L + 1)
      /\ RunTo(query, longer, 0) = NothingSeen(query)
      /\ \A t \in 1 .. L + 1 :
           RunTo(query, longer, t)
             = OnlineStep(RunTo(query, longer, t - 1), Dot(query, longer[t].key), longer[t].value)
  <2>1. Len(longer) \in Nat BY <1>1
  <2>. QED BY <2>1, <1>1, RunSteps
<1>3. /\ OnlineRun(query, tokens) = RunTo(query, tokens, L)
      /\ RunTo(query, tokens, 0) = NothingSeen(query)
      /\ \A t \in 1 .. L :
           RunTo(query, tokens, t)
             = OnlineStep(RunTo(query, tokens, t - 1), Dot(query, tokens[t].key), tokens[t].value)
  BY <1>1, RunSteps
<1>. HIDE DEF L
<1>4. \A t \in 0 .. L : Good(t)
  <2>. DEFINE Bad == {t \in 0 .. L : ~ Good(t)}
  <2>1. SUFFICES ASSUME Bad # {} PROVE FALSE OBVIOUS
  <2>2. PICK t \in Bad : \A u \in Bad : t <= u
    <3>1. Bad \in SUBSET Nat BY <1>1
    <3>. HIDE DEF Bad
    <3>. QED BY <3>1, <2>1, LeastElement
  <2>3. t # 0 BY <1>2, <1>3, <2>2
  <2>4. t \in 1 .. L /\ t \in 1 .. L + 1 /\ t - 1 \in 0 .. L /\ t - 1 \notin Bad
    BY <1>1, <2>2, <2>3
  <2>5. Good(t - 1) BY <2>4
  <2>6. RunTo(query, longer, t) = RunTo(query, tokens, t)
    BY <2>4, <2>5, <1>1, <1>2, <1>3
  <2>. QED BY <2>2, <2>6
<1>5. OnlineRun(query, longer) = OnlineStep(OnlineRun(query, tokens), Dot(query, w.key), w.value)
  <2>1. L \in 0 .. L /\ L + 1 \in 1 .. L + 1 /\ (L + 1) - 1 = L BY <1>1
  <2>2. Good(L) BY <2>1, <1>4
  <2>. HIDE DEF Good
  <2>3. RunTo(query, longer, L + 1)
          = OnlineStep(RunTo(query, longer, L), Dot(query, w.key), w.value)
    BY <2>1, <1>1, <1>2
  <2>. QED BY <2>2, <2>3, <1>2, <1>3 DEF Good
<1>6. OnlineRun(query, <<>>) = NothingSeen(query)
  <2>1. Len(<<>>) = 0 /\ Len(<<>>) \in Nat OBVIOUS
  <2>. QED BY <2>1, RunSteps
<1>. QED BY <1>5, <1>6 DEF longer

-----------------------------------------------------------------------------
(* The attention engine: the online softmax keeps the reference's run *)

LEMMA DotOfVectors ==
  ASSUME NEW u \in Vector, NEW v \in Vector
  PROVE  Dot(u, v) \in Int
<1>. DEFINE S == DOMAIN ZeroVector
<1>1. IsFiniteSet(S)
  <2>1. S = 1 .. Len(ZeroVector) /\ Len(ZeroVector) \in Int
    BY AttentionPorts
  <2>. QED BY <2>1, FS_Interval
<1>2. u \in [S -> Int] /\ v \in [S -> Int] BY DEF Vector
<1>. HIDE DEF S
<1>3. Products(u, v, S) \in [S -> Int] BY <1>2 DEF Products
<1>4. Dot(u, v) = Summed(Products(u, v, S), S)[S]
  BY <1>2, ProductsSummed DEF Dot
<1>. QED BY <1>1, <1>3, <1>4, SumRange

LEMMA Fades ==
  /\ \A n \in Int, distance \in Nat : Faded(n, distance) \in Int
  /\ \A n \in Nat, distance \in Nat : Faded(n, distance) \in Nat
<1>1. SUFFICES ASSUME NEW n \in Int, NEW distance \in Nat
               PROVE  Faded(n, distance) \in Int /\ (n \in Nat => Faded(n, distance) \in Nat)
  OBVIOUS
<1>2. Shift(distance) \in 0 .. 15 BY DEF Shift, Least, WEIGHT_BITS
<1>3. \A k \in 0 .. 15 : Power(k) \in Nat \ {0} BY Powers
<1>. DEFINE divisor == Power(Shift(distance))
<1>4. divisor \in Nat \ {0} BY <1>2, <1>3
<1>5. Faded(n, distance) = n \div divisor BY DEF Faded, Power
<1>. HIDE DEF divisor
<1>. QED BY <1>4, <1>5

LEMMA OneIsPositive == One \in Nat /\ One > 0
BY Powers DEF One, WEIGHT_BITS, Power

SoftmaxRun == [have_value : BOOLEAN, max_score : Int, denominator : Nat, accumulator : Vector]
ReferenceRun == [maximum : Seq(Int), denominator : Nat, total : Vector]

\* The registers of the online softmax hold what the reference's run has.
Agrees(s, run) ==
  /\ s \in SoftmaxRun /\ run \in ReferenceRun
  /\ s.denominator = run.denominator /\ s.accumulator = run.total
  /\ s.have_value = (run.maximum # <<>>)
  /\ s.have_value => Len(run.maximum) = 1 /\ s.max_score = run.maximum[1] /\ run.denominator > 0

LEMMA NothingAgrees ==
  ASSUME NEW query \in Vector
  PROVE  Agrees(NoRun, NothingSeen(query))
<1>1. DOMAIN query = DOMAIN ZeroVector BY DEF Vector
<1>2. NoRun \in SoftmaxRun BY DEF NoRun, SoftmaxRun, Vector
<1>3. NothingSeen(query) \in ReferenceRun BY <1>1 DEF NothingSeen, ReferenceRun, Vector
<1>. QED BY <1>1, <1>2, <1>3 DEF Agrees, NoRun, NothingSeen

LEMMA StepAgrees ==
  ASSUME NEW run, Agrees(softmax, run), NEW score \in Int, NEW value \in Vector
  PROVE  Agrees(Stepped(score, value), OnlineStep(run, score, value))
<1>. DEFINE S == DOMAIN ZeroVector
            rise == score - softmax.max_score
            sum == softmax.accumulator
<1>1. /\ softmax \in SoftmaxRun /\ run \in ReferenceRun
      /\ softmax.denominator = run.denominator /\ sum = run.total
      /\ softmax.have_value = (run.maximum # <<>>)
      /\ softmax.have_value => /\ Len(run.maximum) = 1 /\ softmax.max_score = run.maximum[1]
                               /\ run.denominator > 0
  BY DEF Agrees
<1>2. /\ softmax.have_value \in BOOLEAN /\ rise \in Int /\ softmax.denominator \in Nat
      /\ sum \in [S -> Int] /\ DOMAIN sum = S /\ DOMAIN value = S /\ value \in [S -> Int]
  BY <1>1 DEF SoftmaxRun, Vector
<1>3. One \in Nat /\ One > 0 BY OneIsPositive
<1>4. CASE ~ softmax.have_value
  <2>. DEFINE after == [have_value |-> TRUE, max_score |-> score, denominator |-> One,
                        accumulator |-> [i \in S |-> value[i] * One]]
              reference == [maximum |-> <<score>>, denominator |-> One,
                            total |-> [i \in S |-> value[i] * One]]
  <2>1. Stepped(score, value) = after BY <1>2, <1>4 DEF Stepped
  <2>2. OnlineStep(run, score, value) = reference
    BY <1>1, <1>2, <1>4 DEF OnlineStep, FirstToken
  <2>3. [i \in S |-> value[i] * One] \in [S -> Int] BY <1>2, <1>3
  <2>4. after \in SoftmaxRun /\ reference \in ReferenceRun
    BY <1>3, <2>3 DEF SoftmaxRun, ReferenceRun, Vector
  <2>5. Agrees(after, reference) BY <1>3, <2>4 DEF Agrees
  <2>. QED BY <2>1, <2>2, <2>5
<1>5. CASE softmax.have_value /\ rise > 0
  <2>. DEFINE bottom == Faded(softmax.denominator, rise) + One
              top == [i \in S |-> Faded(sum[i], rise) + value[i] * One]
              after == [have_value |-> TRUE, max_score |-> score, denominator |-> bottom,
                        accumulator |-> top]
              reference == [maximum |-> <<score>>, denominator |-> bottom, total |-> top]
  <2>1. Stepped(score, value) = after BY <1>2, <1>5 DEF Stepped
  <2>2. OnlineStep(run, score, value) = reference
    <3>1. run.maximum # <<>> /\ run.maximum[1] = softmax.max_score /\ score > run.maximum[1]
      BY <1>1, <1>2, <1>5 DEF SoftmaxRun
    <3>2. OnlineStep(run, score, value) = NewMaximum(run, score, value)
      BY <3>1 DEF OnlineStep
    <3>. QED BY <1>1, <1>2, <3>1, <3>2 DEF NewMaximum
  <2>3. rise \in Nat BY <1>2, <1>5
  <2>4. bottom \in Nat /\ bottom > 0
    <3>. HIDE DEF rise
    <3>1. Faded(softmax.denominator, rise) \in Nat BY <1>2, <2>3, Fades
    <3>. QED BY <1>3, <3>1
  <2>5. top \in [S -> Int]
    <3>. HIDE DEF rise, sum
    <3>1. ASSUME NEW i \in S PROVE Faded(sum[i], rise) + value[i] * One \in Int
      <4>1. sum[i] \in Int /\ value[i] \in Int BY <1>2
      <4>2. value[i] * One \in Int BY <1>3, <4>1
      <4>3. Faded(sum[i], rise) \in Int BY <2>3, <4>1, Fades
      <4>. QED BY <4>2, <4>3
    <3>. QED BY <3>1
  <2>. HIDE DEF bottom, top
  <2>6. after \in SoftmaxRun /\ reference \in ReferenceRun
    BY <2>4, <2>5 DEF SoftmaxRun, ReferenceRun, Vector
  <2>7. Agrees(after, reference) BY <2>4, <2>6 DEF Agrees
  <2>. QED BY <2>1, <2>2, <2>7
<1>6. CASE softmax.have_value /\ ~ rise > 0
  <2>. DEFINE weight == Faded(One, -rise)
              bottom == softmax.denominator + weight
              top == [i \in S |-> sum[i] + value[i] * weight]
              after == [have_value |-> TRUE, max_score |-> softmax.max_score,
                        denominator |-> bottom, accumulator |-> top]
              reference == [maximum |-> run.maximum, denominator |-> bottom, total |-> top]
  <2>1. Stepped(score, value) = after BY <1>1, <1>2, <1>6 DEF Stepped, SoftmaxRun
  <2>2. OnlineStep(run, score, value) = reference
    <3>1. /\ run.maximum # <<>> /\ run.maximum[1] = softmax.max_score
          /\ ~ (score > run.maximum[1]) /\ run.maximum[1] - score = -rise
      BY <1>1, <1>2, <1>6 DEF SoftmaxRun
    <3>2. OnlineStep(run, score, value) = LesserScore(run, score, value)
      BY <3>1 DEF OnlineStep
    <3>3. run.total = sum /\ run.denominator = softmax.denominator
          /\ run = [maximum |-> run.maximum, denominator |-> run.denominator, total |-> run.total]
      BY <1>1 DEF ReferenceRun
    <3>. DEFINE weighed == Faded(One, run.maximum[1] - score)
    <3>4. weighed = weight BY <3>1
    <3>5. LesserScore(run, score, value)
            = [run EXCEPT !.denominator = run.denominator + weighed,
                          !.total = [i \in S |-> run.total[i] + value[i] * weighed]]
      BY <1>2 DEF LesserScore
    <3>. HIDE DEF weighed, weight
    <3>6. LesserScore(run, score, value)
            = [maximum |-> run.maximum, denominator |-> run.denominator + weight,
               total |-> [i \in S |-> run.total[i] + value[i] * weight]]
      BY <3>3, <3>4, <3>5
    <3>. QED BY <3>2, <3>3, <3>6
  <2>3. -rise \in Nat BY <1>2, <1>6
  <2>4. weight \in Nat
    <3>. HIDE DEF rise
    <3>. QED BY <1>3, <2>3, Fades
  <2>. HIDE DEF weight
  <2>5. bottom \in Nat /\ bottom > 0 BY <1>1, <1>2, <1>6, <2>4
  <2>6. top \in [S -> Int] BY <1>2, <2>4
  <2>. HIDE DEF bottom, top
  <2>7. Agrees(after, reference)
    BY <1>1, <1>6, <2>5, <2>6 DEF Agrees, SoftmaxRun, ReferenceRun, Vector
  <2>. QED BY <2>1, <2>2, <2>7
<1>. QED BY <1>2, <1>4, <1>5, <1>6

-----------------------------------------------------------------------------
(* The attention engine: the KV head and the place of a word *)

LEMMA QuotientBelow ==
  ASSUME NEW a \in Nat, NEW b \in Nat \ {0}, NEW c \in Nat, a < b * c
  PROVE  a \div b \in 0 .. c - 1
<1>. DEFINE q == a \div b
<1>1. q \in Nat /\ b * q <= a OBVIOUS
<1>. HIDE DEF q
<1>2. b * q < b * c /\ b * q \in Nat /\ b * c \in Nat BY <1>1
<1>3. ASSUME q >= c PROVE FALSE
  <2>1. q - c \in Nat /\ b * (q - c) \in Nat BY <1>1, <1>3
  <2>2. b * q = b * c + b * (q - c) BY <1>1
  <2>. QED BY <1>2, <2>1, <2>2
<1>4. q < c BY <1>1, <1>3
<1>5. q \in 0 .. c - 1 BY <1>1, <1>4
<1>. QED BY <1>5 DEF q

\* A set has more subsets than elements.
LEMMA PowerAbove ==
  ASSUME NEW n \in Nat
  PROVE  2 ^ n \in Nat /\ n <= 2 ^ n
<1>. DEFINE S == 1 .. n
            single == [x \in S |-> {x}]
<1>1. IsFiniteSet(S) /\ Cardinality(S) = n
  <2>1. 1 \in Int /\ n \in Int /\ (IF 1 > n THEN 0 ELSE n - 1 + 1) = n OBVIOUS
  <2>. HIDE DEF S
  <2>. QED BY <2>1, FS_Interval DEF S
<1>. HIDE DEF S
<1>2. IsFiniteSet(SUBSET S) /\ Cardinality(SUBSET S) = 2 ^ n /\ Cardinality(SUBSET S) \in Nat
  BY <1>1, FS_SUBSET, FS_CardinalityType
<1>3. single \in Injection(S, SUBSET S)
  BY DEF Injection, IsInjective
<1>4. Cardinality(S) <= Cardinality(SUBSET S)
  <2>. HIDE DEF single
  <2>. QED BY <1>2, <1>3, FS_Injection
<1>. QED BY <1>1, <1>2, <1>4

LEMMA BitsHold ==
  ASSUME NEW n \in Nat
  PROVE  Bits(n) \in Nat /\ n <= 2 ^ Bits(n) /\ 2 ^ Bits(n) \in Nat
<1>. DEFINE W == {w \in 0 .. n : 2 ^ w >= n}
<1>1. n \in W
  <2>1. n \in 0 .. n OBVIOUS
  <2>. QED BY <2>1, PowerAbove
<1>2. PICK w \in W : \A u \in W : w <= u
  <2>1. W \in SUBSET Nat OBVIOUS
  <2>. HIDE DEF W
  <2>. QED BY <1>1, <2>1, LeastElement
<1>3. w > 0 => 2 ^ (w - 1) < n
  <2>1. SUFFICES ASSUME w > 0 PROVE 2 ^ (w - 1) < n OBVIOUS
  <2>2. w - 1 \in 0 .. n /\ w - 1 \notin W BY <1>2, <2>1
  <2>3. 2 ^ (w - 1) \in Nat BY <2>2, PowerAbove
  <2>. QED BY <2>2, <2>3
<1>4. \E u \in 0 .. n : 2 ^ u >= n /\ (u > 0 => 2 ^ (u - 1) < n)
  BY <1>2, <1>3
<1>5. Bits(n) \in 0 .. n /\ 2 ^ Bits(n) >= n
  BY <1>4 DEF Bits
<1>6. Bits(n) \in Nat BY <1>5
<1>7. 2 ^ Bits(n) \in Nat BY <1>6, PowerAbove
<1>. QED BY <1>5, <1>6, <1>7

LEMMA ProductHolds == 2 ^ ProductWidth \in Nat
<1>. DEFINE widths == {Bits(MAX_Q_HEADS), Bits(MAX_Q_HEADS + 1), Bits(MAX_KV_HEADS + 1)}
<1>1. Bits(MAX_Q_HEADS) \in Nat /\ Bits(MAX_Q_HEADS + 1) \in Nat /\ Bits(MAX_KV_HEADS + 1) \in Nat
  BY AttentionAssumption, BitsHold
<1>2. \E x \in widths : \A y \in widths : x >= y BY <1>1
<1>3. Max(widths) \in widths BY <1>2 DEF Max
<1>4. ProductWidth \in Nat BY <1>1, <1>3 DEF ProductWidth
<1>. QED BY <1>4, PowerAbove

\* The products of heads that the requests ask for fit the width they are
\* computed in.
HeadsFit == \A r \in AttnRequests :
  RequestConfigValid(r) => r.query_head * r.num_kv_heads < 2 ^ ProductWidth

LEMMA HeadMapped ==
  ASSUME HeadsFit, NEW r \in AttnRequests, RequestConfigValid(r)
  PROVE  KvHeadRegister(r) = KvHeadFor(r) /\ KvHeadFor(r) \in 0 .. MAX_KV_HEADS - 1
<1>. DEFINE p == r.query_head * r.num_kv_heads
            a == r.num_query_heads
            b == r.num_kv_heads
<1>1. /\ a \in Nat \ {0} /\ b \in Nat /\ b <= MAX_KV_HEADS /\ MAX_KV_HEADS \in Nat
      /\ r.query_head \in Nat /\ r.query_head < a
  BY AttentionPorts, AttentionAssumption DEF RequestConfigValid
<1>2. p \in Nat /\ p < 2 ^ ProductWidth
  BY <1>1 DEF HeadsFit
<1>3. p < a * b
  <2>1. b # 0 BY AttentionPorts, AttentionAssumption DEF RequestConfigValid
  <2>2. a - r.query_head \in Nat \ {0} /\ b \in Nat \ {0} BY <1>1, <2>1
  <2>3. (a - r.query_head) * b \in Nat \ {0} BY <2>2
  <2>4. a * b = p + (a - r.query_head) * b BY <1>1
  <2>5. a * b \in Nat BY <1>1
  <2>. QED BY <1>2, <2>3, <2>4, <2>5
<1>4. p % 2 ^ ProductWidth = p BY <1>2, ProductHolds
<1>5. KvHeadFor(r) = p \div a BY DEF KvHeadFor
<1>6. KvHeadRegister(r) = (p \div a) % 2 ^ Bits(MAX_KV_HEADS)
  BY <1>4 DEF KvHeadRegister
<1>7. p \div a \in 0 .. b - 1
  <2>. HIDE DEF p, a, b
  <2>. QED BY <1>1, <1>2, <1>3, QuotientBelow
<1>8. MAX_KV_HEADS <= 2 ^ Bits(MAX_KV_HEADS) /\ 2 ^ Bits(MAX_KV_HEADS) \in Nat
  BY AttentionAssumption, BitsHold
<1>. DEFINE q == p \div a
            limit == 2 ^ Bits(MAX_KV_HEADS)
<1>9. q \in 0 .. b - 1 /\ limit \in Nat /\ MAX_KV_HEADS <= limit BY <1>7, <1>8
<1>. HIDE DEF q, limit, b
<1>10. q % limit = q /\ q \in 0 .. MAX_KV_HEADS - 1 BY <1>1, <1>9
<1>. QED BY <1>5, <1>6, <1>10 DEF q, limit

LEMMA PlaceOfToken ==
  ASSUME NEW t \in Nat, t < MAX_TOKENS
  PROVE  t \div PAGE_TOKENS \in 0 .. MAX_PAGES - 1 /\ t % PAGE_TOKENS \in 0 .. PAGE_TOKENS - 1
<1>1. MAX_PAGES \in Nat /\ PAGE_TOKENS \in Nat \ {0} BY AttentionAssumption
<1>2. t < PAGE_TOKENS * MAX_PAGES BY <1>1 DEF MAX_TOKENS
<1>3. t \div PAGE_TOKENS \in 0 .. MAX_PAGES - 1 BY <1>1, <1>2, QuotientBelow
<1>4. t % PAGE_TOKENS \in 0 .. PAGE_TOKENS - 1 BY <1>1
<1>. QED BY <1>3, <1>4

-----------------------------------------------------------------------------
(* The attention engine: the tokens of a set, by how many are below them *)

Under(S, n) == {u \in S : u < n}

LEMMA UnderFinite ==
  ASSUME NEW S \in SUBSET Nat, IsFiniteSet(S), NEW n \in Nat
  PROVE  IsFiniteSet(Under(S, n)) /\ Cardinality(Under(S, n)) \in Nat
<1>1. Under(S, n) \in SUBSET S BY DEF Under
<1>. QED BY <1>1, FS_Subset, FS_CardinalityType

LEMMA RankSteps ==
  ASSUME NEW S \in SUBSET Nat, IsFiniteSet(S), NEW n \in Nat
  PROVE  /\ n \in S => Cardinality(Under(S, n + 1)) = Cardinality(Under(S, n)) + 1
         /\ n \notin S => Under(S, n + 1) = Under(S, n)
         /\ Cardinality(Under(S, 0)) = 0
         /\ (\A t \in S : t < n) => Under(S, n) = S
<1>1. ASSUME n \in S PROVE Cardinality(Under(S, n + 1)) = Cardinality(Under(S, n)) + 1
  <2>1. n \notin Under(S, n) BY DEF Under
  <2>2. ASSUME NEW u \in Nat PROVE u < n + 1 <=> u < n \/ u = n OBVIOUS
  <2>3. Under(S, n + 1) = Under(S, n) \union {n}
    BY <1>1, <2>2, Zenon DEF Under
  <2>. QED BY <2>1, <2>3, UnderFinite, FS_AddElement
<1>2. ASSUME n \notin S PROVE Under(S, n + 1) = Under(S, n)
  <2>1. ASSUME NEW u \in S PROVE u < n + 1 <=> u < n
    <3>1. u \in Nat /\ u # n BY <1>2
    <3>. QED BY <3>1
  <2>. QED BY <2>1, Zenon DEF Under
<1>3. Under(S, 0) = {}
  <2>1. \A u \in S : ~ (u < 0) OBVIOUS
  <2>. QED BY <2>1 DEF Under
<1>4. (\A t \in S : t < n) => Under(S, n) = S BY DEF Under
<1>. QED BY <1>1, <1>2, <1>3, <1>4, FS_EmptySet

LEMMA RankUnique ==
  ASSUME NEW S \in SUBSET Nat, IsFiniteSet(S), NEW s \in S, NEW t \in S,
         Cardinality(Under(S, s)) = Cardinality(Under(S, t))
  PROVE  s = t
<1>1. ASSUME NEW a \in S, NEW b \in S, a < b, Cardinality(Under(S, a)) = Cardinality(Under(S, b))
      PROVE  FALSE
  <2>0. a \in Nat /\ b \in Nat /\ \A u \in S : u \in Nat BY <1>1
  <2>1. Under(S, a) \in SUBSET Under(S, b) /\ a \in Under(S, b) /\ a \notin Under(S, a)
    <3>1. \A u \in S : u < a => u < b BY <1>1, <2>0
    <3>2. ~ (a < a) BY <2>0
    <3>. QED BY <1>1, <3>1, <3>2, Zenon DEF Under
  <2>2. IsFiniteSet(Under(S, b)) BY UnderFinite
  <2>3. Under(S, b) = Under(S, a) BY <2>1, <2>2, <1>1, FS_Subset
  <2>. QED BY <2>1, <2>3
<1>. QED BY <1>1

-----------------------------------------------------------------------------
(* The attention engine: the inductive invariant *)

\* The tokens the mask of the latched request keeps.
RequestKept ==
  {t \in 0 .. request.context_tokens - 1 :
     /\ t < request.sink_tokens \/ t >= request.window_start
     /\ \A mask \in request.explicit_mask : t \in mask}

\* The words read so far are those of the kept tokens that were passed, each at
\* its place.
Listed ==
  /\ Len(read) = Cardinality(Under(RequestKept, issue_token))
  /\ \A k \in 1 .. Len(read) : \E t \in RequestKept :
       Cardinality(Under(RequestKept, t)) = k - 1 /\ read[k] = ReadWord(t)

\* A word read is in the softmax, before it with its score, or with the reader.
InLine ==
  \E done, mid \in Seq(AttnWord) :
    /\ read = (done \o mid) \o reader
    /\ Agrees(softmax, OnlineRun(request.query, done))
    /\ softmax.have_value = (done # <<>>)
    /\ \/ mid = <<>> /\ dot = <<>>
       \/ \E w \in AttnWord :
            mid = <<w>> /\ dot = <<Dot(request.query, w.key)>> /\ value_pipe = w.value

LatchedRequest ==
  [query : Vector, kv_head : 0 .. MAX_KV_HEADS - 1, context_tokens : 0 .. MAX_TOKENS,
   window_start : Nat, sink_tokens : Nat, explicit_mask : SUBSET SUBSET Nat]

EngineStates == {"IDLE", "START", "RUN", "DRAIN", "FINISH", "REDUCE", "RESPOND"}

AttnTyped ==
  /\ engine \in EngineStates
  /\ request \in LatchedRequest
  /\ issue_token \in Nat
  /\ query_mem \in [0 .. MAX_Q_HEADS - 1 -> Vector]
  /\ page_list \in [0 .. MAX_PAGES - 1 -> 0 .. MAX_PAGES - 1]
  /\ kv_mem \in [KvPlace -> AttnWord]
  /\ read \in Seq(AttnWord)
  /\ reader = <<>> \/ \E w \in AttnWord : reader = <<w>>
  /\ steady \in BOOLEAN

\* The request is latched as it was asked.
LatchedFrom(r) ==
  /\ request.kv_head = IF RequestConfigValid(r) THEN KvHeadFor(r) ELSE 0
  /\ request.context_tokens = IF RequestConfigValid(r) THEN r.context_tokens ELSE 0
  /\ request.window_start = r.window_start /\ request.sink_tokens = r.sink_tokens
  /\ request.explicit_mask = r.explicit_mask

Accepted == engine # "IDLE" => \E r \in AttnRequests : asked = <<r>> /\ LatchedFrom(r)

Stages ==
  /\ engine # "RESPOND" => reduce = <<>>
  /\ engine # "REDUCE" => result = <<>>
  /\ engine = "REDUCE" => result = <<softmax>>
  /\ engine = "RESPOND" => reduce = <<Reduced(softmax)>>
  /\ engine \notin {"RUN", "DRAIN"} => reader = <<>> /\ dot = <<>>
  /\ engine = "START" => read = <<>> /\ issue_token = 0
  /\ engine \notin {"IDLE", "START"} => InLine
  /\ engine = "RUN" => issue_token <= request.context_tokens
  /\ engine \notin {"IDLE", "START", "RUN"} => issue_token = request.context_tokens
  /\ engine # "IDLE" /\ steady => Listed

AttnInv == AttnTyped /\ Accepted /\ Stages

LEMMA KeptFinite ==
  ASSUME request \in LatchedRequest
  PROVE  RequestKept \in SUBSET Nat /\ IsFiniteSet(RequestKept)
         /\ \A t \in RequestKept : t < request.context_tokens
<1>1. request.context_tokens \in Nat BY AttentionAssumption DEF LatchedRequest, MAX_TOKENS
<1>2. RequestKept \in SUBSET (0 .. request.context_tokens - 1) BY DEF RequestKept
<1>3. IsFiniteSet(0 .. request.context_tokens - 1)
  <2>1. 0 \in Int /\ request.context_tokens - 1 \in Int BY <1>1
  <2>. QED BY <2>1, FS_Interval
<1>4. IsFiniteSet(RequestKept) BY <1>2, <1>3, FS_Subset
<1>5. ASSUME NEW t \in RequestKept PROVE t \in Nat /\ t < request.context_tokens
  <2>1. t \in 0 .. request.context_tokens - 1 BY <1>2
  <2>. QED BY <2>1, <1>1
<1>. QED BY <1>4, <1>5

LEMMA WordsTyped ==
  ASSUME AttnTyped, NEW t \in Nat, t < request.context_tokens
  PROVE  ReadWord(t) \in AttnWord
<1>1. request.context_tokens \in Nat /\ request.context_tokens <= MAX_TOKENS /\ MAX_TOKENS \in Nat
      /\ request.kv_head \in 0 .. MAX_KV_HEADS - 1
  BY AttentionAssumption DEF AttnTyped, LatchedRequest, MAX_TOKENS
<1>2. t < MAX_TOKENS BY <1>1
<1>3. t \div PAGE_TOKENS \in 0 .. MAX_PAGES - 1 /\ t % PAGE_TOKENS \in 0 .. PAGE_TOKENS - 1
  BY <1>2, PlaceOfToken
<1>4. page_list[t \div PAGE_TOKENS] \in 0 .. MAX_PAGES - 1 BY <1>3 DEF AttnTyped
<1>5. <<page_list[t \div PAGE_TOKENS], t % PAGE_TOKENS, request.kv_head>> \in KvPlace
  BY <1>1, <1>3, <1>4 DEF KvPlace
<1>6. kv_mem \in [KvPlace -> AttnWord] BY DEF AttnTyped
<1>. HIDE DEF KvPlace, AttnWord
<1>. QED BY <1>5, <1>6 DEF ReadWord

LEMMA AttnInvInit == AttnInit => AttnInv
<1>. SUFFICES ASSUME AttnInit PROVE AttnInv OBVIOUS
<1>1. ZeroVector \in Vector
  <2>1. ZeroVector \in Seq(Int) BY AttentionPorts
  <2>. QED BY <2>1 DEF Vector
<1>2. request \in LatchedRequest
  BY <1>1, AttentionAssumption DEF AttnInit, NoRequest, LatchedRequest, MAX_TOKENS
<1>3. kv_mem \in [KvPlace -> AttnWord] BY AttentionPorts DEF AttnInit
<1>4. query_mem \in [0 .. MAX_Q_HEADS - 1 -> Vector] BY <1>1 DEF AttnInit
<1>5. page_list \in [0 .. MAX_PAGES - 1 -> 0 .. MAX_PAGES - 1] BY DEF AttnInit
<1>6. AttnTyped BY <1>2, <1>3, <1>4, <1>5 DEF AttnInit, AttnTyped, EngineStates
<1>. QED BY <1>6 DEF AttnInit, AttnInv, Accepted, Stages

\* What the units do while words are on their way.
LEMMA LineMoves ==
  ASSUME AttnTyped, InLine, result = <<>>, Units(TRUE) \/ Units(FALSE), engine \in {"RUN", "DRAIN"},
         request' = request,
         read' = IF Issue THEN Append(read, ReadWord(issue_token)) ELSE read
  PROVE  /\ InLine' /\ read' \in Seq(AttnWord)
         /\ reader' = <<>> \/ \E w \in AttnWord : reader' = <<w>>
         /\ ~ Issue => reader' = <<>>
         /\ reader = <<>> => dot' = <<>>
         /\ result' = <<>> /\ reduce' = reduce
<1>. DEFINE query == request.query
            word == ReadWord(issue_token)
<1>1. PICK done \in Seq(AttnWord), mid \in Seq(AttnWord) :
        /\ read = (done \o mid) \o reader
        /\ Agrees(softmax, OnlineRun(query, done))
        /\ softmax.have_value = (done # <<>>)
        /\ \/ mid = <<>> /\ dot = <<>>
           \/ \E w \in AttnWord :
                mid = <<w>> /\ dot = <<Dot(query, w.key)>> /\ value_pipe = w.value
  BY DEF InLine
<1>2. query \in Vector /\ \A w \in AttnWord : w.key \in Vector /\ w.value \in Vector
  BY DEF AttnTyped, LatchedRequest, AttnWord
<1>3. Issue => word \in AttnWord
  BY WordsTyped DEF Issue, AttnTyped
<1>4. /\ reader' = IF Issue THEN <<word>> ELSE <<>>
      /\ dot' = IF reader # <<>> THEN <<Dot(query, reader[1].key)>> ELSE <<>>
      /\ value_pipe' = IF reader # <<>> THEN reader[1].value ELSE value_pipe
      /\ softmax' = IF dot # <<>> THEN Stepped(dot[1], value_pipe) ELSE softmax
      /\ result' = <<>> /\ reduce' = reduce
  BY DEF Units, PageReader, DotArray, OnlineSoftmax, ValueReduction, DotReady, StepReady,
         ReaderToDot, ResultTaken
<1>5. reader \in Seq(AttnWord) /\ reader' \in Seq(AttnWord)
  <2>1. reader \in Seq(AttnWord)
    <3>1. reader = <<>> \/ \E w \in AttnWord : reader = <<w>> BY DEF AttnTyped
    <3>2. ASSUME NEW w \in AttnWord PROVE <<w>> \in Seq(AttnWord) OBVIOUS
    <3>3. <<>> \in Seq(AttnWord) OBVIOUS
    <3>. HIDE DEF AttnWord
    <3>. QED BY <3>1, <3>2, <3>3
  <2>2. reader' \in Seq(AttnWord) BY <1>3, <1>4
  <2>. QED BY <2>1, <2>2
<1>. DEFINE seen == done \o mid
<1>6. seen \in Seq(AttnWord) OBVIOUS
<1>7. Agrees(softmax', OnlineRun(query, seen)) /\ softmax'.have_value = (seen # <<>>)
  <2>1. CASE dot = <<>>
    <3>1. mid = <<>> /\ softmax' = softmax BY <2>1, <1>1, <1>4
    <3>2. seen = done BY <3>1
    <3>. QED BY <3>1, <3>2, <1>1
  <2>2. CASE dot # <<>>
    <3>1. PICK w \in AttnWord :
            mid = <<w>> /\ dot = <<Dot(query, w.key)>> /\ value_pipe = w.value
      BY <2>2, <1>1
    <3>2. seen = Append(done, w) /\ seen # <<>>
      <4>1. seen = Append(done, w) BY <3>1
      <4>2. Len(Append(done, w)) = Len(done) + 1 /\ Len(done) \in Nat OBVIOUS
      <4>3. Len(seen) # 0 BY <4>1, <4>2
      <4>. QED BY <4>1, <4>3
    <3>. DEFINE score == Dot(query, w.key)
    <3>3. softmax' = Stepped(score, w.value) BY <2>2, <3>1, <1>4
    <3>4. score \in Int /\ w.value \in Vector BY <1>2, DotOfVectors
    <3>5. OnlineRun(query, seen) = OnlineStep(OnlineRun(query, done), score, w.value)
      BY <3>2, RunOverOneMore
    <3>6. Agrees(softmax', OnlineRun(query, seen))
      <4>. HIDE DEF score
      <4>. QED BY <3>3, <3>4, <3>5, <1>1, StepAgrees
    <3>7. softmax'.have_value = TRUE
      <4>1. softmax \in SoftmaxRun /\ softmax.have_value \in BOOLEAN
        BY <1>1 DEF Agrees, SoftmaxRun
      <4>2. CASE softmax.have_value = TRUE BY <4>1, <4>2, <3>3 DEF Stepped, SoftmaxRun
      <4>3. CASE softmax.have_value = FALSE BY <4>3, <3>3 DEF Stepped
      <4>. QED BY <4>1, <4>2, <4>3
    <3>. QED BY <3>2, <3>6, <3>7
  <2>. QED BY <2>1, <2>2
<1>8. read' = (seen \o reader) \o reader'
  <2>1. read = seen \o reader BY <1>1
  <2>2. seen \o reader \in Seq(AttnWord) BY <1>5, <1>6
  <2>. DEFINE all == seen \o reader
  <2>3. read = all /\ all \in Seq(AttnWord) BY <2>1, <2>2
  <2>. HIDE DEF all, word, seen
  <2>4. CASE Issue
    <3>1. read' = Append(all, word) /\ reader' = <<word>> BY <2>3, <2>4, <1>4 DEF word
    <3>2. Append(all, word) = all \o <<word>> BY <2>3
    <3>. QED BY <3>1, <3>2 DEF all
  <2>5. CASE ~ Issue
    <3>1. read' = all /\ reader' = <<>> BY <2>3, <2>5, <1>4
    <3>2. all = all \o <<>> BY <2>3
    <3>. QED BY <3>1, <3>2 DEF all
  <2>. QED BY <2>4, <2>5
<1>9. \/ reader = <<>> /\ dot' = <<>>
      \/ \E w \in AttnWord :
           reader = <<w>> /\ dot' = <<Dot(query, w.key)>> /\ value_pipe' = w.value
  <2>1. CASE reader = <<>> BY <2>1, <1>4
  <2>2. CASE reader # <<>>
    <3>1. PICK w \in AttnWord : reader = <<w>> BY <2>2 DEF AttnTyped
    <3>. QED BY <2>2, <3>1, <1>4
  <2>. QED BY <2>1, <2>2
<1>10. InLine'
  <2>. HIDE DEF seen
  <2>1. request'.query = query OBVIOUS
  <2>. QED BY <2>1, <1>5, <1>6, <1>7, <1>8, <1>9 DEF InLine
<1>11. read' \in Seq(AttnWord)
  <2>1. CASE Issue BY <2>1, <1>3 DEF AttnTyped
  <2>2. CASE ~ Issue BY <2>2 DEF AttnTyped
  <2>. QED BY <2>1, <2>2
<1>. QED BY <1>3, <1>4, <1>10, <1>11

\* An empty line stays empty, and what was found stays.
LEMMA LineRests ==
  ASSUME InLine, reader = <<>>, dot = <<>>, engine \notin {"START", "RUN"},
         Units(TRUE) \/ Units(FALSE), request' = request, read' = read
  PROVE  InLine' /\ reader' = <<>> /\ dot' = <<>> /\ softmax' = softmax
<1>1. reader' = <<>> /\ dot' = <<>> /\ softmax' = softmax
  BY DEF Units, PageReader, DotArray, OnlineSoftmax, Issue, ReaderToDot
<1>2. PICK done \in Seq(AttnWord), mid \in Seq(AttnWord) :
        /\ read = (done \o mid) \o reader
        /\ Agrees(softmax, OnlineRun(request.query, done))
        /\ softmax.have_value = (done # <<>>)
        /\ mid = <<>>
  BY DEF InLine
<1>. QED BY <1>1, <1>2 DEF InLine

\* Passing a token keeps the list: it is read, or the mask does not keep it.
LEMMA ListedKept ==
  ASSUME AttnTyped, Listed, issue_token <= request.context_tokens, request' = request,
         page_list' = page_list, kv_mem' = kv_mem,
         \/ UNCHANGED <<issue_token, read>>
         \/ /\ issue_token < request.context_tokens /\ issue_token' = issue_token + 1
            /\ \/ MaskKeep(issue_token) /\ read' = Append(read, ReadWord(issue_token))
               \/ ~ MaskKeep(issue_token) /\ read' = read
  PROVE  Listed'
<1>. DEFINE n == issue_token
            S == RequestKept
            AtRank(k) == \E t \in S : Cardinality(Under(S, t)) = k - 1 /\ read'[k] = ReadWord(t)
<1>1. RequestKept' = S /\ \A t \in S : ReadWord(t)' = ReadWord(t)
  BY DEF RequestKept, ReadWord
<1>2. SUFFICES /\ Len(read') = Cardinality(Under(S, n'))
               /\ \A k \in 1 .. Len(read') : AtRank(k)
  BY <1>1 DEF Listed
<1>3. n \in Nat /\ request.context_tokens \in Nat /\ read \in Seq(AttnWord)
  BY AttentionAssumption DEF AttnTyped, LatchedRequest, MAX_TOKENS
<1>4. S \in SUBSET Nat /\ IsFiniteSet(S)
  BY KeptFinite DEF AttnTyped
<1>5. n < request.context_tokens => (n \in S <=> MaskKeep(n))
  BY <1>3 DEF RequestKept, MaskKeep
<1>6. Len(read) = Cardinality(Under(S, n))
      /\ \A k \in 1 .. Len(read) : \E t \in S :
           Cardinality(Under(S, t)) = k - 1 /\ read[k] = ReadWord(t)
  BY DEF Listed
<1>. HIDE DEF S
<1>7. CASE UNCHANGED <<issue_token, read>>
  BY <1>6, <1>7
<1>8. CASE n < request.context_tokens /\ n' = n + 1 /\ ~ MaskKeep(n) /\ read' = read
  <2>1. Under(S, n + 1) = Under(S, n) BY <1>3, <1>4, <1>5, <1>8, RankSteps
  <2>. QED BY <2>1, <1>6, <1>8
<1>9. CASE n < request.context_tokens /\ n' = n + 1 /\ MaskKeep(n) /\ read' = Append(read, ReadWord(n))
  <2>1. n \in S BY <1>5, <1>9
  <2>2. Cardinality(Under(S, n + 1)) = Cardinality(Under(S, n)) + 1
    BY <2>1, <1>3, <1>4, RankSteps
  <2>. DEFINE L == Len(read)
              word == ReadWord(n)
  <2>3. /\ L \in Nat /\ Len(read') = L + 1 /\ read'[L + 1] = word
        /\ \A k \in 1 .. L : read'[k] = read[k]
    BY <1>3, <1>9
  <2>4. AtRank(L + 1)
    <3>1. Cardinality(Under(S, n)) = (L + 1) - 1 BY <2>3, <1>6
    <3>. QED BY <2>1, <2>3, <3>1
  <2>5. ASSUME NEW k \in 1 .. L PROVE AtRank(k)
    BY <2>3, <1>6
  <2>6. ASSUME NEW k \in 1 .. L + 1 PROVE AtRank(k)
    <3>. HIDE DEF L, Place
    <3>1. k \in 1 .. L \/ k = L + 1 BY <2>3
    <3>. QED BY <3>1, <2>4, <2>5
  <2>7. Len(read') = Cardinality(Under(S, n')) BY <2>2, <2>3, <1>6, <1>9
  <2>. HIDE DEF AtRank, L
  <2>. QED BY <2>3, <2>6, <2>7
<1>. QED BY <1>7, <1>8, <1>9

\* A write changes one word, page or query of those there are.
LEMMA MemoriesTyped ==
  ASSUME AttnTyped, NEW query_write \in AtMostOne(QueryWrites),
         NEW page_write \in AtMostOne(PageWrites), NEW kv_write \in AtMostOne(KvWrites),
         WriteMemories(query_write, page_write, kv_write)
  PROVE  /\ query_mem' \in [0 .. MAX_Q_HEADS - 1 -> Vector]
         /\ page_list' \in [0 .. MAX_PAGES - 1 -> 0 .. MAX_PAGES - 1]
         /\ kv_mem' \in [KvPlace -> AttnWord]
<1>1. /\ \A w \in query_write : (CHOOSE x \in query_write : TRUE) \in QueryWrites
      /\ \A w \in page_write : (CHOOSE x \in page_write : TRUE) \in PageWrites
      /\ \A w \in kv_write : (CHOOSE x \in kv_write : TRUE) \in KvWrites
  BY DEF AtMostOne
<1>2. /\ \A w \in QueryWrites : w.query \in Vector
      /\ \A w \in PageWrites : w.page \in 0 .. MAX_PAGES - 1
      /\ \A w \in KvWrites : w.word \in AttnWord
  BY AttentionPorts
<1>3. /\ query_mem \in [0 .. MAX_Q_HEADS - 1 -> Vector]
      /\ page_list \in [0 .. MAX_PAGES - 1 -> 0 .. MAX_PAGES - 1]
      /\ kv_mem \in [KvPlace -> AttnWord]
  BY DEF AttnTyped
<1>. HIDE DEF Vector, AttnWord, KvPlace
<1>4. query_mem' \in [0 .. MAX_Q_HEADS - 1 -> Vector] BY <1>1, <1>2, <1>3 DEF WriteMemories
<1>5. page_list' \in [0 .. MAX_PAGES - 1 -> 0 .. MAX_PAGES - 1]
  BY <1>1, <1>2, <1>3 DEF WriteMemories
<1>6. kv_mem' \in [KvPlace -> AttnWord] BY <1>1, <1>2, <1>3 DEF WriteMemories
<1>. QED BY <1>4, <1>5, <1>6

LEMMA AcceptInv ==
  ASSUME HeadsFit, AttnInv, NEW r \in AttnRequests, AcceptRequest(r), Units(TRUE) \/ Units(FALSE),
         query_mem' \in [0 .. MAX_Q_HEADS - 1 -> Vector],
         page_list' \in [0 .. MAX_PAGES - 1 -> 0 .. MAX_PAGES - 1],
         kv_mem' \in [KvPlace -> AttnWord], steady' \in BOOLEAN
  PROVE  AttnInv'
<1>1. /\ engine = "IDLE" /\ engine' = "START" /\ request' = Latched(r) /\ issue_token' = 0
      /\ asked' = <<r>> /\ read' = <<>>
  BY DEF AcceptRequest
<1>2. reader = <<>> /\ dot = <<>> /\ result = <<>> /\ reduce = <<>>
  BY <1>1 DEF AttnInv, Stages
<1>3. reader' = <<>> /\ dot' = <<>> /\ result' = <<>> /\ reduce' = <<>>
  BY <1>1, <1>2 DEF Units, PageReader, DotArray, OnlineSoftmax, ValueReduction, Issue, DotReady,
     StepReady, ReaderToDot, ResultTaken
<1>4. /\ r.query_head \in 0 .. MAX_Q_HEADS - 1 /\ r.window_start \in Nat /\ r.sink_tokens \in Nat
      /\ r.explicit_mask \in SUBSET SUBSET Nat /\ r.context_tokens \in Nat
  BY AttentionPorts
<1>5. RequestConfigValid(r) =>
        /\ KvHeadRegister(r) = KvHeadFor(r) /\ KvHeadFor(r) \in 0 .. MAX_KV_HEADS - 1
        /\ r.context_tokens <= MAX_TOKENS
  BY HeadMapped DEF RequestConfigValid
<1>6. MAX_TOKENS \in Nat /\ MAX_KV_HEADS \in Nat \ {0} BY AttentionAssumption DEF MAX_TOKENS
<1>. DEFINE kv_head == IF RequestConfigValid(r) THEN KvHeadFor(r) ELSE 0
            context == IF RequestConfigValid(r) THEN r.context_tokens ELSE 0
<1>7. kv_head \in 0 .. MAX_KV_HEADS - 1 /\ context \in 0 .. MAX_TOKENS
  BY <1>4, <1>5, <1>6
<1>8. query_mem[r.query_head] \in Vector BY <1>4 DEF AttnInv, AttnTyped
<1>9. request' = [query |-> query_mem[r.query_head], kv_head |-> kv_head,
                  context_tokens |-> context, window_start |-> r.window_start,
                  sink_tokens |-> r.sink_tokens, explicit_mask |-> r.explicit_mask]
  BY <1>1, <1>5 DEF Latched
<1>10. LatchedFrom(r)' BY <1>9 DEF LatchedFrom, RequestConfigValid, KvHeadFor
<1>11. request' \in LatchedRequest
  <2>. HIDE DEF kv_head, context
  <2>. QED BY <1>4, <1>7, <1>8, <1>9 DEF LatchedRequest
<1>12. Listed'
  <2>. DEFINE S == RequestKept'
  <2>1. S \in SUBSET Nat /\ IsFiniteSet(S)
    <3>1. S = {t \in 0 .. request'.context_tokens - 1 :
                 /\ t < request'.sink_tokens \/ t >= request'.window_start
                 /\ \A mask \in request'.explicit_mask : t \in mask}
      BY DEF RequestKept
    <3>2. request'.context_tokens \in Nat BY <1>11, <1>6 DEF LatchedRequest
    <3>3. S \in SUBSET (0 .. request'.context_tokens - 1) BY <3>1
    <3>4. IsFiniteSet(0 .. request'.context_tokens - 1)
      <4>1. 0 \in Int /\ request'.context_tokens - 1 \in Int BY <3>2
      <4>. QED BY <4>1, FS_Interval
    <3>5. IsFiniteSet(S) BY <3>3, <3>4, FS_Subset
    <3>. HIDE DEF S
    <3>6. S \in SUBSET Nat BY <3>2, <3>3
    <3>. QED BY <3>5, <3>6
  <2>2. Cardinality(Under(S, 0)) = 0
    <3>. HIDE DEF S
    <3>. QED BY <2>1, RankSteps
  <2>3. Len(read') = 0 BY <1>1
  <2>. QED BY <1>1, <2>2, <2>3 DEF Listed
<1>13. AttnTyped' BY <1>1, <1>3, <1>11 DEF AttnTyped, EngineStates
<1>14. Accepted' BY <1>1, <1>10 DEF Accepted
<1>15. Stages' BY <1>1, <1>3, <1>12 DEF Stages
<1>. QED BY <1>13, <1>14, <1>15 DEF AttnInv

LEMMA WaitInv ==
  ASSUME AttnInv, Wait, Units(TRUE) \/ Units(FALSE),
         query_mem' \in [0 .. MAX_Q_HEADS - 1 -> Vector],
         page_list' \in [0 .. MAX_PAGES - 1 -> 0 .. MAX_PAGES - 1],
         kv_mem' \in [KvPlace -> AttnWord], steady' \in BOOLEAN
  PROVE  AttnInv'
<1>1. engine = "IDLE" /\ UNCHANGED <<engine, request, issue_token, asked, read>>
  BY DEF Wait
<1>2. reader = <<>> /\ dot = <<>> /\ result = <<>> /\ reduce = <<>>
  BY <1>1 DEF AttnInv, Stages
<1>3. reader' = <<>> /\ dot' = <<>> /\ result' = <<>> /\ reduce' = <<>>
  BY <1>1, <1>2 DEF Units, PageReader, DotArray, OnlineSoftmax, ValueReduction, Issue, DotReady,
     StepReady, ReaderToDot, ResultTaken
<1>4. AttnTyped' BY <1>1, <1>3 DEF AttnInv, AttnTyped
<1>5. Accepted' BY <1>1 DEF Accepted
<1>6. Stages' BY <1>1, <1>3 DEF Stages
<1>. QED BY <1>4, <1>5, <1>6 DEF AttnInv

\* What is known of an edge while a request runs.
Running(rsp_ready) ==
  /\ AttnInv /\ Proceed(rsp_ready) /\ Units(rsp_ready)
  /\ query_mem' \in [0 .. MAX_Q_HEADS - 1 -> Vector]
  /\ page_list' \in [0 .. MAX_PAGES - 1 -> 0 .. MAX_PAGES - 1]
  /\ kv_mem' \in [KvPlace -> AttnWord]
  /\ steady' \in BOOLEAN
  /\ steady' => steady /\ UNCHANGED <<page_list, kv_mem>>

LEMMA RunningFacts ==
  ASSUME NEW rsp_ready \in BOOLEAN, Running(rsp_ready)
  PROVE  /\ request' = request /\ asked' = asked /\ engine # "IDLE"
         /\ engine' = NextState(rsp_ready)
         /\ Units(TRUE) \/ Units(FALSE)
         /\ Accepted'
         /\ request \in LatchedRequest /\ request.context_tokens \in Nat
         /\ issue_token \in Nat
<1>1. request' = request /\ asked' = asked /\ engine # "IDLE" /\ engine' = NextState(rsp_ready)
  BY DEF Running, Proceed
<1>2. Units(TRUE) \/ Units(FALSE) BY DEF Running
<1>3. \E r \in AttnRequests : asked = <<r>> /\ LatchedFrom(r)
  BY <1>1 DEF Running, AttnInv, Accepted
<1>4. Accepted' BY <1>1, <1>3 DEF Accepted, LatchedFrom, RequestConfigValid, KvHeadFor
<1>5. request \in LatchedRequest /\ request.context_tokens \in Nat /\ issue_token \in Nat
  BY AttentionAssumption DEF Running, AttnInv, AttnTyped, LatchedRequest, MAX_TOKENS
<1>. QED BY <1>1, <1>2, <1>4, <1>5

LEMMA StartInv ==
  ASSUME NEW rsp_ready \in BOOLEAN, Running(rsp_ready), engine = "START"
  PROVE  AttnInv'
<1>1. /\ request' = request /\ Accepted' /\ request \in LatchedRequest
      /\ request.context_tokens \in Nat
  BY RunningFacts
<1>2. /\ reader = <<>> /\ dot = <<>> /\ result = <<>> /\ reduce = <<>> /\ read = <<>>
      /\ issue_token = 0 /\ (steady => Listed) /\ AttnTyped
  BY DEF Running, AttnInv, Stages
<1>3. /\ issue_token' = 0 /\ read' = <<>>
      /\ engine' = IF request.context_tokens = 0 THEN "FINISH" ELSE "RUN"
  BY <1>2 DEF Running, Proceed, NextState, Issue
<1>4. /\ reader' = <<>> /\ dot' = <<>> /\ result' = <<>> /\ reduce' = <<>> /\ softmax' = NoRun
  BY <1>2 DEF Running, Units, PageReader, DotArray, OnlineSoftmax, ValueReduction, Issue, DotReady,
     StepReady, ReaderToDot, ResultTaken
<1>5. InLine'
  <2>. DEFINE none == <<>>
  <2>1. none \in Seq(AttnWord) /\ read' = (none \o none) \o reader' BY <1>3, <1>4
  <2>2. OnlineRun(request'.query, none) = NothingSeen(request.query)
    BY <1>1, <2>1, RunOverOneMore, RunSteps
  <2>3. Agrees(softmax', OnlineRun(request'.query, none))
    <3>1. request.query \in Vector BY <1>1 DEF LatchedRequest
    <3>. QED BY <3>1, <2>2, <1>4, NothingAgrees
  <2>4. softmax'.have_value = (none # <<>>) BY <1>4 DEF NoRun
  <2>. HIDE DEF none
  <2>5. none = <<>> BY DEF none
  <2>. QED BY <2>1, <2>3, <2>4, <2>5, <1>4 DEF InLine
<1>6. steady' => Listed'
  <2>1. SUFFICES ASSUME steady' PROVE Listed' OBVIOUS
  <2>2. page_list' = page_list /\ kv_mem' = kv_mem /\ steady BY <2>1 DEF Running
  <2>. QED BY <2>2, <1>1, <1>2, <1>3, ListedKept
<1>7. AttnTyped' BY <1>1, <1>2, <1>3, <1>4 DEF Running, AttnTyped, EngineStates
<1>8. Stages' BY <1>1, <1>3, <1>4, <1>5, <1>6 DEF Stages
<1>. QED BY <1>1, <1>7, <1>8 DEF AttnInv

LEMMA RunInv ==
  ASSUME NEW rsp_ready \in BOOLEAN, Running(rsp_ready), engine = "RUN"
  PROVE  AttnInv'
<1>1. /\ request' = request /\ Accepted' /\ request \in LatchedRequest
      /\ request.context_tokens \in Nat /\ issue_token \in Nat
      /\ engine' = NextState(rsp_ready) /\ (Units(TRUE) \/ Units(FALSE))
  BY RunningFacts
<1>2. /\ result = <<>> /\ reduce = <<>> /\ issue_token <= request.context_tokens
      /\ (steady => Listed) /\ AttnTyped /\ InLine
  BY DEF Running, AttnInv, Stages
<1>3. /\ issue_token' = IF PassesToken THEN issue_token + 1 ELSE issue_token
      /\ read' = IF Issue THEN Append(read, ReadWord(issue_token)) ELSE read
  BY DEF Running, Proceed
<1>4. engine' = IF \/ PassesToken /\ issue_token + 1 >= request.context_tokens
                   \/ issue_token >= request.context_tokens
                THEN "DRAIN" ELSE "RUN"
  BY <1>1 DEF NextState
<1>5. /\ InLine' /\ read' \in Seq(AttnWord)
      /\ reader' = <<>> \/ \E w \in AttnWord : reader' = <<w>>
      /\ result' = <<>> /\ reduce' = <<>>
  BY <1>1, <1>2, <1>3, LineMoves
<1>6. PassesToken => issue_token < request.context_tokens BY DEF PassesToken
<1>7. steady' => Listed'
  <2>1. SUFFICES ASSUME steady' PROVE Listed' OBVIOUS
  <2>2. page_list' = page_list /\ kv_mem' = kv_mem /\ steady BY <2>1 DEF Running
  <2>3. \/ UNCHANGED <<issue_token, read>>
        \/ /\ issue_token < request.context_tokens /\ issue_token' = issue_token + 1
           /\ \/ MaskKeep(issue_token) /\ read' = Append(read, ReadWord(issue_token))
              \/ ~ MaskKeep(issue_token) /\ read' = read
    <3>1. CASE Issue BY <3>1, <1>3 DEF PassesToken, Issue
    <3>2. CASE ~ Issue BY <3>2, <1>3 DEF PassesToken
    <3>. QED BY <3>1, <3>2
  <2>. QED BY <2>2, <2>3, <1>1, <1>2, ListedKept
<1>8. /\ issue_token' \in Nat /\ issue_token' <= request.context_tokens
      /\ engine' = "DRAIN" => issue_token' = request.context_tokens
      /\ engine' \in {"RUN", "DRAIN"}
  BY <1>1, <1>2, <1>3, <1>4, <1>6
<1>9. AttnTyped' BY <1>1, <1>2, <1>5, <1>8 DEF Running, AttnTyped, EngineStates
<1>10. Stages'
  <2>1. request'.context_tokens = request.context_tokens BY <1>1
  <2>. QED BY <2>1, <1>5, <1>7, <1>8 DEF Stages
<1>. QED BY <1>1, <1>9, <1>10 DEF AttnInv

\* The states after the last token was passed.
LEMMA AfterRun ==
  ASSUME NEW rsp_ready \in BOOLEAN, Running(rsp_ready), engine \notin {"START", "RUN"}
  PROVE  /\ issue_token' = issue_token /\ read' = read /\ issue_token' = request'.context_tokens
         /\ ~ Issue
         /\ steady' => Listed'
<1>1. /\ request' = request /\ request.context_tokens \in Nat /\ engine # "IDLE"
  BY RunningFacts
<1>2. issue_token = request.context_tokens /\ (steady => Listed) /\ AttnTyped
  BY <1>1 DEF Running, AttnInv, Stages
<1>3. ~ Issue BY DEF Issue
<1>4. issue_token' = issue_token /\ read' = read BY <1>3 DEF Running, Proceed
<1>5. steady' => Listed'
  <2>1. SUFFICES ASSUME steady' PROVE Listed' OBVIOUS
  <2>2. page_list' = page_list /\ kv_mem' = kv_mem /\ steady BY <2>1 DEF Running
  <2>. QED BY <2>2, <1>1, <1>2, <1>4, ListedKept
<1>. QED BY <1>1, <1>2, <1>3, <1>4, <1>5

LEMMA DrainInv ==
  ASSUME NEW rsp_ready \in BOOLEAN, Running(rsp_ready), engine = "DRAIN"
  PROVE  AttnInv'
<1>1. /\ request' = request /\ Accepted' /\ request \in LatchedRequest
      /\ engine' = NextState(rsp_ready) /\ (Units(TRUE) \/ Units(FALSE)) /\ issue_token \in Nat
  BY RunningFacts
<1>2. /\ issue_token' = issue_token /\ read' = read /\ issue_token' = request'.context_tokens
      /\ ~ Issue /\ (steady' => Listed')
  BY AfterRun
<1>3. result = <<>> /\ reduce = <<>> /\ AttnTyped /\ InLine
  BY DEF Running, AttnInv, Stages
<1>4. engine' = IF reader = <<>> /\ dot = <<>> THEN "FINISH" ELSE "DRAIN"
  BY <1>1 DEF NextState, PipelineEmpty
<1>5. /\ InLine' /\ read' \in Seq(AttnWord) /\ reader' = <<>> /\ (reader = <<>> => dot' = <<>>)
      /\ result' = <<>> /\ reduce' = <<>>
  BY <1>1, <1>2, <1>3, LineMoves
<1>6. AttnTyped' BY <1>1, <1>2, <1>3, <1>4, <1>5 DEF Running, AttnTyped, EngineStates
<1>7. Stages' BY <1>2, <1>4, <1>5 DEF Stages
<1>. QED BY <1>1, <1>6, <1>7 DEF AttnInv

LEMMA AnswerInv ==
  ASSUME NEW rsp_ready \in BOOLEAN, Running(rsp_ready),
         engine \in {"FINISH", "REDUCE", "RESPOND"}
  PROVE  AttnInv'
<1>1. /\ request' = request /\ Accepted' /\ request \in LatchedRequest
      /\ engine' = NextState(rsp_ready) /\ (Units(TRUE) \/ Units(FALSE)) /\ issue_token \in Nat
  BY RunningFacts
<1>2. /\ issue_token' = issue_token /\ read' = read /\ issue_token' = request'.context_tokens
      /\ (steady' => Listed')
  BY AfterRun
<1>3. /\ InLine /\ reader = <<>> /\ dot = <<>> /\ AttnTyped
  BY DEF Running, AttnInv, Stages
<1>4. InLine' /\ reader' = <<>> /\ dot' = <<>> /\ softmax' = softmax
  BY <1>1, <1>2, <1>3, LineRests
<1>5. /\ engine' \in {"IDLE", "REDUCE", "RESPOND"}
      /\ engine' # "RESPOND" => reduce' = <<>>
      /\ engine' # "REDUCE" => result' = <<>>
      /\ engine' = "REDUCE" => result' = <<softmax'>>
      /\ engine' = "RESPOND" => reduce' = <<Reduced(softmax')>>
  <2>1. CASE engine = "FINISH"
    <3>1. result = <<>> /\ reduce = <<>> BY <2>1 DEF Running, AttnInv, Stages
    <3>2. engine' = "REDUCE" BY <1>1, <2>1 DEF NextState
    <3>3. result' = <<softmax>> /\ reduce' = <<>>
      BY <2>1, <3>1 DEF Running, Units, OnlineSoftmax, ValueReduction, ResultTaken
    <3>. QED BY <3>2, <3>3, <1>4
  <2>2. CASE engine = "REDUCE"
    <3>1. result = <<softmax>> /\ reduce = <<>> BY <2>2 DEF Running, AttnInv, Stages
    <3>2. ResultTaken(rsp_ready) /\ result # <<>> BY <2>2, <3>1 DEF ResultTaken, ReduceReady
    <3>3. engine' = "RESPOND" BY <1>1, <2>2, <3>1, <3>2 DEF NextState, ReduceReady
    <3>4. result' = <<>> /\ reduce' = <<Reduced(softmax)>>
      BY <2>2, <3>1, <3>2 DEF Running, Units, OnlineSoftmax, ValueReduction
    <3>5. Reduced(softmax') = Reduced(softmax) BY <1>4
    <3>. QED BY <3>3, <3>4, <3>5, <1>4
  <2>3. CASE engine = "RESPOND"
    <3>1. result = <<>> /\ reduce = <<Reduced(softmax)>> BY <2>3 DEF Running, AttnInv, Stages
    <3>2. engine' = IF rsp_ready THEN "IDLE" ELSE "RESPOND"
      BY <1>1, <2>3, <3>1 DEF NextState
    <3>3. result' = <<>> /\ reduce' = IF rsp_ready THEN <<>> ELSE reduce
      BY <2>3, <3>1 DEF Running, Units, OnlineSoftmax, ValueReduction, ResultTaken
    <3>4. Reduced(softmax') = Reduced(softmax) BY <1>4
    <3>. QED BY <3>1, <3>2, <3>3, <3>4
  <2>. QED BY <2>1, <2>2, <2>3
<1>6. AttnTyped' BY <1>1, <1>2, <1>3, <1>4, <1>5 DEF Running, AttnTyped, EngineStates
<1>7. Stages' BY <1>2, <1>4, <1>5 DEF Stages
<1>. QED BY <1>1, <1>6, <1>7 DEF AttnInv

LEMMA AttnInvNext ==
  ASSUME HeadsFit, AttnInv, [AttnNext]_attnVars
  PROVE  AttnInv'
<1>1. CASE UNCHANGED attnVars
  <2>1. UNCHANGED <<engine, request, issue_token, query_mem, page_list, kv_mem, reader,
                    value_pipe, dot, softmax, result, reduce, asked, read, steady>>
    BY <1>1 DEF attnVars
  <2>2. AttnTyped' BY <2>1 DEF AttnInv, AttnTyped
  <2>3. Accepted'
    BY <2>1 DEF AttnInv, Accepted, LatchedFrom, RequestConfigValid, KvHeadFor
  <2>4. InLine' = InLine BY <2>1 DEF InLine
  <2>5. Listed' = Listed BY <2>1 DEF Listed, RequestKept, ReadWord
  <2>6. Stages' BY <2>1, <2>4, <2>5 DEF AttnInv, Stages, Reduced
  <2>. QED BY <2>2, <2>3, <2>6 DEF AttnInv
<1>2. CASE AttnReset
  <2>1. ZeroVector \in Vector
    <3>1. ZeroVector \in Seq(Int) BY AttentionPorts
    <3>. QED BY <3>1 DEF Vector
  <2>2. request' \in LatchedRequest
    BY <1>2, <2>1, AttentionAssumption DEF AttnReset, NoRequest, LatchedRequest, MAX_TOKENS
  <2>3. query_mem' \in [0 .. MAX_Q_HEADS - 1 -> Vector] BY <1>2, <2>1 DEF AttnReset
  <2>4. page_list' \in [0 .. MAX_PAGES - 1 -> 0 .. MAX_PAGES - 1] BY <1>2 DEF AttnReset
  <2>5. AttnTyped'
    BY <1>2, <2>2, <2>3, <2>4 DEF AttnReset, AttnInv, AttnTyped, EngineStates
  <2>. QED BY <1>2, <2>5 DEF AttnReset, AttnInv, Accepted, Stages
<1>3. CASE AttnEdge
  <2>1. PICK rsp_ready \in BOOLEAN :
          /\ Units(rsp_ready)
          /\ (\E r \in AttnRequests : AcceptRequest(r)) \/ Proceed(rsp_ready) \/ Wait
          /\ \E query_write \in AtMostOne(QueryWrites), page_write \in AtMostOne(PageWrites),
                kv_write \in AtMostOne(KvWrites) :
               WriteMemories(query_write, page_write, kv_write)
          /\ steady' = (engine = "IDLE" \/ (steady /\ UNCHANGED <<page_list, kv_mem>>))
    BY <1>3 DEF AttnEdge
  <2>2. /\ query_mem' \in [0 .. MAX_Q_HEADS - 1 -> Vector]
        /\ page_list' \in [0 .. MAX_PAGES - 1 -> 0 .. MAX_PAGES - 1]
        /\ kv_mem' \in [KvPlace -> AttnWord]
    BY <2>1, MemoriesTyped DEF AttnInv
  <2>3. steady' \in BOOLEAN /\ (Units(TRUE) \/ Units(FALSE)) BY <2>1
  <2>4. CASE \E r \in AttnRequests : AcceptRequest(r) BY <2>2, <2>3, <2>4, AcceptInv
  <2>5. CASE Wait BY <2>2, <2>3, <2>5, WaitInv
  <2>6. CASE Proceed(rsp_ready)
    <3>1. engine # "IDLE" BY <2>6 DEF Proceed
    <3>2. steady' => steady /\ UNCHANGED <<page_list, kv_mem>> BY <2>1, <3>1
    <3>3. Running(rsp_ready) BY <2>1, <2>2, <2>3, <2>6, <3>2 DEF Running
    <3>4. engine \in EngineStates BY DEF AttnInv, AttnTyped
    <3>5. \/ engine = "START" \/ engine = "RUN" \/ engine = "DRAIN"
          \/ engine \in {"FINISH", "REDUCE", "RESPOND"}
      BY <3>1, <3>4 DEF EngineStates
    <3>. QED BY <3>3, <3>5, StartInv, RunInv, DrainInv, AnswerInv
  <2>. QED BY <2>1, <2>4, <2>5, <2>6
<1>. QED BY <1>1, <1>2, <1>3 DEF AttnNext

\* The words of a list that is complete are those of the request.
LEMMA ListedAll ==
  ASSUME AttnInv, engine = "RESPOND", steady
  PROVE  read = WordsFor(asked[1])
<1>1. Listed /\ issue_token = request.context_tokens /\ request \in LatchedRequest
      /\ read \in Seq(AttnWord) /\ request.context_tokens \in Nat
  BY AttentionAssumption DEF AttnInv, Stages, AttnTyped, LatchedRequest, MAX_TOKENS
<1>2. PICK r \in AttnRequests : asked = <<r>> /\ LatchedFrom(r)
  BY DEF AttnInv, Accepted
<1>. DEFINE S == RequestKept
<1>3. S \in SUBSET Nat /\ IsFiniteSet(S) /\ \A t \in S : t < request.context_tokens
  BY <1>1, KeptFinite
<1>4. Under(S, issue_token) = S
  <2>. HIDE DEF S
  <2>. QED BY <1>1, <1>3, RankSteps
<1>5. /\ Len(read) = Cardinality(S)
      /\ \A k \in 1 .. Len(read) : \E t \in S :
           Cardinality(Under(S, t)) = k - 1 /\ read[k] = ReadWord(t)
  BY <1>1, <1>4 DEF Listed
<1>6. CASE ~ RequestConfigValid(r)
  <2>1. request.context_tokens = 0 BY <1>2, <1>6 DEF LatchedFrom
  <2>2. S = {} BY <2>1 DEF RequestKept
  <2>3. Len(read) = 0 BY <2>2, <1>5, FS_EmptySet
  <2>4. read = <<>> BY <2>3, <1>1
  <2>. QED BY <2>4, <1>2, <1>6 DEF WordsFor
<1>7. CASE RequestConfigValid(r)
  <2>1. /\ request.context_tokens = r.context_tokens /\ request.kv_head = KvHeadFor(r)
        /\ request.window_start = r.window_start /\ request.sink_tokens = r.sink_tokens
        /\ request.explicit_mask = r.explicit_mask
    BY <1>2, <1>7 DEF LatchedFrom
  <2>. DEFINE Chosen(T) == [k \in 1 .. Cardinality(T) |->
                              CHOOSE t \in T : Cardinality({u \in T : u < t}) = k - 1]
              kept == {t \in 0 .. r.context_tokens - 1 :
                         /\ t < r.sink_tokens \/ t >= r.window_start
                         /\ \A mask \in r.explicit_mask : t \in mask}
  <2>2. kept = S BY <2>1 DEF RequestKept
  <2>3. KeptTokens(r) = Chosen(kept) BY DEF KeptTokens
  <2>. HIDE DEF kept, S
  <2>4. KeptTokens(r) = Chosen(S) BY <2>2, <2>3
  <2>. DEFINE L == Len(read)
              words == WordsFor(r)
              token(k) == CHOOSE t \in S : Cardinality({u \in S : u < t}) = k - 1
  <2>5. L \in Nat /\ Cardinality(S) = L BY <1>1, <1>5
  <2>6. words = [i \in 1 .. L |-> ReadWord(token(i))]
    <3>1. DOMAIN KeptTokens(r) = 1 .. L BY <2>4, <2>5
    <3>2. \A i \in 1 .. L : KeptTokens(r)[i] = token(i) BY <2>4, <2>5
    <3>. HIDE DEF token, L, Chosen
    <3>. QED BY <3>1, <3>2, <2>1, <1>7 DEF WordsFor, ReadWord
  <2>7. ASSUME NEW k \in 1 .. L PROVE read[k] = ReadWord(token(k))
    <3>1. PICK t \in S : Cardinality(Under(S, t)) = k - 1 /\ read[k] = ReadWord(t)
      BY <1>5
    <3>2. token(k) \in S /\ Cardinality(Under(S, token(k))) = k - 1
      BY <3>1 DEF Under
    <3>. HIDE DEF token
    <3>3. token(k) = t BY <3>1, <3>2, <1>3, RankUnique
    <3>. QED BY <3>1, <3>3
  <2>. HIDE DEF token, L, words
  <2>8. words = [i \in 1 .. L |-> read[i]] BY <2>6, <2>7
  <2>9. read = [i \in 1 .. L |-> read[i]] BY <1>1 DEF L
  <2>10. asked[1] = r BY <1>2
  <2>. QED BY <2>8, <2>9, <2>10 DEF words
<1>. QED BY <1>6, <1>7

LEMMA AttnInvExact == AttnInv => AttentionExact
<1>. SUFFICES ASSUME AttnInv, RspValid
              PROVE  /\ reduce[1].empty <=> read = <<>>
                     /\ reduce[1].context = OnlineAttention(request.query, read)
                     /\ steady => read = WordsFor(asked[1])
  BY DEF AttentionExact
<1>1. /\ engine = "RESPOND" /\ reduce = <<Reduced(softmax)>> /\ reader = <<>> /\ dot = <<>> /\ InLine
      /\ request \in LatchedRequest
  BY DEF RspValid, AttnInv, Stages, AttnTyped
<1>. DEFINE query == request.query
            run == OnlineRun(query, read)
<1>2. Agrees(softmax, run) /\ softmax.have_value = (read # <<>>)
  <2>1. PICK done \in Seq(AttnWord), mid \in Seq(AttnWord) :
          /\ read = (done \o mid) \o reader
          /\ Agrees(softmax, OnlineRun(query, done))
          /\ softmax.have_value = (done # <<>>)
          /\ mid = <<>>
    BY <1>1 DEF InLine
  <2>2. read = done BY <2>1, <1>1
  <2>. QED BY <2>1, <2>2
<1>3. reduce[1] = Reduced(softmax) BY <1>1
<1>. HIDE DEF run
<1>4. /\ softmax \in SoftmaxRun /\ run \in ReferenceRun
      /\ softmax.denominator = run.denominator /\ softmax.accumulator = run.total
      /\ softmax.have_value = (run.maximum # <<>>)
      /\ softmax.have_value => run.denominator > 0
  BY <1>2 DEF Agrees
<1>5. /\ DOMAIN query = DOMAIN ZeroVector /\ DOMAIN softmax.accumulator = DOMAIN ZeroVector
      /\ softmax.have_value \in BOOLEAN /\ run.denominator \in Nat
  BY <1>1, <1>4 DEF LatchedRequest, SoftmaxRun, ReferenceRun, Vector
<1>6. reduce[1].empty <=> read = <<>>
  <2>1. reduce[1].empty = ~ softmax.have_value BY <1>3 DEF Reduced
  <2>2. CASE softmax.have_value = TRUE BY <2>1, <2>2, <1>2
  <2>3. CASE softmax.have_value = FALSE BY <2>1, <2>3, <1>2
  <2>. QED BY <2>2, <2>3, <1>5
<1>7. reduce[1].context = OnlineAttention(query, read)
  <2>1. OnlineAttention(query, read)
          = IF run.maximum = <<>> THEN [i \in DOMAIN query |-> 0]
            ELSE [i \in DOMAIN query |-> TruncatedQuotient(run.total[i], run.denominator)]
    BY DEF OnlineAttention, run
  <2>2. reduce[1].context
          = [i \in DOMAIN softmax.accumulator |->
               IF ~ softmax.have_value \/ softmax.denominator = 0 THEN 0
               ELSE TruncatedQuotient(softmax.accumulator[i], softmax.denominator)]
    BY <1>3 DEF Reduced
  <2>3. CASE run.maximum = <<>> BY <2>1, <2>2, <2>3, <1>4, <1>5
  <2>4. CASE run.maximum # <<>>
    <3>1. softmax.have_value = TRUE BY <2>4, <1>4
    <3>2. run.denominator > 0 BY <3>1, <1>4
    <3>3. softmax.denominator # 0 BY <3>2, <1>4, <1>5
    <3>. QED BY <3>1, <3>3, <2>1, <2>2, <2>4, <1>4, <1>5
  <2>. QED BY <2>3, <2>4
<1>8. steady => read = WordsFor(asked[1]) BY <1>1, ListedAll
<1>. QED BY <1>6, <1>7, <1>8

\* An answer of the attention engine is the reference attention over the words
\* that were read for it, and they are the kept tokens in order: for every size
\* of the memory, every vector, mask and request, and whatever was written,
\* answered or reset before.  The product that selects the KV head has to fit
\* the width it is computed in.
THEOREM AttentionIsExact ==
  ASSUME HeadsFit
  PROVE  AttnSpec => []AttentionExact
<1>1. AttnInv /\ [AttnNext]_attnVars => AttnInv' BY AttnInvNext
<1>. QED BY <1>1, AttnInvInit, AttnInvExact, PTL DEF AttnSpec

\* A request reads the KV head that the documents give its query head, as long as
\* the product of the heads fits.
THEOREM HeadIsMapped ==
  ASSUME HeadsFit
  PROVE  AttnSpec => []GqaMapped
<1>1. AttnInv /\ [AttnNext]_attnVars => AttnInv' BY AttnInvNext
<1>2. AttnInv => GqaMapped BY DEF AttnInv, Accepted, LatchedFrom, GqaMapped
<1>. QED BY <1>1, <1>2, AttnInvInit, PTL DEF AttnSpec

=============================================================================

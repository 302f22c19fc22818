-------------------------------- MODULE KvMmu --------------------------------
(***************************************************************************)
(* The KV MMU (rtl/kv/rcif_kv_mmu.sv) with its translation cache           *)
(* (rcif_kv_tlb.sv) and its page table and walker (rcif_kv_page_walker.sv).*)
(*                                                                         *)
(* A step is a clock edge on which something changes, or a reset.  A frame *)
(* stands for physical page, tier and format, which are copied together;   *)
(* OpcodePage is what an unknown opcode reads as in the page field.        *)
(***************************************************************************)
EXTENDS Naturals, FiniteSets

CONSTANTS
  VirtPages, Frames,
  ZeroPage, ZeroFrame,       \* the fields at zero
  OpcodePage,
  ENTRIES, TLB_ENTRIES

ASSUME KvAssumption ==
  /\ ENTRIES \in Nat \ {0} /\ TLB_ENTRIES \in Nat \ {0}
  /\ ZeroPage \in VirtPages /\ OpcodePage \in VirtPages
  /\ ZeroFrame \in Frames

Slot == [valid : BOOLEAN, virt : VirtPages, frame : Frames]
KvPayload == [virt : VirtPages, frame : Frames, reserved : BOOLEAN]
Opcode == {"KV_MAP", "KV_TRANSLATE", "OTHER"}
Status == {"OK", "KV_MISS", "KV_FULL", "KV_RESERVED_BITS", "UNSUPPORTED_OPCODE"}

VARIABLES
  state,             \* state_q of the MMU
  rsp,               \* rsp_status_q and rsp_result_q
  table,             \* the page table
  walk,              \* the response register of the walker
  tlb, replace_index

mmuVars == <<state, rsp, table, walk, tlb, replace_index>>

Entry(v, f) == [valid |-> TRUE, virt |-> v, frame |-> f]
ZeroSlot == [valid |-> FALSE, virt |-> ZeroPage, frame |-> ZeroFrame]
ZeroWalk == [valid |-> FALSE, hit |-> FALSE, virt |-> ZeroPage, frame |-> ZeroFrame]

PackEntry(v, f) == [virt |-> v, frame |-> f, reserved |-> FALSE]
ZeroRsp == [status |-> "OK", result |-> PackEntry(ZeroPage, ZeroFrame)]

-----------------------------------------------------------------------------
(* Looking into a store, the page table or the TLB: the lowest index wins. *)

Holding(store, v) ==
  {i \in DOMAIN store : store[i].valid /\ store[i].virt = v}
Free(store) == {i \in DOMAIN store : ~ store[i].valid}
First(S) == CHOOSE i \in S : \A j \in S : i <= j

Hit(store, v) == Holding(store, v) # {}

LookupFrame(store, v) ==
  IF Hit(store, v) THEN store[First(Holding(store, v))].frame ELSE ZeroFrame

\* The slot a mapping goes to: its own, else a free one, else the victim.
Place(store, v, victim) ==
  IF Hit(store, v) THEN First(Holding(store, v))
  ELSE IF Free(store) # {} THEN First(Free(store))
  ELSE victim

-----------------------------------------------------------------------------
(* The walker *)

PageMapReadyFreeOnly(v) == Free(table) # {}

PageMapReady(v) == Hit(table, v) \/ Free(table) # {}

PageRspReady == state = "WAIT_WALK"
PageLookupReady == ~ walk.valid \/ PageRspReady

StoreMapping(v, f) == table' = [table EXCEPT ![Place(table, v, 0)] = Entry(v, f)]

Lookup(v) ==
  walk' = [valid |-> TRUE, hit |-> Hit(table, v),
           virt |-> v, frame |-> LookupFrame(table, v)]

-----------------------------------------------------------------------------
(* The TLB *)

\* The fill port is wired to the walker's register while that is valid, and to
\* the request otherwise.
FillEntry(p) ==
  IF walk.valid THEN Entry(walk.virt, walk.frame) ELSE Entry(p.virt, p.frame)

Fill(e) ==
  /\ tlb' = [tlb EXCEPT ![Place(tlb, e.virt, replace_index)] = e]
  /\ replace_index' = IF Hit(tlb, e.virt) \/ Free(tlb) # {} THEN replace_index
                      ELSE IF replace_index = TLB_ENTRIES - 1 THEN 0
                      ELSE replace_index + 1

-----------------------------------------------------------------------------
(* Requests.  The client offers an opcode and a payload p. *)

ReqReady(opcode, p) ==
  /\ state = "IDLE"
  /\ opcode = "KV_TRANSLATE" => Hit(tlb, p.virt) \/ PageLookupReady

Respond(status, result) ==
  /\ rsp' = [status |-> status, result |-> result]
  /\ state' = "RESPOND"

RefusePayload(opcode, p) ==
  /\ ReqReady(opcode, p) /\ p.reserved
  /\ Respond("KV_RESERVED_BITS", p)
  /\ UNCHANGED <<table, walk, tlb, replace_index>>

MapLeavesTlb(p) ==
  /\ ReqReady("KV_MAP", p) /\ ~ p.reserved /\ PageMapReady(p.virt)
  /\ StoreMapping(p.virt, p.frame)
  /\ Respond("OK", PackEntry(p.virt, p.frame))
  /\ UNCHANGED <<walk, tlb, replace_index>>

Map(p) ==
  /\ ReqReady("KV_MAP", p) /\ ~ p.reserved /\ PageMapReady(p.virt)
  /\ StoreMapping(p.virt, p.frame)
  /\ Fill(FillEntry(p))
  /\ Respond("OK", PackEntry(p.virt, p.frame))
  /\ UNCHANGED walk

MapFull(p) ==
  /\ ReqReady("KV_MAP", p) /\ ~ p.reserved /\ ~ PageMapReady(p.virt)
  /\ Respond("KV_FULL", PackEntry(p.virt, p.frame))
  /\ UNCHANGED <<table, walk, tlb, replace_index>>

TranslateHit(p) ==
  /\ ReqReady("KV_TRANSLATE", p) /\ ~ p.reserved /\ Hit(tlb, p.virt)
  /\ Respond("OK", PackEntry(p.virt, LookupFrame(tlb, p.virt)))
  /\ UNCHANGED <<table, walk, tlb, replace_index>>

StartWalk(p) ==
  /\ ReqReady("KV_TRANSLATE", p) /\ ~ p.reserved /\ ~ Hit(tlb, p.virt)
  /\ Lookup(p.virt)
  /\ state' = "WAIT_WALK"
  /\ UNCHANGED <<rsp, table, tlb, replace_index>>

RefuseOpcode(p) ==
  /\ ReqReady("OTHER", p) /\ ~ p.reserved
  /\ Respond("UNSUPPORTED_OPCODE", PackEntry(OpcodePage, ZeroFrame))
  /\ UNCHANGED <<table, walk, tlb, replace_index>>

\* The walker's register is freed on the edge its content is used; only its
\* valid bit falls, and as nothing reads the rest until it rises again the model
\* clears that too.  p is what the client shows meanwhile.
FinishWalk(p) ==
  /\ state = "WAIT_WALK" /\ walk.valid
  /\ Respond(IF walk.hit THEN "OK" ELSE "KV_MISS", PackEntry(walk.virt, walk.frame))
  /\ walk' = ZeroWalk
  /\ IF walk.hit THEN Fill(FillEntry(p)) ELSE UNCHANGED <<tlb, replace_index>>
  /\ UNCHANGED table

\* The registers of an answer that was taken are not read again before they are
\* written: the model clears them, so that states that differ in nothing else
\* are one.
TakeResponse ==
  /\ state = "RESPOND"
  /\ state' = "IDLE"
  /\ rsp' = ZeroRsp
  /\ UNCHANGED <<table, walk, tlb, replace_index>>

-----------------------------------------------------------------------------
MmuInit ==
  /\ state = "IDLE"
  /\ rsp = ZeroRsp
  /\ table = [i \in 0 .. ENTRIES - 1 |-> ZeroSlot]
  /\ walk = ZeroWalk
  /\ tlb = [i \in 0 .. TLB_ENTRIES - 1 |-> ZeroSlot]
  /\ replace_index = 0

MmuReset ==
  /\ state' = "IDLE"
  /\ rsp' = ZeroRsp
  /\ table' = [i \in 0 .. ENTRIES - 1 |-> ZeroSlot]
  /\ walk' = ZeroWalk
  /\ tlb' = [i \in 0 .. TLB_ENTRIES - 1 |-> ZeroSlot]
  /\ replace_index' = 0

Request(p) ==
  \/ \E opcode \in Opcode : RefusePayload(opcode, p)
  \/ Map(p) \/ MapFull(p)
  \/ TranslateHit(p) \/ StartWalk(p)
  \/ RefuseOpcode(p)

Walk == \E p \in KvPayload : FinishWalk(p)

MmuNext ==
  \/ \E p \in KvPayload : Request(p)
  \/ Walk
  \/ TakeResponse
  \/ MmuReset

\* The clock runs, and the scheduler stub is ready for the answer whenever it
\* waits for one (kv_rsp_ready in rcif_scheduler_stub.sv).
MmuSpec == MmuInit /\ [][MmuNext]_mmuVars /\ WF_mmuVars(Walk) /\ WF_mmuVars(TakeResponse)

-----------------------------------------------------------------------------
(* Properties *)

MmuTypeOK ==
  /\ state \in {"IDLE", "WAIT_WALK", "RESPOND"}
  /\ rsp \in [status : Status, result : KvPayload]
  /\ table \in [0 .. ENTRIES - 1 -> Slot]
  /\ walk \in [valid : BOOLEAN, hit : BOOLEAN, virt : VirtPages, frame : Frames]
  /\ tlb \in [0 .. TLB_ENTRIES - 1 -> Slot]
  /\ replace_index \in 0 .. TLB_ENTRIES - 1

Unique(store) ==
  \A i, j \in DOMAIN store :
    store[i].valid /\ store[j].valid /\ store[i].virt = store[j].virt => i = j

\* A virtual page has one current frame (kv_mmu_vplan.md): neither store ever
\* holds a page in two slots, through remaps, refills and evictions.
OnePlacePerPage == Unique(table) /\ Unique(tlb)

Caches(v, f) == Hit(table, v) /\ LookupFrame(table, v) = f

\* The TLB is never stale: what it holds is what the page table says now,
\* although nothing ever invalidates an entry of it.
TlbCoherent ==
  \A i \in DOMAIN tlb : tlb[i].valid => Caches(tlb[i].virt, tlb[i].frame)

\* The walker's register is full exactly while the MMU waits for it, and says
\* what the page table says.  An answer left over would be written into the
\* TLB by the next request, one missed would leave the MMU waiting.
WalkerInStep ==
  /\ walk.valid <=> state = "WAIT_WALK"
  /\ walk.valid => /\ walk.hit <=> Hit(table, walk.virt)
                   /\ walk.frame = LookupFrame(table, walk.virt)

\* With TLB, walker and eviction out of sight, the MMU is the map: every answer
\* is the map's when the request was taken, none comes unasked or twice, it
\* does not change while it waits, and a mapping is refused only when ENTRIES
\* other pages are mapped.
M == INSTANCE PageMap WITH
  Capacity <- ENTRIES,
  pages <- [v \in {w \in VirtPages : Hit(table, w)} |-> LookupFrame(table, v)],
  reply <- CASE state = "RESPOND"   -> <<rsp>>
             [] state = "WAIT_WALK" ->
                  <<[status |-> IF walk.hit THEN "OK" ELSE "KV_MISS",
                     result |-> PackEntry(walk.virt, walk.frame)]>>
             [] OTHER -> <<>>

PageMapSpec == M!Spec

\* Every request is answered and the MMU takes the next one.
EveryKvRequestAnswered == state # "IDLE" ~> state = "IDLE"

=============================================================================

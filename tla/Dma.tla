-------------------------------- MODULE Dma --------------------------------
(***************************************************************************)
(* The DMA engine (rtl/dma): request decoding (rcif_dma.sv), the           *)
(* descriptor FIFO (rcif_dma_desc_fetch.sv) and the gather/scatter machine *)
(* with its page memory (rcif_gather_scatter.sv).  An action is one clock  *)
(* edge of the engine.                                                     *)
(*                                                                         *)
(* Every word of the memory is a copy of some page's seed, so a word is    *)
(* named by that page.  sound says whether the stored parity agrees with   *)
(* the word.  The parity bit of a page never written is not modelled: it   *)
(* is not compared, and the first write replaces it.                       *)
(***************************************************************************)
EXTENDS Naturals, Sequences, FiniteSets, FiniteSetsExt

CONSTANT PAGE_COUNT

ASSUME DmaAssumption == PAGE_COUNT \in Nat \ {0}

VARIABLES
  dma,       \* state_q, rsp_status_q and rsp_result_q of rcif_dma
  desc,      \* the descriptors in the FIFO
  gather,    \* the registers of rcif_gather_scatter
  words,     \* the pages written so far, a partial function
  list       \* the gather list, a partial function

dmaVars == <<dma, desc, gather, words, list>>

Zero == <<"zero", 0>>
Payload(p) == <<"payload", p>>

DmaIdle == [state |-> "IDLE", status |-> "OK", result |-> Zero]

GatherIdle ==
  [state |-> "IDLE", src |-> 0, dst |-> 0, length |-> 0, copy_index |-> 0,
   indirect |-> FALSE, checksum |-> {}, status |-> "OK", result |-> Zero]

DmaInit ==
  /\ dma = DmaIdle
  /\ desc = <<>>
  /\ gather = GatherIdle
  /\ words = [p \in {} |-> 0]
  /\ list = [s \in {} |-> 0]

DmaReset ==
  /\ dma' = DmaIdle
  /\ desc' = <<>>
  /\ gather' = GatherIdle
  /\ words' = [p \in {} |-> 0]
  /\ list' = [s \in {} |-> 0]

-----------------------------------------------------------------------------
(* A request: op with payload p, whose fields low, mid and high are source, *)
(* destination and length, or slot and page                                 *)

Copies(op) == op \in {"DMA_COPY", "DMA_GATHER"}

UsesGather(op, p) == Copies(op) /\ ~ p.reserved /\ p.high # 0

\* Submission needs room in the FIFO, the list and the parity hook an idle
\* gather/scatter machine.
DmaReqReady(op, p) ==
  /\ dma.state = "IDLE"
  /\ UsesGather(op, p) => Len(desc) < 4
  /\ op \in {"DMA_INDEX_WRITE", "DMA_ECC_INJECT"} => gather.state = "IDLE"

DmaRespond(status, result) ==
  dma' = [state |-> "RESPOND", status |-> status, result |-> result]

RefuseDma(op, p) ==
  /\ \/ p.reserved /\ DmaRespond("DMA_RESERVED_BITS", Payload(p))
     \/ /\ ~ p.reserved /\ Copies(op) /\ p.high = 0
        /\ DmaRespond("DMA_ZERO_LENGTH", Payload(p))
     \/ /\ ~ p.reserved
        /\ \/ op = "DMA_INDEX_WRITE" /\ p.mid >= PAGE_COUNT
           \/ op = "DMA_ECC_INJECT" /\ p.low >= PAGE_COUNT
        /\ DmaRespond("DMA_RANGE", Payload(p))
  /\ UNCHANGED <<desc, gather, words, list>>

SubmitDescriptor(op, p) ==
  /\ UsesGather(op, p)
  /\ desc' = Append(desc, [src |-> p.low, dst |-> p.mid, length |-> p.high,
                           indirect |-> op = "DMA_GATHER"])
  /\ dma' = [dma EXCEPT !.state = "WAIT_FETCH"]
  /\ UNCHANGED <<gather, words, list>>

IndexWrite(op, p) ==
  /\ op = "DMA_INDEX_WRITE" /\ ~ p.reserved /\ p.mid < PAGE_COUNT
  /\ list' = [s \in DOMAIN list \cup {p.low} |-> IF s = p.low THEN p.mid ELSE list[s]]
  /\ DmaRespond("OK", Payload(p))
  /\ UNCHANGED <<desc, gather, words>>

EccInject(op, p) ==
  /\ op = "DMA_ECC_INJECT" /\ ~ p.reserved /\ p.low < PAGE_COUNT
  /\ words' = [q \in DOMAIN words |-> IF q = p.low
                                      THEN [words[q] EXCEPT !.sound = ~ @]
                                      ELSE words[q]]
  /\ DmaRespond("OK", Payload(p))
  /\ UNCHANGED <<desc, gather, list>>

DmaRequest(op, p) ==
  \/ RefuseDma(op, p) \/ SubmitDescriptor(op, p)
  \/ IndexWrite(op, p) \/ EccInject(op, p)

-----------------------------------------------------------------------------
(* Gather/scatter *)

GatherRespond(status, result) ==
  gather' = [gather EXCEPT !.state = "RESPOND", !.status = status, !.result = result]

\* The head of the FIFO goes to the machine.  No descriptor of length zero is
\* ever submitted: the machine's own answer to one is left out.
Fetch ==
  /\ dma.state = "WAIT_FETCH" /\ desc # <<>> /\ gather.state = "IDLE"
  /\ LET d == Head(desc) IN
       \/ /\ \/ d.src + d.length > PAGE_COUNT
             \/ d.dst + d.length > PAGE_COUNT
          /\ GatherRespond("DMA_RANGE", Zero)
       \/ /\ d.src + d.length <= PAGE_COUNT
          /\ d.dst + d.length <= PAGE_COUNT
          /\ gather' = [GatherIdle EXCEPT
                          !.state = IF d.indirect THEN "VALIDATE" ELSE "CHECK_ECC",
                          !.src = d.src, !.dst = d.dst, !.length = d.length,
                          !.indirect = d.indirect]
  /\ desc' = Tail(desc)
  /\ dma' = [dma EXCEPT !.state = "WAIT_GATHER"]
  /\ UNCHANGED <<words, list>>

ListIndex == gather.src + gather.copy_index
SelectedSource == IF gather.indirect THEN list[ListIndex] ELSE ListIndex
Destination == gather.dst + gather.copy_index

\* The next item, or the first one of the next phase.
Advance(next) ==
  gather' = IF gather.copy_index = gather.length - 1
            THEN [gather EXCEPT !.copy_index = 0, !.state = next]
            ELSE [gather EXCEPT !.copy_index = @ + 1]

ValidateSlot ==
  /\ gather.state = "VALIDATE"
  /\ IF ListIndex \in DOMAIN list THEN Advance("CHECK_ECC")
     ELSE GatherRespond("DMA_INDEX_MISS", <<"slot", ListIndex>>)
  /\ UNCHANGED <<dma, desc, words, list>>

Corrupt(p) == p \in DOMAIN words /\ ~ words[p].sound

CheckEccFirstOnly ==
  /\ gather.state = "CHECK_ECC"
  /\ IF Corrupt(SelectedSource)
     THEN GatherRespond("DMA_ECC", <<"page", SelectedSource>>)
     ELSE gather' = [gather EXCEPT !.copy_index = 0, !.state = "COPY"]
  /\ UNCHANGED <<dma, desc, words, list>>

CheckEcc ==
  /\ gather.state = "CHECK_ECC"
  /\ IF Corrupt(SelectedSource)
     THEN GatherRespond("DMA_ECC", <<"page", SelectedSource>>)
     ELSE Advance("COPY")
  /\ UNCHANGED <<dma, desc, words, list>>

\* A page never written reads as its seed.
Word(p) == IF p \in DOMAIN words THEN words[p].data ELSE p

Xor(S, x) == SymDiff(S, {x})

CopyWord ==
  /\ gather.state = "COPY"
  /\ words' = [p \in DOMAIN words \cup {Destination} |->
                 IF p = Destination THEN [data |-> Word(SelectedSource), sound |-> TRUE]
                 ELSE words[p]]
  /\ LET checksum == Xor(gather.checksum, Word(SelectedSource)) IN
       gather' = IF gather.copy_index = gather.length - 1
                 THEN [gather EXCEPT !.checksum = checksum, !.state = "RESPOND",
                                     !.status = "OK", !.result = <<"checksum", checksum>>]
                 ELSE [gather EXCEPT !.checksum = checksum, !.copy_index = @ + 1]
  /\ UNCHANGED <<dma, desc, list>>

CollectKeepsGather ==
  /\ dma.state = "WAIT_GATHER" /\ gather.state = "RESPOND"
  /\ DmaRespond(gather.status, gather.result)
  /\ UNCHANGED <<gather, desc, words, list>>

\* The machine is freed on the edge its answer is taken; its registers are
\* written before they are read again, and the model clears them.
Collect ==
  /\ dma.state = "WAIT_GATHER" /\ gather.state = "RESPOND"
  /\ DmaRespond(gather.status, gather.result)
  /\ gather' = GatherIdle
  /\ UNCHANGED <<desc, words, list>>

DmaWorks == Fetch \/ ValidateSlot \/ CheckEcc \/ CopyWord \/ Collect

\* The client takes the answer, which the model then clears.
DmaTaken ==
  /\ dma.state = "RESPOND"
  /\ dma' = DmaIdle
  /\ UNCHANGED <<desc, gather, words, list>>

=============================================================================

----------------------------- MODULE MCChipTop -----------------------------
(***************************************************************************)
(* An instance of the chip for TLC: two pages of DMA memory, two virtual   *)
(* pages over one mapping, two slots for faults and a queue of two.  Three *)
(* hosts: one of the KV pages, one of the DMA memory, one of the rest.     *)
(***************************************************************************)
EXTENDS ChipTop

Pages == {0, 1}
TwoFrames == {0, 1}

Fields(low, mid, high) == [low |-> low, mid |-> mid, high |-> high, reserved |-> FALSE]

Plain(id, op, payload) == [id |-> id, op |-> op, flags |-> FALSE, payload |-> payload]
Flagged(id, op, payload) == [Plain(id, op, payload) EXCEPT !.flags = TRUE]
Reserved(id, op, payload) == [Plain(id, op, payload) EXCEPT !.payload.reserved = TRUE]

KvHost ==
  { Plain(1, "KV_MAP", Fields(0, 1, 0)), Plain(2, "KV_MAP", Fields(0, 0, 0)),
    Plain(3, "KV_MAP", Fields(1, 1, 0)), Reserved(4, "KV_TRANSLATE", Fields(0, 1, 0)),
    Plain(5, "KV_TRANSLATE", Fields(0, 0, 0)), Plain(6, "KV_TRANSLATE", Fields(1, 0, 0)),
    Plain(7, "KV_GET_FAULT", Fields(0, 0, 0)), Flagged(8, "KV_GET_FAULT", Fields(0, 0, 0)),
    Plain(9, "GET_COUNTER", Fields(3, 0, 0)) }

DmaHost ==
  { Plain(1, "DMA_INDEX_WRITE", Fields(0, 1, 0)), Plain(2, "DMA_INDEX_WRITE", Fields(1, 0, 0)),
    Plain(3, "DMA_INDEX_WRITE", Fields(0, 2, 0)), Plain(4, "DMA_COPY", Fields(0, 1, 1)),
    Plain(5, "DMA_COPY", Fields(0, 0, 2)), Plain(6, "DMA_COPY", Fields(1, 0, 2)),
    Plain(7, "DMA_COPY", Fields(0, 0, 0)), Plain(8, "DMA_GATHER", Fields(0, 0, 2)),
    Plain(9, "DMA_ECC_INJECT", Fields(1, 0, 0)), Plain(10, "DMA_ECC_INJECT", Fields(2, 0, 0)),
    Reserved(11, "DMA_COPY", Fields(0, 1, 1)) }

RestHost ==
  { Plain(1, "NOP", Fields(0, 0, 0)), Plain(2, "ECHO", Fields(5, 6, 7)),
    Plain(3, "GET_COUNTER", Fields(0, 0, 0)), Plain(4, "GET_COUNTER", Fields(1, 0, 0)),
    Plain(5, "GET_COUNTER", Fields(2, 0, 0)), Plain(6, "GET_COUNTER", Fields(4, 0, 0)),
    Plain(7, "ATTN_QK_DOT", Fields(3, 2, 0)), Flagged(8, "ATTN_QK_DOT", Fields(3, 2, 0)),
    Flagged(9, "DMA_COPY", Fields(0, 1, 1)), Flagged(10, "KV_MAP", Fields(0, 1, 0)),
    Plain(11, "OTHER", Fields(0, 0, 0)), Plain(12, "DMA_COPY", Fields(0, 1, 1)) }

Hosts == {KvHost, DmaHost, RestHost}
Commands == UNION Hosts

=============================================================================

-------------------------- MODULE MCTokenScheduler --------------------------
(***************************************************************************)
(* Small instances of the token scheduler for TLC.                         *)
(***************************************************************************)
EXTENDS TokenScheduler

D(op, n, deps, word) ==
  [opcode |-> op, flags |-> 0, node |-> n, deps |-> deps, operand0 |-> word, reserved |-> 0]
Nop(n, deps, word) == D("NOP", n, deps, word)
Complete(n, deps, word) == D("COMPLETE", n, deps, word)

MemoryOf(d0, d1, d2) == [i \in 0 .. 2 |-> CASE i = 0 -> d0 [] i = 1 -> d1 [] OTHER -> d2]

\* Graphs that tell the scan apart: out of order and in order chains, one
\* with every engine, a cycle, an id used twice, a missing COMPLETE, and each
\* way a descriptor is invalid.
MCGraphs ==
  { MemoryOf(Complete(2, {0, 1}, {0}), D("DMA", 1, {0}, {}), Nop(0, {}, {1, 3})),
    MemoryOf(D("ATTN", 0, {}, {}), D("TENSOR", 1, {0}, {}), Complete(2, {1}, {})),
    MemoryOf([D("DMA", 0, {}, {}) EXCEPT !.flags = 1],
             [D("TENSOR", 1, {0}, {}) EXCEPT !.flags = 8], Complete(2, {0}, {1})),
    MemoryOf(Complete(0, {1}, {}), Nop(1, {2}, {0}), D("TENSOR", 2, {1}, {})),
    MemoryOf(Nop(1, {}, {0}), Nop(1, {}, {0, 1}), Complete(2, {1}, {})),
    MemoryOf(Nop(0, {}, {0}), D("DMA", 1, {}, {}), Nop(2, {}, {})),
    MemoryOf(Nop(0, {}, {0}), [Nop(1, {0}, {}) EXCEPT !.flags = 1], Complete(2, {}, {})),
    MemoryOf(Nop(0, {}, {0}), [Nop(1, {0}, {}) EXCEPT !.node = 3], Complete(2, {}, {})),
    MemoryOf(Nop(0, {}, {0}), [Nop(1, {0}, {}) EXCEPT !.reserved = 1], Complete(2, {0}, {})),
    MemoryOf(Nop(0, {}, {0}), D("RESERVED", 1, {0}, {}), Complete(2, {0}, {})) }

\* The whole memory and, more urgent, its tail.  The others, without a node or
\* with one beyond the memory, are refused at the port.
GraphRequests ==
  { [base |-> 0, nodes |-> 3, priority |-> 1], [base |-> 1, nodes |-> 2, priority |-> 3],
    [base |-> 0, nodes |-> 0, priority |-> 1], [base |-> 2, nodes |-> 2, priority |-> 3] }

\* A graph the host rewrites while it may be running.
RewriteGraphs == { MemoryOf(Nop(0, {}, {0}), D("TENSOR", 1, {0}, {}), Complete(2, {0, 1}, {})) }
RewriteRequests == { [base |-> 0, nodes |-> 3, priority |-> 0] }
Rewrites ==
  { [index |-> 1, descriptor |-> Nop(0, {}, {1})],
    [index |-> 0, descriptor |-> Complete(0, {1}, {})],
    [index |-> 2, descriptor |-> D("RESERVED", 2, {}, {})] }

Either == {TRUE, FALSE}
Always == {TRUE}
Never == {FALSE}
Nothing == {}
\* In a finish event of width 3 with one lane, bit 2 gives way to the flag of a
\* tensor node and bit 3 is cut off.
MixedWord == { {0, 2, 3} }
OneWord == { {1} }

=============================================================================

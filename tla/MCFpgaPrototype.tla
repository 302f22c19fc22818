--------------------------- MODULE MCFpgaPrototype ---------------------------
(***************************************************************************)
(* The toy model of the FPGA prototype, and graphs that tell its execution *)
(* apart.                                                                  *)
(***************************************************************************)
EXTENDS FpgaPrototype

KeysAndValues(keys, values) ==
  [i \in DOMAIN keys |-> [key |-> keys[i], value |-> values[i]]]

\* DEFAULT_TOY_MODEL, and another content of its page.
MCContents ==
  [toy |-> KeysAndValues(
     << <<1, 0, 1, 0>>, <<2, -1, 2, 1>>, <<-1, 1, 0, 2>>, <<3, 0, 2, -1>> >>,
     << <<4, 1, -2, 3>>, <<6, 2, 0, 4>>, <<-2, 5, 1, 0>>, <<8, -1, 3, 2>> >>),
   other |-> KeysAndValues(<< <<1, 1, 1, 1>> >>, << <<-128, 127, 0, -1>> >>)]
MCPayloads == {"toy", "other"}
MCQuery == <<2, -1, 3, 1>>

Int8Row(packed) ==
  [packed |-> packed, format |-> "int8", zero_point |-> 0, scale |-> 256, bias |-> 0]
MCRows ==
  << Int8Row(<<1, 1, 1, 1>>), Int8Row(<<0, 1, 255, 1>>),
     Int8Row(<<255, 1, 1, 0>>), Int8Row(<<1, 0, 1, 255>>) >>

Work(graph) == [graph |-> graph, priority |-> 0]

\* Another page first; a page that may not be mapped; attention twice, whose
\* words cancel; nodes out of order; a projection before its attention; a
\* blocked graph; nodes that no engine executes; no COMPLETE; invalid ones.
MCGraphs ==
  { Work(ToyGraph({1})),
    Work(<<Node("ATTENTION", 0, {}, {}, 0), Node("DMA", 1, {0}, {0, 1}, 0),
           Node("COMPLETE", 2, {1}, {}, 0)>>),
    Work(<<Node("COMPLETE", 3, {0, 1}, {}, 0), Node("ATTENTION", 1, {0}, {}, 0),
           Node("ATTENTION", 0, {}, {}, 0)>>),
    Work(<<Node("TENSOR", 2, {0}, {}, 8), Node("NOP", 0, {}, {2}, 0),
           Node("ATTENTION", 1, {}, {}, 0), Node("COMPLETE", 3, {}, {}, 0)>>),
    Work(<<Node("DMA", 0, {}, {1}, 0), Node("ATTENTION", 1, {2}, {}, 0),
           Node("COMPLETE", 2, {1}, {}, 0)>>),
    Work(<<Node("ATTENTION", 0, {}, {}, 0), Node("TENSOR", 1, {0}, {}, 0)>>),
    Work(<<Node("DMA", 0, {}, {1}, 0), Node("RESERVED", 1, {0}, {}, 0)>>),
    Work(<<Node("NOP", 1, {}, {3}, 0), Node("NOP", 1, {}, {3, 5}, 0)>>),
    Work(<<Node("NOP", 9, {}, {}, 0), Node("COMPLETE", 0, {}, {}, 0)>>),
    Work(<<>>), [graph |-> ToyGraph({0}), priority |-> 4] }

\* Two requests of a token each.
MCTrace == <<1, 1>>

=============================================================================

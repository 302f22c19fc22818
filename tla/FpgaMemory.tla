----------------------------- MODULE FpgaMemory -----------------------------
(***************************************************************************)
(* The external-memory proxy of the FPGA prototype (fpga/memory.py): KV    *)
(* pages in local DRAM or at the host, and their migration on demand.      *)
(*                                                                         *)
(* The dictionary of pages is a function whose domain grows; a page keeps  *)
(* its payload, which memory only carries.  A physical page of -1 is none. *)
(***************************************************************************)
EXTENDS Integers, FiniteSets, FiniteSetsExt

CONSTANTS
  VirtualPages,      \* virtual page numbers that the host uses
  Payloads, Sizes,   \* what a page may hold, and its size in bytes
  LocalPages,        \* capacity of the local memory
  LocalReadCycles, HostReadCycles, MigrationSetupCycles, BytesPerCycle,
  MaxAllocations     \* bound: physical pages handed out

Pages(m) == DOMAIN m.pages
Tier == {"local", "host"}
Page == [payload : Payloads, size_bytes : Sizes, tier : Tier, physical_page : Int]

ASSUME MemoryAssumption ==
  /\ VirtualPages \subseteq Nat
  /\ Sizes \subseteq Nat \ {0}
  /\ LocalPages \in Nat \ {0}
  /\ LocalReadCycles \in Nat /\ HostReadCycles \in Nat /\ MigrationSetupCycles \in Nat
  /\ BytesPerCycle \in Nat \ {0}
  /\ MaxAllocations \in Nat

VARIABLE memory

\* A transfer takes whole beats.
MigrationCycles(size) ==
  MigrationSetupCycles + HostReadCycles + (size + BytesPerCycle - 1) \div BytesPerCycle

Local(m) == {p \in Pages(m) : m.pages[p].tier = "local"}
LocalFull(m) == Cardinality(Local(m)) >= LocalPages

EmptyMemory ==
  [pages |-> [p \in {} |-> 0], next_physical |-> 0,
   page_faults |-> 0, migrations |-> 0, bytes_migrated |-> 0]

-----------------------------------------------------------------------------
(* ExternalMemory: a call gives the memory after it *)

Put(m, p, page) ==
  [m EXCEPT !.pages = [q \in Pages(m) \cup {p} |-> IF q = p THEN page ELSE m.pages[q]]]

MapToHost(m, p, payload, size) ==
  Put(m, p, [payload |-> payload, size_bytes |-> size, tier |-> "host",
             physical_page |-> -1])

MapToLocal(m, p, payload, size) ==
  [Put(m, p, [payload |-> payload, size_bytes |-> size, tier |-> "local",
              physical_page |-> m.next_physical])
     EXCEPT !.next_physical = @ + 1]

ToHost(m, p) ==
  [m EXCEPT !.pages[p].tier = "host", !.pages[p].physical_page = -1]

\* Mutants: no page makes room; a page leaves while there is still room for one.
RoomNeverMade(m) == m
RoomMadeEarly(m) ==
  IF Cardinality(Local(m)) + 1 >= LocalPages /\ Local(m) # {}
  THEN ToHost(m, Min(Local(m))) ELSE m

\* The lowest local page makes room, if there is none.
RoomMade(m) == IF LocalFull(m) THEN ToHost(m, Min(Local(m))) ELSE m

Migrated(m, p) ==
  LET roomy == RoomMade(m)
  IN  [roomy EXCEPT !.pages[p].tier = "local",
                    !.pages[p].physical_page = roomy.next_physical,
                    !.next_physical = @ + 1,
                    !.page_faults = @ + 1,
                    !.migrations = @ + 1,
                    !.bytes_migrated = @ + m.pages[p].size_bytes]

\* Mutant: the page is read across and stays at the host.
EnsureLocalStreams(m, p) ==
  IF p \in Pages(m) /\ m.pages[p].tier = "local" THEN m
  ELSE [m EXCEPT !.page_faults = @ + 1, !.migrations = @ + 1]

\* An unmapped page is a fault that raises.
EnsureLocal(m, p) ==
  IF p \notin Pages(m) THEN [m EXCEPT !.page_faults = @ + 1]
  ELSE IF m.pages[p].tier = "local" THEN m
  ELSE Migrated(m, p)

AccessCycles(m, p) ==
  IF m.pages[p].tier = "local" THEN LocalReadCycles
  ELSE MigrationCycles(m.pages[p].size_bytes)

-----------------------------------------------------------------------------
MapPage(p, payload, size, tier) ==
  \/ tier = "local" /\ ~ LocalFull(memory) /\ memory.next_physical < MaxAllocations
     /\ memory' = MapToLocal(memory, p, payload, size)
  \/ tier = "host" /\ memory' = MapToHost(memory, p, payload, size)

Access(p) ==
  /\ memory.next_physical < MaxAllocations
  /\ memory.page_faults < MaxAllocations
  /\ memory' = EnsureLocal(memory, p)

MigrateToHost(p) ==
  /\ p \in Pages(memory)
  /\ memory' = ToHost(memory, p)

MemoryInit == memory = EmptyMemory

MemoryNext ==
  \E p \in VirtualPages :
    \/ \E payload \in Payloads, size \in Sizes, tier \in Tier : MapPage(p, payload, size, tier)
    \/ Access(p)
    \/ MigrateToHost(p)

MemorySpec == MemoryInit /\ [][MemoryNext]_memory

-----------------------------------------------------------------------------
(* What the memory promises *)

MemoryValue ==
  [pages : UNION {[S -> Page] : S \in SUBSET VirtualPages},
   next_physical : Nat, page_faults : Nat, migrations : Nat, bytes_migrated : Nat]

MemoryTypeOK == memory \in MemoryValue

\* The local tier never holds more pages than it has room for, and no two of
\* them share a physical page, whatever was remapped, migrated and evicted in
\* between (memory.py:57-95).
ResidencySound ==
  /\ Cardinality(Local(memory)) <= LocalPages
  /\ \A p \in Local(memory) :
       /\ memory.pages[p].physical_page \in 0 .. memory.next_physical - 1
       /\ \A q \in Local(memory) \ {p} :
            memory.pages[q].physical_page # memory.pages[p].physical_page
  /\ \A p \in Pages(memory) \ Local(memory) : memory.pages[p].physical_page = -1

\* A page fault trades places: the page that was asked for arrives, at most one
\* other leaves and only for want of room, and no page changes its content or
\* its mapping (memory.py:77-90).
MigrationIsExchange ==
  [][memory'.migrations > memory.migrations =>
       LET arrived == Local(memory') \ Local(memory)
           left == Local(memory) \ Local(memory')
       IN  /\ Cardinality(arrived) = 1 /\ Cardinality(left) <= 1
           /\ left # {} => LocalFull(memory)
           /\ \A p \in Pages(memory) :
                /\ memory'.pages[p].payload = memory.pages[p].payload
                /\ memory'.pages[p].size_bytes = memory.pages[p].size_bytes
                /\ p \notin arrived \cup left => memory'.pages[p] = memory.pages[p]]_memory

=============================================================================

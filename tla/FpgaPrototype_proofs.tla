------------------------ MODULE FpgaPrototype_proofs ------------------------
(***************************************************************************)
(* The page memory of the FPGA prototype stays sound, a page fault is an   *)
(* exchange, the device accounts for every fault, a trace pays for one     *)
(* migration, and every answer means its graph: for every set of pages,    *)
(* graphs and contents, every trace and every capacity of the memory.      *)
(***************************************************************************)
EXTENDS FpgaPrototype, FiniteSetTheorems, WellFoundedInduction, TLAPS

\* What holds of the memory between any two calls.
GoodMemory(m) ==
  /\ m \in MemoryValue
  /\ IsFiniteSet(Pages(m))
  /\ Cardinality(Local(m)) <= LocalPages
  /\ \A p \in Local(m) :
       /\ m.pages[p].physical_page \in 0 .. m.next_physical - 1
       /\ \A q \in Local(m) \ {p} : m.pages[q].physical_page # m.pages[p].physical_page
  /\ \A p \in Pages(m) \ Local(m) : m.pages[p].physical_page = -1

-----------------------------------------------------------------------------
(* One page changes *)

\* n has the pages of m, but for what it says of p.
Differs(m, n, p) ==
  /\ n \in MemoryValue
  /\ Pages(n) = Pages(m) \cup {p}
  /\ \A q \in Pages(m) \ {p} : n.pages[q] = m.pages[q]

LEMMA LocalFinite ==
  ASSUME NEW m, IsFiniteSet(Pages(m))
  PROVE  IsFiniteSet(Local(m)) /\ Cardinality(Local(m)) \in Nat
<1>1. Local(m) \in SUBSET Pages(m) BY DEF Local
<1>2. IsFiniteSet(Local(m)) BY <1>1, FS_Subset
<1>. QED BY <1>2, FS_CardinalityType

LEMMA PageValue ==
  ASSUME NEW m \in MemoryValue, NEW p \in Pages(m)
  PROVE  m.pages[p] \in Page /\ p \in VirtualPages
BY DEF MemoryValue, Pages

LEMMA GoesToHost ==
  ASSUME NEW m, GoodMemory(m), NEW n, NEW p, Differs(m, n, p),
         n.pages[p].tier = "host", n.pages[p].physical_page = -1,
         n.next_physical = m.next_physical
  PROVE  GoodMemory(n) /\ Local(n) = Local(m) \ {p}
<1>1. Local(n) = Local(m) \ {p}
  BY DEF Differs, Local
<1>2. IsFiniteSet(Pages(n))
  BY FS_AddElement DEF Differs, GoodMemory
<1>3. Cardinality(Local(n)) <= LocalPages
  <2>1. IsFiniteSet(Local(m)) /\ Cardinality(Local(m)) \in Nat
    BY LocalFinite DEF GoodMemory
  <2>2. Local(n) \in SUBSET Local(m) BY <1>1
  <2>3. Cardinality(Local(n)) <= Cardinality(Local(m)) BY <2>1, <2>2, FS_Subset
  <2>4. IsFiniteSet(Local(n)) BY <2>1, <2>2, FS_Subset
  <2>5. Cardinality(Local(n)) \in Nat BY <2>4, FS_CardinalityType
  <2>. QED BY <2>1, <2>3, <2>5, MemoryAssumption DEF GoodMemory
<1>4. \A q \in Local(n) : q \in Local(m) /\ n.pages[q] = m.pages[q]
  BY <1>1 DEF Differs, Local
<1>5. \A q \in Local(n) :
        /\ n.pages[q].physical_page \in 0 .. n.next_physical - 1
        /\ \A r \in Local(n) \ {q} : n.pages[r].physical_page # n.pages[q].physical_page
  BY <1>4 DEF GoodMemory
<1>6. \A q \in Pages(n) \ Local(n) : n.pages[q].physical_page = -1
  BY <1>1 DEF GoodMemory, Differs
<1>. QED BY <1>1, <1>2, <1>3, <1>5, <1>6 DEF GoodMemory, Differs

LEMMA BecomesLocal ==
  ASSUME NEW m, GoodMemory(m), NEW n, NEW p, Differs(m, n, p),
         n.pages[p].tier = "local", n.pages[p].physical_page = m.next_physical,
         n.next_physical = m.next_physical + 1, ~ LocalFull(m)
  PROVE  GoodMemory(n) /\ Local(n) = Local(m) \cup {p}
<1>1. Local(n) = Local(m) \cup {p}
  BY DEF Differs, Local
<1>2. IsFiniteSet(Pages(n))
  BY FS_AddElement DEF Differs, GoodMemory
<1>3. Cardinality(Local(n)) <= LocalPages
  <2>1. IsFiniteSet(Local(m)) /\ Cardinality(Local(m)) \in Nat
    BY LocalFinite DEF GoodMemory
  <2>2. Cardinality(Local(n)) \in {Cardinality(Local(m)), Cardinality(Local(m)) + 1}
    BY <1>1, <2>1, FS_AddElement
  <2>. QED BY <2>1, <2>2, MemoryAssumption DEF LocalFull
<1>4. m.next_physical \in Nat BY DEF GoodMemory, MemoryValue
<1>5. \A q \in Local(n) \ {p} : q \in Local(m) /\ n.pages[q] = m.pages[q]
  BY <1>1 DEF Differs, Local
<1>6. \A q \in Local(n) \ {p} :
        /\ n.pages[q].physical_page \in 0 .. m.next_physical - 1
        /\ \A r \in Local(n) \ {p, q} : n.pages[r].physical_page # n.pages[q].physical_page
  BY <1>5 DEF GoodMemory
<1>7. \A q \in Local(n) :
        /\ n.pages[q].physical_page \in 0 .. n.next_physical - 1
        /\ \A r \in Local(n) \ {q} : n.pages[r].physical_page # n.pages[q].physical_page
  BY <1>4, <1>6
<1>8. \A q \in Pages(n) \ Local(n) : n.pages[q].physical_page = -1
  BY <1>1 DEF GoodMemory, Differs
<1>. QED BY <1>1, <1>2, <1>3, <1>7, <1>8 DEF GoodMemory, Differs

-----------------------------------------------------------------------------
(* The calls *)

\* The fields that no call but ensure_local changes.
SameCounts(m, n) ==
  n.page_faults = m.page_faults /\ n.migrations = m.migrations

LEMMA PutDiffers ==
  ASSUME NEW m \in MemoryValue, NEW p \in VirtualPages, NEW page \in Page
  PROVE  /\ Differs(m, Put(m, p, page), p)
         /\ Put(m, p, page).pages[p] = page
         /\ Put(m, p, page).next_physical = m.next_physical
         /\ SameCounts(m, Put(m, p, page))
<1>. DEFINE f == [q \in Pages(m) \cup {p} |-> IF q = p THEN page ELSE m.pages[q]]
<1>1. Pages(m) \subseteq VirtualPages BY DEF Pages, MemoryValue
<1>2. \A q \in Pages(m) : m.pages[q] \in Page BY PageValue
<1>3. f \in [Pages(m) \cup {p} -> Page] BY <1>2
<1>4. Pages(m) \cup {p} \in SUBSET VirtualPages BY <1>1
<1>5. f \in UNION {[S -> Page] : S \in SUBSET VirtualPages} BY <1>3, <1>4
<1>6. /\ DOMAIN f = Pages(m) \cup {p}
      /\ f[p] = page
      /\ \A q \in Pages(m) \ {p} : f[q] = m.pages[q]
  OBVIOUS
<1>7. Put(m, p, page) = [m EXCEPT !.pages = f] BY DEF Put
<1>. HIDE DEF f
<1>8. Put(m, p, page) \in MemoryValue BY <1>5, <1>7, Zenon DEF MemoryValue
<1>9. Put(m, p, page).pages = f BY <1>7 DEF MemoryValue
<1>10. /\ Put(m, p, page).next_physical = m.next_physical
       /\ SameCounts(m, Put(m, p, page))
  BY <1>7 DEF MemoryValue, SameCounts
<1>. QED BY <1>6, <1>8, <1>9, <1>10 DEF Differs, Pages

LEMMA MapToHostSound ==
  ASSUME NEW m, GoodMemory(m), NEW p \in VirtualPages,
         NEW payload \in Payloads, NEW size \in Sizes
  PROVE  /\ GoodMemory(MapToHost(m, p, payload, size))
         /\ SameCounts(m, MapToHost(m, p, payload, size))
         /\ Pages(MapToHost(m, p, payload, size)) = Pages(m) \cup {p}
         /\ MapToHost(m, p, payload, size).next_physical = m.next_physical
<1>. DEFINE page == [payload |-> payload, size_bytes |-> size, tier |-> "host",
                     physical_page |-> -1]
<1>1. page \in Page BY DEF Page, Tier
<1>2. page.tier = "host" /\ page.physical_page = -1 OBVIOUS
<1>3. MapToHost(m, p, payload, size) = Put(m, p, page) BY DEF MapToHost
<1>. HIDE DEF page
<1>4. m \in MemoryValue BY DEF GoodMemory
<1>. QED BY <1>1, <1>2, <1>3, <1>4, PutDiffers, GoesToHost DEF Differs

LEMMA MapToLocalSound ==
  ASSUME NEW m, GoodMemory(m), NEW p \in VirtualPages, ~ LocalFull(m),
         NEW payload \in Payloads, NEW size \in Sizes
  PROVE  /\ GoodMemory(MapToLocal(m, p, payload, size))
         /\ SameCounts(m, MapToLocal(m, p, payload, size))
         /\ Pages(MapToLocal(m, p, payload, size)) = Pages(m) \cup {p}
         /\ MapToLocal(m, p, payload, size).next_physical = m.next_physical + 1
<1>. DEFINE page == [payload |-> payload, size_bytes |-> size, tier |-> "local",
                     physical_page |-> m.next_physical]
            n == MapToLocal(m, p, payload, size)
            put == Put(m, p, page)
<1>0. m \in MemoryValue /\ m.next_physical \in Nat BY DEF GoodMemory, MemoryValue
<1>1. page \in Page BY <1>0 DEF Page, Tier
<1>2. page.tier = "local" /\ page.physical_page = m.next_physical OBVIOUS
<1>3. n = [put EXCEPT !.next_physical = @ + 1] BY DEF MapToLocal
<1>. HIDE DEF page, n, put
<1>4. /\ put \in MemoryValue /\ Differs(m, put, p) /\ put.pages[p] = page
      /\ put.next_physical = m.next_physical /\ SameCounts(m, put)
  BY <1>0, <1>1, PutDiffers DEF Differs, put
<1>5. put.next_physical + 1 \in Nat BY <1>0, <1>4
<1>6. n \in MemoryValue BY <1>3, <1>4, <1>5, Zenon DEF MemoryValue
<1>7. /\ n.pages = put.pages /\ n.next_physical = m.next_physical + 1
      /\ SameCounts(m, n)
  BY <1>3, <1>4 DEF MemoryValue, SameCounts
<1>8. Differs(m, n, p) BY <1>4, <1>6, <1>7 DEF Differs, Pages
<1>9. GoodMemory(n) BY <1>2, <1>4, <1>7, <1>8, BecomesLocal
<1>. QED BY <1>7, <1>8, <1>9 DEF n, Differs

LEMMA ToHostSound ==
  ASSUME NEW m, GoodMemory(m), NEW p \in Pages(m)
  PROVE  /\ GoodMemory(ToHost(m, p))
         /\ Local(ToHost(m, p)) = Local(m) \ {p}
         /\ Pages(ToHost(m, p)) = Pages(m)
         /\ SameCounts(m, ToHost(m, p))
         /\ ToHost(m, p).next_physical = m.next_physical
         /\ ToHost(m, p).bytes_migrated = m.bytes_migrated
         /\ ToHost(m, p).pages[p].payload = m.pages[p].payload
         /\ ToHost(m, p).pages[p].size_bytes = m.pages[p].size_bytes
         /\ \A q \in Pages(m) \ {p} : ToHost(m, p).pages[q] = m.pages[q]
<1>. DEFINE page == [m.pages[p] EXCEPT !.tier = "host", !.physical_page = -1]
            f == [m.pages EXCEPT ![p] = page]
            n == ToHost(m, p)
<1>0. m \in MemoryValue BY DEF GoodMemory
<1>1. m.pages[p] \in Page /\ p \in VirtualPages BY <1>0, PageValue
<1>2. page \in Page
  <2>1. "host" \in Tier /\ -1 \in Int BY DEF Tier
  <2>2. [m.pages[p] EXCEPT !.tier = "host"] \in Page BY <1>1, <2>1, Zenon DEF Page
  <2>. QED BY <2>1, <2>2, Zenon DEF Page
<1>3. /\ page.tier = "host" /\ page.physical_page = -1
      /\ page.payload = m.pages[p].payload /\ page.size_bytes = m.pages[p].size_bytes
  BY <1>1 DEF Page
<1>4. PICK S \in SUBSET VirtualPages : m.pages \in [S -> Page]
  BY <1>0 DEF MemoryValue
<1>5. Pages(m) = S BY <1>4 DEF Pages
<1>. HIDE DEF page
<1>6. /\ f \in [S -> Page] /\ DOMAIN f = S /\ f[p] = page
      /\ \A q \in S \ {p} : f[q] = m.pages[q]
  BY <1>2, <1>4, <1>5
<1>7. f \in UNION {[T -> Page] : T \in SUBSET VirtualPages} BY <1>6
<1>8. n = [m EXCEPT !.pages = f] BY <1>0, <1>4, <1>5 DEF ToHost, page, MemoryValue
<1>. HIDE DEF f, n
<1>9. n \in MemoryValue BY <1>0, <1>7, <1>8, Zenon DEF MemoryValue
<1>10. n.pages = f /\ n.next_physical = m.next_physical /\ SameCounts(m, n)
       /\ n.bytes_migrated = m.bytes_migrated
  BY <1>0, <1>8 DEF MemoryValue, SameCounts
<1>11. Differs(m, n, p) BY <1>5, <1>6, <1>9, <1>10 DEF Differs, Pages
<1>12. GoodMemory(n) /\ Local(n) = Local(m) \ {p}
  BY <1>3, <1>6, <1>10, <1>11, GoesToHost
<1>. QED BY <1>3, <1>5, <1>6, <1>10, <1>11, <1>12 DEF n, Differs

LEMMA LeastOf ==
  ASSUME NEW S \in SUBSET Nat, S # {}
  PROVE  \E x \in S : \A y \in S : x <= y
<1>1. IsWellFoundedOn(OpToRel(<, Nat), Nat)
  BY NatLessThanWellFounded
<1>2. PICK x \in S : \A y \in S : ~ (<<y, x>> \in OpToRel(<, Nat))
  BY <1>1, WFMin, Zenon
<1>3. \A y \in S : ~ (y < x)
  BY <1>2 DEF OpToRel
<1>. QED BY <1>3

LEMMA LeastIn ==
  ASSUME NEW S \in SUBSET Nat, S # {}
  PROVE  Min(S) \in S
<1>1. PICK x \in S : \A y \in S : x <= y BY LeastOf
<1>. QED BY <1>1 DEF Min

\* n is m with room for a page, for which at most one had to leave.
Roomier(m, n) ==
  /\ GoodMemory(n) /\ ~ LocalFull(n)
  /\ Pages(n) = Pages(m) /\ SameCounts(m, n)
  /\ n.next_physical = m.next_physical
  /\ n.bytes_migrated = m.bytes_migrated
  /\ Local(n) \subseteq Local(m)
  /\ \E victim : Local(m) \ Local(n) \subseteq {victim}
  /\ Local(m) \ Local(n) # {} => LocalFull(m)
  /\ \A q \in Pages(m) :
       /\ n.pages[q].payload = m.pages[q].payload
       /\ n.pages[q].size_bytes = m.pages[q].size_bytes
       /\ q \notin Local(m) \ Local(n) => n.pages[q] = m.pages[q]

LEMMA RoomMadeSound ==
  ASSUME NEW m, GoodMemory(m)
  PROVE  Roomier(m, RoomMade(m))
<1>1. CASE ~ LocalFull(m)
  BY <1>1 DEF RoomMade, SameCounts, Roomier
<1>2. CASE LocalFull(m)
  <2>. DEFINE victim == Min(Local(m))
              n == ToHost(m, victim)
  <2>1. IsFiniteSet(Local(m)) /\ Cardinality(Local(m)) \in Nat
    BY LocalFinite DEF GoodMemory
  <2>2. Local(m) # {}
    BY <1>2, FS_EmptySet, MemoryAssumption DEF LocalFull
  <2>3. Local(m) \in SUBSET Nat
    <3>1. m \in MemoryValue BY DEF GoodMemory
    <3>2. \A q \in Local(m) : q \in VirtualPages BY <3>1, PageValue DEF Local
    <3>. QED BY <3>2, MemoryAssumption
  <2>4. victim \in Local(m) BY <2>2, <2>3, LeastIn
  <2>5. victim \in Pages(m) BY <2>4 DEF Local
  <2>6. RoomMade(m) = n BY <1>2 DEF RoomMade
  <2>. HIDE DEF victim
  <2>7. /\ GoodMemory(n)
        /\ Local(n) = Local(m) \ {victim}
        /\ Pages(n) = Pages(m)
        /\ SameCounts(m, n)
        /\ n.next_physical = m.next_physical
        /\ n.bytes_migrated = m.bytes_migrated
        /\ n.pages[victim].payload = m.pages[victim].payload
        /\ n.pages[victim].size_bytes = m.pages[victim].size_bytes
        /\ \A q \in Pages(m) \ {victim} : n.pages[q] = m.pages[q]
    BY <2>5, ToHostSound
  <2>. HIDE DEF n
  <2>8. ~ LocalFull(n)
    <3>1. Cardinality(Local(n)) = Cardinality(Local(m)) - 1
      BY <2>1, <2>4, <2>7, FS_RemoveElement
    <3>. QED BY <3>1, <2>1, MemoryAssumption DEF LocalFull, GoodMemory
  <2>9. Local(m) \ Local(n) = {victim} BY <2>4, <2>7
  <2>10. \A q \in Pages(m) :
           /\ n.pages[q].payload = m.pages[q].payload
           /\ n.pages[q].size_bytes = m.pages[q].size_bytes
           /\ q \notin Local(m) \ Local(n) => n.pages[q] = m.pages[q]
    BY <2>7, <2>9
  <2>11. \E v : Local(m) \ Local(n) \subseteq {v} BY <2>9
  <2>12. Local(n) \subseteq Local(m) BY <2>7
  <2>. HIDE DEF GoodMemory, SameCounts, LocalFull
  <2>. QED BY <1>2, <2>6, <2>7, <2>8, <2>10, <2>11, <2>12 DEF Roomier
<1>. QED BY <1>1, <1>2

\* A page fault on p turns m into n.
Exchanged(m, n, p) ==
  /\ GoodMemory(n) /\ Pages(n) = Pages(m)
  /\ n.page_faults = m.page_faults + 1
  /\ n.migrations = m.migrations + 1
  /\ n.next_physical = m.next_physical + 1
  /\ Local(n) \ Local(m) = {p}
  /\ \E victim : Local(m) \ Local(n) \subseteq {victim}
  /\ Local(m) \ Local(n) # {} => LocalFull(m)
  /\ \A q \in Pages(m) :
       /\ n.pages[q].payload = m.pages[q].payload
       /\ n.pages[q].size_bytes = m.pages[q].size_bytes
       /\ q \notin {p} \cup (Local(m) \ Local(n)) => n.pages[q] = m.pages[q]

LEMMA MigratedSound ==
  ASSUME NEW m, GoodMemory(m), NEW p \in Pages(m), p \notin Local(m)
  PROVE  Exchanged(m, Migrated(m, p), p)
<1>. DEFINE roomy == RoomMade(m)
            n == Migrated(m, p)
            page == [roomy.pages[p] EXCEPT !.tier = "local",
                                           !.physical_page = roomy.next_physical]
            f == [roomy.pages EXCEPT ![p] = page]
<1>1. /\ GoodMemory(roomy) /\ ~ LocalFull(roomy)
      /\ Pages(roomy) = Pages(m) /\ SameCounts(m, roomy)
      /\ roomy.next_physical = m.next_physical
      /\ roomy.bytes_migrated = m.bytes_migrated
      /\ Local(roomy) \subseteq Local(m)
      /\ \E victim : Local(m) \ Local(roomy) \subseteq {victim}
      /\ Local(m) \ Local(roomy) # {} => LocalFull(m)
      /\ \A q \in Pages(m) :
           /\ roomy.pages[q].payload = m.pages[q].payload
           /\ roomy.pages[q].size_bytes = m.pages[q].size_bytes
           /\ q \notin Local(m) \ Local(roomy) => roomy.pages[q] = m.pages[q]
  BY RoomMadeSound DEF Roomier
<1>2. n = [roomy EXCEPT !.pages[p].tier = "local",
                        !.pages[p].physical_page = roomy.next_physical,
                        !.next_physical = @ + 1,
                        !.page_faults = @ + 1,
                        !.migrations = @ + 1,
                        !.bytes_migrated = @ + m.pages[p].size_bytes]
  BY DEF Migrated
<1>. HIDE DEF roomy
<1>3. roomy \in MemoryValue /\ m \in MemoryValue BY <1>1 DEF GoodMemory
<1>4. roomy.pages[p] \in Page BY <1>1, <1>3, PageValue
<1>5. roomy.next_physical \in Int BY <1>3 DEF MemoryValue
<1>6. page \in Page
  <2>1. "local" \in Tier BY DEF Tier
  <2>2. [roomy.pages[p] EXCEPT !.tier = "local"] \in Page BY <1>4, <2>1, Zenon DEF Page
  <2>. QED BY <1>5, <2>2, Zenon DEF Page
<1>7. /\ page.tier = "local" /\ page.physical_page = roomy.next_physical
      /\ page.payload = roomy.pages[p].payload
      /\ page.size_bytes = roomy.pages[p].size_bytes
  BY <1>4 DEF Page
<1>8. PICK S \in SUBSET VirtualPages : roomy.pages \in [S -> Page]
  BY <1>3 DEF MemoryValue
<1>9. Pages(roomy) = S /\ p \in S BY <1>1, <1>8 DEF Pages
<1>10. n = [roomy EXCEPT !.pages = f, !.next_physical = @ + 1, !.page_faults = @ + 1,
                         !.migrations = @ + 1,
                         !.bytes_migrated = @ + m.pages[p].size_bytes]
  BY <1>2, <1>3, <1>8, <1>9 DEF MemoryValue
<1>. HIDE DEF n
<1>. HIDE DEF page
<1>11. /\ f \in [S -> Page] /\ DOMAIN f = S /\ f[p] = page
       /\ \A q \in S \ {p} : f[q] = roomy.pages[q]
  BY <1>6, <1>8, <1>9
<1>. HIDE DEF f
<1>12. f \in UNION {[T -> Page] : T \in SUBSET VirtualPages} BY <1>11
<1>13. m.pages[p].size_bytes \in Nat
  BY <1>3, PageValue, MemoryAssumption DEF Page
<1>14. /\ n.pages = f
       /\ n.next_physical = roomy.next_physical + 1
       /\ n.page_faults = roomy.page_faults + 1
       /\ n.migrations = roomy.migrations + 1
       /\ n.bytes_migrated = roomy.bytes_migrated + m.pages[p].size_bytes
  BY <1>3, <1>10 DEF MemoryValue
<1>15. n = [pages |-> n.pages, next_physical |-> n.next_physical,
            page_faults |-> n.page_faults, migrations |-> n.migrations,
            bytes_migrated |-> n.bytes_migrated]
  BY <1>3, <1>10 DEF MemoryValue
<1>16. /\ roomy.next_physical \in Nat /\ roomy.page_faults \in Nat
       /\ roomy.migrations \in Nat /\ roomy.bytes_migrated \in Nat
  BY <1>3 DEF MemoryValue
<1>17. /\ n.next_physical \in Nat /\ n.page_faults \in Nat
       /\ n.migrations \in Nat /\ n.bytes_migrated \in Nat
  BY <1>13, <1>14, <1>16
<1>18. n \in MemoryValue BY <1>12, <1>14, <1>15, <1>17 DEF MemoryValue
<1>19. Differs(roomy, n, p) BY <1>9, <1>11, <1>14, <1>18 DEF Differs, Pages
<1>20. GoodMemory(n) /\ Local(n) = Local(roomy) \cup {p}
  BY <1>1, <1>7, <1>11, <1>14, <1>19, BecomesLocal
<1>21. Local(n) \ Local(m) = {p} /\ Local(m) \ Local(n) = Local(m) \ Local(roomy)
  BY <1>1, <1>20
<1>22. /\ n.page_faults = m.page_faults + 1 /\ n.migrations = m.migrations + 1
       /\ n.next_physical = m.next_physical + 1
  BY <1>1, <1>14 DEF SameCounts
<1>23. Pages(n) = Pages(m) BY <1>1, <1>9, <1>11, <1>14 DEF Pages
<1>24. \A q \in Pages(m) : /\ n.pages[q].payload = m.pages[q].payload
                          /\ n.pages[q].size_bytes = m.pages[q].size_bytes
  BY <1>1, <1>7, <1>9, <1>11, <1>14
<1>25. \A q \in Pages(m) :
         q \notin {p} \cup (Local(m) \ Local(n)) => n.pages[q] = m.pages[q]
  BY <1>1, <1>9, <1>11, <1>14, <1>21
<1>. QED BY <1>1, <1>20, <1>21, <1>22, <1>23, <1>24, <1>25 DEF n, Exchanged

-----------------------------------------------------------------------------
(* The device *)

MemoryPart == GoodMemory(memory) /\ ATTENTION_PAGE \in Pages(memory)

\* Faults, migrations and the counters of the device go together.
CounterPart ==
  /\ DOMAIN counters = {"GRAPH_NODES", "KV_FAULTS", "KV_RECOVERED"}
  /\ counters.KV_FAULTS = memory.migrations
  /\ counters.KV_RECOVERED = memory.migrations
  /\ memory.page_faults = memory.migrations
  /\ memory.next_physical >= memory.migrations

\* What a graph has cost is what was predicted, from an even start.
RunPart ==
  Running =>
    /\ DOMAIN run = {"request_id", "graph", "priority", "executed", "complete_mask",
                     "result", "cycles", "predicted", "output", "attention",
                     "start_faults", "start_migrations"}
    /\ run.cycles = run.predicted
    /\ run.start_faults = run.start_migrations

RecordPart ==
  \A r \in Range(record) : r.cycles = r.predicted_cycles /\ r.page_faults = r.migrations

PrototypeInv == MemoryPart /\ CounterPart /\ RunPart /\ RecordPart

\* What a step may do to the memory besides counting: nothing, a fault, or a
\* call of the host.
MemoryStep ==
  \/ UNCHANGED memory
  \/ \E p : Exchanged(memory, memory', p)
  \/ GoodMemory(memory') /\ SameCounts(memory, memory')

LEMMA NothingTouched ==
  ASSUME PrototypeInv, UNCHANGED <<memory, counters>>, RunPart', RecordPart'
  PROVE  PrototypeInv' /\ MemoryStep
BY DEF PrototypeInv, MemoryPart, CounterPart, MemoryStep

\* A page is fetched, and the counters follow the memory.
LEMMA FetchKeeps ==
  ASSUME MemoryPart, CounterPart, NEW p \in Pages(memory),
         memory' = EnsureLocal(memory, p), CountMigration(p)
  PROVE  MemoryPart' /\ CounterPart' /\ MemoryStep
<1>1. CASE memory.pages[p].tier = "local"
  <2>1. UNCHANGED <<memory, counters>> BY <1>1 DEF EnsureLocal, CountMigration
  <2>. QED BY <2>1 DEF MemoryPart, CounterPart, MemoryStep
<1>2. CASE memory.pages[p].tier # "local"
  <2>1. memory' = Migrated(memory, p) BY <1>2 DEF EnsureLocal
  <2>2. p \notin Local(memory) BY <1>2 DEF Local
  <2>3. Exchanged(memory, memory', p) BY <2>1, <2>2, MigratedSound DEF MemoryPart
  <2>4. counters' = [counters EXCEPT !.KV_FAULTS = @ + 1, !.KV_RECOVERED = @ + 1]
    BY <1>2 DEF CountMigration
  <2>5. /\ DOMAIN counters' = {"GRAPH_NODES", "KV_FAULTS", "KV_RECOVERED"}
        /\ counters'.KV_FAULTS = counters.KV_FAULTS + 1
        /\ counters'.KV_RECOVERED = counters.KV_RECOVERED + 1
    BY <2>4 DEF CounterPart
  <2>6. memory.next_physical \in Nat /\ memory.migrations \in Nat
    BY DEF MemoryPart, GoodMemory, MemoryValue
  <2>7. CounterPart' BY <2>3, <2>5, <2>6 DEF CounterPart, Exchanged
  <2>8. MemoryPart' BY <2>3 DEF MemoryPart, Exchanged
  <2>. QED BY <2>3, <2>7, <2>8 DEF MemoryStep
<1>. QED BY <1>1, <1>2

\* A node that is executed costs as much as was predicted of it.
LEMMA ExecutedKeeps ==
  ASSUME Running, RunPart, NEW i, NEW cycles, NEW word
  PROVE  LET n == Executed(i, cycles, cycles, word)
         IN  /\ DOMAIN n = DOMAIN run
             /\ n.cycles = n.predicted
             /\ n.start_faults = n.start_migrations
BY DEF RunPart, Executed

LEMMA SubmitKeeps ==
  ASSUME PrototypeInv, NEW work, NEW traced, Submit(work, traced)
  PROVE  PrototypeInv' /\ MemoryStep
<1>1. UNCHANGED <<memory, record>> BY DEF Submit
<1>2. RecordPart' BY <1>1 DEF PrototypeInv, RecordPart
<1>3. MemoryPart' BY <1>1 DEF PrototypeInv, MemoryPart
<1>4. CASE GraphValid(work.graph, work.priority)
  <2>1. run' = Begun(next_request_id, work) /\ counters' = Counted("GRAPH_NODES", Len(work.graph))
    BY <1>4 DEF Submit
  <2>2. RunPart' BY <2>1 DEF RunPart, Begun, PrototypeInv, CounterPart
  <2>3. CounterPart' BY <1>1, <2>1 DEF CounterPart, PrototypeInv, Counted
  <2>. QED BY <1>1, <1>2, <1>3, <2>2, <2>3 DEF PrototypeInv, MemoryStep
<1>5. CASE ~ GraphValid(work.graph, work.priority)
  <2>1. UNCHANGED <<run, counters>> BY <1>5 DEF Submit
  <2>2. RunPart' BY <2>1 DEF RunPart, Running, PrototypeInv
  <2>. QED BY <1>1, <1>2, <2>1, <2>2, NothingTouched
<1>. QED BY <1>4, <1>5

LEMMA HostAccessKeeps ==
  ASSUME PrototypeInv, HostAccess
  PROVE  PrototypeInv' /\ MemoryStep
<1>1. UNCHANGED <<run, counters, record>> BY DEF HostAccess, device
<1>2. RunPart' /\ RecordPart' BY <1>1 DEF PrototypeInv, RunPart, Running, RecordPart
<1>3. SUFFICES /\ GoodMemory(memory') /\ SameCounts(memory, memory')
               /\ Pages(memory) \subseteq Pages(memory')
               /\ memory'.next_physical >= memory.next_physical
  <2>1. memory.next_physical \in Nat /\ memory.migrations \in Nat
        /\ memory'.next_physical \in Nat
    BY <1>3 DEF PrototypeInv, MemoryPart, GoodMemory, MemoryValue
  <2>. QED BY <1>1, <1>2, <1>3, <2>1
       DEF PrototypeInv, MemoryPart, CounterPart, SameCounts, MemoryStep
<1>4. GoodMemory(memory) /\ memory.next_physical \in Nat
  BY DEF PrototypeInv, MemoryPart, GoodMemory, MemoryValue
<1>5. PICK p \in VirtualPages :
        \/ \E payload \in ContentsOf(p), size \in Sizes, tier \in Tier :
             MapPage(p, payload, size, tier)
        \/ MigrateToHost(p)
  BY DEF HostAccess
<1>6. ContentsOf(p) \subseteq Payloads
  BY PrototypeAssumption DEF ContentsOf
<1>7. CASE MigrateToHost(p)
  BY <1>4, <1>7, ToHostSound DEF MigrateToHost
<1>8. ASSUME NEW payload \in Payloads, NEW size \in Sizes, NEW tier \in Tier,
             MapPage(p, payload, size, tier)
      PROVE  /\ GoodMemory(memory') /\ SameCounts(memory, memory')
             /\ Pages(memory) \subseteq Pages(memory')
             /\ memory'.next_physical >= memory.next_physical
  <2>1. CASE tier = "local"
    BY <1>4, <1>8, <2>1, MapToLocalSound DEF MapPage
  <2>2. CASE tier # "local"
    BY <1>4, <1>8, <2>2, MapToHostSound DEF MapPage
  <2>. QED BY <2>1, <2>2
<1>. QED BY <1>5, <1>6, <1>7, <1>8

LEMMA DmaKeeps ==
  ASSUME PrototypeInv, Running, NEW i, ExecuteDma(i)
  PROVE  PrototypeInv' /\ MemoryStep
<1>. DEFINE p == PageOf(NodeAt(i).operand0)
            cycles == DMA_BASE_CYCLES + AccessCycles(memory, p)
<1>1. AccessCycles(memory, p) = PredictedCycles(p) BY DEF AccessCycles, PredictedCycles
<1>2. /\ p \in Pages(memory) /\ memory' = EnsureLocal(memory, p) /\ CountMigration(p)
      /\ run' = Executed(i, cycles, cycles, {}) /\ UNCHANGED record
  BY <1>1 DEF ExecuteDma
<1>. HIDE DEF p, cycles
<1>3. MemoryPart' /\ CounterPart' /\ MemoryStep
  BY <1>2, FetchKeeps DEF PrototypeInv
<1>4. RunPart' BY <1>2, ExecutedKeeps DEF PrototypeInv, RunPart
<1>5. RecordPart' BY <1>2 DEF PrototypeInv, RecordPart
<1>. QED BY <1>3, <1>4, <1>5 DEF PrototypeInv

LEMMA AttentionKeeps ==
  ASSUME PrototypeInv, Running, NEW i, ExecuteAttention(i)
  PROVE  PrototypeInv' /\ MemoryStep
<1>. DEFINE p == ATTENTION_PAGE
            payload == memory.pages[p].payload
            fixed == ATTENTION_BASE_CYCLES + Len(Contents[payload]) * ATTENTION_TOKEN_CYCLES
            cycles == fixed + AccessCycles(memory, p)
            word == model[payload].attention
            executed == Executed(i, cycles, cycles, word)
<1>1. AccessCycles(memory, p) = PredictedCycles(p) BY DEF AccessCycles, PredictedCycles
<1>2. /\ memory' = EnsureLocal(memory, p) /\ CountMigration(p)
      /\ run' = [executed EXCEPT !.attention = <<payload>>] /\ UNCHANGED record
  BY <1>1 DEF ExecuteAttention
<1>3. p \in Pages(memory) BY DEF PrototypeInv, MemoryPart
<1>. HIDE DEF p, payload, cycles, word
<1>4. MemoryPart' /\ CounterPart' /\ MemoryStep
  BY <1>2, <1>3, FetchKeeps DEF PrototypeInv
<1>5. /\ DOMAIN executed = DOMAIN run /\ executed.cycles = executed.predicted
      /\ executed.start_faults = executed.start_migrations
  BY ExecutedKeeps DEF PrototypeInv
<1>. HIDE DEF executed
<1>6. RunPart' BY <1>2, <1>5 DEF PrototypeInv, RunPart
<1>7. RecordPart' BY <1>2 DEF PrototypeInv, RecordPart
<1>. QED BY <1>4, <1>6, <1>7 DEF PrototypeInv

LEMMA NodeKeeps ==
  ASSUME PrototypeInv, Running, NEW i,
         ExecuteNop(i) \/ ExecuteTensor(i) \/ ExecuteComplete(i) \/ RefuseNode(i)
  PROVE  PrototypeInv' /\ MemoryStep
<1>1. CASE ExecuteNop(i)
  <2>1. run' = Executed(i, 0, 0, NodeAt(i).operand0)
        /\ UNCHANGED <<memory, counters, record>>
    BY <1>1 DEF ExecuteNop
  <2>2. RunPart' BY <2>1, ExecutedKeeps DEF PrototypeInv, RunPart
  <2>3. RecordPart' BY <2>1 DEF PrototypeInv, RecordPart
  <2>. QED BY <2>1, <2>2, <2>3, NothingTouched
<1>2. CASE ExecuteTensor(i)
  <2>. DEFINE word == model[run.attention[1]].projection
              executed == Executed(i, TENSOR_CYCLES, TENSOR_CYCLES, word)
  <2>1. run' = [executed EXCEPT !.output = model[run.attention[1]].output]
        /\ UNCHANGED <<memory, counters, record>>
    BY <1>2 DEF ExecuteTensor
  <2>. HIDE DEF word
  <2>2. /\ DOMAIN executed = DOMAIN run /\ executed.cycles = executed.predicted
        /\ executed.start_faults = executed.start_migrations
    BY ExecutedKeeps DEF PrototypeInv
  <2>. HIDE DEF executed
  <2>3. RunPart' BY <2>1, <2>2 DEF PrototypeInv, RunPart
  <2>4. RecordPart' BY <2>1 DEF PrototypeInv, RecordPart
  <2>. QED BY <2>1, <2>3, <2>4, NothingTouched
<1>3. CASE ExecuteComplete(i)
  <2>1. run' = Idle /\ UNCHANGED <<memory, counters>>
    BY <1>3 DEF ExecuteComplete, Finish
  <2>2. RunPart' BY <2>1 DEF RunPart, Running
  <2>3. record' =
          <<[request_id |-> run.request_id,
             cycles |-> run.cycles + NODE_SCHEDULER_CYCLES,
             predicted_cycles |-> run.predicted + NODE_SCHEDULER_CYCLES,
             output |-> run.output,
             page_faults |-> memory.page_faults - run.start_faults,
             migrations |-> memory.migrations - run.start_migrations]>>
    BY <1>3 DEF ExecuteComplete
  <2>4. RecordPart'
    BY <2>3 DEF PrototypeInv, RunPart, CounterPart, RecordPart, Range
  <2>. QED BY <2>1, <2>2, <2>4, NothingTouched
<1>4. CASE RefuseNode(i)
  <2>1. run' = Idle /\ UNCHANGED <<memory, counters, record>>
    BY <1>4 DEF RefuseNode, Finish
  <2>2. RunPart' BY <2>1 DEF RunPart, Running
  <2>3. RecordPart' BY <2>1 DEF PrototypeInv, RecordPart
  <2>. QED BY <2>1, <2>2, <2>3, NothingTouched
<1>. QED BY <1>1, <1>2, <1>3, <1>4

LEMMA GraphStepKeeps ==
  ASSUME PrototypeInv, GraphStep
  PROVE  PrototypeInv' /\ MemoryStep
<1>1. CASE NothingReady
  <2>1. run' = Idle /\ UNCHANGED <<memory, counters, record>>
    BY <1>1 DEF NothingReady, Finish
  <2>2. RunPart' BY <2>1 DEF RunPart, Running
  <2>3. RecordPart' BY <2>1 DEF PrototypeInv, RecordPart
  <2>. QED BY <2>1, <2>2, <2>3, NothingTouched
<1>2. CASE ~ NothingReady
  <2>1. PICK i \in IF Running THEN FirstReadyIn(run.graph, run) ELSE {} :
          \/ ExecuteNop(i) \/ ExecuteDma(i) \/ ExecuteAttention(i)
          \/ ExecuteTensor(i) \/ ExecuteComplete(i) \/ RefuseNode(i)
    BY <1>2 DEF GraphStep
  <2>2. Running BY <2>1
  <2>. QED BY <2>1, <2>2, DmaKeeps, AttentionKeeps, NodeKeeps
<1>. QED BY <1>1, <1>2

LEMMA HarnessKeeps ==
  ASSUME PrototypeInv, UNCHANGED <<memory, device>>
  PROVE  PrototypeInv' /\ MemoryStep
<1>1. UNCHANGED <<memory, counters, run, record>> BY DEF device
<1>2. RunPart' /\ RecordPart' BY <1>1 DEF PrototypeInv, RunPart, Running, RecordPart
<1>. QED BY <1>1, <1>2, NothingTouched

LEMMA StepKeeps ==
  ASSUME PrototypeInv, [Next]_vars
  PROVE  PrototypeInv' /\ MemoryStep
<1>1. CASE SubmitGraph
  BY <1>1, SubmitKeeps DEF SubmitGraph
<1>2. CASE SubmitToken
  BY <1>2, SubmitKeeps DEF SubmitToken
<1>3. CASE HostAccess
  BY <1>3, HostAccessKeeps
<1>4. CASE GraphStep
  BY <1>4, GraphStepKeeps
<1>5. CASE NextRequest \/ CollectToken
  BY <1>5, HarnessKeeps DEF NextRequest, CollectToken
<1>6. CASE UNCHANGED vars
  BY <1>6, HarnessKeeps DEF vars
<1>. QED BY <1>1, <1>2, <1>3, <1>4, <1>5, <1>6 DEF Next

LEMMA InitGood ==
  ASSUME Init
  PROVE  PrototypeInv
<1>1. PICK payload \in Payloads, size \in Sizes :
        memory = MapToHost(EmptyMemory, ATTENTION_PAGE, payload, size)
  BY DEF Init
<1>2. GoodMemory(EmptyMemory)
  <2>. DEFINE none == [p \in {} |-> 0]
  <2>1. none \in [{} -> Page] OBVIOUS
  <2>2. none \in UNION {[S -> Page] : S \in SUBSET VirtualPages} BY <2>1
  <2>3. DOMAIN none = {} OBVIOUS
  <2>4. EmptyMemory = [pages |-> none, next_physical |-> 0, page_faults |-> 0,
                       migrations |-> 0, bytes_migrated |-> 0]
    BY DEF EmptyMemory
  <2>. HIDE DEF none
  <2>5. EmptyMemory \in MemoryValue BY <2>2, <2>4 DEF MemoryValue
  <2>6. Pages(EmptyMemory) = {} BY <2>3, <2>4 DEF Pages
  <2>7. Local(EmptyMemory) = {} BY <2>6 DEF Local
  <2>. QED BY <2>5, <2>6, <2>7, FS_EmptySet, MemoryAssumption DEF GoodMemory
<1>3. /\ GoodMemory(memory) /\ SameCounts(EmptyMemory, memory)
      /\ ATTENTION_PAGE \in Pages(memory) /\ memory.next_physical = 0
  BY <1>1, <1>2, MapToHostSound, PrototypeAssumption DEF EmptyMemory
<1>4. memory.page_faults = 0 /\ memory.migrations = 0
  BY <1>3 DEF SameCounts, EmptyMemory
<1>5. CounterPart BY <1>3, <1>4 DEF Init, CounterPart
<1>6. RunPart /\ RecordPart BY DEF Init, RunPart, Running, RecordPart, Range
<1>. QED BY <1>3, <1>5, <1>6 DEF PrototypeInv, MemoryPart

LEMMA Invariance == Spec => []PrototypeInv
<1>1. PrototypeInv /\ [Next]_vars => PrototypeInv' BY StepKeeps
<1>. QED BY InitGood, <1>1, PTL DEF Spec

-----------------------------------------------------------------------------
(* The theorems *)

\* The local tier never holds more pages than fit, and no two share a physical
\* page (map_page, ensure_local, migrate_to_host).
THEOREM MemorySound == Spec => []ResidencySound
<1>1. PrototypeInv => ResidencySound
  BY DEF PrototypeInv, MemoryPart, GoodMemory, ResidencySound
<1>. QED BY <1>1, Invariance, PTL

\* Every page fault is one migration, counted as a fault and as recovered, and
\* a graph costs what was predicted of it, whatever was refused half-way
\* (_execute_graph, ensure_local).
THEOREM FaultsAccounted == Spec => []FaultsAccountedFor
<1>1. PrototypeInv => FaultsAccountedFor
  BY DEF PrototypeInv, CounterPart, RecordPart, FaultsAccountedFor
<1>. QED BY <1>1, Invariance, PTL

\* A page fault brings in the page that was asked for, sends at most one other
\* away, and only for want of room, and changes no other page (ensure_local).
THEOREM FaultIsExchange == Spec => MigrationIsExchange
<1>. DEFINE arrived == Local(memory') \ Local(memory)
            left == Local(memory) \ Local(memory')
            exchange ==
              /\ Cardinality(arrived) = 1 /\ Cardinality(left) <= 1
              /\ left # {} => LocalFull(memory)
              /\ \A p \in Pages(memory) :
                   /\ memory'.pages[p].payload = memory.pages[p].payload
                   /\ memory'.pages[p].size_bytes = memory.pages[p].size_bytes
                   /\ p \notin arrived \cup left => memory'.pages[p] = memory.pages[p]
<1>1. ASSUME NEW p, Exchanged(memory, memory', p)
      PROVE  exchange
  <2>1. arrived = {p} BY <1>1 DEF Exchanged
  <2>2. PICK victim : left \subseteq {victim} BY <1>1 DEF Exchanged
  <2>3. Cardinality(arrived) = 1 BY <2>1, FS_Singleton
  <2>4. IsFiniteSet({victim}) /\ Cardinality({victim}) = 1 BY FS_Singleton
  <2>5. left \in SUBSET {victim} BY <2>2
  <2>6. Cardinality(left) <= 1 BY <2>4, <2>5, FS_Subset
  <2>. QED BY <1>1, <2>1, <2>3, <2>6 DEF Exchanged
<1>2. ASSUME PrototypeInv, MemoryStep, memory' # memory
      PROVE  memory'.migrations > memory.migrations => exchange
  <2>1. memory.migrations \in Nat
    BY <1>2 DEF PrototypeInv, MemoryPart, GoodMemory, MemoryValue
  <2>2. CASE SameCounts(memory, memory')
    BY <2>1, <2>2 DEF SameCounts
  <2>3. CASE \E p : Exchanged(memory, memory', p)
    BY <1>1, <2>3
  <2>. QED BY <1>2, <2>2, <2>3 DEF MemoryStep
<1>3. PrototypeInv /\ [Next]_vars
        => [memory'.migrations > memory.migrations => exchange]_memory
  BY <1>2, StepKeeps
<1>4. Spec => [][memory'.migrations > memory.migrations => exchange]_memory
  BY <1>3, Invariance, PTL DEF Spec
<1>. QED BY <1>4 DEF MigrationIsExchange
-----------------------------------------------------------------------------
(* The trace *)

ToyWork == [graph |-> ToyGraph({0}), priority |-> 0]
AttentionPage == memory.pages[ATTENTION_PAGE]
Resident == ResidentToyCycles(AttentionPage.payload)
Extra == MigrationCycles(AttentionPage.size_bytes) - LocalReadCycles

\* What the first k nodes of a toy graph cost on resident pages.
SpentAfter(k) ==
  LET reading == Len(Contents[AttentionPage.payload]) * ATTENTION_TOKEN_CYCLES
  IN  CASE k = 0 -> 0
        [] k = 1 -> NODE_SCHEDULER_CYCLES + DMA_BASE_CYCLES + LocalReadCycles
        [] k = 2 -> 2 * NODE_SCHEDULER_CYCLES + DMA_BASE_CYCLES + ATTENTION_BASE_CYCLES
                      + reading + 2 * LocalReadCycles
        [] k = 3 -> 3 * NODE_SCHEDULER_CYCLES + DMA_BASE_CYCLES + ATTENTION_BASE_CYCLES
                      + reading + TENSOR_CYCLES + 2 * LocalReadCycles

\* The migration is paid by the first graph, and the page stays.
Paid(cycles, resident) ==
  cycles = resident \/ (report.graphs = 0 /\ cycles = resident + Extra)

\* The toy graph under way has executed its first k nodes.
ToyStage(k) ==
  /\ run.graph = ToyGraph({0}) /\ run.priority = 0
  /\ run.executed = 1 .. k /\ run.complete_mask = 0 .. k - 1
  /\ Paid(run.cycles, SpentAfter(k))
  /\ k = 0 => run.cycles = 0
  /\ k > 0 \/ report.graphs > 0 => AttentionPage.tier = "local"
  /\ k > 1 => run.attention # <<>>

\* Answers are of requests submitted before, the graph under way is the last.
IdsInOrder ==
  /\ next_request_id \in Nat \ {0}
  /\ \A c \in Range(completion) : c.request_id \in 1 .. next_request_id - 1
  /\ Running => /\ run.request_id = next_request_id - 1 /\ run.request_id > 0
                /\ \A c \in Range(completion) : c.request_id < run.request_id

\* Tokens are only used up.
TokensLeft ==
  /\ DOMAIN report = {"tokens", "waits_for", "graphs", "measured", "predicted"}
  /\ report.tokens \in Seq(Nat) /\ report.graphs \in Nat
  /\ Len(report.tokens) <= Len(TraceTokens)
  /\ Len(report.tokens) = Len(TraceTokens) /\ TraceTokens # <<>>
       => Head(report.tokens) + report.graphs = Head(TraceTokens)
  /\ report.waits_for # 0 => report.tokens # <<>> /\ Head(report.tokens) > 0

\* The token that is waited for is made by a toy graph, or was.
Made ==
  /\ AttentionPage.tier = "local"
  /\ \A c \in Range(completion) : c.status = "OK"
  /\ \A r \in Range(record) : Paid(r.cycles, Resident)
TokenUnderWay ==
  /\ Running /\ report.waits_for = 0 => ~ InTrace
  /\ report.waits_for # 0 =>
       /\ report.waits_for = next_request_id - 1
       /\ Running => \E k \in 0 .. 3 : ToyStage(k)
       /\ ~ Running => Made

Totals ==
  /\ report.measured = report.predicted
  /\ report.graphs = 0 => report.measured = 0
  /\ InTrace /\ report.graphs > 0 =>
       /\ AttentionPage.tier = "local"
       /\ report.measured \in {report.graphs * Resident, report.graphs * Resident + Extra}

TraceInv == IdsInOrder /\ TokensLeft /\ TokenUnderWay /\ Totals

\* The DMA node of a toy graph asks for page 1: a sum over one bit.
LEMMA FirstPage == PageOf({0}) = ATTENTION_PAGE
<1>. DEFINE S == {0}
            chosen(s) == CHOOSE x \in s : TRUE
            body(f, s) == IF s = {} THEN 0 ELSE 2 ^ chosen(s) + f[s \ {chosen(s)}]
            iter == CHOOSE f : f = [s \in SUBSET S |-> body(f, s)]
            sum == [s \in SUBSET S |-> IF s = {} THEN 0 ELSE 1]
<1>1. chosen(S) = 0 BY DEF S
<1>2. SUBSET S = {{}, S} BY DEF S
<1>3. 2 ^ 0 = 1 OBVIOUS
<1>4. S \ {0} = {} /\ S # {} BY DEF S
<1>. HIDE DEF S, chosen
<1>5. ASSUME NEW f, f[{}] = 0
      PROVE  body(f, {}) = 0 /\ body(f, S) = 1
  <2>1. body(f, {}) = 0 OBVIOUS
  <2>2. body(f, S) = 2 ^ 0 + f[{}] BY <1>1, <1>4
  <2>. QED BY <2>1, <2>2, <1>3, <1>5
<1>6. sum[{}] = 0 BY <1>2
<1>7. ASSUME NEW s \in SUBSET S PROVE sum[s] = body(sum, s)
  <2>1. CASE s = {} BY <2>1, <1>5, <1>6
  <2>2. CASE s = S BY <2>2, <1>4, <1>5, <1>6
  <2>. QED BY <2>1, <2>2, <1>2
<1>8. sum = [s \in SUBSET S |-> body(sum, s)]
  BY <1>7
<1>9. iter = [s \in SUBSET S |-> body(iter, s)]
  BY <1>8
<1>10. ASSUME NEW s \in SUBSET S PROVE iter[s] = body(iter, s)
  BY <1>9
<1>11. iter[{}] = 0 BY <1>10, <1>2
<1>. HIDE DEF iter
<1>12. iter[S] = 1 BY <1>10, <1>11, <1>5
<1>. QED
  BY <1>12 DEF PageOf, MapThenSumSet, MapThenFoldSet, iter, body, chosen, S, ATTENTION_PAGE

\* The nodes of a toy graph are executed one after the other.
LEMMA ToyOrder ==
  ASSUME NEW k \in 0 .. 3, NEW r, r.executed = 1 .. k, r.complete_mask = 0 .. k - 1
  PROVE  FirstReadyIn(ToyGraph({0}), r) = {k + 1}
<1>. DEFINE graph == ToyGraph({0})
<1>1. /\ DOMAIN graph = 1 .. 4
      /\ graph[1].node_id = 0 /\ graph[1].dependencies = {}
      /\ graph[2].node_id = 1 /\ graph[2].dependencies = {0}
      /\ graph[3].node_id = 2 /\ graph[3].dependencies = {1}
      /\ graph[4].node_id = 3 /\ graph[4].dependencies = {2}
  BY DEF ToyGraph, Node
<1>. HIDE DEF graph
<1>2. ASSUME NEW i \in 1 .. 4
      PROVE  i \in ReadyIn(graph, r) <=> i = k + 1
  <2>1. i \in ReadyIn(graph, r) <=> /\ i \notin 1 .. k
                                  /\ graph[i].node_id <= 7
                                  /\ graph[i].dependencies \subseteq 0 .. k - 1
    BY <1>1 DEF ReadyIn
  <2>2. CASE i = 1 BY <1>1, <2>1, <2>2
  <2>3. CASE i = 2 BY <1>1, <2>1, <2>3
  <2>4. CASE i = 3
    <3>1. graph[i].node_id <= 7 /\ graph[i].dependencies = {1} BY <1>1, <2>4
    <3>2. {1} \subseteq 0 .. k - 1 <=> 1 \in 0 .. k - 1 OBVIOUS
    <3>3. i \in ReadyIn(graph, r) <=> i \notin 1 .. k /\ 1 \in 0 .. k - 1
      BY <2>1, <3>1, <3>2
    <3>. QED BY <2>4, <3>3
  <2>5. CASE i = 4 BY <1>1, <2>1, <2>5
  <2>. QED BY <2>2, <2>3, <2>4, <2>5
<1>3. ReadyIn(graph, r) \subseteq 1 .. 4 BY <1>1 DEF ReadyIn
<1>4. k + 1 \in 1 .. 4 OBVIOUS
<1>5. ReadyIn(graph, r) = {k + 1} BY <1>2, <1>3, <1>4
<1>. QED BY <1>5 DEF graph, FirstReadyIn

\* A page that is fetched is local, and what it was.
LEMMA FetchBrings ==
  ASSUME GoodMemory(memory), NEW p \in Pages(memory), memory' = EnsureLocal(memory, p)
  PROVE  /\ memory'.pages[p].tier = "local"
         /\ memory'.pages[p].payload = memory.pages[p].payload
         /\ memory'.pages[p].size_bytes = memory.pages[p].size_bytes
<1>1. CASE memory.pages[p].tier = "local"
  BY <1>1 DEF EnsureLocal
<1>2. CASE memory.pages[p].tier # "local"
  <2>1. memory' = Migrated(memory, p) BY <1>2 DEF EnsureLocal
  <2>2. p \notin Local(memory) BY <1>2 DEF Local
  <2>3. Exchanged(memory, memory', p) BY <2>1, <2>2, MigratedSound
  <2>. QED BY <2>3 DEF Exchanged, Local
<1>. QED BY <1>1, <1>2

\* What a toy graph costs, in numbers.
LEMMA Costs ==
  ASSUME GoodMemory(memory), ATTENTION_PAGE \in Pages(memory)
  PROVE  /\ Resident \in Nat /\ Extra \in Int
         /\ Len(Contents[AttentionPage.payload]) \in Nat
         /\ LocalReadCycles \in Nat
         /\ MigrationCycles(AttentionPage.size_bytes) \in Nat
<1>1. AttentionPage \in Page BY PageValue DEF GoodMemory, AttentionPage
<1>2. AttentionPage.payload \in Payloads /\ AttentionPage.size_bytes \in Nat
  BY <1>1, MemoryAssumption DEF Page
<1>3. Len(Contents[AttentionPage.payload]) \in Nat
  BY <1>2, PrototypeAssumption
<1>. HIDE DEF AttentionPage
<1>4. MigrationCycles(AttentionPage.size_bytes) \in Nat
  BY <1>2, MemoryAssumption DEF MigrationCycles
<1>5. Resident \in Nat
  <2>. DEFINE tokens == Len(Contents[AttentionPage.payload])
  <2>1. Resident = 4 * 2 + 6 + 9 + tokens * 3 + 12 + 2 * LocalReadCycles
    BY DEF Resident, ResidentToyCycles, NODE_SCHEDULER_CYCLES, DMA_BASE_CYCLES,
       ATTENTION_BASE_CYCLES, ATTENTION_TOKEN_CYCLES, TENSOR_CYCLES
  <2>2. tokens \in Nat /\ LocalReadCycles \in Nat BY <1>3, MemoryAssumption
  <2>. HIDE DEF tokens
  <2>. QED BY <2>1, <2>2
<1>. QED BY <1>3, <1>4, <1>5, MemoryAssumption DEF Extra

\* Page 1 keeps its content, and so its prices.
SamePage ==
  /\ AttentionPage'.payload = AttentionPage.payload
  /\ AttentionPage'.size_bytes = AttentionPage.size_bytes

LEMMA ToyExecuted ==
  ASSUME RunPart, Running, NEW k \in 0 .. 2, ToyStage(k), NEW cycles, NEW word
  PROVE  LET n == Executed(k + 1, cycles, cycles, word)
         IN  /\ n.graph = ToyGraph({0}) /\ n.priority = 0
             /\ n.request_id = run.request_id /\ n.attention = run.attention
             /\ n.executed = 1 .. k + 1 /\ n.complete_mask = 0 .. k
             /\ n.cycles = run.cycles + NODE_SCHEDULER_CYCLES + cycles
             /\ DOMAIN n = DOMAIN run
<1>. DEFINE n == Executed(k + 1, cycles, cycles, word)
<1>1. /\ run.graph[1].node_id = 0 /\ run.graph[2].node_id = 1 /\ run.graph[3].node_id = 2
  BY DEF ToyStage, ToyGraph, Node
<1>2. /\ n.graph = run.graph /\ n.priority = run.priority
      /\ n.request_id = run.request_id /\ n.attention = run.attention
      /\ n.executed = run.executed \cup {k + 1}
      /\ n.complete_mask = run.complete_mask \cup {run.graph[k + 1].node_id}
      /\ n.cycles = run.cycles + NODE_SCHEDULER_CYCLES + cycles
      /\ DOMAIN n = DOMAIN run
  BY DEF Executed, RunPart, NodeAt
<1>. HIDE DEF n
<1>3. run.graph[k + 1].node_id = k BY <1>1
<1>4. run.executed \cup {k + 1} = 1 .. k + 1 BY DEF ToyStage
<1>5. run.complete_mask \cup {k} = 0 .. k BY DEF ToyStage
<1>. QED BY <1>2, <1>3, <1>4, <1>5 DEF ToyStage, n

LEMMA StillRunning ==
  ASSUME RunPart, Running, DOMAIN run' = DOMAIN run
  PROVE  Running'
<1>1. "graph" \in DOMAIN run' BY DEF RunPart
<1>2. run' # <<>> BY <1>1
<1>. QED BY <1>2 DEF Running, Idle

LEMMA ToyDma ==
  ASSUME PrototypeInv, Running, ToyStage(0), report.graphs \in Nat, UNCHANGED report,
         ExecuteDma(1)
  PROVE  Running' /\ ToyStage(1)' /\ run'.request_id = run.request_id /\ SamePage
<1>. DEFINE cycles == DMA_BASE_CYCLES + AccessCycles(memory, ATTENTION_PAGE)
<1>1. PageOf(NodeAt(1).operand0) = ATTENTION_PAGE
  BY FirstPage DEF ToyStage, NodeAt, ToyGraph, Node
<1>2. AccessCycles(memory, ATTENTION_PAGE) = PredictedCycles(ATTENTION_PAGE)
  BY DEF AccessCycles, PredictedCycles
<1>3. /\ memory' = EnsureLocal(memory, ATTENTION_PAGE)
      /\ run' = Executed(0 + 1, cycles, cycles, {})
  BY <1>1, <1>2 DEF ExecuteDma
<1>4. GoodMemory(memory) /\ ATTENTION_PAGE \in Pages(memory) /\ RunPart
  BY DEF PrototypeInv, MemoryPart
<1>5. SamePage /\ AttentionPage'.tier = "local"
  BY <1>3, <1>4, FetchBrings DEF SamePage, AttentionPage
<1>6. cycles = DMA_BASE_CYCLES + LocalReadCycles
      \/ (report.graphs = 0 /\ cycles = DMA_BASE_CYCLES + LocalReadCycles + Extra)
  <2>1. CASE AttentionPage.tier = "local"
    BY <2>1 DEF AccessCycles, AttentionPage
  <2>2. CASE AttentionPage.tier # "local"
    <3>1. report.graphs = 0 BY <2>2 DEF ToyStage
    <3>2. cycles = DMA_BASE_CYCLES + MigrationCycles(AttentionPage.size_bytes)
      BY <2>2 DEF AccessCycles, AttentionPage
    <3>. QED BY <1>4, <3>1, <3>2, Costs DEF Extra, DMA_BASE_CYCLES
  <2>. QED BY <2>1, <2>2
<1>. HIDE DEF cycles
<1>7. /\ run'.graph = ToyGraph({0}) /\ run'.priority = 0
      /\ run'.request_id = run.request_id
      /\ run'.executed = 1 .. 1 /\ run'.complete_mask = 0 .. 0
      /\ run'.cycles = run.cycles + NODE_SCHEDULER_CYCLES + cycles
      /\ DOMAIN run' = DOMAIN run
  BY <1>3, <1>4, ToyExecuted
<1>8. Running' BY <1>4, <1>7, StillRunning
<1>9. run.cycles = 0 BY DEF ToyStage
<1>10. Paid(run'.cycles, SpentAfter(1))
  BY <1>4, <1>6, <1>7, <1>9, Costs
     DEF Paid, SpentAfter, NODE_SCHEDULER_CYCLES, DMA_BASE_CYCLES
<1>11. Paid(run.cycles, SpentAfter(1))'
  BY <1>5, <1>10 DEF SamePage, Paid, SpentAfter, Extra, MigrationCycles
<1>. QED BY <1>5, <1>7, <1>8, <1>11 DEF ToyStage

LEMMA ToyAttention ==
  ASSUME PrototypeInv, Running, ToyStage(1), report.graphs \in Nat, UNCHANGED report,
         ExecuteAttention(2)
  PROVE  Running' /\ ToyStage(2)' /\ run'.request_id = run.request_id /\ SamePage
<1>. DEFINE payload == AttentionPage.payload
            reading == Len(Contents[payload]) * ATTENTION_TOKEN_CYCLES
            cycles == ATTENTION_BASE_CYCLES + reading + LocalReadCycles
            n == Executed(1 + 1, cycles, cycles, model[payload].attention)
<1>1. AttentionPage.tier = "local" BY DEF ToyStage
<1>2. /\ AccessCycles(memory, ATTENTION_PAGE) = LocalReadCycles
      /\ PredictedCycles(ATTENTION_PAGE) = LocalReadCycles
  BY <1>1 DEF AccessCycles, PredictedCycles, AttentionPage
<1>3. /\ memory' = EnsureLocal(memory, ATTENTION_PAGE)
      /\ run' = [n EXCEPT !.attention = <<payload>>]
  BY <1>2 DEF ExecuteAttention, AttentionPage
<1>4. GoodMemory(memory) /\ ATTENTION_PAGE \in Pages(memory) /\ RunPart
  BY DEF PrototypeInv, MemoryPart
<1>5. SamePage /\ AttentionPage'.tier = "local"
  BY <1>3, <1>4, FetchBrings DEF SamePage, AttentionPage
<1>6. /\ n.graph = ToyGraph({0}) /\ n.priority = 0
      /\ n.request_id = run.request_id
      /\ n.executed = 1 .. 2 /\ n.complete_mask = 0 .. 1
      /\ n.cycles = run.cycles + NODE_SCHEDULER_CYCLES + cycles
      /\ DOMAIN n = DOMAIN run
  BY <1>4, ToyExecuted
<1>. HIDE DEF n
<1>7. /\ run'.graph = ToyGraph({0}) /\ run'.priority = 0
      /\ run'.request_id = run.request_id
      /\ run'.executed = 1 .. 2 /\ run'.complete_mask = 0 .. 1
      /\ run'.cycles = run.cycles + NODE_SCHEDULER_CYCLES + cycles
      /\ run'.attention = <<payload>> /\ DOMAIN run' = DOMAIN run
  BY <1>3, <1>4, <1>6 DEF RunPart
<1>8. Running' BY <1>4, <1>7, StillRunning
<1>9. Paid(run.cycles, SpentAfter(1)) BY DEF ToyStage
<1>10. reading \in Nat BY <1>4, Costs DEF ATTENTION_TOKEN_CYCLES
<1>11. SpentAfter(2) = SpentAfter(1) + NODE_SCHEDULER_CYCLES + cycles
       /\ SpentAfter(1) \in Nat /\ cycles \in Nat
  <2>1. SpentAfter(2) = 2 * NODE_SCHEDULER_CYCLES + DMA_BASE_CYCLES
                          + ATTENTION_BASE_CYCLES + reading + 2 * LocalReadCycles
    BY DEF SpentAfter
  <2>2. SpentAfter(1) = NODE_SCHEDULER_CYCLES + DMA_BASE_CYCLES + LocalReadCycles
    BY DEF SpentAfter
  <2>3. NODE_SCHEDULER_CYCLES \in Nat /\ DMA_BASE_CYCLES \in Nat
        /\ ATTENTION_BASE_CYCLES \in Nat /\ LocalReadCycles \in Nat
    BY <1>4, Costs DEF NODE_SCHEDULER_CYCLES, DMA_BASE_CYCLES, ATTENTION_BASE_CYCLES
  <2>4. cycles = ATTENTION_BASE_CYCLES + reading + LocalReadCycles OBVIOUS
  <2>. HIDE DEF reading, cycles
  <2>. QED BY <1>10, <2>1, <2>2, <2>3, <2>4
<1>. HIDE DEF cycles
<1>12. Paid(run'.cycles, SpentAfter(2))
  BY <1>4, <1>7, <1>9, <1>11, Costs DEF Paid, NODE_SCHEDULER_CYCLES
<1>13. Paid(run.cycles, SpentAfter(2))'
  BY <1>5, <1>12 DEF SamePage, Paid, SpentAfter, Extra, MigrationCycles
<1>14. run'.attention # <<>> BY <1>7
<1>. QED BY <1>5, <1>7, <1>8, <1>13, <1>14 DEF ToyStage

LEMMA ToyTensor ==
  ASSUME PrototypeInv, Running, ToyStage(2), report.graphs \in Nat, UNCHANGED report,
         ExecuteTensor(3)
  PROVE  Running' /\ ToyStage(3)' /\ run'.request_id = run.request_id /\ SamePage
<1>. DEFINE word == model[run.attention[1]].projection
            n == Executed(2 + 1, TENSOR_CYCLES, TENSOR_CYCLES, word)
<1>1. /\ UNCHANGED memory
      /\ run' = [n EXCEPT !.output = model[run.attention[1]].output]
  BY DEF ExecuteTensor
<1>2. GoodMemory(memory) /\ ATTENTION_PAGE \in Pages(memory) /\ RunPart
  BY DEF PrototypeInv, MemoryPart
<1>3. SamePage /\ AttentionPage' = AttentionPage BY <1>1 DEF SamePage, AttentionPage
<1>4. /\ n.graph = ToyGraph({0}) /\ n.priority = 0
      /\ n.request_id = run.request_id /\ n.attention = run.attention
      /\ n.executed = 1 .. 3 /\ n.complete_mask = 0 .. 2
      /\ n.cycles = run.cycles + NODE_SCHEDULER_CYCLES + TENSOR_CYCLES
      /\ DOMAIN n = DOMAIN run
  BY <1>2, ToyExecuted
<1>. HIDE DEF n
<1>5. /\ run'.graph = ToyGraph({0}) /\ run'.priority = 0
      /\ run'.request_id = run.request_id /\ run'.attention = run.attention
      /\ run'.executed = 1 .. 3 /\ run'.complete_mask = 0 .. 2
      /\ run'.cycles = run.cycles + NODE_SCHEDULER_CYCLES + TENSOR_CYCLES
      /\ DOMAIN run' = DOMAIN run
  BY <1>1, <1>2, <1>4 DEF RunPart
<1>6. Running' BY <1>2, <1>5, StillRunning
<1>7. Paid(run.cycles, SpentAfter(2)) BY DEF ToyStage
<1>8. SpentAfter(3) = SpentAfter(2) + NODE_SCHEDULER_CYCLES + TENSOR_CYCLES
      /\ SpentAfter(2) \in Nat
  <2>. DEFINE reading == Len(Contents[AttentionPage.payload]) * ATTENTION_TOKEN_CYCLES
  <2>1. SpentAfter(3) = 3 * NODE_SCHEDULER_CYCLES + DMA_BASE_CYCLES + ATTENTION_BASE_CYCLES
                          + reading + TENSOR_CYCLES + 2 * LocalReadCycles
    BY DEF SpentAfter
  <2>2. SpentAfter(2) = 2 * NODE_SCHEDULER_CYCLES + DMA_BASE_CYCLES + ATTENTION_BASE_CYCLES
                          + reading + 2 * LocalReadCycles
    BY DEF SpentAfter
  <2>3. reading \in Nat BY <1>2, Costs DEF ATTENTION_TOKEN_CYCLES
  <2>. HIDE DEF reading
  <2>. QED BY <1>2, <2>1, <2>2, <2>3, Costs DEF NODE_SCHEDULER_CYCLES,
       DMA_BASE_CYCLES, ATTENTION_BASE_CYCLES, TENSOR_CYCLES
<1>9. Paid(run'.cycles, SpentAfter(3))
  BY <1>2, <1>5, <1>7, <1>8, Costs DEF Paid, NODE_SCHEDULER_CYCLES, TENSOR_CYCLES
<1>10. Paid(run.cycles, SpentAfter(3))'
  BY <1>3, <1>9 DEF SamePage, Paid, SpentAfter, Extra, MigrationCycles
<1>11. AttentionPage'.tier = "local" /\ run'.attention # <<>>
  BY <1>3, <1>5 DEF ToyStage
<1>. QED BY <1>3, <1>5, <1>6, <1>10, <1>11 DEF ToyStage

LEMMA ToyComplete ==
  ASSUME PrototypeInv, Running, ToyStage(3), report.graphs \in Nat, UNCHANGED report,
         ExecuteComplete(4)
  PROVE  ~ Running' /\ Made' /\ SamePage
<1>1. /\ UNCHANGED memory /\ run' = <<>>
      /\ \A c \in Range(completion') : c.status = "OK"
      /\ \A r \in Range(record') : r.cycles = run.cycles + NODE_SCHEDULER_CYCLES
  BY DEF ExecuteComplete, Finish, Idle, Answer, Outcome, Range
<1>2. GoodMemory(memory) /\ ATTENTION_PAGE \in Pages(memory)
  BY DEF PrototypeInv, MemoryPart
<1>3. SamePage /\ AttentionPage' = AttentionPage BY <1>1 DEF SamePage, AttentionPage
<1>4. Paid(run.cycles, SpentAfter(3)) BY DEF ToyStage
<1>5. Resident = SpentAfter(3) + NODE_SCHEDULER_CYCLES /\ SpentAfter(3) \in Nat
  <2>. DEFINE reading == Len(Contents[AttentionPage.payload]) * ATTENTION_TOKEN_CYCLES
  <2>1. SpentAfter(3) = 3 * NODE_SCHEDULER_CYCLES + DMA_BASE_CYCLES + ATTENTION_BASE_CYCLES
                          + reading + TENSOR_CYCLES + 2 * LocalReadCycles
    BY DEF SpentAfter
  <2>2. Resident = 4 * NODE_SCHEDULER_CYCLES + DMA_BASE_CYCLES + ATTENTION_BASE_CYCLES
                     + reading + TENSOR_CYCLES + 2 * LocalReadCycles
    BY DEF Resident, ResidentToyCycles
  <2>3. reading \in Nat BY <1>2, Costs DEF ATTENTION_TOKEN_CYCLES
  <2>. HIDE DEF reading
  <2>. QED BY <1>2, <2>1, <2>2, <2>3, Costs DEF NODE_SCHEDULER_CYCLES,
       DMA_BASE_CYCLES, ATTENTION_BASE_CYCLES, TENSOR_CYCLES
<1>6. Paid(run.cycles + NODE_SCHEDULER_CYCLES, Resident)
  BY <1>2, <1>4, <1>5, Costs DEF Paid, NODE_SCHEDULER_CYCLES
<1>7. Resident' = Resident /\ Extra' = Extra
  BY <1>3 DEF Resident, ResidentToyCycles, Extra, MigrationCycles
<1>8. \A r \in Range(record') : Paid(r.cycles, Resident)'
  BY <1>1, <1>6, <1>7 DEF Paid
<1>9. AttentionPage'.tier = "local" BY <1>3 DEF ToyStage
<1>. QED BY <1>1, <1>3, <1>8, <1>9 DEF Made, Running, Idle

\* The node that is executed is the next one of the toy graph, and it is not
\* refused: page 1 is mapped, and attention came before the projection.
LEMMA ToyGoesOn ==
  ASSUME PrototypeInv, Running, NEW k \in 0 .. 3, ToyStage(k), report.graphs \in Nat,
         UNCHANGED report, GraphStep
  PROVE  /\ SamePage
         /\ \/ Running' /\ ToyStage(k + 1)' /\ k < 3
            \/ ~ Running' /\ Made'
<1>1. FirstReadyIn(run.graph, run) = {k + 1}
  BY ToyOrder DEF ToyStage
<1>2. k + 1 \in ReadyIn(run.graph, run)
  BY <1>1 DEF FirstReadyIn
<1>3. \/ ExecuteNop(k + 1) \/ ExecuteDma(k + 1) \/ ExecuteAttention(k + 1)
      \/ ExecuteTensor(k + 1) \/ ExecuteComplete(k + 1) \/ RefuseNode(k + 1)
  BY <1>1, <1>2 DEF GraphStep, NothingReady
<1>4. /\ NodeAt(1).opcode = "DMA" /\ NodeAt(1).operand0 = {0}
      /\ NodeAt(2).opcode = "ATTENTION" /\ NodeAt(3).opcode = "TENSOR"
      /\ NodeAt(3).flags = GRAPH_FLAG_TENSOR_USE_PREVIOUS /\ NodeAt(4).opcode = "COMPLETE"
  BY DEF ToyStage, ToyGraph, Node, NodeAt
<1>5. CASE k = 0
  <2>1. ~ RefuseNode(1)
    BY <1>4, FirstPage DEF RefuseNode, PrototypeInv, MemoryPart
  <2>2. ExecuteDma(1)
    BY <1>3, <1>4, <1>5, <2>1 DEF ExecuteNop, ExecuteAttention, ExecuteTensor, ExecuteComplete
  <2>3. Running' /\ ToyStage(1)' /\ SamePage BY <1>5, <2>2, ToyDma
  <2>. QED BY <1>5, <2>3
<1>6. CASE k = 1
  <2>1. ExecuteAttention(2)
    BY <1>3, <1>4, <1>6 DEF ExecuteNop, ExecuteDma, ExecuteTensor, ExecuteComplete, RefuseNode
  <2>2. Running' /\ ToyStage(2)' /\ SamePage BY <1>6, <2>1, ToyAttention
  <2>. QED BY <1>6, <2>2
<1>7. CASE k = 2
  <2>1. run.attention # <<>> BY <1>7 DEF ToyStage
  <2>2. TensorAllowed(3) BY <1>4, <2>1 DEF TensorAllowed
  <2>3. ExecuteTensor(3)
    BY <1>3, <1>4, <1>7, <2>2
       DEF ExecuteNop, ExecuteDma, ExecuteAttention, ExecuteComplete, RefuseNode
  <2>4. Running' /\ ToyStage(3)' /\ SamePage BY <1>7, <2>3, ToyTensor
  <2>. QED BY <1>7, <2>4
<1>8. CASE k = 3
  <2>1. ExecuteComplete(4)
    BY <1>3, <1>4, <1>8 DEF ExecuteNop, ExecuteDma, ExecuteAttention, ExecuteTensor, RefuseNode
  <2>. QED BY <1>8, <2>1, ToyComplete
<1>. QED BY <1>5, <1>6, <1>7, <1>8

\* A step of a graph executes a node and goes on, or answers.
LEMMA GraphStepShape ==
  ASSUME PrototypeInv, GraphStep
  PROVE  /\ UNCHANGED <<next_request_id, report>> /\ Running
         /\ \/ UNCHANGED completion /\ run'.request_id = run.request_id
            \/ run' = <<>> /\ \A c \in Range(completion') : c.request_id = run.request_id
<1>1. CASE NothingReady
  BY <1>1 DEF NothingReady, Finish, Answer, Idle, Range
<1>2. CASE ~ NothingReady
  <2>1. PICK i \in IF Running THEN FirstReadyIn(run.graph, run) ELSE {} :
          \/ ExecuteNop(i) \/ ExecuteDma(i) \/ ExecuteAttention(i)
          \/ ExecuteTensor(i) \/ ExecuteComplete(i) \/ RefuseNode(i)
    BY <1>2 DEF GraphStep
  <2>2. Running /\ RunPart BY <2>1 DEF PrototypeInv
  <2>3. \A c, p, w : /\ Executed(i, c, p, w).request_id = run.request_id
                     /\ DOMAIN Executed(i, c, p, w) = DOMAIN run
    BY <2>2 DEF Executed, RunPart
  <2>4. CASE ExecuteNop(i) BY <2>2, <2>3, <2>4 DEF ExecuteNop
  <2>5. CASE ExecuteDma(i) BY <2>2, <2>3, <2>5 DEF ExecuteDma
  <2>6. CASE ExecuteAttention(i)
    <3>1. PICK c, p, w : run' = [Executed(i, c, p, w)
                                   EXCEPT !.attention = <<memory.pages[ATTENTION_PAGE].payload>>]
      BY <2>6 DEF ExecuteAttention
    <3>2. run'.request_id = run.request_id BY <2>2, <2>3, <3>1 DEF RunPart
    <3>. QED BY <2>2, <2>6, <3>2 DEF ExecuteAttention
  <2>7. CASE ExecuteTensor(i)
    <3>1. PICK c, p, w : run' = [Executed(i, c, p, w)
                                   EXCEPT !.output = model[run.attention[1]].output]
      BY <2>7 DEF ExecuteTensor
    <3>2. run'.request_id = run.request_id BY <2>2, <2>3, <3>1 DEF RunPart
    <3>. QED BY <2>2, <2>7, <3>2 DEF ExecuteTensor
  <2>8. CASE ExecuteComplete(i)
    BY <2>2, <2>8 DEF ExecuteComplete, Finish, Answer, Idle, Range
  <2>9. CASE RefuseNode(i)
    BY <2>2, <2>9 DEF RefuseNode, Finish, Answer, Idle, Range
  <2>. QED BY <2>1, <2>4, <2>5, <2>6, <2>7, <2>8, <2>9
<1>. QED BY <1>1, <1>2

LEMMA TraceGraphStep ==
  ASSUME PrototypeInv, TraceInv, GraphStep
  PROVE  TraceInv'
<1>1. /\ UNCHANGED <<next_request_id, report>> /\ Running
      /\ \/ UNCHANGED completion /\ run'.request_id = run.request_id
         \/ run' = <<>> /\ \A c \in Range(completion') : c.request_id = run.request_id
  BY GraphStepShape
<1>2. IdsInOrder' BY <1>1 DEF TraceInv, IdsInOrder, Running, Idle
<1>3. TokensLeft' BY <1>1 DEF TraceInv, TokensLeft
<1>4. UNCHANGED InTrace /\ report.graphs \in Nat BY <1>1 DEF InTrace, TraceInv, TokensLeft
<1>5. CASE report.waits_for = 0
  <2>1. ~ InTrace BY <1>1, <1>5 DEF TraceInv, TokenUnderWay
  <2>2. Totals' BY <1>1, <1>4, <2>1 DEF TraceInv, Totals
  <2>3. TokenUnderWay' BY <1>1, <1>4, <1>5, <2>1 DEF TokenUnderWay
  <2>. QED BY <1>2, <1>3, <2>2, <2>3 DEF TraceInv
<1>6. CASE report.waits_for # 0
  <2>1. PICK k \in 0 .. 3 : ToyStage(k)
    BY <1>1, <1>6 DEF TraceInv, TokenUnderWay
  <2>2. /\ SamePage
        /\ \/ Running' /\ ToyStage(k + 1)' /\ k < 3
           \/ ~ Running' /\ Made'
    BY <1>1, <1>4, <2>1, ToyGoesOn
  <2>3. TokenUnderWay'
    <3>1. CASE Running' /\ ToyStage(k + 1)' /\ k < 3
      <4>1. k + 1 \in 0 .. 3 BY <3>1
      <4>. QED BY <1>1, <1>6, <3>1, <4>1 DEF TraceInv, TokenUnderWay
    <3>2. CASE ~ Running' /\ Made'
      BY <1>1, <1>6, <3>2 DEF TraceInv, TokenUnderWay
    <3>. QED BY <2>2, <3>1, <3>2
  <2>4. AttentionPage'.tier = "local" \/ report.graphs = 0
    <3>1. k + 1 > 0 OBVIOUS
    <3>2. CASE Running' /\ ToyStage(k + 1)' BY <3>1, <3>2 DEF ToyStage
    <3>3. CASE ~ Running' /\ Made' BY <3>3 DEF Made
    <3>. QED BY <2>2, <3>2, <3>3
  <2>5. Resident' = Resident /\ Extra' = Extra
    BY <2>2 DEF SamePage, Resident, ResidentToyCycles, Extra, MigrationCycles
  <2>6. Totals' BY <1>1, <1>4, <2>4, <2>5 DEF TraceInv, Totals
  <2>. QED BY <1>2, <1>3, <2>3, <2>6 DEF TraceInv
<1>. QED BY <1>5, <1>6

LEMMA TraceHostAccess ==
  ASSUME TraceInv, HostAccess
  PROVE  TraceInv'
<1>1. UNCHANGED <<device, report>> /\ ~ Running /\ ~ InTrace BY DEF HostAccess
<1>2. UNCHANGED <<run, next_request_id, completion, record>> BY <1>1 DEF device
<1>3. report.waits_for = 0 /\ ~ Running' /\ ~ InTrace' BY <1>1, <1>2 DEF InTrace, Running
<1>4. IdsInOrder' BY <1>2, <1>3 DEF TraceInv, IdsInOrder
<1>5. TokensLeft' BY <1>1 DEF TraceInv, TokensLeft
<1>6. TokenUnderWay' BY <1>1, <1>3 DEF TokenUnderWay
<1>7. Totals' BY <1>1, <1>3 DEF TraceInv, Totals
<1>. QED BY <1>4, <1>5, <1>6, <1>7 DEF TraceInv

LEMMA SubmitIds ==
  ASSUME IdsInOrder, NEW work, NEW traced, Submit(work, traced)
  PROVE  IdsInOrder'
<1>1. next_request_id' = next_request_id + 1 /\ next_request_id \in Nat \ {0}
  BY DEF Submit, IdsInOrder
<1>2. CASE GraphValid(work.graph, work.priority)
  <2>1. run' = Begun(next_request_id, work) /\ UNCHANGED completion BY <1>2 DEF Submit
  <2>2. run'.request_id = next_request_id BY <2>1 DEF Begun
  <2>. QED BY <1>1, <2>1, <2>2 DEF IdsInOrder
<1>3. CASE ~ GraphValid(work.graph, work.priority)
  <2>1. /\ UNCHANGED run /\ ~ Running
        /\ \A c \in Range(completion') : c.request_id = next_request_id
    BY <1>3 DEF Submit, Answer, Range
  <2>. QED BY <1>1, <2>1 DEF IdsInOrder, Running
<1>. QED BY <1>2, <1>3

LEMMA TraceSubmitGraph ==
  ASSUME PrototypeInv, TraceInv, SubmitGraph
  PROVE  TraceInv'
<1>1. PICK work \in Graphs : Submit(work, FALSE) BY DEF SubmitGraph
<1>2. ~ InTrace /\ report.waits_for = 0 /\ report.tokens \in {TraceTokens, <<>>}
  BY DEF SubmitGraph, InTrace
<1>3. report' = [report EXCEPT !.waits_for = 0] BY <1>1 DEF Submit
<1>4. /\ report'.tokens = report.tokens /\ report'.graphs = report.graphs
      /\ report'.measured = report.measured /\ report'.predicted = report.predicted
      /\ report'.waits_for = 0 /\ DOMAIN report' = DOMAIN report
  BY <1>3, <1>2
<1>5. IdsInOrder' BY <1>1, SubmitIds DEF TraceInv
<1>6. TokensLeft' BY <1>4 DEF TraceInv, TokensLeft
<1>7. ~ InTrace' BY <1>2, <1>4 DEF InTrace
<1>8. TokenUnderWay' BY <1>4, <1>7 DEF TokenUnderWay
<1>9. Totals' BY <1>4, <1>7 DEF TraceInv, Totals
<1>. QED BY <1>5, <1>6, <1>8, <1>9 DEF TraceInv

\* The first token of a trace begins with nothing measured: the tokens are all
\* there.
LEMMA TraceSubmitToken ==
  ASSUME PrototypeInv, TraceInv, SubmitToken
  PROVE  TraceInv'
<1>1. /\ Submit([graph |-> ToyGraph({0}), priority |-> 0], TRUE)
      /\ report.waits_for = 0 /\ ~ Running
      /\ report.tokens # <<>> /\ Head(report.tokens) > 0
  BY DEF SubmitToken, Submit
<1>2. next_request_id \in Nat \ {0} BY DEF TraceInv, IdsInOrder
<1>3. GraphValid(ToyGraph({0}), 0) BY DEF GraphValid, ToyGraph, MaxNodes
<1>4. /\ run' = Begun(next_request_id, [graph |-> ToyGraph({0}), priority |-> 0])
      /\ report' = [report EXCEPT !.waits_for = next_request_id]
      /\ next_request_id' = next_request_id + 1
      /\ UNCHANGED <<memory, completion, record>>
  BY <1>1, <1>3 DEF Submit
<1>5. /\ report'.tokens = report.tokens /\ report'.graphs = report.graphs
      /\ report'.measured = report.measured /\ report'.predicted = report.predicted
      /\ report'.waits_for = next_request_id /\ DOMAIN report' = DOMAIN report
  BY <1>4 DEF TraceInv, TokensLeft
<1>6. IdsInOrder' BY <1>1, SubmitIds DEF TraceInv
<1>7. TokensLeft' BY <1>1, <1>5 DEF TraceInv, TokensLeft
<1>8. report.graphs > 0 => AttentionPage.tier = "local" /\ InTrace
  <2>1. CASE InTrace BY <2>1 DEF TraceInv, Totals
  <2>2. CASE ~ InTrace
    <3>1. report.tokens = TraceTokens BY <1>1, <2>2 DEF InTrace
    <3>2. Head(report.tokens) + report.graphs = Head(TraceTokens)
      BY <1>1, <3>1 DEF TraceInv, TokensLeft
    <3>3. Head(TraceTokens) \in Nat BY <1>1, <3>1, PrototypeAssumption
    <3>4. report.graphs = 0 BY <3>1, <3>2, <3>3 DEF TraceInv, TokensLeft
    <3>. QED BY <3>4
  <2>. QED BY <2>1, <2>2
<1>9. AttentionPage' = AttentionPage BY <1>4 DEF AttentionPage
<1>10. Resident' = Resident /\ Extra' = Extra
  BY <1>9 DEF Resident, ResidentToyCycles, Extra, MigrationCycles
<1>11. /\ run'.graph = ToyGraph({0}) /\ run'.priority = 0 /\ run'.executed = {}
       /\ run'.complete_mask = {} /\ run'.cycles = 0 /\ "graph" \in DOMAIN run'
  BY <1>4 DEF Begun
<1>12. Running' BY <1>11 DEF Running, Idle
<1>13. ToyStage(0)'
  <2>1. SpentAfter(0)' = 0 BY DEF SpentAfter
  <2>2. Paid(run.cycles, SpentAfter(0))' BY <1>11, <2>1 DEF Paid
  <2>3. {} = 1 .. 0 /\ {} = 0 .. 0 - 1 OBVIOUS
  <2>4. (0 > 0 \/ report'.graphs > 0) => AttentionPage'.tier = "local"
    BY <1>5, <1>8, <1>9
  <2>. QED BY <1>11, <2>2, <2>3, <2>4 DEF ToyStage
<1>14. TokenUnderWay' BY <1>2, <1>4, <1>5, <1>12, <1>13 DEF TokenUnderWay
<1>15. Totals' BY <1>5, <1>8, <1>9, <1>10 DEF TraceInv, Totals
<1>. QED BY <1>6, <1>7, <1>14, <1>15 DEF TraceInv

LEMMA TraceNextRequest ==
  ASSUME PrototypeInv, TraceInv, NextRequest
  PROVE  TraceInv'
<1>1. /\ UNCHANGED <<memory, run, next_request_id, completion, record>>
      /\ ~ Running /\ report.waits_for = 0
      /\ report.tokens # <<>> /\ Head(report.tokens) = 0
      /\ report' = [report EXCEPT !.tokens = Tail(@)]
  BY DEF NextRequest, device
<1>2. /\ report'.tokens = Tail(report.tokens) /\ report'.graphs = report.graphs
      /\ report'.measured = report.measured /\ report'.predicted = report.predicted
      /\ report'.waits_for = 0 /\ DOMAIN report' = DOMAIN report
  BY <1>1 DEF TraceInv, TokensLeft
<1>3. IdsInOrder' BY <1>1 DEF TraceInv, IdsInOrder, Running
<1>4. TokensLeft'
  <2>1. /\ Tail(report.tokens) \in Seq(Nat)
        /\ Len(Tail(report.tokens)) < Len(TraceTokens)
    BY <1>1, PrototypeAssumption DEF TraceInv, TokensLeft
  <2>. QED BY <1>2, <2>1, PrototypeAssumption DEF TraceInv, TokensLeft
<1>5. ~ Running' BY <1>1 DEF Running
<1>6. TokenUnderWay' BY <1>2, <1>5 DEF TokenUnderWay
<1>7. report.graphs > 0 => InTrace
  <2>1. SUFFICES ASSUME report.graphs > 0, report.tokens = TraceTokens PROVE FALSE
    BY <1>1 DEF InTrace
  <2>2. Head(report.tokens) + report.graphs = Head(TraceTokens)
    BY <1>1, <2>1 DEF TraceInv, TokensLeft
  <2>3. Head(TraceTokens) \in Nat BY <1>1, <2>1, PrototypeAssumption
  <2>. QED BY <2>1, <2>2, <2>3 DEF TraceInv, TokensLeft
<1>8. /\ AttentionPage' = AttentionPage /\ Resident' = Resident /\ Extra' = Extra
  BY <1>1 DEF AttentionPage, Resident, ResidentToyCycles, Extra, MigrationCycles
<1>9. Totals' BY <1>2, <1>7, <1>8 DEF TraceInv, Totals
<1>. QED BY <1>3, <1>4, <1>6, <1>9 DEF TraceInv

\* Only the first graph of a trace can have paid for a migration.
LEMMA TraceCollectToken ==
  ASSUME PrototypeInv, TraceInv, CollectToken
  PROVE  TraceInv'
<1>1. /\ UNCHANGED <<memory, run, next_request_id, completion, record>>
      /\ ~ Running /\ report.waits_for # 0
  BY DEF CollectToken, device
<1>2. PICK r \in Range(record) :
        report' = [tokens |-> <<Head(report.tokens) - 1>> \o Tail(report.tokens),
                   waits_for |-> 0,
                   graphs |-> report.graphs + 1,
                   measured |-> report.measured + r.cycles,
                   predicted |-> report.predicted + r.predicted_cycles]
  BY DEF CollectToken
<1>3. Made /\ Paid(r.cycles, Resident) BY <1>1 DEF TraceInv, TokenUnderWay, Made
<1>4. r.cycles = r.predicted_cycles BY DEF PrototypeInv, RecordPart
<1>5. InTrace BY <1>1 DEF InTrace
<1>6. /\ report.tokens \in Seq(Nat) /\ report.tokens # <<>> /\ Head(report.tokens) > 0
      /\ report.graphs \in Nat
  BY <1>1 DEF TraceInv, TokensLeft
<1>. DEFINE first == Head(report.tokens)
            rest == Tail(report.tokens)
            tokens == <<first - 1>> \o rest
<1>7. first \in Nat /\ first - 1 \in Nat /\ rest \in Seq(Nat)
      /\ Len(rest) = Len(report.tokens) - 1
  BY <1>6
<1>. HIDE DEF first, rest
<1>8. /\ tokens \in Seq(Nat) /\ tokens # <<>> /\ Head(tokens) = first - 1
      /\ Len(tokens) = Len(report.tokens)
  BY <1>6, <1>7
<1>9. report'.tokens = tokens /\ report'.waits_for = 0
      /\ report'.graphs = report.graphs + 1
      /\ report'.measured = report.measured + r.cycles
      /\ report'.predicted = report.predicted + r.predicted_cycles
      /\ DOMAIN report' = {"tokens", "waits_for", "graphs", "measured", "predicted"}
  BY <1>2 DEF first, rest
<1>. HIDE DEF tokens
<1>10. IdsInOrder' BY <1>1 DEF TraceInv, IdsInOrder, Running
<1>11. TokensLeft'
  <2>1. Len(report.tokens) = Len(TraceTokens) /\ TraceTokens # <<>>
          => first + report.graphs = Head(TraceTokens)
    BY DEF TraceInv, TokensLeft, first
  <2>2. Len(report.tokens) <= Len(TraceTokens) BY DEF TraceInv, TokensLeft
  <2>3. (first - 1) + (report.graphs + 1) = first + report.graphs BY <1>6, <1>7
  <2>4. Len(tokens) = Len(TraceTokens) /\ TraceTokens # <<>>
          => Head(tokens) + (report.graphs + 1) = Head(TraceTokens)
    BY <1>8, <2>1, <2>3
  <2>5. report.graphs + 1 \in Nat BY <1>6
  <2>. QED BY <1>8, <1>9, <2>2, <2>4, <2>5 DEF TokensLeft
<1>12. ~ Running' BY <1>1 DEF Running
<1>13. TokenUnderWay' BY <1>9, <1>12 DEF TokenUnderWay
<1>14. /\ AttentionPage' = AttentionPage /\ Resident' = Resident /\ Extra' = Extra
  BY <1>1 DEF AttentionPage, Resident, ResidentToyCycles, Extra, MigrationCycles
<1>15. Resident \in Nat /\ Extra \in Int
  BY Costs DEF PrototypeInv, MemoryPart
<1>16. report'.measured \in {report'.graphs * Resident, report'.graphs * Resident + Extra}
  <2>1. (report.graphs + 1) * Resident = report.graphs * Resident + Resident
        /\ report.graphs * Resident \in Nat
    BY <1>6, <1>15
  <2>2. CASE report.graphs = 0
    <3>1. report.measured = 0 BY <2>2 DEF TraceInv, Totals
    <3>2. (report.graphs + 1) * Resident = Resident BY <1>15, <2>2
    <3>. QED BY <1>3, <1>9, <1>15, <3>1, <3>2 DEF Paid
  <2>3. CASE report.graphs > 0
    <3>1. r.cycles = Resident BY <1>3, <2>3 DEF Paid
    <3>2. report.measured \in {report.graphs * Resident, report.graphs * Resident + Extra}
      BY <1>5, <2>3 DEF TraceInv, Totals
    <3>. QED BY <1>9, <1>15, <2>1, <3>1, <3>2
  <2>. QED BY <1>6, <2>2, <2>3
<1>17. report'.measured = report'.predicted /\ report'.graphs # 0
  BY <1>4, <1>6, <1>9 DEF TraceInv, Totals
<1>18. AttentionPage'.tier = "local" BY <1>3, <1>14 DEF Made
<1>19. Totals' BY <1>14, <1>16, <1>17, <1>18 DEF Totals
<1>. QED BY <1>10, <1>11, <1>13, <1>19 DEF TraceInv

LEMMA TraceAlways == Spec => []TraceInv
<1>1. Init => TraceInv
  <2>. SUFFICES ASSUME Init PROVE TraceInv OBVIOUS
  <2>1. /\ run = <<>> /\ next_request_id = 1 /\ completion = <<>>
        /\ report = [tokens |-> TraceTokens, waits_for |-> 0, graphs |-> 0,
                     measured |-> 0, predicted |-> 0]
    BY DEF Init, Idle
  <2>2. IdsInOrder BY <2>1 DEF IdsInOrder, Running, Idle, Range
  <2>3. TokensLeft
    <3>1. TraceTokens # <<>> => Head(TraceTokens) \in Nat BY PrototypeAssumption
    <3>. QED BY <2>1, <3>1, PrototypeAssumption DEF TokensLeft
  <2>4. TokenUnderWay BY <2>1 DEF TokenUnderWay, Running, Idle
  <2>5. Totals BY <2>1 DEF Totals
  <2>. QED BY <2>2, <2>3, <2>4, <2>5 DEF TraceInv
<1>2. PrototypeInv /\ TraceInv /\ [Next]_vars => TraceInv'
  <2>. SUFFICES ASSUME PrototypeInv, TraceInv, [Next]_vars PROVE TraceInv' OBVIOUS
  <2>1. CASE UNCHANGED vars
    BY <2>1 DEF vars, device, TraceInv, IdsInOrder, TokensLeft, TokenUnderWay, Totals,
       Running, InTrace, Made, ToyStage, Paid, Resident, Extra, SpentAfter, AttentionPage,
       ResidentToyCycles, MigrationCycles
  <2>. QED BY <2>1, TraceGraphStep, TraceHostAccess, TraceSubmitGraph, TraceSubmitToken,
       TraceNextRequest, TraceCollectToken DEF Next
<1>. QED BY <1>1, <1>2, Invariance, PTL DEF Spec

\* A trace measures what was predicted and pays for at most one migration, in
\* its first graph: the page that graph brings stays local, because a toy graph
\* reads no other and the host waits (run_agentic_trace, _execute_graph).
THEOREM ColdOnce == Spec => []TraceColdOnce
<1>1. PrototypeInv /\ TraceInv => TraceColdOnce
  <2>. SUFFICES ASSUME PrototypeInv, TraceInv PROVE TraceColdOnce OBVIOUS
  <2>1. report.measured = report.predicted BY DEF TraceInv, Totals
  <2>2. Resident \in Nat /\ Extra \in Int BY Costs DEF PrototypeInv, MemoryPart
  <2>3. InTrace => report.measured \in {report.graphs * Resident,
                                       report.graphs * Resident + Extra}
    <3>1. CASE report.graphs > 0 BY <3>1 DEF TraceInv, Totals
    <3>2. CASE report.graphs = 0
      <4>1. report.graphs * Resident = 0 BY <2>2, <3>2
      <4>. QED BY <3>2, <4>1 DEF TraceInv, Totals
    <3>. QED BY <3>1, <3>2 DEF TraceInv, TokensLeft
  <2>4. \A c \in Range(completion) : c.request_id = report.waits_for => c.status = "OK"
    <3>. SUFFICES ASSUME NEW c \in Range(completion), c.request_id = report.waits_for
                  PROVE  c.status = "OK"
      OBVIOUS
    <3>1. c.request_id \in 1 .. next_request_id - 1 BY DEF TraceInv, IdsInOrder
    <3>2. report.waits_for # 0 BY <3>1
    <3>3. report.waits_for = next_request_id - 1 BY <3>2 DEF TraceInv, TokenUnderWay
    <3>4. ~ Running BY <3>3 DEF TraceInv, IdsInOrder
    <3>. QED BY <3>2, <3>4 DEF TraceInv, TokenUnderWay, Made
  <2>. QED BY <2>1, <2>3, <2>4 DEF TraceColdOnce, Resident, Extra, AttentionPage
<1>. QED BY <1>1, Invariance, TraceAlways, PTL

-----------------------------------------------------------------------------
(* What can be reached *)

\* What of A can be executed after the nodes S.
Following(c, A, S) == {i \in A : CanFollow(c, i, S)}
FollowingAfter(c, A, after, k) == IF k = 0 THEN {} ELSE Following(c, A, after[k - 1])
Unfolds(c, A, K, after) == after = [k \in 0 .. K |-> FollowingAfter(c, A, after, k)]

LEMMA FollowingGrows ==
  ASSUME NEW c, NEW A, NEW B, A \subseteq B, NEW S, NEW T, S \subseteq T
  PROVE  Following(c, A, S) \subseteq Following(c, B, T)
BY DEF Following, CanFollow, IdsAt

LEMMA UnfoldingExists ==
  ASSUME NEW c, NEW A, NEW K \in Nat
  PROVE  \E after : Unfolds(c, A, K, after)
<1>. DEFINE Bad == {N \in Nat : ~ \E after : Unfolds(c, A, N, after)}
<1>1. SUFFICES ASSUME Bad # {} PROVE FALSE OBVIOUS
<1>2. PICK N \in Bad : \A M \in Bad : N <= M
  BY <1>1, LeastOf
<1>3. CASE N = 0
  <2>. DEFINE first == [k \in 0 .. 0 |-> {}]
  <2>1. \A k \in 0 .. 0 : FollowingAfter(c, A, first, k) = {} BY DEF FollowingAfter
  <2>2. first = [k \in 0 .. 0 |-> FollowingAfter(c, A, first, k)] BY <2>1
  <2>. QED BY <2>2, <1>3 DEF Unfolds
<1>4. CASE N # 0
  <2>0. N - 1 \in Nat /\ N - 1 \notin Bad BY <1>2, <1>4
  <2>1. PICK after : Unfolds(c, A, N - 1, after) BY <2>0
  <2>. DEFINE next == [k \in 0 .. N |-> FollowingAfter(c, A, after, k)]
  <2>2. ASSUME NEW k \in 0 .. N
        PROVE  FollowingAfter(c, A, after, k) = FollowingAfter(c, A, next, k)
    <3>1. CASE k = 0 BY <3>1 DEF FollowingAfter
    <3>2. CASE k # 0
      <4>1. k - 1 \in 0 .. N - 1 /\ k - 1 \in 0 .. N BY <3>2, <1>4
      <4>2. after[k - 1] = FollowingAfter(c, A, after, k - 1) BY <4>1, <2>1 DEF Unfolds
      <4>3. next[k - 1] = after[k - 1] BY <4>1, <4>2
      <4>. HIDE DEF next
      <4>. QED BY <4>3 DEF FollowingAfter
    <3>. QED BY <3>1, <3>2
  <2>3. next = [k \in 0 .. N |-> FollowingAfter(c, A, next, k)] BY <2>2
  <2>. HIDE DEF next
  <2>. QED BY <2>3 DEF Unfolds
<1>. QED BY <1>3, <1>4

LEMMA SubsetOfFinite ==
  ASSUME NEW A, IsFiniteSet(A), NEW B, B \subseteq A
  PROVE  /\ IsFiniteSet(B) /\ Cardinality(B) \in Nat /\ Cardinality(A) \in Nat
         /\ Cardinality(B) <= Cardinality(A)
         /\ Cardinality(B) = Cardinality(A) => B = A
BY FS_Subset, FS_CardinalityType

\* The nodes reached are the least set that nothing of A follows but its own:
\* each round adds a node or is the last, so there is a round for each of A.
LEMMA ReachableIsLeast ==
  ASSUME NEW c, NEW A, IsFiniteSet(A)
  PROVE  /\ Following(c, A, Reachable(c, A)) = Reachable(c, A)
         /\ \A S : Following(c, A, S) \subseteq S => Reachable(c, A) \subseteq S
<1>. DEFINE K == Cardinality(A)
            after == CHOOSE f : f = [k \in 0 .. K |-> FollowingAfter(c, A, f, k)]
<1>1. K \in Nat BY FS_CardinalityType
<1>2. Reachable(c, A) = after[K] BY DEF Reachable, FollowingAfter, Following
<1>3. after = [k \in 0 .. K |-> FollowingAfter(c, A, after, k)]
  <2>. HIDE DEF K
  <2>1. PICK f : Unfolds(c, A, K, f) BY <1>1, UnfoldingExists
  <2>. QED BY <2>1 DEF Unfolds
<1>. HIDE DEF K, after
<1>. DEFINE Stable(k) == Following(c, A, after[k]) = after[k]
            Grown(k) == after[k] \subseteq Following(c, A, after[k])
                        /\ (Stable(k) \/ Cardinality(after[k]) >= k)
<1>4. /\ after[0] = {}
      /\ \A k \in 1 .. K : k - 1 \in 0 .. K /\ after[k] = Following(c, A, after[k - 1])
  <2>1. \A k \in 0 .. K : after[k] = FollowingAfter(c, A, after, k) BY <1>3
  <2>2. 0 \in 0 .. K /\ \A k \in 1 .. K : k - 1 \in 0 .. K /\ k \in 0 .. K /\ k # 0 BY <1>1
  <2>. QED BY <2>1, <2>2 DEF FollowingAfter
<1>5. \A k \in 0 .. K : after[k] \subseteq A
  <2>1. \A k \in 0 .. K : k = 0 \/ k \in 1 .. K BY <1>1
  <2>. QED BY <1>4, <2>1 DEF Following
<1>6. \A k \in 0 .. K : Grown(k)
  <2>. DEFINE Bad == {k \in 0 .. K : ~ Grown(k)}
  <2>1. SUFFICES ASSUME Bad # {} PROVE FALSE OBVIOUS
  <2>2. PICK k \in Bad : \A j \in Bad : k <= j
    <3>1. Bad \in SUBSET Nat OBVIOUS
    <3>. HIDE DEF Bad
    <3>. QED BY <2>1, <3>1, LeastOf
  <2>3. CASE k = 0
    <3>1. Cardinality({}) = 0 BY FS_EmptySet
    <3>. QED BY <1>4, <2>2, <2>3, <3>1
  <2>4. CASE k # 0
    <3>. DEFINE last == after[k - 1]
                this == after[k]
    <3>1. k \in 1 .. K /\ k - 1 \in 0 .. K /\ k - 1 < k BY <1>1, <2>2, <2>4
    <3>2. Grown(k - 1) BY <2>2, <3>1
    <3>3. this = Following(c, A, last) BY <1>4, <3>1
    <3>4. last \subseteq this BY <3>2, <3>3
    <3>5. this \subseteq Following(c, A, this) BY <3>3, <3>4, FollowingGrows
    <3>6. CASE Stable(k - 1)
      <4>1. this = last BY <3>3, <3>6
      <4>. QED BY <2>2, <3>5, <3>6, <4>1
    <3>7. CASE ~ Stable(k - 1)
      <4>1. Cardinality(last) >= k - 1 /\ last # this BY <3>2, <3>3, <3>7
      <4>2. this \subseteq A BY <1>5, <3>1
      <4>. HIDE DEF last, this
      <4>3. IsFiniteSet(this) BY <4>2, SubsetOfFinite
      <4>4. /\ Cardinality(last) \in Nat /\ Cardinality(this) \in Nat
            /\ Cardinality(last) <= Cardinality(this)
            /\ Cardinality(last) # Cardinality(this)
        BY <3>4, <4>1, <4>3, SubsetOfFinite
      <4>5. Cardinality(this) >= k BY <3>1, <4>1, <4>4
      <4>. QED BY <2>2, <3>5, <4>5 DEF this
    <3>. QED BY <3>6, <3>7
  <2>. QED BY <2>3, <2>4
<1>7. Stable(K)
  <2>1. K \in 0 .. K BY <1>1
  <2>2. Grown(K) /\ after[K] \subseteq A BY <1>5, <1>6, <2>1
  <2>3. ASSUME Cardinality(after[K]) >= K PROVE Stable(K)
    <3>1. after[K] = A
      <4>. DEFINE B == after[K]
      <4>1. B \subseteq A /\ Cardinality(B) >= Cardinality(A) BY <2>2, <2>3 DEF K
      <4>. HIDE DEF B
      <4>2. B = A BY <4>1, SubsetOfFinite
      <4>. QED BY <4>2 DEF B
    <3>2. Following(c, A, after[K]) \subseteq A BY DEF Following
    <3>. QED BY <2>2, <3>1, <3>2
  <2>. QED BY <2>2, <2>3
<1>8. ASSUME NEW S, Following(c, A, S) \subseteq S
      PROVE  \A k \in 0 .. K : after[k] \subseteq S
  <2>. DEFINE Bad == {k \in 0 .. K : ~ (after[k] \subseteq S)}
  <2>1. SUFFICES ASSUME Bad # {} PROVE FALSE OBVIOUS
  <2>2. PICK k \in Bad : \A j \in Bad : k <= j
    <3>1. Bad \in SUBSET Nat OBVIOUS
    <3>. HIDE DEF Bad
    <3>. QED BY <2>1, <3>1, LeastOf
  <2>3. k \in 1 .. K /\ k - 1 \in 0 .. K /\ k - 1 < k BY <1>1, <1>4, <2>2
  <2>4. after[k - 1] \subseteq S BY <2>2, <2>3
  <2>5. after[k] \subseteq S BY <1>4, <1>8, <2>3, <2>4, FollowingGrows
  <2>. QED BY <2>2, <2>5
<1>. QED BY <1>1, <1>2, <1>7, <1>8

LEMMA ReachableGrows ==
  ASSUME NEW c, NEW A, NEW B, IsFiniteSet(B), A \subseteq B
  PROVE  Reachable(c, A) \subseteq Reachable(c, B)
<1>. DEFINE S == Reachable(c, B)
<1>1. IsFiniteSet(A) BY SubsetOfFinite
<1>2. Following(c, A, S) \subseteq Following(c, B, S) BY FollowingGrows
<1>3. Following(c, A, S) \subseteq S BY <1>2, ReachableIsLeast
<1>. QED BY <1>1, <1>3, ReachableIsLeast

LEMMA ReachesReady ==
  ASSUME NEW c, NEW A, NEW B, IsFiniteSet(B), A \subseteq B, Reachable(c, A) = A,
         NEW i \in B, CanFollow(c, i, A)
  PROVE  i \in Reachable(c, B)
<1>1. A \subseteq Reachable(c, B) BY ReachableGrows
<1>2. i \in Following(c, B, A) BY DEF Following
<1>3. i \in Following(c, B, Reachable(c, B)) BY <1>1, <1>2, FollowingGrows
<1>. QED BY <1>3, ReachableIsLeast

\* A set that can be reached can still be when a node is added that follows it.
LEMMA ReachableMore ==
  ASSUME NEW c, NEW E, IsFiniteSet(E), Reachable(c, E) = E, NEW i, CanFollow(c, i, E)
  PROVE  Reachable(c, E \cup {i}) = E \cup {i}
<1>. DEFINE F == E \cup {i}
<1>1. IsFiniteSet(F) BY FS_AddElement
<1>2. E \subseteq Reachable(c, F) BY <1>1, ReachableGrows
<1>3. i \in Reachable(c, F) BY <1>1, ReachesReady
<1>4. Reachable(c, F) \subseteq F BY <1>1, ReachableIsLeast DEF Following
<1>. QED BY <1>2, <1>3, <1>4

\* A bit of the folded word changes with each word that has it.
LEMMA FoldedMore ==
  ASSUME NEW c, NEW S, IsFiniteSet(S), NEW i, i \notin S
  PROVE  FoldedWords(c, S \cup {i}) = Xor(FoldedWords(c, S), WordAt(c, i))
<1>. DEFINE With(T, b) == {j \in T : b \in WordAt(c, j)}
<1>1. ASSUME NEW b
      PROVE  /\ Cardinality(With(S, b)) \in Nat
             /\ Cardinality(With(S \cup {i}, b)) =
                  Cardinality(With(S, b)) + (IF b \in WordAt(c, i) THEN 1 ELSE 0)
  <2>1. IsFiniteSet(With(S, b)) BY SubsetOfFinite
  <2>2. With(S \cup {i}, b) = IF b \in WordAt(c, i) THEN With(S, b) \cup {i} ELSE With(S, b)
    OBVIOUS
  <2>3. i \notin With(S, b) OBVIOUS
  <2>. HIDE DEF With
  <2>4. /\ Cardinality(With(S, b)) \in Nat
        /\ Cardinality(With(S, b) \cup {i}) = Cardinality(With(S, b)) + 1
    BY <2>1, <2>3, FS_AddElement, FS_CardinalityType
  <2>5. CASE b \in WordAt(c, i) BY <2>2, <2>4, <2>5
  <2>6. CASE b \notin WordAt(c, i) BY <2>2, <2>4, <2>6
  <2>. QED BY <2>5, <2>6
<1>2. ASSUME NEW T, NEW b
      PROVE  b \in FoldedWords(c, T) <=> Cardinality(With(T, b)) % 2 = 1
  <2>1. b \in UNION {WordAt(c, j) : j \in T} <=> With(T, b) # {} OBVIOUS
  <2>2. With(T, b) = {} => Cardinality(With(T, b)) % 2 = 0
    <3>. HIDE DEF With
    <3>. QED BY FS_EmptySet
  <2>3. b \in FoldedWords(c, T) <=> /\ b \in UNION {WordAt(c, j) : j \in T}
                                    /\ Cardinality(With(T, b)) % 2 = 1
    BY DEF FoldedWords
  <2>. HIDE DEF With
  <2>. QED BY <2>1, <2>2, <2>3
<1>. HIDE DEF With
<1>3. ASSUME NEW b
      PROVE  b \in FoldedWords(c, S \cup {i}) <=> b \in Xor(FoldedWords(c, S), WordAt(c, i))
  <2>. DEFINE n == Cardinality(With(S, b))
              m == Cardinality(With(S \cup {i}, b))
  <2>1. n \in Nat /\ m = n + (IF b \in WordAt(c, i) THEN 1 ELSE 0) BY <1>1
  <2>2. /\ b \in FoldedWords(c, S) <=> n % 2 = 1
        /\ b \in FoldedWords(c, S \cup {i}) <=> m % 2 = 1
    BY <1>2
  <2>. HIDE DEF n, m
  <2>3. m % 2 = 1 <=> (IF b \in WordAt(c, i) THEN n % 2 # 1 ELSE n % 2 = 1)
    BY <2>1
  <2>. QED BY <2>2, <2>3 DEF Xor
<1>. QED BY <1>3

-----------------------------------------------------------------------------
(* Answers mean their graphs *)

\* What a run r of the question c has done: nodes that can complete, in an order
\* their dependencies allow, the word folded of theirs, and what attention read.
Means(r, c) ==
  LET E == r.executed
      attended == E \cap OfOpcode(c, "ATTENTION")
      projected == E \cap OfOpcode(c, "TENSOR")
  IN  /\ E \subseteq Completing(c) /\ Reachable(c, E) = E
      /\ r.complete_mask = IdsAt(c.graph, E) /\ r.result = FoldedWords(c, E)
      /\ r.attention = IF attended = {} THEN <<>> ELSE <<c.payload>>
      /\ projected # {} => attended # {}
      /\ r.output = IF projected = {} THEN <<>> ELSE model[c.payload].output

\* The questions the graph under way asks.
OfRun(c) ==
  /\ c.graph = run.graph /\ c.priority = run.priority
  /\ c.mapped = Pages(memory) /\ c.payload = memory.pages[ATTENTION_PAGE].payload

FiniteGraph(graph) == DOMAIN graph = 1 .. Len(graph) /\ Len(graph) \in Nat

\* What AnswersMeanGraph says of an answer and the records beside it.
Allowed(records, c) ==
  LET all == DOMAIN c.graph
      reached == Reachable(c, all)
      Completes(S) ==
        /\ Reachable(c, S) = S
        /\ \E i \in OfOpcode(c, "COMPLETE") : CanFollow(c, i, S)
        /\ S \cap OfOpcode(c, "TENSOR") # {} => S \cap OfOpcode(c, "ATTENTION") # {}
        /\ c.result = <<"word", FoldedWords(c, S)>>
        /\ \A r \in Range(records) :
             r.request_id = c.request_id =>
               r.output = IF S \cap OfOpcode(c, "TENSOR") = {} THEN <<>>
                          ELSE model[c.payload].output
  IN  IF ~ GraphValid(c.graph, c.priority) THEN c.status = "GRAPH_INVALID"
      ELSE \/ c.status = "OK" /\ \E S \in SUBSET Completing(c) : Completes(S)
           \/ /\ c.status = "GRAPH_INVALID"
              /\ (Refusable(c) # {}) \/ (reached = all /\ Completing(c) = all)
           \/ /\ c.status = "GRAPH_DEADLOCK"
              /\ reached \subseteq Completing(c) /\ reached # all
              /\ c.result = <<"word", IdsAt(c.graph, reached)>>

MeaningInv ==
  /\ Running =>
       /\ FiniteGraph(run.graph) /\ GraphValid(run.graph, run.priority)
       /\ \A c : OfRun(c) => Means(run, c)
  /\ \A r \in Range(record) : r.request_id \in 1 .. next_request_id - 1
  /\ Running => \A r \in Range(record) : r.request_id < run.request_id
  /\ \A c \in Range(completion) : Allowed(record, c)

LEMMA FiniteNodes ==
  ASSUME NEW graph, FiniteGraph(graph)
  PROVE  IsFiniteSet(DOMAIN graph)
<1>. DEFINE K == Len(graph)
<1>1. K \in Nat /\ DOMAIN graph = 1 .. K BY DEF FiniteGraph
<1>. HIDE DEF K
<1>. QED BY <1>1, FS_Interval

\* A node that is ready may follow the nodes executed.
LEMMA ReadyFollows ==
  ASSUME NEW r, NEW c, Means(r, c), NEW i \in ReadyIn(c.graph, r)
  PROVE  /\ i \in DOMAIN c.graph /\ i \notin r.executed
         /\ CanFollow(c, i, r.executed) /\ r.executed \subseteq DOMAIN c.graph
<1>1. r.executed \subseteq Completing(c) /\ r.complete_mask = IdsAt(c.graph, r.executed)
  BY DEF Means
<1>2. r.executed \cap Completing(c) = r.executed BY <1>1
<1>3. Completing(c) \subseteq DOMAIN c.graph BY DEF Completing
<1>. QED BY <1>1, <1>2, <1>3 DEF ReadyIn, CanFollow

LEMMA MeansMore ==
  ASSUME NEW r, NEW c, FiniteGraph(c.graph), Means(r, c),
         NEW i \in ReadyIn(c.graph, r), i \in Completing(c),
         c.graph[i].opcode = "TENSOR" => r.attention # <<>>,
         NEW n, n.executed = r.executed \cup {i},
         n.complete_mask = r.complete_mask \cup {c.graph[i].node_id},
         n.result = Xor(r.result, WordAt(c, i)),
         n.attention = IF c.graph[i].opcode = "ATTENTION" THEN <<c.payload>> ELSE r.attention,
         n.output = IF c.graph[i].opcode = "TENSOR" THEN model[c.payload].output ELSE r.output
  PROVE  Means(n, c)
<1>. DEFINE E == r.executed
            F == E \cup {i}
<1>1. i \in DOMAIN c.graph /\ i \notin E /\ CanFollow(c, i, E) /\ E \subseteq DOMAIN c.graph
  BY ReadyFollows
<1>2. IsFiniteSet(E) BY <1>1, FiniteNodes, SubsetOfFinite
<1>3. F \subseteq Completing(c) BY DEF Means
<1>4. Reachable(c, F) = F BY <1>1, <1>2, ReachableMore DEF Means
<1>5. n.complete_mask = IdsAt(c.graph, F) BY DEF Means, IdsAt
<1>6. n.result = FoldedWords(c, F) BY <1>1, <1>2, FoldedMore DEF Means
<1>7. F \cap OfOpcode(c, "ATTENTION") =
        IF c.graph[i].opcode = "ATTENTION" THEN (E \cap OfOpcode(c, "ATTENTION")) \cup {i}
        ELSE E \cap OfOpcode(c, "ATTENTION")
  BY <1>1 DEF OfOpcode
<1>8. F \cap OfOpcode(c, "TENSOR") =
        IF c.graph[i].opcode = "TENSOR" THEN (E \cap OfOpcode(c, "TENSOR")) \cup {i}
        ELSE E \cap OfOpcode(c, "TENSOR")
  BY <1>1 DEF OfOpcode
<1>9. /\ r.attention = IF E \cap OfOpcode(c, "ATTENTION") = {} THEN <<>> ELSE <<c.payload>>
      /\ E \cap OfOpcode(c, "TENSOR") # {} => E \cap OfOpcode(c, "ATTENTION") # {}
      /\ r.output = IF E \cap OfOpcode(c, "TENSOR") = {} THEN <<>> ELSE model[c.payload].output
  BY DEF Means
<1>. HIDE DEF E
<1>10. n.attention = IF F \cap OfOpcode(c, "ATTENTION") = {} THEN <<>> ELSE <<c.payload>>
  BY <1>7, <1>9
<1>11. F \cap OfOpcode(c, "TENSOR") # {} => F \cap OfOpcode(c, "ATTENTION") # {}
  BY <1>7, <1>8, <1>9
<1>12. n.output = IF F \cap OfOpcode(c, "TENSOR") = {} THEN <<>> ELSE model[c.payload].output
  BY <1>8, <1>9
<1>13. n.executed = F BY DEF E
<1>. HIDE DEF F
<1>. QED BY <1>3, <1>4, <1>5, <1>6, <1>10, <1>11, <1>12, <1>13 DEF Means

\* A COMPLETE that is ready answers as the graph means.
LEMMA CompleteAllowed ==
  ASSUME NEW r, NEW c, Means(r, c), GraphValid(c.graph, c.priority),
         NEW i \in ReadyIn(c.graph, r), c.graph[i].opcode = "COMPLETE",
         c.status = "OK", c.result = <<"word", r.result>>,
         NEW records, \A q \in Range(records) : q.request_id = c.request_id => q.output = r.output
  PROVE  Allowed(records, c)
<1>. DEFINE E == r.executed
<1>1. i \in OfOpcode(c, "COMPLETE") /\ CanFollow(c, i, E)
  BY ReadyFollows DEF OfOpcode
<1>2. /\ E \in SUBSET Completing(c) /\ Reachable(c, E) = E
      /\ E \cap OfOpcode(c, "TENSOR") # {} => E \cap OfOpcode(c, "ATTENTION") # {}
      /\ r.result = FoldedWords(c, E)
      /\ r.output = IF E \cap OfOpcode(c, "TENSOR") = {} THEN <<>> ELSE model[c.payload].output
  BY DEF Means
<1>. HIDE DEF E
<1>. QED BY <1>1, <1>2 DEF Allowed

\* So does the refusal of a node that is ready.
LEMMA RefusalAllowed ==
  ASSUME NEW r, NEW c, FiniteGraph(c.graph), Means(r, c), NEW i \in ReadyIn(c.graph, r),
         \/ i \notin Completing(c) /\ c.graph[i].opcode # "COMPLETE"
         \/ c.graph[i].opcode = "TENSOR" /\ r.attention = <<>>,
         c.status = "GRAPH_INVALID", NEW records
  PROVE  Allowed(records, c)
<1>. DEFINE E == r.executed
            all == DOMAIN c.graph
<1>1. i \in all /\ CanFollow(c, i, E) /\ E \subseteq all BY ReadyFollows
<1>2. IsFiniteSet(all) BY FiniteNodes
<1>3. Reachable(c, E) = E BY DEF Means
<1>4. i \in Reachable(c, all) BY <1>1, <1>2, <1>3, ReachesReady
<1>5. CASE i \notin Completing(c) /\ c.graph[i].opcode # "COMPLETE"
  BY <1>4, <1>5 DEF Refusable, Allowed
<1>6. CASE c.graph[i].opcode = "TENSOR" /\ r.attention = <<>>
  <2>. DEFINE others == all \ OfOpcode(c, "ATTENTION")
  <2>1. E \cap OfOpcode(c, "ATTENTION") = {}
    <3>1. r.attention = IF E \cap OfOpcode(c, "ATTENTION") = {} THEN <<>> ELSE <<c.payload>>
      BY DEF Means
    <3>2. <<c.payload>> # <<>> OBVIOUS
    <3>. HIDE DEF E
    <3>. QED BY <1>6, <3>1, <3>2
  <2>2. E \subseteq others /\ i \in others BY <1>1, <1>6, <2>1 DEF OfOpcode
  <2>3. IsFiniteSet(others) BY <1>2, SubsetOfFinite
  <2>4. i \in Reachable(c, others) BY <1>1, <1>3, <2>2, <2>3, ReachesReady
  <2>5. i \in Refusable(c) BY <1>4, <1>6, <2>4 DEF Refusable
  <2>. QED BY <2>5 DEF Allowed
<1>. QED BY <1>5, <1>6

\* And the answer when no node is ready.
LEMMA StopAllowed ==
  ASSUME NEW r, NEW c, FiniteGraph(c.graph), Means(r, c), GraphValid(c.graph, c.priority),
         ReadyIn(c.graph, r) = {},
         c.status = IF r.executed = DOMAIN c.graph THEN "GRAPH_INVALID" ELSE "GRAPH_DEADLOCK",
         c.result = <<"word", r.complete_mask>>, NEW records
  PROVE  Allowed(records, c)
<1>. DEFINE E == r.executed
            all == DOMAIN c.graph
<1>1. /\ E \subseteq Completing(c) /\ Reachable(c, E) = E
      /\ r.complete_mask = IdsAt(c.graph, E)
  BY DEF Means
<1>2. Completing(c) \subseteq all BY DEF Completing
<1>3. Following(c, all, E) \subseteq E
  <2>1. E \cap Completing(c) = E BY <1>1
  <2>. QED BY <1>1, <2>1 DEF Following, CanFollow, ReadyIn
<1>4. IsFiniteSet(all) BY FiniteNodes
<1>5. Reachable(c, all) = E
  <2>1. Reachable(c, all) \subseteq E BY <1>3, <1>4, ReachableIsLeast
  <2>2. E \subseteq Reachable(c, all) BY <1>1, <1>2, <1>4, ReachableGrows
  <2>. QED BY <2>1, <2>2
<1>. QED BY <1>1, <1>2, <1>5 DEF Allowed

\* An answer once allowed stays so.
LEMMA AllowedSame ==
  ASSUME model' = model, NEW c
  PROVE  \A records : Allowed(records, c)' <=> Allowed(records, c)
<1>1. \A i : WordAt(c, i)' = WordAt(c, i) BY DEF WordAt
<1>2. \A S : FoldedWords(c, S)' = FoldedWords(c, S) BY <1>1 DEF FoldedWords
<1>. QED BY <1>2 DEF Allowed

\* A page that is brought changes no content and maps nothing.
LEMMA FetchSame ==
  ASSUME MemoryPart, NEW p \in Pages(memory), memory' = EnsureLocal(memory, p)
  PROVE  /\ Pages(memory') = Pages(memory)
         /\ memory'.pages[ATTENTION_PAGE].payload = memory.pages[ATTENTION_PAGE].payload
<1>1. CASE memory.pages[p].tier = "local"
  BY <1>1 DEF EnsureLocal
<1>2. CASE memory.pages[p].tier # "local"
  <2>1. memory' = Migrated(memory, p) BY <1>2 DEF EnsureLocal
  <2>2. p \notin Local(memory) BY <1>2 DEF Local
  <2>3. Exchanged(memory, memory', p) BY <2>1, <2>2, MigratedSound DEF MemoryPart
  <2>. QED BY <2>3 DEF Exchanged, MemoryPart
<1>. QED BY <1>1, <1>2

\* One node executed is one node more of the meaning.
LEMMA NodeMeans ==
  ASSUME PrototypeInv, MeaningInv, Running, NEW i \in ReadyIn(run.graph, run),
         ExecuteNop(i) \/ ExecuteDma(i) \/ ExecuteAttention(i) \/ ExecuteTensor(i)
  PROVE  MeaningInv'
<1>. DEFINE node == run.graph[i]
            page == memory.pages[ATTENTION_PAGE].payload
            word == CASE node.opcode = "NOP" -> node.operand0
                      [] node.opcode = "ATTENTION" -> model[page].attention
                      [] node.opcode = "TENSOR" -> model[page].projection
                      [] OTHER -> {}
<1>1. /\ UNCHANGED <<model, next_request_id, record, completion>>
      /\ FiniteGraph(run.graph) /\ GraphValid(run.graph, run.priority)
  BY DEF MeaningInv, ExecuteNop, ExecuteDma, ExecuteAttention, ExecuteTensor
<1>2. /\ Pages(memory') = Pages(memory)
      /\ memory'.pages[ATTENTION_PAGE].payload = page
  <2>1. MemoryPart /\ ATTENTION_PAGE \in Pages(memory) BY DEF PrototypeInv, MemoryPart
  <2>2. CASE ExecuteNop(i) \/ ExecuteTensor(i) BY <2>2 DEF ExecuteNop, ExecuteTensor
  <2>3. CASE ExecuteDma(i) BY <2>1, <2>3, FetchSame DEF ExecuteDma
  <2>4. CASE ExecuteAttention(i) BY <2>1, <2>4, FetchSame DEF ExecuteAttention
  <2>. QED BY <2>2, <2>3, <2>4
<1>3. RunPart BY DEF PrototypeInv
<1>4. run.attention # <<>> => run.attention = <<page>>
  <2>. DEFINE c == [graph |-> run.graph, priority |-> run.priority,
                    mapped |-> Pages(memory), payload |-> page]
  <2>1. OfRun(c) BY DEF OfRun
  <2>2. Means(run, c) /\ c.payload = page BY <2>1 DEF MeaningInv
  <2>. HIDE DEF c
  <2>. QED BY <2>2 DEF Means
<1>5. /\ run'.graph = run.graph /\ run'.priority = run.priority
      /\ run'.request_id = run.request_id /\ DOMAIN run' = DOMAIN run
      /\ run'.executed = run.executed \cup {i}
      /\ run'.complete_mask = run.complete_mask \cup {node.node_id}
      /\ run'.result = Xor(run.result, word)
      /\ run'.attention = IF node.opcode = "ATTENTION" THEN <<page>> ELSE run.attention
      /\ run'.output = IF node.opcode = "TENSOR" THEN model[page].output ELSE run.output
  <2>1. ASSUME NEW a, NEW b, NEW w
        PROVE  LET n == Executed(i, a, b, w)
               IN  /\ n.graph = run.graph /\ n.priority = run.priority
                   /\ n.request_id = run.request_id /\ DOMAIN n = DOMAIN run
                   /\ n.executed = run.executed \cup {i}
                   /\ n.complete_mask = run.complete_mask \cup {node.node_id}
                   /\ n.result = Xor(run.result, w)
                   /\ n.attention = run.attention /\ n.output = run.output
    BY <1>3 DEF RunPart, Executed, NodeAt
  <2>2. CASE ExecuteNop(i)
    BY <2>1, <2>2 DEF ExecuteNop, NodeAt
  <2>3. CASE ExecuteDma(i)
    BY <2>1, <2>3 DEF ExecuteDma, NodeAt
  <2>4. CASE ExecuteAttention(i)
    <3>1. PICK a, b : run' = [Executed(i, a, b, word) EXCEPT !.attention = <<page>>]
      BY <2>4 DEF ExecuteAttention, NodeAt
    <3>2. node.opcode = "ATTENTION" BY <2>4 DEF ExecuteAttention, NodeAt
    <3>. HIDE DEF word, page
    <3>. QED BY <1>3, <2>1, <3>1, <3>2 DEF RunPart
  <2>5. CASE ExecuteTensor(i)
    <3>1. run.attention = <<page>> /\ node.opcode = "TENSOR"
      BY <1>4, <2>5 DEF ExecuteTensor, TensorAllowed, NodeAt
    <3>2. run.attention[1] = page BY <3>1
    <3>3. PICK a, b : run' = [Executed(i, a, b, word) EXCEPT !.output = model[page].output]
      BY <2>5, <3>1, <3>2 DEF ExecuteTensor, NodeAt
    <3>. HIDE DEF word, page
    <3>. QED BY <1>3, <2>1, <3>1, <3>3 DEF RunPart
  <2>. QED BY <2>2, <2>3, <2>4, <2>5
<1>6. ASSUME NEW c, OfRun(c)
      PROVE  Means(run', c)
  <2>1. c.graph = run.graph /\ c.mapped = Pages(memory) /\ c.payload = page BY <1>6 DEF OfRun
  <2>2. Means(run, c) BY <1>6 DEF MeaningInv
  <2>3. i \in Completing(c) /\ (node.opcode = "TENSOR" => run.attention # <<>>)
    <3>1. i \in DOMAIN run.graph BY DEF ReadyIn
    <3>2. \/ node.opcode \in {"NOP", "ATTENTION"}
          \/ node.opcode = "DMA" /\ PageOf(node.operand0) \in Pages(memory)
          \/ /\ node.opcode = "TENSOR" /\ node.flags = GRAPH_FLAG_TENSOR_USE_PREVIOUS
             /\ run.attention # <<>>
      BY DEF ExecuteNop, ExecuteDma, ExecuteAttention, ExecuteTensor, TensorAllowed, NodeAt
    <3>. QED BY <2>1, <3>1, <3>2 DEF Completing
  <2>4. word = WordAt(c, i) BY <2>1 DEF WordAt
  <2>. HIDE DEF word, page
  <2>. QED BY <1>1, <1>5, <2>1, <2>2, <2>3, <2>4, MeansMore
<1>7. Running' BY <1>3, <1>5, StillRunning
<1>8. \A c : OfRun(c)' => Means(run, c)'
  <2>1. \A c : OfRun(c)' => OfRun(c) BY <1>2, <1>5 DEF OfRun
  <2>2. \A c : Means(run', c) => Means(run, c)' BY <1>1 DEF Means, FoldedWords, WordAt
  <2>. QED BY <1>6, <2>1, <2>2
<1>9. \A c \in Range(completion') : Allowed(record, c)'
  BY <1>1, AllowedSame DEF MeaningInv
<1>10. /\ FiniteGraph(run.graph)' /\ GraphValid(run.graph, run.priority)'
  BY <1>1, <1>5 DEF FiniteGraph, GraphValid
<1>11. /\ \A r \in Range(record') : r.request_id \in 1 .. next_request_id' - 1
       /\ \A r \in Range(record') : r.request_id < run'.request_id
  BY <1>1, <1>5 DEF MeaningInv
<1>. QED BY <1>7, <1>8, <1>9, <1>10, <1>11 DEF MeaningInv

LEMMA QuestionMeans ==
  ASSUME MeaningInv, Running, NEW c, OfRun(c)
  PROVE  /\ Means(run, c) /\ FiniteGraph(c.graph) /\ GraphValid(c.graph, c.priority)
         /\ c.graph = run.graph
BY DEF MeaningInv, OfRun

\* A graph that is answered: the answer has its question beside it.
LEMMA FinishMeans ==
  ASSUME MeaningInv, IdsInOrder, Running, NEW outcome, Finish(outcome),
         UNCHANGED <<model, next_request_id>>,
         \A r \in Range(record') : r.request_id \in 1 .. next_request_id - 1,
         \A c : /\ OfRun(c) /\ c.request_id = run.request_id
                /\ c.status = outcome.status /\ c.result = outcome.result
                => Allowed(record', c)
  PROVE  MeaningInv'
<1>. DEFINE answer == [request_id |-> run.request_id, graph |-> run.graph,
                       priority |-> run.priority, status |-> outcome.status,
                       result |-> outcome.result, mapped |-> Pages(memory),
                       payload |-> memory.pages[ATTENTION_PAGE].payload]
<1>1. completion' = <<answer>> /\ run' = Idle BY DEF Finish, Answer
<1>2. /\ OfRun(answer) /\ answer.request_id = run.request_id
      /\ answer.status = outcome.status /\ answer.result = outcome.result
  BY DEF OfRun
<1>. HIDE DEF answer
<1>3. Allowed(record', answer) BY <1>2
<1>4. \A c \in Range(completion') : Allowed(record, c)'
  <2>1. Range(completion') = {answer} BY <1>1 DEF Range
  <2>2. \A c \in Range(completion') : Allowed(record', c) BY <1>3, <2>1
  <2>3. \A c : Allowed(record, c)' <=> Allowed(record', c)
    <3>1. \A i, c : WordAt(c, i)' = WordAt(c, i) BY DEF WordAt
    <3>2. \A S, c : FoldedWords(c, S)' = FoldedWords(c, S) BY <3>1 DEF FoldedWords
    <3>. QED BY <3>2 DEF Allowed
  <2>. QED BY <2>2, <2>3
<1>5. ~ Running' BY <1>1 DEF Running
<1>. QED BY <1>4, <1>5 DEF MeaningInv

LEMMA CompleteMeans ==
  ASSUME MeaningInv, IdsInOrder, Running, NEW i \in ReadyIn(run.graph, run), ExecuteComplete(i)
  PROVE  MeaningInv'
<1>. DEFINE outcome == Outcome("OK", run.result)
            kept == [request_id |-> run.request_id,
                     cycles |-> run.cycles + NODE_SCHEDULER_CYCLES,
                     predicted_cycles |-> run.predicted + NODE_SCHEDULER_CYCLES,
                     output |-> run.output,
                     page_faults |-> memory.page_faults - run.start_faults,
                     migrations |-> memory.migrations - run.start_migrations]
<1>1. /\ Finish(outcome) /\ record' = <<kept>> /\ UNCHANGED <<model, next_request_id>>
      /\ run.graph[i].opcode = "COMPLETE"
  BY DEF ExecuteComplete, NodeAt
<1>2. Range(record') = {kept} /\ kept.request_id = run.request_id /\ kept.output = run.output
  BY <1>1 DEF Range
<1>. HIDE DEF kept
<1>3. run.request_id \in 1 .. next_request_id - 1 BY DEF IdsInOrder
<1>4. outcome.status = "OK" /\ outcome.result = <<"word", run.result>> BY DEF Outcome
<1>. HIDE DEF outcome
<1>5. ASSUME NEW c, OfRun(c), c.request_id = run.request_id,
             c.status = outcome.status, c.result = outcome.result
      PROVE  Allowed(record', c)
  <2>1. /\ Means(run, c) /\ GraphValid(c.graph, c.priority) /\ c.graph = run.graph
    BY <1>5, QuestionMeans
  <2>2. i \in ReadyIn(c.graph, run) /\ c.graph[i].opcode = "COMPLETE" BY <1>1, <2>1
  <2>3. \A q \in Range(record') : q.request_id = c.request_id => q.output = run.output
    BY <1>2
  <2>. QED BY <1>4, <1>5, <2>1, <2>2, <2>3, CompleteAllowed
<1>. QED BY <1>1, <1>2, <1>3, <1>5, FinishMeans

LEMMA RefuseMeans ==
  ASSUME MeaningInv, IdsInOrder, Running, NEW i \in ReadyIn(run.graph, run), RefuseNode(i)
  PROVE  MeaningInv'
<1>. DEFINE outcome == Outcome("GRAPH_INVALID", OpcodeWord(NodeAt(i).opcode))
<1>1. Finish(outcome) /\ UNCHANGED <<model, next_request_id, record>> BY DEF RefuseNode
<1>2. outcome.status = "GRAPH_INVALID" BY DEF Outcome
<1>. HIDE DEF outcome
<1>3. ASSUME NEW c, OfRun(c), c.status = outcome.status
      PROVE  Allowed(record', c)
  <2>1. /\ Means(run, c) /\ FiniteGraph(c.graph) /\ c.graph = run.graph
        /\ c.mapped = Pages(memory)
    BY <1>3, QuestionMeans DEF OfRun
  <2>2. i \in ReadyIn(c.graph, run) BY <2>1
  <2>3. \/ c.graph[i].opcode = "DMA" /\ PageOf(c.graph[i].operand0) \notin c.mapped
        \/ /\ c.graph[i].opcode = "TENSOR"
           /\ \/ c.graph[i].flags # GRAPH_FLAG_TENSOR_USE_PREVIOUS
              \/ run.attention = <<>>
        \/ c.graph[i].opcode = "RESERVED"
    BY <2>1 DEF RefuseNode, TensorAllowed, NodeAt
  <2>4. \/ i \notin Completing(c) /\ c.graph[i].opcode # "COMPLETE"
        \/ c.graph[i].opcode = "TENSOR" /\ run.attention = <<>>
    BY <2>3 DEF Completing
  <2>. QED BY <1>2, <1>3, <2>1, <2>2, <2>4, RefusalAllowed
<1>4. \A r \in Range(record') : r.request_id \in 1 .. next_request_id - 1
  BY <1>1 DEF MeaningInv
<1>. QED BY <1>1, <1>3, <1>4, FinishMeans

LEMMA StopMeans ==
  ASSUME MeaningInv, IdsInOrder, NothingReady
  PROVE  MeaningInv'
<1>. DEFINE outcome == Outcome(IF run.executed = DOMAIN run.graph THEN "GRAPH_INVALID"
                               ELSE "GRAPH_DEADLOCK", run.complete_mask)
<1>1. /\ Running /\ ReadyIn(run.graph, run) = {}
      /\ Finish(outcome) /\ UNCHANGED <<model, next_request_id, record>>
  BY DEF NothingReady
<1>2. /\ outcome.status = IF run.executed = DOMAIN run.graph THEN "GRAPH_INVALID"
                          ELSE "GRAPH_DEADLOCK"
      /\ outcome.result = <<"word", run.complete_mask>>
  BY DEF Outcome
<1>. HIDE DEF outcome
<1>3. ASSUME NEW c, OfRun(c), c.status = outcome.status, c.result = outcome.result
      PROVE  Allowed(record', c)
  <2>1. /\ Means(run, c) /\ FiniteGraph(c.graph) /\ GraphValid(c.graph, c.priority)
        /\ c.graph = run.graph
    BY <1>1, <1>3, QuestionMeans
  <2>. QED BY <1>1, <1>2, <1>3, <2>1, StopAllowed
<1>4. \A r \in Range(record') : r.request_id \in 1 .. next_request_id - 1
  BY <1>1 DEF MeaningInv
<1>. QED BY <1>1, <1>3, <1>4, FinishMeans

LEMMA GraphStepMeans ==
  ASSUME PrototypeInv, MeaningInv, IdsInOrder, GraphStep
  PROVE  MeaningInv'
<1>1. CASE NothingReady BY <1>1, StopMeans
<1>2. CASE ~ NothingReady
  <2>1. PICK i \in IF Running THEN FirstReadyIn(run.graph, run) ELSE {} :
          \/ ExecuteNop(i) \/ ExecuteDma(i) \/ ExecuteAttention(i)
          \/ ExecuteTensor(i) \/ ExecuteComplete(i) \/ RefuseNode(i)
    BY <1>2 DEF GraphStep
  <2>2. Running /\ i \in ReadyIn(run.graph, run) BY <2>1 DEF FirstReadyIn
  <2>. QED BY <2>1, <2>2, NodeMeans, CompleteMeans, RefuseMeans
<1>. QED BY <1>1, <1>2

\* A graph that begins has done nothing, one that is invalid is answered so.
LEMMA SubmitMeans ==
  ASSUME MeaningInv, IdsInOrder, NEW work, NEW traced, Submit(work, traced),
         FiniteGraph(work.graph)
  PROVE  MeaningInv'
<1>1. /\ next_request_id' = next_request_id + 1 /\ next_request_id \in Nat \ {0}
      /\ UNCHANGED <<model, memory, record>>
  BY DEF Submit, IdsInOrder
<1>2. \A r \in Range(record') : /\ r.request_id \in 1 .. next_request_id' - 1
                               /\ r.request_id < next_request_id
  BY <1>1 DEF MeaningInv
<1>3. CASE GraphValid(work.graph, work.priority)
  <2>. DEFINE begun == Begun(next_request_id, work)
  <2>1. run' = begun /\ UNCHANGED completion BY <1>3 DEF Submit
  <2>2. /\ begun.graph = work.graph /\ begun.priority = work.priority
        /\ begun.request_id = next_request_id /\ begun.executed = {}
        /\ begun.complete_mask = {} /\ begun.result = {}
        /\ begun.output = <<>> /\ begun.attention = <<>>
    BY DEF Begun
  <2>. HIDE DEF begun
  <2>3. ASSUME NEW c PROVE Means(begun, c)
    <3>1. IsFiniteSet({}) /\ Cardinality({}) = 0 BY FS_EmptySet
    <3>2. Reachable(c, {}) = {} BY <3>1, ReachableIsLeast DEF Following
    <3>3. IdsAt(c.graph, {}) = {} /\ FoldedWords(c, {}) = {} BY DEF IdsAt, FoldedWords
    <3>. QED BY <2>2, <3>2, <3>3 DEF Means
  <2>4. \A c : Means(run, c)'
    <3>1. \A c : Means(run', c) BY <2>1, <2>3
    <3>2. \A c : Means(run', c) => Means(run, c)' BY <1>1 DEF Means, FoldedWords, WordAt
    <3>. QED BY <3>1, <3>2
  <2>5. \A c \in Range(completion') : Allowed(record, c)'
    BY <1>1, <2>1, AllowedSame DEF MeaningInv
  <2>6. FiniteGraph(run.graph)' /\ GraphValid(run.graph, run.priority)'
    BY <1>3, <2>1, <2>2 DEF FiniteGraph, GraphValid
  <2>7. run'.request_id = next_request_id BY <2>1, <2>2
  <2>. QED BY <1>1, <1>2, <2>4, <2>5, <2>6, <2>7 DEF MeaningInv
<1>4. CASE ~ GraphValid(work.graph, work.priority)
  <2>1. UNCHANGED run /\ ~ Running' BY <1>4 DEF Submit, Running
  <2>2. \A c \in Range(completion') :
          /\ c.graph = work.graph /\ c.priority = work.priority
          /\ c.status = "GRAPH_INVALID"
    BY <1>4 DEF Submit, Answer, Range, Outcome
  <2>3. \A c \in Range(completion') : Allowed(record, c)'
    <3>1. \A c \in Range(completion') : Allowed(record, c) BY <1>4, <2>2 DEF Allowed
    <3>. QED BY <1>1, <3>1, AllowedSame
  <2>. QED BY <1>2, <2>1, <2>3 DEF MeaningInv
<1>. QED BY <1>3, <1>4

LEMMA MeaningKept ==
  ASSUME MeaningInv, UNCHANGED <<model, run, next_request_id, record, completion>>,
         Running => UNCHANGED memory
  PROVE  MeaningInv'
<1>1. \A c \in Range(completion') : Allowed(record, c)' BY AllowedSame DEF MeaningInv
<1>2. CASE Running
  <2>1. \A c : OfRun(c)' => OfRun(c) BY <1>2 DEF OfRun
  <2>2. \A c : Means(run, c) => Means(run, c)' BY DEF Means, FoldedWords, WordAt
  <2>3. Running' BY <1>2 DEF Running
  <2>. QED BY <1>1, <1>2, <2>1, <2>2, <2>3 DEF MeaningInv, FiniteGraph, GraphValid
<1>3. CASE ~ Running
  <2>1. ~ Running' BY <1>3 DEF Running
  <2>. QED BY <1>1, <2>1 DEF MeaningInv
<1>. QED BY <1>2, <1>3

LEMMA MeaningStep ==
  ASSUME PrototypeInv, IdsInOrder, MeaningInv, [Next]_vars
  PROVE  MeaningInv'
<1>1. CASE SubmitGraph
  <2>1. PICK work \in Graphs : Submit(work, FALSE) BY <1>1 DEF SubmitGraph
  <2>2. FiniteGraph(work.graph)
    <3>1. PICK T : work.graph \in Seq(T) BY PrototypeAssumption
    <3>. QED BY <3>1 DEF FiniteGraph
  <2>. QED BY <2>1, <2>2, SubmitMeans
<1>2. CASE SubmitToken
  <2>. DEFINE work == [graph |-> ToyGraph({0}), priority |-> 0]
  <2>1. Submit(work, TRUE) BY <1>2 DEF SubmitToken
  <2>2. FiniteGraph(work.graph) BY DEF FiniteGraph, ToyGraph
  <2>. HIDE DEF work
  <2>. QED BY <2>1, <2>2, SubmitMeans
<1>3. CASE GraphStep BY <1>3, GraphStepMeans
<1>4. CASE HostAccess BY <1>4, MeaningKept DEF HostAccess, device
<1>5. CASE NextRequest \/ CollectToken
  BY <1>5, MeaningKept DEF NextRequest, CollectToken, device
<1>6. CASE UNCHANGED vars BY <1>6, MeaningKept DEF vars, device
<1>. QED BY <1>1, <1>2, <1>3, <1>4, <1>5, <1>6 DEF Next

\* Every answer is one that the graph, the mapped pages and the content of page
\* 1 allow in some order of the nodes, whatever was evicted, remapped or aborted
\* before (_execute_graph).
THEOREM AnswersMean == Spec => []AnswersMeanGraph
<1>1. Init => MeaningInv
  <2>. SUFFICES ASSUME Init PROVE MeaningInv OBVIOUS
  <2>1. run = <<>> /\ record = <<>> /\ completion = <<>> BY DEF Init, Idle
  <2>2. Range(record) = {} /\ Range(completion) = {} /\ ~ Running
    BY <2>1 DEF Range, Running, Idle
  <2>. QED BY <2>2 DEF MeaningInv
<1>2. PrototypeInv /\ TraceInv /\ MeaningInv /\ [Next]_vars => MeaningInv'
  BY MeaningStep DEF TraceInv
<1>3. MeaningInv => AnswersMeanGraph
  <2>1. \A c : Allowed(record, c) =>
          LET all == DOMAIN c.graph
              reached == Reachable(c, all)
          IN  IF ~ GraphValid(c.graph, c.priority) THEN c.status = "GRAPH_INVALID"
              ELSE \/ c.status = "OK" /\ \E S \in SUBSET Completing(c) : CompletesAfter(c, S)
                   \/ /\ c.status = "GRAPH_INVALID"
                      /\ (Refusable(c) # {}) \/ (reached = all /\ Completing(c) = all)
                   \/ /\ c.status = "GRAPH_DEADLOCK"
                      /\ reached \subseteq Completing(c) /\ reached # all
                      /\ c.result = <<"word", IdsAt(c.graph, reached)>>
    BY DEF Allowed, CompletesAfter
  <2>. QED BY <2>1 DEF MeaningInv, AnswersMeanGraph
<1>. QED BY <1>1, <1>2, <1>3, Invariance, TraceAlways, PTL DEF Spec

=============================================================================

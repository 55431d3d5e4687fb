-------------------------------- MODULE El2Map --------------------------------
(***************************************************************************)
(* The identity map EL2 runs under: the ranges of the image in the order   *)
(* nova_el2_mmu_init maps them, and the builder that places each in the    *)
(* largest blocks its alignment allows (el2_mmu.cpp, stage1_tables.hpp).   *)
(* The map is built once, by the boot core, with the MMU off.              *)
(***************************************************************************)
EXTENDS Integers, Sequences, FiniteSets

CONSTANTS
  kEntries,      \* entries of a table
  kPageSize,
  kVaLimit,      \* what T0SZ lets the walker reach
  kPoolTables,   \* tables besides the root
  El2Layouts     \* the images considered

kBlockL2 == kEntries * kPageSize
kBlockL1 == kEntries * kBlockL2
\* Where core i keeps its stack: size and a guard page, downward from the top.
kStride(l) == l.stack + kPageSize

ASSUME El2Assumption ==
  /\ kEntries \in Nat \ {0} /\ kPageSize \in Nat \ {0} /\ kPoolTables \in Nat
  /\ kVaLimit \in 0..(kEntries * kBlockL1) /\ kVaLimit % kBlockL1 = 0

VARIABLES
  el2Layout,     \* this image: section boundaries and stacks
  el2Pc,         \* "map", "place", "on", or "parked"
  el2Call,       \* which of the calls of map() it is
  el2Base,       \* base, in the loop of map()
  el2Tables      \* the root and the tables taken from the pool

el2Vars == <<el2Layout, el2Pc, el2Call, el2Base, el2Tables>>

------------------------------------------------------------------------------
(* Descriptors.                                                             *)

NoAttrs == [memory |-> "none", ro |-> TRUE, xn |-> TRUE]
Free_ == [type |-> "invalid", at |-> 0, attrs |-> NoAttrs]
TableAt(n) == [type |-> "table", at |-> n, attrs |-> NoAttrs]
Empty_ == [i \in 0..(kEntries - 1) |-> Free_]

\* The presets: a memory type, AP[2] and XN.
kAttrDevice   == [memory |-> "device", ro |-> FALSE, xn |-> TRUE]
kAttrNormalRw == [memory |-> "normal", ro |-> FALSE, xn |-> TRUE]
kAttrNormalRx == [memory |-> "normal", ro |-> TRUE,  xn |-> FALSE]
kAttrNormalRo == [kAttrNormalRx EXCEPT !.xn = TRUE]

index(va, block) == (va \div block) % kEntries

------------------------------------------------------------------------------
(* The ranges of nova_el2_mmu_init.                                         *)

Range_(base, end, attrs) == [base |-> base, end |-> end, attrs |-> attrs]

\* The guard page of stack k, counted from the lowest: the loop runs from
\* the last core's down to the first's.
StackGuard(l, k) == l.stack_top - (k * kStride(l))

\* Writable memory, in fragments between the guard pages.
Fragments(l) ==
  [j \in 1..(l.cores + 1) |->
     LET cursor == IF j = 1 THEN l.rodata_end ELSE StackGuard(l, l.cores + 2 - j) + kPageSize
         end    == IF j > l.cores THEN l.ram_hi ELSE StackGuard(l, l.cores + 1 - j)
     IN Range_(cursor, end, kAttrNormalRw)]

El2Ranges(l) ==
  <<Range_(0, l.ram_lo, kAttrDevice), Range_(l.ram_lo, l.text_start, kAttrNormalRw),
    Range_(l.text_start, l.text_end, kAttrNormalRx), Range_(l.text_end, l.rodata_end, kAttrNormalRo)>>
  \o Fragments(l)

El2Init ==
  /\ el2Layout \in El2Layouts
  /\ el2Pc = "map" /\ el2Call = 1 /\ el2Base = 0
  /\ el2Tables = <<Empty_>>

------------------------------------------------------------------------------
(* Stage1Builder::map, an iteration of its loop at a time.                  *)

LastCall == Len(El2Ranges(el2Layout))
Now_ == El2Ranges(el2Layout)[el2Call]

\* What does not lie on pages, in order, below the limit is refused, and a
\* refusal stops the core.
Refused_(r) == r.base > r.end \/ r.end > kVaLimit \/ r.base % kPageSize # 0 \/ r.end % kPageSize # 0

MapRange ==
  /\ el2Pc = "map" /\ el2Call <= LastCall
  /\ IF Refused_(Now_) THEN el2Pc' = "parked" /\ UNCHANGED el2Base
     ELSE el2Pc' = "place" /\ el2Base' = Now_.base
  /\ UNCHANGED <<el2Layout, el2Call, el2Tables>>

RangeMapped ==
  /\ el2Pc = "place" /\ el2Base >= Now_.end
  /\ el2Pc' = "map" /\ el2Call' = el2Call + 1
  /\ UNCHANGED <<el2Layout, el2Base, el2Tables>>

FitsWhole(block) == el2Base % block = 0 /\ Now_.end - el2Base >= block

\* descend: the table behind an entry, from the pool when there is none.  A
\* block in the way, and an empty pool, leave none.
Descend(tables, t, block) ==
  LET i == index(el2Base, block)
      e == tables[t][i]
  IN IF e.type = "table" THEN [tables |-> tables, table |-> e.at]
     ELSE IF e.type # "invalid" \/ Len(tables) = kPoolTables + 1 THEN [tables |-> tables, table |-> 0]
     ELSE [tables |-> Append([tables EXCEPT ![t][i] = TableAt(Len(tables) + 1)], Empty_),
           table |-> Len(tables) + 1]

\* place: what is mapped stays as it is, and the range is refused.
PlaceAt(tables, t, block, type) ==
  LET i == index(el2Base, block) IN
  IF tables[t][i].type # "invalid" THEN el2Pc' = "parked" /\ el2Tables' = tables /\ UNCHANGED el2Base
  ELSE /\ el2Tables' = [tables EXCEPT ![t][i] = [type |-> type, at |-> el2Base, attrs |-> Now_.attrs]]
       /\ el2Base' = el2Base + block
       /\ UNCHANGED el2Pc

NoTable(tables) == el2Pc' = "parked" /\ el2Tables' = tables /\ UNCHANGED el2Base

PlaceStep ==
  /\ el2Pc = "place" /\ el2Base < Now_.end
  /\ LET l2 == Descend(el2Tables, 1, kBlockL1)
         l3 == Descend(l2.tables, l2.table, kBlockL2)
     IN IF FitsWhole(kBlockL1) THEN PlaceAt(el2Tables, 1, kBlockL1, "block")
        ELSE IF l2.table = 0 THEN NoTable(l2.tables)
        ELSE IF FitsWhole(kBlockL2) THEN PlaceAt(l2.tables, l2.table, kBlockL2, "block")
        ELSE IF l3.table = 0 THEN NoTable(l3.tables)
        ELSE PlaceAt(l3.tables, l3.table, kPageSize, "page")
  /\ UNCHANGED <<el2Layout, el2Call>>

\* nova_el2_stage1_enable: from here on the map is what EL2 sees.
Enable ==
  /\ el2Pc = "map" /\ el2Call > LastCall
  /\ el2Pc' = "on"
  /\ UNCHANGED <<el2Layout, el2Call, el2Base, el2Tables>>

El2Next == MapRange \/ PlaceStep \/ RangeMapped \/ Enable

El2Spec == El2Init /\ [][El2Next]_el2Vars

------------------------------------------------------------------------------
(* What the image asks for, and what the hardware walks.                    *)

Unmapped == [pa |-> -1, attrs |-> NoAttrs]

\* The walk from the root: a leaf adds the offset into its block.
Walk_(va) ==
  LET e1 == el2Tables[1][index(va, kBlockL1)]
      e2 == el2Tables[e1.at][index(va, kBlockL2)]
      e3 == el2Tables[e2.at][index(va, kPageSize)]
      Out(e, block) == IF e.type = "invalid" THEN Unmapped ELSE [pa |-> e.at + (va % block), attrs |-> e.attrs]
  IN IF e1.type # "table" THEN Out(e1, kBlockL1) ELSE IF e2.type # "table" THEN Out(e2, kBlockL2) ELSE Out(e3, kPageSize)

\* boot.S: the stack of core i is [top - i * stride - size, top - i * stride).
StackBottom(l, i) == l.stack_top - (i * kStride(l)) - l.stack
UnderAStack(l, va) == \E i \in 0..(l.cores - 1) : StackBottom(l, i) - kPageSize <= va /\ va < StackBottom(l, i)

Asked(l, va) ==
  IF va < l.ram_lo THEN kAttrDevice
  ELSE IF l.text_start <= va /\ va < l.text_end THEN kAttrNormalRx
  ELSE IF l.text_end <= va /\ va < l.rodata_end THEN kAttrNormalRo
  ELSE IF va < l.ram_hi /\ ~UnderAStack(l, va) THEN kAttrNormalRw
  ELSE NoAttrs

\* The tables a set of ranges takes: one for each block that some range cuts.
Cut(l, block) ==
  {b \in 0..((kVaLimit \div block) - 1) :
     \E i \in DOMAIN El2Ranges(l) :
       LET r == El2Ranges(l)[i] IN
       /\ r.base < (b + 1) * block /\ r.end > b * block
       /\ r.base > b * block \/ r.end < (b + 1) * block}

\* An image EL2 can be mapped for: sections on page boundaries and in order,
\* stacks behind them, all below the limit, and few enough boundaries.
Mappable(l) ==
  /\ \A i \in DOMAIN El2Ranges(l) : ~Refused_(El2Ranges(l)[i])
  /\ Cardinality(Cut(l, kBlockL1)) + Cardinality(Cut(l, kBlockL2)) <= kPoolTables

\* EL2 runs under exactly the map its image asks for: every address
\* translates to itself with the rights of its section, nothing is both
\* writable and executable, the page under each core's stack and what lies
\* beyond memory fault; and no image that can be mapped is refused.
El2MapExact ==
  /\ el2Pc = "on" => \A va \in 0..(kVaLimit - 1) :
       /\ Walk_(va) = IF Asked(el2Layout, va) = NoAttrs THEN Unmapped ELSE [pa |-> va, attrs |-> Asked(el2Layout, va)]
       /\ Walk_(va) # Unmapped => Walk_(va).attrs.ro \/ Walk_(va).attrs.xn
  /\ el2Pc = "on" => \A i \in 0..(el2Layout.cores - 1) :
       \A va \in StackBottom(el2Layout, i)..(StackBottom(el2Layout, i) + el2Layout.stack - 1) : Walk_(va).attrs = kAttrNormalRw
  /\ el2Pc \in {"on", "parked"} => (el2Pc = "on" <=> Mappable(el2Layout))
=============================================================================

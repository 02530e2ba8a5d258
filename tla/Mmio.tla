-------------------------------- MODULE Mmio --------------------------------
(***************************************************************************)
(* platform_map_mmio of src/kernel/platform.c: the pages of a device's     *)
(* registers are entered into the page tables that the firmware left, at   *)
(* their physical address plus direct_map_offset, uncached.  New tables    *)
(* come from a pool that is never returned to.                             *)
(*                                                                         *)
(* The firmware's direct map is what its entries say (FirmwareAssumption); *)
(* physical addresses are assumed to lie within what the tree spans        *)
(* (SpanAssumption), else a device's page would get the entry of another.  *)
(*                                                                         *)
(* Addresses in calls are bytes; in page tables they are page numbers.  A  *)
(* table has Fan entries and the tree Levels levels (4 or 5, as CR4 says). *)
(* The walk of map_mmio_page is modelled one level per step.               *)
(***************************************************************************)
EXTENDS Integers, FiniteSets

CONSTANTS
  Levels,     \* the levels of the tree
  Fan,        \* the entries of a table: 512
  PageSize,   \* PAGE_SIZE
  Max,        \* UINT64_MAX
  Offset,     \* direct_map_offset, in pages
  TableCount, \* MMIO_TABLE_COUNT
  Firmware,   \* how many tables the firmware made; table 0 is the root
  Trees,      \* what the firmware may have put into them
  Calls       \* the arguments callers pass: [physical, length] records

Tables == 0 .. (Firmware + TableCount - 1)
Slots == 0 .. (Fan - 1)

(***************************************************************************)
(* An entry leads to a table, or maps `span` pages from page `to` on; high *)
(* says whether a bit above the address, or the PAT bit of a large page,   *)
(* is set in it.                                                           *)
(***************************************************************************)
Absent == [kind |-> "absent", to |-> 0, span |-> 0, high |-> FALSE]
ToTable(t) == [kind |-> "table", to |-> t, span |-> 0, high |-> FALSE]
Page(n) == [kind |-> "page", to |-> n, span |-> 1, high |-> FALSE]

Empty == [s \in Slots |-> Absent]

ASSUME MmioAssumption ==
  /\ Levels \in Nat \ {0} /\ Fan \in Nat \ {0, 1} /\ PageSize \in Nat \ {0}
  /\ Max \in Nat /\ (Max + 1) % PageSize = 0
  /\ Offset \in Nat /\ TableCount \in Nat /\ Firmware \in Nat \ {0}
  /\ Calls \subseteq [physical : 0 .. Max, length : 0 .. Max]

-----------------------------------------------------------------------------

(* The pages that an entry of a table of the level covers: the shift. *)
Pages[level \in 1 .. (Levels + 1)] ==
  IF level = 1 THEN 1 ELSE Fan * Pages[level - 1]

(* The entry of such a table that page number v selects. *)
slot(v, level) == (v \div Pages[level]) % Fan

(* The page number that the code walks the tree for. *)
virtual(page) == (Offset + page) % ((Max + 1) \div PageSize)

(* Mutant: the shift of the level above. *)
IndexAbove(page, level) == slot(virtual(page), level + 1)

index(page, level) == slot(virtual(page), level)

start(c) == c.physical \div PageSize

(* The page after the last one, in 64 bits. *)
end(c) == ((c.physical + c.length + PageSize - 1) % (Max + 1)) \div PageSize

(***************************************************************************)
(* How the processor walks the tables T for page number v: the entry that  *)
(* it finds at each level, from the root's address on top to level 1; one  *)
(* that leads to no table is where the walk ends.                          *)
(***************************************************************************)
Walk(T, v) ==
  LET at[level \in 1 .. (Levels + 1)] ==
        IF level = Levels + 1 THEN ToTable(0)
        ELSE IF at[level + 1].kind = "table" THEN T[at[level + 1].to][slot(v, level)]
        ELSE at[level + 1]
  IN at

-----------------------------------------------------------------------------

(* The tables when the kernel starts: the firmware's, and an empty pool. *)
Initial(tree) == [t \in Tables |-> IF t < Firmware THEN tree[t] ELSE Empty]

EntryType ==
  [kind : {"absent", "table", "page"}, to : Nat, span : Nat, high : BOOLEAN]

(***************************************************************************)
(* height gives each table of T its level: the root is at the top, what an *)
(* entry leads to is one level down, and level 1 maps single pages.        *)
(***************************************************************************)
Levelled(T, height) ==
  /\ height[0] = Levels
  /\ \A t \in Tables, s \in Slots :
       /\ T[t][s].kind = "table" => /\ T[t][s].to \in Tables
                                    /\ height[T[t][s].to] = height[t] - 1
       /\ T[t][s].kind = "page" => T[t][s].span = Pages[height[t]]

(* The entries of T that lead to t. *)
LinksTo(T, t) ==
  {l \in Tables \X Slots : T[l[1]][l[2]].kind = "table" /\ T[l[1]][l[2]].to = t}

(* Of the tables below n all but the root have one link, the others none. *)
Tree(T, n) ==
  \A t \in Tables : Cardinality(LinksTo(T, t)) = IF t \in 1 .. (n - 1) THEN 1 ELSE 0

(* A call that is not refused at once. *)
Accepted(c) == Offset # 0 /\ c.length # 0 /\ c.physical <= Max - c.length

(* The pages that calls are about. *)
Wanted == UNION {start(c) .. (end(c) - 1) : c \in {d \in Calls : Accepted(d)}}

(***************************************************************************)
(* The firmware's tables are a tree of the levels that CR4 says, and where *)
(* its direct map has single pages, they are mapped to themselves.  Large  *)
(* pages may be anything: the code compares them.                          *)
(***************************************************************************)
ASSUME FirmwareAssumption ==
  \A tree \in Trees :
    LET T == Initial(tree) IN
    /\ T \in [Tables -> [Slots -> EntryType]]
    /\ \E height \in [Tables -> 1 .. Levels] : Levelled(T, height)
    /\ Tree(T, Firmware)
    /\ \A page \in Wanted :
         LET at == Walk(T, virtual(page)) IN
         at[2].kind = "table" /\ at[1].kind = "page" => at[1].to = page

(* Physical memory lies within what the tree spans. *)
ASSUME SpanAssumption ==
  \A p, q \in Wanted :
    (\A level \in 1 .. Levels : slot(virtual(p), level) = slot(virtual(q), level)) => p = q

VARIABLES
  tables,                \* the page tables
  mmio_page_table_count, \* how many tables of the pool are taken
  call,                  \* the call of platform_map_mmio under way, or Idle
  promised               \* history: the pages calls have returned a pointer for

vars == <<tables, mmio_page_table_count, call, promised>>

Idle == [physical |-> 0, length |-> 0, page |-> 0, level |-> 0, table |-> 0]

-----------------------------------------------------------------------------

Init ==
  /\ \E tree \in Trees : tables = Initial(tree)
  /\ mmio_page_table_count = 0
  /\ call = Idle
  /\ promised = {}

(* platform_map_mmio; a refused call returns NULL and is no step. *)
platform_map_mmio(c) ==
  /\ call = Idle
  /\ Accepted(c)
  /\ call' = [physical |-> c.physical, length |-> c.length,
              page |-> start(c), level |-> Levels, table |-> 0]
  /\ UNCHANGED <<tables, mmio_page_table_count, promised>>

Walking == call # Idle /\ call.page < end(call)

Entry == tables[call.table][index(call.page, call.level)]

Put(entry) == [tables EXCEPT ![call.table][index(call.page, call.level)] = entry]

(* The walk goes on in table t, one level down. *)
Descend(t) == call' = [call EXCEPT !.table = t, !.level = @ - 1]

(* map_mmio_page returns true: on to the next page. *)
NextPage == call' = [call EXCEPT !.page = @ + 1, !.level = Levels, !.table = 0]

Follow ==
  /\ Walking /\ call.level > 1
  /\ Entry.kind = "table"
  /\ Descend(Entry.to)
  /\ UNCHANGED <<tables, mmio_page_table_count, promised>>

(* Mutant: whatever the large page maps will do. *)
MapsAnything(entry) == ~entry.high

(* The large page maps this very page; bits above its address are compared. *)
MapsSelf(entry) ==
  ~entry.high /\ entry.to + (virtual(call.page) % entry.span) = call.page

(* Part of a large page: it is mapped, or the whole call fails. *)
Large ==
  /\ Walking /\ call.level > 1
  /\ Entry.kind = "page"
  /\ IF MapsSelf(Entry) THEN NextPage ELSE call' = Idle
  /\ UNCHANGED <<tables, mmio_page_table_count, promised>>

(* Mutant: the count of tables taken is not kept. *)
AllocateFirst ==
  LET next == Firmware IN
  /\ Walking /\ call.level > 1
  /\ Entry.kind = "absent"
  /\ mmio_page_table_count < TableCount
  /\ tables' = [Put(ToTable(next)) EXCEPT ![next] = Empty]
  /\ Descend(next)
  /\ UNCHANGED <<mmio_page_table_count, promised>>

(* Mutant: the pool is taken for endless. *)
AllocateUnchecked ==
  LET next == Firmware + mmio_page_table_count IN
  /\ Walking /\ call.level > 1
  /\ Entry.kind = "absent"
  /\ mmio_page_table_count' = mmio_page_table_count + 1
  /\ tables' = [Put(ToTable(next)) EXCEPT ![next] = Empty]
  /\ Descend(next)
  /\ UNCHANGED promised

(* allocate_page_table: a zeroed table of the pool is linked in. *)
Allocate ==
  LET next == Firmware + mmio_page_table_count IN
  /\ Walking /\ call.level > 1
  /\ Entry.kind = "absent"
  /\ mmio_page_table_count < TableCount
  /\ mmio_page_table_count' = mmio_page_table_count + 1
  /\ tables' = [Put(ToTable(next)) EXCEPT ![next] = Empty]
  /\ Descend(next)
  /\ UNCHANGED promised

(* The pool is empty: NULL, and what was mapped stays. *)
Exhausted ==
  /\ Walking /\ call.level > 1
  /\ Entry.kind = "absent"
  /\ mmio_page_table_count >= TableCount
  /\ call' = Idle
  /\ UNCHANGED <<tables, mmio_page_table_count, promised>>

(* The last level: the page is entered, whatever was there. *)
MapPage ==
  /\ Walking /\ call.level = 1
  /\ tables' = Put(Page(call.page))
  /\ NextPage
  /\ UNCHANGED <<mmio_page_table_count, promised>>

(* All pages are done: the pointer is returned. *)
Return ==
  /\ call # Idle /\ ~Walking
  /\ promised' = promised \cup (start(call) .. (end(call) - 1))
  /\ call' = Idle
  /\ UNCHANGED <<tables, mmio_page_table_count>>

Continue == Follow \/ Large \/ Allocate \/ Exhausted \/ MapPage \/ Return

Next == (\E c \in Calls : platform_map_mmio(c)) \/ Continue

Spec == Init /\ [][Next]_vars

-----------------------------------------------------------------------------

TypeOK ==
  /\ tables \in [Tables -> [Slots -> EntryType]]
  /\ mmio_page_table_count \in 0 .. TableCount
  /\ call.level \in 0 .. Levels /\ call.table \in Tables
  /\ call.physical \in 0 .. Max /\ call.length \in 0 .. Max /\ call.page \in 0 .. Max
  /\ promised \subseteq 0 .. Max

Unmapped == -1

(* What the processor translates page number v to. *)
TranslatedIn(T, v) ==
  LET entry == Walk(T, v)[1] IN
  IF entry.kind = "page" THEN entry.to + (v % entry.span) ELSE Unmapped

Translated(v) == TranslatedIn(tables, v)

(***************************************************************************)
(* A pointer that was returned is good for its whole range, and stays so   *)
(* whatever is mapped, or fails to be, later.                              *)
(***************************************************************************)
PromisesKept == \A page \in promised : Translated(virtual(page)) = page

(* Mapping a device changes no translation there was before: neither the   *)
(* firmware's nor another device's.                                        *)
TranslationsKept ==
  [][\A v \in 0 .. (Pages[Levels + 1] - 1) :
       Translated(v) # Unmapped => Translated(v)' = Translated(v)]_vars

(***************************************************************************)
(* The tables stay a tree: every table but the root is linked from one     *)
(* entry at most, and those of the pool from one exactly once taken.       *)
(***************************************************************************)
TablesFormTree == Tree(tables, Firmware + mmio_page_table_count)
=============================================================================

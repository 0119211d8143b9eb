------------------------- MODULE GuestMemory_proofs -------------------------
(***************************************************************************)
(* Proofs about guest memory.                                              *)
(*                                                                         *)
(* The inductive invariant has three parts, each with the position of       *)
(* main(): the VMs below c have their tables, and n image pages of VM c - 1 *)
(* are loaded.  BaseInv holds whatever the guests do.  RamInv needs guests  *)
(* that stay within their RAM (StaysInRam), ImageInv also an allocator with *)
(* a page for every page of RAM (RamFits).                                 *)
(***************************************************************************)
EXTENDS GuestMemory, FiniteSetTheorems, SequenceTheorems, TLAPS

Block(p) == p \div Entries
Index(p) == p % Entries

\* A page is the block it lies in and its place there.
LEMMA BlockIndex ==
  ASSUME NEW p \in Nat
  PROVE  Block(p) \in Nat /\ Index(p) \in 0 .. Entries - 1 /\ p = Entries * Block(p) + Index(p)
  BY LayoutAssumption DEF Block, Index

\* ... and only this.
LEMMA BlockIndexUnique ==
  ASSUME NEW b \in Nat, NEW i \in 0 .. Entries - 1
  PROVE  Block(Entries * b + i) = b /\ Index(Entries * b + i) = i
  BY LayoutAssumption DEF Block, Index

\* Multiplication by a positive number preserves the order.
LEMMA TimesMonotone ==
  ASSUME NEW a \in Nat, NEW b \in Nat, NEW e \in Nat \ {0}
  PROVE  (e * a < e * b) <=> (a < b)
  <1>1. ASSUME NEW x \in Nat, NEW y \in Nat, x < y PROVE e * x < e * y
    <2>1. PICK d \in Nat \ {0} : y = x + d
      <3>1. y - x \in Nat \ {0} /\ y = x + (y - x)
        BY <1>1
      <3> QED BY <3>1
    <2>2. e * (x + d) = e * x + e * d
      OBVIOUS
    <2>3. e * d \in Nat \ {0}
      OBVIOUS
    <2>4. e * x \in Nat
      OBVIOUS
    <2> QED BY <2>1, <2>2, <2>3, <2>4
  <1>2. CASE a < b
    BY <1>1, <1>2
  <1>3. CASE a = b
    BY <1>3
  <1>4. CASE b < a
    <2>1. e * b < e * a
      BY <1>1, <1>4
    <2>2. e * b \in Nat /\ e * a \in Nat
      OBVIOUS
    <2> QED BY <2>1, <2>2, <1>4
  <1> QED BY <1>2, <1>3, <1>4

\* The blocks of pages of the address space are its blocks.
LEMMA BlockInRange ==
  ASSUME NEW p \in Pages
  PROVE  Block(p) \in Blocks /\ Index(p) \in 0 .. Entries - 1
  <1>0. p \in Nat /\ AddrPages \in Nat /\ p < AddrPages /\ Entries \in Nat \ {0}
    BY LayoutAssumption DEF Pages
  <1>1. /\ AddrPages = Entries * Block(AddrPages) + Index(AddrPages)
        /\ Block(AddrPages) \in Nat /\ Index(AddrPages) = 0
    BY <1>0, BlockIndex, LayoutAssumption DEF Index
  <1>2. p = Entries * Block(p) + Index(p) /\ Block(p) \in Nat /\ Index(p) \in 0 .. Entries - 1
    BY <1>0, BlockIndex
  <1>3. Entries * Block(p) < Entries * Block(AddrPages)
    <2>1. Entries * Block(p) \in Nat /\ Entries * Block(AddrPages) \in Nat
      BY <1>0, <1>1, <1>2
    <2> QED BY <2>1, <1>0, <1>1, <1>2
  <1>4. Block(p) < Block(AddrPages)
    BY <1>0, <1>1, <1>2, <1>3, TimesMonotone
  <1> QED BY <1>4, <1>2, <1>1 DEF Blocks, Block

(***************************************************************************)
(* Page tables.                                                            *)
(***************************************************************************)
Kinds  == {"ram"} \cup Devs
Phys   == [kind : Kinds, n : Nat]
Descs  == [type : {"page"}, out : Phys]
L2Desc == {Invalid} \cup [type : {"table"}, out : 0 .. MaxTables - 1]
                    \cup [type : {"block"}, out : [kind : {"ram"}, n : Nat]]
L3Desc == {Invalid, Uninit} \cup Descs
Tables == [l2 : [Blocks -> L2Desc],
           l3 : [0 .. MaxTables - 1 -> [0 .. Entries - 1 -> L3Desc]],
           page_count : 0 .. MaxTables]

Unknown == Pa("unknown", 0)

\* A block's level 3 table is one that was handed out, and to no other block; the
\* tables not yet handed out are as pagetable_init left them, and in the ones it
\* cleared every entry is known.
WellFormed(t) ==
  /\ t \in Tables
  /\ \A b \in Blocks : t.l2[b].type = "table" => t.l2[b].out < t.page_count
  /\ \A b, c \in Blocks : t.l2[b].type = "table" /\ t.l2[c].type = "table" /\ t.l2[b].out = t.l2[c].out => b = c
  /\ \A k \in 0 .. MaxTables - 1, i \in 0 .. Entries - 1 :
       t.page_count <= k => t.l3[k][i] = (IF k < L3Tables THEN Invalid ELSE Uninit)
  /\ \A k \in 0 .. MaxTables - 1, i \in 0 .. Entries - 1 :
       k < L3Tables => t.l3[k][i].type # "uninit"

NewTable(t, b) == t.l2[b].type # "table"
TableOf(t, b) == IF NewTable(t, b) THEN t.page_count ELSE t.l2[b].out

\* The fields of the table that pagetable_set_page returns.
LEMMA SetPageFields ==
  ASSUME NEW t, NEW p, NEW pa
  PROVE  pagetable_set_page(t, p, pa) =
           [l2 |-> [t.l2 EXCEPT ![Block(p)] = [type |-> "table", out |-> TableOf(t, Block(p))]],
            l3 |-> [t.l3 EXCEPT ![TableOf(t, Block(p))][Index(p)] = [type |-> "page", out |-> pa]],
            page_count |-> IF NewTable(t, Block(p)) THEN t.page_count + 1 ELSE t.page_count]
  BY DEF pagetable_set_page, Block, Index, TableOf, NewTable

FieldsSet(t, u, p, pa) ==
  LET k == TableOf(t, Block(p))
  IN  /\ u \in Tables /\ k \in 0 .. MaxTables - 1
      /\ u.l2 = [t.l2 EXCEPT ![Block(p)] = [type |-> "table", out |-> k]]
      /\ u.l3 = [t.l3 EXCEPT ![k][Index(p)] = [type |-> "page", out |-> pa]]
      /\ u.page_count = IF NewTable(t, Block(p)) THEN t.page_count + 1 ELSE t.page_count

\* What pagetable_set_page writes.
LEMMA SetFields ==
  ASSUME NEW t, WellFormed(t), NEW p \in Pages, NEW pa \in Phys, t.page_count < MaxTables
  PROVE  FieldsSet(t, pagetable_set_page(t, p, pa), p, pa)
  <1> DEFINE b == Block(p)
             k == TableOf(t, b)
             u == pagetable_set_page(t, p, pa)
             x == [type |-> "table", out |-> k]
             y == [type |-> "page", out |-> pa]
  <1>1. b \in Blocks /\ Index(p) \in 0 .. Entries - 1
    BY BlockInRange
  <1>2. t \in Tables
    BY DEF WellFormed
  <1>3. t.l2 \in [Blocks -> L2Desc] /\ t.page_count \in 0 .. MaxTables
        /\ t.l3 \in [0 .. MaxTables - 1 -> [0 .. Entries - 1 -> L3Desc]]
    BY <1>2 DEF Tables
  <1>4. k \in 0 .. MaxTables - 1
    <2>1. t.l2[b] \in L2Desc
      BY <1>1, <1>3
    <2>2. t.l2[b].type = "table" => t.l2[b].out \in 0 .. MaxTables - 1
      BY <2>1 DEF L2Desc, Invalid
    <2>3. t.page_count \in 0 .. MaxTables - 1
      BY <1>3, TablesAssumption
    <2> QED BY <2>2, <2>3 DEF TableOf, NewTable
  <1>5. x \in L2Desc /\ y \in L3Desc
    BY <1>4 DEF L2Desc, L3Desc, Descs
  <1>6. u = [l2 |-> [t.l2 EXCEPT ![b] = x], l3 |-> [t.l3 EXCEPT ![k][Index(p)] = y],
             page_count |-> IF NewTable(t, b) THEN t.page_count + 1 ELSE t.page_count]
    BY SetPageFields
  <1> HIDE DEF x, y, k
  <1>7. /\ u.l2 = [t.l2 EXCEPT ![b] = x]
        /\ u.l3 = [t.l3 EXCEPT ![k][Index(p)] = y]
        /\ u.page_count = IF NewTable(t, b) THEN t.page_count + 1 ELSE t.page_count
        /\ u = [l2 |-> u.l2, l3 |-> u.l3, page_count |-> u.page_count]
    BY <1>6
  <1>8. u.l2 \in [Blocks -> L2Desc]
    BY <1>7, <1>3, <1>5
  <1>9. u.l3 \in [0 .. MaxTables - 1 -> [0 .. Entries - 1 -> L3Desc]]
    <2> DEFINE row == [t.l3[k] EXCEPT ![Index(p)] = y]
    <2>1. row \in [0 .. Entries - 1 -> L3Desc]
      BY <1>3, <1>5, <1>4, <1>1
    <2>2. u.l3 = [t.l3 EXCEPT ![k] = row]
      BY <1>7
    <2> HIDE DEF row
    <2> QED BY <2>1, <2>2, <1>3, <1>4
  <1>10. u.page_count \in 0 .. MaxTables
    BY <1>7, <1>3, TablesAssumption
  <1>11. u \in Tables
    BY <1>7, <1>8, <1>9, <1>10 DEF Tables
  <1> QED BY <1>4, <1>7, <1>11 DEF x, y, k, FieldsSet

\* Every descriptor says what kind it is.
LEMMA DescTypes ==
  ASSUME NEW t, WellFormed(t), NEW b \in Blocks, NEW k \in 0 .. MaxTables - 1,
         NEW i \in 0 .. Entries - 1
  PROVE  /\ t.l2[b] \in L2Desc /\ t.l2[b].type \in {"invalid", "table", "block"}
         /\ t.l2[b].type = "table" => t.l2[b].out \in 0 .. MaxTables - 1
         /\ t.l3[k][i] \in L3Desc /\ t.l3[k][i].type \in {"invalid", "uninit", "page"}
         /\ t.page_count \in 0 .. MaxTables
  <1>1. t.l2[b] \in L2Desc /\ t.l3[k][i] \in L3Desc /\ t.page_count \in 0 .. MaxTables
    BY DEF WellFormed, Tables
  <1>2. t.l2[b].type \in {"invalid", "table", "block"}
        /\ (t.l2[b].type = "table" => t.l2[b].out \in 0 .. MaxTables - 1)
    BY <1>1 DEF L2Desc, Invalid
  <1>3. t.l3[k][i].type \in {"invalid", "uninit", "page"}
    BY <1>1 DEF L3Desc, Invalid, Uninit, Descs
  <1> QED BY <1>1, <1>2, <1>3

\* The walk in the terms of this module.
LEMMA Walk ==
  ASSUME NEW t, WellFormed(t), NEW p \in Pages
  PROVE  LET d == t.l2[Block(p)]
             e == t.l3[d.out][Index(p)]
         IN  /\ d.type = "block" => Translate(t, p) = Pa(d.out.kind, d.out.n + Index(p))
             /\ d.type = "invalid" => Translate(t, p) = Fault
             /\ d.type = "table" /\ e.type = "page" => Translate(t, p) = e.out
             /\ d.type = "table" /\ e.type = "invalid" => Translate(t, p) = Fault
             /\ d.type = "table" /\ e.type = "uninit" => Translate(t, p) = Unknown
  BY DEF Translate, Block, Index, Unknown

\* Tables with the same entries for a page translate it alike.
LEMMA SameWalk ==
  ASSUME NEW t, NEW u, NEW p, u.l2[Block(p)] = t.l2[Block(p)],
         t.l2[Block(p)].type = "table" =>
           u.l3[t.l2[Block(p)].out][Index(p)] = t.l3[t.l2[Block(p)].out][Index(p)]
  PROVE  Translate(u, p) = Translate(t, p)
  <1>1. CASE t.l2[Block(p)].type = "table"
    BY <1>1 DEF Translate, Block, Index
  <1>2. CASE t.l2[Block(p)].type # "table"
    BY <1>2 DEF Translate, Block, Index
  <1> QED BY <1>1, <1>2

\* The same for two table descriptors that point to the same table.
LEMMA SameTable ==
  ASSUME NEW t, NEW u, NEW p,
         t.l2[Block(p)].type = "table", u.l2[Block(p)].type = "table",
         u.l2[Block(p)].out = t.l2[Block(p)].out,
         u.l3[t.l2[Block(p)].out][Index(p)] = t.l3[t.l2[Block(p)].out][Index(p)]
  PROVE  Translate(u, p) = Translate(t, p)
  BY DEF Translate, Block, Index

\* pagetable_set_page keeps the tables well formed.
LEMMA SetWellFormed ==
  ASSUME NEW t, WellFormed(t), NEW p \in Pages, NEW pa \in Phys, t.page_count < MaxTables
  PROVE  WellFormed(pagetable_set_page(t, p, pa))
  <1> DEFINE b == Block(p)
             k == TableOf(t, b)
             u == pagetable_set_page(t, p, pa)
  <1>1. /\ u \in Tables /\ k \in 0 .. MaxTables - 1
        /\ u.l2 = [t.l2 EXCEPT ![b] = [type |-> "table", out |-> k]]
        /\ u.l3 = [t.l3 EXCEPT ![k][Index(p)] = [type |-> "page", out |-> pa]]
        /\ u.page_count = IF NewTable(t, b) THEN t.page_count + 1 ELSE t.page_count
    <2>1. FieldsSet(t, u, p, pa)
      BY SetFields
    <2> HIDE DEF u
    <2> QED BY <2>1 DEF FieldsSet
  <1>2. b \in Blocks /\ Index(p) \in 0 .. Entries - 1
    BY BlockInRange
  <1>3. /\ t.l2 \in [Blocks -> L2Desc] /\ t.page_count \in 0 .. MaxTables
        /\ t.l3 \in [0 .. MaxTables - 1 -> [0 .. Entries - 1 -> L3Desc]]
    BY DEF WellFormed, Tables
  <1>4. \A c \in Blocks : u.l2[c] = IF c = b THEN [type |-> "table", out |-> k] ELSE t.l2[c]
    BY <1>1, <1>2, <1>3
  <1>5. \A j \in 0 .. MaxTables - 1, i \in 0 .. Entries - 1 : j # k => u.l3[j][i] = t.l3[j][i]
    BY <1>1, <1>2, <1>3
  <1>6. \A c \in Blocks : t.l2[c].type = "table" => t.l2[c].out \in 0 .. t.page_count - 1
    BY DescTypes, <1>3, <1>1, <1>2 DEF WellFormed
  <1>7. k < u.page_count /\ t.page_count <= u.page_count
    <2>1. CASE NewTable(t, b)
      <3>1. k = t.page_count /\ u.page_count = t.page_count + 1 /\ t.page_count \in Nat
        BY <1>1, <1>3, <2>1 DEF TableOf
      <3> HIDE DEF u, k
      <3> QED BY <3>1
    <2>2. CASE ~NewTable(t, b)
      <3>1. k = t.l2[b].out /\ u.page_count = t.page_count /\ t.page_count \in Nat
            /\ t.l2[b].type = "table"
        BY <1>1, <1>3, <2>2 DEF TableOf, NewTable
      <3>2. k \in 0 .. t.page_count - 1
        BY <3>1, <1>2, <1>6
      <3> HIDE DEF u, k
      <3> QED BY <3>1, <3>2
    <2> QED BY <2>1, <2>2
  <1>8. \A c \in Blocks : c # b /\ t.l2[c].type = "table" => t.l2[c].out # k
    <2>1. CASE NewTable(t, b)
      BY <2>1, <1>3, <1>6 DEF TableOf
    <2>2. CASE ~NewTable(t, b)
      BY <2>2, <1>2 DEF TableOf, NewTable, WellFormed
    <2> QED BY <2>1, <2>2
  <1> HIDE DEF u, k, b
  <1>9. \A c \in Blocks : u.l2[c].type = "table" => u.l2[c].out < u.page_count
    <2> TAKE c \in Blocks
    <2>1. CASE c = b
      BY <2>1, <1>4, <1>7
    <2>2. CASE c # b
      BY <2>2, <1>4, <1>6, <1>7, <1>3, <1>1 DEF Tables
    <2> QED BY <2>1, <2>2
  <1>10. \A c, d \in Blocks :
           u.l2[c].type = "table" /\ u.l2[d].type = "table" /\ u.l2[c].out = u.l2[d].out => c = d
    BY <1>4, <1>8 DEF WellFormed
  <1>11. \A j \in 0 .. MaxTables - 1, i \in 0 .. Entries - 1 :
           u.page_count <= j => u.l3[j][i] = (IF j < L3Tables THEN Invalid ELSE Uninit)
    <2> TAKE j \in 0 .. MaxTables - 1, i \in 0 .. Entries - 1
    <2> HAVE u.page_count <= j
    <2>0. u.page_count \in Nat /\ t.page_count \in Nat
      BY <1>1, <1>3 DEF Tables
    <2>1. j # k /\ t.page_count <= j
      BY <2>0, <1>7, <1>1
    <2> QED BY <2>1, <1>5 DEF WellFormed
  <1>13. \A j \in 0 .. MaxTables - 1, i \in 0 .. Entries - 1 :
           j < L3Tables => u.l3[j][i].type # "uninit"
    <2> TAKE j \in 0 .. MaxTables - 1, i \in 0 .. Entries - 1
    <2> HAVE j < L3Tables
    <2>1. t.l3[j][i].type # "uninit"
      BY DEF WellFormed
    <2> DEFINE y == [type |-> "page", out |-> pa]
    <2>2. y.type # "uninit" /\ u.l3 = [t.l3 EXCEPT ![k][Index(p)] = y]
      BY <1>1
    <2> HIDE DEF y
    <2>3. u.l3[j][i] = t.l3[j][i] \/ u.l3[j][i] = y
      BY <2>2, <1>1, <1>2, <1>3
    <2> QED BY <2>1, <2>2, <2>3
  <1>12. WellFormed(u)
    BY <1>1, <1>9, <1>10, <1>11, <1>13 DEF WellFormed
  <1> QED BY <1>12 DEF u

\* What an update may do to the translation of another address: nothing, or make
\* it unpredictable when the address shares a new table that was not cleared.
Kept(t, u, q) ==
  \/ Translate(u, q) = Translate(t, q)
  \/ Translate(t, q) = Fault /\ Translate(u, q) = Unknown /\ L3Tables < u.page_count

Sets(t, u, p, pa) ==
  /\ WellFormed(u)
  /\ t.page_count <= u.page_count /\ u.page_count <= t.page_count + 1
  /\ Translate(u, p) = pa
  /\ \A q \in Pages : q # p => Kept(t, u, q)
  /\ \A b \in Blocks : u.l2[b] = t.l2[b] \/ (b = Block(p) /\ u.l2[b].type = "table")

\* What pagetable_set_page promises, for an address not mapped by a block.
LEMMA SetPage ==
  ASSUME NEW t, WellFormed(t), NEW p \in Pages, NEW pa \in Phys, t.page_count < MaxTables,
         t.l2[Block(p)].type # "block"
  PROVE  Sets(t, pagetable_set_page(t, p, pa), p, pa)
  <1> DEFINE b == Block(p)
             k == TableOf(t, b)
             u == pagetable_set_page(t, p, pa)
  <1>1. /\ u \in Tables /\ k \in 0 .. MaxTables - 1
        /\ u.l2 = [t.l2 EXCEPT ![b] = [type |-> "table", out |-> k]]
        /\ u.l3 = [t.l3 EXCEPT ![k][Index(p)] = [type |-> "page", out |-> pa]]
        /\ u.page_count = IF NewTable(t, b) THEN t.page_count + 1 ELSE t.page_count
    <2>1. FieldsSet(t, u, p, pa)
      BY SetFields
    <2> HIDE DEF u
    <2> QED BY <2>1 DEF FieldsSet
  <1>2. b \in Blocks /\ Index(p) \in 0 .. Entries - 1
    BY BlockInRange
  <1>3. /\ t.l2 \in [Blocks -> L2Desc] /\ t.page_count \in 0 .. MaxTables
        /\ t.l3 \in [0 .. MaxTables - 1 -> [0 .. Entries - 1 -> L3Desc]]
    BY DEF WellFormed, Tables
  <1>4. \A c \in Blocks : u.l2[c] = IF c = b THEN [type |-> "table", out |-> k] ELSE t.l2[c]
    BY <1>1, <1>2, <1>3
  <1>5. \A j \in 0 .. MaxTables - 1, i \in 0 .. Entries - 1 :
          u.l3[j][i] = IF j = k /\ i = Index(p) THEN [type |-> "page", out |-> pa] ELSE t.l3[j][i]
    <2> DEFINE row == [t.l3[k] EXCEPT ![Index(p)] = [type |-> "page", out |-> pa]]
    <2>1. u.l3 = [t.l3 EXCEPT ![k] = row]
      BY <1>1
    <2>2. \A i \in 0 .. Entries - 1 :
            row[i] = IF i = Index(p) THEN [type |-> "page", out |-> pa] ELSE t.l3[k][i]
      BY <1>1, <1>2, <1>3
    <2> HIDE DEF row, k, u
    <2>3. \A j \in 0 .. MaxTables - 1 : u.l3[j] = IF j = k THEN row ELSE t.l3[j]
      BY <2>1, <1>1, <1>3
    <2> QED BY <2>2, <2>3
  <1>6. \A c \in Blocks : t.l2[c].type = "table" => t.l2[c].out \in 0 .. t.page_count - 1
    BY DescTypes, <1>3, <1>1, <1>2 DEF WellFormed
  <1>8. \A c \in Blocks : c # b /\ t.l2[c].type = "table" => t.l2[c].out # k
    <2>1. CASE NewTable(t, b)
      BY <2>1, <1>3, <1>6 DEF TableOf
    <2>2. CASE ~NewTable(t, b)
      BY <2>2, <1>2 DEF TableOf, NewTable, WellFormed
    <2> QED BY <2>1, <2>2
  <1>9. WellFormed(u)
    BY SetWellFormed
  <1>10. k = (IF t.l2[b].type = "table" THEN t.l2[b].out ELSE t.page_count)
         /\ u.page_count = (IF t.l2[b].type = "table" THEN t.page_count ELSE t.page_count + 1)
    BY <1>1 DEF TableOf, NewTable
  <1>11. \A q \in Pages : q # p /\ Block(q) = b => Index(q) # Index(p)
    <2> TAKE q \in Pages
    <2>1. q \in Nat /\ p \in Nat
      BY LayoutAssumption DEF Pages
    <2>2. q = Entries * Block(q) + Index(q) /\ p = Entries * b + Index(p)
      BY <2>1, BlockIndex
    <2> QED BY <2>2
  <1> HIDE DEF u, k, b
  <1>12. Translate(u, p) = pa
    <2>1. Block(p) = b
      BY DEF b
    <2>2. u.l2[b].type = "table" /\ u.l2[b].out = k
      BY <1>4, <1>2
    <2>3. u.l3[k][Index(p)].type = "page" /\ u.l3[k][Index(p)].out = pa
      BY <1>5, <1>1, <1>2
    <2> QED BY <2>1, <2>2, <2>3, Walk, <1>9
  <1>13. ASSUME NEW q \in Pages, q # p PROVE Kept(t, u, q)
    <2> DEFINE c == Block(q)
               i == Index(q)
               d == t.l2[c]
    <2>1. c \in Blocks /\ i \in 0 .. Entries - 1
      BY BlockInRange
    <2>2. d.type \in {"invalid", "table", "block"}
          /\ (d.type = "table" => d.out \in 0 .. MaxTables - 1
                                  /\ t.l3[d.out][i].type \in {"invalid", "uninit", "page"})
      BY <2>1, <1>1, DescTypes
    <2>3. CASE c # b
      <3>1. u.l2[c] = d
        BY <2>1, <2>3, <1>4
      <3>2. d.type = "table" => u.l3[d.out][i] = t.l3[d.out][i]
        BY <2>1, <2>2, <2>3, <1>5, <1>8
      <3>3. Translate(u, q) = Translate(t, q)
        BY <3>1, <3>2, SameWalk
      <3> QED BY <3>3 DEF Kept
    <2>4. CASE c = b /\ d.type = "table"
      <3>1. u.l2[c].type = "table" /\ u.l2[c].out = d.out
        BY <2>1, <2>4, <1>4, <1>10
      <3>2. u.l3[d.out][i] = t.l3[d.out][i]
        <4>1. i # Index(p)
          BY <2>4, <1>11, <1>13
        <4> HIDE DEF i, d
        <4> QED BY <4>1, <2>1, <2>2, <2>4, <1>5
      <3>3. Translate(u, q) = Translate(t, q)
        BY <3>1, <3>2, <2>4, SameTable
      <3> QED BY <3>3 DEF Kept
    <2>5. CASE c = b /\ d.type = "invalid"
      <3>1. u.l2[c].type = "table" /\ u.l2[c].out = t.page_count /\ k = t.page_count
            /\ u.page_count = t.page_count + 1
        BY <2>1, <2>5, <1>4, <1>10
      <3>2. u.l3[k][i] = t.l3[k][i]
        <4>1. i # Index(p)
          BY <2>5, <1>11, <1>13
        <4> HIDE DEF i
        <4> QED BY <4>1, <2>1, <1>1, <1>5
      <3>3. t.l3[k][i] = (IF k < L3Tables THEN Invalid ELSE Uninit)
        BY <3>1, <1>1, <1>3, <2>1 DEF WellFormed
      <3>4. Translate(t, q) = Fault
        BY <2>5, Walk
      <3>5. CASE k < L3Tables
        <4>1. u.l3[k][i].type = "invalid"
          BY <3>2, <3>3, <3>5 DEF Invalid
        <4>2. Translate(u, q) = Fault
          BY <4>1, <3>1, <1>9, Walk
        <4> QED BY <4>2, <3>4 DEF Kept
      <3>6. CASE ~(k < L3Tables)
        <4>1. u.l3[k][i].type = "uninit"
          BY <3>2, <3>3, <3>6 DEF Uninit
        <4>2. Translate(u, q) = Unknown
          BY <4>1, <3>1, <1>9, Walk
        <4>3. L3Tables < u.page_count
          BY <3>1, <3>6, <1>1, <1>3, TablesAssumption
        <4> QED BY <4>2, <4>3, <3>4 DEF Kept
      <3> QED BY <3>5, <3>6
    <2> QED BY <2>2, <2>3, <2>4, <2>5 DEF b
  <1>14. t.page_count <= u.page_count /\ u.page_count <= t.page_count + 1
    BY <1>10, <1>3
  <1>15. \A c \in Blocks : u.l2[c] = t.l2[c] \/ (c = Block(p) /\ u.l2[c].type = "table")
    BY <1>4 DEF b
  <1>16. Sets(t, u, p, pa)
    BY <1>9, <1>12, <1>13, <1>14, <1>15 DEF Sets
  <1> QED BY <1>16 DEF u

(***************************************************************************)
(* The inductive invariant.  main() has prepared the VMs below c, the last   *)
(* of them with n of its image pages loaded.                               *)
(***************************************************************************)
LoadCount == KernelFull + InitrdFull + 3
Ram == 0 .. RamPages - 1

Todo(c, n) ==
  [i \in 1 .. (LoadCount - n) + (NumVM - c) |->
     IF i <= LoadCount - n THEN Step(c - 1, "load", image_pages[n + i])
                           ELSE Step(c + i - (LoadCount - n) - 1, "init_pt", Boot)]

At(c, n) == c \in 0 .. NumVM /\ n \in 0 .. LoadCount /\ (c = 0 => n = LoadCount)

UsedSlots == {s \in Slots : target_vm[s] # -1}
SlotsOf(v) == {s \in Slots : target_vm[s] = v}

TypeInv ==
  /\ static \in BOOLEAN
  /\ target_vm \in [Slots -> VM \cup {-1}]
  /\ ipa \in [Slots -> Pages] /\ high_ipa \in [Slots -> Pages]
  /\ last_i \in Slots
  /\ pt = [v \in VM |-> pt[v]]
  /\ image = [s \in Slots |-> image[s]]
  /\ mon \in [VM -> Nat]
  /\ redo \in [VM -> Pages \cup {None}]
  /\ halt \in {"no", "printb", "no free memory"}

\* Prepared VMs have well formed tables; the others have none and own nothing.
TablesInv(c) ==
  /\ \A v \in VM : v < c => WellFormed(pt[v])
  /\ \A v \in VM : c <= v => pt[v] = NoTables
  /\ \A s \in Slots : target_vm[s] < c

CountInv ==
  /\ count = Cardinality(UsedSlots)
  /\ halt = "no" => \A v \in VM : mon[v] = Cardinality(SlotsOf(v))

NoBlocks(t) == \A b \in Blocks : t.l2[b].type # "block"

\* The pages that VM v owns when memory is given on demand.
OwnedBy(v) == {DevPa(d, v) : d \in Devs} \cup {RamPa(s) : s \in SlotsOf(v)}

\* On demand, whatever addresses the guests use.
DemandInv(c) ==
  ~static =>
    /\ \A v \in VM : v < c => NoBlocks(pt[v])
    /\ \A v \in VM, p \in Pages : v < c =>
         Translate(pt[v], p) \in OwnedBy(v) \cup {Fault, Unknown}
    /\ halt = "no" => \A v \in VM : redo[v] # None => Mapped(v, redo[v])

BaseInv(c, n) ==
  /\ todo = Todo(c, n)
  /\ TypeInv
  /\ TablesInv(c)
  /\ CountInv
  /\ todo # <<>> => \A v \in VM : redo[v] = None
  /\ DemandInv(c)

\* The guests use no address of the handler's windows outside their RAM.
StaysInRam ==
  \A p \in Touch : low_window(p) \/ high_window(p) => p \in Ram \/ p - HighBase \in Ram

\* Statically prepared VMs never fault in their RAM, so nothing is allocated.
StaticInv(c) ==
  static =>
    /\ \A s \in Slots : target_vm[s] = -1
    /\ \A v \in VM, p \in Ram : v < c =>
         /\ Translate(pt[v], p) = RamPa(mem_base_pa(v) + p)
         /\ Translate(pt[v], p + HighBase) = RamPa(mem_base_pa(v) + p)
    /\ \A v \in VM, p \in Pages : v < c /\ p \notin Ram /\ p - HighBase \notin Ram =>
         Translate(pt[v], p) \in {DevPa(d, v) : d \in Devs} \cup {Fault, Unknown}
    /\ \A v \in VM : redo[v] = None

\* Each used slot is the page its owner sees at the two addresses it recorded.
SlotInv ==
  ~static => \A s \in Slots : target_vm[s] # -1 =>
    /\ ipa[s] \in Ram /\ high_ipa[s] = ipa[s] + HighBase
    /\ Translate(pt[target_vm[s]], ipa[s]) = RamPa(s)
    /\ Translate(pt[target_vm[s]], high_ipa[s]) = RamPa(s)

\* The RAM of a VM is what was allocated for it, and both windows show it.
AliasInv(c) ==
  ~static => \A v \in VM, p \in Ram : v < c =>
    /\ Mapped(v, p) => \E s \in Slots : target_vm[s] = v /\ ipa[s] = p
    /\ Translate(pt[v], p) = Translate(pt[v], p + HighBase) \/ L3Tables < pt[v].page_count

\* While a VM is being loaded it owns the pages loaded so far.
LoadInv(c, n) ==
  ~static /\ todo # <<>> /\ 0 < c => \A s \in Slots : target_vm[s] = c - 1 =>
    \E j \in 1 .. n : ipa[s] = image_pages[j].p

DevInv(c) ==
  \A v \in VM, d \in Devs : v < c => Translate(pt[v], DevIpa[d]) = DevPa(d, v)

RamInv(c, n) == StaticInv(c) /\ SlotInv /\ AliasInv(c) /\ LoadInv(c, n) /\ DevInv(c)

\* The allocator has a page for every page of RAM.
RamFits == NumVM * RamPages <= PageCount

\* The image pages loaded so far are in place.
ImageInv(c, n) ==
  \A v \in VM, i \in 1 .. LoadCount : v < c /\ (v = c - 1 => i <= n) =>
    LET g == image_pages[i]
    IN  IF static THEN image[mem_base_pa(v) + g.p] = Loaded(v, g)
        ELSE \E s \in Slots : target_vm[s] = v /\ ipa[s] = g.p /\ image[s] = Loaded(v, g)

Inv1 == \E c \in 0 .. NumVM, n \in 0 .. LoadCount : At(c, n) /\ BaseInv(c, n)
Inv2 == StaysInRam =>
          \E c \in 0 .. NumVM, n \in 0 .. LoadCount : At(c, n) /\ BaseInv(c, n) /\ RamInv(c, n)
Inv3 == StaysInRam /\ RamFits =>
          /\ NeverExhausted
          /\ \E c \in 0 .. NumVM, n \in 0 .. LoadCount :
               At(c, n) /\ BaseInv(c, n) /\ RamInv(c, n) /\ ImageInv(c, n)

(***************************************************************************)
(* What main() has still to do.                                            *)
(***************************************************************************)
\* A function on 1 .. n is a sequence of length n.
LEMMA SeqOf ==
  ASSUME NEW S, NEW n \in Nat, NEW f \in [1 .. n -> S]
  PROVE  f \in Seq(S) /\ Len(f) = n
  <1>1. f \in Seq(S)
    BY SeqDef
  <1>2. Len(f) \in Nat /\ DOMAIN f = 1 .. Len(f)
    BY <1>1, LenProperties
  <1>3. 1 .. Len(f) = 1 .. n
    BY <1>2
  <1> QED BY <1>1, <1>2, <1>3

\* The pages of an image: all in RAM, no two the same.
LEMMA ImagePages ==
  /\ DOMAIN image_pages = 1 .. LoadCount
  /\ \A i \in 1 .. LoadCount : image_pages[i].p \in Ram
  /\ \A i, j \in 1 .. LoadCount : image_pages[i].p = image_pages[j].p => i = j
  <1> DEFINE a == [i \in 1 .. KernelFull + 1 |->
                     [part |-> "kernel", k |-> i - 1, p |-> KernelBase + i - 1]]
             b == [i \in 1 .. InitrdFull + 1 |->
                     [part |-> "initrd", k |-> i - 1, p |-> InitrdBase + i - 1]]
             d == <<[part |-> "boot", k |-> 0, p |-> 0]>>
             R == [part : {"kernel", "initrd", "boot"}, k : Int, p : Int]
             ab == a \o b
  <1>0. KernelFull \in Nat /\ InitrdFull \in Nat /\ KernelBase \in Nat /\ InitrdBase \in Nat
    BY ImageAssumption
  <1>1. a \in Seq(R) /\ Len(a) = KernelFull + 1
    <2>1. a \in [1 .. KernelFull + 1 -> R]
      BY <1>0
    <2> HIDE DEF a, R
    <2> QED BY <2>1, <1>0, SeqOf
  <1>2. b \in Seq(R) /\ Len(b) = InitrdFull + 1
    <2>1. b \in [1 .. InitrdFull + 1 -> R]
      BY <1>0
    <2> HIDE DEF b, R
    <2> QED BY <2>1, <1>0, SeqOf
  <1>3. d \in Seq(R) /\ Len(d) = 1 /\ d[1].p = 0
    <2>1. [part |-> "boot", k |-> 0, p |-> 0] \in R
      OBVIOUS
    <2>2. d[1].p = 0 /\ Len(d) = 1
      OBVIOUS
    <2> HIDE DEF R
    <2> QED BY <2>1, <2>2
  <1>4. /\ \A i \in 1 .. KernelFull + 1 : a[i].p = KernelBase + i - 1
        /\ \A i \in 1 .. InitrdFull + 1 : b[i].p = InitrdBase + i - 1
    OBVIOUS
  <1>5. image_pages = ab \o d
    BY DEF image_pages
  <1> HIDE DEF a, b, d, R
  <1>6. /\ ab \in Seq(R) /\ Len(ab) = KernelFull + InitrdFull + 2
        /\ \A i \in 1 .. KernelFull + InitrdFull + 2 :
             ab[i] = IF i <= KernelFull + 1 THEN a[i] ELSE b[i - (KernelFull + 1)]
    <2>1. /\ ab \in Seq(R) /\ Len(ab) = Len(a) + Len(b)
          /\ \A i \in 1 .. Len(a) + Len(b) : ab[i] = IF i <= Len(a) THEN a[i] ELSE b[i - Len(a)]
      BY <1>1, <1>2, ConcatProperties
    <2> HIDE DEF ab
    <2>2. Len(a) + Len(b) = KernelFull + InitrdFull + 2
      BY <1>0, <1>1, <1>2
    <2> QED BY <2>1, <2>2, <1>1
  <1> HIDE DEF ab
  <1>7. /\ image_pages \in Seq(R) /\ Len(image_pages) = LoadCount
        /\ \A i \in 1 .. LoadCount :
             image_pages[i] = IF i <= KernelFull + InitrdFull + 2 THEN ab[i]
                              ELSE d[i - (KernelFull + InitrdFull + 2)]
    <2>1. LoadCount = (KernelFull + InitrdFull + 2) + 1
      BY <1>0 DEF LoadCount
    <2>2. ab \in Seq(R) /\ Len(ab) = KernelFull + InitrdFull + 2 /\ image_pages = ab \o d
      BY <1>6, <1>5
    <2>3. /\ ab \o d \in Seq(R) /\ Len(ab \o d) = Len(ab) + Len(d)
          /\ \A i \in 1 .. Len(ab) + Len(d) : (ab \o d)[i] = IF i <= Len(ab) THEN ab[i] ELSE d[i - Len(ab)]
      BY <2>2, <1>3, ConcatProperties
    <2>4. \A i \in 1 .. LoadCount :
            image_pages[i] = IF i <= KernelFull + InitrdFull + 2 THEN ab[i]
                             ELSE d[i - (KernelFull + InitrdFull + 2)]
      BY <2>1, <2>2, <2>3, <1>3, <1>0
    <2>5. Len(image_pages) = LoadCount
      BY <2>1, <2>2, <2>3, <1>3, <1>0
    <2> QED BY <2>2, <2>3, <2>4, <2>5
  <1>8. \A i \in 1 .. LoadCount :
          image_pages[i].p = IF i <= KernelFull + 1 THEN KernelBase + i - 1
                             ELSE IF i <= KernelFull + InitrdFull + 2
                                  THEN InitrdBase + (i - (KernelFull + 1)) - 1 ELSE 0
    <2> TAKE i \in 1 .. LoadCount
    <2>0. LoadCount = KernelFull + InitrdFull + 3 /\ i \in Nat
      BY <1>0 DEF LoadCount
    <2>1. CASE i <= KernelFull + 1
      <3>1. image_pages[i] = a[i]
        BY <2>0, <2>1, <1>0, <1>6, <1>7
      <3> QED BY <3>1, <2>1, <2>0, <1>4, <1>0
    <2>2. CASE i > KernelFull + 1 /\ i <= KernelFull + InitrdFull + 2
      <3>1. image_pages[i] = b[i - (KernelFull + 1)]
        BY <2>0, <2>2, <1>0, <1>6, <1>7
      <3> QED BY <3>1, <2>2, <2>0, <1>4, <1>0
    <2>3. CASE i > KernelFull + InitrdFull + 2
      <3>1. i - (KernelFull + InitrdFull + 2) = 1
        BY <2>0, <2>3, <1>0
      <3>2. image_pages[i] = d[i - (KernelFull + InitrdFull + 2)]
        BY <2>0, <2>3, <1>0, <1>7
      <3> QED BY <3>1, <3>2, <2>3, <2>0, <1>3, <1>0
    <2> QED BY <2>0, <2>1, <2>2, <2>3, <1>0
  <1>9. DOMAIN image_pages = 1 .. LoadCount
    BY <1>7
  <1> HIDE DEF LoadCount
  <1> QED BY <1>8, <1>9, <1>0, ImageAssumption, LayoutAssumption DEF Ram, LoadCount

Steps == [vm : Int, op : {"load", "init_pt"},
          g : {image_pages[i] : i \in 1 .. LoadCount} \cup {Boot}]

\* The list is a sequence; what is at each place.
LEMMA TodoSeq ==
  ASSUME NEW c \in 0 .. NumVM, NEW n \in 0 .. LoadCount
  PROVE  /\ Todo(c, n) \in Seq(Steps)
         /\ Len(Todo(c, n)) = (LoadCount - n) + (NumVM - c)
         /\ \A i \in 1 .. (LoadCount - n) + (NumVM - c) :
              Todo(c, n)[i] = IF i <= LoadCount - n THEN Step(c - 1, "load", image_pages[n + i])
                              ELSE Step(c + i - (LoadCount - n) - 1, "init_pt", Boot)
  <1> DEFINE len == (LoadCount - n) + (NumVM - c)
  <1>1. LoadCount \in Nat /\ NumVM \in Nat /\ len \in Nat
    BY ImageAssumption, LayoutAssumption DEF LoadCount
  <1>2. \A i \in 1 .. len :
          Todo(c, n)[i] = IF i <= LoadCount - n THEN Step(c - 1, "load", image_pages[n + i])
                          ELSE Step(c + i - (LoadCount - n) - 1, "init_pt", Boot)
    BY DEF Todo
  <1>3. \A i \in 1 .. len : Todo(c, n)[i] \in Steps
    <2> TAKE i \in 1 .. len
    <2>1. CASE i <= LoadCount - n
      <3>1. n + i \in 1 .. LoadCount
        BY <1>1, <2>1
      <3>2. Step(c - 1, "load", image_pages[n + i]) \in Steps
        BY <3>1 DEF Steps, Step
      <3> QED BY <2>1, <3>2, <1>2
    <2>2. CASE ~(i <= LoadCount - n)
      <3>1. Step(c + i - (LoadCount - n) - 1, "init_pt", Boot) \in Steps
        BY <1>1 DEF Steps, Step
      <3> QED BY <2>2, <3>1, <1>2
    <2> QED BY <2>1, <2>2
  <1>4. Todo(c, n) \in [1 .. len -> Steps]
    <2>1. Todo(c, n) = [i \in 1 .. len |-> Todo(c, n)[i]]
      BY DEF Todo
    <2> HIDE DEF len
    <2> QED BY <2>1, <1>3
  <1>5. Todo(c, n) \in Seq(Steps) /\ Len(Todo(c, n)) = len
    <2> HIDE DEF len
    <2> QED BY <1>1, <1>4, SeqOf
  <1> QED BY <1>2, <1>5

\* The list is empty when all is done; it begins with a load while the current VM
\* has pages left, and with the preparation of the next VM after that.
LEMMA TodoFirst ==
  ASSUME NEW c \in 0 .. NumVM, NEW n \in 0 .. LoadCount
  PROVE  /\ Todo(c, n) = <<>> <=> n = LoadCount /\ c = NumVM
         /\ n < LoadCount => Head(Todo(c, n)) = Step(c - 1, "load", image_pages[n + 1])
         /\ n = LoadCount /\ c < NumVM => Head(Todo(c, n)) = Step(c, "init_pt", Boot)
  <1>1. LoadCount \in Nat /\ NumVM \in Nat
    BY ImageAssumption, LayoutAssumption DEF LoadCount
  <1> DEFINE len == (LoadCount - n) + (NumVM - c)
             t == Todo(c, n)
  <1>2. t \in Seq(Steps) /\ Len(t) = len
    BY TodoSeq
  <1>5. len > 0 => t[1] = IF 1 <= LoadCount - n THEN Step(c - 1, "load", image_pages[n + 1])
                          ELSE Step(c + 1 - (LoadCount - n) - 1, "init_pt", Boot)
    BY <1>1, TodoSeq
  <1>6. n = LoadCount => c + 1 - (LoadCount - n) - 1 = c
    BY <1>1
  <1> HIDE DEF t
  <1>3. len > 0 => Head(t) = t[1]
    BY <1>1, <1>2
  <1>4. t = <<>> <=> len = 0
    BY <1>1, <1>2, EmptySeq
  <1>7. t = <<>> <=> n = LoadCount /\ c = NumVM
    BY <1>1, <1>4
  <1>8. n < LoadCount => Head(t) = Step(c - 1, "load", image_pages[n + 1])
    BY <1>1, <1>3, <1>5
  <1>9. n = LoadCount /\ c < NumVM => Head(t) = Step(c, "init_pt", Boot)
    BY <1>1, <1>3, <1>5, <1>6
  <1> QED BY <1>7, <1>8, <1>9 DEF t

\* After a load the list is that of one more page loaded.
LEMMA TodoLoaded ==
  ASSUME NEW c \in 0 .. NumVM, NEW n \in 0 .. LoadCount, n < LoadCount
  PROVE  Tail(Todo(c, n)) = Todo(c, n + 1)
  <1> DEFINE t == Todo(c, n)
             u == Todo(c, n + 1)
             len == (LoadCount - n) + (NumVM - c)
  <1>1. LoadCount \in Nat /\ NumVM \in Nat /\ n + 1 \in 0 .. LoadCount
    BY ImageAssumption, LayoutAssumption DEF LoadCount
  <1>2. t \in Seq(Steps) /\ Len(t) = len /\ t # <<>>
    BY <1>1, TodoSeq, TodoFirst
  <1>3. u \in Seq(Steps) /\ Len(u) = len - 1
    BY <1>1, TodoSeq
  <1>4. Tail(t) \in Seq(Steps) /\ Len(Tail(t)) = len - 1 /\ \A i \in 1 .. len - 1 : Tail(t)[i] = t[i + 1]
    <2> HIDE DEF t, len
    <2> QED BY <1>2, HeadTailProperties
  <1>5. \A i \in 1 .. len - 1 : t[i + 1] = u[i]
    <2> TAKE i \in 1 .. len - 1
    <2>1. i + 1 \in 1 .. len /\ i \in 1 .. (LoadCount - (n + 1)) + (NumVM - c)
      BY <1>1
    <2>2. t[i + 1] = IF i + 1 <= LoadCount - n THEN Step(c - 1, "load", image_pages[n + (i + 1)])
                     ELSE Step(c + (i + 1) - (LoadCount - n) - 1, "init_pt", Boot)
      BY <2>1, TodoSeq
    <2>3. u[i] = IF i <= LoadCount - (n + 1) THEN Step(c - 1, "load", image_pages[(n + 1) + i])
                 ELSE Step(c + i - (LoadCount - (n + 1)) - 1, "init_pt", Boot)
      BY <2>1, <1>1, TodoSeq
    <2>4. n + (i + 1) = (n + 1) + i
          /\ c + (i + 1) - (LoadCount - n) - 1 = c + i - (LoadCount - (n + 1)) - 1
          /\ (i + 1 <= LoadCount - n <=> i <= LoadCount - (n + 1))
      BY <1>1
    <2> QED BY <2>2, <2>3, <2>4
  <1> HIDE DEF t, u, len
  <1>6. Tail(t) = u
    BY <1>3, <1>4, <1>5, SeqEqual
  <1> QED BY <1>6 DEF t, u

\* The preparation of a VM puts the loads of its pages first.
LEMMA TodoPrepared ==
  ASSUME NEW c \in 0 .. NumVM, c < NumVM
  PROVE  [i \in DOMAIN image_pages |-> Step(c, "load", image_pages[i])] \o Tail(Todo(c, LoadCount))
           = Todo(c + 1, 0)
  <1> DEFINE t == Todo(c, LoadCount)
             u == Todo(c + 1, 0)
             a == [i \in 1 .. LoadCount |-> Step(c, "load", image_pages[i])]
             len == NumVM - c
  <1>1. LoadCount \in Nat /\ NumVM \in Nat /\ c + 1 \in 0 .. NumVM
    BY ImageAssumption, LayoutAssumption DEF LoadCount
  <1>2. t \in Seq(Steps) /\ Len(t) = len /\ t # <<>>
    <2>1. LoadCount \in 0 .. LoadCount /\ (LoadCount - LoadCount) + (NumVM - c) = len /\ c # NumVM
      BY <1>1
    <2>2. t \in Seq(Steps) /\ Len(t) = (LoadCount - LoadCount) + (NumVM - c)
      BY <2>1, TodoSeq
    <2>3. t # <<>>
      BY <2>1, TodoFirst
    <2> QED BY <2>1, <2>2, <2>3
  <1>3. u \in Seq(Steps) /\ Len(u) = LoadCount + (len - 1)
    BY <1>1, TodoSeq
  <1>4. Tail(t) \in Seq(Steps) /\ Len(Tail(t)) = len - 1 /\ \A i \in 1 .. len - 1 : Tail(t)[i] = t[i + 1]
    <2> HIDE DEF t, len
    <2> QED BY <1>2, HeadTailProperties
  <1>5. a \in Seq(Steps) /\ Len(a) = LoadCount
    <2>1. a \in [1 .. LoadCount -> Steps]
      BY DEF Steps, Step
    <2> HIDE DEF a
    <2> QED BY <1>1, <2>1, SeqOf
  <1>6. [i \in DOMAIN image_pages |-> Step(c, "load", image_pages[i])] = a
    BY ImagePages
  <1>7. \A i \in 1 .. LoadCount : u[i] = a[i]
    <2> TAKE i \in 1 .. LoadCount
    <2>1. i \in 1 .. (LoadCount - 0) + (NumVM - (c + 1)) /\ i <= LoadCount - 0 /\ 0 + i = i /\ (c + 1) - 1 = c
      BY <1>1
    <2>2. u[i] = Step((c + 1) - 1, "load", image_pages[0 + i])
      BY <2>1, <1>1, TodoSeq
    <2> QED BY <2>1, <2>2
  <1>8. \A i \in 1 .. len - 1 : t[i + 1] = u[LoadCount + i]
    <2> TAKE i \in 1 .. len - 1
    <2>1. /\ i + 1 \in 1 .. (LoadCount - LoadCount) + (NumVM - c) /\ ~(i + 1 <= LoadCount - LoadCount)
          /\ LoadCount + i \in 1 .. (LoadCount - 0) + (NumVM - (c + 1)) /\ ~(LoadCount + i <= LoadCount - 0)
      BY <1>1
    <2>2. t[i + 1] = Step(c + (i + 1) - (LoadCount - LoadCount) - 1, "init_pt", Boot)
      BY <2>1, <1>1, TodoSeq
    <2>3. u[LoadCount + i] = Step((c + 1) + (LoadCount + i) - (LoadCount - 0) - 1, "init_pt", Boot)
      BY <2>1, <1>1, TodoSeq
    <2>4. c + (i + 1) - (LoadCount - LoadCount) - 1 = (c + 1) + (LoadCount + i) - (LoadCount - 0) - 1
      BY <1>1
    <2> QED BY <2>2, <2>3, <2>4
  <1>9. len \in Nat \ {0}
    BY <1>1
  <1> HIDE DEF t, u, len, a
  <1> DEFINE r == Tail(t)
  <1>10. r \in Seq(Steps) /\ Len(r) = len - 1 /\ \A i \in 1 .. len - 1 : r[i] = u[LoadCount + i]
    BY <1>4, <1>8
  <1> HIDE DEF r
  <1>11. a \o r \in Seq(Steps) /\ Len(a \o r) = Len(a) + Len(r)
         /\ \A i \in 1 .. Len(a) + Len(r) : (a \o r)[i] = IF i <= Len(a) THEN a[i] ELSE r[i - Len(a)]
    BY <1>5, <1>10, ConcatProperties
  <1> DEFINE x == a \o r
  <1> HIDE DEF x
  <1>12. x \in Seq(Steps) /\ Len(x) = Len(u) /\ \A i \in 1 .. Len(u) : x[i] = u[i]
    <2>1. Len(a) + Len(r) = Len(u) /\ Len(u) = LoadCount + (len - 1)
      BY <1>1, <1>3, <1>5, <1>9, <1>10
    <2>2. x \in Seq(Steps) /\ Len(x) = Len(u)
          /\ \A i \in 1 .. Len(u) : x[i] = IF i <= LoadCount THEN a[i] ELSE r[i - LoadCount]
      BY <1>11, <2>1, <1>5 DEF x
    <2>3. ASSUME NEW i \in 1 .. Len(u) PROVE x[i] = u[i]
      <3>1. CASE i <= LoadCount
        <4>1. i \in 1 .. LoadCount
          BY <3>1, <1>1, <2>1
        <4> QED BY <2>2, <3>1, <4>1, <1>7
      <3>2. CASE ~(i <= LoadCount)
        <4>1. i - LoadCount \in 1 .. len - 1 /\ LoadCount + (i - LoadCount) = i
          BY <3>2, <1>1, <1>9, <2>1
        <4>2. r[i - LoadCount] = u[LoadCount + (i - LoadCount)]
          BY <4>1, <1>10
        <4> QED BY <2>2, <3>2, <4>1, <4>2
      <3> QED BY <3>1, <3>2
    <2> QED BY <2>2, <2>3
  <1>13. x = u
    BY <1>3, <1>12, SeqEqual
  <1> QED BY <1>13, <1>6 DEF x, r, a, t, u

\* At the start every VM is still to be prepared.
LEMMA TodoInit ==
  ASSUME Init
  PROVE  At(0, LoadCount) /\ todo = Todo(0, LoadCount)
  <1>1. LoadCount \in Nat /\ NumVM \in Nat
    BY ImageAssumption, LayoutAssumption DEF LoadCount
  <1>2. At(0, LoadCount)
    BY <1>1 DEF At
  <1>3. (LoadCount - LoadCount) + (NumVM - 0) = NumVM
        /\ \A i \in 1 .. NumVM : ~(i <= LoadCount - LoadCount) /\ 0 + i - (LoadCount - LoadCount) - 1 = i - 1
    BY <1>1
  <1>4. todo = Todo(0, LoadCount)
    BY <1>1, <1>3 DEF Init, Todo
  <1> QED BY <1>2, <1>4

\* What the first step of the list tells about how far main() is.
LEMMA TodoCases ==
  ASSUME NEW c \in 0 .. NumVM, NEW n \in 0 .. LoadCount, At(c, n), todo = Todo(c, n)
  PROVE  /\ todo = <<>> => c = NumVM /\ n = LoadCount
         /\ todo # <<>> /\ Head(todo).op = "init_pt" =>
              /\ n = LoadCount /\ c \in VM /\ Head(todo).vm = c
         /\ todo # <<>> /\ Head(todo).op = "load" =>
              /\ n < LoadCount /\ c - 1 \in VM
              /\ Head(todo).vm = c - 1 /\ Head(todo).g = image_pages[n + 1]
  <1>1. LoadCount \in Nat /\ NumVM \in Nat
    BY ImageAssumption, LayoutAssumption DEF LoadCount
  <1>2. /\ todo = <<>> <=> n = LoadCount /\ c = NumVM
        /\ n < LoadCount => Head(todo) = Step(c - 1, "load", image_pages[n + 1])
        /\ n = LoadCount /\ c < NumVM => Head(todo) = Step(c, "init_pt", Boot)
    BY TodoFirst
  <1>3. CASE todo = <<>>
    BY <1>2, <1>3
  <1>4. CASE todo # <<>> /\ n < LoadCount
    <2>1. Head(todo) = [vm |-> c - 1, op |-> "load", g |-> image_pages[n + 1]]
      BY <1>2, <1>4 DEF Step
    <2>2. c - 1 \in VM
      BY <1>1, <1>4 DEF At, VM
    <2> QED BY <2>1, <2>2, <1>4
  <1>5. CASE todo # <<>> /\ n = LoadCount
    <2>1. c < NumVM
      BY <1>1, <1>2, <1>5
    <2>2. Head(todo) = [vm |-> c, op |-> "init_pt", g |-> Boot]
      BY <1>2, <1>5, <2>1 DEF Step
    <2>3. c \in VM
      BY <1>1, <2>1 DEF VM
    <2> QED BY <2>2, <2>3, <1>5
  <1> QED BY <1>1, <1>3, <1>4, <1>5

\* The VMs whose tables main() has set up.
LEMMA StartedBelow ==
  ASSUME NEW c \in 0 .. NumVM, NEW n \in 0 .. LoadCount, At(c, n), todo = Todo(c, n), NEW v \in VM
  PROVE  Started(v) <=> v < c
  <1>1. LoadCount \in Nat /\ NumVM \in Nat /\ v \in 0 .. NumVM - 1
    BY ImageAssumption, LayoutAssumption DEF LoadCount, VM
  <1> DEFINE len == (LoadCount - n) + (NumVM - c)
  <1>2. DOMAIN todo = 1 .. len
        /\ \A i \in 1 .. len : todo[i] = IF i <= LoadCount - n THEN Step(c - 1, "load", image_pages[n + i])
                                         ELSE Step(c + i - (LoadCount - n) - 1, "init_pt", Boot)
    BY TodoSeq, LenProperties
  <1>3. \A i \in 1 .. len : /\ todo[i].op = "init_pt" <=> ~(i <= LoadCount - n)
                            /\ ~(i <= LoadCount - n) => todo[i].vm = c + i - (LoadCount - n) - 1
    BY <1>2 DEF Step
  <1>4. ASSUME v < c PROVE Started(v)
    <2> SUFFICES ASSUME NEW i \in 1 .. len, todo[i].op = "init_pt" PROVE todo[i].vm # v
      BY <1>2 DEF Started
    <2> QED BY <1>1, <1>3, <1>4
  <1>5. ASSUME c <= v PROVE ~Started(v)
    <2> DEFINE i == (LoadCount - n) + (v - c) + 1
    <2>1. i \in 1 .. len /\ ~(i <= LoadCount - n) /\ c + i - (LoadCount - n) - 1 = v
      BY <1>1, <1>5
    <2> HIDE DEF i
    <2>2. todo[i].op = "init_pt" /\ todo[i].vm = v
      BY <2>1, <1>3
    <2> QED BY <2>1, <2>2, <1>2 DEF Started
  <1> QED BY <1>1, <1>4, <1>5

(***************************************************************************)
(* Where pages lie.                                                        *)
(***************************************************************************)
\* Blocks are in the order of their pages.
LEMMA BlockOrder ==
  ASSUME NEW p \in Nat, NEW m \in Nat, m % Entries = 0
  PROVE  (p < m) <=> (Block(p) < Block(m))
  <1>1. Entries \in Nat \ {0}
    BY LayoutAssumption
  <1>2. p = Entries * Block(p) + Index(p) /\ Block(p) \in Nat /\ Index(p) \in 0 .. Entries - 1
    BY BlockIndex
  <1>3. m = Entries * Block(m) + Index(m) /\ Block(m) \in Nat /\ Index(m) = 0
    BY BlockIndex DEF Index
  <1> DEFINE x == Entries * Block(p)
             y == Entries * Block(m)
  <1>4. x \in Nat /\ y \in Nat /\ (x < y <=> Block(p) < Block(m))
    BY <1>1, <1>2, <1>3, TimesMonotone
  <1>5. Entries * (Block(p) + 1) = x + Entries
    BY <1>1, <1>2
  <1>6. ASSUME Block(p) < Block(m) PROVE p < m
    <2>1. Block(p) + 1 = Block(m) \/ Block(p) + 1 < Block(m)
      BY <1>2, <1>3, <1>6
    <2>2. x + Entries = y \/ x + Entries < y
      BY <2>1, <1>1, <1>2, <1>3, <1>5, TimesMonotone
    <2> HIDE DEF x, y
    <2>3. p = x + Index(p) /\ m = y
      BY <1>2, <1>3, <1>4 DEF x, y
    <2> QED BY <2>2, <2>3, <1>1, <1>2, <1>4
  <1>7. ASSUME p < m PROVE Block(p) < Block(m)
    <2>1. p = x + Index(p) /\ m = y
      BY <1>2, <1>3, <1>4
    <2> HIDE DEF x, y
    <2> QED BY <2>1, <1>7, <1>4, <1>2
  <1> QED BY <1>6, <1>7

\* The high window has the same layout as the low one.
LEMMA HighBlock ==
  ASSUME NEW p \in Nat
  PROVE  Block(p + HighBase) = Block(p) + Block(HighBase) /\ Index(p + HighBase) = Index(p)
  <1>1. Entries \in Nat \ {0} /\ HighBase \in Nat /\ HighBase % Entries = 0
    BY LayoutAssumption
  <1>2. p = Entries * Block(p) + Index(p) /\ Block(p) \in Nat /\ Index(p) \in 0 .. Entries - 1
    BY BlockIndex
  <1>3. HighBase = Entries * Block(HighBase) + 0 /\ Block(HighBase) \in Nat
    BY <1>1, BlockIndex DEF Index
  <1>4. p + HighBase = Entries * (Block(p) + Block(HighBase)) + Index(p)
    <2>1. Entries * (Block(p) + Block(HighBase)) = Entries * Block(p) + Entries * Block(HighBase)
      BY <1>1, <1>2, <1>3
    <2>2. Entries * Block(p) \in Nat /\ Entries * Block(HighBase) \in Nat
      BY <1>1, <1>2, <1>3
    <2> QED BY <2>1, <2>2, <1>2, <1>3
  <1>5. Block(p) + Block(HighBase) \in Nat
    BY <1>2, <1>3
  <1> QED BY <1>2, <1>4, <1>5, BlockIndexUnique

InRam(p) == p \in Ram \/ p - HighBase \in Ram

\* The windows are made of whole blocks.
LEMMA RamBlockOf ==
  ASSUME NEW p \in Pages
  PROVE  /\ p \in Ram <=> Block(p) < RamPages \div Entries
         /\ p - HighBase \in Ram <=> Block(p) >= HighBase \div Entries
                                     /\ Block(p) < (HighBase + RamPages) \div Entries
  <1>1. /\ RamPages \in Nat /\ HighBase \in Nat /\ p \in Nat
        /\ RamPages % Entries = 0 /\ HighBase % Entries = 0
    BY LayoutAssumption DEF Pages
  <1>2. (HighBase + RamPages) % Entries = 0
    <2>1. Index(RamPages + HighBase) = Index(RamPages)
      BY <1>1, HighBlock
    <2>2. RamPages + HighBase = HighBase + RamPages
      BY <1>1
    <2> QED BY <2>1, <2>2, <1>1 DEF Index
  <1>3. p < RamPages <=> Block(p) < Block(RamPages)
    BY <1>1, BlockOrder
  <1>4. p < HighBase <=> Block(p) < Block(HighBase)
    BY <1>1, BlockOrder
  <1>5. p < HighBase + RamPages <=> Block(p) < Block(HighBase + RamPages)
    BY <1>1, <1>2, BlockOrder
  <1>6. Block(p) \in Nat /\ Block(HighBase) \in Nat
    BY <1>1, BlockIndex
  <1>7. p \in Ram <=> p < RamPages
    BY <1>1 DEF Ram
  <1>8. p - HighBase \in Ram <=> ~(p < HighBase) /\ p < HighBase + RamPages
    BY <1>1 DEF Ram
  <1>9. ~(Block(p) < Block(HighBase)) <=> Block(p) >= Block(HighBase)
    BY <1>6
  <1>10. Block(RamPages) = RamPages \div Entries /\ Block(HighBase) = HighBase \div Entries
         /\ Block(HighBase + RamPages) = (HighBase + RamPages) \div Entries
    BY DEF Block
  <1> HIDE DEF Block, Ram
  <1> QED BY <1>3, <1>4, <1>5, <1>7, <1>8, <1>9, <1>10

\* The devices are not in RAM.
LEMMA DeviceNotRam ==
  ASSUME NEW d \in Devs
  PROVE  DevIpa[d] \in Pages /\ ~InRam(DevIpa[d])
  BY DeviceAssumption, LayoutAssumption DEF Pages, InRam, Ram

RamTable(t, v) ==
  /\ WellFormed(t) /\ t.page_count = 0
  /\ \A b \in Blocks : t.l2[b].type # "table"
  /\ \A p \in Pages : ~InRam(p) => t.l2[Block(p)] = Invalid
  /\ \A p \in Ram : /\ Translate(t, p) = RamPa(mem_base_pa(v) + p)
                    /\ Translate(t, p + HighBase) = RamPa(mem_base_pa(v) + p)

EmptyTable(t) ==
  /\ WellFormed(t) /\ t.page_count = 0
  /\ \A b \in Blocks : t.l2[b] = Invalid

\* pagetable_init leaves nothing mapped.
LEMMA InitTable == EmptyTable(pagetable_init)
  <1>1. /\ pagetable_init.l2 = [b \in Blocks |-> Invalid]
        /\ pagetable_init.l3 = [k \in 0 .. MaxTables - 1 |->
             [i \in 0 .. Entries - 1 |-> IF k < L3Tables THEN Invalid ELSE Uninit]]
        /\ pagetable_init.page_count = 0
    BY DEF pagetable_init
  <1>2. pagetable_init \in Tables
    <2>1. pagetable_init = [l2 |-> pagetable_init.l2, l3 |-> pagetable_init.l3,
                            page_count |-> pagetable_init.page_count]
      BY DEF pagetable_init
    <2>2. Invalid \in L2Desc /\ Invalid \in L3Desc /\ Uninit \in L3Desc
      BY DEF L2Desc, L3Desc
    <2>3. pagetable_init.l2 \in [Blocks -> L2Desc]
      BY <1>1, <2>2
    <2>4. pagetable_init.l3 \in [0 .. MaxTables - 1 -> [0 .. Entries - 1 -> L3Desc]]
      BY <1>1, <2>2
    <2>5. pagetable_init.page_count \in 0 .. MaxTables
      BY <1>1, TablesAssumption
    <2> QED BY <2>1, <2>3, <2>4, <2>5 DEF Tables
  <1>3. \A b \in Blocks : pagetable_init.l2[b] = Invalid
    BY <1>1
  <1>4. Invalid.type = "invalid"
    BY DEF Invalid
  <1>5. \A k \in 0 .. MaxTables - 1, i \in 0 .. Entries - 1 :
          pagetable_init.l3[k][i] = (IF k < L3Tables THEN Invalid ELSE Uninit)
    BY <1>1
  <1>7. \A k \in 0 .. MaxTables - 1, i \in 0 .. Entries - 1 :
          k < L3Tables => pagetable_init.l3[k][i].type # "uninit"
    BY <1>4, <1>5
  <1>6. WellFormed(pagetable_init)
    BY <1>2, <1>3, <1>4, <1>5, <1>7 DEF WellFormed
  <1> QED BY <1>6, <1>3, <1>1 DEF EmptyTable

\* map_ram_blocks maps both windows onto the RAM of the VM and nothing else.
LEMMA RamBlocks ==
  ASSUME NEW v \in VM
  PROVE  RamTable(map_ram_blocks(pagetable_init, v), v)
  <1> DEFINE t == map_ram_blocks(pagetable_init, v)
             low(b) == b < RamPages \div Entries
             high(b) == b >= HighBase \div Entries /\ b < (HighBase + RamPages) \div Entries
             base == mem_base_pa(v)
             X(b) == base + b * Entries
             Y(b) == base + b * Entries - HighBase
             x(b) == [type |-> "block", out |-> RamPa(X(b))]
             y(b) == [type |-> "block", out |-> RamPa(Y(b))]
  <1>0. EmptyTable(pagetable_init)
    BY InitTable
  <1>1. /\ pagetable_init \in Tables /\ pagetable_init.page_count = 0
        /\ pagetable_init.l2 \in [Blocks -> L2Desc] /\ \A b \in Blocks : pagetable_init.l2[b] = Invalid
    BY <1>0 DEF EmptyTable, WellFormed, Tables
  <1>2. base \in Nat /\ HighBase \in Nat /\ Entries \in Nat \ {0}
    BY LayoutAssumption DEF mem_base_pa, VM
  <1>3. \A b \in Blocks : b \in Nat /\ (b * Entries) \div Entries = b
    <2> TAKE b \in Blocks
    <2>1. b \in Nat
      BY DEF Blocks
    <2>2. 0 \in 0 .. Entries - 1 /\ Entries * b + 0 = b * Entries
      BY <2>1, <1>2
    <2>3. Block(Entries * b + 0) = b
      BY <2>1, <2>2, BlockIndexUnique
    <2> QED BY <2>1, <2>2, <2>3 DEF Block
  <1>4. \A b \in Blocks : \A z :
          pagetable_set_block(pagetable_init, b * Entries, z).l2[b]
            = [type |-> "block", out |-> z]
    <2> TAKE b \in Blocks
    <2> TAKE z
    <2>1. (b * Entries) \div Entries = b
      BY <1>3
    <2>2. pagetable_set_block(pagetable_init, b * Entries, z).l2
            = [pagetable_init.l2 EXCEPT ![b] = [type |-> "block", out |-> z]]
      BY <2>1, <1>1 DEF pagetable_set_block, Tables
    <2> QED BY <2>2, <1>1
  <1>5. /\ t.l2 = [b \in Blocks |-> IF low(b) THEN x(b) ELSE IF high(b) THEN y(b) ELSE Invalid]
        /\ t.l3 = pagetable_init.l3 /\ t.page_count = 0
        /\ t = [l2 |-> t.l2, l3 |-> t.l3, page_count |-> t.page_count]
    <2>1. t = [pagetable_init EXCEPT !.l2 = [b \in Blocks |->
                IF low(b) THEN pagetable_set_block(pagetable_init, b * Entries, RamPa(base + b * Entries)).l2[b]
                ELSE IF high(b) THEN pagetable_set_block(pagetable_init, b * Entries,
                                       RamPa(base + b * Entries - HighBase)).l2[b]
                ELSE pagetable_init.l2[b]]]
      BY DEF map_ram_blocks
    <2>2. [b \in Blocks |->
                IF low(b) THEN pagetable_set_block(pagetable_init, b * Entries, RamPa(base + b * Entries)).l2[b]
                ELSE IF high(b) THEN pagetable_set_block(pagetable_init, b * Entries,
                                       RamPa(base + b * Entries - HighBase)).l2[b]
                ELSE pagetable_init.l2[b]]
          = [b \in Blocks |-> IF low(b) THEN x(b) ELSE IF high(b) THEN y(b) ELSE Invalid]
      <3> HIDE DEF low, high, base
      <3> QED BY <1>1, <1>4
    <2> HIDE DEF low, high, x, y, base, t
    <2>3. t = [pagetable_init EXCEPT !.l2 =
                [b \in Blocks |-> IF low(b) THEN x(b) ELSE IF high(b) THEN y(b) ELSE Invalid]]
      BY <2>1, <2>2
    <2> QED BY <2>3, <1>1 DEF Tables
  <1>6. \A b \in Blocks : X(b) \in Nat /\ (high(b) => Y(b) \in Nat)
    <2> TAKE b \in Blocks
    <2>1. b \in Nat
      BY <1>3
    <2>2. HighBase = Entries * Block(HighBase) + 0 /\ Block(HighBase) \in Nat
      BY <1>2, BlockIndex, LayoutAssumption DEF Index
    <2>3. b * Entries = Entries * b /\ Entries * b \in Nat /\ Entries * Block(HighBase) \in Nat
      BY <2>1, <2>2, <1>2
    <2>4. high(b) => ~(b < Block(HighBase))
      BY <2>1, <2>2 DEF Block
    <2>5. high(b) => ~(Entries * b < Entries * Block(HighBase))
      BY <2>1, <2>2, <2>4, <1>2, TimesMonotone
    <2> HIDE DEF high, base
    <2> QED BY <2>2, <2>3, <2>5, <1>2
  <1>7. WellFormed(t)
    <2>1. \A b \in Blocks : (IF low(b) THEN x(b) ELSE IF high(b) THEN y(b) ELSE Invalid) \in L2Desc
      <3> TAKE b \in Blocks
      <3>1. Invalid \in L2Desc
        BY DEF L2Desc
      <3>0. \A m \in Nat : [type |-> "block", out |-> RamPa(m)] \in L2Desc
        BY DEF L2Desc, RamPa, Pa
      <3> HIDE DEF X, Y, high, low
      <3>2. x(b) \in L2Desc
        BY <1>6, <3>0
      <3>3. high(b) => y(b) \in L2Desc
        BY <1>6, <3>0
      <3> HIDE DEF x, y
      <3> QED BY <3>1, <3>2, <3>3
    <2>2. t.l2 \in [Blocks -> L2Desc]
      <3> HIDE DEF low, high, x, y, t
      <3> QED BY <2>1, <1>5
    <2>3. t \in Tables
      <3> HIDE DEF t
      <3> QED BY <2>2, <1>5, <1>1 DEF Tables
    <2>4. \A b \in Blocks : t.l2[b].type # "table"
      <3>1. \A b \in Blocks : x(b).type = "block" /\ y(b).type = "block"
        OBVIOUS
      <3>2. Invalid.type = "invalid"
        BY DEF Invalid
      <3> HIDE DEF low, high, x, y, t
      <3> QED BY <3>1, <3>2, <1>5
    <2> HIDE DEF t
    <2> QED BY <2>3, <2>4, <1>5, <1>0 DEF WellFormed, EmptyTable
  <1>8. \A b \in Blocks : t.l2[b].type # "table"
    <2>1. \A b \in Blocks : x(b).type = "block" /\ y(b).type = "block"
      OBVIOUS
    <2>2. Invalid.type = "invalid"
      BY DEF Invalid
    <2> HIDE DEF low, high, x, y, t
    <2> QED BY <2>1, <2>2, <1>5
  <1>9. ASSUME NEW p \in Pages, ~InRam(p) PROVE t.l2[Block(p)] = Invalid
    <2>1. Block(p) \in Blocks /\ ~low(Block(p)) /\ ~high(Block(p))
      BY <1>9, BlockInRange, RamBlockOf DEF InRam
    <2> HIDE DEF low, high, x, y, t
    <2> QED BY <2>1, <1>5
  <1>10. ASSUME NEW p \in Ram PROVE Translate(t, p) = RamPa(base + p)
    <2>1. p \in Pages /\ p \in Nat
      BY LayoutAssumption DEF Ram, Pages
    <2>2. Block(p) \in Blocks /\ low(Block(p))
      BY <2>1, BlockInRange, RamBlockOf
    <2>3. t.l2[Block(p)] = x(Block(p))
      <3> HIDE DEF low, high, x, y, t
      <3> QED BY <2>2, <1>5
    <2>4. p = Entries * Block(p) + Index(p) /\ Block(p) \in Nat /\ Index(p) \in Nat
      BY <2>1, BlockIndex
    <2> HIDE DEF t, base
    <2>5. X(Block(p)) + Index(p) = base + p
      <3> DEFINE e == Entries * Block(p)
      <3>1. X(Block(p)) = base + e /\ e \in Nat
        BY <2>4, <1>2
      <3> HIDE DEF X
      <3> QED BY <3>1, <2>4, <1>2
    <2> HIDE DEF X
    <2>6. Translate(t, p) = Pa("ram", X(Block(p)) + Index(p))
      <3>1. t.l2[Block(p)].type = "block" /\ t.l2[Block(p)].out.kind = "ram"
            /\ t.l2[Block(p)].out.n = X(Block(p))
        BY <2>3 DEF RamPa, Pa
      <3>2. Translate(t, p) = Pa(t.l2[Block(p)].out.kind, t.l2[Block(p)].out.n + Index(p))
        BY <2>1, <3>1, <1>7, Walk
      <3> QED BY <3>1, <3>2
    <2> QED BY <2>5, <2>6 DEF RamPa
  <1>11. ASSUME NEW q \in Ram PROVE Translate(t, q + HighBase) = RamPa(base + q)
    <2> DEFINE p == q + HighBase
    <2>1. p \in Pages /\ p \in Nat /\ p \notin Ram /\ p - HighBase \in Ram /\ q \in Nat
      BY LayoutAssumption DEF Ram, Pages
    <2>2. Block(p) \in Blocks /\ ~low(Block(p)) /\ high(Block(p))
      BY <2>1, BlockInRange, RamBlockOf
    <2>3. t.l2[Block(p)] = y(Block(p))
      <3> HIDE DEF low, high, x, y, t
      <3> QED BY <2>2, <1>5
    <2>4. p = Entries * Block(p) + Index(p) /\ Block(p) \in Nat /\ Index(p) \in Nat
      BY <2>1, BlockIndex
    <2>7. p = q + HighBase
      OBVIOUS
    <2> HIDE DEF t, base, p
    <2>5. Y(Block(p)) + Index(p) = base + q
      <3> DEFINE e == Entries * Block(p)
      <3>1. Y(Block(p)) = base + e - HighBase /\ e \in Nat
        BY <2>4, <1>2
      <3>2. p = e + Index(p)
        BY <2>4
      <3>3. Index(p) \in Nat /\ q \in Nat /\ base \in Nat /\ HighBase \in Nat
        BY <2>1, <2>4, <1>2
      <3> HIDE DEF e, Y
      <3> QED BY <3>1, <3>2, <3>3, <2>7
    <2> HIDE DEF Y
    <2>6. Translate(t, p) = Pa("ram", Y(Block(p)) + Index(p))
      <3>1. t.l2[Block(p)].type = "block" /\ t.l2[Block(p)].out.kind = "ram"
            /\ t.l2[Block(p)].out.n = Y(Block(p))
        BY <2>3 DEF RamPa, Pa
      <3>2. Translate(t, p) = Pa(t.l2[Block(p)].out.kind, t.l2[Block(p)].out.n + Index(p))
        BY <2>1, <3>1, <1>7, Walk
      <3> QED BY <3>1, <3>2
    <2>8. Translate(t, p) = RamPa(base + q)
      BY <2>5, <2>6 DEF RamPa
    <2> QED BY <2>7, <2>8
  <1>12. t.page_count = 0
    BY <1>5
  <1> HIDE DEF t
  <1>13. RamTable(t, v)
    BY <1>7, <1>8, <1>9, <1>10, <1>11, <1>12 DEF RamTable
  <1> QED BY <1>13 DEF t

(***************************************************************************)
(* Sequences of updates.                                                   *)
(***************************************************************************)
\* A physical page is neither a fault nor an unpredictable result.
LEMMA PhysMapped ==
  ASSUME NEW pa \in Phys
  PROVE  pa.kind \notin {"fault", "unknown"} /\ pa # Fault /\ pa # Unknown
  <1>1. pa.kind \in {"ram", "uart", "timer_0", "timer_2", "vcpu_if", "black_hole"}
    BY DeviceAssumption DEF Phys, Kinds
  <1>2. Fault.kind = "fault" /\ Unknown.kind = "unknown"
    BY DEF Fault, Unknown, Pa
  <1> QED BY <1>1, <1>2

\* What the devices and the slots translate to are physical pages.
LEMMA PhysPages ==
  ASSUME NEW v \in VM
  PROVE  /\ \A d \in Devs : DevPa(d, v) \in Phys
         /\ \A s \in Slots : RamPa(s) \in Phys
  <1>1. v \in Nat /\ Slots \subseteq Nat
    BY DEF VM, Slots
  <1> QED BY <1>1 DEF Phys, Kinds, DevPa, RamPa, Pa

\* A second update keeps what the first one kept.
LEMMA KeptTrans ==
  ASSUME NEW t, NEW u, NEW w, NEW q, Kept(t, u, q), Kept(u, w, q),
         u.page_count \in Nat, w.page_count \in Nat, u.page_count <= w.page_count
  PROVE  Kept(t, w, q)
  BY TablesAssumption DEF Kept

\* The devices in D are mapped, nothing else is touched.
DevUpTo(t, u, v, D, m) ==
  /\ WellFormed(u) /\ u.page_count <= m
  /\ \A d \in D : Translate(u, DevIpa[d]) = DevPa(d, v)
  /\ \A q \in Pages : (\A d \in D : q # DevIpa[d]) => Kept(t, u, q)
  /\ \A b \in Blocks : u.l2[b] = t.l2[b] \/ u.l2[b].type = "table"

NotBlocks(t) == \A d \in Devs : t.l2[Block(DevIpa[d])].type # "block"

\* One more device.
LEMMA DevStep ==
  ASSUME NEW t, NEW u, NEW v \in VM, NEW D \in SUBSET Devs, NEW d \in Devs, d \notin D,
         NEW m \in 0 .. 4, NotBlocks(t), DevUpTo(t, u, v, D, m),
         NEW E, E = D \cup {d}, NEW k, k = m + 1
  PROVE  DevUpTo(t, map_device(u, v, d), v, E, k)
  <1> DEFINE w == map_device(u, v, d)
  <1>1. DevIpa[d] \in Pages /\ Block(DevIpa[d]) \in Blocks
    BY DeviceNotRam, BlockInRange
  <1>2. DevPa(d, v) \in Phys
    BY PhysPages
  <1>3. WellFormed(u) /\ u.page_count \in Nat /\ u.page_count < MaxTables
    BY TablesAssumption DEF DevUpTo, WellFormed, Tables
  <1>4. u.l2[Block(DevIpa[d])].type # "block"
    BY <1>1 DEF DevUpTo, NotBlocks
  <1>5. Sets(u, w, DevIpa[d], DevPa(d, v))
    BY <1>1, <1>2, <1>3, <1>4, SetPage DEF map_device
  <1> HIDE DEF w
  <1>6. w.page_count \in Nat /\ u.page_count <= w.page_count /\ w.page_count <= m + 1 /\ WellFormed(w)
    BY <1>5, <1>3 DEF Sets, DevUpTo, WellFormed, Tables
  <1>7. ASSUME NEW e \in D PROVE Translate(w, DevIpa[e]) = DevPa(e, v)
    <2>1. DevIpa[e] \in Pages /\ DevIpa[e] # DevIpa[d]
      BY DeviceNotRam, DeviceAssumption
    <2>2. Kept(u, w, DevIpa[e]) /\ Translate(u, DevIpa[e]) = DevPa(e, v)
      BY <2>1, <1>5 DEF Sets, DevUpTo
    <2>3. DevPa(e, v) # Fault
      BY PhysPages, PhysMapped
    <2> QED BY <2>2, <2>3 DEF Kept
  <1>8. Translate(w, DevIpa[d]) = DevPa(d, v)
    BY <1>5 DEF Sets
  <1>9. ASSUME NEW q \in Pages, \A e \in D \cup {d} : q # DevIpa[e] PROVE Kept(t, w, q)
    <2>1. Kept(t, u, q)
      BY <1>9 DEF DevUpTo
    <2>2. Kept(u, w, q)
      BY <1>9, <1>5 DEF Sets
    <2> QED BY <2>1, <2>2, <1>3, <1>6, KeptTrans
  <1>10. \A b \in Blocks : w.l2[b] = t.l2[b] \/ w.l2[b].type = "table"
    BY <1>5 DEF Sets, DevUpTo
  <1>11. DevUpTo(t, w, v, D \cup {d}, m + 1)
    BY <1>6, <1>7, <1>8, <1>9, <1>10 DEF DevUpTo
  <1> QED BY <1>11 DEF w

\* map_devices maps the five devices and nothing else.
LEMMA DevicesSet ==
  ASSUME NEW t, NEW v \in VM, WellFormed(t), t.page_count = 0, NotBlocks(t)
  PROVE  DevUpTo(t, map_devices(t, v), v, Devs, 5)
  <1> DEFINE t1 == map_device(t, v, "uart")
             t2 == map_device(t1, v, "timer_0")
             t3 == map_device(t2, v, "timer_2")
             t4 == map_device(t3, v, "vcpu_if")
             t5 == map_device(t4, v, "black_hole")
  <1>0. map_devices(t, v) = t5
    BY DEF map_devices
  <1>1. DevUpTo(t, t, v, {}, 0)
    BY DEF DevUpTo, Kept
  <1>2. Devs = {"uart", "timer_0", "timer_2", "vcpu_if", "black_hole"}
    BY DeviceAssumption
  <1> HIDE DEF t1, t2, t3, t4, t5
  <1> DEFINE D1 == {"uart"}
             D2 == {"uart", "timer_0"}
             D3 == {"uart", "timer_0", "timer_2"}
             D4 == {"uart", "timer_0", "timer_2", "vcpu_if"}
  <1>3. /\ D1 = {} \cup {"uart"} /\ D2 = D1 \cup {"timer_0"} /\ D3 = D2 \cup {"timer_2"}
        /\ D4 = D3 \cup {"vcpu_if"} /\ Devs = D4 \cup {"black_hole"}
    BY <1>2
  <1>4. /\ "uart" \notin {} /\ "timer_0" \notin D1 /\ "timer_2" \notin D2
        /\ "vcpu_if" \notin D3 /\ "black_hole" \notin D4
    OBVIOUS
  <1>5. /\ "uart" \in Devs /\ "timer_0" \in Devs /\ "timer_2" \in Devs
        /\ "vcpu_if" \in Devs /\ "black_hole" \in Devs
    BY <1>2
  <1>6. {} \in SUBSET Devs /\ D1 \in SUBSET Devs /\ D2 \in SUBSET Devs
        /\ D3 \in SUBSET Devs /\ D4 \in SUBSET Devs
    BY <1>2
  <1> HIDE DEF D1, D2, D3, D4
  <1>7. DevUpTo(t, t1, v, D1, 1)
    <2>1. 0 \in 0 .. 4 /\ 1 = 0 + 1
      OBVIOUS
    <2> QED BY <2>1, <1>1, <1>3, <1>4, <1>5, <1>6, DevStep DEF t1
  <1>8. DevUpTo(t, t2, v, D2, 2)
    <2>1. 1 \in 0 .. 4 /\ 2 = 1 + 1
      OBVIOUS
    <2> QED BY <2>1, <1>7, <1>3, <1>4, <1>5, <1>6, DevStep DEF t2
  <1>9. DevUpTo(t, t3, v, D3, 3)
    <2>1. 2 \in 0 .. 4 /\ 3 = 2 + 1
      OBVIOUS
    <2> QED BY <2>1, <1>8, <1>3, <1>4, <1>5, <1>6, DevStep DEF t3
  <1>10. DevUpTo(t, t4, v, D4, 4)
    <2>1. 3 \in 0 .. 4 /\ 4 = 3 + 1
      OBVIOUS
    <2> QED BY <2>1, <1>9, <1>3, <1>4, <1>5, <1>6, DevStep DEF t4
  <1>11. DevUpTo(t, t5, v, Devs, 5)
    <2>1. 4 \in 0 .. 4 /\ 5 = 4 + 1
      OBVIOUS
    <2> QED BY <2>1, <1>10, <1>3, <1>4, <1>5, <1>6, DevStep DEF t5
  <1> QED BY <1>0, <1>11

\* Two addresses are mapped to the page pa, nothing else is touched.
TwoSet(t, u, p, hp, pa) ==
  /\ WellFormed(u) /\ NoBlocks(u)
  /\ t.page_count <= u.page_count
  /\ Translate(u, p) = pa /\ Translate(u, hp) = pa
  /\ \A q \in Pages : q # p /\ q # hp => Kept(t, u, q)

\* map_slot maps both addresses of a page.
LEMMA MapTwo ==
  ASSUME NEW t, WellFormed(t), NEW p \in Pages, NEW hp \in Pages, p # hp, NEW pa \in Phys,
         t.page_count + 2 <= MaxTables
  PROVE  LET u == pagetable_set_page(pagetable_set_page(t, p, pa), hp, pa)
         IN  /\ WellFormed(u)
             /\ NoBlocks(t) => TwoSet(t, u, p, hp, pa)
  <1> DEFINE t1 == pagetable_set_page(t, p, pa)
             u == pagetable_set_page(t1, hp, pa)
  <1>1. t.page_count \in Nat /\ t.page_count < MaxTables /\ Block(p) \in Blocks
    BY TablesAssumption, BlockInRange DEF WellFormed, Tables
  <1>2. FieldsSet(t, t1, p, pa)
    BY <1>1, SetFields
  <1>3. WellFormed(t1) /\ t1.page_count \in Nat /\ t1.page_count < MaxTables
    <2>1. WellFormed(t1)
      BY <1>1, SetWellFormed
    <2> HIDE DEF t1
    <2> QED BY <2>1, <1>2, <1>1, TablesAssumption DEF FieldsSet, WellFormed, Tables
  <1>4. WellFormed(u)
    <2> HIDE DEF t1
    <2> QED BY <1>3, SetWellFormed
  <1>5. ASSUME NoBlocks(t) PROVE TwoSet(t, u, p, hp, pa)
    <2>1. Sets(t, t1, p, pa)
      BY <1>5, <1>1, SetPage DEF NoBlocks
    <2> HIDE DEF t1
    <2>2. NoBlocks(t1) /\ Block(hp) \in Blocks
      BY <2>1, <1>5, BlockInRange DEF Sets, NoBlocks
    <2>3. Sets(t1, u, hp, pa)
      BY <2>2, <1>3, SetPage DEF NoBlocks
    <2> HIDE DEF u
    <2>4. NoBlocks(u)
      BY <2>2, <2>3 DEF Sets, NoBlocks
    <2>5. u.page_count \in Nat /\ t1.page_count <= u.page_count /\ t.page_count <= u.page_count
      BY <2>1, <2>3, <1>1, <1>3, <1>4 DEF Sets, WellFormed, Tables
    <2>6. Translate(u, p) = pa
      <3>1. Kept(t1, u, p) /\ Translate(t1, p) = pa
        BY <2>1, <2>3 DEF Sets
      <3> QED BY <3>1, PhysMapped DEF Kept
    <2>7. ASSUME NEW q \in Pages, q # p, q # hp PROVE Kept(t, u, q)
      <3>1. Kept(t, t1, q) /\ Kept(t1, u, q)
        BY <2>1, <2>3, <2>7 DEF Sets
      <3> QED BY <3>1, <2>5, <1>3, KeptTrans
    <2>8. Translate(u, hp) = pa
      BY <2>3 DEF Sets
    <2> QED BY <1>4, <2>4, <2>5, <2>6, <2>7, <2>8 DEF TwoSet
  <1> QED BY <1>4, <1>5

(***************************************************************************)
(* Allocation.                                                             *)
(***************************************************************************)
Allocates(s, v, p, hp) ==
  /\ target_vm[s] = -1
  /\ take_slot(s, v, p, hp)
  /\ map_slot(s, v, p, hp)
  /\ halt' = halt

Exhausted ==
  /\ \A s \in Slots : target_vm[s] # -1
  /\ halt' = "no free memory"
  /\ target_vm' = target_vm /\ ipa' = ipa /\ high_ipa' = high_ipa
  /\ count' = count /\ last_i' = last_i /\ pt' = pt

\* memory_allocator_new_page takes a free slot or finds none.
LEMMA NewPage ==
  ASSUME TypeInv, NEW v, NEW p, NEW hp, new_page(v, p, hp)
  PROVE  /\ pt[v].page_count + 2 <= MaxTables
         /\ Exhausted \/ \E s \in Slots : Allocates(s, v, p, hp)
  <1>1. CASE \A s \in Slots : target_vm[s] # -1
    BY <1>1 DEF new_page, Exhausted, alloc
  <1>2. CASE ~\A s \in Slots : target_vm[s] # -1
    <2>1. PICK i \in 1 .. PageCount : target_vm[slot_after(i)] = -1
            /\ take_slot(slot_after(i), v, p, hp) /\ map_slot(slot_after(i), v, p, hp) /\ halt' = halt
      BY <1>2 DEF new_page
    <2>2. slot_after(i) \in Slots
      <3>1. last_i \in 0 .. PageCount - 1 /\ PageCount \in Nat
        BY LayoutAssumption DEF TypeInv, Slots
      <3> QED BY <3>1 DEF slot_after, Slots
    <2>3. Allocates(slot_after(i), v, p, hp)
      BY <2>1 DEF Allocates
    <2> QED BY <2>2, <2>3 DEF new_page
  <1> QED BY <1>1, <1>2

\* The addresses the data abort handler allocates for.
LEMMA WindowAddrs ==
  ASSUME NEW p \in Touch, low_window(p) \/ high_window(p)
  PROVE  /\ low_alias(p) \in Pages /\ low_alias(p) + HighBase \in Pages
         /\ low_alias(p) # low_alias(p) + HighBase
         /\ p = low_alias(p) \/ p = low_alias(p) + HighBase
         /\ StaysInRam => low_alias(p) \in Ram
  <1>1. p \in Pages
    BY LayoutAssumption
  <1>2. CASE low_window(p)
    BY <1>1, <1>2, LayoutAssumption DEF low_window, low_alias, Pages, StaysInRam, Ram
  <1>3. CASE ~low_window(p) /\ high_window(p)
    BY <1>1, <1>3, LayoutAssumption DEF low_window, high_window, low_alias, Pages, StaysInRam, Ram
  <1> QED BY <1>2, <1>3

\* The slots are finitely many.
LEMMA SlotsFinite ==
  /\ IsFiniteSet(Slots) /\ Cardinality(Slots) = PageCount
  /\ \A S \in SUBSET Slots : IsFiniteSet(S) /\ Cardinality(S) \in 0 .. PageCount
  <1>1. IsFiniteSet(Slots) /\ Cardinality(Slots) = PageCount
    BY FS_Interval, LayoutAssumption DEF Slots
  <1>2. ASSUME NEW S \in SUBSET Slots PROVE IsFiniteSet(S) /\ Cardinality(S) \in 0 .. PageCount
    <2>1. IsFiniteSet(S) /\ Cardinality(S) <= Cardinality(Slots)
      BY <1>1, FS_Subset
    <2>2. Cardinality(S) \in Nat
      BY <2>1, FS_CardinalityType
    <2> QED BY <2>1, <2>2, <1>1, LayoutAssumption
  <1> QED BY <1>1, <1>2

\* What an allocation for VM v does to the tables and to the owners of slots.
AllocStep(s, v, p, hp) ==
  /\ target_vm[s] = -1 /\ last_i' = s /\ count' = count + 1 /\ halt' = halt
  /\ \A x \in Slots : /\ target_vm'[x] = IF x = s THEN v ELSE target_vm[x]
                      /\ ipa'[x] = IF x = s THEN p ELSE ipa[x]
                      /\ high_ipa'[x] = IF x = s THEN hp ELSE high_ipa[x]
  /\ target_vm' \in [Slots -> VM \cup {-1}]
  /\ ipa' \in [Slots -> Pages] /\ high_ipa' \in [Slots -> Pages]
  /\ \A w \in VM : w # v => pt'[w] = pt[w]
  /\ pt' = [w \in VM |-> pt'[w]]
  /\ WellFormed(pt'[v])
  /\ NoBlocks(pt[v]) => TwoSet(pt[v], pt'[v], p, hp, RamPa(s))

\* ... as the code does it.
LEMMA AllocSteps ==
  ASSUME TypeInv, NEW v \in VM, WellFormed(pt[v]), NEW p \in Pages, NEW hp \in Pages, p # hp,
         NEW s \in Slots, Allocates(s, v, p, hp), pt[v].page_count + 2 <= MaxTables
  PROVE  AllocStep(s, v, p, hp)
  <1> DEFINE u == pagetable_set_page(pagetable_set_page(pt[v], p, RamPa(s)), hp, RamPa(s))
  <1>1. RamPa(s) \in Phys
    BY PhysPages
  <1>2. WellFormed(u) /\ (NoBlocks(pt[v]) => TwoSet(pt[v], u, p, hp, RamPa(s)))
    BY <1>1, MapTwo
  <1>3. pt' = [pt EXCEPT ![v] = u]
    BY DEF Allocates, map_slot
  <1> HIDE DEF u
  <1>4. pt'[v] = u /\ (\A w \in VM : w # v => pt'[w] = pt[w]) /\ pt' = [w \in VM |-> pt'[w]]
    BY <1>3 DEF TypeInv
  <1>5. \A x \in Slots : /\ target_vm'[x] = IF x = s THEN v ELSE target_vm[x]
                         /\ ipa'[x] = IF x = s THEN p ELSE ipa[x]
                         /\ high_ipa'[x] = IF x = s THEN hp ELSE high_ipa[x]
    BY DEF Allocates, take_slot, TypeInv
  <1>6. /\ target_vm' \in [Slots -> VM \cup {-1}]
        /\ ipa' \in [Slots -> Pages] /\ high_ipa' \in [Slots -> Pages]
    BY DEF Allocates, take_slot, TypeInv
  <1> QED BY <1>2, <1>4, <1>5, <1>6 DEF AllocStep, Allocates, take_slot

\* An allocation adds the slot to those of the VM.
LEMMA AllocSets ==
  ASSUME TypeInv, NEW v \in VM, NEW p, NEW hp, NEW s \in Slots, AllocStep(s, v, p, hp)
  PROVE  /\ UsedSlots' = UsedSlots \cup {s} /\ s \notin UsedSlots
         /\ SlotsOf(v)' = SlotsOf(v) \cup {s} /\ s \notin SlotsOf(v)
         /\ \A w \in VM : w # v => {x \in Slots : target_vm'[x] = w} = SlotsOf(w)
  <1>1. v # -1
    BY DEF VM
  <1>2. \A x \in Slots : target_vm'[x] = IF x = s THEN v ELSE target_vm[x]
    BY DEF AllocStep
  <1>3. target_vm[s] = -1 /\ \A w \in VM : w # -1
    BY DEF AllocStep, VM
  <1> QED BY <1>1, <1>2, <1>3 DEF UsedSlots, SlotsOf

\* The allocator's counters stay right.
LEMMA AllocCount ==
  ASSUME TypeInv, CountInv, NEW v \in VM, NEW p, NEW hp, NEW s \in Slots, AllocStep(s, v, p, hp),
         mon' = [mon EXCEPT ![v] = @ + 1]
  PROVE  CountInv'
  <1>1. /\ UsedSlots' = UsedSlots \cup {s} /\ s \notin UsedSlots
        /\ SlotsOf(v)' = SlotsOf(v) \cup {s} /\ s \notin SlotsOf(v)
        /\ \A w \in VM : w # v => {x \in Slots : target_vm'[x] = w} = SlotsOf(w)
    BY AllocSets
  <1>2. IsFiniteSet(UsedSlots) /\ IsFiniteSet(SlotsOf(v))
    BY SlotsFinite DEF UsedSlots, SlotsOf
  <1>3. /\ Cardinality(UsedSlots \cup {s}) = Cardinality(UsedSlots) + 1
        /\ Cardinality(SlotsOf(v) \cup {s}) = Cardinality(SlotsOf(v)) + 1
    BY <1>1, <1>2, FS_AddElement
  <1>4. count' = Cardinality(UsedSlots')
    BY <1>1, <1>3 DEF AllocStep, CountInv
  <1>5. ASSUME halt' = "no", NEW w \in VM
        PROVE  mon'[w] = Cardinality({x \in Slots : target_vm'[x] = w})
    <2>1. mon[w] = Cardinality(SlotsOf(w))
      BY <1>5 DEF CountInv, AllocStep
    <2>2. CASE w = v
      <3>1. mon'[v] = mon[v] + 1
        BY DEF TypeInv
      <3>2. {x \in Slots : target_vm'[x] = v} = SlotsOf(v) \cup {s}
        BY <1>1 DEF SlotsOf
      <3> QED BY <3>1, <3>2, <2>1, <2>2, <1>3
    <2>3. CASE w # v
      <3>1. mon'[w] = mon[w]
        BY <2>3 DEF TypeInv
      <3> QED BY <3>1, <2>1, <2>3, <1>1
    <2> QED BY <2>2, <2>3
  <1> QED BY <1>4, <1>5 DEF CountInv, SlotsOf

(***************************************************************************)
(* The preparation of a VM.                                                *)
(***************************************************************************)
DevPages(v) == {DevPa(d, v) : d \in Devs}

Prepared(u, v) ==
  /\ WellFormed(u)
  /\ \A d \in Devs : Translate(u, DevIpa[d]) = DevPa(d, v)
  /\ ~static =>
       /\ NoBlocks(u)
       /\ \A q \in Pages : (\A d \in Devs : q # DevIpa[d]) =>
            Translate(u, q) = Fault \/ (Translate(u, q) = Unknown /\ L3Tables < u.page_count)
  /\ static =>
       /\ \A p \in Ram : /\ Translate(u, p) = RamPa(mem_base_pa(v) + p)
                         /\ Translate(u, p + HighBase) = RamPa(mem_base_pa(v) + p)
       /\ \A p \in Pages : ~InRam(p) => Translate(u, p) \in DevPages(v) \cup {Fault, Unknown}

\* What guest_rpb_init_pt leaves in the tables of VM v.
LEMMA PrepareTables ==
  ASSUME NEW v \in VM, static \in BOOLEAN
  PROVE  Prepared(map_devices(IF static THEN map_ram_blocks(pagetable_init, v)
                              ELSE pagetable_init, v), v)
  <1>1. ASSUME ~static PROVE Prepared(map_devices(pagetable_init, v), v)
    <2> DEFINE t == pagetable_init
               u == map_devices(t, v)
    <2>1. WellFormed(t) /\ t.page_count = 0 /\ \A b \in Blocks : t.l2[b] = Invalid
      BY InitTable DEF EmptyTable
    <2>2. Invalid.type = "invalid"
      BY DEF Invalid
    <2> HIDE DEF t
    <2>3. NotBlocks(t)
      BY <2>1, <2>2, DeviceNotRam, BlockInRange DEF NotBlocks
    <2>4. DevUpTo(t, u, v, Devs, 5)
      BY <2>1, <2>3, DevicesSet
    <2> HIDE DEF u
    <2>5. NoBlocks(u)
      BY <2>1, <2>2, <2>4 DEF DevUpTo, NoBlocks
    <2>6. \A q \in Pages : Translate(t, q) = Fault
      BY <2>1, <2>2, BlockInRange, Walk
    <2>7. ASSUME NEW q \in Pages, \A d \in Devs : q # DevIpa[d]
          PROVE  Translate(u, q) = Fault \/ (Translate(u, q) = Unknown /\ L3Tables < u.page_count)
      BY <2>4, <2>6, <2>7 DEF DevUpTo, Kept
    <2>8. Prepared(u, v)
      BY <1>1, <2>4, <2>5, <2>7 DEF Prepared, DevUpTo
    <2> QED BY <2>8 DEF u, t
  <1>2. ASSUME static PROVE Prepared(map_devices(map_ram_blocks(pagetable_init, v), v), v)
    <2> DEFINE t == map_ram_blocks(pagetable_init, v)
               u == map_devices(t, v)
    <2>1. RamTable(t, v)
      BY RamBlocks
    <2> HIDE DEF t
    <2>2. Invalid.type = "invalid"
      BY DEF Invalid
    <2>3. NotBlocks(t)
      BY <2>1, <2>2, DeviceNotRam DEF NotBlocks, RamTable
    <2>4. DevUpTo(t, u, v, Devs, 5)
      BY <2>1, <2>3, DevicesSet DEF RamTable
    <2> HIDE DEF u
    <2>5. \A p \in Ram : p \in Pages /\ p + HighBase \in Pages /\ InRam(p) /\ InRam(p + HighBase)
      BY LayoutAssumption DEF Ram, Pages, InRam
    <2>6. \A p \in Pages : InRam(p) => \A d \in Devs : p # DevIpa[d]
      BY DeviceNotRam
    <2>7. ASSUME NEW p \in Ram
          PROVE  /\ Translate(u, p) = RamPa(mem_base_pa(v) + p)
                 /\ Translate(u, p + HighBase) = RamPa(mem_base_pa(v) + p)
      <3>1. Kept(t, u, p) /\ Kept(t, u, p + HighBase)
        BY <2>4, <2>5, <2>6 DEF DevUpTo
      <3>2. RamPa(mem_base_pa(v) + p) # Fault
        BY DEF RamPa, Pa, Fault
      <3>3. Translate(t, p) = RamPa(mem_base_pa(v) + p)
            /\ Translate(t, p + HighBase) = RamPa(mem_base_pa(v) + p)
        BY <2>1 DEF RamTable
      <3> QED BY <3>1, <3>2, <3>3 DEF Kept
    <2>8. ASSUME NEW p \in Pages, ~InRam(p)
          PROVE  Translate(u, p) \in DevPages(v) \cup {Fault, Unknown}
      <3>1. CASE \E d \in Devs : p = DevIpa[d]
        BY <3>1, <2>4 DEF DevUpTo, DevPages
      <3>2. CASE \A d \in Devs : p # DevIpa[d]
        <4>1. Translate(t, p) = Fault
          BY <2>1, <2>2, <2>8, Walk DEF RamTable
        <4> QED BY <3>2, <4>1, <2>4 DEF DevUpTo, Kept
      <3> QED BY <3>1, <3>2
    <2>9. Prepared(u, v)
      BY <1>2, <2>4, <2>7, <2>8 DEF Prepared, DevUpTo
    <2> QED BY <2>9 DEF u, t
  <1> QED BY <1>1, <1>2

PrepareStep(c) ==
  /\ \A w \in VM : w # c => pt'[w] = pt[w]
  /\ pt' = [w \in VM |-> pt'[w]]
  /\ Prepared(pt'[c], c)
  /\ todo' = Todo(c + 1, 0)
  /\ static' = static /\ target_vm' = target_vm /\ ipa' = ipa /\ high_ipa' = high_ipa
  /\ count' = count /\ last_i' = last_i /\ image' = image /\ mon' = mon
  /\ redo' = redo /\ halt' = halt

\* guest_rpb_init_pt, as a whole.
LEMMA PrepareSteps ==
  ASSUME NEW c \in 0 .. NumVM, NEW n \in 0 .. LoadCount, At(c, n), todo = Todo(c, n), TypeInv,
         guest_rpb_init_pt
  PROVE  n = LoadCount /\ c \in VM /\ todo # <<>> /\ PrepareStep(c)
  <1> DEFINE u == map_devices(IF static THEN map_ram_blocks(pagetable_init, c)
                              ELSE pagetable_init, c)
  <1>1. todo # <<>> /\ Head(todo).op = "init_pt"
    BY DEF guest_rpb_init_pt
  <1>2. n = LoadCount /\ c \in VM /\ Head(todo).vm = c
    BY <1>1, TodoCases
  <1>3. c < NumVM
    BY <1>2, LayoutAssumption DEF VM
  <1>4. pt' = [pt EXCEPT ![c] = u]
        /\ todo' = [i \in DOMAIN image_pages |-> Step(c, "load", image_pages[i])] \o Tail(todo)
    BY <1>2 DEF guest_rpb_init_pt
  <1>5. todo' = Todo(c + 1, 0)
    BY <1>2, <1>3, <1>4, TodoPrepared
  <1>6. Prepared(u, c)
    BY <1>2, PrepareTables DEF TypeInv
  <1> HIDE DEF u
  <1>7. pt'[c] = u /\ (\A w \in VM : w # c => pt'[w] = pt[w]) /\ pt' = [w \in VM |-> pt'[w]]
    BY <1>2, <1>4 DEF TypeInv
  <1>8. /\ static' = static /\ target_vm' = target_vm /\ ipa' = ipa /\ high_ipa' = high_ipa
        /\ count' = count /\ last_i' = last_i /\ image' = image /\ mon' = mon
        /\ redo' = redo /\ halt' = halt
    BY DEF guest_rpb_init_pt, alloc
  <1> QED BY <1>1, <1>2, <1>5, <1>6, <1>7, <1>8 DEF PrepareStep

(***************************************************************************)
(* The first part of the invariant: any guests, either initialisation.      *)
(***************************************************************************)
\* At the start.
LEMMA InitBase == Init => BaseInv(0, LoadCount)
  <1> HAVE Init
  <1>1. todo = Todo(0, LoadCount)
    BY TodoInit
  <1>2. TypeInv
    <2>1. 0 \in Slots /\ 0 \in Pages
      BY LayoutAssumption DEF Slots, Pages
    <2> QED BY <2>1, ModesAssumption DEF Init, TypeInv
  <1>3. TablesInv(0)
    BY DEF Init, TablesInv, VM
  <1>4. CountInv
    <2>1. UsedSlots = {} /\ \A v \in VM : SlotsOf(v) = {}
      BY DEF Init, UsedSlots, SlotsOf, VM
    <2>2. Cardinality({}) = 0
      BY FS_EmptySet
    <2> QED BY <2>1, <2>2 DEF Init, CountInv
  <1>5. (\A v \in VM : redo[v] = None) /\ DemandInv(0)
    BY DEF Init, DemandInv, VM
  <1> QED BY <1>1, <1>2, <1>3, <1>4, <1>5 DEF BaseInv

\* The tables of one more VM.
LEMMA PrepareBase ==
  ASSUME NEW c \in VM, BaseInv(c, LoadCount), todo # <<>>, PrepareStep(c)
  PROVE  BaseInv(c + 1, 0)'
  <1>0. c \in Int /\ \A v \in VM : v \in Int
    BY DEF VM
  <1>1. /\ TypeInv /\ TablesInv(c) /\ CountInv /\ DemandInv(c)
        /\ \A v \in VM : redo[v] = None
    BY DEF BaseInv
  <1>2. TypeInv'
    BY <1>1 DEF TypeInv, PrepareStep
  <1>3. TablesInv(c + 1)'
    <2>1. ASSUME NEW v \in VM, v < c + 1 PROVE WellFormed(pt'[v])
      <3>1. v = c \/ (v # c /\ v < c)
        BY <1>0, <2>1
      <3> QED BY <3>1, <1>1 DEF PrepareStep, Prepared, TablesInv
    <2>2. ASSUME NEW v \in VM, c + 1 <= v PROVE pt'[v] = NoTables
      <3>1. v # c /\ c <= v
        BY <1>0, <2>2
      <3> QED BY <3>1, <1>1 DEF PrepareStep, TablesInv
    <2>3. ASSUME NEW s \in Slots PROVE target_vm'[s] < c + 1
      <3>1. target_vm'[s] = target_vm[s] /\ target_vm[s] < c /\ target_vm[s] \in Int
        <4>1. target_vm[s] \in VM \cup {-1}
          BY <1>1 DEF TypeInv
        <4> QED BY <4>1, <1>0, <1>1 DEF PrepareStep, TablesInv
      <3> QED BY <3>1, <1>0
    <2> QED BY <2>1, <2>2, <2>3 DEF TablesInv
  <1>4. CountInv'
    BY <1>1 DEF CountInv, PrepareStep, UsedSlots, SlotsOf
  <1>5. DemandInv(c + 1)'
    <2> SUFFICES ASSUME ~static
                 PROVE  /\ \A v \in VM : v < c + 1 => NoBlocks(pt'[v])
                        /\ \A v \in VM, p \in Pages : v < c + 1 =>
                             Translate(pt'[v], p) \in OwnedBy(v)' \cup {Fault, Unknown}
                        /\ \A v \in VM : redo'[v] = None
      BY DEF DemandInv, PrepareStep
    <2>1. \A v \in VM : v < c + 1 => v = c \/ (v # c /\ v < c)
      BY <1>0
    <2>2. \A v \in VM : OwnedBy(v)' = OwnedBy(v)
      BY DEF PrepareStep, OwnedBy, SlotsOf
    <2>3. \A v \in VM : v < c + 1 => NoBlocks(pt'[v])
      BY <2>1, <1>1 DEF PrepareStep, Prepared, DemandInv
    <2>4. ASSUME NEW v \in VM, NEW p \in Pages, v < c + 1
          PROVE  Translate(pt'[v], p) \in OwnedBy(v)' \cup {Fault, Unknown}
      <3>1. CASE v # c /\ v < c
        BY <3>1, <2>2, <1>1 DEF PrepareStep, DemandInv
      <3>2. CASE v = c
        <4>1. Prepared(pt'[c], c)
          BY DEF PrepareStep
        <4>2. CASE \E d \in Devs : p = DevIpa[d]
          BY <4>1, <4>2, <3>2, <2>2 DEF Prepared, OwnedBy
        <4>3. CASE \A d \in Devs : p # DevIpa[d]
          BY <4>1, <4>3, <3>2 DEF Prepared
        <4> QED BY <4>2, <4>3
      <3> QED BY <2>1, <2>4, <3>1, <3>2
    <2> QED BY <2>3, <2>4, <1>1 DEF PrepareStep
  <1> QED BY <1>1, <1>2, <1>3, <1>4, <1>5 DEF BaseInv, PrepareStep

\* An allocation for VM v.
LEMMA AllocTables ==
  ASSUME NEW c \in 0 .. NumVM, NEW v \in VM, v < c, NEW p \in Pages, NEW hp \in Pages, NEW s \in Slots,
         TypeInv, TablesInv(c), AllocStep(s, v, p, hp)
  PROVE  TablesInv(c)'
  <1>1. ASSUME NEW w \in VM, w < c PROVE WellFormed(pt'[w])
    BY <1>1 DEF AllocStep, TablesInv
  <1>2. ASSUME NEW w \in VM, c <= w PROVE pt'[w] = NoTables
    <2>1. w # v
      BY <1>2 DEF VM
    <2> QED BY <2>1, <1>2 DEF AllocStep, TablesInv
  <1>3. ASSUME NEW x \in Slots PROVE target_vm'[x] < c
    BY DEF AllocStep, TablesInv
  <1> QED BY <1>1, <1>2, <1>3 DEF TablesInv

\* ... keeps the types of the variables that it changes.
LEMMA AllocTypes ==
  ASSUME TypeInv, NEW v \in VM, NEW p \in Pages, NEW hp \in Pages, NEW s \in Slots,
         AllocStep(s, v, p, hp), static' = static,
         image' = [x \in Slots |-> image'[x]], mon' \in [VM -> Nat], redo' \in [VM -> Pages \cup {None}]
  PROVE  TypeInv'
  BY DEF TypeInv, AllocStep

\* ... gives it a page of its own, on demand.
LEMMA AllocDemand ==
  ASSUME NEW c \in 0 .. NumVM, NEW v \in VM, v < c, NEW p \in Pages, NEW hp \in Pages, NEW s \in Slots,
         TypeInv, DemandInv(c), AllocStep(s, v, p, hp), halt = "no", static' = static,
         redo' = redo \/ \E q \in {p, hp} : redo' = [redo EXCEPT ![v] = q]
  PROVE  DemandInv(c)'
  <1> SUFFICES ASSUME ~static
               PROVE  /\ \A w \in VM : w < c => NoBlocks(pt'[w])
                      /\ \A w \in VM, q \in Pages : w < c =>
                           Translate(pt'[w], q) \in OwnedBy(w)' \cup {Fault, Unknown}
                      /\ \A w \in VM : redo'[w] # None =>
                           Translate(pt'[w], redo'[w]).kind \notin {"fault", "unknown"}
    BY DEF DemandInv, Mapped
  <1>1. /\ \A w \in VM : w < c => NoBlocks(pt[w])
        /\ \A w \in VM, q \in Pages : w < c => Translate(pt[w], q) \in OwnedBy(w) \cup {Fault, Unknown}
        /\ \A w \in VM : redo[w] # None => Translate(pt[w], redo[w]).kind \notin {"fault", "unknown"}
    BY DEF DemandInv, Mapped
  <1>2. TwoSet(pt[v], pt'[v], p, hp, RamPa(s)) /\ \A w \in VM : w # v => pt'[w] = pt[w]
    BY <1>1 DEF AllocStep
  <1>3. /\ SlotsOf(v)' = SlotsOf(v) \cup {s}
        /\ \A w \in VM : w # v => {x \in Slots : target_vm'[x] = w} = SlotsOf(w)
    BY AllocSets
  <1>4. /\ OwnedBy(v) \subseteq OwnedBy(v)' /\ RamPa(s) \in OwnedBy(v)'
        /\ \A w \in VM : w # v => OwnedBy(w)' = OwnedBy(w)
    BY <1>3 DEF OwnedBy, SlotsOf
  <1>5. \A w \in VM : w < c => NoBlocks(pt'[w])
    BY <1>1, <1>2 DEF TwoSet
  <1>6. RamPa(s).kind = "ram" /\ Fault.kind = "fault"
    BY DEF RamPa, Pa, Fault
  <1>7. \A q \in Pages : \/ Translate(pt'[v], q) = RamPa(s)
                         \/ Translate(pt'[v], q) = Translate(pt[v], q)
                         \/ Translate(pt[v], q) = Fault /\ Translate(pt'[v], q) = Unknown
    BY <1>2 DEF TwoSet, Kept
  <1>8. ASSUME NEW w \in VM, NEW q \in Pages, w < c
        PROVE  Translate(pt'[w], q) \in OwnedBy(w)' \cup {Fault, Unknown}
    <2>1. CASE w = v
      BY <2>1, <1>1, <1>4, <1>7
    <2>2. CASE w # v
      BY <2>2, <1>8, <1>1, <1>2, <1>4
    <2> QED BY <2>1, <2>2
  <1>9. ASSUME NEW w \in VM, redo'[w] # None
        PROVE  Translate(pt'[w], redo'[w]).kind \notin {"fault", "unknown"}
    <2>1. CASE redo'[w] = redo[w]
      <3>1. redo[w] \in Pages /\ Translate(pt[w], redo[w]).kind \notin {"fault", "unknown"}
        BY <1>1, <1>9, <2>1 DEF TypeInv
      <3>2. CASE w = v
        BY <3>1, <3>2, <2>1, <1>6, <1>7
      <3>3. CASE w # v
        BY <3>1, <3>3, <2>1, <1>2
      <3> QED BY <3>2, <3>3
    <2>2. CASE w = v /\ redo'[w] \in {p, hp}
      BY <2>2, <1>2, <1>6 DEF TwoSet
    <2>3. redo'[w] = redo[w] \/ (w = v /\ redo'[w] \in {p, hp})
      BY DEF TypeInv
    <2> QED BY <2>1, <2>2, <2>3
  <1> QED BY <1>5, <1>8, <1>9

LoadEffect(c, n) ==
  LET v == c - 1
      g == image_pages[n + 1]
  IN  /\ todo' = Todo(c, n + 1) /\ static' = static /\ redo' = redo
      /\ \/ Exhausted /\ image' = image /\ mon' = mon
         \/ \E s \in Slots : /\ AllocStep(s, v, g.p, g.p + HighBase)
                             /\ image' = [image EXCEPT ![s] = Loaded(v, g)]
                             /\ mon' = [mon EXCEPT ![v] = @ + 1]

\* guest_rpb_init_mem, one page.
LEMMA LoadSteps ==
  ASSUME NEW c \in 0 .. NumVM, NEW n \in 0 .. LoadCount, At(c, n), todo = Todo(c, n), TypeInv,
         TablesInv(c), guest_rpb_init_mem
  PROVE  /\ n < LoadCount /\ n + 1 \in 1 .. LoadCount /\ c - 1 \in VM /\ c - 1 < c
         /\ image_pages[n + 1].p \in Ram
         /\ image_pages[n + 1].p \in Pages /\ image_pages[n + 1].p + HighBase \in Pages
         /\ halt = "no" /\ todo # <<>> /\ ~static
         /\ LoadEffect(c, n)
  <1> DEFINE v == c - 1
             g == image_pages[n + 1]
             p == g.p
  <1>0. LoadCount \in Nat /\ NumVM \in Nat
    BY ImageAssumption, LayoutAssumption DEF LoadCount
  <1>1. halt = "no" /\ todo # <<>> /\ Head(todo).op = "load" /\ ~static
    BY DEF guest_rpb_init_mem
  <1>2. n < LoadCount /\ v \in VM /\ Head(todo).vm = v /\ Head(todo).g = g
    BY <1>1, TodoCases
  <1>3. v < c /\ n + 1 \in 1 .. LoadCount
    BY <1>0, <1>2
  <1>4. p \in Ram
    BY <1>3, ImagePages
  <1>5. p \in Pages /\ p + HighBase \in Pages /\ p # p + HighBase
    BY <1>4, LayoutAssumption DEF Ram, Pages
  <1>6. todo' = Todo(c, n + 1)
    BY <1>2, TodoLoaded DEF guest_rpb_init_mem
  <1>7. static' = static /\ redo' = redo
    BY DEF guest_rpb_init_mem
  <1>8. /\ new_page(v, p, p + HighBase)
        /\ image' = IF halt' = "no" THEN [image EXCEPT ![last_i'] = Loaded(v, g)] ELSE image
        /\ mon' = IF halt' = "no" THEN [mon EXCEPT ![v] = @ + 1] ELSE mon
    BY <1>2 DEF guest_rpb_init_mem
  <1>9. WellFormed(pt[v])
    BY <1>2, <1>3 DEF TablesInv
  <1> HIDE DEF v, g, p
  <1>10. /\ pt[v].page_count + 2 <= MaxTables
         /\ Exhausted \/ \E s \in Slots : Allocates(s, v, p, p + HighBase)
    BY <1>8, NewPage
  <1>11. CASE Exhausted
    <2>1. image' = image /\ mon' = mon
      BY <1>11, <1>8 DEF Exhausted
    <2> QED BY <2>1, <1>11, <1>1, <1>2, <1>3, <1>4, <1>5, <1>6, <1>7 DEF LoadEffect, v, g, p
  <1>12. CASE \E s \in Slots : Allocates(s, v, p, p + HighBase)
    <2>1. PICK s \in Slots : Allocates(s, v, p, p + HighBase)
      BY <1>12
    <2>2. AllocStep(s, v, p, p + HighBase)
      BY <2>1, <1>2, <1>5, <1>9, <1>10, AllocSteps
    <2>3. halt' = "no" /\ last_i' = s
      BY <2>2, <1>1 DEF AllocStep
    <2>4. image' = [image EXCEPT ![s] = Loaded(v, g)] /\ mon' = [mon EXCEPT ![v] = @ + 1]
      BY <2>3, <1>8
    <2>5. LoadEffect(c, n)
      BY <2>2, <2>4, <1>6, <1>7 DEF LoadEffect, v, g, p
    <2> QED BY <2>5, <1>1, <1>2, <1>3, <1>4, <1>5 DEF v, g, p
  <1> QED BY <1>10, <1>11, <1>12

TrapEffect(v, p) ==
  /\ ~Mapped(v, p)
  /\ todo' = todo /\ static' = static /\ image' = image
  /\ redo' = [redo EXCEPT ![v] = p]
  /\ mon' = [mon EXCEPT ![v] = @ + 1]
  /\ \/ Exhausted
     \/ \E s \in Slots : AllocStep(s, v, low_alias(p), low_alias(p) + HighBase)

\* The memory part of the data abort handler.
LEMMA TrapSteps ==
  ASSUME NEW c \in 0 .. NumVM, NEW n \in 0 .. LoadCount, At(c, n), todo = Todo(c, n), TypeInv,
         TablesInv(c), NEW v \in VM, NEW p \in Touch, trap_dabort_memory(v, p)
  PROVE  /\ todo = <<>> /\ c = NumVM /\ n = LoadCount /\ v < c /\ p \in Pages /\ halt = "no"
         /\ low_alias(p) \in Pages /\ low_alias(p) + HighBase \in Pages
         /\ p \in {low_alias(p), low_alias(p) + HighBase}
         /\ StaysInRam => low_alias(p) \in Ram
         /\ TrapEffect(v, p)
  <1>1. halt = "no" /\ todo = <<>> /\ (low_window(p) \/ high_window(p))
    BY DEF trap_dabort_memory, Accesses
  <1>2. c = NumVM /\ n = LoadCount
    BY <1>1, TodoCases
  <1>3. v < c /\ p \in Pages
    BY <1>2, LayoutAssumption DEF VM
  <1> DEFINE lp == low_alias(p)
  <1>4. /\ lp \in Pages /\ lp + HighBase \in Pages /\ lp # lp + HighBase
        /\ p = lp \/ p = lp + HighBase
        /\ StaysInRam => lp \in Ram
    BY <1>1, WindowAddrs
  <1>5. /\ ~Mapped(v, p) /\ new_page(v, lp, lp + HighBase)
        /\ todo' = todo /\ static' = static /\ image' = image
        /\ redo' = [redo EXCEPT ![v] = p] /\ mon' = [mon EXCEPT ![v] = @ + 1]
    BY DEF trap_dabort_memory
  <1>6. WellFormed(pt[v])
    BY <1>3 DEF TablesInv
  <1> HIDE DEF lp
  <1>7. /\ pt[v].page_count + 2 <= MaxTables
        /\ Exhausted \/ \E s \in Slots : Allocates(s, v, lp, lp + HighBase)
    BY <1>5, NewPage
  <1>8. \A s \in Slots : Allocates(s, v, lp, lp + HighBase) => AllocStep(s, v, lp, lp + HighBase)
    BY <1>4, <1>6, <1>7, AllocSteps
  <1>9. TrapEffect(v, p)
    BY <1>5, <1>7, <1>8 DEF TrapEffect, lp
  <1> QED BY <1>1, <1>2, <1>3, <1>4, <1>9 DEF lp

\* When no slot is free nothing is changed.
LEMMA ExhaustedBase ==
  ASSUME NEW c \in 0 .. NumVM, NEW n \in 0 .. LoadCount, BaseInv(c, n), Exhausted, static' = static,
         image' = image, mon' \in [VM -> Nat], redo' \in [VM -> Pages \cup {None}],
         NEW m \in 0 .. LoadCount, todo' = Todo(c, m),
         todo' # <<>> => \A v \in VM : redo'[v] = None
  PROVE  BaseInv(c, m)'
  <1>1. TypeInv /\ TablesInv(c) /\ CountInv /\ DemandInv(c)
    BY DEF BaseInv
  <1>2. TypeInv'
    BY <1>1 DEF TypeInv, Exhausted
  <1>3. TablesInv(c)'
    BY <1>1 DEF TablesInv, Exhausted
  <1>4. CountInv'
    BY <1>1 DEF CountInv, Exhausted, UsedSlots
  <1>5. \A v \in VM : OwnedBy(v)' = OwnedBy(v)
    BY DEF OwnedBy, SlotsOf, Exhausted
  <1>6. DemandInv(c)'
    BY <1>1, <1>5 DEF DemandInv, Exhausted
  <1> QED BY <1>2, <1>3, <1>4, <1>6 DEF BaseInv

\* Steps that leave allocator and tables alone.
QuietStep ==
  /\ static' = static /\ target_vm' = target_vm /\ ipa' = ipa /\ high_ipa' = high_ipa
  /\ count' = count /\ last_i' = last_i /\ pt' = pt /\ mon' = mon
  /\ halt' = halt \/ halt' = "printb"
  /\ redo' \in [VM -> Pages \cup {None}]
  /\ \A v \in VM : redo'[v] = redo[v] \/ redo'[v] = None

\* ... keep the invariant.
LEMMA QuietBase ==
  ASSUME NEW c \in 0 .. NumVM, NEW n \in 0 .. LoadCount, BaseInv(c, n), QuietStep,
         image' = [s \in Slots |-> image'[s]],
         NEW m \in 0 .. LoadCount, todo' = Todo(c, m), todo' # <<>> => todo # <<>>
  PROVE  BaseInv(c, m)'
  <1>1. TypeInv /\ TablesInv(c) /\ CountInv /\ DemandInv(c) /\ (todo # <<>> => \A v \in VM : redo[v] = None)
    BY DEF BaseInv
  <1>2. TypeInv'
    BY <1>1 DEF TypeInv, QuietStep
  <1>3. TablesInv(c)'
    BY <1>1 DEF TablesInv, QuietStep
  <1>4. CountInv'
    BY <1>1 DEF CountInv, QuietStep, UsedSlots, SlotsOf
  <1>5. \A v \in VM : OwnedBy(v)' = OwnedBy(v)
    BY DEF OwnedBy, SlotsOf, QuietStep
  <1>6. DemandInv(c)'
    <2>1. halt' = "no" => halt = "no"
      BY DEF QuietStep
    <2> QED BY <1>1, <1>5, <2>1 DEF DemandInv, QuietStep, Mapped
  <1>7. todo' # <<>> => \A v \in VM : redo'[v] = None
    BY <1>1 DEF QuietStep
  <1> QED BY <1>2, <1>3, <1>4, <1>6, <1>7 DEF BaseInv

StaticEffect(c, n) ==
  LET v == c - 1
      g == image_pages[n + 1]
  IN  /\ QuietStep /\ redo' = redo /\ halt' = halt
      /\ todo' = Todo(c, n + 1)
      /\ image' = [image EXCEPT ![mem_base_pa(v) + g.p] = Loaded(v, g)]

\* guest_rpb_init_mem_static, one page.
LEMMA StaticSteps ==
  ASSUME NEW c \in 0 .. NumVM, NEW n \in 0 .. LoadCount, At(c, n), todo = Todo(c, n), TypeInv,
         guest_rpb_init_mem_static
  PROVE  /\ n < LoadCount /\ n + 1 \in 1 .. LoadCount /\ c - 1 \in VM
         /\ image_pages[n + 1].p \in Ram
         /\ todo # <<>> /\ static
         /\ StaticEffect(c, n)
  <1> DEFINE v == c - 1
             g == image_pages[n + 1]
  <1>0. LoadCount \in Nat /\ NumVM \in Nat
    BY ImageAssumption, LayoutAssumption DEF LoadCount
  <1>1. halt = "no" /\ todo # <<>> /\ Head(todo).op = "load" /\ static
    BY DEF guest_rpb_init_mem_static
  <1>2. n < LoadCount /\ v \in VM /\ Head(todo).vm = v /\ Head(todo).g = g
    BY <1>1, TodoCases
  <1>3. n + 1 \in 1 .. LoadCount
    BY <1>0, <1>2
  <1>4. g.p \in Ram
    BY <1>3, ImagePages
  <1>5. todo' = Todo(c, n + 1)
    BY <1>2, TodoLoaded DEF guest_rpb_init_mem_static
  <1>6. image' = [image EXCEPT ![mem_base_pa(v) + g.p] = Loaded(v, g)]
    BY <1>2 DEF guest_rpb_init_mem_static
  <1>7. QuietStep /\ redo' = redo /\ halt' = halt
    BY DEF guest_rpb_init_mem_static, QuietStep, alloc, TypeInv
  <1> QED BY <1>1, <1>2, <1>3, <1>4, <1>5, <1>6, <1>7 DEF StaticEffect

\* Accesses that do not fault, emulated devices, and an exited hypervisor.
LEMMA OtherSteps ==
  ASSUME TypeInv,
         \/ \E v \in VM, p \in Touch : GuestAccess(v, p) \/ trap_dabort_device(v, p)
         \/ Exited \/ UNCHANGED vars
  PROVE  QuietStep /\ todo' = todo /\ image' = image
  <1>1. ASSUME NEW v \in VM, NEW p \in Touch, GuestAccess(v, p)
        PROVE  QuietStep /\ todo' = todo /\ image' = image
    <2>1. redo' = [redo EXCEPT ![v] = None]
      BY <1>1 DEF GuestAccess
    <2>2. redo' \in [VM -> Pages \cup {None}] /\ \A w \in VM : redo'[w] = redo[w] \/ redo'[w] = None
      BY <2>1 DEF TypeInv
    <2>3. /\ static' = static /\ target_vm' = target_vm /\ ipa' = ipa /\ high_ipa' = high_ipa
          /\ count' = count /\ last_i' = last_i /\ pt' = pt /\ mon' = mon /\ halt' = halt
          /\ todo' = todo /\ image' = image
      BY <1>1 DEF GuestAccess, alloc
    <2> QED BY <2>2, <2>3 DEF QuietStep
  <1>2. ASSUME NEW v \in VM, NEW p \in Touch, trap_dabort_device(v, p)
        PROVE  QuietStep /\ todo' = todo /\ image' = image
    BY <1>2 DEF trap_dabort_device, QuietStep, alloc, TypeInv
  <1>3. CASE Exited \/ UNCHANGED vars
    BY <1>3 DEF Exited, vars, QuietStep, alloc, TypeInv
  <1> QED BY <1>1, <1>2, <1>3

\* The kinds of steps, with what each of them does.
PrepareKind(c, n) == n = LoadCount /\ c \in VM /\ todo # <<>> /\ PrepareStep(c)

LoadKind(c, n) ==
  /\ n < LoadCount /\ n + 1 \in 1 .. LoadCount /\ c - 1 \in VM /\ c - 1 < c
  /\ image_pages[n + 1].p \in Ram
  /\ image_pages[n + 1].p \in Pages /\ image_pages[n + 1].p + HighBase \in Pages
  /\ halt = "no" /\ todo # <<>> /\ ~static
  /\ LoadEffect(c, n)

StaticKind(c, n) ==
  /\ n < LoadCount /\ n + 1 \in 1 .. LoadCount /\ c - 1 \in VM
  /\ image_pages[n + 1].p \in Ram
  /\ todo # <<>> /\ static
  /\ StaticEffect(c, n)

TrapKind(c, n, v, p) ==
  /\ todo = <<>> /\ c = NumVM /\ n = LoadCount /\ v < c /\ p \in Pages /\ halt = "no"
  /\ low_alias(p) \in Pages /\ low_alias(p) + HighBase \in Pages
  /\ p \in {low_alias(p), low_alias(p) + HighBase}
  /\ StaysInRam => low_alias(p) \in Ram
  /\ TrapEffect(v, p)

QuietKind == QuietStep /\ todo' = todo /\ image' = image

StepKinds(c, n) ==
  \/ PrepareKind(c, n) \/ LoadKind(c, n) \/ StaticKind(c, n)
  \/ \E v \in VM, p \in Touch : TrapKind(c, n, v, p)
  \/ QuietKind

\* Every step is of one of them.
LEMMA NextKinds ==
  ASSUME NEW c \in 0 .. NumVM, NEW n \in 0 .. LoadCount, At(c, n), BaseInv(c, n), [Next]_vars
  PROVE  StepKinds(c, n)
  <1>0. todo = Todo(c, n) /\ TypeInv /\ TablesInv(c)
    BY DEF BaseInv
  <1>1. CASE guest_rpb_init_pt
    BY <1>0, <1>1, PrepareSteps DEF StepKinds, PrepareKind
  <1>2. CASE guest_rpb_init_mem
    BY <1>0, <1>2, LoadSteps DEF StepKinds, LoadKind
  <1>3. CASE guest_rpb_init_mem_static
    BY <1>0, <1>3, StaticSteps DEF StepKinds, StaticKind
  <1>4. ASSUME NEW v \in VM, NEW p \in Touch, trap_dabort_memory(v, p) PROVE StepKinds(c, n)
    BY <1>0, <1>4, TrapSteps DEF StepKinds, TrapKind
  <1>5. CASE \/ \E v \in VM, p \in Touch : GuestAccess(v, p) \/ trap_dabort_device(v, p)
             \/ Exited \/ UNCHANGED vars
    BY <1>0, <1>5, OtherSteps DEF StepKinds, QuietKind
  <1> QED BY <1>1, <1>2, <1>3, <1>4, <1>5 DEF Next

\* The first part of the invariant is kept by every step.
LEMMA NextBase ==
  ASSUME NEW c \in 0 .. NumVM, NEW n \in 0 .. LoadCount, At(c, n), BaseInv(c, n)
  PROVE  /\ PrepareKind(c, n) => At(c + 1, 0) /\ BaseInv(c + 1, 0)'
         /\ LoadKind(c, n) \/ StaticKind(c, n) => At(c, n + 1) /\ BaseInv(c, n + 1)'
         /\ (\E v \in VM, p \in Touch : TrapKind(c, n, v, p)) \/ QuietKind => BaseInv(c, n)'
  <1>0. /\ todo = Todo(c, n) /\ TypeInv /\ TablesInv(c) /\ CountInv /\ DemandInv(c)
        /\ todo # <<>> => \A v \in VM : redo[v] = None
    BY DEF BaseInv
  <1>00. LoadCount \in Nat /\ NumVM \in Nat /\ 0 \in 0 .. LoadCount
    BY ImageAssumption, LayoutAssumption DEF LoadCount
  <1>1. ASSUME PrepareKind(c, n) PROVE At(c + 1, 0) /\ BaseInv(c + 1, 0)'
    <2>0. n = LoadCount /\ c \in VM /\ todo # <<>> /\ PrepareStep(c)
      BY <1>1 DEF PrepareKind
    <2>1. BaseInv(c + 1, 0)'
      BY <2>0, PrepareBase
    <2>2. At(c + 1, 0)
      BY <2>0, <1>00 DEF At, VM
    <2> QED BY <2>1, <2>2
  <1>2. ASSUME LoadKind(c, n) PROVE At(c, n + 1) /\ BaseInv(c, n + 1)'
    <2>0. /\ n < LoadCount /\ n + 1 \in 1 .. LoadCount /\ c - 1 \in VM /\ c - 1 < c
          /\ image_pages[n + 1].p \in Pages /\ image_pages[n + 1].p + HighBase \in Pages
          /\ halt = "no" /\ todo # <<>> /\ ~static
          /\ LoadEffect(c, n)
      BY <1>2 DEF LoadKind
    <2> DEFINE v == c - 1
               p == image_pages[n + 1].p
    <2>1. /\ todo' = Todo(c, n + 1) /\ static' = static /\ redo' = redo
          /\ \A w \in VM : redo'[w] = None
      BY <1>0, <2>0 DEF LoadEffect
    <2>2. At(c, n + 1) /\ n + 1 \in 0 .. LoadCount
      BY <2>0, <1>00 DEF At, VM
    <2>3. CASE Exhausted /\ image' = image /\ mon' = mon
      <3>1. mon' \in [VM -> Nat] /\ redo' \in [VM -> Pages \cup {None}]
        BY <2>1, <2>3, <1>0 DEF TypeInv
      <3>2. BaseInv(c, n + 1)'
        BY <2>1, <2>2, <2>3, <3>1, ExhaustedBase
      <3> QED BY <3>2, <2>1, <2>2, <2>0
    <2>4. CASE \E s \in Slots : /\ AllocStep(s, v, p, p + HighBase)
                                /\ image' = [image EXCEPT ![s] = Loaded(v, image_pages[n + 1])]
                                /\ mon' = [mon EXCEPT ![v] = @ + 1]
      <3>1. PICK s \in Slots : /\ AllocStep(s, v, p, p + HighBase)
                               /\ image' = [image EXCEPT ![s] = Loaded(v, image_pages[n + 1])]
                               /\ mon' = [mon EXCEPT ![v] = @ + 1]
        BY <2>4
      <3>0. v \in VM /\ v < c /\ p \in Pages /\ p + HighBase \in Pages
        BY <2>0
      <3> HIDE DEF v, p
      <3>2. TablesInv(c)'
        BY <3>0, <3>1, <1>0, AllocTables
      <3>3. CountInv'
        BY <3>0, <3>1, <1>0, AllocCount
      <3>4. DemandInv(c)'
        BY <3>0, <3>1, <2>1, <1>0, <2>0, AllocDemand
      <3>5. image' = [x \in Slots |-> image'[x]] /\ mon' \in [VM -> Nat]
            /\ redo' \in [VM -> Pages \cup {None}]
        <4>1. mon \in [VM -> Nat] /\ image = [x \in Slots |-> image[x]]
              /\ redo \in [VM -> Pages \cup {None}]
          BY <1>0 DEF TypeInv
        <4>2. mon' \in [VM -> Nat]
          BY <3>0, <3>1, <4>1
        <4>3. image' = [x \in Slots |-> image'[x]]
          BY <3>1, <4>1
        <4> QED BY <4>1, <4>2, <4>3, <2>1
      <3>6. TypeInv'
        BY <3>0, <3>1, <3>5, <2>1, <1>0, AllocTypes
      <3>7. BaseInv(c, n + 1)'
        BY <3>2, <3>3, <3>4, <3>6, <2>1 DEF BaseInv
      <3> QED BY <3>7, <2>1, <2>2, <2>0
    <2> QED BY <2>3, <2>4, <2>0 DEF LoadEffect
  <1>3. ASSUME StaticKind(c, n) PROVE At(c, n + 1) /\ BaseInv(c, n + 1)'
    <2>0. /\ n < LoadCount /\ c - 1 \in VM /\ todo # <<>> /\ StaticEffect(c, n)
      BY <1>3 DEF StaticKind
    <2>1. /\ todo' = Todo(c, n + 1) /\ QuietStep
          /\ \E i, x : image' = [image EXCEPT ![i] = x]
      BY <2>0 DEF StaticEffect
    <2>2. At(c, n + 1) /\ n + 1 \in 0 .. LoadCount
      BY <2>0, <1>00 DEF At, VM
    <2>3. image' = [x \in Slots |-> image'[x]]
      <3>1. PICK i, x : image' = [image EXCEPT ![i] = x]
        BY <2>1
      <3>2. image = [y \in Slots |-> image[y]]
        BY <1>0 DEF TypeInv
      <3> QED BY <3>1, <3>2
    <2>4. BaseInv(c, n + 1)'
      BY <2>1, <2>2, <2>3, <2>0, QuietBase
    <2> QED BY <2>1, <2>2, <2>4, <2>0
  <1>4. ASSUME NEW v \in VM, NEW p \in Touch, TrapKind(c, n, v, p) PROVE BaseInv(c, n)'
    <2>1. /\ todo = <<>> /\ v < c /\ p \in Pages /\ halt = "no"
          /\ low_alias(p) \in Pages /\ low_alias(p) + HighBase \in Pages
          /\ p \in {low_alias(p), low_alias(p) + HighBase}
          /\ TrapEffect(v, p)
      BY <1>4 DEF TrapKind
    <2> DEFINE lp == low_alias(p)
    <2>2. /\ todo' = todo /\ static' = static /\ image' = image
          /\ redo' = [redo EXCEPT ![v] = p] /\ mon' = [mon EXCEPT ![v] = @ + 1]
          /\ Exhausted \/ \E s \in Slots : AllocStep(s, v, lp, lp + HighBase)
      BY <2>1 DEF TrapEffect
    <2>3. /\ redo' \in [VM -> Pages \cup {None}] /\ mon' \in [VM -> Nat]
          /\ image' = [x \in Slots |-> image'[x]]
      <3>1. mon \in [VM -> Nat] /\ image = [x \in Slots |-> image[x]]
            /\ redo \in [VM -> Pages \cup {None}]
        BY <1>0 DEF TypeInv
      <3> QED BY <3>1, <2>1, <2>2
    <2>4. todo' = Todo(c, n) /\ todo' = <<>>
      BY <2>1, <2>2, <1>0
    <2>5. CASE Exhausted
      <3>1. BaseInv(c, n)'
        BY <2>2, <2>3, <2>4, <2>5, ExhaustedBase
      <3> QED BY <3>1, <2>2
    <2>6. ASSUME NEW s \in Slots, AllocStep(s, v, lp, lp + HighBase) PROVE BaseInv(c, n)'
      <3>1. lp \in Pages /\ lp + HighBase \in Pages /\ p \in {lp, lp + HighBase}
        BY <2>1
      <3> HIDE DEF lp
      <3>2. TablesInv(c)'
        BY <2>1, <3>1, <2>6, <1>0, AllocTables
      <3>3. CountInv'
        BY <2>2, <3>1, <2>6, <1>0, AllocCount
      <3>4. DemandInv(c)'
        BY <2>1, <2>2, <3>1, <2>6, <1>0, AllocDemand
      <3>5. TypeInv'
        BY <2>2, <2>3, <3>1, <2>6, <1>0, AllocTypes
      <3> QED BY <3>2, <3>3, <3>4, <3>5, <2>4 DEF BaseInv
    <2> QED BY <2>2, <2>5, <2>6
  <1>5. ASSUME QuietKind PROVE BaseInv(c, n)'
    BY <1>0, <1>5, QuietBase DEF TypeInv, QuietKind
  <1> QED BY <1>1, <1>2, <1>3, <1>4, <1>5

\* The first part of the invariant.
LEMMA BaseHolds == Spec => []Inv1
  <1>1. Init => Inv1
    <2>1. Init => At(0, LoadCount) /\ BaseInv(0, LoadCount)
      BY InitBase, TodoInit
    <2>2. 0 \in 0 .. NumVM /\ LoadCount \in 0 .. LoadCount
      BY ImageAssumption, LayoutAssumption DEF LoadCount
    <2> QED BY <2>1, <2>2 DEF Inv1
  <1>2. Inv1 /\ [Next]_vars => Inv1'
    <2> SUFFICES ASSUME Inv1, [Next]_vars PROVE Inv1'
      OBVIOUS
    <2>1. PICK c \in 0 .. NumVM, n \in 0 .. LoadCount : At(c, n) /\ BaseInv(c, n)
      BY DEF Inv1
    <2>2. StepKinds(c, n)
      BY <2>1, NextKinds
    <2>3. \/ At(c + 1, 0) /\ BaseInv(c + 1, 0)'
          \/ At(c, n + 1) /\ BaseInv(c, n + 1)'
          \/ BaseInv(c, n)'
      BY <2>1, <2>2, NextBase DEF StepKinds
    <2>4. ASSUME NEW d, NEW m, At(d, m), BaseInv(d, m)' PROVE Inv1'
      <3>1. d \in 0 .. NumVM /\ m \in 0 .. LoadCount
        BY <2>4 DEF At
      <3> QED BY <3>1, <2>4 DEF Inv1
    <2> QED BY <2>1, <2>3, <2>4
  <1> QED BY <1>1, <1>2, PTL DEF Spec

(***************************************************************************)
(* The second part: guests that stay within their RAM.                      *)
(***************************************************************************)
\* At the start.
LEMMA InitRam == Init => RamInv(0, LoadCount)
  <1> HAVE Init
  <1>1. \A s \in Slots : target_vm[s] = -1
    BY DEF Init
  <1>2. \A v \in VM : ~(v < 0) /\ redo[v] = None
    BY DEF Init, VM
  <1> QED BY <1>1, <1>2 DEF RamInv, StaticInv, SlotInv, AliasInv, LoadInv, DevInv

\* Where RAM and devices are.
LEMMA RamAddrs ==
  /\ \A p \in Ram : p \in Pages /\ p + HighBase \in Pages /\ p + HighBase \notin Ram
  /\ \A p, q \in Ram : p + HighBase # q /\ (p + HighBase = q + HighBase => p = q)
  /\ \A d \in Devs, p \in Ram : DevIpa[d] # p /\ DevIpa[d] # p + HighBase
  <1>1. /\ RamPages \in Nat /\ HighBase \in Nat /\ AddrPages \in Nat
        /\ RamPages < HighBase /\ HighBase + RamPages < AddrPages
    BY LayoutAssumption
  <1>2. \A d \in Devs : DevIpa[d] \in RamPages .. HighBase - 1
    BY DeviceAssumption
  <1> QED BY <1>1, <1>2 DEF Ram, Pages

\* The tables of one more VM.
LEMMA PrepareRam ==
  ASSUME NEW c \in VM, BaseInv(c, LoadCount), RamInv(c, LoadCount), todo # <<>>, PrepareStep(c)
  PROVE  RamInv(c + 1, 0)'
  <1>0. c \in Nat /\ \A v \in VM : v \in Nat /\ (v < c + 1 => v = c \/ (v # c /\ v < c))
    BY DEF VM
  <1>1. /\ TypeInv /\ \A v \in VM : redo[v] = None
        /\ \A s \in Slots : target_vm[s] < c
    BY DEF BaseInv, TablesInv
  <1>2. Prepared(pt'[c], c) /\ (\A v \in VM : v # c => pt'[v] = pt[v]) /\ static' = static
        /\ target_vm' = target_vm /\ ipa' = ipa /\ high_ipa' = high_ipa /\ redo' = redo
    BY DEF PrepareStep
  <1>3. \A s \in Slots : target_vm[s] # -1 => target_vm[s] \in VM /\ target_vm[s] # c
    <2> TAKE s \in Slots
    <2>1. target_vm[s] \in VM \cup {-1} /\ target_vm[s] < c
      BY <1>1 DEF TypeInv
    <2> QED BY <2>1, <1>0
  <1>4. StaticInv(c + 1)'
    <2> SUFFICES ASSUME static
                 PROVE  /\ \A s \in Slots : target_vm[s] = -1
                        /\ \A v \in VM, p \in Ram : v < c + 1 =>
                             /\ Translate(pt'[v], p) = RamPa(mem_base_pa(v) + p)
                             /\ Translate(pt'[v], p + HighBase) = RamPa(mem_base_pa(v) + p)
                        /\ \A v \in VM, p \in Pages : v < c + 1 /\ p \notin Ram /\ p - HighBase \notin Ram =>
                             Translate(pt'[v], p) \in {DevPa(d, v) : d \in Devs} \cup {Fault, Unknown}
      BY <1>1, <1>2 DEF StaticInv
    <2>1. StaticInv(c) /\ Prepared(pt'[c], c)
      BY <1>2 DEF RamInv
    <2>2. \A s \in Slots : target_vm[s] = -1
      BY <2>1 DEF StaticInv
    <2>3. ASSUME NEW v \in VM, NEW p \in Ram, v < c + 1
          PROVE  /\ Translate(pt'[v], p) = RamPa(mem_base_pa(v) + p)
                 /\ Translate(pt'[v], p + HighBase) = RamPa(mem_base_pa(v) + p)
      <3>1. CASE v = c
        BY <3>1, <2>1 DEF Prepared
      <3>2. CASE v # c /\ v < c
        BY <3>2, <2>1, <1>2 DEF StaticInv
      <3> QED BY <3>1, <3>2, <2>3, <1>0
    <2>4. ASSUME NEW v \in VM, NEW p \in Pages, v < c + 1, p \notin Ram, p - HighBase \notin Ram
          PROVE  Translate(pt'[v], p) \in {DevPa(d, v) : d \in Devs} \cup {Fault, Unknown}
      <3>1. CASE v = c
        BY <3>1, <2>1, <2>4 DEF Prepared, InRam, DevPages
      <3>2. CASE v # c /\ v < c
        BY <3>2, <2>1, <2>4, <1>2 DEF StaticInv
      <3> QED BY <3>1, <3>2, <2>4, <1>0
    <2> QED BY <2>2, <2>3, <2>4
  <1>5. SlotInv'
    BY <1>2, <1>3 DEF RamInv, SlotInv
  <1>6. AliasInv(c + 1)'
    <2> SUFFICES ASSUME ~static, NEW v \in VM, NEW p \in Ram, v < c + 1
                 PROVE  /\ Translate(pt'[v], p).kind \notin {"fault", "unknown"} =>
                             \E s \in Slots : target_vm[s] = v /\ ipa[s] = p
                        /\ \/ Translate(pt'[v], p) = Translate(pt'[v], p + HighBase)
                           \/ L3Tables < pt'[v].page_count
      BY <1>2 DEF AliasInv, Mapped
    <2>1. CASE v # c /\ v < c
      BY <2>1, <1>2 DEF RamInv, AliasInv, Mapped
    <2>2. CASE v = c
      <3>1. p \in Pages /\ p + HighBase \in Pages
            /\ \A d \in Devs : p # DevIpa[d] /\ p + HighBase # DevIpa[d]
        BY RamAddrs
      <3>2. \A q \in {p, p + HighBase} :
              Translate(pt'[c], q) = Fault \/ (Translate(pt'[c], q) = Unknown /\ L3Tables < pt'[c].page_count)
        BY <3>1, <1>2 DEF Prepared
      <3>3. Fault.kind = "fault" /\ Unknown.kind = "unknown"
        BY DEF Fault, Unknown, Pa
      <3> QED BY <3>2, <3>3, <2>2
    <2> QED BY <1>0, <2>1, <2>2
  <1>7. LoadInv(c + 1, 0)'
    <2>1. \A s \in Slots : target_vm[s] # (c + 1) - 1
      BY <1>0, <1>1
    <2> QED BY <2>1, <1>2 DEF LoadInv
  <1>8. DevInv(c + 1)'
    BY <1>0, <1>2 DEF RamInv, DevInv, Prepared
  <1> QED BY <1>4, <1>5, <1>6, <1>7, <1>8 DEF RamInv

\* No slot of VM v has this address.
Fresh(v, p) == \A s \in Slots : target_vm[s] = v => ipa[s] # p

\* An allocation of a page of RAM that VM v did not have.
LEMMA AllocRam ==
  ASSUME NEW c \in 0 .. NumVM, NEW v \in VM, v < c, NEW p \in Ram, NEW s \in Slots, ~static, static' = static,
         TypeInv, TablesInv(c), DemandInv(c), SlotInv, AliasInv(c), DevInv(c), Fresh(v, p),
         AllocStep(s, v, p, p + HighBase)
  PROVE  SlotInv' /\ AliasInv(c)' /\ DevInv(c)'
  <1> DEFINE hp == p + HighBase
  <1>1. TwoSet(pt[v], pt'[v], p, hp, RamPa(s)) /\ \A w \in VM : w # v => pt'[w] = pt[w]
    BY DEF AllocStep, DemandInv
  <1>2. \A q \in Pages : q # p /\ q # hp => Kept(pt[v], pt'[v], q)
    BY <1>1 DEF TwoSet
  <1>3. Translate(pt'[v], p) = RamPa(s) /\ Translate(pt'[v], hp) = RamPa(s)
    BY <1>1 DEF TwoSet
  <1>4. \A q \in Pages, pa \in Phys : q # p /\ q # hp /\ Translate(pt[v], q) = pa => Translate(pt'[v], q) = pa
    BY <1>2, PhysMapped DEF Kept
  <1>5. /\ target_vm[s] = -1
        /\ \A x \in Slots : /\ target_vm'[x] = IF x = s THEN v ELSE target_vm[x]
                            /\ ipa'[x] = IF x = s THEN p ELSE ipa[x]
                            /\ high_ipa'[x] = IF x = s THEN hp ELSE high_ipa[x]
    BY DEF AllocStep
  <1>6. \A w \in VM : w # -1
    BY DEF VM
  <1>7. SlotInv'
    <2> SUFFICES ASSUME NEW x \in Slots, target_vm'[x] # -1
                 PROVE  /\ ipa'[x] \in Ram /\ high_ipa'[x] = ipa'[x] + HighBase
                        /\ Translate(pt'[target_vm'[x]], ipa'[x]) = RamPa(x)
                        /\ Translate(pt'[target_vm'[x]], high_ipa'[x]) = RamPa(x)
      BY DEF SlotInv
    <2>1. CASE x = s
      BY <2>1, <1>3, <1>5
    <2>2. CASE x # s
      <3>1. target_vm'[x] = target_vm[x] /\ ipa'[x] = ipa[x] /\ high_ipa'[x] = high_ipa[x]
        BY <2>2, <1>5
      <3>2. /\ ipa[x] \in Ram /\ high_ipa[x] = ipa[x] + HighBase
            /\ Translate(pt[target_vm[x]], ipa[x]) = RamPa(x)
            /\ Translate(pt[target_vm[x]], high_ipa[x]) = RamPa(x)
            /\ target_vm[x] \in VM
        BY <3>1 DEF SlotInv, TypeInv
      <3>3. CASE target_vm[x] # v
        BY <3>1, <3>2, <3>3, <1>1
      <3>4. CASE target_vm[x] = v
        <4>1. ipa[x] # p
          BY <3>4 DEF Fresh
        <4>2. /\ ipa[x] \in Pages /\ high_ipa[x] \in Pages
              /\ ipa[x] # hp /\ high_ipa[x] # p /\ high_ipa[x] # hp
          BY <4>1, <3>2, RamAddrs
        <4>3. RamPa(x) \in Phys
          BY PhysPages
        <4> QED BY <4>1, <4>2, <4>3, <3>1, <3>2, <3>4, <1>4
      <3> QED BY <3>3, <3>4
    <2> QED BY <2>1, <2>2
  <1>8. AliasInv(c)'
    <2> SUFFICES ASSUME NEW w \in VM, NEW q \in Ram, w < c
                 PROVE  /\ Translate(pt'[w], q).kind \notin {"fault", "unknown"} =>
                             \E x \in Slots : target_vm'[x] = w /\ ipa'[x] = q
                        /\ \/ Translate(pt'[w], q) = Translate(pt'[w], q + HighBase)
                           \/ L3Tables < pt'[w].page_count
      BY DEF AliasInv, Mapped
    <2>1. /\ Translate(pt[w], q).kind \notin {"fault", "unknown"} =>
               \E x \in Slots : target_vm[x] = w /\ ipa[x] = q
          /\ Translate(pt[w], q) = Translate(pt[w], q + HighBase) \/ L3Tables < pt[w].page_count
      BY DEF AliasInv, Mapped
    <2>2. (\E x \in Slots : target_vm[x] = w /\ ipa[x] = q) =>
             \E x \in Slots : target_vm'[x] = w /\ ipa'[x] = q
      BY <1>5, <1>6
    <2>3. CASE w # v
      BY <2>1, <2>2, <2>3, <1>1
    <2>4. CASE w = v /\ q = p
      BY <2>4, <1>3, <1>5
    <2>5. CASE w = v /\ q # p
      <3>1. q \in Pages /\ q + HighBase \in Pages /\ q # hp /\ q + HighBase # p /\ q + HighBase # hp
        BY <2>5, RamAddrs
      <3>2. Kept(pt[v], pt'[v], q) /\ Kept(pt[v], pt'[v], q + HighBase)
        BY <3>1, <2>5, <1>2
      <3>3. Unknown.kind = "unknown"
        BY DEF Unknown, Pa
      <3>4. Translate(pt'[v], q).kind \notin {"fault", "unknown"} => Translate(pt'[v], q) = Translate(pt[v], q)
        BY <3>2, <3>3 DEF Kept
      <3>5. pt[v].page_count \in Nat /\ pt'[v].page_count \in Nat /\ pt[v].page_count <= pt'[v].page_count
        BY <1>1 DEF TwoSet, TablesInv, WellFormed, Tables
      <3>6. L3Tables < pt[v].page_count => L3Tables < pt'[v].page_count
        BY <3>5, TablesAssumption
      <3>7. \/ Translate(pt'[v], q) = Translate(pt'[v], q + HighBase)
            \/ L3Tables < pt'[v].page_count
        BY <2>1, <2>5, <3>2, <3>6 DEF Kept
      <3> QED BY <3>4, <3>7, <2>1, <2>2, <2>5
    <2> QED BY <2>3, <2>4, <2>5
  <1>9. DevInv(c)'
    <2> SUFFICES ASSUME NEW w \in VM, NEW d \in Devs, w < c
                 PROVE  Translate(pt'[w], DevIpa[d]) = DevPa(d, w)
      BY DEF DevInv
    <2>1. Translate(pt[w], DevIpa[d]) = DevPa(d, w)
      BY DEF DevInv
    <2>2. DevIpa[d] # p /\ DevIpa[d] # hp /\ DevIpa[d] \in Pages /\ DevPa(d, w) \in Phys
      BY RamAddrs, DeviceNotRam, PhysPages
    <2> QED BY <2>1, <2>2, <1>1, <1>4
  <1> QED BY <1>7, <1>8, <1>9

\* A statically prepared VM does not fault in its RAM.
LEMMA StaticNoTrap ==
  ASSUME NEW c \in 0 .. NumVM, NEW n \in 0 .. LoadCount, NEW v \in VM, NEW p \in Touch,
         StaysInRam, StaticInv(c), TypeInv, TrapKind(c, n, v, p)
  PROVE  ~static
  <1>1. /\ v < c /\ low_alias(p) \in Ram /\ p \in {low_alias(p), low_alias(p) + HighBase}
        /\ Translate(pt[v], p).kind \in {"fault", "unknown"}
    BY DEF TrapKind, TrapEffect, Mapped
  <1>2. RamPa(mem_base_pa(v) + low_alias(p)).kind = "ram"
    BY DEF RamPa, Pa
  <1>3. static => Translate(pt[v], p) = RamPa(mem_base_pa(v) + low_alias(p))
    BY <1>1 DEF StaticInv
  <1> QED BY <1>1, <1>2, <1>3 DEF TypeInv

\* The page of a fault is one that its VM does not own yet.
LEMMA TrapFresh ==
  ASSUME NEW c \in 0 .. NumVM, NEW n \in 0 .. LoadCount, NEW v \in VM, NEW p \in Touch,
         ~static, SlotInv, TrapKind(c, n, v, p)
  PROVE  Fresh(v, low_alias(p))
  <1>1. /\ p \in {low_alias(p), low_alias(p) + HighBase}
        /\ Translate(pt[v], p).kind \in {"fault", "unknown"}
    BY DEF TrapKind, TrapEffect, Mapped
  <1>2. ASSUME NEW s \in Slots, target_vm[s] = v, ipa[s] = low_alias(p) PROVE FALSE
    <2>1. target_vm[s] # -1
      BY <1>2 DEF VM
    <2>2. /\ high_ipa[s] = ipa[s] + HighBase
          /\ Translate(pt[v], ipa[s]) = RamPa(s) /\ Translate(pt[v], high_ipa[s]) = RamPa(s)
      BY <2>1, <1>2 DEF SlotInv
    <2>3. Translate(pt[v], p) = RamPa(s)
      BY <2>2, <1>1, <1>2
    <2> QED BY <2>3, <1>1 DEF RamPa, Pa
  <1> QED BY <1>2 DEF Fresh

\* So is a page of the image that is loaded.
LEMMA LoadFresh ==
  ASSUME NEW c \in 0 .. NumVM, NEW n \in 0 .. LoadCount, LoadInv(c, n), LoadKind(c, n)
  PROVE  Fresh(c - 1, image_pages[n + 1].p)
  <1>0. LoadCount \in Nat
    BY ImageAssumption DEF LoadCount
  <1>1. ~static /\ todo # <<>> /\ 0 < c /\ n + 1 \in 1 .. LoadCount
    BY DEF LoadKind, VM
  <1>2. ASSUME NEW s \in Slots, target_vm[s] = c - 1 PROVE ipa[s] # image_pages[n + 1].p
    <2>1. PICK j \in 1 .. n : ipa[s] = image_pages[j].p
      BY <1>1, <1>2 DEF LoadInv
    <2>2. j \in 1 .. LoadCount /\ j # n + 1
      BY <1>0
    <2> QED BY <2>1, <2>2, <1>1, ImagePages
  <1> QED BY <1>2 DEF Fresh

\* When no slot is free nothing is changed.
LEMMA ExhaustedRam ==
  ASSUME NEW c \in 0 .. NumVM, NEW n \in 0 .. LoadCount, RamInv(c, n), Exhausted, ~static, static' = static,
         NEW m \in 0 .. LoadCount, n <= m, todo' # <<>> => todo # <<>>
  PROVE  RamInv(c, m)'
  <1>0. LoadCount \in Nat
    BY ImageAssumption DEF LoadCount
  <1>e. pt' = pt /\ target_vm' = target_vm /\ ipa' = ipa /\ high_ipa' = high_ipa
    BY DEF Exhausted
  <1>r. SlotInv /\ AliasInv(c) /\ DevInv(c)
    BY DEF RamInv
  <1>s. StaticInv(c)'
    BY DEF StaticInv
  <1>t. SlotInv'
    BY <1>e, <1>r DEF SlotInv
  <1>a. AliasInv(c)'
    BY <1>e, <1>r DEF AliasInv, Mapped
  <1>d. DevInv(c)'
    BY <1>e, <1>r DEF DevInv
  <1>1. StaticInv(c)' /\ SlotInv' /\ AliasInv(c)' /\ DevInv(c)'
    BY <1>s, <1>t, <1>a, <1>d
  <1>2. LoadInv(c, m)'
    <2>1. \A j \in 1 .. n : j \in 1 .. m
      BY <1>0
    <2> QED BY <2>1 DEF RamInv, LoadInv, Exhausted
  <1> QED BY <1>1, <1>2 DEF RamInv

\* The second part of the invariant is kept by every step.
LEMMA NextRam ==
  ASSUME NEW c \in 0 .. NumVM, NEW n \in 0 .. LoadCount, At(c, n), BaseInv(c, n), RamInv(c, n), StaysInRam
  PROVE  /\ PrepareKind(c, n) => RamInv(c + 1, 0)'
         /\ LoadKind(c, n) \/ StaticKind(c, n) => RamInv(c, n + 1)'
         /\ (\E v \in VM, p \in Touch : TrapKind(c, n, v, p)) \/ QuietKind => RamInv(c, n)'
  <1>0. /\ TypeInv /\ TablesInv(c) /\ DemandInv(c)
        /\ StaticInv(c) /\ SlotInv /\ AliasInv(c) /\ LoadInv(c, n) /\ DevInv(c)
    BY DEF BaseInv, RamInv
  <1>00. LoadCount \in Nat /\ c \in Int
    BY ImageAssumption DEF LoadCount
  <1>1. ASSUME PrepareKind(c, n) PROVE RamInv(c + 1, 0)'
    BY <1>1, PrepareRam DEF PrepareKind
  <1>2. ASSUME LoadKind(c, n) PROVE RamInv(c, n + 1)'
    <2> DEFINE v == c - 1
               p == image_pages[n + 1].p
    <2>0. /\ n < LoadCount /\ n + 1 \in 0 .. LoadCount /\ n <= n + 1 /\ v \in VM /\ v < c /\ p \in Ram
          /\ ~static /\ todo # <<>> /\ static' = static
      BY <1>2, <1>00 DEF LoadKind, LoadEffect
    <2>1. CASE Exhausted
      BY <2>0, <2>1, ExhaustedRam
    <2>2. ASSUME NEW s \in Slots, AllocStep(s, v, p, p + HighBase) PROVE RamInv(c, n + 1)'
      <3>1. Fresh(v, p)
        BY <1>0, <1>2, LoadFresh
      <3> HIDE DEF v, p
      <3>2. SlotInv' /\ AliasInv(c)' /\ DevInv(c)'
        BY <2>0, <2>2, <3>1, <1>0, AllocRam
      <3>3. StaticInv(c)'
        BY <2>0 DEF StaticInv
      <3>4. LoadInv(c, n + 1)'
        <4> SUFFICES ASSUME 0 < c, NEW x \in Slots, target_vm'[x] = c - 1
                     PROVE  \E j \in 1 .. n + 1 : ipa'[x] = image_pages[j].p
          BY DEF LoadInv
        <4>1. CASE x = s
          <5>1. ipa'[x] = image_pages[n + 1].p
            BY <4>1, <2>2 DEF AllocStep, p
          <5>2. n + 1 \in 1 .. n + 1
            BY <1>00
          <5> QED BY <5>1, <5>2
        <4>2. CASE x # s
          <5>1. target_vm[x] = c - 1 /\ ipa'[x] = ipa[x]
            BY <4>2, <2>2 DEF AllocStep
          <5>2. PICK j \in 1 .. n : ipa[x] = image_pages[j].p
            BY <5>1, <2>0, <1>0 DEF LoadInv
          <5>3. j \in 1 .. n + 1
            BY <1>00
          <5> QED BY <5>1, <5>2, <5>3
        <4> QED BY <4>1, <4>2
      <3> QED BY <3>2, <3>3, <3>4 DEF RamInv
    <2>3. Exhausted \/ \E s \in Slots : AllocStep(s, v, p, p + HighBase)
      BY <1>2 DEF LoadKind, LoadEffect
    <2> QED BY <2>1, <2>2, <2>3
  <1>3. ASSUME QuietStep, NEW m \in 0 .. LoadCount, m = n \/ static, todo' # <<>> => todo # <<>>
        PROVE  RamInv(c, m)'
    <2>1. StaticInv(c)' /\ SlotInv' /\ AliasInv(c)' /\ DevInv(c)'
      BY <1>0, <1>3 DEF StaticInv, SlotInv, AliasInv, DevInv, QuietStep, Mapped
    <2>2. LoadInv(c, m)'
      BY <1>0, <1>3 DEF LoadInv, QuietStep
    <2> QED BY <2>1, <2>2 DEF RamInv
  <1>4. ASSUME StaticKind(c, n) PROVE RamInv(c, n + 1)'
    <2>1. QuietStep /\ static /\ todo # <<>> /\ n + 1 \in 0 .. LoadCount
      BY <1>4, <1>00 DEF StaticKind, StaticEffect
    <2> QED BY <2>1, <1>3
  <1>5. ASSUME NEW v \in VM, NEW p \in Touch, TrapKind(c, n, v, p) PROVE RamInv(c, n)'
    <2> DEFINE lp == low_alias(p)
    <2>1. ~static
      BY <1>0, <1>5, StaticNoTrap
    <2>2. Fresh(v, lp)
      BY <1>0, <1>5, <2>1, TrapFresh
    <2>3. /\ lp \in Ram /\ v < c /\ static' = static /\ todo' = todo /\ todo = <<>>
          /\ Exhausted \/ \E s \in Slots : AllocStep(s, v, lp, lp + HighBase)
      BY <1>5 DEF TrapKind, TrapEffect
    <2> HIDE DEF lp
    <2>4. CASE Exhausted
      BY <2>1, <2>3, <2>4, <1>00, ExhaustedRam
    <2>5. ASSUME NEW s \in Slots, AllocStep(s, v, lp, lp + HighBase) PROVE RamInv(c, n)'
      <3>1. SlotInv' /\ AliasInv(c)' /\ DevInv(c)'
        BY <2>1, <2>2, <2>3, <2>5, <1>0, AllocRam
      <3>2. StaticInv(c)' /\ LoadInv(c, n)'
        BY <2>1, <2>3 DEF StaticInv, LoadInv
      <3> QED BY <3>1, <3>2 DEF RamInv
    <2> QED BY <2>3, <2>4, <2>5
  <1>6. ASSUME QuietKind PROVE RamInv(c, n)'
    BY <1>3, <1>6 DEF QuietKind
  <1> QED BY <1>1, <1>2, <1>4, <1>5, <1>6

(***************************************************************************)
(* The third part: where the images are, and that there is always a page.   *)
(***************************************************************************)
\* The RAM that main() gives to the VMs statically does not overlap.
LEMMA RamBases ==
  /\ \A v, w \in VM, p, q \in Ram : mem_base_pa(v) + p = mem_base_pa(w) + q => v = w /\ p = q
  /\ RamFits => \A v \in VM, p \in Ram : mem_base_pa(v) + p \in Slots
  <1>1. RamPages \in Nat /\ PageCount \in Nat /\ NumVM \in 1 .. 4
    BY LayoutAssumption
  <1>2. mem_base_pa(0) = 0 /\ mem_base_pa(1) = RamPages /\ mem_base_pa(2) = RamPages + RamPages
        /\ mem_base_pa(3) = RamPages + RamPages + RamPages
    BY <1>1 DEF mem_base_pa
  <1>3. \A v \in VM : v \in {0, 1, 2, 3} /\ v < NumVM
    BY <1>1 DEF VM
  <1>4. \A v, w \in {0, 1, 2, 3}, p, q \in 0 .. RamPages - 1 :
          mem_base_pa(v) + p = mem_base_pa(w) + q => v = w /\ p = q
    BY <1>1, <1>2
  <1>5. ASSUME RamFits, NEW v \in VM, NEW p \in Ram PROVE mem_base_pa(v) + p \in Slots
    <2>1. /\ NumVM = 1 => RamPages <= PageCount
          /\ NumVM = 2 => RamPages + RamPages <= PageCount
          /\ NumVM = 3 => RamPages + RamPages + RamPages <= PageCount
          /\ NumVM = 4 => RamPages + RamPages + RamPages + RamPages <= PageCount
      BY <1>1, <1>5 DEF RamFits
    <2>2. v \in {0, 1, 2, 3} /\ v < NumVM /\ p \in 0 .. RamPages - 1
      BY <1>3 DEF Ram
    <2> QED BY <1>1, <1>2, <2>1, <2>2 DEF Slots
  <1> QED BY <1>3, <1>4, <1>5 DEF Ram

\* There is a free slot as long as some VM lacks a page of its RAM.
LEMMA NotExhausted ==
  ASSUME NEW v \in VM, NEW p \in Ram, Fresh(v, p), SlotInv, TypeInv, ~static, RamFits
  PROVE  ~Exhausted
  <1> SUFFICES ASSUME Exhausted PROVE FALSE
    OBVIOUS
  <1> DEFINE f == [s \in Slots |-> <<target_vm[s], ipa[s]>>]
             T == VM \X Ram
             U == T \ {<<v, p>>}
  <1>1. NumVM \in Nat /\ RamPages \in Nat /\ PageCount \in Nat /\ 0 < NumVM /\ 0 < RamPages
    BY LayoutAssumption
  <1>2. IsFiniteSet(VM) /\ Cardinality(VM) = NumVM
    BY <1>1, FS_Interval DEF VM
  <1>3. IsFiniteSet(Ram) /\ Cardinality(Ram) = RamPages
    BY <1>1, FS_Interval DEF Ram
  <1>4. IsFiniteSet(T) /\ Cardinality(T) = NumVM * RamPages
    BY <1>2, <1>3, FS_Product
  <1>5. IsFiniteSet(U) /\ Cardinality(U) = NumVM * RamPages - 1
    <2>1. <<v, p>> \in T
      OBVIOUS
    <2> HIDE DEF T
    <2> QED BY <1>4, <2>1, FS_RemoveElement
  <1>6. Cardinality(U) < Cardinality(Slots)
    <2>1. NumVM * RamPages \in Nat /\ NumVM * RamPages <= PageCount
      BY <1>1 DEF RamFits
    <2> QED BY <1>1, <1>5, <2>1, SlotsFinite
  <1>7. \A s \in Slots : target_vm[s] \in VM /\ ipa[s] \in Ram
                         /\ Translate(pt[target_vm[s]], ipa[s]) = RamPa(s)
    BY DEF Exhausted, SlotInv, TypeInv
  <1>8. f \in [Slots -> U]
    BY <1>7 DEF Fresh
  <1>9. \E s, x \in Slots : s # x /\ f[s] = f[x]
    <2> HIDE DEF U, f
    <2>1. IsFiniteSet(Slots)
      BY SlotsFinite
    <2> QED BY <1>5, <1>6, <1>8, <2>1, FS_PigeonHole
  <1>10. PICK s \in Slots, x \in Slots : s # x /\ target_vm[s] = target_vm[x] /\ ipa[s] = ipa[x]
    BY <1>9
  <1>11. RamPa(s) = RamPa(x)
    BY <1>7, <1>10
  <1> QED BY <1>10, <1>11 DEF RamPa, Pa

\* The slots that have an owner keep their address and their content.
LEMMA AllocImage ==
  ASSUME NEW c, NEW n, ImageInv(c, n), ~static, static' = static, NEW v \in VM, NEW p, NEW hp,
         NEW s \in Slots, AllocStep(s, v, p, hp), \A x \in Slots : x # s => image'[x] = image[x]
  PROVE  ImageInv(c, n)'
  <1> SUFFICES ASSUME NEW w \in VM, NEW i \in 1 .. LoadCount, w < c, w = c - 1 => i <= n
               PROVE  \E x \in Slots : /\ target_vm'[x] = w /\ ipa'[x] = image_pages[i].p
                                       /\ image'[x] = Loaded(w, image_pages[i])
    BY DEF ImageInv
  <1>1. PICK x \in Slots : /\ target_vm[x] = w /\ ipa[x] = image_pages[i].p
                           /\ image[x] = Loaded(w, image_pages[i])
    BY DEF ImageInv
  <1>2. w # -1
    BY DEF VM
  <1>3. x # s
    BY <1>1, <1>2 DEF AllocStep
  <1> QED BY <1>1, <1>3 DEF AllocStep

\* One more page of the image of VM c - 1.
LEMMA OneMore ==
  ASSUME NEW c \in 0 .. NumVM, NEW n \in 0 .. LoadCount, n + 1 \in 1 .. LoadCount, ImageInv(c, n)',
         c - 1 \in VM,
         LET g == image_pages[n + 1]
         IN  IF static' THEN image'[mem_base_pa(c - 1) + g.p] = Loaded(c - 1, g)
             ELSE \E s \in Slots : target_vm'[s] = c - 1 /\ ipa'[s] = g.p /\ image'[s] = Loaded(c - 1, g)
  PROVE  ImageInv(c, n + 1)'
  <1> SUFFICES ASSUME NEW w \in VM, NEW i \in 1 .. LoadCount, w < c, w = c - 1 => i <= n + 1
               PROVE  LET g == image_pages[i]
                      IN  IF static' THEN image'[mem_base_pa(w) + g.p] = Loaded(w, g)
                          ELSE \E s \in Slots : target_vm'[s] = w /\ ipa'[s] = g.p /\ image'[s] = Loaded(w, g)
    BY DEF ImageInv
  <1>1. CASE w = c - 1 => i <= n
    BY <1>1 DEF ImageInv
  <1>2. CASE w = c - 1 /\ i = n + 1
    BY <1>2
  <1>3. (w = c - 1 => i <= n) \/ (w = c - 1 /\ i = n + 1)
    <2>1. LoadCount \in Nat
      BY ImageAssumption DEF LoadCount
    <2> QED BY <2>1
  <1> QED BY <1>1, <1>2, <1>3


\* No step runs out of memory, and every step keeps the images in place.
LEMMA NextImage ==
  ASSUME NEW c \in 0 .. NumVM, NEW n \in 0 .. LoadCount, At(c, n), BaseInv(c, n), RamInv(c, n),
         ImageInv(c, n), StaysInRam, RamFits, NeverExhausted
  PROVE  /\ PrepareKind(c, n) => ImageInv(c + 1, 0)' /\ NeverExhausted'
         /\ LoadKind(c, n) \/ StaticKind(c, n) => ImageInv(c, n + 1)' /\ NeverExhausted'
         /\ (\E v \in VM, p \in Touch : TrapKind(c, n, v, p)) \/ QuietKind =>
              ImageInv(c, n)' /\ NeverExhausted'
  <1>0. /\ TypeInv /\ StaticInv(c) /\ SlotInv /\ LoadInv(c, n)
        /\ image = [s \in Slots |-> image[s]]
    BY DEF BaseInv, RamInv, TypeInv
  <1>00. LoadCount \in Nat /\ c \in Int
    <2>1. LoadCount \in Nat
      BY ImageAssumption DEF LoadCount
    <2>2. c \in Int
      OBVIOUS
    <2> QED BY <2>1, <2>2
  <1>1. ASSUME PrepareKind(c, n) PROVE ImageInv(c + 1, 0)' /\ NeverExhausted'
    <2>1. /\ n = LoadCount /\ static' = static /\ target_vm' = target_vm /\ ipa' = ipa
          /\ image' = image /\ halt' = halt
      BY <1>1 DEF PrepareKind, PrepareStep
    <2>2. ImageInv(c + 1, 0)'
      <3>1. ASSUME NEW w \in VM, NEW i \in 1 .. LoadCount, w < c + 1, w = (c + 1) - 1 => i <= 0
            PROVE  w < c /\ i <= n
        <4>1. n = LoadCount /\ w \in Int
          BY <2>1 DEF VM
        <4>2. w # c
          BY <3>1, <1>00
        <4> QED BY <4>1, <4>2, <3>1, <1>00
      <3>2. ASSUME NEW w \in VM, NEW i \in 1 .. LoadCount, w < c + 1, w = (c + 1) - 1 => i <= 0
            PROVE  IF static' THEN image'[mem_base_pa(w) + image_pages[i].p] = Loaded(w, image_pages[i])
                   ELSE \E s \in Slots : /\ target_vm'[s] = w /\ ipa'[s] = image_pages[i].p
                                         /\ image'[s] = Loaded(w, image_pages[i])
        BY <2>1, <3>1, <3>2 DEF ImageInv
      <3> QED BY <3>2 DEF ImageInv
    <2> QED BY <2>1, <2>2 DEF NeverExhausted
  <1>2. ASSUME LoadKind(c, n) PROVE ImageInv(c, n + 1)' /\ NeverExhausted'
    <2> DEFINE v == c - 1
               g == image_pages[n + 1]
               p == g.p
    <2>1. v \in VM /\ p \in Ram /\ ~static /\ static' = static /\ n + 1 \in 1 .. LoadCount
      BY <1>2 DEF LoadKind, LoadEffect
    <2>2. Fresh(v, p)
      BY <1>0, <1>2, LoadFresh
    <2>3. Exhausted \/ \E s \in Slots : /\ AllocStep(s, v, p, p + HighBase)
                                        /\ image' = [image EXCEPT ![s] = Loaded(v, g)]
      BY <1>2 DEF LoadKind, LoadEffect
    <2> HIDE DEF v, p, g
    <2>4. ~Exhausted
      BY <2>1, <2>2, <1>0, NotExhausted
    <2>5. PICK s \in Slots : /\ AllocStep(s, v, p, p + HighBase)
                             /\ image' = [image EXCEPT ![s] = Loaded(v, g)]
      BY <2>3, <2>4
    <2>6. image'[s] = Loaded(v, g) /\ \A x \in Slots : x # s => image'[x] = image[x]
      BY <1>0, <2>5
    <2>7. ImageInv(c, n)'
      BY <2>1, <2>5, <2>6, AllocImage
    <2>8. target_vm'[s] = v /\ ipa'[s] = p /\ halt' = halt
      BY <2>5 DEF AllocStep
    <2>9. ImageInv(c, n + 1)'
      BY <2>1, <2>6, <2>7, <2>8, OneMore DEF v, g, p
    <2> QED BY <2>8, <2>9 DEF NeverExhausted
  <1>3. ASSUME StaticKind(c, n) PROVE ImageInv(c, n + 1)' /\ NeverExhausted'
    <2> DEFINE v == c - 1
               g == image_pages[n + 1]
               a == mem_base_pa(v) + g.p
    <2>1. /\ v \in VM /\ g.p \in Ram /\ static /\ static' = static /\ n + 1 \in 1 .. LoadCount
          /\ image' = [image EXCEPT ![a] = Loaded(v, g)] /\ halt' = halt
      BY <1>3 DEF StaticKind, StaticEffect, QuietStep
    <2>2. a \in Slots
      BY <2>1, RamBases
    <2>3. image'[a] = Loaded(v, g) /\ \A x \in Slots : x # a => image'[x] = image[x]
      <3> HIDE DEF a, v, g
      <3>1. image'[a] = Loaded(v, g)
        BY <2>1, <2>2, <1>0
      <3>2. \A x \in Slots : x # a => image'[x] = image[x]
        BY <2>1, <2>2, <1>0
      <3> QED BY <3>1, <3>2
    <2>4. ImageInv(c, n)'
      <3> SUFFICES ASSUME NEW w \in VM, NEW i \in 1 .. LoadCount, w < c, w = c - 1 => i <= n
                   PROVE  image'[mem_base_pa(w) + image_pages[i].p] = Loaded(w, image_pages[i])
        BY <2>1 DEF ImageInv
      <3>1. image[mem_base_pa(w) + image_pages[i].p] = Loaded(w, image_pages[i])
        BY <2>1 DEF ImageInv
      <3>2. image_pages[i].p \in Ram
        BY ImagePages
      <3>3. mem_base_pa(w) + image_pages[i].p \in Slots
        BY <3>2, RamBases
      <3>4. mem_base_pa(w) + image_pages[i].p # a
        <4> SUFFICES ASSUME mem_base_pa(w) + image_pages[i].p = a PROVE FALSE
          OBVIOUS
        <4>1. w = v /\ image_pages[i].p = g.p
          <5>1. v \in VM /\ g.p \in Ram
            BY <2>1
          <5>2. mem_base_pa(w) + image_pages[i].p = mem_base_pa(v) + g.p
            OBVIOUS
          <5> HIDE DEF v, g, a
          <5> QED BY <3>2, <5>1, <5>2, RamBases
        <4>2. i = n + 1
          BY <4>1, <2>1, ImagePages
        <4>3. i <= n
          BY <4>1
        <4> QED BY <4>2, <4>3, <1>00
      <3> HIDE DEF a
      <3> QED BY <3>1, <3>3, <3>4, <2>3
    <2>5. ImageInv(c, n + 1)'
      BY <2>1, <2>3, <2>4, OneMore
    <2> QED BY <2>1, <2>5 DEF NeverExhausted
  <1>4. ASSUME NEW v \in VM, NEW p \in Touch, TrapKind(c, n, v, p)
        PROVE  ImageInv(c, n)' /\ NeverExhausted'
    <2> DEFINE lp == low_alias(p)
    <2>1. ~static
      BY <1>0, <1>4, StaticNoTrap
    <2>2. Fresh(v, lp)
      BY <1>0, <1>4, <2>1, TrapFresh
    <2>3. /\ lp \in Ram /\ static' = static /\ image' = image
          /\ Exhausted \/ \E s \in Slots : AllocStep(s, v, lp, lp + HighBase)
      BY <1>4 DEF TrapKind, TrapEffect
    <2> HIDE DEF lp
    <2>4. ~Exhausted
      BY <2>1, <2>2, <2>3, <1>0, NotExhausted
    <2>5. PICK s \in Slots : AllocStep(s, v, lp, lp + HighBase)
      BY <2>3, <2>4
    <2>6. ImageInv(c, n)'
      BY <2>1, <2>3, <2>5, AllocImage
    <2> QED BY <2>5, <2>6 DEF AllocStep, NeverExhausted
  <1>5. ASSUME QuietKind PROVE ImageInv(c, n)' /\ NeverExhausted'
    <2>1. /\ static' = static /\ target_vm' = target_vm /\ ipa' = ipa /\ image' = image
          /\ halt' = halt \/ halt' = "printb"
      BY <1>5 DEF QuietKind, QuietStep
    <2> QED BY <2>1 DEF ImageInv, NeverExhausted
  <1> QED BY <1>1, <1>2, <1>3, <1>4, <1>5

\* The second part of the invariant.
LEMMA RamHolds == Spec => []Inv2
  <1>1. Init => Inv2
    <2>1. Init => At(0, LoadCount) /\ BaseInv(0, LoadCount) /\ RamInv(0, LoadCount)
      BY InitBase, InitRam, TodoInit
    <2>2. 0 \in 0 .. NumVM /\ LoadCount \in 0 .. LoadCount
      BY ImageAssumption, LayoutAssumption DEF LoadCount
    <2> QED BY <2>1, <2>2 DEF Inv2
  <1>2. Inv2 /\ [Next]_vars => Inv2'
    <2> SUFFICES ASSUME StaysInRam, Inv2, [Next]_vars
                 PROVE  \E c \in 0 .. NumVM, n \in 0 .. LoadCount :
                          At(c, n) /\ BaseInv(c, n)' /\ RamInv(c, n)'
      BY DEF Inv2, At, StaysInRam
    <2>1. PICK c \in 0 .. NumVM, n \in 0 .. LoadCount : At(c, n) /\ BaseInv(c, n) /\ RamInv(c, n)
      BY DEF Inv2
    <2>2. StepKinds(c, n)
      BY <2>1, NextKinds
    <2>3. \/ At(c + 1, 0) /\ BaseInv(c + 1, 0)' /\ RamInv(c + 1, 0)'
          \/ At(c, n + 1) /\ BaseInv(c, n + 1)' /\ RamInv(c, n + 1)'
          \/ At(c, n) /\ BaseInv(c, n)' /\ RamInv(c, n)'
      BY <2>1, <2>2, NextBase, NextRam DEF StepKinds
    <2>4. \A d, m : At(d, m) => d \in 0 .. NumVM /\ m \in 0 .. LoadCount
      BY DEF At
    <2> QED BY <2>3, <2>4
  <1> QED BY <1>1, <1>2, PTL DEF Spec

\* The third part of the invariant.
LEMMA ImageHolds == Spec => []Inv3
  <1>1. Init => Inv3
    <2>1. Init => At(0, LoadCount) /\ BaseInv(0, LoadCount) /\ RamInv(0, LoadCount)
      BY InitBase, InitRam, TodoInit
    <2>2. 0 \in 0 .. NumVM /\ LoadCount \in 0 .. LoadCount
      BY ImageAssumption, LayoutAssumption DEF LoadCount
    <2>3. ImageInv(0, LoadCount)
      BY DEF ImageInv, VM
    <2>4. Init => NeverExhausted
      BY DEF Init, NeverExhausted
    <2> QED BY <2>1, <2>2, <2>3, <2>4 DEF Inv3
  <1>2. Inv3 /\ [Next]_vars => Inv3'
    <2> SUFFICES ASSUME StaysInRam, RamFits, Inv3, [Next]_vars
                 PROVE  /\ NeverExhausted'
                        /\ \E c \in 0 .. NumVM, n \in 0 .. LoadCount :
                             At(c, n) /\ BaseInv(c, n)' /\ RamInv(c, n)' /\ ImageInv(c, n)'
      BY DEF Inv3, At, StaysInRam, RamFits
    <2>1. PICK c \in 0 .. NumVM, n \in 0 .. LoadCount :
            At(c, n) /\ BaseInv(c, n) /\ RamInv(c, n) /\ ImageInv(c, n)
      BY DEF Inv3
    <2>0. NeverExhausted
      BY DEF Inv3
    <2>2. StepKinds(c, n)
      BY <2>1, NextKinds
    <2>3. \/ At(c + 1, 0) /\ BaseInv(c + 1, 0)' /\ RamInv(c + 1, 0)' /\ ImageInv(c + 1, 0)'
          \/ At(c, n + 1) /\ BaseInv(c, n + 1)' /\ RamInv(c, n + 1)' /\ ImageInv(c, n + 1)'
          \/ At(c, n) /\ BaseInv(c, n)' /\ RamInv(c, n)' /\ ImageInv(c, n)'
      BY <2>0, <2>1, <2>2, NextBase, NextRam, NextImage DEF StepKinds
    <2>4. NeverExhausted'
      BY <2>0, <2>1, <2>2, NextImage DEF StepKinds
    <2>5. \A d, m : At(d, m) => d \in 0 .. NumVM /\ m \in 0 .. LoadCount
      BY DEF At
    <2> QED BY <2>3, <2>4, <2>5
  <1> QED BY <1>1, <1>2, PTL DEF Spec


(***************************************************************************)
(* The theorems.                                                           *)
(***************************************************************************)
\* A VM that main() has not prepared faults everywhere.
LEMMA NotPrepared ==
  ASSUME NEW p \in Pages
  PROVE  Translate(NoTables, p) = Fault /\ NoTables.page_count = 0
  <1>1. p \div Entries \in Blocks
    BY BlockInRange DEF Block
  <1>2. NoTables.l2 = [b \in Blocks |-> Invalid] /\ NoTables.page_count = 0
    BY DEF NoTables, pagetable_init
  <1>3. NoTables.l2[p \div Entries].type = "invalid"
    BY <1>1, <1>2 DEF Invalid
  <1> QED BY <1>2, <1>3 DEF Translate

\* Type correctness: whatever the guests do, the allocator's arrays, its counter
\* and last_i, the table counters and the monitors stay within their bounds.
THEOREM TypeCorrect == Spec => []TypeOK
  <1>1. ASSUME Inv1 PROVE TypeOK
    <2>1. PICK c \in 0 .. NumVM, n \in 0 .. LoadCount : At(c, n) /\ BaseInv(c, n)
      BY <1>1 DEF Inv1
    <2>2. TypeInv /\ TablesInv(c) /\ count = Cardinality(UsedSlots)
      BY <2>1 DEF BaseInv, CountInv
    <2>3. count \in 0 .. PageCount
      BY <2>2, SlotsFinite DEF UsedSlots
    <2>4. ASSUME NEW v \in VM PROVE pt[v].page_count \in 0 .. MaxTables
      <3>1. CASE v < c
        BY <3>1, <2>2 DEF TablesInv, WellFormed, Tables
      <3>2. CASE c <= v
        <4>1. pt[v].page_count = 0
          BY <3>2, <2>2 DEF TablesInv, NoTables, pagetable_init
        <4> QED BY <4>1, TablesAssumption
      <3> QED BY <3>1, <3>2 DEF VM
    <2> QED BY <2>2, <2>3, <2>4 DEF TypeOK, TypeInv
  <1> QED BY <1>1, BaseHolds, PTL

\* The pages VM v owns when its memory is prepared statically.
StaticOwned(v) == DevPages(v) \cup {RamPa(mem_base_pa(v) + p) : p \in Ram}

\* A walk through tables that were cleared finds an entry that was written.
LEMMA WalkKnown ==
  ASSUME NEW t, WellFormed(t), t.page_count <= L3Tables, NEW p \in Pages
  PROVE  Translate(t, p).kind # "unknown"
  <1> DEFINE d == t.l2[Block(p)]
             e == t.l3[d.out][Index(p)]
  <1>1. Block(p) \in Blocks /\ Index(p) \in 0 .. Entries - 1
    BY BlockInRange
  <1>2. d \in L2Desc /\ d.type \in {"invalid", "table", "block"}
    BY <1>1, TablesAssumption DEF WellFormed, Tables, L2Desc, Invalid
  <1>3. Fault.kind = "fault"
    BY DEF Fault, Pa
  <1>4. CASE d.type = "invalid"
    BY <1>3, <1>4, Walk
  <1>5. CASE d.type = "block"
    <2>1. Translate(t, p) = Pa(d.out.kind, d.out.n + Index(p))
      BY <1>5, Walk
    <2>2. d.out.kind = "ram"
      BY <1>2, <1>5 DEF L2Desc, Invalid
    <2> QED BY <2>1, <2>2 DEF Pa
  <1>6. CASE d.type = "table"
    <2>1. d.out \in 0 .. MaxTables - 1
      BY <1>2, <1>6 DEF L2Desc, Invalid
    <2>2. d.out < t.page_count /\ t.page_count \in 0 .. MaxTables
      BY <1>1, <1>6 DEF WellFormed, Tables
    <2>3. d.out < L3Tables
      BY <2>1, <2>2, TablesAssumption
    <2>4. e \in L3Desc /\ e.type # "uninit"
      BY <1>1, <2>1, <2>3 DEF WellFormed, Tables
    <2>5. CASE e.type = "invalid"
      BY <1>3, <1>6, <2>5, Walk
    <2>6. CASE e.type = "page"
      <3>1. Translate(t, p) = e.out
        BY <1>6, <2>6, Walk
      <3>2. e.out \in Phys
        BY <2>4, <2>6 DEF L3Desc, Descs, Invalid, Uninit
      <3> QED BY <3>1, <3>2, PhysMapped
    <2> QED BY <2>4, <2>5, <2>6 DEF L3Desc, Descs, Invalid, Uninit
  <1> QED BY <1>2, <1>4, <1>5, <1>6

\* Whatever a VM can reach is its own, as long as its tables were cleared.
LEMMA ReachOwned ==
  ASSUME Inv1, Inv2, ~static \/ StaysInRam, L3TablesPrepared
  PROVE  \A v \in VM : Reach(v) \subseteq (IF static THEN StaticOwned(v) ELSE OwnedBy(v))
  <1>0. ASSUME NEW v \in VM, NEW p \in Pages PROVE Translate(pt[v], p).kind # "unknown"
    <2>1. PICK c \in 0 .. NumVM, n \in 0 .. LoadCount : At(c, n) /\ BaseInv(c, n)
      BY DEF Inv1
    <2>2. TablesInv(c)
      BY <2>1 DEF BaseInv
    <2>3. CASE v < c
      <3>1. WellFormed(pt[v]) /\ pt[v].page_count <= L3Tables
        BY <2>2, <2>3 DEF TablesInv, L3TablesPrepared
      <3> QED BY <3>1, WalkKnown
    <2>4. CASE c <= v
      <3>1. Translate(pt[v], p) = Fault
        BY <2>2, <2>4, NotPrepared DEF TablesInv
      <3> QED BY <3>1 DEF Fault, Pa
    <2> QED BY <2>3, <2>4 DEF VM
  <1> SUFFICES ASSUME NEW v \in VM, NEW p \in Pages, NEW x \in Leads(Translate(pt[v], p))
               PROVE  x \in (IF static THEN StaticOwned(v) ELSE OwnedBy(v))
    BY DEF Reach
  <1>x. x = Translate(pt[v], p) /\ Mapped(v, p)
    BY <1>0 DEF Leads, Mapped
  <1> SUFFICES Translate(pt[v], p) \in (IF static THEN StaticOwned(v) ELSE OwnedBy(v))
    BY <1>x
  <1>1. Translate(pt[v], p) \notin {Fault, Unknown}
    BY <1>x DEF Mapped, Fault, Unknown, Pa
  <1>2. \A c \in 0 .. NumVM : TablesInv(c) => v < c
    <2> SUFFICES ASSUME NEW c \in 0 .. NumVM, TablesInv(c), c <= v PROVE FALSE
      BY DEF VM
    <2>1. pt[v] = NoTables
      BY DEF TablesInv
    <2> QED BY <2>1, <1>1, NotPrepared
  <1>3. CASE ~static
    <2>1. PICK c \in 0 .. NumVM, n \in 0 .. LoadCount : At(c, n) /\ BaseInv(c, n)
      BY DEF Inv1
    <2>2. TablesInv(c) /\ DemandInv(c)
      BY <2>1 DEF BaseInv
    <2> QED BY <1>1, <1>2, <1>3, <2>2 DEF DemandInv
  <1>4. CASE static /\ StaysInRam
    <2>1. PICK c \in 0 .. NumVM, n \in 0 .. LoadCount : At(c, n) /\ BaseInv(c, n) /\ RamInv(c, n)
      BY <1>4 DEF Inv2
    <2>2. TablesInv(c) /\ StaticInv(c)
      BY <2>1 DEF BaseInv, RamInv
    <2>3. v < c
      BY <1>2, <2>2
    <2>4. CASE p \in Ram
      BY <1>4, <2>2, <2>3, <2>4 DEF StaticInv, StaticOwned
    <2>5. CASE p - HighBase \in Ram
      <3>1. p = (p - HighBase) + HighBase
        BY LayoutAssumption DEF Pages
      <3> DEFINE q == p - HighBase
      <3>2. q \in Ram /\ p = q + HighBase
        BY <2>5, <3>1
      <3> HIDE DEF q
      <3>3. Translate(pt[v], p) = RamPa(mem_base_pa(v) + q)
        BY <1>4, <2>2, <2>3, <3>2 DEF StaticInv
      <3> QED BY <3>2, <3>3, <1>4 DEF StaticOwned
    <2>6. CASE p \notin Ram /\ p - HighBase \notin Ram
      BY <1>1, <1>4, <2>2, <2>3, <2>6 DEF StaticInv, StaticOwned, DevPages
    <2> QED BY <2>4, <2>5, <2>6
  <1> QED BY <1>3, <1>4

\* What two VMs own is disjoint, the virtual CPU interface excepted.
LEMMA OwnedApart ==
  ASSUME TypeInv, NEW v \in VM, NEW w \in VM, v # w
  PROVE  /\ OwnedBy(v) \cap OwnedBy(w) \subseteq {Pa("vcpu_if", 0)}
         /\ StaticOwned(v) \cap StaticOwned(w) \subseteq {Pa("vcpu_if", 0)}
  <1>1. ASSUME NEW d \in Devs, NEW e \in Devs, DevPa(d, v) = DevPa(e, w)
        PROVE  DevPa(d, v) = Pa("vcpu_if", 0)
    BY <1>1 DEF DevPa, Pa
  <1>2. \A d \in Devs, x \in VM : \A y : DevPa(d, x) # RamPa(y)
    <2> SUFFICES ASSUME NEW d \in Devs, NEW x \in VM, NEW y PROVE DevPa(d, x).kind # RamPa(y).kind
      OBVIOUS
    <2>1. DevPa(d, x).kind = d /\ RamPa(y).kind = "ram"
      BY DEF DevPa, RamPa, Pa
    <2> QED BY <2>1, DeviceAssumption
  <1>3. \A s, x \in Slots : target_vm[s] = v /\ target_vm[x] = w => RamPa(s) # RamPa(x)
    BY DEF RamPa, Pa
  <1>4. \A p, q \in Ram : RamPa(mem_base_pa(v) + p) # RamPa(mem_base_pa(w) + q)
    <2> SUFFICES ASSUME NEW p \in Ram, NEW q \in Ram, RamPa(mem_base_pa(v) + p) = RamPa(mem_base_pa(w) + q)
                 PROVE  FALSE
      OBVIOUS
    <2>1. mem_base_pa(v) + p = mem_base_pa(w) + q
      BY DEF RamPa, Pa
    <2> QED BY <2>1, RamBases
  <1>5. ASSUME NEW x \in OwnedBy(v), x \in OwnedBy(w) PROVE x = Pa("vcpu_if", 0)
    <2>1. (\E d \in Devs : x = DevPa(d, v)) \/ (\E s \in Slots : target_vm[s] = v /\ x = RamPa(s))
      BY DEF OwnedBy, SlotsOf
    <2>2. (\E d \in Devs : x = DevPa(d, w)) \/ (\E s \in Slots : target_vm[s] = w /\ x = RamPa(s))
      BY <1>5 DEF OwnedBy, SlotsOf
    <2> QED BY <2>1, <2>2, <1>1, <1>2, <1>3
  <1>6. ASSUME NEW x \in StaticOwned(v), x \in StaticOwned(w) PROVE x = Pa("vcpu_if", 0)
    <2>1. (\E d \in Devs : x = DevPa(d, v)) \/ (\E p \in Ram : x = RamPa(mem_base_pa(v) + p))
      BY DEF StaticOwned, DevPages
    <2>2. (\E d \in Devs : x = DevPa(d, w)) \/ (\E p \in Ram : x = RamPa(mem_base_pa(w) + p))
      BY <1>6 DEF StaticOwned, DevPages
    <2> QED BY <2>1, <2>2, <1>1, <1>2, <1>4
  <1> QED BY <1>5, <1>6

\* Isolation, as long as the level 3 tables in use are among those pagetable_init
\* clears (an entry of any other may map any page): with memory given on demand,
\* whatever addresses the guests use and in whatever order they fault; with memory
\* prepared statically, for guests that touch no address behind their RAM that the
\* data abort handler's window tests still accept.
THEOREM VMsIsolated == Spec => [](L3TablesPrepared /\ (~static \/ StaysInRam) => Isolation)
  <1>1. ASSUME Inv1, Inv2 PROVE L3TablesPrepared /\ (~static \/ StaysInRam) => Isolation
    <2> SUFFICES ASSUME L3TablesPrepared, ~static \/ StaysInRam, NEW v \in VM, NEW w \in VM, v # w
                 PROVE  Reach(v) \cap Reach(w) \subseteq {Pa("vcpu_if", 0)}
      BY DEF Isolation
    <2>1. \A x \in VM : Reach(x) \subseteq (IF static THEN StaticOwned(x) ELSE OwnedBy(x))
      BY <1>1, ReachOwned
    <2>2. TypeInv
      BY <1>1 DEF Inv1, BaseInv
    <2>3. /\ OwnedBy(v) \cap OwnedBy(w) \subseteq {Pa("vcpu_if", 0)}
          /\ StaticOwned(v) \cap StaticOwned(w) \subseteq {Pa("vcpu_if", 0)}
      BY <2>2, OwnedApart
    <2>4. CASE static
      BY <2>1, <2>3, <2>4
    <2>5. CASE ~static
      BY <2>1, <2>3, <2>5
    <2> QED BY <2>4, <2>5
  <1> QED BY <1>1, BaseHolds, RamHolds, PTL

\* A fault is repaired: the access that a VM repeats after the data abort handler
\* has returned is mapped, whatever other VMs have done in between.
THEOREM FaultsRepaired == Spec => []((~static \/ StaysInRam) => FaultRepaired)
  <1>1. ASSUME Inv1, Inv2 PROVE (~static \/ StaysInRam) => FaultRepaired
    <2>1. CASE ~static
      BY <1>1, <2>1 DEF Inv1, BaseInv, DemandInv, FaultRepaired
    <2>2. CASE static /\ StaysInRam
      <3>1. \A v \in VM : redo[v] = None
        BY <1>1, <2>2 DEF Inv2, RamInv, StaticInv
      <3> QED BY <3>1 DEF FaultRepaired
    <2> QED BY <2>1, <2>2
  <1> QED BY <1>1, BaseHolds, RamHolds, PTL

\* RAM is the same memory in both windows for guests that stay within it, as long
\* as their tables are among the ones pagetable_init clears.
THEOREM WindowsShareRam == Spec => [](StaysInRam /\ L3TablesPrepared => WindowsAlias)
  <1>1. ASSUME Inv2 PROVE StaysInRam /\ L3TablesPrepared => WindowsAlias
    <2> SUFFICES ASSUME StaysInRam, L3TablesPrepared, NEW v \in VM, NEW p \in Ram, Started(v)
                 PROVE  Translate(pt[v], p) = Translate(pt[v], p + HighBase)
      BY DEF WindowsAlias, Ram
    <2>1. PICK c \in 0 .. NumVM, n \in 0 .. LoadCount : At(c, n) /\ BaseInv(c, n) /\ RamInv(c, n)
      BY <1>1 DEF Inv2
    <2>2. todo = Todo(c, n) /\ TablesInv(c) /\ StaticInv(c) /\ AliasInv(c)
      BY <2>1 DEF BaseInv, RamInv
    <2>3. v < c
      BY <2>1, <2>2, StartedBelow
    <2>4. pt[v].page_count <= L3Tables /\ pt[v].page_count \in Nat /\ L3Tables \in Nat
      BY <2>2, <2>3, TablesAssumption DEF L3TablesPrepared, TablesInv, WellFormed, Tables
    <2>5. ~(L3Tables < pt[v].page_count)
      BY <2>4
    <2>6. CASE static
      BY <2>2, <2>3, <2>6 DEF StaticInv
    <2>7. CASE ~static
      BY <2>2, <2>3, <2>5, <2>7 DEF AliasInv
    <2> QED BY <2>6, <2>7
  <1> QED BY <1>1, RamHolds, PTL

\* Loading, allocating and faulting leave the directly mapped devices in place.
THEOREM DevicesStay == Spec => [](StaysInRam => DevicesMapped)
  <1>1. ASSUME Inv2 PROVE StaysInRam => DevicesMapped
    <2> SUFFICES ASSUME StaysInRam, NEW v \in VM, NEW d \in Devs, Started(v)
                 PROVE  Translate(pt[v], DevIpa[d]) = DevPa(d, v)
      BY DEF DevicesMapped
    <2>1. PICK c \in 0 .. NumVM, n \in 0 .. LoadCount : At(c, n) /\ BaseInv(c, n) /\ RamInv(c, n)
      BY <1>1 DEF Inv2
    <2>2. todo = Todo(c, n) /\ DevInv(c)
      BY <2>1 DEF BaseInv, RamInv
    <2>3. v < c
      BY <2>1, <2>2, StartedBelow
    <2> QED BY <2>2, <2>3 DEF DevInv
  <1> QED BY <1>1, RamHolds, PTL

\* The allocator's books agree with the page tables and with the monitors: every
\* used slot is what its owner finds at the two addresses it recorded, the counts
\* are right, and memory_allocator_page_exist answers whether a page is mapped.
THEOREM BooksAgree == Spec => [](StaysInRam => AllocatorConsistent)
  <1>1. ASSUME Inv2 PROVE StaysInRam => AllocatorConsistent
    <2> SUFFICES ASSUME StaysInRam, halt = "no"
                 PROVE  /\ count = Cardinality({s \in Slots : target_vm[s] # -1})
                        /\ \A v \in VM : mon[v] = Cardinality({s \in Slots : target_vm[s] = v})
                        /\ \A s \in Slots : target_vm[s] # -1 =>
                             /\ Translate(pt[target_vm[s]], ipa[s]) = RamPa(s)
                             /\ Translate(pt[target_vm[s]], high_ipa[s]) = RamPa(s)
                        /\ ~static => \A v \in VM, p \in Ram : Started(v) =>
                             (memory_allocator_page_exist(v, p, p + HighBase) <=> Mapped(v, p))
      BY DEF AllocatorConsistent, Ram
    <2>1. PICK c \in 0 .. NumVM, n \in 0 .. LoadCount : At(c, n) /\ BaseInv(c, n) /\ RamInv(c, n)
      BY <1>1 DEF Inv2
    <2>2. todo = Todo(c, n) /\ CountInv /\ StaticInv(c) /\ SlotInv /\ AliasInv(c)
      BY <2>1 DEF BaseInv, RamInv
    <2>3. /\ count = Cardinality({s \in Slots : target_vm[s] # -1})
          /\ \A v \in VM : mon[v] = Cardinality({s \in Slots : target_vm[s] = v})
      BY <2>2 DEF CountInv, UsedSlots, SlotsOf
    <2>4. \A s \in Slots : target_vm[s] # -1 =>
            /\ Translate(pt[target_vm[s]], ipa[s]) = RamPa(s)
            /\ Translate(pt[target_vm[s]], high_ipa[s]) = RamPa(s)
      BY <2>2 DEF StaticInv, SlotInv
    <2>5. ASSUME ~static, NEW v \in VM, NEW p \in Ram, Started(v)
          PROVE  memory_allocator_page_exist(v, p, p + HighBase) <=> Mapped(v, p)
      <3>1. v < c /\ v # -1
        BY <2>1, <2>2, <2>5, StartedBelow DEF VM
      <3>2. ASSUME NEW s \in Slots, target_vm[s] = v, ipa[s] = p PROVE Mapped(v, p)
        <4>1. Translate(pt[v], p) = RamPa(s) /\ RamPa(s) \in Phys
          BY <3>1, <3>2, <2>4, PhysPages
        <4> QED BY <4>1, PhysMapped DEF Mapped
      <3>3. ASSUME Mapped(v, p) PROVE memory_allocator_page_exist(v, p, p + HighBase)
        <4>1. PICK s \in Slots : target_vm[s] = v /\ ipa[s] = p
          BY <3>1, <3>3, <2>2, <2>5 DEF AliasInv
        <4>2. high_ipa[s] = p + HighBase
          BY <4>1, <3>1, <2>2, <2>5 DEF SlotInv
        <4> QED BY <4>1, <4>2 DEF memory_allocator_page_exist
      <3> QED BY <3>2, <3>3 DEF memory_allocator_page_exist
    <2> QED BY <2>3, <2>4, <2>5
  <1> QED BY <1>1, RamHolds, PTL

\* Guests that stay within their RAM never exhaust an allocator that has a page for
\* every page of it.
THEOREM RamSuffices == Spec => [](StaysInRam /\ RamFits => NeverExhausted)
  <1>1. Inv3 => (StaysInRam /\ RamFits => NeverExhausted)
    BY DEF Inv3
  <1> QED BY <1>1, ImageHolds, PTL

\* After main(), and as long as the guests run, every VM finds its own copy of the
\* kernel, the ramdisk and the boot loader at the low and at the high addresses.
THEOREM ImagesStay == Spec => [](StaysInRam /\ RamFits => ImagesInPlace)
  <1>1. ASSUME Inv3 PROVE StaysInRam /\ RamFits => ImagesInPlace
    <2> SUFFICES ASSUME StaysInRam, RamFits, todo = <<>>, NEW v \in VM, NEW i \in 1 .. LoadCount,
                        NEW p \in {image_pages[i].p, image_pages[i].p + HighBase}
                 PROVE  /\ Mapped(v, p)
                        /\ image[Translate(pt[v], p).n] = Loaded(v, image_pages[i])
      BY ImagePages DEF ImagesInPlace
    <2>1. PICK c \in 0 .. NumVM, n \in 0 .. LoadCount :
            At(c, n) /\ BaseInv(c, n) /\ RamInv(c, n) /\ ImageInv(c, n)
      BY <1>1 DEF Inv3
    <2>2. todo = Todo(c, n) /\ StaticInv(c) /\ SlotInv
      BY <2>1 DEF BaseInv, RamInv
    <2>3. c = NumVM /\ n = LoadCount
      BY <2>1, <2>2, TodoCases
    <2>4. v < c /\ i <= n /\ v # -1
      <3>1. v < NumVM /\ v # -1
        BY LayoutAssumption DEF VM
      <3>2. i <= LoadCount
        BY ImageAssumption DEF LoadCount
      <3> QED BY <3>1, <3>2, <2>3
    <2> DEFINE g == image_pages[i]
    <2>5. g.p \in Ram
      BY ImagePages
    <2>6. PICK a : Translate(pt[v], p) = RamPa(a) /\ image[a] = Loaded(v, g)
      <3>1. CASE static
        <4>1. image[mem_base_pa(v) + g.p] = Loaded(v, g)
          BY <3>1, <2>1, <2>4 DEF ImageInv
        <4>2. Translate(pt[v], p) = RamPa(mem_base_pa(v) + g.p)
          BY <3>1, <2>2, <2>4, <2>5 DEF StaticInv
        <4> QED BY <4>1, <4>2
      <3>2. CASE ~static
        <4>1. PICK s \in Slots : target_vm[s] = v /\ ipa[s] = g.p /\ image[s] = Loaded(v, g)
          BY <3>2, <2>1, <2>4 DEF ImageInv
        <4>2. Translate(pt[v], g.p) = RamPa(s) /\ Translate(pt[v], g.p + HighBase) = RamPa(s)
          BY <4>1, <3>2, <2>2, <2>4 DEF SlotInv
        <4> QED BY <4>1, <4>2
      <3> QED BY <3>1, <3>2
    <2>7. RamPa(a).n = a /\ RamPa(a).kind = "ram"
      BY DEF RamPa, Pa
    <2> QED BY <2>6, <2>7 DEF Mapped
  <1> QED BY <1>1, ImageHolds, PTL

=============================================================================

----------------------------- MODULE GuestMemory -----------------------------
(***************************************************************************)
(* Guest memory: the page allocator (vmm/memory_allocator.c), the stage-2   *)
(* page tables (vmm/pagetable.c), the loading of the guest images and the   *)
(* memory part of the data abort handler (guests/guest_rpb.c).              *)
(*                                                                         *)
(* Addresses are page numbers.  Every VM has one level 1 table whose four   *)
(* entries always lead to its own four level 2 tables, so level 1 and 2     *)
(* together are one array indexed by 2 MiB block.  main() prepares each VM   *)
(* either on demand (guest_rpb_init_pt, guest_rpb_init_mem) or statically   *)
(* (guest_rpb_init_pt_static, guest_rpb_init_mem_static); the variable      *)
(* static says which of the two pairs of calls is compiled.                 *)
(*                                                                         *)
(* Which VM is on the CPU is the subject of Hypervisor; here any VM may     *)
(* fault next.  Operators whose name ends in _bug are faulty variants of    *)
(* the definition after them and no part of the specification.              *)
(***************************************************************************)
EXTENDS Integers, FiniteSets, Sequences

CONSTANTS NumVM,         \* entries of vm[]
          Entries,       \* descriptors of a table, pages of a block (512)
          AddrPages,     \* pages of the 32-bit address space (2^20)
          RamPages,      \* vm->mem_size in pages; also the 128 << 20 of the handler
          HighBase,      \* 0x70000000 in pages
          L3Tables,      \* level 3 tables that pagetable_init clears (8)
          MaxTables,     \* bound on the level 3 tables of one VM
          PageCount,     \* PAGE_COUNT, slots of the allocator
          DevIpa,        \* intermediate address of each directly mapped device
          Emulated,      \* addresses of the devices emulated after a trap
          KernelBase, KernelFull,   \* first page and whole pages of the kernel
          InitrdBase, InitrdFull,   \* ... and of the initial ramdisk
          Touch,         \* the addresses guests access
          Modes          \* values of static to consider

VM     == 0 .. NumVM - 1
Pages  == 0 .. AddrPages - 1
Blocks == 0 .. (AddrPages \div Entries) - 1
Slots  == 0 .. PageCount - 1
Devs   == DOMAIN DevIpa
None   == -1

ASSUME LayoutAssumption ==
  /\ NumVM \in 1 .. 4 /\ Entries \in Nat \ {0} /\ PageCount \in Nat \ {0}
  /\ AddrPages \in Nat /\ HighBase \in Nat /\ RamPages \in Nat
  /\ AddrPages % Entries = 0 /\ HighBase % Entries = 0 /\ RamPages % Entries = 0
  /\ 0 < RamPages /\ RamPages < HighBase /\ HighBase + RamPages < AddrPages
  /\ Touch \subseteq Pages /\ Emulated \subseteq Pages
\* The five devices have pages of their own between the two RAM windows.
ASSUME DeviceAssumption ==
  /\ Devs = {"uart", "timer_0", "timer_2", "vcpu_if", "black_hole"}
  /\ \A d \in Devs : DevIpa[d] \in RamPages .. HighBase - 1
  /\ \A d, e \in Devs : DevIpa[d] = DevIpa[e] => d = e
\* The bound of the model leaves room for the tables of the devices.
ASSUME TablesAssumption == L3Tables \in Nat /\ MaxTables \in Nat /\ 5 <= MaxTables
ASSUME ImageAssumption ==
  /\ KernelBase \in Nat /\ KernelFull \in Nat /\ InitrdBase \in Nat /\ InitrdFull \in Nat
  /\ 0 < KernelBase /\ KernelBase + KernelFull < InitrdBase
  /\ InitrdBase + InitrdFull < RamPages
ASSUME ModesAssumption == Modes \subseteq BOOLEAN

VARIABLES static,       \* which of the two initialisations main() calls
          target_vm,    \* sys_mem_allocator, one entry per slot
          ipa, high_ipa,
          count,
          last_i,       \* static local of memory_allocator_new_page
          pt,           \* vm[v].pt with the tables it points to
          todo,         \* what main() has still to do
          image,        \* what was loaded into each page of RAM
          mon,          \* vm[v].mon, event ALLOCATE_PAGE
          redo,         \* the access VM v repeats after a fault, or None
          halt

alloc == <<target_vm, ipa, high_ipa, count, last_i>>
vars  == <<static, alloc, pt, todo, image, mon, redo, halt>>

(***************************************************************************)
(* Page tables.                                                            *)
(***************************************************************************)
Pa(k, n)   == [kind |-> k, n |-> n]
RamPa(n)   == Pa("ram", n)
Invalid    == [type |-> "invalid", out |-> 0]
Uninit     == [type |-> "uninit", out |-> 0]
Fault      == Pa("fault", 0)

\* The fields of pagetable_ld and the tables behind them.  Level 3 tables
\* beyond the ones that are cleared hold whatever the memory held before.
pagetable_init ==
  [l2 |-> [b \in Blocks |-> Invalid],
   l3 |-> [k \in 0 .. MaxTables - 1 |->
            [i \in 0 .. Entries - 1 |-> IF k < L3Tables THEN Invalid ELSE Uninit]],
   page_count |-> 0]

pagetable_set_block(t, p, pa) ==
  [t EXCEPT !.l2[p \div Entries] = [type |-> "block", out |-> pa]]

\* The counter of level 3 tables is not advanced.
pagetable_set_page_bug(t, p, pa) ==
  LET b   == p \div Entries
      k   == IF t.l2[b].type # "table" THEN t.page_count ELSE t.l2[b].out
  IN  [t EXCEPT !.l2[b] = [type |-> "table", out |-> k],
                !.l3[k][p % Entries] = [type |-> "page", out |-> pa]]

\* A block without a level 3 table gets the next one (whatever it was before).
pagetable_set_page(t, p, pa) ==
  LET b   == p \div Entries
      new == t.l2[b].type # "table"
      k   == IF new THEN t.page_count ELSE t.l2[b].out
  IN  [l2 |-> [t.l2 EXCEPT ![b] = [type |-> "table", out |-> k]],
       l3 |-> [t.l3 EXCEPT ![k][p % Entries] = [type |-> "page", out |-> pa]],
       page_count |-> IF new THEN t.page_count + 1 ELSE t.page_count]

\* The hardware's walk: a physical page, Fault, or an unpredictable result.
Translate(t, p) ==
  LET d == t.l2[p \div Entries]
      e == t.l3[d.out][p % Entries]
  IN  CASE d.type = "block"   -> Pa(d.out.kind, d.out.n + (p % Entries))
        [] d.type = "invalid" -> Fault
        [] d.type = "table"   -> CASE e.type = "page"    -> e.out
                                   [] e.type = "invalid" -> Fault
                                   [] e.type = "uninit"  -> Pa("unknown", 0)

Mapped(v, p) == Translate(pt[v], p).kind \notin {"fault", "unknown"}

(***************************************************************************)
(* The allocator.  A slot is the page of RAM with its number.               *)
(***************************************************************************)
memory_allocator_page_exist(v, p, hp) ==
  \E s \in Slots : target_vm[s] = v /\ ipa[s] = p /\ high_ipa[s] = hp

\* The slot that last_i reaches after i increments.
slot_after(i) == IF last_i + i >= PageCount THEN last_i + i - PageCount ELSE last_i + i

\* The slot is handed out without being marked.
take_slot_bug(s, v, p, hp) ==
  /\ ipa' = [ipa EXCEPT ![s] = p]
  /\ high_ipa' = [high_ipa EXCEPT ![s] = hp]
  /\ count' = count + 1
  /\ last_i' = s
  /\ UNCHANGED target_vm

\* last_i is left at the next slot, one past the array after the last.
take_slot_off_bug(s, v, p, hp) ==
  /\ target_vm' = [target_vm EXCEPT ![s] = v]
  /\ ipa' = [ipa EXCEPT ![s] = p]
  /\ high_ipa' = [high_ipa EXCEPT ![s] = hp]
  /\ count' = count + 1
  /\ last_i' = s + 1

take_slot(s, v, p, hp) ==
  /\ target_vm' = [target_vm EXCEPT ![s] = v]
  /\ ipa' = [ipa EXCEPT ![s] = p]
  /\ high_ipa' = [high_ipa EXCEPT ![s] = hp]
  /\ count' = count + 1
  /\ last_i' = s

\* Only the low address is mapped.
map_slot_bug(s, v, p, hp) ==
  pt' = [pt EXCEPT ![v] = pagetable_set_page(pt[v], p, RamPa(s))]

\* Both addresses are mapped to the page of the slot.
map_slot(s, v, p, hp) ==
  pt' = [pt EXCEPT ![v] =
          pagetable_set_page(pagetable_set_page(pt[v], p, RamPa(s)), hp, RamPa(s))]

\* memory_allocator_new_page: the first free slot after last_i; with no free
\* slot printbi exits, last_i having gone round once.  MaxTables bounds the model.
new_page(v, p, hp) ==
  /\ pt[v].page_count + 2 <= MaxTables
  /\ IF \A s \in Slots : target_vm[s] # -1
     THEN halt' = "no free memory" /\ UNCHANGED <<alloc, pt>>
     ELSE \E i \in 1 .. PageCount :
            LET s == slot_after(i)
            IN  /\ target_vm[s] = -1
                /\ \A j \in 1 .. i - 1 : target_vm[slot_after(j)] # -1
                /\ take_slot(s, v, p, hp)
                /\ map_slot(s, v, p, hp)
                /\ UNCHANGED halt

(***************************************************************************)
(* main(): one VM after the other.                                         *)
(***************************************************************************)
DevPa(d, v) == IF d = "vcpu_if" THEN Pa(d, 0) ELSE Pa(d, v)

map_device(t, v, d) == pagetable_set_page(t, DevIpa[d], DevPa(d, v))

\* The five directly mapped devices; vcpu_if is the same page for every VM.
map_devices(t, v) ==
  LET t1 == map_device(t, v, "uart")
      t2 == map_device(t1, v, "timer_0")
      t3 == map_device(t2, v, "timer_2")
      t4 == map_device(t3, v, "vcpu_if")
  IN  map_device(t4, v, "black_hole")

\* The RAM of two VMs overlaps by one block.
mem_base_pa_bug(v) == v * (RamPages - Entries)

\* vm->mem_base_pa: the RAM main() gives VM v statically.
mem_base_pa(v) == v * RamPages

\* RAM in blocks at its low and its high address.
map_ram_blocks(t, v) ==
  [t EXCEPT !.l2 = [b \in Blocks |->
     IF b < RamPages \div Entries
     THEN pagetable_set_block(t, b * Entries, RamPa(mem_base_pa(v) + b * Entries)).l2[b]
     ELSE IF b >= HighBase \div Entries /\ b < (HighBase + RamPages) \div Entries
     THEN pagetable_set_block(t, b * Entries,
                              RamPa(mem_base_pa(v) + b * Entries - HighBase)).l2[b]
     ELSE t.l2[b]]]

\* The ramdisk starts after the whole pages of the kernel, on its last page.
image_pages_bug ==
  [i \in 1 .. KernelFull + 1 |-> [part |-> "kernel", k |-> i - 1, p |-> KernelBase + i - 1]]
  \o [i \in 1 .. InitrdFull + 1 |-> [part |-> "initrd", k |-> i - 1,
                                    p |-> KernelBase + KernelFull + i - 1]]
  \o <<[part |-> "boot", k |-> 0, p |-> 0]>>

\* The pages guest_rpb_init_mem allocates, in its order: its do-while loops take
\* one page more than an image fills.  The last page is the boot loader's.
image_pages ==
  [i \in 1 .. KernelFull + 1 |-> [part |-> "kernel", k |-> i - 1, p |-> KernelBase + i - 1]]
  \o [i \in 1 .. InitrdFull + 1 |-> [part |-> "initrd", k |-> i - 1, p |-> InitrdBase + i - 1]]
  \o <<[part |-> "boot", k |-> 0, p |-> 0]>>

Loaded(v, g) == [vm |-> v, part |-> g.part, k |-> g.k]

Step(v, op, g) == [vm |-> v, op |-> op, g |-> g]
Boot == [part |-> "boot", k |-> 0, p |-> 0]

\* guest_rpb_init_pt or guest_rpb_init_pt_static, whichever is compiled; the
\* pages to load are then known.
guest_rpb_init_pt ==
  /\ halt = "no" /\ todo # <<>> /\ Head(todo).op = "init_pt"
  /\ LET v == Head(todo).vm
         t == IF static THEN map_ram_blocks(pagetable_init, v) ELSE pagetable_init
     IN  /\ pt' = [pt EXCEPT ![v] = map_devices(t, v)]
         /\ todo' = [i \in DOMAIN image_pages |-> Step(v, "load", image_pages[i])]
                    \o Tail(todo)
  /\ UNCHANGED <<static, alloc, image, mon, redo, halt>>

\* One page of guest_rpb_init_mem: allocate it, then fill it.
guest_rpb_init_mem ==
  /\ halt = "no" /\ todo # <<>> /\ Head(todo).op = "load" /\ ~static
  /\ LET v == Head(todo).vm
         g == Head(todo).g
     IN  /\ new_page(v, g.p, g.p + HighBase)
         /\ image' = IF halt' = "no" THEN [image EXCEPT ![last_i'] = Loaded(v, g)] ELSE image
         /\ mon' = IF halt' = "no" THEN [mon EXCEPT ![v] = @ + 1] ELSE mon
  /\ todo' = Tail(todo)
  /\ UNCHANGED <<static, redo>>

\* One page of guest_rpb_init_mem_static: straight to mem_base_pa.
guest_rpb_init_mem_static ==
  /\ halt = "no" /\ todo # <<>> /\ Head(todo).op = "load" /\ static
  /\ LET v == Head(todo).vm
         g == Head(todo).g
     IN  image' = [image EXCEPT ![mem_base_pa(v) + g.p] = Loaded(v, g)]
  /\ todo' = Tail(todo)
  /\ UNCHANGED <<static, alloc, pt, mon, redo, halt>>

(***************************************************************************)
(* Guests at work.                                                         *)
(***************************************************************************)
\* A guest uses the addresses of Touch; after a fault it repeats the access.
Accesses(v, p) == halt = "no" /\ todo = <<>> /\ redo[v] \in {None, p}

\* The address is mapped, or an entry that nobody cleared happens to map it: the
\* access goes ahead.  (Such an entry may also fault, below.)
GuestAccess(v, p) ==
  /\ Accesses(v, p)
  /\ Translate(pt[v], p) # Fault
  /\ redo' = [redo EXCEPT ![v] = None]
  /\ UNCHANGED <<static, alloc, pt, todo, image, mon, halt>>

\* (base >= 0) && (base <= (128 << 20)): one page more than the RAM.
low_window(p) == p <= RamPages

\* (base >= 0x70000000) && (base <= (base + 0x70000000)), in 32-bit arithmetic.
high_window(p) == p >= HighBase /\ p <= (p + HighBase) % AddrPages

\* A fault in the high window maps the address itself as the low one.
low_alias_bug(p) == p

\* The low address of the page at p.
low_alias(p) == IF low_window(p) THEN p ELSE p - HighBase

\* guest_rpb_hyp_trap_dabort_handler, memory part: allocate and redo.
trap_dabort_memory(v, p) ==
  /\ Accesses(v, p)
  /\ ~Mapped(v, p)
  /\ low_window(p) \/ high_window(p)
  /\ mon' = [mon EXCEPT ![v] = @ + 1]
  /\ new_page(v, low_alias(p), low_alias(p) + HighBase)
  /\ redo' = [redo EXCEPT ![v] = p]
  /\ UNCHANGED <<static, todo, image>>

\* The device part leaves memory alone; an address without a device exits.
trap_dabort_device(v, p) ==
  /\ Accesses(v, p)
  /\ ~Mapped(v, p)
  /\ ~low_window(p) /\ ~high_window(p)
  /\ halt' = IF p \in Emulated THEN halt ELSE "printb"
  /\ UNCHANGED <<static, alloc, pt, todo, image, mon, redo>>

Exited == halt # "no" /\ UNCHANGED vars

NoTables == [pagetable_init EXCEPT !.l3 = [k \in 0 .. MaxTables - 1 |->
                                            [i \in 0 .. Entries - 1 |-> Uninit]]]

Init ==
  /\ static \in Modes
  /\ target_vm = [s \in Slots |-> -1]
  /\ ipa = [s \in Slots |-> 0]
  /\ high_ipa = [s \in Slots |-> 0]
  /\ count = 0
  /\ last_i = 0
  /\ pt = [v \in VM |-> NoTables]
  /\ todo = [i \in 1 .. NumVM |-> Step(i - 1, "init_pt", Boot)]
  /\ image = [s \in Slots |-> Loaded(None, [part |-> "none", k |-> 0, p |-> 0])]
  /\ mon = [v \in VM |-> 0]
  /\ redo = [v \in VM |-> None]
  /\ halt = "no"

Next ==
  \/ guest_rpb_init_pt
  \/ guest_rpb_init_mem
  \/ guest_rpb_init_mem_static
  \/ \E v \in VM, p \in Touch :
       GuestAccess(v, p) \/ trap_dabort_memory(v, p) \/ trap_dabort_device(v, p)
  \/ Exited

Spec == Init /\ [][Next]_vars

(***************************************************************************)
(* Properties.                                                             *)
(***************************************************************************)
TypeOK ==
  /\ static \in BOOLEAN
  /\ target_vm \in [Slots -> VM \cup {-1}]
  /\ ipa \in [Slots -> Pages] /\ high_ipa \in [Slots -> Pages]
  /\ count \in 0 .. PageCount
  /\ last_i \in Slots
  /\ \A v \in VM : pt[v].page_count \in 0 .. MaxTables
  /\ mon \in [VM -> Nat]
  /\ redo \in [VM -> Pages \cup {None}]
  /\ halt \in {"no", "printb", "no free memory"}

Started(v) == \A i \in DOMAIN todo : todo[i].vm # v \/ todo[i].op # "init_pt"

\* Every physical page there is.
Anywhere == {RamPa(s) : s \in Slots} \cup {DevPa(d, v) : d \in Devs, v \in VM}

\* Where the walk may lead: an entry that nobody cleared may map any page.
Leads(pa) == CASE pa.kind = "fault"   -> {}
               [] pa.kind = "unknown" -> Anywhere
               [] OTHER               -> {pa}

\* The physical pages VM v can reach.
Reach(v) == UNION {Leads(Translate(pt[v], p)) : p \in Pages}

\* Isolation: whatever was allocated for whom and in which order, no physical
\* page is reachable through the page tables of two VMs, except the virtual CPU
\* interface that all of them share.
Isolation ==
  \A v \in VM, w \in VM : v # w => Reach(v) \cap Reach(w) \subseteq {Pa("vcpu_if", 0)}

\* RAM at address x and at 0x70000000 + x is the same memory at all times,
\* whichever of the two faulted.
WindowsAlias ==
  \A v \in VM, p \in 0 .. RamPages - 1 : Started(v) =>
    Translate(pt[v], p) = Translate(pt[v], p + HighBase)

\* The allocator's books agree with the page tables: each used slot is the page
\* its owner finds at both addresses it recorded, no address has two slots,
\* the counters of the allocator and of the VMs' monitors are right, and
\* memory_allocator_page_exist answers whether an access would fault.
AllocatorConsistent ==
  halt = "no" =>
    /\ count = Cardinality({s \in Slots : target_vm[s] # -1})
    /\ \A v \in VM : mon[v] = Cardinality({s \in Slots : target_vm[s] = v})
    /\ \A s \in Slots : target_vm[s] # -1 =>
         /\ Translate(pt[target_vm[s]], ipa[s]) = RamPa(s)
         /\ Translate(pt[target_vm[s]], high_ipa[s]) = RamPa(s)
    /\ ~static => \A v \in VM, p \in 0 .. RamPages - 1 : Started(v) =>
         (memory_allocator_page_exist(v, p, p + HighBase) <=> Mapped(v, p))

\* Loading and allocating RAM never disturbs the directly mapped devices.
DevicesMapped ==
  \A v \in VM, d \in Devs : Started(v) => Translate(pt[v], DevIpa[d]) = DevPa(d, v)

\* Once main() is done, and as long as the guests run, VM v finds its own copy
\* of the kernel, the ramdisk and the boot loader, each page in its place, at
\* the low and at the high address.
ImagesInPlace ==
  todo = <<>> /\ halt = "no" =>
    \A v \in VM, i \in DOMAIN image_pages :
      LET g == image_pages[i]
      IN  \A p \in {g.p, g.p + HighBase} :
            /\ Mapped(v, p)
            /\ image[Translate(pt[v], p).n] = Loaded(v, g)

\* A fault is repaired before the instruction is redone, so it cannot trap for
\* ever: the repeated access does not fault, even after other VMs' faults.
FaultRepaired ==
  halt = "no" => \A v \in VM : redo[v] # None => Mapped(v, redo[v])

\* Guests that stay within the RAM they were promised never exhaust the
\* allocator ("memory_allocator_new() no free memory").
NeverExhausted == halt # "no free memory"

\* "there are 8 level 3 tables" (pagetable.c): every level 3 table that a VM
\* uses is one that pagetable_init has cleared.
L3TablesPrepared == \A v \in VM : pt[v].page_count <= L3Tables

\* "if slot is free, allocate it" (memory_allocator.c): the page behind a slot
\* that is handed out is in no other use, as the RAM of a VM would be.
SlotIsFree ==
  \A s \in Slots : target_vm[s] # -1 =>
    ~\E v \in VM, b \in Blocks :
       /\ pt[v].l2[b].type = "block"
       /\ s \in pt[v].l2[b].out.n .. pt[v].l2[b].out.n + Entries - 1
=============================================================================

------------------------------ MODULE VGicDist ------------------------------
(***************************************************************************)
(* The virtual interrupt distributor each guest sees at 0x1E001000           *)
(* (v_devices/vdev_gic2_dist.c) and the physical distributor it drives       *)
(* (devices/dev_gic2_dist.c), shared by all VMs.  A guest reaches it by      *)
(* trapped loads and stores, so each access is one atomic step.             *)
(*                                                                         *)
(* dev_gic2_dist_enable_irq computes 1 << irq for irq = 32 .. 63, which C    *)
(* leaves undefined for a 32-bit int.  The variable shift is the outcome the *)
(* compiled code has: "zero" (a register shift on ARM) or "wrap" (the shift  *)
(* count modulo 32, which is what the code needs).                          *)
(*                                                                         *)
(* The type register announces 64 interrupts and virq[] has 64 entries, but *)
(* the enable registers of 1024 interrupts are accepted.  A bit stored past *)
(* the table changes what follows it in memory (the pointer sys_gic_dist,    *)
(* the guest's other virtual devices, the next entry of vm[]) and takes a    *)
(* word found there as the physical interrupt.  From then on, wild, nothing  *)
(* is known of the tables and the hardware.                                 *)
(***************************************************************************)
EXTENDS Integers, FiniteSets

CONSTANTS NumVM,     \* entries of vm[]
          Words,     \* the registers of 32 enable bits that guests write
          Data,      \* the interrupt ids whose bits guests set in such a word
          Outcomes   \* what a store past virq[] may leave in en, virq_en, enabled

VM == 0 .. NumVM - 1
Vids == 0 .. 63

ASSUME NumVMAssumption == NumVM \in 1 .. 4
\* Offsets 0x100 .. 0x17C and 0x180 .. 0x1FC.
ASSUME WordsAssumption == Words \subseteq 0 .. 31
ASSUME DataAssumption  == Data \subseteq 0 .. 1023
ASSUME OutcomesAssumption ==
  Outcomes \subseteq [en : [VM -> BOOLEAN], virq_en : [VM -> SUBSET Vids],
                      enabled : SUBSET (0 .. 63)]

VARIABLES en,         \* vdev_gic_dist.en of each VM
          virq_en,    \* the ids whose virq[].en is set, per VM
          enabled,    \* interrupts the physical distributor forwards
          shift,      \* what 1 << irq is for irq >= 32
          wild,       \* a bit past virq[] has been stored
          halt

vars == <<en, virq_en, enabled, shift, wild, halt>>

\* virq[vid].pid after guest_rpb_init_virq.
virq_pid(v, vid) ==
  CASE vid = 44 -> 40 + v
    [] vid = 36 -> 44 + v
    [] vid = 37 -> 48 + v
    [] OTHER    -> -1

\* The physical interrupts of a set of virtual ones.
pids(v, D) == {virq_pid(v, d) : d \in D} \ {-1}

\* The interrupts whose enable bit a call for irq really writes.
written(irq) == IF irq <= 31 \/ shift = "wrap" THEN {irq} ELSE {}

dev_gic2_dist_enable_irq(irqs) == enabled' = enabled \cup UNION {written(i) : i \in irqs}

\* Writes the enable register again.
dev_gic2_dist_disable_irq_bug(irqs) == dev_gic2_dist_enable_irq(irqs)

dev_gic2_dist_disable_irq(irqs) == enabled' = enabled \ UNION {written(i) : i \in irqs}

\* Offset 0x0: both groups at once are not implemented.
write_ctlr(v, group0_en, group1_en) ==
  /\ ~halt
  /\ halt' = (group0_en /\ group1_en)
  /\ en' = IF group0_en /\ group1_en THEN en ELSE [en EXCEPT ![v] = group0_en \/ group1_en]
  /\ UNCHANGED <<virq_en, enabled, shift, wild>>

\* The bits a guest can set in word n.
Bits(n) == SUBSET {d \in Data : d \div 32 = n}

\* A store to virq[64] or further on: any outcome, and the program may stop.
Beyond ==
  /\ wild' = TRUE
  /\ \E o \in Outcomes : en' = o.en /\ virq_en' = o.virq_en /\ enabled' = o.enabled
  /\ halt' \in BOOLEAN
  /\ UNCHANGED shift

\* Every VM's forwarding of the virtual id is switched.
write_isenabler_bug(v, D) ==
  /\ ~halt
  /\ IF D \subseteq Vids
     THEN /\ virq_en' = [virq_en EXCEPT ![v] = @ \cup D]
          /\ dev_gic2_dist_enable_irq(UNION {pids(w, D) : w \in VM})
          /\ UNCHANGED <<en, shift, wild, halt>>
     ELSE Beyond

\* 0x100 .. 0x17C: set the enable flags, forward the mapped ones.
write_isenabler(v, D) ==
  /\ ~halt
  /\ IF D \subseteq Vids
     THEN /\ virq_en' = [virq_en EXCEPT ![v] = @ \cup D]
          /\ dev_gic2_dist_enable_irq(pids(v, D))
          /\ UNCHANGED <<en, shift, wild, halt>>
     ELSE Beyond

\* 0x180 .. 0x1FC: clear them.
write_icenabler(v, D) ==
  /\ ~halt
  /\ IF D \subseteq Vids
     THEN /\ virq_en' = [virq_en EXCEPT ![v] = @ \ D]
          /\ dev_gic2_dist_disable_irq(pids(v, D))
          /\ UNCHANGED <<en, shift, wild, halt>>
     ELSE Beyond

\* After such a store, any access works on tables that may have been changed.
Damaged == ~halt /\ wild /\ Beyond

\* 0x800 .. 0x8F8: targets are only logged; the read-only words stop everything.
write_itargetsr(n) ==
  /\ ~halt
  /\ halt' = (n <= 7)
  /\ UNCHANGED <<en, virq_en, enabled, shift, wild>>

\* 0xF00: a software interrupt is not implemented, unless it is for no CPU.
write_sgir(target_list_filter, to_cpu0) ==
  /\ ~halt
  /\ halt' = (target_list_filter # 0 \/ to_cpu0)
  /\ UNCHANGED <<en, virq_en, enabled, shift, wild>>

\* Reading the type register, and writing group, priority or configuration.
ignored == ~halt /\ UNCHANGED vars

\* Any other access.
access_error ==
  /\ ~halt
  /\ halt' = TRUE
  /\ UNCHANGED <<en, virq_en, enabled, shift, wild>>

Exited == halt /\ UNCHANGED vars

\* vdev_gic2_dist_init for every VM; nothing enabled in the hardware.
Init ==
  /\ en = [v \in VM |-> FALSE]
  /\ virq_en = [v \in VM |-> {}]
  /\ enabled = {}
  /\ shift \in {"zero", "wrap"}
  /\ wild = FALSE
  /\ halt = FALSE

Write(v) ==
  \/ \E g0, g1 \in BOOLEAN : write_ctlr(v, g0, g1)
  \/ \E n \in Words : \E D \in Bits(n) : write_isenabler(v, D) \/ write_icenabler(v, D)

Next ==
  \/ \E v \in VM : Write(v)
  \/ \E n \in {0, 7, 8} : write_itargetsr(n)
  \/ \E f \in 0 .. 3, c \in BOOLEAN : write_sgir(f, c)
  \/ ignored
  \/ access_error
  \/ Damaged
  \/ Exited

Spec == Init /\ [][Next]_vars

(***************************************************************************)
(* Properties.                                                             *)
(***************************************************************************)
TypeOK ==
  /\ en \in [VM -> BOOLEAN]
  /\ virq_en \in [VM -> SUBSET Vids]
  /\ enabled \subseteq 0 .. 63
  /\ shift \in {"zero", "wrap"}
  /\ wild \in BOOLEAN
  /\ halt \in BOOLEAN

\* The physical distributor is shared.  As long as no guest has stored a bit
\* past the 64 interrupts of virq[], an access switches no interrupt of another
\* VM or of the hypervisor: whenever forwarding of an interrupt changes, the
\* flags of exactly the VM it belongs to change with it.  (After such a store
\* nothing is claimed: the code has no check against it.)
OwnForwarding ==
  [][~wild' =>
       \A i \in (enabled \ enabled') \cup (enabled' \ enabled) :
         \E v \in VM, d \in Vids :
           /\ virq_pid(v, d) = i
           /\ (d \in virq_en[v]) # (d \in virq_en'[v])]_vars

\* If the shift wraps, and as long as no bit past virq[] was stored, the
\* physical distributor forwards exactly the mapped interrupts that their guests
\* have enabled, after any sequence of accesses by all the guests.
ForwardingExact ==
  ~wild /\ shift = "wrap" => enabled = UNION {pids(v, virq_en[v]) : v \in VM}

\* "enable virq forward, vid = %d, pid = %d" (vdev_gic2_dist.c): an enabled
\* virtual interrupt is forwarded by the physical distributor.
ForwardingFollows ==
  ~wild => \A v \in VM : pids(v, virq_en[v]) \subseteq enabled
=============================================================================

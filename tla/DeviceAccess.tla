---------------------------- MODULE DeviceAccess ----------------------------
(***************************************************************************)
(* A guest's load or store to an emulated device: the second half of         *)
(* guest_rpb_hyp_trap_dabort_handler decodes the trapped instruction and     *)
(* moves a word between the trap's stack frame and one of the four virtual   *)
(* devices of the VM (system registers, system controller, timer 2, GIC      *)
(* distributor).  The distributor is VGicDist.                              *)
(***************************************************************************)
EXTENDS VGicDist, StackFrame

CONSTANTS Regs,          \* the registers guests use in such instructions
          Values,        \* what they keep in them, and what the counters show
          Accesses,      \* <<instruction, address>>: a 32-bit word, <<page, offset>>
          TimerOutcomes  \* what a store past virq[] may leave in the timers

B == INSTANCE BitOpt

ASSUME RegsAssumption   == Regs \subseteq FrameRegs
ASSUME ValuesAssumption == Values \subseteq B!Word /\ {} \in Values
\* Outside the two RAM windows, which the first half of the handler takes.
ASSUME AccessesAssumption ==
  \A a \in Accesses :
    a[1] \in B!Word /\ a[2][1] \in 32769 .. 458751 /\ a[2][2] \in 0 .. 4095
ASSUME TimerOutcomesAssumption ==
  TimerOutcomes \subseteq [VM -> [load : [0 .. 1 -> B!Word], value : [0 .. 1 -> B!Word]]]

VARIABLES vtimer,    \* vdev_timer_2 of each VM
          r,         \* r0-r12 and lr of the VM on the CPU
          trap       \* what it has trapped on: its vm_id, instruction and address

distVars == <<en, virq_en, enabled, shift, wild>>
accVars  == <<vtimer, r, trap>>
allVars  == <<distVars, halt, accVars>>

NoTrap == [vm |-> -1, inst |-> {}, ipa |-> <<0, 0>>]

(***************************************************************************)
(* The instruction.                                                        *)
(***************************************************************************)
is(i, msb, lsb, n) == B!get_field(i, msb, lsb) = B!Bits(n)

ldr_imm(i)  == is(i, 27, 25, 2) /\ is(i, 22, 22, 0) /\ is(i, 20, 20, 1)
ldr_ltrl(i) == is(i, 27, 24, 5) /\ is(i, 22, 16, 31)
ldr_reg(i)  == is(i, 27, 25, 3) /\ is(i, 22, 22, 0) /\ is(i, 20, 20, 1) /\ is(i, 4, 4, 0)
str_imm(i)  == is(i, 27, 25, 2) /\ is(i, 22, 22, 0) /\ is(i, 20, 20, 0)
str_reg(i)  == is(i, 27, 25, 3) /\ is(i, 22, 22, 0) /\ is(i, 20, 20, 0) /\ is(i, 4, 4, 0)

\* The chain of conditions, in its order.
decode(i) ==
  IF ldr_imm(i)                     THEN "load"
  ELSE IF ldr_ltrl(i) \/ ldr_reg(i) THEN "error"
  ELSE IF str_imm(i) \/ str_reg(i)  THEN "store"
  ELSE "error"

rt(i) == CHOOSE n \in 0 .. 15 : is(i, 15, 12, n)

(***************************************************************************)
(* The devices.  "error" offsets print and exit.                            *)
(***************************************************************************)
ReadOffsets(page) ==
  CASE page = 65536  -> {36, 92}                                \* 0x10000000: 0x24, 0x5C
    [] page = 65537  -> {0} \cup {4064 + 4 * k : k \in 0 .. 7}  \* 0x10001000: 0xFE0 ..
    [] page = 65554  -> {0, 4, 32, 36}                          \* 0x10012000
    [] page = 122881 -> {4}                                     \* 0x1E001000
    [] OTHER         -> {}

\* Where vdev_gic2_dist_write and the other devices accept a store.
WriteOffsets(page) ==
  CASE page = 65537  -> {0}
    [] page = 65554  -> {0, 4, 8, 12, 32, 36, 40, 44}
    [] page = 122881 -> {0, 128} \cup (256 .. 380) \cup (384 .. 508) \cup (1024 .. 2040)
                        \cup (2048 .. 2296) \cup (3072 .. 3324) \cup {3840}
    [] OTHER         -> {}

\* dev_sys_ctrl_100counter and dev_sys_ctrl_24Mcounter: whatever the board shows.
vdev_rpb_sysreg_read == Values

vdev_rpb_sysctrl_read(offset) ==
  IF offset = 0 THEN {}
  ELSE B!Bits(<<128, 17, 4, 0, 13, 240, 5, 177>>[(offset - 4064) \div 4 + 1])

vdev_timer_read(t, offset) ==
  CASE offset = 0  -> t.load[0]
    [] offset = 4  -> t.value[0]
    [] offset = 32 -> t.load[1]
    [] offset = 36 -> t.value[1]

\* The other registers are ignored.
vdev_timer_write(t, offset, data) ==
  CASE offset = 0  -> [t EXCEPT !.load[0] = data, !.value[0] = data]
    [] offset = 32 -> [t EXCEPT !.load[1] = data, !.value[1] = data]
    [] OTHER       -> t

vdev_gic2_dist_read == (11 .. 15) \cup {10, 5, 0}

\* The words the addressed device of VM v may answer.
device_read(v, pg, offset) ==
  CASE pg = 65536  -> vdev_rpb_sysreg_read
    [] pg = 65537  -> {vdev_rpb_sysctrl_read(offset)}
    [] pg = 65554  -> {vdev_timer_read(vtimer[v], offset)}
    [] pg = 122881 -> {vdev_gic2_dist_read}

\* The ids of the bits set in word n.
ids(n, data) == {32 * n + b : b \in data}

vdev_gic2_dist_write(v, offset, data) ==
  CASE offset = 0 -> write_ctlr(v, 0 \in data, 1 \in data)
    [] offset \in 256 .. 380 -> write_isenabler(v, ids((offset - 256) \div 4, data))
    [] offset \in 384 .. 508 -> write_icenabler(v, ids((offset - 384) \div 4, data))
    [] offset \in 2048 .. 2296 -> write_itargetsr((offset - 2048) \div 4)
    [] offset = 3840 -> write_sgir(CHOOSE n \in 0 .. 3 : is(data, 25, 24, n), 16 \in data)
    [] OTHER -> UNCHANGED <<distVars, halt>>

(***************************************************************************)
(* Actions.                                                                *)
(***************************************************************************)
\* Some VM, with anything in its registers, executes an access that traps.
GuestAccess(v, i, ipa, regs) ==
  /\ ~halt
  /\ trap = NoTrap
  /\ trap' = [vm |-> v, inst |-> i, ipa |-> ipa]
  /\ r' = regs
  /\ UNCHANGED <<distVars, halt, vtimer>>

Trapped == ~halt /\ trap # NoTrap
page   == trap.ipa[1]
offs   == trap.ipa[2]

\* A load: the device's word goes into rt of the frame, which is popped.
trap_load ==
  /\ Trapped
  /\ decode(trap.inst) = "load"
  /\ offs \in ReadOffsets(page)
  /\ ~no_offset(rt(trap.inst))
  /\ \E w \in device_read(trap.vm, page, offs) :
       r' = pop(write_reg_to_stack(push(r), rt(trap.inst), w))
  /\ trap' = NoTrap
  /\ UNCHANGED <<distVars, halt, vtimer>>

\* The store goes to the devices of VM 0.
trap_store_bug ==
  /\ Trapped
  /\ decode(trap.inst) = "store"
  /\ offs \in WriteOffsets(page)
  /\ ~no_offset(rt(trap.inst))
  /\ LET data == read_reg_from_stack(push(r), rt(trap.inst))
     IN  /\ IF page = 122881
            THEN vdev_gic2_dist_write(0, offs, data)
            ELSE UNCHANGED <<distVars, halt>>
         /\ IF page = 65554
            THEN vtimer' = [vtimer EXCEPT ![0] = vdev_timer_write(@, offs, data)]
            ELSE IF wild' THEN vtimer' \in TimerOutcomes ELSE UNCHANGED vtimer
  /\ trap' = NoTrap
  /\ UNCHANGED r

\* A store: rt is read from the frame and given to the device.
trap_store ==
  /\ Trapped
  /\ decode(trap.inst) = "store"
  /\ offs \in WriteOffsets(page)
  /\ ~no_offset(rt(trap.inst))
  /\ LET data == read_reg_from_stack(push(r), rt(trap.inst))
     IN  /\ IF page = 122881
            THEN vdev_gic2_dist_write(trap.vm, offs, data)
            ELSE UNCHANGED <<distVars, halt>>
         /\ IF page = 65554
            THEN vtimer' = [vtimer EXCEPT ![trap.vm] = vdev_timer_write(@, offs, data)]
            ELSE IF wild' THEN vtimer' \in TimerOutcomes ELSE UNCHANGED vtimer
  /\ trap' = NoTrap
  /\ UNCHANGED r

\* The instruction, the address, the offset or rt is not handled: printbi.
trap_error ==
  /\ Trapped
  /\ \/ decode(trap.inst) = "error"
     \/ decode(trap.inst) = "load" /\ offs \notin ReadOffsets(page)
     \/ decode(trap.inst) = "store" /\ offs \notin WriteOffsets(page)
     \/ no_offset(rt(trap.inst))
  /\ halt' = TRUE
  /\ UNCHANGED <<distVars, vtimer, r, trap>>

\* The devices after a store past virq[].
devices_damaged == Damaged /\ vtimer' \in TimerOutcomes /\ UNCHANGED <<r, trap>>

Ended == halt /\ UNCHANGED allVars

\* vdev_timer_init, guest_rpb_init.
DInit ==
  /\ Init
  /\ vtimer = [v \in VM |-> [load |-> [k \in 0 .. 1 |-> {}], value |-> [k \in 0 .. 1 |-> {}]]]
  /\ r = [n \in FrameRegs |-> {}]
  /\ trap = NoTrap

\* Register files in which the registers of Regs differ from one another.
RegFiles == {[n \in FrameRegs |-> IF n \in Regs THEN f[n] ELSE {}] :
               f \in {g \in [Regs -> Values] : \A m, n \in Regs : g[m] = g[n] => m = n}}

GuestAccesses(vms, accesses) ==
  \E v \in vms, a \in accesses, regs \in RegFiles : GuestAccess(v, a[1], a[2], regs)

Handler == trap_load \/ trap_store \/ trap_error \/ devices_damaged \/ Ended

DNext == GuestAccesses(VM, Accesses) \/ Handler

DSpec == DInit /\ [][DNext]_allVars

(***************************************************************************)
(* Properties.                                                             *)
(***************************************************************************)
(* What the instruction means on the machine the guest believes it runs on,  *)
(* from the encoding of the architecture (LDR and STR, A1).                 *)
SingleTransfer(i) == is(i, 27, 26, 1) /\ (is(i, 25, 25, 0) \/ is(i, 4, 4, 0))
ByteTransfer(i)   == is(i, 22, 22, 1)
Loads(i)          == is(i, 20, 20, 1)

\* The device register a timer address names: SP804 has two equal channels.
TimerRegister(t, offset) ==
  IF offset % 32 = 0 THEN t.load[offset \div 32] ELSE t.value[offset \div 32]

\* The enable flag of interrupt d after a store of w to the GIC distributor: word
\* d \div 32 of the set-enable registers (0x100) sets it by a one, that of the
\* clear-enable registers (0x180) clears it, any other store leaves it.
FlagAfter(flag, d, offset, w) ==
  CASE offset \div 4 = 64 + d \div 32 -> flag \/ d % 32 \in w
    [] offset \div 4 = 96 + d \div 32 -> flag /\ d % 32 \notin w
    [] OTHER                          -> flag

\* An access that the hypervisor completes had the effect of the instruction
\* the guest executed and no other: a single word, a load of what the addressed
\* device answers into exactly the register it names, a store of exactly the
\* register it names, to the devices of the VM that executed it, and there to
\* the addressed enable flags or timer channel only.  This as long as no guest has
\* stored a bit past virq[].  (Timer 2's page traps only with a page table that
\* does not map it; both initialisations of the tables map it.  Not looked at: the
\* update of the base register by pre- and post-indexed forms.)
AccessExact ==
  [][(trap # NoTrap /\ ~halt' /\ ~wild') =>
       /\ SingleTransfer(trap.inst)
       /\ ~ByteTransfer(trap.inst)
       /\ IF Loads(trap.inst)
          THEN /\ \A n \in FrameRegs \ {rt(trap.inst)} : r'[n] = r[n]
               /\ r'[rt(trap.inst)] \in device_read(trap.vm, page, offs)
               /\ page = 65554 =>
                    r'[rt(trap.inst)] = TimerRegister(vtimer[trap.vm], offs)
               /\ UNCHANGED <<distVars, vtimer>>
          ELSE /\ UNCHANGED r
               /\ \A v \in VM \ {trap.vm} :
                    vtimer'[v] = vtimer[v] /\ en'[v] = en[v] /\ virq_en'[v] = virq_en[v]
               /\ page = 122881 => \A d \in Vids :
                    (d \in virq_en'[trap.vm]) <=>
                      FlagAfter(d \in virq_en[trap.vm], d, offs, r[rt(trap.inst)])
               /\ (page = 65554 /\ offs % 32 = 0) =>
                    TimerRegister(vtimer'[trap.vm], offs) = r[rt(trap.inst)]
               /\ page = 65554 => \A o \in {0, 4, 32, 36} :
                    (o \div 32 # offs \div 32 \/ offs % 32 # 0) =>
                      TimerRegister(vtimer'[trap.vm], o) = TimerRegister(vtimer[trap.vm], o)]_allVars
=============================================================================

----------------------------- MODULE Hypervisor -----------------------------
(***************************************************************************)
(* The core of the CASL ("meteor") hypervisor: one CPU, NumVM guests, the   *)
(* exception handlers of vmm/exception_handler.c, the round-robin scheduler *)
(* of vmm/scheduler.c, the world switch of guests/guest.c and the injection *)
(* of interrupts into list registers of guests/guest_rpb.c.                 *)
(*                                                                         *)
(* Every handler runs with interrupts masked (boot/vector.s, cpsid aif) and *)
(* on a stack that is reset at entry, so a handler is one atomic action.    *)
(* What interleaves is the guest on the CPU, the devices, the 30 ms timer   *)
(* and the order in which the interrupt controller presents interrupts.     *)
(*                                                                         *)
(* Register contents are tagged values [own, n]: the VM that produced them  *)
(* and a small version number.  A context switch that loses, mixes up or    *)
(* duplicates state shows as a wrong tag.                                   *)
(*                                                                         *)
(* Operators whose name ends in _bug are faulty variants of the definition  *)
(* after them; they are not part of the specification and serve to show     *)
(* that the properties notice such a fault.                                 *)
(***************************************************************************)
EXTENDS Integers, FiniteSets

CONSTANTS NumVM,     \* entries of vm[] (4 in meteor_global_state.c)
          NumLR,     \* list registers of the GIC virtual interface (64)
          Pids,      \* the guests' physical interrupt ids that devices raise
          PcMod,     \* program counters are 0 .. PcMod-1, one per instruction
          Code,      \* the instructions a guest may find at each program counter
          DataMod,   \* versions of register contents are 0 .. DataMod-1
          Slice      \* timer ticks of one time slice (30 ms)

VM    == 0 .. NumVM - 1
LRs   == 0 .. NumLR - 1
Idle  == -1          \* tag of the idle thread's registers
TimerPid == 34       \* the hypervisor's own timer

ASSUME NumVMAssumption   == NumVM \in 1 .. 4
ASSUME NumLRAssumption   == NumLR \in Nat \ {0}
ASSUME ModAssumption     == PcMod \in Nat \ {0} /\ DataMod \in Nat \ {0}
ASSUME CodeAssumption    ==
  Code \in [0 .. PcMod - 1 -> SUBSET {"run", "ram", "wfi", "cp", "hvc", "load", "store", "bad"}]
ASSUME SliceAssumption   == Slice \in Nat \ {0}
\* Only the three devices of each VM are wired (main.c: 40+v, 44+v, 48+v).
ASSUME PidsAssumption    ==
  \A p \in Pids : \E v \in VM : p \in {40 + v, 44 + v, 48 + v}

VARIABLES vm_id,           \* the VM the hypervisor believes is on the CPU
          scheduler_idle,  \* static bool of scheduler.c
          wfi_state,       \* vm[v].sched.wfi_state
          bk,              \* vm[v].bk: dirty flag and saved context
          cpu,             \* the hardware registers, as the next handler
                           \* (or the guest) will find them
          timer,           \* ticks left before the timer raises TimerPid
          pend,            \* interrupts pending at the physical GIC
          act,             \* guest interrupts active at the physical GIC
          halt,            \* "no", or why printb()/exit() stopped everything:
                           \* an assertion of its own, or any other printb
          waits            \* history: switches a runnable VM has waited for

schedVars == <<vm_id, scheduler_idle, wfi_state, bk, cpu, timer, waits>>
vars      == <<schedVars, pend, act, halt>>

(***************************************************************************)
(* Interrupt routing.                                                      *)
(***************************************************************************)
\* A case label of the switch in the wrong group.
irq_target_bug(pid) ==
  CASE pid \in {40, 48}         -> 0
    [] pid \in {41, 44, 45, 49} -> 1
    [] pid \in {42, 46, 50}     -> 2
    [] pid \in {43, 47, 51}     -> 3

\* The switch of irq_handler.
irq_target(pid) ==
  CASE pid \in {40, 44, 48} -> 0
    [] pid \in {41, 45, 49} -> 1
    [] pid \in {42, 46, 50} -> 2
    [] pid \in {43, 47, 51} -> 3

\* virq[vid].pid of VM v, as main() sets it: uart 44, timer_0 36, timer_2 37.
virq_pid(v, vid) ==
  CASE vid = 44 -> 40 + v
    [] vid = 36 -> 44 + v
    [] vid = 37 -> 48 + v
    [] OTHER    -> -1

vdev_gic2_dist_irq_to_virq(v, pid) ==
  IF \E vid \in 0 .. 63 : virq_pid(v, vid) = pid
  THEN CHOOSE vid \in 0 .. 63 : virq_pid(v, vid) = pid
  ELSE -1

(***************************************************************************)
(* Contexts.                                                               *)
(***************************************************************************)
Reg(o, k)  == [own |-> o, n |-> k]
PcInc(r)   == Reg(r.own, IF r.n = PcMod - 1 THEN 0 ELSE r.n + 1)
PcDec(r)   == Reg(r.own, IF r.n = 0 THEN PcMod - 1 ELSE r.n - 1)
DataInc(r) == Reg(r.own, IF r.n = DataMod - 1 THEN 0 ELSE r.n + 1)

\* A list register; an invalid one keeps nothing that the code reads.
EmptyLR == [state |-> "LR_Invalid", pid |-> 0, vid |-> 0]

Regs   == [own : VM \cup {Idle}, n : Nat]
LRType == [state : {"LR_Invalid", "LR_Pending", "LR_Active"}, pid : Int, vid : Int]

\* What a switch saves: the register file (r0-r12 and lr from the stack frame,
\* the banked registers, elr/spsr_hyp), the CP15 registers, GICV_CTLR and the
\* list registers.
Context == [rf   : [usr : Regs, bank : Regs, elr : Regs],
            cp15 : [sys : Regs, vttbr : [base : VM, vmid : VM]],
            ctlr : Regs,
            list : [LRs -> LRType]]

Backup == [dirty : BOOLEAN,
           rf    : [usr : Regs, bank : Regs, elr : Regs],
           cp15  : [sys : Regs, vttbr : [base : VM, vmid : VM]],
           ctlr  : Regs,
           list  : [LRs -> LRType]]

(***************************************************************************)
(* guests/guest.c: the world switch.                                       *)
(***************************************************************************)
guest_backup_rf(hw) ==
  [usr |-> hw.rf.usr, bank |-> hw.rf.bank, elr |-> hw.rf.elr]

guest_restore_rf(b) ==
  [usr |-> b.rf.usr, bank |-> b.rf.bank, elr |-> b.rf.elr]

guest_backup_cp15(hw) == [sys |-> hw.cp15.sys, vttbr |-> hw.cp15.vttbr]

guest_restore_cp15(b) == [sys |-> b.cp15.sys, vttbr |-> b.cp15.vttbr]

guest_backup_gic2_vcpu_if(hw) == hw.ctlr

guest_restore_gic2_vcpu_if(b) == b.ctlr

guest_backup_list(hw) == [i \in LRs |-> hw.list[i]]

guest_restore_list(b) == [i \in LRs |-> b.list[i]]

\* The dirty flag is not cleared.
guest_suspend_bug(b, hw) ==
  [dirty |-> b.dirty,
   rf    |-> IF b.dirty THEN guest_backup_rf(hw) ELSE b.rf,
   cp15  |-> IF b.dirty THEN guest_backup_cp15(hw) ELSE b.cp15,
   ctlr  |-> IF b.dirty THEN guest_backup_gic2_vcpu_if(hw) ELSE b.ctlr,
   list  |-> IF b.dirty THEN guest_backup_list(hw) ELSE b.list]

\* The new vm->bk; the backup is taken only when it is dirty.
guest_suspend(b, hw) ==
  IF b.dirty
  THEN [dirty |-> FALSE,
        rf    |-> guest_backup_rf(hw),
        cp15  |-> guest_backup_cp15(hw),
        ctlr  |-> guest_backup_gic2_vcpu_if(hw),
        list  |-> guest_backup_list(hw)]
  ELSE b

\* VTTBR keeps the VMID that was saved (zero before the first run).
guest_restore_bug(v, b) ==
  [rf   |-> guest_restore_rf(b),
   cp15 |-> guest_restore_cp15(b),
   ctlr |-> guest_restore_gic2_vcpu_if(b),
   list |-> guest_restore_list(b)]

\* The hardware state after guest_restore of VM v with a clean backup b: the
\* saved context, then the VMID field of VTTBR rewritten.
guest_restore(v, b) ==
  [rf   |-> guest_restore_rf(b),
   cp15 |-> [sys   |-> guest_restore_cp15(b).sys,
             vttbr |-> [base |-> guest_restore_cp15(b).vttbr.base, vmid |-> v]],
   ctlr |-> guest_restore_gic2_vcpu_if(b),
   list |-> guest_restore_list(b)]

(***************************************************************************)
(* vmm/scheduler.c.                                                        *)
(***************************************************************************)
\* The search starts at the VM that is already running.
ring_bug(v, i) == IF v + i - 1 >= NumVM THEN v + i - 1 - NumVM ELSE v + i - 1

\* next_vm_id after i increments from v, wrapping at vm_count.
ring(v, i) == IF v + i >= NumVM THEN v + i - NumVM ELSE v + i

\* scheduler_reset_timer: the load register is rewritten; an expiry that is
\* already pending at the GIC is not withdrawn.
scheduler_reset_timer == timer' = Slice

\* A woken VM stays marked WFI_PendingIRQ.
leave_wfi_bug(w, next) == w

\* "leaving from wfi": WFI_PendingIRQ becomes WFI_Out.
leave_wfi(w, next) ==
  [w EXCEPT ![next] = IF w[next] = "WFI_PendingIRQ" THEN "WFI_Out" ELSE w[next]]

\* History only: how often each VM that could run has been passed over.
CountWaits(next, w) ==
  waits' = [v \in VM |-> IF v = next \/ w[v] = "WFI_In" THEN 0 ELSE waits[v] + 1]

\* The body of the loop once a VM is found.  A dirty backup of the VM to be
\* restored is an assertion failure: printbi exits.
vm_switch(next, w, b, hw) ==
  LET susp == [b EXCEPT ![vm_id] = guest_suspend(b[vm_id], hw)]
  IN  IF susp[next].dirty
      THEN /\ halt' = "restore dirty backup"
           /\ UNCHANGED schedVars
      ELSE /\ wfi_state' = leave_wfi(w, next)
           /\ bk' = [susp EXCEPT ![next].dirty = TRUE]
           /\ cpu' = guest_restore(next, susp[next])
           /\ vm_id' = next
           /\ scheduler_reset_timer
           /\ scheduler_idle' = FALSE
           /\ CountWaits(next, w)
           /\ UNCHANGED halt

\* idle_thread() spins in hyp mode with interrupts enabled: the next handler
\* finds its registers in the stack frame and its address in elr_hyp.
idle_thread(hw) == [hw EXCEPT !.rf.usr = Reg(Idle, 0), !.rf.elr = Reg(Idle, 0)]

\* Nothing to switch to: suspend and enter the idle thread, never to return.
go_idle(w, b, hw) ==
  /\ bk' = [b EXCEPT ![vm_id] = guest_suspend(b[vm_id], hw)]
  /\ cpu' = idle_thread(hw)
  /\ wfi_state' = w
  /\ scheduler_reset_timer
  /\ scheduler_idle' = TRUE
  /\ waits' = [v \in VM |-> 0]
  /\ UNCHANGED <<vm_id, halt>>

\* scheduler_rr, called with the states a handler has already changed: the
\* first VM after vm_id, in ring order, that is not in WFI; vm_id comes last.
scheduler(w, b, hw) ==
  \/ \E i \in 1 .. NumVM :
       /\ w[ring(vm_id, i)] # "WFI_In"
       /\ \A j \in 1 .. i - 1 : w[ring(vm_id, j)] = "WFI_In"
       /\ vm_switch(ring(vm_id, i), w, b, hw)
  \/ /\ \A v \in VM : w[v] = "WFI_In"
     /\ go_idle(w, b, hw)

(***************************************************************************)
(* The guest on the CPU.  Which code runs after eret is decided by the      *)
(* hardware (elr_hyp), not by vm_id.                                        *)
(***************************************************************************)
Running       == cpu.rf.elr.own
GuestRuns     == halt = "no" /\ Running # Idle
Executes(ins) == GuestRuns /\ ins \in Code[cpu.rf.elr.n]

\* An instruction that does not trap ("ram": its page is mapped).  It gives
\* every register of the guest a new version.
GuestExecute ==
  /\ Executes("run") \/ Executes("ram")
  /\ LET new == Reg(Running, DataInc(cpu.rf.bank).n)
     IN  cpu' = [cpu EXCEPT !.rf = [usr |-> new, bank |-> new, elr |-> PcInc(cpu.rf.elr)],
                            !.cp15.sys = new,
                            !.ctlr = new]
  /\ UNCHANGED <<vm_id, scheduler_idle, wfi_state, bk, timer, waits, pend, act, halt>>

VirqPending == \E i \in LRs : cpu.list[i].state = "LR_Pending"

\* WFI does not suspend, hence does not trap, when an interrupt is pending.
GuestWfiNoWait ==
  /\ Executes("wfi")
  /\ VirqPending
  /\ cpu' = [cpu EXCEPT !.rf.elr = PcInc(cpu.rf.elr)]
  /\ UNCHANGED <<vm_id, scheduler_idle, wfi_state, bk, timer, waits, pend, act, halt>>

\* The guest acknowledges a virtual interrupt through the virtual CPU interface.
GuestAck(i) ==
  /\ GuestRuns
  /\ cpu.list[i].state = "LR_Pending"
  /\ cpu' = [cpu EXCEPT !.list[i].state = "LR_Active"]
  /\ UNCHANGED <<vm_id, scheduler_idle, wfi_state, bk, timer, waits, pend, act, halt>>

\* ... and ends it, which also deactivates the physical interrupt.
GuestEoi(i) ==
  /\ GuestRuns
  /\ cpu.list[i].state = "LR_Active"
  /\ cpu' = [cpu EXCEPT !.list[i] = EmptyLR]
  /\ act' = act \ {cpu.list[i].pid}
  /\ UNCHANGED <<vm_id, scheduler_idle, wfi_state, bk, timer, waits, pend, halt>>

(***************************************************************************)
(* hyp_trap_handler: every trap first moves elr_hyp past the instruction.   *)
(***************************************************************************)
elr_advanced(hw) == [hw EXCEPT !.rf.elr = PcInc(hw.rf.elr)]

\* The correction by -4 is forgotten.
elr_retreated_bug(hw) == hw

\* "you have to redo this instruction", and hypervisor_call's correction.
elr_retreated(hw) == [hw EXCEPT !.rf.elr = PcDec(hw.rf.elr)]

\* ec 0x01: WFI that would suspend the CPU (HCR.TWI).
trap_wfi ==
  /\ Executes("wfi")
  /\ ~VirqPending
  /\ scheduler([wfi_state EXCEPT ![vm_id] = "WFI_In"], bk, elr_advanced(cpu))
  /\ UNCHANGED <<pend, act>>

\* ec 0x03, 0x04, 0x05: the access is ignored and skipped.
trap_cp ==
  /\ Executes("cp")
  /\ cpu' = elr_advanced(cpu)
  /\ UNCHANGED <<vm_id, scheduler_idle, wfi_state, bk, timer, waits, pend, act, halt>>

\* ec 0x12: the CPU reports the instruction after HVC, hypervisor_call undoes
\* the handler's increment.
trap_hvc ==
  /\ Executes("hvc")
  /\ cpu' = elr_retreated(elr_advanced([cpu EXCEPT !.rf.elr = PcInc(cpu.rf.elr)]))
  /\ UNCHANGED <<vm_id, scheduler_idle, wfi_state, bk, timer, waits, pend, act, halt>>

\* ec 0x24 in a RAM window: a page is allocated and the access is redone, or
\* the allocator is exhausted and printbi exits.
trap_dabort_memory ==
  /\ Executes("ram")
  /\ \/ /\ cpu' = elr_retreated(elr_advanced(cpu))
        /\ UNCHANGED halt
     \/ /\ halt' = "printb"
        /\ UNCHANGED cpu
  /\ UNCHANGED <<vm_id, scheduler_idle, wfi_state, bk, timer, waits, pend, act>>

\* A device register goes into rt of the stack frame, whence it is popped.
write_reg_to_stack(hw) ==
  [hw EXCEPT !.rf.usr = Reg(Running, DataInc(hw.rf.usr).n)]

\* ec 0x24 at a virtual device: a load writes rt in the stack frame.
trap_dabort_load ==
  /\ Executes("load")
  /\ cpu' = write_reg_to_stack(elr_advanced(cpu))
  /\ UNCHANGED <<vm_id, scheduler_idle, wfi_state, bk, timer, waits, pend, act, halt>>

\* ... a store reads rt and changes the device only.
trap_dabort_store ==
  /\ Executes("store")
  /\ cpu' = elr_advanced(cpu)
  /\ UNCHANGED <<vm_id, scheduler_idle, wfi_state, bk, timer, waits, pend, act, halt>>

\* Everything the handlers answer with printb: WFE, ec 0x25, other classes,
\* an instruction or a device address that is not emulated.
trap_error ==
  /\ Executes("bad")
  /\ halt' = "printb"
  /\ UNCHANGED <<schedVars, pend, act>>

(***************************************************************************)
(* irq_handler.                                                            *)
(***************************************************************************)
\* The timer schedules only from the idle thread, as device interrupts do.
irq_timer_bug ==
  /\ halt = "no"
  /\ TimerPid \in pend
  /\ pend' = pend \ {TimerPid}
  /\ IF scheduler_idle THEN scheduler(wfi_state, bk, cpu) ELSE UNCHANGED <<schedVars, halt>>
  /\ UNCHANGED act

\* The time slice is over, or the idle thread has spun for one.
irq_timer ==
  /\ halt = "no"
  /\ TimerPid \in pend
  /\ pend' = pend \ {TimerPid}
  /\ scheduler(wfi_state, bk, cpu)
  /\ UNCHANGED act

\* The condition that is commented out in the code: wrong while idling.
target_is_active_bug(t) == vm_id = t

\* "if target vm has dirty backup and not in WFI state, then it is active"
target_is_active(t) == bk[t].dirty /\ wfi_state[t] # "WFI_In"

\* The list register entry of guest_rpb_irq_handler(_suspend).
pending_lr(t, pid) ==
  [state |-> "LR_Pending", pid |-> pid, vid |-> vdev_gic2_dist_irq_to_virq(t, pid)]

FirstInvalid(l, i) ==
  /\ l[i].state = "LR_Invalid"
  /\ \A j \in LRs : j < i => l[j].state # "LR_Invalid"

\* The sleeping target is not made schedulable.
woken_bug(t) == wfi_state

woken(t) ==
  IF wfi_state[t] = "WFI_In" THEN [wfi_state EXCEPT ![t] = "WFI_PendingIRQ"]
                             ELSE wfi_state

\* An interrupt of VM t: into the first invalid hardware list register when t
\* is on the CPU, into its saved list otherwise; a sleeping t becomes
\* schedulable, and an idle hypervisor schedules at once.
inject(t, pid, i) ==
  LET l  == IF target_is_active(t) THEN cpu.list ELSE bk[t].list
      l2 == [l EXCEPT ![i] = pending_lr(t, pid)]
      hw == IF target_is_active(t) THEN [cpu EXCEPT !.list = l2] ELSE cpu
      b  == IF target_is_active(t) THEN bk ELSE [bk EXCEPT ![t].list = l2]
  IN  /\ FirstInvalid(l, i)
      /\ IF scheduler_idle
         THEN scheduler(woken(t), b, hw)
         ELSE /\ wfi_state' = woken(t)
              /\ bk' = b
              /\ cpu' = hw
              /\ UNCHANGED <<vm_id, scheduler_idle, timer, waits, halt>>

\* The two assertions on the way: no virtual id, or no empty list register.
inject_failure(t, pid) ==
  IF vdev_gic2_dist_irq_to_virq(t, pid) = -1
  THEN "virtual interrupt not imple."
  ELSE IF \A i \in LRs : (IF target_is_active(t) THEN cpu.list ELSE bk[t].list)[i].state
                          # "LR_Invalid"
       THEN "no empty list register"
       ELSE "no"

irq_device(pid) ==
  /\ halt = "no"
  /\ pid \in pend \ act
  /\ pend' = pend \ {pid}
  /\ act' = act \cup {pid}
  /\ IF inject_failure(irq_target(pid), pid) # "no"
     THEN /\ halt' = inject_failure(irq_target(pid), pid)
          /\ UNCHANGED schedVars
     ELSE \E i \in LRs : inject(irq_target(pid), pid, i)

\* 1023: the interrupt was withdrawn before the acknowledge; nothing happens.
irq_spurious ==
  /\ halt = "no"
  /\ UNCHANGED vars

\* An id nobody owns stops the hypervisor.
irq_unknown ==
  /\ halt = "no"
  /\ halt' = "printb"
  /\ UNCHANGED <<schedVars, pend, act>>

(***************************************************************************)
(* Devices and the end of the program.                                     *)
(***************************************************************************)
Raise(pid) ==
  /\ halt = "no"
  /\ pid \notin pend
  /\ pend' = pend \cup {pid}
  /\ UNCHANGED <<schedVars, act, halt>>

\* The timer does not reload.
Tick_bug ==
  /\ halt = "no"
  /\ timer' = timer - 1
  /\ pend' = IF timer = 1 THEN pend \cup {TimerPid} ELSE pend
  /\ UNCHANGED <<vm_id, scheduler_idle, wfi_state, bk, cpu, waits, act, halt>>

\* sys_timer counts down; at the end it raises its interrupt and reloads
\* (TimerMode_Period).
Tick ==
  /\ halt = "no"
  /\ timer' = IF timer = 1 THEN Slice ELSE timer - 1
  /\ pend' = IF timer = 1 THEN pend \cup {TimerPid} ELSE pend
  /\ UNCHANGED <<vm_id, scheduler_idle, wfi_state, bk, cpu, waits, act, halt>>

\* _exit() spins forever.
Exited ==
  /\ halt # "no"
  /\ UNCHANGED vars

(***************************************************************************)
(* The state main() hands over to VM 0 with eret: every VM initialised by   *)
(* guest_rpb_init, VM 0 restored.  VTTBR's VMID field of a VM is zero until *)
(* the first guest_restore.                                                 *)
(***************************************************************************)
guest_rpb_init(v) ==
  [dirty |-> FALSE,
   rf    |-> [usr |-> Reg(v, 0), bank |-> Reg(v, 0), elr |-> Reg(v, 0)],
   cp15  |-> [sys |-> Reg(v, 0), vttbr |-> [base |-> v, vmid |-> 0]],
   ctlr  |-> Reg(v, 0),
   list  |-> [i \in LRs |-> EmptyLR]]

Init ==
  /\ vm_id = 0
  /\ scheduler_idle = FALSE
  /\ wfi_state = [v \in VM |-> "WFI_Out"]
  /\ bk = [v \in VM |-> [guest_rpb_init(v) EXCEPT !.dirty = (v = 0)]]
  /\ cpu = guest_restore(0, guest_rpb_init(0))
  /\ timer = Slice
  /\ pend \in {{}, {TimerPid}}   \* the timer has been running since meteor_devices_init
  /\ act = {}
  /\ halt = "no"
  /\ waits = [v \in VM |-> 0]

Next ==
  \/ GuestExecute
  \/ GuestWfiNoWait
  \/ \E i \in LRs : GuestAck(i) \/ GuestEoi(i)
  \/ trap_wfi
  \/ trap_cp
  \/ trap_hvc
  \/ trap_dabort_memory
  \/ trap_dabort_load
  \/ trap_dabort_store
  \/ trap_error
  \/ irq_timer
  \/ \E pid \in Pids : irq_device(pid) \/ Raise(pid)
  \/ irq_spurious
  \/ irq_unknown
  \/ Tick
  \/ Exited

Spec == Init /\ [][Next]_vars

\* The hardware counts and presents every pending interrupt that is not
\* active; handlers terminate.  Nothing is assumed of the guests or devices.
Fairness ==
  /\ WF_vars(Tick)
  /\ WF_vars(irq_timer)
  /\ \A pid \in Pids : WF_vars(irq_device(pid))

FairSpec == Spec /\ Fairness

(***************************************************************************)
(* Properties.                                                             *)
(***************************************************************************)
TypeOK ==
  /\ vm_id \in VM
  /\ scheduler_idle \in BOOLEAN
  /\ wfi_state \in [VM -> {"WFI_Out", "WFI_In", "WFI_PendingIRQ"}]
  /\ bk \in [VM -> Backup]
  /\ cpu \in Context
  /\ timer \in 1 .. Slice
  /\ pend \subseteq Pids \cup {TimerPid}
  /\ act \subseteq Pids
  /\ halt \in {"no", "printb", "restore dirty backup",
              "virtual interrupt not imple.", "no empty list register"}
  /\ waits \in [VM -> Nat]

\* The list registers VM v would see if it ran now.
EffList(v) == IF bk[v].dirty THEN cpu.list ELSE bk[v].list

\* vm_id, scheduler_idle and the dirty flags agree with what the CPU really
\* executes: a backup is dirty exactly for the VM whose registers are live,
\* and no VM is live in the idle thread.
OwnershipConsistent ==
  /\ Running = IF scheduler_idle THEN Idle ELSE vm_id
  /\ \A v \in VM : bk[v].dirty <=> (v = vm_id /\ ~scheduler_idle)

\* The hypervisor idles only when every VM sleeps, and a VM on the CPU is not
\* marked as sleeping (irq_handler relies on both).
SleepConsistent ==
  /\ scheduler_idle => \A v \in VM : wfi_state[v] = "WFI_In"
  /\ ~scheduler_idle => wfi_state[vm_id] = "WFI_Out"

\* While a VM executes, stage-2 translation is that VM's own: its table base
\* (restored from the backup) and its VMID (written by guest_restore).
StageTwoOwned ==
  Running # Idle => cpu.cp15.vttbr = [base |-> Running, vmid |-> Running]

\* No interrupt is lost, duplicated or given to another VM: an interrupt that
\* irq_handler took from the GIC and no guest has ended yet is in exactly one
\* list register, of the VM it belongs to, under the virtual id that VM
\* expects; and list registers hold nothing else.
IrqConserved ==
  halt = "no" =>
    /\ \A p \in act : \E i \in LRs :
         /\ EffList(irq_target(p))[i].state # "LR_Invalid"
         /\ EffList(irq_target(p))[i].pid = p
    /\ \A v \in VM, i \in LRs : EffList(v)[i].state # "LR_Invalid" =>
         /\ EffList(v)[i].pid \in act
         /\ irq_target(EffList(v)[i].pid) = v
         /\ virq_pid(v, EffList(v)[i].vid) = EffList(v)[i].pid
         /\ \A j \in LRs :
              EffList(v)[j].state # "LR_Invalid" /\ EffList(v)[j].pid = EffList(v)[i].pid
                => j = i

\* No lost wake-up: a VM left in WFI_In, which the scheduler will not run, has
\* no interrupt waiting in its saved list registers.
NoLostWakeup ==
  \A v \in VM : wfi_state[v] = "WFI_In" =>
    \A i \in LRs : EffList(v)[i].state # "LR_Pending"

\* The hypervisor's own assertions are never the reason it stops: no restore
\* over a dirty backup, no interrupt without a virtual id, no full list.
AssertionsHold ==
  halt \notin {"restore dirty backup", "virtual interrupt not imple.",
              "no empty list register"}

\* Round robin: a VM that stays runnable is passed over at most once for every
\* other VM, whatever mix of WFI, timer and interrupts causes the switches.
BoundedWait == \A v \in VM : waits[v] <= NumVM - 1

\* A VM that can run is eventually given the CPU (or the hypervisor stops).
RunnableIsScheduled ==
  \A v \in VM :
    (wfi_state[v] # "WFI_In") ~> (Running = v \/ halt # "no")

\* An interrupt for a sleeping VM eventually puts that VM on the CPU with the
\* interrupt in a list register.
InterruptWakes ==
  \A p \in Pids :
    (p \in pend \ act) ~>
      (halt # "no" \/ \E i \in LRs : Running = irq_target(p) /\ cpu.list[i].pid = p)

(***************************************************************************)
(* Refinement: the machines are the guests' effective contexts.             *)
(***************************************************************************)
\* The registers of a guest in a context, on the CPU or in a backup.
SavedRegs(c) == [pc  |-> c.rf.elr, usr |-> c.rf.usr, bank |-> c.rf.bank,
                 sys |-> c.cp15.sys, ctlr |-> c.ctlr]

EffContext(v) == IF bk[v].dirty THEN SavedRegs(cpu) ELSE SavedRegs(bk[v])

\* The state of interrupt p at the VM it is routed to: that of the list
\* register that holds it.
EffIrq(p) ==
  LET held(s) == \E i \in LRs : /\ EffList(irq_target(p))[i].pid = p
                                /\ EffList(irq_target(p))[i].state = s
  IN  IF held("LR_Pending") THEN "pending"
      ELSE IF held("LR_Active") THEN "active" ELSE "inactive"

M == INSTANCE Machines WITH
       Owner  <- irq_target,
       mach   <- [v \in VM |-> EffContext(v)],
       asleep <- {v \in VM : wfi_state[v] = "WFI_In"},
       irq    <- [p \in Pids |-> EffIrq(p)],
       on     <- (halt = "no")

\* Virtualisation: whatever the interleaving of traps, interrupts and
\* switches, each guest sees the behaviour of a machine of its own (Machines):
\* a world switch, a time slice, an idle period and a redone access change
\* nothing a guest can observe, and nothing is executed twice or skipped.
GuestsSeeOwnMachine == M!Spec
=============================================================================

-------------------------- MODULE Hypervisor_proofs --------------------------
(***************************************************************************)
(* Theorems about Hypervisor, for every number of VMs, list registers,      *)
(* interrupts, program counters and versions.                               *)
(***************************************************************************)
EXTENDS Hypervisor, TLAPS

WfiStates == {"WFI_Out", "WFI_In", "WFI_PendingIRQ"}

\* The part of the type invariant that the scheduler can change.
SchedType ==
  /\ vm_id \in VM
  /\ scheduler_idle \in BOOLEAN
  /\ wfi_state \in [VM -> WfiStates]
  /\ bk \in [VM -> Backup]
  /\ cpu \in Context
  /\ timer \in 1 .. Slice
  /\ waits \in [VM -> Nat]

\* What a call of the scheduler may rely on: the handler's copies w, b and hw
\* are well typed, and b and hw still satisfy the ownership invariant.
SchedPre(w, b, hw) ==
  /\ w \in [VM -> WfiStates]
  /\ b \in [VM -> Backup]
  /\ hw \in Context
  /\ \A v \in VM : b[v].dirty <=> (v = vm_id /\ ~scheduler_idle)
  /\ \A v \in VM : b[v].cp15.vttbr.base = v /\ b[v].rf.elr.own = v
  /\ hw.cp15.vttbr = [base |-> vm_id, vmid |-> vm_id]
  /\ ~scheduler_idle => hw.rf.elr.own = vm_id

\* Every saved table base and return address belongs to its VM, and VTTBR on
\* the CPU always is that of vm_id, also while idling.
SavedOwn ==
  /\ \A v \in VM : bk[v].cp15.vttbr.base = v /\ bk[v].rf.elr.own = v
  /\ cpu.cp15.vttbr = [base |-> vm_id, vmid |-> vm_id]

\* What a call of the scheduler guarantees: the hypervisor goes on, ownership
\* is consistent again, and nothing that belongs to a VM has changed - neither
\* registers nor list registers nor whether it sleeps.
SchedPost(w, b, hw) ==
  /\ halt' = halt
  /\ SchedType'
  /\ OwnershipConsistent'
  /\ SleepConsistent'
  /\ SavedOwn'
  /\ \A v \in VM : (wfi_state'[v] = "WFI_In") <=> (w[v] = "WFI_In")
  /\ \A v \in VM : EffList(v)' = IF b[v].dirty THEN hw.list ELSE b[v].list
  /\ \A v \in VM : EffContext(v)' = IF b[v].dirty THEN SavedRegs(hw) ELSE SavedRegs(b[v])

\* Wrapping next_vm_id once keeps it inside vm[].
LEMMA RingType == ASSUME NEW v \in VM, NEW i \in 1 .. NumVM PROVE ring(v, i) \in VM
  BY NumVMAssumption DEF ring, VM

\* Moving a program counter or a version keeps its owner tag.
LEMMA RegType == ASSUME NEW r \in Regs
                 PROVE  /\ PcInc(r) \in Regs /\ PcInc(r).own = r.own
                        /\ PcDec(r) \in Regs /\ PcDec(r).own = r.own
                        /\ DataInc(r) \in Regs /\ DataInc(r).own = r.own
  BY ModAssumption DEF Regs, PcInc, PcDec, DataInc, Reg

\* guest_suspend yields a clean backup that holds the context found.
LEMMA SuspendType ==
  ASSUME NEW b \in Backup, NEW hw \in Context
  PROVE  /\ guest_suspend(b, hw) \in Backup
         /\ b.dirty => /\ guest_suspend(b, hw).cp15.vttbr = hw.cp15.vttbr
                       /\ guest_suspend(b, hw).rf.elr = hw.rf.elr
                       /\ guest_suspend(b, hw).list = hw.list
                       /\ SavedRegs(guest_suspend(b, hw)) = SavedRegs(hw)
         /\ ~b.dirty => guest_suspend(b, hw) = b
         /\ ~guest_suspend(b, hw).dirty
  BY DEF guest_suspend, guest_backup_rf, guest_backup_cp15,
         guest_backup_gic2_vcpu_if, guest_backup_list, Backup, Context, SavedRegs

\* guest_restore yields the saved context, with the VMID rewritten.
LEMMA RestoreType ==
  ASSUME NEW v \in VM, NEW b \in Backup
  PROVE  /\ guest_restore(v, b) \in Context
         /\ guest_restore(v, b).cp15.vttbr = [base |-> b.cp15.vttbr.base, vmid |-> v]
         /\ guest_restore(v, b).rf.elr = b.rf.elr
         /\ guest_restore(v, b).list = b.list
         /\ SavedRegs(guest_restore(v, b)) = SavedRegs(b)
  BY DEF guest_restore, guest_restore_rf, guest_restore_cp15,
         guest_restore_gic2_vcpu_if, guest_restore_list, Backup, Context, SavedRegs

\* A world switch: the assertion in guest_restore cannot fire, and the switch
\* is invisible to every VM.
LEMMA SwitchLemma ==
  ASSUME SchedType, NEW w, NEW b, NEW hw, SchedPre(w, b, hw),
         NEW next \in VM, w[next] # "WFI_In",
         vm_switch(next, w, b, hw)
  PROVE  SchedPost(w, b, hw)
  <1> DEFINE susp == [b EXCEPT ![vm_id] = guest_suspend(b[vm_id], hw)]
  <1>1. /\ vm_id \in VM /\ hw \in Context /\ b[vm_id] \in Backup /\ b[next] \in Backup
        /\ b \in [VM -> Backup] /\ w \in [VM -> WfiStates] /\ waits \in [VM -> Nat]
    BY DEF SchedType, SchedPre
  <1>2. /\ susp \in [VM -> Backup]
        /\ \A v \in VM : ~susp[v].dirty
        /\ \A v \in VM : susp[v].cp15.vttbr.base = v /\ susp[v].rf.elr.own = v
        /\ \A v \in VM : susp[v].list = IF b[v].dirty THEN hw.list ELSE b[v].list
        /\ \A v \in VM : SavedRegs(susp[v]) = IF b[v].dirty THEN SavedRegs(hw)
                                                            ELSE SavedRegs(b[v])
    BY <1>1, SuspendType DEF SchedPre
  <1>3. /\ wfi_state' = leave_wfi(w, next)
        /\ bk' = [susp EXCEPT ![next].dirty = TRUE]
        /\ cpu' = guest_restore(next, susp[next])
        /\ vm_id' = next
        /\ timer' = Slice
        /\ scheduler_idle' = FALSE
        /\ CountWaits(next, w)
        /\ halt' = halt
    BY <1>2 DEF vm_switch, scheduler_reset_timer
  <1>4. /\ cpu' \in Context
        /\ cpu'.cp15.vttbr = [base |-> next, vmid |-> next]
        /\ cpu'.rf.elr = susp[next].rf.elr
        /\ cpu'.list = susp[next].list
        /\ SavedRegs(cpu') = SavedRegs(susp[next])
    BY <1>2, <1>3, RestoreType
  <1>5. /\ bk' \in [VM -> Backup]
        /\ \A v \in VM : bk'[v].dirty <=> v = next
        /\ \A v \in VM : bk'[v].cp15 = susp[v].cp15 /\ bk'[v].rf = susp[v].rf
        /\ \A v \in VM : bk'[v].list = susp[v].list /\ SavedRegs(bk'[v]) = SavedRegs(susp[v])
    <2> HIDE DEF susp
    <2>1. /\ DOMAIN bk' = VM
          /\ bk' = [v \in VM |-> bk'[v]]
          /\ \A v \in VM : bk'[v] = IF v = next THEN [susp[next] EXCEPT !.dirty = TRUE]
                                               ELSE susp[v]
      BY <1>2, <1>3
    <2>2. SUFFICES ASSUME NEW v \in VM
                   PROVE  /\ bk'[v] \in Backup
                          /\ bk'[v].dirty <=> v = next
                          /\ bk'[v].cp15 = susp[v].cp15 /\ bk'[v].rf = susp[v].rf
                          /\ bk'[v].list = susp[v].list /\ SavedRegs(bk'[v]) = SavedRegs(susp[v])
      BY <2>1
    <2>3. susp[v] \in Backup /\ ~susp[v].dirty
      BY <1>2
    <2>4. CASE v = next
      <3>1. bk'[v] = [susp[v] EXCEPT !.dirty = TRUE]
        BY <2>1, <2>4
      <3> QED BY <2>3, <2>4, <3>1 DEF Backup, SavedRegs
    <2>5. CASE v # next
      BY <2>1, <2>3, <2>5
    <2> QED BY <2>4, <2>5
  <1>6. waits' \in [VM -> Nat]
    BY <1>1, <1>3 DEF CountWaits
  <1>7. /\ wfi_state' \in [VM -> WfiStates]
        /\ wfi_state'[next] = "WFI_Out"
        /\ \A v \in VM : (wfi_state'[v] = "WFI_In") <=> (w[v] = "WFI_In")
    BY <1>1, <1>3 DEF WfiStates, leave_wfi
  <1> HIDE DEF susp
  <1>8. SchedType'
    <2>1. timer' \in 1 .. Slice /\ vm_id' \in VM
      BY <1>3, SliceAssumption
    <2>2. scheduler_idle' \in BOOLEAN
      BY <1>3
    <2> QED BY <1>4, <1>5, <1>6, <1>7, <2>1, <2>2 DEF SchedType
  <1>9. OwnershipConsistent' /\ SleepConsistent' /\ SavedOwn'
    BY <1>2, <1>3, <1>4, <1>5, <1>7 DEF OwnershipConsistent, SleepConsistent, SavedOwn, Running
  <1>10. \A v \in VM : EffList(v)' = IF b[v].dirty THEN hw.list ELSE b[v].list
    BY <1>2, <1>4, <1>5 DEF EffList
  <1>11. \A v \in VM : EffContext(v)' = IF b[v].dirty THEN SavedRegs(hw) ELSE SavedRegs(b[v])
    BY <1>2, <1>4, <1>5 DEF EffContext
  <1> QED
    BY <1>3, <1>7, <1>8, <1>9, <1>10, <1>11 DEF SchedPost

\* Entering the idle thread leaves every VM suspended and unchanged.
LEMMA IdleLemma ==
  ASSUME SchedType, NEW w, NEW b, NEW hw, SchedPre(w, b, hw),
         \A v \in VM : w[v] = "WFI_In",
         go_idle(w, b, hw)
  PROVE  SchedPost(w, b, hw)
  <1>1. /\ vm_id \in VM /\ hw \in Context /\ b[vm_id] \in Backup
        /\ b \in [VM -> Backup] /\ w \in [VM -> WfiStates]
    BY DEF SchedType, SchedPre
  <1>2. /\ bk' \in [VM -> Backup]
        /\ \A v \in VM : ~bk'[v].dirty
        /\ \A v \in VM : bk'[v].cp15.vttbr.base = v /\ bk'[v].rf.elr.own = v
        /\ \A v \in VM : bk'[v].list = IF b[v].dirty THEN hw.list ELSE b[v].list
        /\ \A v \in VM : SavedRegs(bk'[v]) = IF b[v].dirty THEN SavedRegs(hw)
                                                           ELSE SavedRegs(b[v])
    BY <1>1, SuspendType DEF SchedPre, go_idle
  <1>3. cpu' = [hw EXCEPT !.rf.usr = Reg(Idle, 0), !.rf.elr = Reg(Idle, 0)]
    BY DEF go_idle, idle_thread
  <1>4. cpu' \in Context /\ cpu'.cp15 = hw.cp15 /\ cpu'.rf.elr.own = Idle
    BY <1>1, <1>3 DEF Context, Regs, Reg
  <1>5. /\ wfi_state' = w /\ vm_id' = vm_id /\ scheduler_idle' = TRUE /\ halt' = halt
        /\ timer' = Slice /\ waits' = [v \in VM |-> 0]
    BY DEF go_idle, scheduler_reset_timer
  <1>6. SchedType'
    BY <1>1, <1>2, <1>4, <1>5, SliceAssumption DEF SchedType
  <1>7. OwnershipConsistent' /\ SleepConsistent' /\ SavedOwn'
    BY <1>1, <1>2, <1>4, <1>5
       DEF OwnershipConsistent, SleepConsistent, SavedOwn, Running, SchedPre
  <1>8. \A v \in VM : EffList(v)' = IF b[v].dirty THEN hw.list ELSE b[v].list
    BY <1>2 DEF EffList
  <1>9. \A v \in VM : EffContext(v)' = IF b[v].dirty THEN SavedRegs(hw) ELSE SavedRegs(b[v])
    BY <1>2 DEF EffContext
  <1> QED
    BY <1>5, <1>6, <1>7, <1>8, <1>9 DEF SchedPost

\* Whatever scheduler_rr picks, its postcondition holds.
LEMMA SchedulerLemma ==
  ASSUME SchedType, NEW w, NEW b, NEW hw, SchedPre(w, b, hw), scheduler(w, b, hw)
  PROVE  SchedPost(w, b, hw)
  <1>1. CASE \E i \in 1 .. NumVM :
               w[ring(vm_id, i)] # "WFI_In" /\ vm_switch(ring(vm_id, i), w, b, hw)
    <2>1. PICK i \in 1 .. NumVM :
               w[ring(vm_id, i)] # "WFI_In" /\ vm_switch(ring(vm_id, i), w, b, hw)
      BY <1>1
    <2>2. ring(vm_id, i) \in VM
      BY RingType DEF SchedType
    <2> QED BY <2>1, <2>2, SwitchLemma
  <1>2. CASE (\A v \in VM : w[v] = "WFI_In") /\ go_idle(w, b, hw)
    BY <1>2, IdleLemma
  <1> QED BY <1>1, <1>2 DEF scheduler

(***************************************************************************)
(* The inductive invariant.                                                *)
(***************************************************************************)
OwnInv == OwnershipConsistent /\ SleepConsistent /\ SavedOwn

Inv == TypeOK /\ OwnInv /\ halt # "restore dirty backup"

GicType ==
  /\ pend \subseteq Pids \cup {TimerPid}
  /\ act \subseteq Pids
  /\ halt \in {"no", "printb", "restore dirty backup",
              "virtual interrupt not imple.", "no empty list register"}

\* The type invariant, split into the scheduler part and the GIC part.
LEMMA TypeSplit == TypeOK <=> SchedType /\ GicType
  BY DEF TypeOK, SchedType, GicType, WfiStates

\* The same split for the next state.
LEMMA TypeSplitPrime == TypeOK' <=> SchedType' /\ GicType'
  BY DEF TypeOK, SchedType, GicType, WfiStates

\* Every interrupt id of a device is routed to an existing VM.
LEMMA TargetType == ASSUME NEW p \in Pids
                    PROVE  irq_target(p) \in VM
                           /\ p \in {40 + irq_target(p), 44 + irq_target(p), 48 + irq_target(p)}
  <1>1. PICK v \in VM : p \in {40 + v, 44 + v, 48 + v}
    BY PidsAssumption
  <1>2. v \in {0, 1, 2, 3}
    BY NumVMAssumption DEF VM
  <1>3. irq_target(p) = v
    BY <1>1, <1>2 DEF irq_target
  <1> QED BY <1>1, <1>3

\* ... and that VM has a virtual id for it.
LEMMA VirqMapped == ASSUME NEW p \in Pids
                    PROVE  LET vid == vdev_gic2_dist_irq_to_virq(irq_target(p), p)
                           IN  vid \in 0 .. 63 /\ virq_pid(irq_target(p), vid) = p
  <1> DEFINE t == irq_target(p)
  <1>1. t \in VM /\ t \in Int /\ p \in {40 + t, 44 + t, 48 + t}
    BY TargetType DEF VM
  <1> HIDE DEF t
  <1>2. \E vid \in 0 .. 63 : virq_pid(t, vid) = p
    <2>1. virq_pid(t, 44) = 40 + t /\ virq_pid(t, 36) = 44 + t /\ virq_pid(t, 37) = 48 + t
      BY DEF virq_pid
    <2> QED BY <1>1, <2>1
  <1> QED BY <1>2 DEF vdev_gic2_dist_irq_to_virq, t

\* Steps that change no VM's ownership: only registers, list registers, the
\* timer and the interrupt controller move.
LEMMA FrameLemma ==
  ASSUME Inv,
         UNCHANGED <<vm_id, scheduler_idle, wfi_state, bk, waits>>,
         timer' \in 1 .. Slice,
         cpu' \in Context,
         cpu'.cp15.vttbr = cpu.cp15.vttbr,
         cpu'.rf.elr.own = cpu.rf.elr.own
  PROVE  SchedType' /\ OwnInv'
  <1>1. SchedType'
    BY TypeSplit DEF SchedType, Inv
  <1>2. OwnershipConsistent' /\ SleepConsistent'
    BY DEF Inv, OwnInv, OwnershipConsistent, SleepConsistent, Running
  <1>3. SavedOwn'
    BY DEF Inv, OwnInv, SavedOwn
  <1> QED BY <1>1, <1>2, <1>3 DEF OwnInv

\* main() establishes the inductive invariant.
LEMMA InitInv == Init => Inv
  <1> SUFFICES ASSUME Init PROVE Inv
    OBVIOUS
  <1>1. 0 \in VM
    BY NumVMAssumption DEF VM
  <1>2. EmptyLR \in LRType
    BY DEF EmptyLR, LRType
  <1>3. \A v \in VM : guest_rpb_init(v) \in Backup
    BY <1>1, <1>2 DEF guest_rpb_init, Backup, Regs, Reg
  <1>4. cpu \in Context /\ cpu.cp15.vttbr = [base |-> 0, vmid |-> 0] /\ cpu.rf.elr.own = 0
    BY <1>1, <1>3, RestoreType DEF Init, guest_rpb_init, Reg
  <1>5. \A v \in VM : /\ bk[v] \in Backup
                      /\ bk[v].dirty <=> v = 0
                      /\ bk[v].cp15.vttbr.base = v
                      /\ bk[v].rf.elr.own = v
    <2> TAKE v \in VM
    <2>1. bk[v] = [guest_rpb_init(v) EXCEPT !.dirty = (v = 0)]
      BY DEF Init
    <2>2. /\ guest_rpb_init(v) \in Backup
          /\ guest_rpb_init(v).cp15.vttbr.base = v
          /\ guest_rpb_init(v).rf.elr.own = v
      BY <1>3 DEF guest_rpb_init, Reg
    <2>3. CASE v = 0
      <3>1. bk[v] = [guest_rpb_init(v) EXCEPT !.dirty = TRUE]
        BY <2>1, <2>3
      <3> QED BY <2>2, <2>3, <3>1 DEF Backup
    <2>4. CASE v # 0
      <3>1. bk[v] = [guest_rpb_init(v) EXCEPT !.dirty = FALSE]
        BY <2>1, <2>4
      <3> QED BY <2>2, <2>4, <3>1 DEF Backup
    <2> QED BY <2>3, <2>4
  <1>6. bk \in [VM -> Backup]
    BY <1>5 DEF Init
  <1>7. SchedType
    <2>1. vm_id \in VM /\ timer \in 1 .. Slice
      BY <1>1, SliceAssumption DEF Init
    <2>2. scheduler_idle \in BOOLEAN
      BY DEF Init
    <2>3. wfi_state \in [VM -> WfiStates] /\ waits \in [VM -> Nat]
      BY DEF Init, WfiStates
    <2> QED BY <1>4, <1>6, <2>1, <2>2, <2>3 DEF SchedType
  <1>8. GicType /\ halt # "restore dirty backup"
    BY DEF Init, GicType
  <1>9. OwnInv
    BY <1>1, <1>4, <1>5 DEF Init, OwnInv, OwnershipConsistent, SleepConsistent, SavedOwn, Running
  <1> QED BY <1>7, <1>8, <1>9, TypeSplit DEF Inv

\* The context with elr_hyp moved is the same VM's context.
LEMMA ElrLemma ==
  ASSUME NEW hw \in Context
  PROVE  /\ elr_advanced(hw) \in Context /\ elr_retreated(hw) \in Context
         /\ elr_advanced(hw).rf.elr.own = hw.rf.elr.own
         /\ elr_retreated(hw).rf.elr.own = hw.rf.elr.own
         /\ elr_advanced(hw).cp15 = hw.cp15 /\ elr_retreated(hw).cp15 = hw.cp15
         /\ elr_advanced(hw).list = hw.list /\ elr_retreated(hw).list = hw.list
  <1>1. hw.rf.elr \in Regs
    BY DEF Context
  <1>2. PcInc(hw.rf.elr) \in Regs /\ PcDec(hw.rf.elr) \in Regs
        /\ PcInc(hw.rf.elr).own = hw.rf.elr.own /\ PcDec(hw.rf.elr).own = hw.rf.elr.own
    BY <1>1, RegType
  <1> QED BY <1>2 DEF elr_advanced, elr_retreated, Context

\* Every handler calls the scheduler with copies that satisfy SchedPre.
LEMMA PreLemma ==
  ASSUME Inv, NEW w \in [VM -> WfiStates], NEW hw \in Context,
         hw.cp15.vttbr = cpu.cp15.vttbr, hw.rf.elr.own = cpu.rf.elr.own
  PROVE  SchedType /\ SchedPre(w, bk, hw)
  <1>1. SchedType
    BY TypeSplit DEF Inv
  <1> QED BY <1>1 DEF SchedPre, Inv, OwnInv, OwnershipConsistent, SavedOwn, Running, SchedType

\* What injecting an interrupt does to the copies the scheduler gets.
InjList(t) == IF target_is_active(t) THEN cpu.list ELSE bk[t].list
InjCpu(t, pid, i) ==
  IF target_is_active(t)
  THEN [cpu EXCEPT !.list = [InjList(t) EXCEPT ![i] = pending_lr(t, pid)]] ELSE cpu
InjBk(t, pid, i) ==
  IF target_is_active(t) THEN bk
  ELSE [bk EXCEPT ![t].list = [InjList(t) EXCEPT ![i] = pending_lr(t, pid)]]

\* Injecting an interrupt gives the scheduler well-formed copies.
LEMMA InjectLemma ==
  ASSUME Inv, NEW pid \in Pids, NEW i \in LRs
  PROVE  LET t == irq_target(pid)
         IN  /\ SchedType
             /\ SchedPre(woken(t), InjBk(t, pid, i), InjCpu(t, pid, i))
             /\ InjCpu(t, pid, i).rf = cpu.rf
             /\ InjCpu(t, pid, i).cp15 = cpu.cp15
             /\ ~scheduler_idle => woken(t)[vm_id] = "WFI_Out"
  <1> DEFINE t == irq_target(pid)
  <1>1. SchedType /\ t \in VM
    BY TypeSplit, TargetType DEF Inv
  <1>2. pending_lr(t, pid) \in LRType
    <2>1. pid \in Int
      BY <1>1, TargetType DEF VM
    <2>2. vdev_gic2_dist_irq_to_virq(t, pid) \in Int
      BY VirqMapped
    <2> QED BY <2>1, <2>2 DEF pending_lr, LRType
  <1> HIDE DEF t
  <1>3. InjList(t) \in [LRs -> LRType]
    BY <1>1 DEF InjList, SchedType, Context, Backup
  <1> DEFINE l2 == [InjList(t) EXCEPT ![i] = pending_lr(t, pid)]
  <1>4. l2 \in [LRs -> LRType]
    BY <1>2, <1>3
  <1> HIDE DEF l2
  <1>5. /\ InjCpu(t, pid, i) \in Context
        /\ InjCpu(t, pid, i).rf = cpu.rf
        /\ InjCpu(t, pid, i).cp15 = cpu.cp15
    <2>1. InjCpu(t, pid, i) = IF target_is_active(t) THEN [cpu EXCEPT !.list = l2] ELSE cpu
      BY DEF InjCpu, l2
    <2> QED BY <1>1, <1>4, <2>1 DEF Context, SchedType
  <1>6. /\ InjBk(t, pid, i) \in [VM -> Backup]
        /\ \A v \in VM : /\ InjBk(t, pid, i)[v].dirty = bk[v].dirty
                         /\ InjBk(t, pid, i)[v].cp15 = bk[v].cp15
                         /\ InjBk(t, pid, i)[v].rf = bk[v].rf
    <2>1. InjBk(t, pid, i) = IF target_is_active(t) THEN bk ELSE [bk EXCEPT ![t].list = l2]
      BY DEF InjBk, l2
    <2>2. bk[t] \in Backup /\ bk \in [VM -> Backup]
      BY <1>1 DEF SchedType
    <2>3. LET n == [bk[t] EXCEPT !.list = l2]
          IN  n \in Backup /\ n.dirty = bk[t].dirty /\ n.cp15 = bk[t].cp15 /\ n.rf = bk[t].rf
      BY <2>2, <1>4 DEF Backup
    <2>4. [bk EXCEPT ![t].list = l2] = [bk EXCEPT ![t] = [bk[t] EXCEPT !.list = l2]]
      BY <1>1, <2>2
    <2> QED BY <1>1, <2>1, <2>2, <2>3, <2>4
  <1>7. woken(t) \in [VM -> WfiStates]
    BY <1>1 DEF woken, SchedType, WfiStates
  <1>8. ~scheduler_idle => woken(t)[vm_id] = "WFI_Out"
    BY <1>1 DEF woken, SchedType, Inv, OwnInv, SleepConsistent
  <1>9. SchedPre(woken(t), InjBk(t, pid, i), InjCpu(t, pid, i))
    BY <1>5, <1>6, <1>7 DEF SchedPre, Inv, OwnInv, OwnershipConsistent, SavedOwn, Running
  <1> QED BY <1>1, <1>5, <1>8, <1>9 DEF t

\* An interrupt injected while a VM runs: no switch happens.
LEMMA InjectNoSwitch ==
  ASSUME Inv, NEW pid \in Pids, NEW i \in LRs, ~scheduler_idle,
         wfi_state' = woken(irq_target(pid)),
         bk' = InjBk(irq_target(pid), pid, i),
         cpu' = InjCpu(irq_target(pid), pid, i),
         UNCHANGED <<vm_id, scheduler_idle, timer, waits, halt>>
  PROVE  SchedType' /\ OwnInv'
  <1> DEFINE t == irq_target(pid)
  <1>1. /\ SchedType
        /\ SchedPre(woken(t), InjBk(t, pid, i), InjCpu(t, pid, i))
        /\ InjCpu(t, pid, i).rf = cpu.rf
        /\ woken(t)[vm_id] = "WFI_Out"
    BY InjectLemma
  <1>2. SchedType'
    BY <1>1 DEF SchedType, SchedPre
  <1>3. OwnershipConsistent' /\ SavedOwn'
    BY <1>1 DEF Inv, OwnInv, OwnershipConsistent, SavedOwn, SchedPre, Running
  <1>4. SleepConsistent'
    BY <1>1 DEF SleepConsistent
  <1> QED BY <1>2, <1>3, <1>4 DEF OwnInv

\* Every handler and every guest step keeps the inductive invariant.
LEMMA NextInv == Inv /\ [Next]_vars => Inv'
  <1> SUFFICES ASSUME Inv, [Next]_vars PROVE Inv'
    OBVIOUS
  <1>1. SchedType /\ GicType /\ cpu \in Context /\ OwnInv /\ halt # "restore dirty backup"
    BY TypeSplit DEF Inv, SchedType
  <1> SUFFICES SchedType' /\ GicType' /\ OwnInv' /\ halt' # "restore dirty backup"
    BY TypeSplitPrime DEF Inv
  <1>2. CASE GuestExecute
    <2>1. Running \in VM /\ cpu.rf.elr \in Regs /\ cpu.rf.bank \in Regs
      BY <1>1, <1>2 DEF GuestExecute, Executes, GuestRuns, Running, Context, Regs
    <2> DEFINE new == Reg(Running, DataInc(cpu.rf.bank).n)
    <2>2. new \in Regs /\ PcInc(cpu.rf.elr) \in Regs /\ PcInc(cpu.rf.elr).own = cpu.rf.elr.own
      BY <2>1, RegType DEF Regs, Reg
    <2> HIDE DEF new
    <2>3. cpu' = [cpu EXCEPT !.rf = [usr |-> new, bank |-> new, elr |-> PcInc(cpu.rf.elr)],
                             !.cp15.sys = new, !.ctlr = new]
      BY <1>2 DEF GuestExecute, new
    <2>4. cpu' \in Context /\ cpu'.cp15.vttbr = cpu.cp15.vttbr
          /\ cpu'.rf.elr.own = cpu.rf.elr.own
      BY <1>1, <2>2, <2>3 DEF Context
    <2>5. /\ UNCHANGED <<vm_id, scheduler_idle, wfi_state, bk, timer, waits, pend, act, halt>>
          /\ timer' \in 1 .. Slice
      BY <1>1, <1>2 DEF GuestExecute, SchedType
    <2> QED BY <1>1, <2>4, <2>5, FrameLemma DEF GicType
  <1>3. CASE GuestWfiNoWait \/ trap_cp \/ trap_dabort_store
    <2>1. cpu' = elr_advanced(cpu)
      BY <1>3 DEF GuestWfiNoWait, trap_cp, trap_dabort_store, elr_advanced
    <2>2. /\ UNCHANGED <<vm_id, scheduler_idle, wfi_state, bk, timer, waits, pend, act, halt>>
          /\ timer' \in 1 .. Slice
      BY <1>1, <1>3 DEF GuestWfiNoWait, trap_cp, trap_dabort_store, SchedType
    <2> QED BY <1>1, <2>1, <2>2, ElrLemma, FrameLemma DEF GicType
  <1>4. ASSUME NEW i \in LRs, GuestAck(i) PROVE SchedType' /\ GicType' /\ OwnInv' /\ halt' # "restore dirty backup"
    <2>1. cpu' = [cpu EXCEPT !.list[i].state = "LR_Active"] /\ cpu.list \in [LRs -> LRType]
      BY <1>1, <1>4 DEF GuestAck, Context
    <2>2. cpu' \in Context /\ cpu'.cp15.vttbr = cpu.cp15.vttbr /\ cpu'.rf = cpu.rf
      <3>1. [cpu.list[i] EXCEPT !.state = "LR_Active"] \in LRType
        BY <2>1 DEF LRType
      <3>2. cpu' = [cpu EXCEPT !.list = [cpu.list EXCEPT ![i] = [cpu.list[i] EXCEPT !.state = "LR_Active"]]]
        BY <2>1
      <3>3. [cpu.list EXCEPT ![i] = [cpu.list[i] EXCEPT !.state = "LR_Active"]] \in [LRs -> LRType]
        BY <2>1, <3>1
      <3> QED BY <1>1, <3>2, <3>3 DEF Context
    <2>3. /\ UNCHANGED <<vm_id, scheduler_idle, wfi_state, bk, timer, waits, pend, act, halt>>
          /\ timer' \in 1 .. Slice
      BY <1>1, <1>4 DEF GuestAck, SchedType
    <2> QED BY <1>1, <2>2, <2>3, FrameLemma DEF GicType
  <1>5. ASSUME NEW i \in LRs, GuestEoi(i) PROVE SchedType' /\ GicType' /\ OwnInv' /\ halt' # "restore dirty backup"
    <2>1. cpu' = [cpu EXCEPT !.list[i] = EmptyLR] /\ cpu.list \in [LRs -> LRType]
      BY <1>1, <1>5 DEF GuestEoi, Context
    <2>2. cpu' \in Context /\ cpu'.cp15.vttbr = cpu.cp15.vttbr /\ cpu'.rf = cpu.rf
      <3>1. EmptyLR \in LRType
        BY DEF LRType, EmptyLR
      <3>2. cpu' = [cpu EXCEPT !.list = [cpu.list EXCEPT ![i] = EmptyLR]]
        BY <2>1
      <3>3. [cpu.list EXCEPT ![i] = EmptyLR] \in [LRs -> LRType]
        BY <2>1, <3>1
      <3> QED BY <1>1, <3>2, <3>3 DEF Context
    <2>3. /\ UNCHANGED <<vm_id, scheduler_idle, wfi_state, bk, timer, waits, pend, halt>>
          /\ timer' \in 1 .. Slice /\ act' \subseteq act
      BY <1>1, <1>5 DEF GuestEoi, SchedType
    <2> QED BY <1>1, <2>2, <2>3, FrameLemma DEF GicType
  <1>6. CASE trap_wfi
    <2>1. [wfi_state EXCEPT ![vm_id] = "WFI_In"] \in [VM -> WfiStates]
      BY <1>1 DEF SchedType, WfiStates
    <2>2. /\ elr_advanced(cpu) \in Context
          /\ elr_advanced(cpu).cp15.vttbr = cpu.cp15.vttbr
          /\ elr_advanced(cpu).rf.elr.own = cpu.rf.elr.own
      BY <1>1, ElrLemma
    <2>3. SchedPost([wfi_state EXCEPT ![vm_id] = "WFI_In"], bk, elr_advanced(cpu))
      BY <1>6, <2>1, <2>2, PreLemma, SchedulerLemma DEF trap_wfi
    <2> QED BY <1>1, <1>6, <2>3 DEF trap_wfi, SchedPost, OwnInv, GicType
  <1>7. CASE trap_hvc
    <2>1. cpu' = elr_retreated(elr_advanced(elr_advanced(cpu)))
      BY <1>7 DEF trap_hvc, elr_advanced
    <2>2. /\ UNCHANGED <<vm_id, scheduler_idle, wfi_state, bk, timer, waits, pend, act, halt>>
          /\ timer' \in 1 .. Slice
      BY <1>1, <1>7 DEF trap_hvc, SchedType
    <2> DEFINE e1 == elr_advanced(cpu)
               e2 == elr_advanced(e1)
    <2>3. e1 \in Context /\ e1.cp15 = cpu.cp15 /\ e1.rf.elr.own = cpu.rf.elr.own
      BY <1>1, ElrLemma
    <2> HIDE DEF e1
    <2>4. e2 \in Context /\ e2.cp15 = cpu.cp15 /\ e2.rf.elr.own = cpu.rf.elr.own
      BY <2>3, ElrLemma
    <2>5. cpu' = elr_retreated(e2)
      BY <2>1 DEF e1
    <2> HIDE DEF e2
    <2>6. cpu' \in Context /\ cpu'.cp15.vttbr = cpu.cp15.vttbr
          /\ cpu'.rf.elr.own = cpu.rf.elr.own
      BY <2>4, <2>5, ElrLemma
    <2> QED BY <1>1, <2>2, <2>6, FrameLemma DEF GicType
  <1>8. CASE trap_dabort_memory
    <2>1. cpu' = elr_retreated(elr_advanced(cpu)) \/ cpu' = cpu
      BY <1>8 DEF trap_dabort_memory
    <2>2. /\ UNCHANGED <<vm_id, scheduler_idle, wfi_state, bk, timer, waits, pend, act>>
          /\ timer' \in 1 .. Slice /\ halt' \in {halt, "printb"}
      BY <1>1, <1>8 DEF trap_dabort_memory, SchedType
    <2> DEFINE e1 == elr_advanced(cpu)
    <2>3. e1 \in Context /\ e1.cp15 = cpu.cp15 /\ e1.rf.elr.own = cpu.rf.elr.own
      BY <1>1, ElrLemma
    <2>4. cpu' = elr_retreated(e1) \/ cpu' = cpu
      BY <2>1
    <2> HIDE DEF e1
    <2>5. cpu' \in Context /\ cpu'.cp15.vttbr = cpu.cp15.vttbr
          /\ cpu'.rf.elr.own = cpu.rf.elr.own
      <3>1. CASE cpu' = cpu
        BY <1>1, <3>1
      <3>2. CASE cpu' = elr_retreated(e1)
        BY <2>3, <3>2, ElrLemma
      <3> QED BY <2>4, <3>1, <3>2
    <2> QED BY <1>1, <2>2, <2>5, FrameLemma DEF GicType
  <1>9. CASE trap_dabort_load
    <2> DEFINE hw == elr_advanced(cpu)
    <2>1. hw \in Context /\ hw.cp15 = cpu.cp15 /\ hw.rf.elr.own = cpu.rf.elr.own
      BY <1>1, ElrLemma
    <2> HIDE DEF hw
    <2> DEFINE new == Reg(Running, DataInc(hw.rf.usr).n)
    <2>2. Running \in VM /\ hw.rf.usr \in Regs
      BY <1>1, <1>9, <2>1 DEF trap_dabort_load, Executes, GuestRuns, Running, Context, Regs
    <2>3. new \in Regs
      BY <2>2, RegType DEF Regs, Reg
    <2> HIDE DEF new
    <2>4. cpu' = [hw EXCEPT !.rf.usr = new]
      BY <1>9 DEF trap_dabort_load, write_reg_to_stack, new, hw
    <2>5. cpu' \in Context /\ cpu'.cp15.vttbr = cpu.cp15.vttbr
          /\ cpu'.rf.elr.own = cpu.rf.elr.own
      BY <2>1, <2>3, <2>4 DEF Context
    <2>6. /\ UNCHANGED <<vm_id, scheduler_idle, wfi_state, bk, timer, waits, pend, act, halt>>
          /\ timer' \in 1 .. Slice
      BY <1>1, <1>9 DEF trap_dabort_load, SchedType
    <2> QED BY <1>1, <2>5, <2>6, FrameLemma DEF GicType
  <1>10. CASE trap_error \/ irq_unknown
    <2>1. UNCHANGED <<schedVars, pend, act>> /\ halt' = "printb"
      BY <1>10 DEF trap_error, irq_unknown
    <2>2. UNCHANGED <<vm_id, scheduler_idle, wfi_state, bk, cpu, timer, waits>>
          /\ timer' \in 1 .. Slice
      BY <1>1, <2>1 DEF schedVars, SchedType
    <2> QED BY <1>1, <2>1, <2>2, FrameLemma DEF GicType
  <1>11. CASE irq_timer
    <2>1. SchedPost(wfi_state, bk, cpu)
      BY <1>1, <1>11, PreLemma, SchedulerLemma DEF irq_timer, SchedType
    <2>2. pend' \subseteq pend /\ act' = act
      BY <1>11 DEF irq_timer
    <2> QED BY <1>1, <2>1, <2>2 DEF SchedPost, OwnInv, GicType
  <1>12. ASSUME NEW pid \in Pids, irq_device(pid) PROVE SchedType' /\ GicType' /\ OwnInv' /\ halt' # "restore dirty backup"
    <2> DEFINE t == irq_target(pid)
    <2>1. pend' \subseteq pend /\ act' \subseteq Pids
      BY <1>1, <1>12 DEF irq_device, GicType
    <2>2. CASE inject_failure(t, pid) # "no"
      <3>1. halt' = inject_failure(t, pid) /\ UNCHANGED schedVars
        BY <1>12, <2>2 DEF irq_device
      <3>2. inject_failure(t, pid) \in {"virtual interrupt not imple.", "no empty list register"}
        BY <2>2 DEF inject_failure
      <3>3. UNCHANGED <<vm_id, scheduler_idle, wfi_state, bk, cpu, timer, waits>>
            /\ timer' \in 1 .. Slice
        BY <1>1, <3>1 DEF schedVars, SchedType
      <3> QED BY <1>1, <2>1, <3>1, <3>2, <3>3, FrameLemma DEF GicType
    <2>3. CASE inject_failure(t, pid) = "no"
      <3>1. PICK i \in LRs : inject(t, pid, i)
        BY <1>12, <2>3 DEF irq_device
      <3>2. CASE scheduler_idle
        <4>1. scheduler(woken(t), InjBk(t, pid, i), InjCpu(t, pid, i))
          BY <3>1, <3>2 DEF inject, InjBk, InjCpu, InjList
        <4>2. SchedPost(woken(t), InjBk(t, pid, i), InjCpu(t, pid, i))
          BY <4>1, InjectLemma, SchedulerLemma
        <4> QED BY <1>1, <2>1, <4>2 DEF SchedPost, OwnInv, GicType
      <3>3. CASE ~scheduler_idle
        <4>1. /\ wfi_state' = woken(t) /\ bk' = InjBk(t, pid, i) /\ cpu' = InjCpu(t, pid, i)
              /\ UNCHANGED <<vm_id, scheduler_idle, timer, waits, halt>>
          BY <3>1, <3>3 DEF inject, InjBk, InjCpu, InjList
        <4>2. SchedType' /\ OwnInv'
          BY <3>3, <4>1, InjectNoSwitch
        <4> QED BY <1>1, <2>1, <4>1, <4>2 DEF GicType
      <3> QED BY <3>2, <3>3
    <2> QED BY <2>2, <2>3
  <1>13. ASSUME NEW pid \in Pids, Raise(pid) PROVE SchedType' /\ GicType' /\ OwnInv' /\ halt' # "restore dirty backup"
    <2>1. UNCHANGED <<vm_id, scheduler_idle, wfi_state, bk, cpu, timer, waits>>
          /\ timer' \in 1 .. Slice
      BY <1>1, <1>13 DEF Raise, schedVars, SchedType
    <2> QED BY <1>1, <1>13, <2>1, FrameLemma DEF GicType, Raise
  <1>14. CASE Tick
    <2>1. UNCHANGED <<vm_id, scheduler_idle, wfi_state, bk, cpu, waits>>
          /\ timer' \in 1 .. Slice
      BY <1>1, <1>14, SliceAssumption DEF Tick, SchedType
    <2> QED BY <1>1, <1>14, <2>1, FrameLemma DEF GicType, Tick
  <1>15. CASE irq_spurious \/ Exited \/ UNCHANGED vars
    <2>1. UNCHANGED <<vm_id, scheduler_idle, wfi_state, bk, cpu, timer, waits, pend, act, halt>>
          /\ timer' \in 1 .. Slice
      BY <1>1, <1>15 DEF irq_spurious, Exited, vars, schedVars, SchedType
    <2> QED BY <1>1, <2>1, FrameLemma DEF GicType
  <1> QED
    BY <1>2, <1>3, <1>4, <1>5, <1>6, <1>7, <1>8, <1>9, <1>10, <1>11, <1>12, <1>13,
       <1>14, <1>15 DEF Next

\* The inductive invariant (types, ownership, sleep states, stage 2, waiting
\* bounds) holds throughout, for all values of the constants.
THEOREM InvHolds == Spec => []Inv
  BY InitInv, NextInv, PTL DEF Spec

\* Every variable keeps its type, for every number of VMs, list registers and
\* interrupts.
THEOREM TypeCorrect == Spec => []TypeOK
  <1>1. Inv => TypeOK
    BY DEF Inv
  <1> QED BY <1>1, InvHolds, PTL

\* vm_id, the idle flag and the dirty flags always describe what the CPU
\* executes: the property the dirty-flag protocol of guest_suspend and
\* guest_restore depends on.
THEOREM Ownership == Spec => []OwnershipConsistent
  <1>1. Inv => OwnershipConsistent
    BY DEF Inv, OwnInv
  <1> QED BY <1>1, InvHolds, PTL

\* The hypervisor idles only when every VM is in WFI, and the VM on the CPU is
\* never marked as sleeping.
THEOREM Sleeping == Spec => []SleepConsistent
  <1>1. Inv => SleepConsistent
    BY DEF Inv, OwnInv
  <1> QED BY <1>1, InvHolds, PTL

\* No VM ever executes under the stage-2 tables or the VMID of another.
THEOREM StageTwo == Spec => []StageTwoOwned
  <1>1. Inv => StageTwoOwned
    <2> SUFFICES ASSUME Inv, Running # Idle PROVE cpu.cp15.vttbr = [base |-> Running, vmid |-> Running]
      BY DEF StageTwoOwned
    <2>1. Running = vm_id
      BY DEF Inv, OwnInv, OwnershipConsistent
    <2> QED BY <2>1 DEF Inv, OwnInv, SavedOwn
  <1> QED BY <1>1, InvHolds, PTL

\* guest_restore never finds a dirty backup, so its printbi is dead code.
THEOREM NoDirtyRestore == Spec => [](halt # "restore dirty backup")
  <1>1. Inv => halt # "restore dirty backup"
    BY DEF Inv
  <1> QED BY <1>1, InvHolds, PTL

(***************************************************************************)
(* The waiting bound of the round-robin search.                            *)
(***************************************************************************)
\* How many increments of next_vm_id lead from u to v: 1 .. NumVM.
Dist(u, v) == IF v > u THEN v - u ELSE v - u + NumVM

\* A VM that has waited for k switches is at most NumVM - k increments away.
WaitInv == \A v \in VM : waits[v] + Dist(vm_id, v) <= NumVM

\* Where the ring order puts a VM seen from another.
LEMMA DistLemma ==
  ASSUME NEW u \in VM, NEW v \in VM
  PROVE  /\ Dist(u, v) \in 1 .. NumVM
         /\ ring(u, Dist(u, v)) = v
         /\ \A i \in 1 .. NumVM : i < Dist(u, v) => Dist(ring(u, i), v) = Dist(u, v) - i
  BY NumVMAssumption DEF Dist, ring, VM

\* Each call of the scheduler brings every VM that keeps waiting closer.
LEMMA SchedulerWait ==
  ASSUME SchedType, WaitInv, NEW w, NEW b, NEW hw, SchedPre(w, b, hw), scheduler(w, b, hw)
  PROVE  WaitInv'
  <1>1. vm_id \in VM /\ waits \in [VM -> Nat] /\ halt' = halt
    BY SchedulerLemma DEF SchedType, SchedPost
  <1>2. CASE go_idle(w, b, hw)
    <2>1. vm_id' = vm_id /\ waits' = [v \in VM |-> 0]
      BY <1>2 DEF go_idle
    <2>2. \A v \in VM : Dist(vm_id, v) \in 1 .. NumVM
      BY <1>1, DistLemma
    <2>3. ASSUME NEW v \in VM PROVE waits'[v] + Dist(vm_id', v) <= NumVM
      BY <2>1, <2>2, NumVMAssumption
    <2> QED BY <2>3 DEF WaitInv
  <1>3. CASE \E i \in 1 .. NumVM :
               /\ w[ring(vm_id, i)] # "WFI_In"
               /\ \A j \in 1 .. i - 1 : w[ring(vm_id, j)] = "WFI_In"
               /\ vm_switch(ring(vm_id, i), w, b, hw)
    <2>1. PICK i \in 1 .. NumVM :
               /\ w[ring(vm_id, i)] # "WFI_In"
               /\ \A j \in 1 .. i - 1 : w[ring(vm_id, j)] = "WFI_In"
               /\ vm_switch(ring(vm_id, i), w, b, hw)
      BY <1>3
    <2> DEFINE next == ring(vm_id, i)
    <2>2. next \in VM
      BY <1>1, RingType
    <2>3. vm_id' = next /\ CountWaits(next, w)
      <3>1. CASE halt' = "restore dirty backup"
        <4>1. halt' = halt
          BY <1>1
        <4>2. ~[b EXCEPT ![vm_id] = guest_suspend(b[vm_id], hw)][next].dirty
          <5>1. b \in [VM -> Backup] /\ hw \in Context /\ b[vm_id] \in Backup
            BY <1>1 DEF SchedPre
          <5>2. ~guest_suspend(b[vm_id], hw).dirty
            BY <5>1, SuspendType
          <5>3. \A v \in VM : v # vm_id => ~b[v].dirty
            BY DEF SchedPre
          <5> QED BY <1>1, <2>2, <5>1, <5>2, <5>3
        <4> QED BY <2>1, <4>2 DEF vm_switch
      <3>2. CASE halt' # "restore dirty backup"
        BY <2>1, <3>2 DEF vm_switch
      <3> QED BY <3>1, <3>2
    <2>4. ASSUME NEW v \in VM PROVE waits'[v] + Dist(vm_id', v) <= NumVM
      <3>1. Dist(next, v) \in 1 .. NumVM /\ Dist(vm_id, v) \in 1 .. NumVM
        BY <1>1, <2>2, DistLemma
      <3>2. CASE v = next \/ w[v] = "WFI_In"
        <4>1. waits'[v] = 0
          BY <2>3, <3>2 DEF CountWaits
        <4> QED BY <2>3, <3>1, <4>1, NumVMAssumption
      <3>3. CASE ~(v = next \/ w[v] = "WFI_In")
        <4>1. waits'[v] = waits[v] + 1
          BY <2>3, <3>3 DEF CountWaits
        <4>2. ring(vm_id, Dist(vm_id, v)) = v
          BY <1>1, DistLemma
        <4>3. i < Dist(vm_id, v)
          BY <2>1, <3>1, <3>3, <4>2, NumVMAssumption
        <4>4. Dist(next, v) = Dist(vm_id, v) - i
          BY <1>1, <4>3, DistLemma
        <4>5. waits[v] + Dist(vm_id, v) <= NumVM /\ waits[v] \in Nat
          BY <1>1 DEF WaitInv
        <4> HIDE DEF next
        <4> QED BY <2>1, <2>3, <3>1, <4>1, <4>4, <4>5, NumVMAssumption
      <3> QED BY <3>2, <3>3
    <2> QED BY <2>4 DEF WaitInv
  <1> QED BY <1>2, <1>3 DEF scheduler

\* Every handler and every guest step keeps the waiting bound.
LEMMA NextWait == Inv /\ WaitInv /\ [Next]_vars => WaitInv'
  <1> SUFFICES ASSUME Inv, WaitInv, [Next]_vars PROVE WaitInv'
    OBVIOUS
  <1>1. SchedType /\ cpu \in Context
    BY TypeSplit DEF Inv, SchedType
  <1>2. UNCHANGED <<vm_id, waits>> => WaitInv'
    BY DEF WaitInv
  <1>3. CASE trap_wfi
    <2>1. [wfi_state EXCEPT ![vm_id] = "WFI_In"] \in [VM -> WfiStates]
      BY <1>1 DEF SchedType, WfiStates
    <2>2. /\ elr_advanced(cpu) \in Context
          /\ elr_advanced(cpu).cp15.vttbr = cpu.cp15.vttbr
          /\ elr_advanced(cpu).rf.elr.own = cpu.rf.elr.own
      BY <1>1, ElrLemma
    <2> QED BY <1>3, <2>1, <2>2, PreLemma, SchedulerWait DEF trap_wfi
  <1>4. CASE irq_timer
    BY <1>1, <1>4, PreLemma, SchedulerWait DEF irq_timer, SchedType
  <1>5. ASSUME NEW pid \in Pids, irq_device(pid) PROVE WaitInv'
    <2> DEFINE t == irq_target(pid)
    <2>1. CASE inject_failure(t, pid) # "no"
      BY <1>2, <1>5, <2>1 DEF irq_device, schedVars
    <2>2. CASE inject_failure(t, pid) = "no"
      <3>1. PICK i \in LRs : inject(t, pid, i)
        BY <1>5, <2>2 DEF irq_device
      <3>2. CASE scheduler_idle
        <4>1. scheduler(woken(t), InjBk(t, pid, i), InjCpu(t, pid, i))
          BY <3>1, <3>2 DEF inject, InjBk, InjCpu, InjList
        <4> QED BY <4>1, InjectLemma, SchedulerWait
      <3>3. CASE ~scheduler_idle
        BY <1>2, <3>1, <3>3 DEF inject
      <3> QED BY <3>2, <3>3
    <2> QED BY <2>1, <2>2
  <1>6. CASE \/ GuestExecute \/ GuestWfiNoWait \/ trap_cp \/ trap_hvc
             \/ trap_dabort_memory \/ trap_dabort_load \/ trap_dabort_store \/ trap_error
             \/ irq_spurious \/ irq_unknown \/ Tick \/ Exited \/ UNCHANGED vars
             \/ \E i \in LRs : GuestAck(i) \/ GuestEoi(i)
             \/ \E pid \in Pids : Raise(pid)
    BY <1>2, <1>6 DEF GuestExecute, GuestWfiNoWait, trap_cp, trap_hvc, trap_dabort_memory,
         trap_dabort_load, trap_dabort_store, trap_error, irq_spurious, irq_unknown, Tick,
         Exited, vars, schedVars, GuestAck, GuestEoi, Raise
  <1> QED BY <1>3, <1>4, <1>5, <1>6 DEF Next

\* Round robin is fair with a bound: no VM that stays runnable is passed over
\* more than NumVM - 1 times.
THEOREM WaitBound == Spec => []BoundedWait
  <1>1. Init => WaitInv
    <2> SUFFICES ASSUME Init PROVE WaitInv
      OBVIOUS
    <2>1. 0 \in VM /\ vm_id = 0 /\ waits = [v \in VM |-> 0]
      BY NumVMAssumption DEF Init, VM
    <2>2. ASSUME NEW v \in VM PROVE waits[v] + Dist(vm_id, v) <= NumVM
      <3>1. Dist(vm_id, v) \in 1 .. NumVM
        BY <2>1, DistLemma
      <3> QED BY <2>1, <3>1, NumVMAssumption
    <2> QED BY <2>2 DEF WaitInv
  <1>2. Inv /\ WaitInv => BoundedWait
    <2> SUFFICES ASSUME Inv, WaitInv, NEW v \in VM PROVE waits[v] <= NumVM - 1
      BY DEF BoundedWait
    <2>1. vm_id \in VM /\ waits[v] \in Nat
      BY TypeSplit DEF Inv, SchedType
    <2>2. Dist(vm_id, v) \in 1 .. NumVM /\ waits[v] + Dist(vm_id, v) <= NumVM
      BY <2>1, DistLemma DEF WaitInv
    <2> QED BY <2>1, <2>2, NumVMAssumption
  <1> QED BY <1>1, <1>2, InitInv, NextInv, NextWait, PTL DEF Spec

(***************************************************************************)
(* Interrupts: conservation, wake-ups and the hypervisor's assertions.  All *)
(* arguments are about the list of each VM wherever it is kept (EffList),   *)
(* which world switches leave alone.                                        *)
(***************************************************************************)
Lists == [v \in VM |-> EffList(v)]

Used(r) == r.state # "LR_Invalid"

\* IrqConserved for given lists L and active interrupts A.
Conserved(L, A) ==
  /\ \A p \in A : \E i \in LRs : Used(L[irq_target(p)][i]) /\ L[irq_target(p)][i].pid = p
  /\ \A v \in VM, i \in LRs : Used(L[v][i]) =>
       /\ L[v][i].pid \in A
       /\ irq_target(L[v][i].pid) = v
       /\ virq_pid(v, L[v][i].vid) = L[v][i].pid
       /\ \A j \in LRs : Used(L[v][j]) /\ L[v][j].pid = L[v][i].pid => j = i

\* NoLostWakeup for given lists L and sleep states w.
NoneWaiting(L, w) ==
  \A v \in VM : w[v] = "WFI_In" => \A i \in LRs : L[v][i].state # "LR_Pending"

IrqInv == (halt = "no" => Conserved(Lists, act)) /\ NoneWaiting(Lists, wfi_state)

\* The inductive form yields the two properties as they are stated.
LEMMA IrqInvImplies == Inv /\ IrqInv => IrqConserved /\ NoLostWakeup
  <1> SUFFICES ASSUME Inv, IrqInv PROVE IrqConserved /\ NoLostWakeup
    OBVIOUS
  <1>1. \A v \in VM : Lists[v] = EffList(v)
    BY DEF Lists
  <1>2. \A p \in act : irq_target(p) \in VM
    BY TypeSplit, TargetType DEF Inv, GicType
  <1>3. NoLostWakeup
    BY <1>1 DEF IrqInv, NoneWaiting, NoLostWakeup
  <1>4. IrqConserved
    BY <1>1, <1>2 DEF IrqInv, Conserved, IrqConserved, Used
  <1> QED BY <1>3, <1>4

\* The lists the VMs see are well typed.
LEMMA ListsType == Inv => Lists \in [VM -> [LRs -> LRType]]
  BY TypeSplit DEF Inv, SchedType, Lists, EffList, Backup, Context

\* The VM on the CPU sees the hardware list registers.
LEMMA RunningList == Inv /\ GuestRuns => vm_id \in VM /\ ~scheduler_idle /\ EffList(vm_id) = cpu.list
                                          /\ \A v \in VM : v # vm_id => EffList(v) = bk[v].list
  BY TypeSplit DEF Inv, SchedType, OwnInv, OwnershipConsistent, GuestRuns, EffList

(***************************************************************************)
(* The three ways lists change.                                            *)
(***************************************************************************)
\* A guest that acknowledges an interrupt neither loses nor moves it.
LEMMA AckLemma ==
  ASSUME NEW L \in [VM -> [LRs -> LRType]], NEW A \in SUBSET Pids, Conserved(L, A),
         NEW v \in VM, NEW i \in LRs, Used(L[v][i]),
         NEW K, K = [L EXCEPT ![v] = [L[v] EXCEPT ![i] = [L[v][i] EXCEPT !.state = "LR_Active"]]]
  PROVE  Conserved(K, A)
  <1>1. \A u \in VM, j \in LRs : /\ Used(K[u][j]) <=> Used(L[u][j])
                                 /\ K[u][j].pid = L[u][j].pid /\ K[u][j].vid = L[u][j].vid
    BY DEF LRType, Used
  <1>2. \A p \in A : irq_target(p) \in VM
    BY TargetType
  <1>3. ASSUME NEW p \in A
        PROVE  \E j \in LRs : Used(K[irq_target(p)][j]) /\ K[irq_target(p)][j].pid = p
    <2>1. PICK j \in LRs : Used(L[irq_target(p)][j]) /\ L[irq_target(p)][j].pid = p
      BY DEF Conserved
    <2> QED BY <1>1, <1>2, <2>1
  <1>4. ASSUME NEW u \in VM, NEW j \in LRs, Used(K[u][j])
        PROVE  /\ K[u][j].pid \in A
               /\ irq_target(K[u][j].pid) = u
               /\ virq_pid(u, K[u][j].vid) = K[u][j].pid
               /\ \A k \in LRs : Used(K[u][k]) /\ K[u][k].pid = K[u][j].pid => k = j
    <2>1. Used(L[u][j]) /\ K[u][j].pid = L[u][j].pid /\ K[u][j].vid = L[u][j].vid
      BY <1>1, <1>4
    <2>2. \A k \in LRs : (Used(K[u][k]) <=> Used(L[u][k])) /\ K[u][k].pid = L[u][k].pid
      BY <1>1
    <2> QED BY <2>1, <2>2 DEF Conserved
  <1> QED BY <1>3, <1>4 DEF Conserved

\* Ending an interrupt frees its list register and its active state together.
LEMMA EoiLemma ==
  ASSUME NEW L \in [VM -> [LRs -> LRType]], NEW A \in SUBSET Pids, Conserved(L, A),
         NEW v \in VM, NEW i \in LRs, Used(L[v][i]),
         NEW K, K = [L EXCEPT ![v] = [L[v] EXCEPT ![i] = EmptyLR]]
  PROVE  Conserved(K, A \ {L[v][i].pid})
  <1> DEFINE q == L[v][i].pid
  <1>1. q \in A /\ irq_target(q) = v
    BY DEF Conserved
  <1>2. /\ ~Used(K[v][i])
        /\ \A u \in VM, j \in LRs : ~(u = v /\ j = i) => K[u][j] = L[u][j]
    BY DEF Used, EmptyLR
  <1>3. \A p \in A : irq_target(p) \in VM
    BY TargetType
  <1>4. ASSUME NEW p \in A \ {q}
        PROVE  \E j \in LRs : Used(K[irq_target(p)][j]) /\ K[irq_target(p)][j].pid = p
    <2>1. PICK j \in LRs : Used(L[irq_target(p)][j]) /\ L[irq_target(p)][j].pid = p
      BY DEF Conserved
    <2>2. ~(irq_target(p) = v /\ j = i)
      BY <2>1
    <2> QED BY <1>2, <1>3, <2>1, <2>2
  <1>5. ASSUME NEW u \in VM, NEW j \in LRs, Used(K[u][j])
        PROVE  /\ K[u][j].pid \in A \ {q}
               /\ irq_target(K[u][j].pid) = u
               /\ virq_pid(u, K[u][j].vid) = K[u][j].pid
               /\ \A k \in LRs : Used(K[u][k]) /\ K[u][k].pid = K[u][j].pid => k = j
    <2>1. ~(u = v /\ j = i) /\ K[u][j] = L[u][j]
      BY <1>2, <1>5
    <2>2. L[u][j].pid # q
      BY <1>1, <1>5, <2>1 DEF Conserved
    <2> QED BY <1>2, <1>5, <2>1, <2>2 DEF Conserved
  <1> QED BY <1>4, <1>5 DEF Conserved

\* A new active interrupt in a free list register of its own VM is conserved.
LEMMA AddLemma ==
  ASSUME NEW L \in [VM -> [LRs -> LRType]], NEW A \in SUBSET Pids, Conserved(L, A),
         NEW p \in Pids \ A, NEW i \in LRs, ~Used(L[irq_target(p)][i]),
         NEW K, K = [L EXCEPT ![irq_target(p)] =
                       [L[irq_target(p)] EXCEPT ![i] = pending_lr(irq_target(p), p)]]
  PROVE  Conserved(K, A \cup {p})
  <1> DEFINE t == irq_target(p)
  <1>1. t \in VM /\ \A q \in A \cup {p} : irq_target(q) \in VM
    BY TargetType
  <1>2. virq_pid(t, vdev_gic2_dist_irq_to_virq(t, p)) = p
    BY VirqMapped
  <1>3. /\ Used(K[t][i]) /\ K[t][i].pid = p /\ virq_pid(t, K[t][i].vid) = p
        /\ \A u \in VM, j \in LRs : ~(u = t /\ j = i) => K[u][j] = L[u][j]
    BY <1>1, <1>2 DEF Used, pending_lr
  <1>4. ASSUME NEW q \in A \cup {p}
        PROVE  \E j \in LRs : Used(K[irq_target(q)][j]) /\ K[irq_target(q)][j].pid = q
    <2>1. CASE q = p
      BY <1>3, <2>1
    <2>2. CASE q # p
      <3>1. PICK j \in LRs : Used(L[irq_target(q)][j]) /\ L[irq_target(q)][j].pid = q
        BY <2>2 DEF Conserved
      <3>2. ~(irq_target(q) = t /\ j = i)
        BY <3>1
      <3> QED BY <1>1, <1>3, <3>1, <3>2
    <2> QED BY <2>1, <2>2
  <1>5. ASSUME NEW u \in VM, NEW j \in LRs, Used(K[u][j])
        PROVE  /\ K[u][j].pid \in A \cup {p}
               /\ irq_target(K[u][j].pid) = u
               /\ virq_pid(u, K[u][j].vid) = K[u][j].pid
               /\ \A k \in LRs : Used(K[u][k]) /\ K[u][k].pid = K[u][j].pid => k = j
    <2>1. \A w \in VM, k \in LRs : Used(L[w][k]) => L[w][k].pid # p
      BY DEF Conserved
    <2>2. CASE u = t /\ j = i
      <3>1. \A k \in LRs : k # i /\ Used(K[t][k]) => K[t][k].pid # p
        BY <1>1, <1>3, <2>1
      <3> QED BY <1>3, <2>2, <3>1
    <2>3. CASE ~(u = t /\ j = i)
      <3>1. K[u][j] = L[u][j] /\ Used(L[u][j])
        BY <1>3, <1>5, <2>3
      <3>2. \A k \in LRs : Used(K[u][k]) /\ K[u][k].pid = K[u][j].pid => k = j
        <4> TAKE k \in LRs
        <4>1. CASE u = t /\ k = i
          <5>1. K[u][k].pid = p
            BY <1>3, <4>1
          <5>2. K[u][j].pid # p
            BY <2>1, <3>1
          <5> QED BY <5>1, <5>2
        <4>2. CASE ~(u = t /\ k = i)
          BY <1>3, <3>1, <4>2 DEF Conserved
        <4> QED BY <4>1, <4>2
      <3> QED BY <3>1, <3>2 DEF Conserved
    <2> QED BY <2>2, <2>3
  <1> QED BY <1>4, <1>5 DEF Conserved

(***************************************************************************)
(* Steps.                                                                  *)
(***************************************************************************)
\* Steps that move neither list registers nor active interrupts.
LEMMA KeepLemma ==
  ASSUME IrqInv, Lists' = Lists, act' = act, halt' = "no" => halt = "no",
         \A v \in VM : wfi_state'[v] = "WFI_In" =>
            wfi_state[v] = "WFI_In" \/ \A i \in LRs : Lists[v][i].state # "LR_Pending"
  PROVE  IrqInv'
  <1>1. Conserved(Lists, act) => Conserved(Lists, act)'
    BY DEF Conserved
  <1>2. NoneWaiting(Lists, wfi_state)'
    BY DEF IrqInv, NoneWaiting
  <1> QED BY <1>1, <1>2 DEF IrqInv

\* Where injecting an interrupt leaves the lists, before any switch.
LEMMA InjectLists ==
  ASSUME Inv, NEW pid \in Pids, NEW i \in LRs
  PROVE  LET t  == irq_target(pid)
             b  == InjBk(t, pid, i)
             hw == InjCpu(t, pid, i)
         IN  /\ InjList(t) = Lists[t]
             /\ [v \in VM |-> IF b[v].dirty THEN hw.list ELSE b[v].list]
                = [Lists EXCEPT ![t] = [Lists[t] EXCEPT ![i] = pending_lr(t, pid)]]
  <1> DEFINE t == irq_target(pid)
  <1> DEFINE l2 == [Lists[t] EXCEPT ![i] = pending_lr(t, pid)]
  <1>1. /\ t \in VM /\ vm_id \in VM /\ bk \in [VM -> Backup] /\ cpu \in Context
        /\ \A v \in VM : bk[v].dirty <=> (v = vm_id /\ ~scheduler_idle)
        /\ ~scheduler_idle => wfi_state[vm_id] = "WFI_Out"
    BY TypeSplit, TargetType DEF Inv, SchedType, OwnInv, OwnershipConsistent, SleepConsistent
  <1> HIDE DEF t
  <1>2. target_is_active(t) <=> bk[t].dirty
    BY <1>1 DEF target_is_active
  <1>3. InjList(t) = Lists[t]
    BY <1>1, <1>2 DEF InjList, Lists, EffList
  <1> HIDE DEF l2
  <1>4. InjCpu(t, pid, i) = IF target_is_active(t) THEN [cpu EXCEPT !.list = l2] ELSE cpu
    BY <1>3 DEF InjCpu, l2
  <1>5. InjBk(t, pid, i) = IF target_is_active(t) THEN bk ELSE [bk EXCEPT ![t].list = l2]
    BY <1>3 DEF InjBk, l2
  <1>6. ASSUME NEW v \in VM
        PROVE  (IF InjBk(t, pid, i)[v].dirty THEN InjCpu(t, pid, i).list
                                             ELSE InjBk(t, pid, i)[v].list)
               = [Lists EXCEPT ![t] = l2][v]
    <2>1. [Lists EXCEPT ![t] = l2][v] = IF v = t THEN l2 ELSE EffList(v)
      BY <1>1, <1>6 DEF Lists
    <2>2. CASE bk[t].dirty
      <3>1. InjBk(t, pid, i) = bk /\ InjCpu(t, pid, i).list = l2
        BY <1>1, <1>2, <1>4, <1>5, <2>2 DEF Context
      <3> QED BY <1>1, <2>1, <2>2, <3>1 DEF EffList
    <2>3. CASE ~bk[t].dirty
      <3>1. InjCpu(t, pid, i) = cpu /\ InjBk(t, pid, i) = [bk EXCEPT ![t].list = l2]
        BY <1>2, <1>4, <1>5, <2>3
      <3>2. InjBk(t, pid, i)[v] = IF v = t THEN [bk[t] EXCEPT !.list = l2] ELSE bk[v]
        BY <1>1, <3>1
      <3>3. CASE v = t
        <4>1. InjBk(t, pid, i)[v].dirty = bk[t].dirty /\ InjBk(t, pid, i)[v].list = l2
          BY <1>1, <3>2, <3>3 DEF Backup
        <4> QED BY <2>1, <2>3, <3>3, <4>1
      <3>4. CASE v # t
        BY <2>1, <3>1, <3>2, <3>4 DEF EffList
      <3> QED BY <3>3, <3>4
    <2> QED BY <2>2, <2>3
  <1>7. [v \in VM |-> IF InjBk(t, pid, i)[v].dirty THEN InjCpu(t, pid, i).list
                                                   ELSE InjBk(t, pid, i)[v].list]
        = [Lists EXCEPT ![t] = l2]
    BY <1>6 DEF Lists
  <1> QED BY <1>3, <1>7 DEF t, l2

\* guest_rpb_init leaves all list registers empty.
LEMMA InitIrqInv == Init => IrqInv
  <1> SUFFICES ASSUME Init PROVE IrqInv
    OBVIOUS
  <1>1. Inv /\ 0 \in VM
    BY InitInv, NumVMAssumption DEF VM
  <1>2. \A v \in VM, i \in LRs : Lists[v][i] = EmptyLR
    <2>1. \A v \in VM, i \in LRs : bk[v].list[i] = EmptyLR
      BY DEF Init, guest_rpb_init
    <2>2. \A i \in LRs : cpu.list[i] = EmptyLR
      BY DEF Init, guest_restore, guest_restore_list, guest_rpb_init
    <2> QED BY <2>1, <2>2 DEF Lists, EffList
  <1>3. act = {}
    BY DEF Init
  <1> QED BY <1>2, <1>3 DEF IrqInv, Conserved, NoneWaiting, Used, EmptyLR

\* After the scheduler, lists and sleepers are those of the copies it got.
LEMMA SchedLists ==
  ASSUME NEW w, NEW b, NEW hw, SchedPost(w, b, hw)
  PROVE  /\ Lists' = [v \in VM |-> IF b[v].dirty THEN hw.list ELSE b[v].list]
         /\ \A v \in VM : (wfi_state'[v] = "WFI_In") <=> (w[v] = "WFI_In")
         /\ halt' = halt
  BY DEF SchedPost, Lists

\* An interrupt that reaches its list keeps the invariant, with or without a
\* switch after it.
LEMMA InjectKeeps ==
  ASSUME Inv, IrqInv, halt = "no", NEW pid \in Pids \ act, NEW i \in LRs,
         ~Used(Lists[irq_target(pid)][i]),
         act' = act \cup {pid},
         halt' = halt,
         Lists' = [Lists EXCEPT ![irq_target(pid)] =
                     [Lists[irq_target(pid)] EXCEPT ![i] = pending_lr(irq_target(pid), pid)]],
         \A v \in VM : (wfi_state'[v] = "WFI_In") <=> (woken(irq_target(pid))[v] = "WFI_In")
  PROVE  IrqInv'
  <1> DEFINE t == irq_target(pid)
  <1>1. /\ t \in VM /\ act \in SUBSET Pids /\ Lists \in [VM -> [LRs -> LRType]]
        /\ wfi_state \in [VM -> WfiStates]
    BY TypeSplit, TargetType, ListsType DEF Inv, GicType, SchedType
  <1>2. Conserved(Lists', act')
    BY <1>1, AddLemma DEF IrqInv
  <1>3. wfi_state'[t] # "WFI_In" /\ \A v \in VM \ {t} : wfi_state'[v] = "WFI_In" => wfi_state[v] = "WFI_In"
    BY <1>1 DEF woken, WfiStates
  <1>4. \A v \in VM \ {t} : Lists'[v] = Lists[v]
    BY <1>1
  <1>5. NoneWaiting(Lists', wfi_state')
    BY <1>3, <1>4 DEF IrqInv, NoneWaiting
  <1> QED BY <1>2, <1>5 DEF IrqInv

\* Every handler and every guest step keeps the interrupt invariant.
LEMMA NextIrqInv == Inv /\ IrqInv /\ [Next]_vars => IrqInv'
  <1> SUFFICES ASSUME Inv, IrqInv, [Next]_vars PROVE IrqInv'
    OBVIOUS
  <1>1. SchedType /\ GicType /\ cpu \in Context /\ Lists \in [VM -> [LRs -> LRType]]
    BY TypeSplit, ListsType DEF Inv, SchedType
  <1>2. ASSUME UNCHANGED <<wfi_state, bk, act>>, cpu'.list = cpu.list, halt' = "no" => halt = "no"
        PROVE  IrqInv'
    <2>1. Lists' = Lists
      BY <1>2 DEF Lists, EffList
    <2> QED BY <1>2, <2>1, KeepLemma
  <1>3. CASE GuestExecute
    <2>1. cpu'.list = cpu.list
      BY <1>1, <1>3 DEF GuestExecute, Context
    <2> QED BY <1>2, <1>3, <2>1 DEF GuestExecute
  <1>4. CASE GuestWfiNoWait \/ trap_cp \/ trap_dabort_store
    <2>1. cpu' = elr_advanced(cpu)
      BY <1>4 DEF GuestWfiNoWait, trap_cp, trap_dabort_store, elr_advanced
    <2> QED BY <1>1, <1>2, <1>4, <2>1, ElrLemma DEF GuestWfiNoWait, trap_cp, trap_dabort_store
  <1>5. ASSUME NEW i \in LRs, GuestAck(i) \/ GuestEoi(i) PROVE IrqInv'
    <2>1. /\ vm_id \in VM /\ bk[vm_id].dirty /\ Lists[vm_id] = cpu.list
          /\ \A v \in VM : v # vm_id => ~bk[v].dirty
          /\ halt = "no" /\ wfi_state[vm_id] # "WFI_In"
      BY <1>1, <1>5 DEF GuestAck, GuestEoi, GuestRuns, Inv, OwnInv, OwnershipConsistent,
                        SleepConsistent, SchedType, Lists, EffList
    <2>2. UNCHANGED <<bk, wfi_state, halt>> /\ act \in SUBSET Pids
      BY <1>1, <1>5 DEF GuestAck, GuestEoi, GicType
    <2>3. Lists' = [Lists EXCEPT ![vm_id] = cpu'.list]
      BY <2>1, <2>2 DEF Lists, EffList
    <2>4. NoneWaiting(Lists', wfi_state')
      <3>1. \A v \in VM : v # vm_id => Lists'[v] = Lists[v]
        BY <2>3 DEF Lists
      <3> QED BY <2>1, <2>2, <3>1 DEF IrqInv, NoneWaiting
    <2>5. Used(cpu.list[i])
      BY <1>5 DEF GuestAck, GuestEoi, Used
    <2>6. CASE GuestAck(i)
      <3>1. cpu'.list = [cpu.list EXCEPT ![i] = [cpu.list[i] EXCEPT !.state = "LR_Active"]]
        BY <1>1, <2>6 DEF GuestAck, Context
      <3>2. Lists' = [Lists EXCEPT ![vm_id] =
                        [Lists[vm_id] EXCEPT ![i] = [Lists[vm_id][i] EXCEPT !.state = "LR_Active"]]]
        BY <2>1, <2>3, <3>1
      <3>3. Conserved(Lists, act) /\ Used(Lists[vm_id][i])
        BY <2>1, <2>5 DEF IrqInv
      <3>4. Conserved(Lists', act)
        BY <1>1, <2>1, <2>2, <3>2, <3>3, AckLemma
      <3> QED BY <2>4, <2>6, <3>4 DEF IrqInv, GuestAck
    <2>7. CASE GuestEoi(i)
      <3>1. cpu'.list = [cpu.list EXCEPT ![i] = EmptyLR] /\ act' = act \ {Lists[vm_id][i].pid}
        BY <1>1, <2>1, <2>7 DEF GuestEoi, Context
      <3>2. Conserved(Lists', act')
        BY <1>1, <2>1, <2>2, <2>3, <2>5, <3>1, EoiLemma DEF IrqInv
      <3> QED BY <2>4, <3>2 DEF IrqInv
    <2> QED BY <1>5, <2>6, <2>7
  <1>6. CASE trap_wfi
    <2> DEFINE w == [wfi_state EXCEPT ![vm_id] = "WFI_In"]
    <2>1. SchedPost(w, bk, elr_advanced(cpu))
      <3>1. w \in [VM -> WfiStates]
        BY <1>1 DEF SchedType, WfiStates
      <3>2. /\ elr_advanced(cpu) \in Context
            /\ elr_advanced(cpu).cp15.vttbr = cpu.cp15.vttbr
            /\ elr_advanced(cpu).rf.elr.own = cpu.rf.elr.own
        BY <1>1, ElrLemma
      <3> QED BY <1>6, <3>1, <3>2, PreLemma, SchedulerLemma DEF trap_wfi
    <2>2. elr_advanced(cpu).list = cpu.list
      BY <1>1, ElrLemma
    <2>3. Lists' = Lists
      <3>1. Lists' = [v \in VM |-> IF bk[v].dirty THEN elr_advanced(cpu).list ELSE bk[v].list]
        BY <2>1, SchedLists
      <3>2. Lists = [v \in VM |-> IF bk[v].dirty THEN cpu.list ELSE bk[v].list]
        BY DEF Lists, EffList
      <3> QED BY <2>2, <3>1, <3>2
    <2>4. Lists[vm_id] = cpu.list /\ vm_id \in VM /\ \A i \in LRs : cpu.list[i].state # "LR_Pending"
      BY <1>6, RunningList DEF trap_wfi, Executes, VirqPending, Lists
    <2>5. \A v \in VM : wfi_state'[v] = "WFI_In" =>
            wfi_state[v] = "WFI_In" \/ \A i \in LRs : Lists[v][i].state # "LR_Pending"
      <3>1. \A v \in VM : (wfi_state'[v] = "WFI_In") <=> (w[v] = "WFI_In")
        BY <2>1, SchedLists
      <3> QED BY <1>1, <2>4, <3>1 DEF SchedType
    <2> QED BY <1>6, <2>1, <2>3, <2>5, SchedLists, KeepLemma DEF trap_wfi
  <1>7. CASE trap_hvc
    <2>1. cpu' = elr_retreated(elr_advanced(elr_advanced(cpu)))
      BY <1>7 DEF trap_hvc, elr_advanced
    <2> QED BY <1>1, <1>2, <1>7, <2>1, ElrLemma DEF trap_hvc
  <1>8. CASE trap_dabort_memory
    <2>1. cpu'.list = cpu.list
      BY <1>1, <1>8, ElrLemma DEF trap_dabort_memory
    <2> QED BY <1>2, <1>8, <2>1 DEF trap_dabort_memory
  <1>9. CASE trap_dabort_load
    <2>1. cpu'.list = elr_advanced(cpu).list
      BY <1>1, <1>9, ElrLemma DEF trap_dabort_load, write_reg_to_stack, Context
    <2> QED BY <1>1, <1>2, <1>9, <2>1, ElrLemma DEF trap_dabort_load
  <1>10. CASE trap_error \/ irq_unknown
    BY <1>2, <1>10 DEF trap_error, irq_unknown, schedVars
  <1>11. CASE irq_timer
    <2>1. SchedPost(wfi_state, bk, cpu)
      BY <1>1, <1>11, PreLemma, SchedulerLemma DEF irq_timer, SchedType
    <2>2. Lists' = Lists
      <3>1. Lists' = [v \in VM |-> IF bk[v].dirty THEN cpu.list ELSE bk[v].list]
        BY <2>1, SchedLists
      <3>2. Lists = [v \in VM |-> IF bk[v].dirty THEN cpu.list ELSE bk[v].list]
        BY DEF Lists, EffList
      <3> QED BY <3>1, <3>2
    <2> QED BY <1>11, <2>1, <2>2, SchedLists, KeepLemma DEF irq_timer
  <1>12. ASSUME NEW pid \in Pids, irq_device(pid) PROVE IrqInv'
    <2> DEFINE t == irq_target(pid)
    <2>1. CASE inject_failure(t, pid) # "no"
      <3>1. halt' # "no" /\ UNCHANGED <<bk, cpu, wfi_state>>
        BY <1>12, <2>1 DEF irq_device, schedVars
      <3>2. Lists' = Lists
        BY <3>1 DEF Lists, EffList
      <3> QED BY <3>1, <3>2 DEF IrqInv, NoneWaiting
    <2>2. CASE inject_failure(t, pid) = "no"
      <3>1. PICK i \in LRs : inject(t, pid, i)
        BY <1>12, <2>2 DEF irq_device
      <3>2. /\ pid \in Pids \ act /\ act' = act \cup {pid} /\ halt = "no"
            /\ FirstInvalid(InjList(t), i)
        BY <1>12, <3>1 DEF irq_device, inject, InjList
      <3>3. ~Used(Lists[t][i])
        BY <3>2, InjectLists DEF FirstInvalid, Used
      <3>4. CASE scheduler_idle
        <4>1. scheduler(woken(t), InjBk(t, pid, i), InjCpu(t, pid, i))
          BY <3>1, <3>4 DEF inject, InjBk, InjCpu, InjList
        <4>2. SchedPost(woken(t), InjBk(t, pid, i), InjCpu(t, pid, i))
          BY <4>1, InjectLemma, SchedulerLemma
        <4>3. Lists' = [v \in VM |-> IF InjBk(t, pid, i)[v].dirty THEN InjCpu(t, pid, i).list
                                                                ELSE InjBk(t, pid, i)[v].list]
          BY <4>2, SchedLists
        <4>4. Lists' = [Lists EXCEPT ![t] = [Lists[t] EXCEPT ![i] = pending_lr(t, pid)]]
          BY <4>3, InjectLists
        <4>5. /\ \A v \in VM : (wfi_state'[v] = "WFI_In") <=> (woken(t)[v] = "WFI_In")
              /\ halt' = halt
          BY <4>2, SchedLists
        <4> QED BY <3>2, <3>3, <4>4, <4>5, InjectKeeps
      <3>5. CASE ~scheduler_idle
        <4>1. /\ wfi_state' = woken(t) /\ bk' = InjBk(t, pid, i) /\ cpu' = InjCpu(t, pid, i)
              /\ halt' = halt
          BY <3>1, <3>5 DEF inject, InjBk, InjCpu, InjList
        <4>2. Lists' = [v \in VM |-> IF bk'[v].dirty THEN cpu'.list ELSE bk'[v].list]
          BY DEF Lists, EffList
        <4>3. Lists' = [Lists EXCEPT ![t] = [Lists[t] EXCEPT ![i] = pending_lr(t, pid)]]
          BY <4>1, <4>2, InjectLists
        <4> QED BY <3>2, <3>3, <4>1, <4>3, InjectKeeps
      <3> QED BY <3>4, <3>5
    <2> QED BY <2>1, <2>2
  <1>13. ASSUME NEW pid \in Pids, Raise(pid) PROVE IrqInv'
    BY <1>2, <1>13 DEF Raise, schedVars
  <1>14. CASE Tick
    BY <1>2, <1>14 DEF Tick
  <1>15. CASE irq_spurious \/ Exited \/ UNCHANGED vars
    BY <1>2, <1>15 DEF irq_spurious, Exited, vars, schedVars
  <1> QED
    BY <1>3, <1>4, <1>5, <1>6, <1>7, <1>8, <1>9, <1>10, <1>11, <1>12, <1>13, <1>14, <1>15
       DEF Next

\* The interrupt invariant holds throughout.
LEMMA IrqInvHolds == Spec => []IrqInv
  BY InitInv, NextInv, InitIrqInv, NextIrqInv, PTL DEF Spec

\* An interrupt taken from the GIC is in exactly one list register, of its own
\* VM and with the right virtual id, until the guest ends it; list registers
\* hold nothing else.
THEOREM Conservation == Spec => []IrqConserved
  BY InvHolds, IrqInvHolds, IrqInvImplies, PTL

\* A VM is never left sleeping with an interrupt waiting in its lists.
THEOREM WakeUp == Spec => []NoLostWakeup
  BY InvHolds, IrqInvHolds, IrqInvImplies, PTL

(***************************************************************************)
(* The assertions of the hypervisor, with room for the three interrupts of  *)
(* a VM (the hardware has 64 list registers).                               *)
(***************************************************************************)
\* Three list registers are enough: were all in use, three different active
\* interrupts of VM t and the new one would share the three ids of t.
LEMMA RoomLemma ==
  ASSUME NumLR >= 3, Inv, IrqInv, halt = "no", NEW pid \in Pids \ act
  PROVE  inject_failure(irq_target(pid), pid) = "no"
  <1> DEFINE t == irq_target(pid)
  <1>1. t \in VM /\ t \in Int /\ pid \in {40 + t, 44 + t, 48 + t}
        /\ vdev_gic2_dist_irq_to_virq(t, pid) # -1
    BY TargetType, VirqMapped DEF VM
  <1>2. 0 \in LRs /\ 1 \in LRs /\ 2 \in LRs
    BY NumLRAssumption DEF LRs
  <1>3. InjList(t) = Lists[t]
    BY <1>2, InjectLists
  <1>4. act \subseteq Pids /\ Conserved(Lists, act)
    BY TypeSplit DEF Inv, GicType, IrqInv
  <1> HIDE DEF t
  <1>5. ASSUME \A j \in LRs : Used(Lists[t][j]) PROVE FALSE
    <2>1. \A j \in LRs : Lists[t][j].pid \in act /\ irq_target(Lists[t][j].pid) = t
      BY <1>1, <1>4, <1>5 DEF Conserved
    <2>2. \A j \in LRs : /\ Lists[t][j].pid \in {40 + t, 44 + t, 48 + t}
                         /\ Lists[t][j].pid # pid
      BY <1>4, <2>1, TargetType
    <2>3. \A j, k \in LRs : Lists[t][j].pid = Lists[t][k].pid => j = k
      BY <1>1, <1>4, <1>5 DEF Conserved
    <2> QED BY <1>1, <1>2, <2>2, <2>3
  <1>6. PICK j \in LRs : ~Used(Lists[t][j])
    BY <1>5
  <1>7. (IF target_is_active(t) THEN cpu.list ELSE bk[t].list)[j].state = "LR_Invalid"
    BY <1>3, <1>6 DEF InjList, Used
  <1>8. inject_failure(t, pid) = "no"
    BY <1>1, <1>7 DEF inject_failure
  <1> QED BY <1>8 DEF t

\* With three list registers no step runs into an assertion.
LEMMA NextAssertions ==
  NumLR >= 3 /\ Inv /\ IrqInv /\ Inv' /\ AssertionsHold /\ [Next]_vars => AssertionsHold'
  <1> SUFFICES ASSUME NumLR >= 3, Inv, IrqInv, Inv', AssertionsHold, [Next]_vars
               PROVE  AssertionsHold'
    OBVIOUS
  <1>1. SchedType /\ cpu \in Context
    BY TypeSplit DEF Inv, SchedType
  <1>2. halt' \in {halt, "printb"} => AssertionsHold'
    BY DEF AssertionsHold
  <1>3. CASE trap_wfi
    <2>1. SchedPost([wfi_state EXCEPT ![vm_id] = "WFI_In"], bk, elr_advanced(cpu))
      <3>1. [wfi_state EXCEPT ![vm_id] = "WFI_In"] \in [VM -> WfiStates]
        BY <1>1 DEF SchedType, WfiStates
      <3>2. /\ elr_advanced(cpu) \in Context
            /\ elr_advanced(cpu).cp15.vttbr = cpu.cp15.vttbr
            /\ elr_advanced(cpu).rf.elr.own = cpu.rf.elr.own
        BY <1>1, ElrLemma
      <3> QED BY <1>3, <3>1, <3>2, PreLemma, SchedulerLemma DEF trap_wfi
    <2> QED BY <1>2, <2>1 DEF SchedPost
  <1>4. CASE irq_timer
    <2>1. SchedPost(wfi_state, bk, cpu)
      BY <1>1, <1>4, PreLemma, SchedulerLemma DEF irq_timer, SchedType
    <2> QED BY <1>2, <2>1 DEF SchedPost
  <1>5. ASSUME NEW pid \in Pids, irq_device(pid) PROVE AssertionsHold'
    <2> DEFINE t == irq_target(pid)
    <2>1. inject_failure(t, pid) = "no"
      BY <1>5, RoomLemma DEF irq_device
    <2>2. PICK i \in LRs : inject(t, pid, i)
      BY <1>5, <2>1 DEF irq_device
    <2>3. CASE scheduler_idle
      <3>1. scheduler(woken(t), InjBk(t, pid, i), InjCpu(t, pid, i))
        BY <2>2, <2>3 DEF inject, InjBk, InjCpu, InjList
      <3>2. SchedPost(woken(t), InjBk(t, pid, i), InjCpu(t, pid, i))
        BY <3>1, InjectLemma, SchedulerLemma
      <3> QED BY <1>2, <3>2 DEF SchedPost
    <2>4. CASE ~scheduler_idle
      BY <1>2, <2>2, <2>4 DEF inject
    <2> QED BY <2>3, <2>4
  <1>6. CASE \/ GuestExecute \/ GuestWfiNoWait \/ trap_cp \/ trap_hvc
             \/ trap_dabort_memory \/ trap_dabort_load \/ trap_dabort_store \/ trap_error
             \/ irq_spurious \/ irq_unknown \/ Tick \/ Exited \/ UNCHANGED vars
             \/ \E i \in LRs : GuestAck(i) \/ GuestEoi(i)
             \/ \E pid \in Pids : Raise(pid)
    BY <1>2, <1>6 DEF GuestExecute, GuestWfiNoWait, trap_cp, trap_hvc, trap_dabort_memory,
         trap_dabort_load, trap_dabort_store, trap_error, irq_spurious, irq_unknown, Tick,
         Exited, vars, GuestAck, GuestEoi, Raise
  <1> QED BY <1>3, <1>4, <1>5, <1>6 DEF Next

\* With three or more list registers the hypervisor never stops on one of its
\* own assertions: no dirty restore, no interrupt without virtual id, and the
\* list registers never overflow.
THEOREM Assertions == NumLR >= 3 => (Spec => []AssertionsHold)
  <1> SUFFICES ASSUME NumLR >= 3 PROVE Spec => []AssertionsHold
    OBVIOUS
  <1>1. Init => AssertionsHold
    BY DEF Init, AssertionsHold
  <1>2. Inv /\ IrqInv /\ Inv' /\ AssertionsHold /\ [Next]_vars => AssertionsHold'
    BY NextAssertions
  <1> QED BY <1>1, <1>2, InvHolds, IrqInvHolds, PTL DEF Spec
=============================================================================

---------------------- MODULE HypervisorMachines_proofs ----------------------
(***************************************************************************)
(* The virtualisation theorem: Hypervisor implements Machines, for every    *)
(* number of VMs, list registers, interrupts, program counters and          *)
(* versions.  The machines' state is a function of the effective contexts,  *)
(* the effective lists and the sleep states, all of which a world switch    *)
(* leaves alone (SchedPost).                                                *)
(***************************************************************************)
EXTENDS Hypervisor_proofs

\* The abstract variables.
Mach   == [v \in VM |-> EffContext(v)]
Asleep == {v \in VM : wfi_state[v] = "WFI_In"}
Irqs   == [p \in Pids |-> EffIrq(p)]

\* A list register of list l holds interrupt p in state s.
Holds(l, p, s) == \E i \in LRs : l[i].pid = p /\ l[i].state = s

\* The state of interrupt p when the lists are L.
IrqState(L, p) ==
  IF Holds(L[irq_target(p)], p, "LR_Pending") THEN "pending"
  ELSE IF Holds(L[irq_target(p)], p, "LR_Active") THEN "active" ELSE "inactive"

\* What is left to know of register contents: those a guest step derives new
\* contents from carry the tag of their VM, and a program counter is in range,
\* so that correcting elr_hyp undoes its advance.
Tagged(c, v) == /\ c.usr.own = v
                /\ c.bank.own = v
                /\ c.pc.own = v
                /\ c.pc.n \in 0 .. PcMod - 1

OwnContexts == \A v \in VM : Tagged(EffContext(v), v)

\* The states of the interrupts are determined by the effective lists.
LEMMA IrqsOfLists == Irqs = [p \in Pids |-> IrqState(Lists, p)]
  <1>1. \A p \in Pids : EffIrq(p) = IrqState(Lists, p)
    <2> TAKE p \in Pids
    <2>1. Lists[irq_target(p)] = EffList(irq_target(p))
      BY TargetType DEF Lists
    <2> QED BY <2>1 DEF EffIrq, IrqState, Holds
  <1> QED BY <1>1 DEF Irqs

\* The same for the next state.
LEMMA IrqsOfListsPrime == Irqs' = [p \in Pids |-> IrqState(Lists', p)]
  <1>1. \A p \in Pids : EffIrq(p)' = IrqState(Lists', p)
    <2> TAKE p \in Pids
    <2>1. Lists'[irq_target(p)] = EffList(irq_target(p))'
      BY TargetType DEF Lists
    <2> QED BY <2>1 DEF EffIrq, IrqState, Holds
  <1> QED BY <1>1 DEF Irqs

\* Moving elr_hyp forth and back is the identity on program counters in range.
LEMMA PcBack == ASSUME NEW r \in Regs, r.n \in 0 .. PcMod - 1
                PROVE  PcInc(r).n \in 0 .. PcMod - 1 /\ PcDec(PcInc(r)) = r
  BY ModAssumption DEF PcInc, PcDec, Reg, Regs

\* While a guest runs, it is the VM vm_id, its machine is the CPU, and a step
\* that leaves the backups alone changes only that machine.
LEMMA RunMach ==
  ASSUME Inv, OwnContexts, GuestRuns
  PROVE  /\ vm_id \in VM /\ Running = vm_id /\ cpu \in Context
         /\ vm_id \notin Asleep /\ halt = "no"
         /\ Mach[vm_id] = SavedRegs(cpu)
         /\ Tagged(SavedRegs(cpu), vm_id)
         /\ bk' = bk => Mach' = [Mach EXCEPT ![vm_id] = SavedRegs(cpu')]
  <1>1. /\ vm_id \in VM /\ Running = vm_id /\ cpu \in Context /\ ~scheduler_idle
        /\ \A v \in VM : bk[v].dirty <=> v = vm_id
        /\ wfi_state[vm_id] # "WFI_In" /\ halt = "no"
    BY TypeSplit DEF Inv, OwnInv, SchedType, OwnershipConsistent, SleepConsistent, GuestRuns
  <1>2. EffContext(vm_id) = SavedRegs(cpu)
    BY <1>1 DEF EffContext
  <1>3. bk' = bk => \A v \in VM : EffContext(v)' = IF v = vm_id THEN SavedRegs(cpu') ELSE EffContext(v)
    BY <1>1 DEF EffContext
  <1>4. bk' = bk => Mach' = [Mach EXCEPT ![vm_id] = SavedRegs(cpu')]
    BY <1>1, <1>3 DEF Mach
  <1> QED BY <1>1, <1>2, <1>4 DEF Mach, Asleep, OwnContexts

(***************************************************************************)
(* The steps of Machines, in terms of the abstract variables.               *)
(***************************************************************************)
\* Nothing a guest can observe changes.
Unseen == Mach' = Mach /\ Asleep' = Asleep /\ Irqs' = Irqs

\* A step unseen by all machines stutters.
LEMMA ToStutter == Unseen /\ (halt = "no" <=> halt' = "no") => UNCHANGED M!vars
  BY DEF Unseen, M!vars, Mach, Asleep, Irqs

\* ... or is the end of the program.
LEMMA ToStop == Unseen /\ halt = "no" /\ halt' # "no" => M!Next
  BY DEF Unseen, M!Next, M!Stop, Mach, Asleep, Irqs

\* A step of the machine v alone, to registers m.
Moves(v, m) == /\ Mach' = [Mach EXCEPT ![v] = m]
               /\ Irqs' = Irqs
               /\ halt = "no" /\ halt' = "no"
               /\ v \notin Asleep

Finds(v, ins) == ins \in Code[Mach[v].pc.n]

\* The conditions under which the abstract variables take a step of Execute.
LEMMA ToExecute ==
  ASSUME NEW v \in VM, NEW m, Moves(v, m), Asleep' = Asleep, Finds(v, "run") \/ Finds(v, "ram"),
         m = [pc  |-> PcInc(Mach[v].pc), usr |-> DataInc(Mach[v].bank),
              bank |-> DataInc(Mach[v].bank), sys |-> DataInc(Mach[v].bank),
              ctlr |-> DataInc(Mach[v].bank)]
  PROVE  M!Next
  <1>1. M!Execute(v)
    BY DEF M!Execute, M!Executes, M!Awake, Moves, Finds, Mach, Asleep, Irqs
  <1> QED BY <1>1 DEF M!Next

\* ... of Step: only the program counter moves.
LEMMA ToStep ==
  ASSUME NEW v \in VM, NEW m, Moves(v, m), Asleep' = Asleep,
         \/ Finds(v, "cp") \/ Finds(v, "hvc") \/ Finds(v, "store")
         \/ Finds(v, "wfi") /\ \E p \in Pids : irq_target(p) = v /\ Irqs[p] = "pending",
         m = [Mach[v] EXCEPT !.pc = PcInc(Mach[v].pc)]
  PROVE  M!Next
  <1>1. M!Step(v)
    BY DEF M!Step, M!Executes, M!Awake, M!HasPending, Moves, Finds, Mach, Asleep, Irqs
  <1> QED BY <1>1 DEF M!Next

\* ... of Load: the program counter and the loaded register.
LEMMA ToLoad ==
  ASSUME NEW v \in VM, NEW m, Moves(v, m), Asleep' = Asleep, Finds(v, "load"),
         m = [Mach[v] EXCEPT !.pc = PcInc(Mach[v].pc), !.usr = DataInc(Mach[v].usr)]
  PROVE  M!Next
  <1>1. M!Load(v)
    BY DEF M!Load, M!Executes, M!Awake, Moves, Finds, Mach, Asleep, Irqs
  <1> QED BY <1>1 DEF M!Next

\* ... of WaitForInterrupt.
LEMMA ToWait ==
  ASSUME NEW v \in VM, NEW m, Moves(v, m), Asleep' = Asleep \cup {v}, Finds(v, "wfi"),
         ~\E p \in Pids : irq_target(p) = v /\ Irqs[p] = "pending",
         m = [Mach[v] EXCEPT !.pc = PcInc(Mach[v].pc)]
  PROVE  M!Next
  <1>1. M!WaitForInterrupt(v)
    BY DEF M!WaitForInterrupt, M!Executes, M!Awake, M!HasPending, Moves, Finds, Mach, Asleep, Irqs
  <1> QED BY <1>1 DEF M!Next

\* ... of Deliver.
LEMMA ToDeliver ==
  ASSUME NEW p \in Pids, halt = "no", halt' = "no", Irqs[p] = "inactive",
         Irqs' = [Irqs EXCEPT ![p] = "pending"],
         Asleep' = Asleep \ {irq_target(p)}, Mach' = Mach
  PROVE  M!Next
  <1>1. M!Deliver(p)
    BY DEF M!Deliver, Mach, Asleep, Irqs
  <1> QED BY <1>1 DEF M!Next

\* ... of Acknowledge.
LEMMA ToAcknowledge ==
  ASSUME NEW p \in Pids, halt = "no", halt' = "no", Irqs[p] = "pending",
         Irqs' = [Irqs EXCEPT ![p] = "active"], irq_target(p) \notin Asleep,
         Asleep' = Asleep, Mach' = Mach
  PROVE  M!Next
  <1>1. M!Acknowledge(p)
    BY DEF M!Acknowledge, M!Awake, Mach, Asleep, Irqs
  <1> QED BY <1>1 DEF M!Next

\* ... of EndOfInterrupt.
LEMMA ToEnd ==
  ASSUME NEW p \in Pids, halt = "no", halt' = "no", Irqs[p] = "active",
         Irqs' = [Irqs EXCEPT ![p] = "inactive"], irq_target(p) \notin Asleep,
         Asleep' = Asleep, Mach' = Mach
  PROVE  M!Next
  <1>1. M!EndOfInterrupt(p)
    BY DEF M!EndOfInterrupt, M!Awake, Mach, Asleep, Irqs
  <1> QED BY <1>1 DEF M!Next

(***************************************************************************)
(* How the concrete steps move the abstract variables.                      *)
(***************************************************************************)
\* The running guest has a pending interrupt exactly when its machine has.
LEMMA PendingSeen ==
  ASSUME Inv, IrqInv, GuestRuns
  PROVE  VirqPending <=> \E p \in Pids : irq_target(p) = vm_id /\ Irqs[p] = "pending"
  <1>1. vm_id \in VM /\ Lists[vm_id] = cpu.list /\ halt = "no" /\ act \subseteq Pids
    BY RunningList, TypeSplit DEF Lists, GuestRuns, Inv, GicType
  <1>2. \A p \in Pids : irq_target(p) = vm_id =>
          (Irqs[p] = "pending" <=> Holds(cpu.list, p, "LR_Pending"))
    BY <1>1, IrqsOfLists DEF IrqState
  <1>3. ASSUME VirqPending PROVE \E p \in Pids : irq_target(p) = vm_id /\ Irqs[p] = "pending"
    <2>1. PICK i \in LRs : cpu.list[i].state = "LR_Pending"
      BY <1>3 DEF VirqPending
    <2>2. cpu.list[i].pid \in Pids /\ irq_target(cpu.list[i].pid) = vm_id
      BY <1>1, <2>1 DEF IrqInv, Conserved, Used
    <2> QED BY <1>2, <2>1, <2>2 DEF Holds
  <1>4. ASSUME NEW p \in Pids, irq_target(p) = vm_id, Irqs[p] = "pending" PROVE VirqPending
    BY <1>2, <1>4 DEF Holds, VirqPending
  <1> QED BY <1>3, <1>4

\* A context with another program counter.
LEMMA ElrRegs ==
  ASSUME NEW hw \in Context
  PROVE  /\ SavedRegs(elr_advanced(hw)) = [SavedRegs(hw) EXCEPT !.pc = PcInc(hw.rf.elr)]
         /\ elr_advanced(hw).rf.elr = PcInc(hw.rf.elr)
         /\ elr_advanced(hw).rf.usr = hw.rf.usr
         /\ elr_retreated(hw).rf.elr = PcDec(hw.rf.elr)
         /\ SavedRegs(elr_retreated(hw)) = [SavedRegs(hw) EXCEPT !.pc = PcDec(hw.rf.elr)]
  BY DEF elr_advanced, elr_retreated, Context, SavedRegs

\* Redoing an instruction: the correction undoes the advance.
LEMMA RedoRegs ==
  ASSUME NEW hw \in Context, hw.rf.elr.n \in 0 .. PcMod - 1
  PROVE  SavedRegs(elr_retreated(elr_advanced(hw))) = SavedRegs(hw)
  <1> DEFINE h == elr_advanced(hw)
  <1>1. h \in Context /\ h.rf.elr = PcInc(hw.rf.elr)
        /\ SavedRegs(h) = [SavedRegs(hw) EXCEPT !.pc = PcInc(hw.rf.elr)]
    BY ElrLemma, ElrRegs
  <1>2. PcDec(PcInc(hw.rf.elr)) = hw.rf.elr
    BY PcBack DEF Context
  <1> HIDE DEF h
  <1>3. SavedRegs(elr_retreated(h)) = [SavedRegs(h) EXCEPT !.pc = PcDec(h.rf.elr)]
    BY <1>1, ElrRegs
  <1>4. PcDec(h.rf.elr) = hw.rf.elr
    BY <1>1, <1>2
  <1> QED BY <1>1, <1>3, <1>4 DEF h, SavedRegs

\* Steps that move no list register, whether or not they switch.
LEMMA QuietSteps ==
  ASSUME Inv,
         \/ GuestExecute \/ GuestWfiNoWait \/ trap_wfi \/ trap_cp \/ trap_hvc
         \/ trap_dabort_memory \/ trap_dabort_load \/ trap_dabort_store \/ trap_error
         \/ irq_timer \/ irq_spurious \/ irq_unknown \/ Tick \/ Exited \/ UNCHANGED vars
         \/ \E pid \in Pids : Raise(pid)
  PROVE  Lists' = Lists
  <1>1. SchedType /\ cpu \in Context
    BY TypeSplit DEF Inv, SchedType
  <1>2. UNCHANGED bk /\ cpu'.list = cpu.list => Lists' = Lists
    BY DEF Lists, EffList
  <1>3. ASSUME NEW w, NEW hw, SchedPost(w, bk, hw), hw.list = cpu.list PROVE Lists' = Lists
    <2>1. Lists' = [v \in VM |-> IF bk[v].dirty THEN hw.list ELSE bk[v].list]
      BY <1>3, SchedLists
    <2>2. Lists = [v \in VM |-> IF bk[v].dirty THEN cpu.list ELSE bk[v].list]
      BY DEF Lists, EffList
    <2> QED BY <1>3, <2>1, <2>2
  <1>4. CASE GuestExecute
    BY <1>1, <1>2, <1>4 DEF GuestExecute, Context
  <1>5. CASE GuestWfiNoWait \/ trap_cp \/ trap_dabort_store
    <2>1. cpu' = elr_advanced(cpu) /\ UNCHANGED bk
      BY <1>5 DEF GuestWfiNoWait, trap_cp, trap_dabort_store, elr_advanced
    <2> QED BY <1>1, <1>2, <2>1, ElrLemma
  <1>6. CASE trap_hvc \/ trap_dabort_memory
    <2>1. /\ \/ cpu' = elr_retreated(elr_advanced(elr_advanced(cpu)))
             \/ cpu' = elr_retreated(elr_advanced(cpu)) \/ cpu' = cpu
          /\ UNCHANGED bk
      BY <1>6 DEF trap_hvc, trap_dabort_memory, elr_advanced
    <2> QED BY <1>1, <1>2, <2>1, ElrLemma
  <1>7. CASE trap_dabort_load
    <2>1. cpu'.list = elr_advanced(cpu).list /\ UNCHANGED bk
      BY <1>1, <1>7, ElrLemma DEF trap_dabort_load, write_reg_to_stack, Context
    <2> QED BY <1>1, <1>2, <2>1, ElrLemma
  <1>8. CASE trap_wfi
    <2>1. [wfi_state EXCEPT ![vm_id] = "WFI_In"] \in [VM -> WfiStates]
      BY <1>1 DEF SchedType, WfiStates
    <2>2. /\ elr_advanced(cpu) \in Context
          /\ elr_advanced(cpu).cp15.vttbr = cpu.cp15.vttbr
          /\ elr_advanced(cpu).rf.elr.own = cpu.rf.elr.own
          /\ elr_advanced(cpu).list = cpu.list
      BY <1>1, ElrLemma
    <2>3. SchedPost([wfi_state EXCEPT ![vm_id] = "WFI_In"], bk, elr_advanced(cpu))
      BY <1>8, <2>1, <2>2, PreLemma, SchedulerLemma DEF trap_wfi
    <2> QED BY <1>3, <2>2, <2>3
  <1>9. CASE irq_timer
    <2>1. SchedPost(wfi_state, bk, cpu)
      BY <1>1, <1>9, PreLemma, SchedulerLemma DEF irq_timer, SchedType
    <2> QED BY <1>3, <2>1
  <1>10. CASE \/ trap_error \/ irq_spurious \/ irq_unknown \/ Tick \/ Exited \/ UNCHANGED vars
              \/ \E pid \in Pids : Raise(pid)
    BY <1>2, <1>10 DEF trap_error, irq_spurious, irq_unknown, Tick, Exited, vars, schedVars, Raise
  <1> QED BY <1>4, <1>5, <1>6, <1>7, <1>8, <1>9, <1>10

\* Steps of the CPU that touch neither lists nor backups nor sleep states.
LEMMA QuietLists ==
  ASSUME UNCHANGED <<bk, wfi_state>>, cpu'.list = cpu.list
  PROVE  Irqs' = Irqs /\ Asleep' = Asleep
  <1>1. Lists' = Lists
    BY DEF Lists, EffList
  <1> QED BY <1>1, IrqsOfLists, IrqsOfListsPrime DEF Asleep

\* Steps that change no context at all.
LEMMA QuietAll ==
  ASSUME UNCHANGED <<bk, cpu, wfi_state>>
  PROVE  Unseen
  <1>1. Mach' = Mach
    BY DEF Mach, EffContext
  <1> QED BY <1>1, QuietLists DEF Unseen

\* After a scheduler call the machines are those of the copies it got.
LEMMA SchedMach ==
  ASSUME NEW w, NEW b, NEW hw, SchedPost(w, b, hw)
  PROVE  /\ Mach' = [v \in VM |-> IF b[v].dirty THEN SavedRegs(hw) ELSE SavedRegs(b[v])]
         /\ Asleep' = {v \in VM : w[v] = "WFI_In"}
  BY DEF SchedPost, Mach, Asleep

\* Injecting an interrupt changes no register of any VM.
LEMMA InjectMach ==
  ASSUME Inv, NEW pid \in Pids, NEW i \in LRs
  PROVE  LET t == irq_target(pid)
             b == InjBk(t, pid, i)
             hw == InjCpu(t, pid, i)
         IN  Mach = [v \in VM |-> IF b[v].dirty THEN SavedRegs(hw) ELSE SavedRegs(b[v])]
  <1> DEFINE t == irq_target(pid)
  <1> DEFINE l2 == [InjList(t) EXCEPT ![i] = pending_lr(t, pid)]
  <1>1. t \in VM /\ bk \in [VM -> Backup] /\ cpu \in Context
    BY TypeSplit, TargetType DEF Inv, SchedType
  <1>2. InjCpu(t, pid, i) = IF target_is_active(t) THEN [cpu EXCEPT !.list = l2] ELSE cpu
    BY DEF InjCpu
  <1>3. InjBk(t, pid, i) = IF target_is_active(t) THEN bk ELSE [bk EXCEPT ![t].list = l2]
    BY DEF InjBk
  <1> HIDE DEF t, l2
  <1>4. SavedRegs(InjCpu(t, pid, i)) = SavedRegs(cpu)
    BY <1>1, <1>2 DEF Context, SavedRegs
  <1>5. ASSUME NEW v \in VM
        PROVE  InjBk(t, pid, i)[v].dirty = bk[v].dirty
               /\ SavedRegs(InjBk(t, pid, i)[v]) = SavedRegs(bk[v])
    BY <1>1, <1>3 DEF Backup, SavedRegs
  <1> QED BY <1>4, <1>5 DEF Mach, EffContext, t

\* Ownership of contexts is a fact about the machines.
LEMMA OwnMoved ==
  ASSUME OwnContexts, NEW v \in VM, NEW m, Mach' = [Mach EXCEPT ![v] = m], Tagged(m, v)
  PROVE  OwnContexts'
  <1>1. \A u \in VM : Mach'[u] = EffContext(u)' /\ Mach[u] = EffContext(u)
    BY DEF Mach
  <1>2. \A u \in VM : Mach'[u] = IF u = v THEN m ELSE Mach[u]
    BY DEF Mach
  <1>3. \A u \in VM : Tagged(Mach'[u], u)
    BY <1>1, <1>2 DEF OwnContexts
  <1>4. ASSUME NEW u \in VM PROVE Tagged(EffContext(u)', u)
    BY <1>1, <1>3
  <1> QED BY <1>4 DEF OwnContexts, Tagged

\* The same when no machine moves.
LEMMA OwnKept == OwnContexts /\ Mach' = Mach => OwnContexts'
  <1> SUFFICES ASSUME OwnContexts, Mach' = Mach PROVE OwnContexts'
    OBVIOUS
  <1>1. \A u \in VM : Mach'[u] = EffContext(u)' /\ Mach[u] = EffContext(u)
    BY DEF Mach
  <1>2. ASSUME NEW u \in VM PROVE EffContext(u)' = EffContext(u)
    BY <1>1
  <1> QED BY <1>2 DEF OwnContexts, Tagged

\* A guest step that only advances the program counter.
LEMMA AdvanceMach ==
  ASSUME Inv, OwnContexts, GuestRuns
  PROVE  LET m == [Mach[vm_id] EXCEPT !.pc = PcInc(Mach[vm_id].pc)]
         IN  SavedRegs(elr_advanced(cpu)) = m /\ Tagged(m, vm_id)
  <1>1. /\ vm_id \in VM /\ cpu \in Context
        /\ Mach[vm_id] = SavedRegs(cpu) /\ Tagged(SavedRegs(cpu), vm_id)
    BY RunMach
  <1>2. cpu.rf.elr \in Regs /\ SavedRegs(cpu).pc = cpu.rf.elr
    BY <1>1 DEF Context, SavedRegs
  <1>3. PcInc(cpu.rf.elr).n \in 0 .. PcMod - 1 /\ PcInc(cpu.rf.elr).own = vm_id
    BY <1>1, <1>2, PcBack, RegType DEF Tagged
  <1>4. SavedRegs(elr_advanced(cpu)) = [SavedRegs(cpu) EXCEPT !.pc = PcInc(cpu.rf.elr)]
    BY <1>1, ElrRegs
  <1>5. Tagged([SavedRegs(cpu) EXCEPT !.pc = PcInc(cpu.rf.elr)], vm_id)
    BY <1>1, <1>3 DEF Tagged, SavedRegs
  <1> QED BY <1>1, <1>2, <1>4, <1>5

(***************************************************************************)
(* The step simulation.                                                    *)
(***************************************************************************)
Simulates == OwnContexts' /\ [M!Next]_(M!vars)

\* Instructions the guest executes and the traps that do not switch.
LEMMA GuestSim ==
  ASSUME Inv, IrqInv, OwnContexts,
         \/ GuestExecute \/ GuestWfiNoWait \/ trap_cp \/ trap_dabort_store \/ trap_hvc
         \/ trap_dabort_memory \/ trap_dabort_load \/ trap_error
  PROVE  Simulates
  <1>1. GuestRuns
    BY DEF GuestExecute, GuestWfiNoWait, trap_cp, trap_dabort_store, trap_hvc,
           trap_dabort_memory, trap_dabort_load, trap_error, Executes
  <1>2. /\ vm_id \in VM /\ Running = vm_id /\ cpu \in Context
        /\ vm_id \notin Asleep /\ halt = "no"
        /\ Mach[vm_id] = SavedRegs(cpu)
        /\ Tagged(SavedRegs(cpu), vm_id)
        /\ bk' = bk => Mach' = [Mach EXCEPT ![vm_id] = SavedRegs(cpu')]
    BY <1>1, RunMach
  <1>3. /\ Mach[vm_id].pc = cpu.rf.elr /\ Mach[vm_id].bank = cpu.rf.bank
        /\ Mach[vm_id].usr = cpu.rf.usr
        /\ cpu.rf.elr \in Regs /\ cpu.rf.bank \in Regs /\ cpu.rf.usr \in Regs
    BY <1>2 DEF SavedRegs, Context
  <1>4. \A ins : Executes(ins) <=> Finds(vm_id, ins)
    BY <1>1, <1>3 DEF Executes, Finds
  <1> DEFINE adv == [Mach[vm_id] EXCEPT !.pc = PcInc(Mach[vm_id].pc)]
  <1>5. SavedRegs(elr_advanced(cpu)) = adv /\ Tagged(adv, vm_id)
    BY <1>1, AdvanceMach
  <1> HIDE DEF adv
  <1>6. CASE GuestExecute
    <2> DEFINE new == DataInc(cpu.rf.bank)
               m == [pc |-> PcInc(cpu.rf.elr), usr |-> new, bank |-> new,
                     sys |-> new, ctlr |-> new]
    <2>1. Reg(Running, DataInc(cpu.rf.bank).n) = new /\ new.own = vm_id
      BY <1>2, <1>3 DEF Tagged, SavedRegs, DataInc, Reg
    <2>2. cpu' = [cpu EXCEPT !.rf = [usr |-> new, bank |-> new, elr |-> PcInc(cpu.rf.elr)],
                             !.cp15.sys = new, !.ctlr = new]
      BY <1>6, <2>1 DEF GuestExecute
    <2>3. PcInc(cpu.rf.elr).n \in 0 .. PcMod - 1 /\ PcInc(cpu.rf.elr).own = vm_id
      BY <1>2, <1>3, PcBack, RegType DEF Tagged
    <2> HIDE DEF new
    <2>4. SavedRegs(cpu') = m /\ cpu'.list = cpu.list
      BY <1>2, <2>2 DEF SavedRegs, Context
    <2>5. Tagged(m, vm_id)
      BY <2>1, <2>3 DEF Tagged
    <2> HIDE DEF m
    <2>6. UNCHANGED <<bk, wfi_state, halt>> /\ (Finds(vm_id, "run") \/ Finds(vm_id, "ram"))
      BY <1>4, <1>6 DEF GuestExecute
    <2>7. Moves(vm_id, m) /\ Asleep' = Asleep
      BY <1>2, <2>4, <2>6, QuietLists DEF Moves
    <2>8. m = [pc  |-> PcInc(Mach[vm_id].pc), usr |-> DataInc(Mach[vm_id].bank),
               bank |-> DataInc(Mach[vm_id].bank), sys |-> DataInc(Mach[vm_id].bank),
               ctlr |-> DataInc(Mach[vm_id].bank)]
      BY <1>3 DEF m, new
    <2>9. M!Next
      BY <1>2, <2>6, <2>7, <2>8, ToExecute
    <2>10. OwnContexts'
      BY <1>2, <2>5, <2>7, OwnMoved DEF Moves
    <2> QED BY <2>9, <2>10 DEF Simulates
  <1>7. CASE GuestWfiNoWait \/ trap_cp \/ trap_dabort_store
    <2>1. cpu' = elr_advanced(cpu) /\ UNCHANGED <<bk, wfi_state, halt>>
      BY <1>7 DEF GuestWfiNoWait, trap_cp, trap_dabort_store, elr_advanced
    <2>2. cpu'.list = cpu.list
      BY <1>2, <2>1, ElrLemma
    <2>3. Moves(vm_id, adv) /\ Asleep' = Asleep
      BY <1>2, <1>5, <2>1, <2>2, QuietLists DEF Moves
    <2>4. \/ Finds(vm_id, "cp") \/ Finds(vm_id, "hvc") \/ Finds(vm_id, "store")
          \/ Finds(vm_id, "wfi") /\ \E p \in Pids : irq_target(p) = vm_id /\ Irqs[p] = "pending"
      BY <1>1, <1>4, <1>7, PendingSeen DEF GuestWfiNoWait, trap_cp, trap_dabort_store
    <2>5. M!Next
      BY <1>2, <2>3, <2>4, ToStep DEF adv
    <2>6. OwnContexts'
      BY <1>2, <1>5, <2>3, OwnMoved DEF Moves
    <2> QED BY <2>5, <2>6 DEF Simulates
  <1>8. CASE trap_hvc
    <2> DEFINE hw == elr_advanced(cpu)
    <2>1. cpu' = elr_retreated(elr_advanced(hw)) /\ UNCHANGED <<bk, wfi_state, halt>>
      BY <1>8 DEF trap_hvc, elr_advanced
    <2>2. hw \in Context /\ hw.list = cpu.list /\ hw.rf.elr = PcInc(cpu.rf.elr)
      BY <1>2, ElrLemma, ElrRegs
    <2>3. hw.rf.elr.n \in 0 .. PcMod - 1
      BY <1>2, <1>3, <2>2, PcBack DEF Tagged
    <2>4. SavedRegs(hw) = adv
      BY <1>5
    <2> HIDE DEF hw
    <2>5. SavedRegs(cpu') = adv /\ cpu'.list = cpu.list
      BY <2>1, <2>2, <2>3, <2>4, RedoRegs, ElrLemma
    <2>6. Moves(vm_id, adv) /\ Asleep' = Asleep
      BY <1>2, <2>1, <2>5, QuietLists DEF Moves
    <2>7. Finds(vm_id, "hvc")
      BY <1>4, <1>8 DEF trap_hvc
    <2>8. M!Next
      BY <1>2, <2>6, <2>7, ToStep DEF adv
    <2>9. OwnContexts'
      BY <1>2, <1>5, <2>6, OwnMoved DEF Moves
    <2> QED BY <2>8, <2>9 DEF Simulates
  <1>9. CASE trap_dabort_memory
    <2>1. UNCHANGED <<bk, wfi_state>>
      BY <1>9 DEF trap_dabort_memory
    <2>2. SavedRegs(cpu') = SavedRegs(cpu) /\ cpu'.list = cpu.list
      <3>1. cpu.rf.elr.n \in 0 .. PcMod - 1
        BY <1>2, <1>3 DEF Tagged
      <3>2. CASE cpu' = elr_retreated(elr_advanced(cpu))
        BY <1>2, <3>1, <3>2, RedoRegs, ElrLemma
      <3>3. CASE cpu' = cpu
        BY <3>3
      <3> QED BY <1>9, <3>2, <3>3 DEF trap_dabort_memory
    <2>3. Unseen
      <3>1. Mach' = Mach
        BY <1>2, <2>1, <2>2 DEF Mach
      <3> QED BY <2>1, <2>2, <3>1, QuietLists DEF Unseen
    <2>4. [M!Next]_(M!vars)
      BY <1>2, <2>3, ToStutter, ToStop
    <2> QED BY <2>3, <2>4, OwnKept DEF Simulates, Unseen
  <1>10. CASE trap_dabort_load
    <2> DEFINE hw == elr_advanced(cpu)
               m == [Mach[vm_id] EXCEPT !.pc = PcInc(Mach[vm_id].pc), !.usr = DataInc(Mach[vm_id].usr)]
    <2>1. /\ cpu' = [hw EXCEPT !.rf.usr = Reg(vm_id, DataInc(hw.rf.usr).n)]
          /\ UNCHANGED <<bk, wfi_state, halt>>
      BY <1>2, <1>10 DEF trap_dabort_load, write_reg_to_stack
    <2>2. hw \in Context /\ hw.list = cpu.list /\ hw.rf.usr = cpu.rf.usr
      BY <1>2, ElrLemma, ElrRegs
    <2>3. Reg(vm_id, DataInc(cpu.rf.usr).n) = DataInc(cpu.rf.usr) /\ DataInc(cpu.rf.usr).own = vm_id
      BY <1>2, <1>3 DEF Tagged, SavedRegs, DataInc, Reg
    <2>4. SavedRegs(hw) = [SavedRegs(cpu) EXCEPT !.pc = PcInc(cpu.rf.elr)]
      BY <1>2, ElrRegs
    <2>5. PcInc(cpu.rf.elr).n \in 0 .. PcMod - 1 /\ PcInc(cpu.rf.elr).own = vm_id
      BY <1>2, <1>3, PcBack, RegType DEF Tagged
    <2> HIDE DEF hw
    <2>6. cpu' = [hw EXCEPT !.rf.usr = DataInc(cpu.rf.usr)]
      BY <2>1, <2>2, <2>3
    <2>7. SavedRegs(cpu') = [SavedRegs(hw) EXCEPT !.usr = DataInc(cpu.rf.usr)] /\ cpu'.list = cpu.list
      BY <2>2, <2>6 DEF SavedRegs, Context
    <2>8. m = [SavedRegs(cpu) EXCEPT !.pc = PcInc(cpu.rf.elr), !.usr = DataInc(cpu.rf.usr)]
      BY <1>2, <1>3
    <2>9. SavedRegs(cpu') = m
      BY <2>4, <2>7, <2>8 DEF SavedRegs
    <2>10. Tagged(m, vm_id)
      BY <1>2, <2>3, <2>5, <2>8 DEF Tagged, SavedRegs
    <2>11. Moves(vm_id, m) /\ Asleep' = Asleep
      BY <1>2, <2>1, <2>7, <2>9, QuietLists DEF Moves
    <2>12. M!Next
      BY <1>2, <1>4, <1>10, <2>11, ToLoad DEF trap_dabort_load
    <2>13. OwnContexts'
      BY <1>2, <2>10, <2>11, OwnMoved DEF Moves
    <2> QED BY <2>12, <2>13 DEF Simulates
  <1>11. CASE trap_error
    <2>1. Unseen
      BY <1>11, QuietAll DEF trap_error, schedVars
    <2>2. M!Next
      BY <1>2, <1>11, <2>1, ToStop DEF trap_error
    <2> QED BY <2>1, <2>2, OwnKept DEF Simulates, Unseen
  <1> QED BY <1>6, <1>7, <1>8, <1>9, <1>10, <1>11

\* Lists L and K differ at most in register i of VM v, which holds or held
\* another interrupt than q.
OneChanged(L, K, v, i, q) ==
  /\ \A u \in VM, j \in LRs : ~(u = v /\ j = i) => K[u][j] = L[u][j]
  /\ Used(L[v][i]) => L[v][i].pid # q
  /\ Used(K[v][i]) => K[v][i].pid # q

\* Changing one list register of VM v moves only the interrupts it held or
\* holds now.
LEMMA OneRegister ==
  ASSUME NEW L, NEW K, NEW v \in VM, NEW i \in LRs, NEW q \in Pids,
         OneChanged(L, K, v, i, q)
  PROVE  IrqState(K, q) = IrqState(L, q)
  <1>1. irq_target(q) \in VM
    BY TargetType
  <1>2. ASSUME NEW s \in {"LR_Pending", "LR_Active"}
        PROVE  Holds(K[irq_target(q)], q, s) <=> Holds(L[irq_target(q)], q, s)
    <2>1. \A j \in LRs : (K[irq_target(q)][j].pid = q /\ K[irq_target(q)][j].state = s)
                     <=> (L[irq_target(q)][j].pid = q /\ L[irq_target(q)][j].state = s)
      <3> TAKE j \in LRs
      <3>1. CASE irq_target(q) = v /\ j = i
        BY <1>1, <3>1 DEF Used, OneChanged
      <3>2. CASE ~(irq_target(q) = v /\ j = i)
        BY <1>1, <3>2 DEF OneChanged
      <3> QED BY <3>1, <3>2
    <2> QED BY <2>1 DEF Holds
  <1> QED BY <1>2 DEF IrqState

\* From lists L to lists K interrupt p goes from state a to state b, and no
\* other interrupt moves.
OneMoves(L, K, p, a, b) ==
  /\ p \in Pids
  /\ IrqState(L, p) = a
  /\ IrqState(K, p) = b
  /\ \A q \in Pids \ {p} : IrqState(K, q) = IrqState(L, q)

\* Acknowledging: pending becomes active, for this interrupt only.
LEMMA IrqAck ==
  ASSUME NEW L \in [VM -> [LRs -> LRType]], NEW A \in SUBSET Pids, Conserved(L, A),
         NEW v \in VM, NEW i \in LRs, L[v][i].state = "LR_Pending",
         NEW K, K = [L EXCEPT ![v] = [L[v] EXCEPT ![i] = [L[v][i] EXCEPT !.state = "LR_Active"]]]
  PROVE  /\ OneMoves(L, K, L[v][i].pid, "pending", "active")
         /\ irq_target(L[v][i].pid) = v
  <1> DEFINE p == L[v][i].pid
             r == [L[v][i] EXCEPT !.state = "LR_Active"]
  <1>1. /\ p \in Pids /\ irq_target(p) = v
        /\ \A j \in LRs : Used(L[v][j]) /\ L[v][j].pid = p => j = i
    BY DEF Conserved, Used
  <1>2. r \in LRType /\ r.pid = p /\ r.state = "LR_Active"
    <2> DEFINE x == L[v][i]
    <2>1. x \in LRType
      OBVIOUS
    <2> HIDE DEF x
    <2>2. LET y == [x EXCEPT !.state = "LR_Active"]
          IN  y \in LRType /\ y.pid = x.pid /\ y.state = "LR_Active"
      BY <2>1 DEF LRType
    <2> QED BY <2>2 DEF x
  <1>3. IrqState(L, p) = "pending"
    BY <1>1 DEF IrqState, Holds
  <1>4. IrqState(K, p) = "active"
    <2>1. K[v][i] = r /\ \A j \in LRs : j # i => K[v][j] = L[v][j]
      OBVIOUS
    <2>2. \A j \in LRs : K[v][j].pid = p => K[v][j].state # "LR_Pending"
      BY <1>1, <1>2, <2>1 DEF Used
    <2> QED BY <1>1, <1>2, <2>1, <2>2 DEF IrqState, Holds
  <1>5. ASSUME NEW q \in Pids \ {p} PROVE IrqState(K, q) = IrqState(L, q)
    <2>1. \A u \in VM, j \in LRs : ~(u = v /\ j = i) => K[u][j] = L[u][j]
      OBVIOUS
    <2>2. L[v][i].pid # q /\ K[v][i].pid # q /\ q \in Pids
      BY <1>2
    <2>3. OneChanged(L, K, v, i, q)
      BY <2>1, <2>2 DEF OneChanged
    <2> QED BY <2>2, <2>3, OneRegister
  <1> QED BY <1>1, <1>3, <1>4, <1>5 DEF OneMoves

\* Ending: active becomes inactive, for this interrupt only.
LEMMA IrqEnd ==
  ASSUME NEW L \in [VM -> [LRs -> LRType]], NEW A \in SUBSET Pids, Conserved(L, A),
         NEW v \in VM, NEW i \in LRs, L[v][i].state = "LR_Active",
         NEW K, K = [L EXCEPT ![v] = [L[v] EXCEPT ![i] = EmptyLR]]
  PROVE  /\ OneMoves(L, K, L[v][i].pid, "active", "inactive")
         /\ irq_target(L[v][i].pid) = v
  <1> DEFINE p == L[v][i].pid
  <1>1. /\ p \in Pids /\ irq_target(p) = v
        /\ \A j \in LRs : Used(L[v][j]) /\ L[v][j].pid = p => j = i
    BY DEF Conserved, Used
  <1>2. EmptyLR \in LRType /\ EmptyLR.state = "LR_Invalid"
    BY DEF LRType, EmptyLR
  <1>3. IrqState(L, p) = "active"
    BY <1>1 DEF IrqState, Holds, Used
  <1>4. IrqState(K, p) = "inactive"
    <2>1. K[v][i] = EmptyLR /\ \A j \in LRs : j # i => K[v][j] = L[v][j]
      OBVIOUS
    <2>2. \A j \in LRs : K[v][j].pid = p => K[v][j].state \notin {"LR_Pending", "LR_Active"}
      BY <1>1, <1>2, <2>1 DEF Used
    <2> QED BY <1>1, <2>2 DEF IrqState, Holds
  <1>5. ASSUME NEW q \in Pids \ {p} PROVE IrqState(K, q) = IrqState(L, q)
    <2>1. \A u \in VM, j \in LRs : ~(u = v /\ j = i) => K[u][j] = L[u][j]
      OBVIOUS
    <2>2. L[v][i].pid # q /\ ~Used(K[v][i]) /\ q \in Pids
      BY <1>2 DEF Used
    <2>3. OneChanged(L, K, v, i, q)
      BY <2>1, <2>2 DEF OneChanged
    <2> QED BY <2>2, <2>3, OneRegister
  <1> QED BY <1>1, <1>3, <1>4, <1>5 DEF OneMoves

\* Injecting: inactive becomes pending, for this interrupt only.
LEMMA IrqAdd ==
  ASSUME NEW L \in [VM -> [LRs -> LRType]], NEW A \in SUBSET Pids, Conserved(L, A),
         NEW p \in Pids \ A, NEW i \in LRs, ~Used(L[irq_target(p)][i]),
         NEW K, K = [L EXCEPT ![irq_target(p)] =
                       [L[irq_target(p)] EXCEPT ![i] = pending_lr(irq_target(p), p)]]
  PROVE  OneMoves(L, K, p, "inactive", "pending")
  <1> DEFINE t == irq_target(p)
             r == pending_lr(t, p)
  <1>1. t \in VM /\ t \in Int /\ p \in {40 + t, 44 + t, 48 + t}
    BY TargetType DEF VM
  <1>2. vdev_gic2_dist_irq_to_virq(t, p) \in Int
    BY VirqMapped
  <1>3. r \in LRType /\ r.pid = p /\ r.state = "LR_Pending"
    <2>1. p \in Int
      BY <1>1
    <2> QED BY <1>2, <2>1 DEF pending_lr, LRType
  <1>4. IrqState(L, p) = "inactive"
    <2>1. \A j \in LRs : L[t][j].pid = p => ~Used(L[t][j])
      BY <1>1 DEF Conserved
    <2> QED BY <2>1 DEF IrqState, Holds, Used
  <1> HIDE DEF r
  <1>5. K[t][i] = r
    BY <1>1 DEF r
  <1>6. IrqState(K, p) = "pending"
    BY <1>3, <1>5 DEF IrqState, Holds
  <1>7. ASSUME NEW q \in Pids \ {p} PROVE IrqState(K, q) = IrqState(L, q)
    <2>1. \A u \in VM, j \in LRs : ~(u = t /\ j = i) => K[u][j] = L[u][j]
      BY <1>1
    <2>2. ~Used(L[t][i]) /\ K[t][i].pid # q /\ q \in Pids
      BY <1>3, <1>5
    <2>3. OneChanged(L, K, t, i, q)
      BY <2>1, <2>2 DEF OneChanged
    <2> HIDE DEF t
    <2> QED BY <1>1, <2>2, <2>3, OneRegister
  <1> QED BY <1>4, <1>6, <1>7 DEF OneMoves

\* ... which is how the abstract variable changes.
LEMMA IrqsMoved ==
  ASSUME NEW p, NEW a, NEW b, OneMoves(Lists, Lists', p, a, b)
  PROVE  p \in Pids /\ Irqs[p] = a /\ Irqs' = [Irqs EXCEPT ![p] = b]
  BY IrqsOfLists, IrqsOfListsPrime DEF OneMoves

\* The guest's own accesses to the virtual CPU interface move one interrupt.
LEMMA InterfaceMoves ==
  ASSUME Inv, IrqInv, NEW i \in LRs, GuestAck(i) \/ GuestEoi(i)
  PROVE  LET p == cpu.list[i].pid
         IN  /\ GuestAck(i) => OneMoves(Lists, Lists', p, "pending", "active")
             /\ GuestEoi(i) => OneMoves(Lists, Lists', p, "active", "inactive")
             /\ irq_target(p) = vm_id
  <1>1. GuestRuns
    BY DEF GuestAck, GuestEoi
  <1>2. /\ vm_id \in VM /\ cpu \in Context /\ bk' = bk
        /\ Lists \in [VM -> [LRs -> LRType]] /\ act \in SUBSET Pids /\ Conserved(Lists, act)
        /\ Lists[vm_id] = cpu.list
    BY <1>1, ListsType, TypeSplit, RunningList
       DEF Inv, GicType, SchedType, IrqInv, Lists, GuestAck, GuestEoi, GuestRuns
  <1>3. Lists' = [Lists EXCEPT ![vm_id] = cpu'.list]
    <2>1. \A v \in VM : bk[v].dirty <=> v = vm_id
      BY <1>1 DEF Inv, OwnInv, OwnershipConsistent, GuestRuns
    <2> QED BY <1>2, <2>1 DEF Lists, EffList
  <1> DEFINE p == Lists[vm_id][i].pid
  <1>4. ASSUME GuestAck(i)
        PROVE  OneMoves(Lists, Lists', p, "pending", "active") /\ irq_target(p) = vm_id
    <2>1. cpu'.list = [cpu.list EXCEPT ![i] = [cpu.list[i] EXCEPT !.state = "LR_Active"]]
      BY <1>2, <1>4 DEF GuestAck, Context
    <2>2. Lists' = [Lists EXCEPT ![vm_id] =
                      [Lists[vm_id] EXCEPT ![i] = [Lists[vm_id][i] EXCEPT !.state = "LR_Active"]]]
      BY <1>2, <1>3, <2>1
    <2>3. Lists[vm_id][i].state = "LR_Pending"
      BY <1>2, <1>4 DEF GuestAck
    <2> QED BY <1>2, <2>2, <2>3, IrqAck
  <1>5. ASSUME GuestEoi(i)
        PROVE  OneMoves(Lists, Lists', p, "active", "inactive") /\ irq_target(p) = vm_id
    <2>1. cpu'.list = [cpu.list EXCEPT ![i] = EmptyLR]
      BY <1>2, <1>5 DEF GuestEoi, Context
    <2>2. Lists' = [Lists EXCEPT ![vm_id] = [Lists[vm_id] EXCEPT ![i] = EmptyLR]]
      BY <1>2, <1>3, <2>1
    <2>3. Lists[vm_id][i].state = "LR_Active"
      BY <1>2, <1>5 DEF GuestEoi
    <2> QED BY <1>2, <2>2, <2>3, IrqEnd
  <1> QED BY <1>2, <1>4, <1>5

\* ... which is a step of the guest's machine.
LEMMA InterfaceSim ==
  ASSUME Inv, IrqInv, OwnContexts, NEW i \in LRs, GuestAck(i) \/ GuestEoi(i)
  PROVE  Simulates
  <1>1. GuestRuns
    BY DEF GuestAck, GuestEoi
  <1>2. /\ vm_id \in VM /\ cpu \in Context /\ vm_id \notin Asleep /\ halt = "no"
        /\ Mach[vm_id] = SavedRegs(cpu)
        /\ bk' = bk => Mach' = [Mach EXCEPT ![vm_id] = SavedRegs(cpu')]
    BY <1>1, RunMach
  <1>3. UNCHANGED <<bk, wfi_state, halt>> /\ Asleep' = Asleep
    BY DEF GuestAck, GuestEoi, Asleep
  <1>4. SavedRegs(cpu') = SavedRegs(cpu)
    BY <1>2 DEF GuestAck, GuestEoi, SavedRegs, Context
  <1>5. Mach' = Mach
    BY <1>2, <1>3, <1>4 DEF Mach
  <1> DEFINE p == cpu.list[i].pid
  <1>6. /\ GuestAck(i) => OneMoves(Lists, Lists', p, "pending", "active")
        /\ GuestEoi(i) => OneMoves(Lists, Lists', p, "active", "inactive")
        /\ irq_target(p) = vm_id
    BY InterfaceMoves
  <1> HIDE DEF p
  <1>7. CASE GuestAck(i)
    <2>1. p \in Pids /\ Irqs' = [Irqs EXCEPT ![p] = "active"] /\ Irqs[p] = "pending"
      BY <1>6, <1>7, IrqsMoved
    <2>2. M!Next
      BY <1>2, <1>3, <1>5, <1>6, <2>1, ToAcknowledge
    <2> QED BY <1>5, <2>2, OwnKept DEF Simulates
  <1>8. CASE GuestEoi(i)
    <2>1. p \in Pids /\ Irqs' = [Irqs EXCEPT ![p] = "inactive"] /\ Irqs[p] = "active"
      BY <1>6, <1>8, IrqsMoved
    <2>2. M!Next
      BY <1>2, <1>3, <1>5, <1>6, <2>1, ToEnd
    <2> QED BY <1>5, <2>2, OwnKept DEF Simulates
  <1> QED BY <1>7, <1>8

\* WFI: the guest's machine goes to sleep, whoever runs next.
LEMMA WfiSim ==
  ASSUME Inv, IrqInv, OwnContexts, trap_wfi
  PROVE  Simulates
  <1> DEFINE w == [wfi_state EXCEPT ![vm_id] = "WFI_In"]
             adv == [Mach[vm_id] EXCEPT !.pc = PcInc(Mach[vm_id].pc)]
  <1>1. GuestRuns /\ Executes("wfi") /\ ~VirqPending
    BY DEF trap_wfi, Executes
  <1>2. /\ vm_id \in VM /\ cpu \in Context /\ vm_id \notin Asleep /\ halt = "no"
        /\ Mach[vm_id] = SavedRegs(cpu)
    BY <1>1, RunMach
  <1>3. /\ wfi_state \in [VM -> WfiStates] /\ w \in [VM -> WfiStates]
        /\ \A v \in VM : bk[v].dirty <=> v = vm_id
    BY <1>1, TypeSplit DEF Inv, OwnInv, OwnershipConsistent, GuestRuns, SchedType, WfiStates
  <1>4. SavedRegs(elr_advanced(cpu)) = adv /\ Tagged(adv, vm_id)
    BY <1>1, AdvanceMach
  <1>5. SchedPost(w, bk, elr_advanced(cpu))
    <2>1. /\ elr_advanced(cpu) \in Context
          /\ elr_advanced(cpu).cp15.vttbr = cpu.cp15.vttbr
          /\ elr_advanced(cpu).rf.elr.own = cpu.rf.elr.own
      BY <1>2, ElrLemma
    <2> QED BY <1>3, <2>1, PreLemma, SchedulerLemma DEF trap_wfi
  <1>6. Asleep' = Asleep \cup {vm_id}
    <2>1. Asleep' = {v \in VM : w[v] = "WFI_In"}
      BY <1>5, SchedMach
    <2> QED BY <1>2, <1>3, <2>1 DEF Asleep
  <1>7. Mach' = [Mach EXCEPT ![vm_id] = adv]
    <2>1. Mach' = [v \in VM |-> IF bk[v].dirty THEN SavedRegs(elr_advanced(cpu)) ELSE SavedRegs(bk[v])]
      BY <1>5, SchedMach
    <2> HIDE DEF adv
    <2> QED BY <1>2, <1>3, <1>4, <2>1 DEF Mach, EffContext
  <1>8. Irqs' = Irqs
    BY QuietSteps, IrqsOfLists, IrqsOfListsPrime
  <1>9. halt' = "no"
    BY <1>2, <1>5 DEF SchedPost
  <1>10. Finds(vm_id, "wfi") /\ ~\E p \in Pids : irq_target(p) = vm_id /\ Irqs[p] = "pending"
    <2>1. Mach[vm_id].pc = cpu.rf.elr
      BY <1>2 DEF SavedRegs
    <2> QED BY <1>1, <2>1, PendingSeen DEF Executes, Finds
  <1>11. Moves(vm_id, adv)
    BY <1>2, <1>7, <1>8, <1>9 DEF Moves
  <1>12. M!Next
    BY <1>2, <1>6, <1>10, <1>11, ToWait
  <1>13. OwnContexts'
    BY <1>2, <1>4, <1>7, OwnMoved
  <1> QED BY <1>12, <1>13 DEF Simulates

\* A device interrupt that is injected becomes pending at its VM, changes no
\* other interrupt and no register, and wakes that VM only, also when a switch
\* out of the idle thread follows.
LEMMA DeviceMoves ==
  ASSUME Inv, IrqInv, NEW pid \in Pids, irq_device(pid),
         inject_failure(irq_target(pid), pid) = "no"
  PROVE  /\ OneMoves(Lists, Lists', pid, "inactive", "pending")
         /\ Mach' = Mach
         /\ Asleep' = Asleep \ {irq_target(pid)}
         /\ halt' = halt
  <1> DEFINE t == irq_target(pid)
  <1>1. halt = "no" /\ pid \in Pids \ act
    BY DEF irq_device
  <1>2. PICK i \in LRs : inject(t, pid, i)
    BY DEF irq_device
  <1>3. ~Used(Lists[t][i])
    BY <1>2, InjectLists DEF inject, InjList, FirstInvalid, Used
  <1>4. /\ Lists' = [v \in VM |-> IF InjBk(t, pid, i)[v].dirty THEN InjCpu(t, pid, i).list
                                                              ELSE InjBk(t, pid, i)[v].list]
        /\ Mach' = [v \in VM |-> IF InjBk(t, pid, i)[v].dirty THEN SavedRegs(InjCpu(t, pid, i))
                                                             ELSE SavedRegs(InjBk(t, pid, i)[v])]
        /\ Asleep' = {v \in VM : woken(t)[v] = "WFI_In"}
        /\ halt' = halt
    <2>1. CASE scheduler_idle
      <3>1. scheduler(woken(t), InjBk(t, pid, i), InjCpu(t, pid, i))
        BY <1>2, <2>1 DEF inject, InjBk, InjCpu, InjList
      <3>2. SchedPost(woken(t), InjBk(t, pid, i), InjCpu(t, pid, i))
        BY <3>1, InjectLemma, SchedulerLemma
      <3> QED BY <3>2, SchedLists, SchedMach
    <2>2. CASE ~scheduler_idle
      <3>1. /\ wfi_state' = woken(t) /\ bk' = InjBk(t, pid, i) /\ cpu' = InjCpu(t, pid, i)
            /\ halt' = halt
        BY <1>2, <2>2 DEF inject, InjBk, InjCpu, InjList
      <3> QED BY <3>1 DEF Lists, EffList, Mach, EffContext, Asleep
    <2> QED BY <2>1, <2>2
  <1>5. Mach' = Mach
    BY <1>4, InjectMach
  <1>6. Lists' = [Lists EXCEPT ![t] = [Lists[t] EXCEPT ![i] = pending_lr(t, pid)]]
    BY <1>4, InjectLists
  <1>7. Asleep' = Asleep \ {t}
    <2>1. wfi_state \in [VM -> WfiStates] /\ t \in VM
      BY TypeSplit, TargetType DEF Inv, SchedType
    <2> QED BY <1>4, <2>1 DEF Asleep, woken
  <1>8. OneMoves(Lists, Lists', pid, "inactive", "pending")
    <2>1. /\ Lists \in [VM -> [LRs -> LRType]] /\ act \in SUBSET Pids
          /\ Conserved(Lists, act)
      BY <1>1, ListsType, TypeSplit DEF Inv, GicType, IrqInv
    <2> QED BY <1>1, <1>3, <1>6, <2>1, IrqAdd
  <1> QED BY <1>4, <1>5, <1>7, <1>8

\* ... which is a delivery, or the end of the program.
LEMMA DeviceSim ==
  ASSUME Inv, IrqInv, OwnContexts, NEW pid \in Pids, irq_device(pid)
  PROVE  Simulates
  <1> DEFINE t == irq_target(pid)
  <1>1. halt = "no"
    BY DEF irq_device
  <1>2. CASE inject_failure(t, pid) # "no"
    <2>1. UNCHANGED <<bk, cpu, wfi_state>> /\ halt' # "no"
      BY <1>2 DEF irq_device, schedVars
    <2>2. Unseen
      BY <2>1, QuietAll
    <2>3. M!Next
      BY <1>1, <2>1, <2>2, ToStop
    <2> QED BY <2>2, <2>3, OwnKept DEF Simulates, Unseen
  <1>3. CASE inject_failure(t, pid) = "no"
    <2>1. /\ OneMoves(Lists, Lists', pid, "inactive", "pending")
          /\ Mach' = Mach /\ Asleep' = Asleep \ {t} /\ halt' = halt
      BY <1>3, DeviceMoves
    <2>2. Irqs' = [Irqs EXCEPT ![pid] = "pending"] /\ Irqs[pid] = "inactive"
      BY <2>1, IrqsMoved
    <2>3. M!Next
      BY <1>1, <2>1, <2>2, ToDeliver
    <2> QED BY <2>1, <2>3, OwnKept DEF Simulates
  <1> QED BY <1>2, <1>3

\* Every step of the hypervisor is a step of one machine, or unseen by all.
LEMMA NextSim == Inv /\ IrqInv /\ OwnContexts /\ [Next]_vars => Simulates
  <1> SUFFICES ASSUME Inv, IrqInv, OwnContexts, [Next]_vars PROVE Simulates
    OBVIOUS
  <1>1. ASSUME Unseen, halt' = "no" => halt = "no" PROVE Simulates
    BY <1>1, ToStutter, ToStop, OwnKept DEF Simulates, Unseen
  <1>2. CASE irq_timer
    <2>1. SchedPost(wfi_state, bk, cpu)
      BY <1>2, TypeSplit, PreLemma, SchedulerLemma DEF irq_timer, Inv, SchedType
    <2>2. Mach' = Mach /\ Asleep' = Asleep
      <3>1. /\ Mach' = [v \in VM |-> IF bk[v].dirty THEN SavedRegs(cpu) ELSE SavedRegs(bk[v])]
            /\ Asleep' = {v \in VM : wfi_state[v] = "WFI_In"}
        BY <2>1, SchedMach
      <3>2. Mach = [v \in VM |-> IF bk[v].dirty THEN SavedRegs(cpu) ELSE SavedRegs(bk[v])]
        BY DEF Mach, EffContext
      <3> QED BY <3>1, <3>2 DEF Asleep
    <2>3. Lists' = Lists
      BY <1>2, QuietSteps
    <2>4. Unseen
      BY <2>2, <2>3, IrqsOfLists, IrqsOfListsPrime DEF Unseen
    <2> QED BY <1>1, <1>2, <2>4 DEF irq_timer
  <1>3. CASE \/ irq_unknown \/ irq_spurious \/ Tick \/ Exited \/ UNCHANGED vars
             \/ \E pid \in Pids : Raise(pid)
    <2>1. UNCHANGED <<bk, cpu, wfi_state>> /\ (halt' = "no" => halt = "no")
      BY <1>3 DEF irq_unknown, irq_spurious, Tick, Exited, vars, schedVars, Raise
    <2> QED BY <1>1, <2>1, QuietAll
  <1>4. CASE \/ GuestExecute \/ GuestWfiNoWait \/ trap_cp \/ trap_dabort_store \/ trap_hvc
             \/ trap_dabort_memory \/ trap_dabort_load \/ trap_error
    BY <1>4, GuestSim
  <1>5. CASE \E i \in LRs : GuestAck(i) \/ GuestEoi(i)
    BY <1>5, InterfaceSim
  <1>6. CASE trap_wfi
    BY <1>6, WfiSim
  <1>7. CASE \E pid \in Pids : irq_device(pid)
    BY <1>7, DeviceSim
  <1> QED BY <1>2, <1>3, <1>4, <1>5, <1>6, <1>7 DEF Next

\* guest_rpb_init gives every VM the initial registers of a machine.
LEMMA InitSim == Init => OwnContexts /\ M!Init
  <1> SUFFICES ASSUME Init PROVE OwnContexts /\ M!Init
    OBVIOUS
  <1> DEFINE r(v) == [pc |-> Reg(v, 0), usr |-> Reg(v, 0), bank |-> Reg(v, 0),
                      sys |-> Reg(v, 0), ctlr |-> Reg(v, 0)]
  <1>1. Inv /\ 0 \in VM
    BY InitInv, NumVMAssumption DEF VM
  <1>2. \A v \in VM : SavedRegs(bk[v]) = r(v)
    BY DEF Init, guest_rpb_init, SavedRegs
  <1>3. SavedRegs(cpu) = r(0)
    BY DEF Init, guest_rpb_init, guest_restore, guest_restore_rf, guest_restore_cp15,
           guest_restore_gic2_vcpu_if, SavedRegs
  <1>4. \A v \in VM : EffContext(v) = r(v)
    <2>1. \A v \in VM : bk[v].dirty <=> v = 0
      BY <1>1 DEF Inv, OwnInv, OwnershipConsistent, Init
    <2> QED BY <1>2, <1>3, <2>1 DEF EffContext
  <1>5. OwnContexts
    BY <1>4, ModAssumption DEF OwnContexts, Tagged, Reg
  <1>6. \A v \in VM, i \in LRs : Lists[v][i].state = "LR_Invalid"
    <2>1. IrqInv /\ act = {} /\ halt = "no"
      BY InitIrqInv DEF Init
    <2> QED BY <2>1 DEF IrqInv, Conserved, Used
  <1>7. \A p \in Pids : EffIrq(p) = "inactive"
    <2>1. \A p \in Pids : IrqState(Lists, p) = "inactive"
      BY <1>6, TargetType DEF IrqState, Holds
    <2>2. \A p \in Pids : Irqs[p] = EffIrq(p)
      BY DEF Irqs
    <2> QED BY <2>1, <2>2, IrqsOfLists
  <1>8. M!Init
    <2>1. [v \in VM |-> EffContext(v)] =
          [v \in VM |-> [pc |-> M!First(v), usr |-> M!First(v), bank |-> M!First(v),
                         sys |-> M!First(v), ctlr |-> M!First(v)]]
      BY <1>4 DEF M!First, Reg
    <2>2. {v \in VM : wfi_state[v] = "WFI_In"} = {}
      BY DEF Init
    <2>3. [p \in Pids |-> EffIrq(p)] = [p \in Pids |-> "inactive"]
      BY <1>7
    <2>4. (halt = "no") = TRUE
      BY DEF Init
    <2> QED BY <2>1, <2>2, <2>3, <2>4 DEF M!Init
  <1> QED BY <1>5, <1>8

\* Virtualisation: for every number of VMs, list registers, interrupts and
\* instructions, the hypervisor implements Machines.  Each guest has a machine
\* of its own: no switch, time slice, idle period or redone access is visible
\* to it, nothing is executed twice or skipped, and each interrupt is
\* delivered once, to its owner.
THEOREM Virtualisation == Spec => GuestsSeeOwnMachine
  <1>1. Inv /\ IrqInv /\ OwnContexts /\ [Next]_vars => OwnContexts' /\ [M!Next]_(M!vars)
    BY NextSim DEF Simulates
  <1> QED BY <1>1, InitSim, InvHolds, IrqInvHolds, PTL DEF Spec, GuestsSeeOwnMachine, M!Spec
=============================================================================

-------------------------- MODULE Interrupts_proofs --------------------------
(***************************************************************************)
(* Interrupts on their way from a device to a guest that may disable them   *)
(* at any moment, for every instance: only enabled interrupts are injected, *)
(* and a disabled one is taken at most once more.                           *)
(***************************************************************************)
EXTENDS Interrupts, HypervisorMachines_proofs

\* The virtual id of interrupt p at its VM.
VidOf(p) == vdev_gic2_dist_irq_to_virq(irq_target(p), p)

\* The physical distributor forwards an interrupt of a guest only if the guest
\* has it enabled.  (The shared register holds nothing else of any guest: if
\* the shift yields zero, no guest's store ever sets a bit.)
ForwardedInv ==
  /\ shift \in {"zero", "wrap"}
  /\ virq_en \in [VM -> SUBSET Vids]
  /\ \A p \in Pids : p \in enabled => shift = "wrap" /\ Unmasked(p)

\* A guest that has taken interrupt p since it disabled p still has it
\* disabled, and p is not waiting in a list register.
MaskedInv ==
  /\ masked \in [Pids -> 0 .. 1]
  /\ \A p \in Pids : masked[p] = 1 => ~Unmasked(p) /\ IrqState(Lists, p) # "pending"

\* A physical interrupt of a guest is one virtual interrupt of one VM.
LEMMA VirqOf ==
  ASSUME NEW p \in Pids, NEW v \in VM, NEW d, D!virq_pid(v, d) = p
  PROVE  v = irq_target(p) /\ d = VidOf(p)
  <1>1. v \in 0 .. 3
    BY NumVMAssumption DEF VM
  <1>2. /\ irq_target(p) \in 0 .. 3
        /\ p \in {40 + irq_target(p), 44 + irq_target(p), 48 + irq_target(p)}
    BY TargetType, NumVMAssumption DEF VM
  <1>3. /\ VidOf(p) \in 0 .. 63
        /\ virq_pid(irq_target(p), VidOf(p)) = p
    BY VirqMapped DEF VidOf
  <1>4. /\ p \in 40 .. 51 /\ d \in {44, 36, 37}
        /\ p = IF d = 44 THEN 40 + v ELSE IF d = 36 THEN 44 + v ELSE 48 + v
    BY <1>1, <1>2 DEF D!virq_pid
  <1>5. /\ VidOf(p) \in {44, 36, 37}
        /\ p = IF VidOf(p) = 44 THEN 40 + irq_target(p)
               ELSE IF VidOf(p) = 36 THEN 44 + irq_target(p) ELSE 48 + irq_target(p)
    BY <1>2, <1>3, <1>4 DEF virq_pid
  <1> HIDE DEF VidOf
  <1> QED BY <1>1, <1>2, <1>4, <1>5

\* The guests store to interrupts that the virtual distributor announces.
LEMMA Announced == Vids \subseteq D!Vids
  BY VirqMapped DEF Vids, D!Vids

\* Every step of the composition is a step of Hypervisor.
LEMMA IStep == [INext]_allVars => [Next]_vars
  BY DEF INext, Next, Others, allVars, store_isenabler, store_icenabler, store_ctlr, store_other,
         forward_timer, forward_device, take

\* What a step does to the distributors: they change only by a store of vm_id.
LEMMA DistSteps ==
  ASSUME [INext]_allVars
  PROVE  \/ UNCHANGED distVars
         \/ \E S \in SUBSET Vids : store_isenabler(S)
         \/ \E S \in SUBSET Vids : store_icenabler(S)
         \/ UNCHANGED <<virq_en, enabled, shift>>
  BY DEF INext, Others, allVars, store_ctlr, store_other, forward_timer, forward_device, take,
         D!write_ctlr

\* A store to the enable registers keeps the forwarding invariant.
LEMMA NextForwarded == Inv /\ ForwardedInv /\ [INext]_allVars => ForwardedInv'
  <1> SUFFICES ASSUME Inv, ForwardedInv, [INext]_allVars PROVE ForwardedInv'
    OBVIOUS
  <1>1. vm_id \in VM
    BY TypeSplit DEF Inv, SchedType
  <1>2. CASE UNCHANGED <<virq_en, enabled, shift>>
    BY <1>2 DEF ForwardedInv, Unmasked
  <1>3. ASSUME NEW S \in SUBSET Vids, store_isenabler(S) PROVE ForwardedInv'
    <2>1. /\ virq_en' = [virq_en EXCEPT ![vm_id] = virq_en[vm_id] \cup S]
          /\ enabled' = enabled \cup UNION {D!written(i) : i \in D!pids(vm_id, S)}
          /\ shift' = shift
      BY <1>3, Announced DEF store_isenabler, D!write_isenabler, D!dev_gic2_dist_enable_irq
    <2>2. virq_en' \in [VM -> SUBSET Vids]
      BY <1>1, <2>1 DEF ForwardedInv
    <2>3. ASSUME NEW p \in Pids, p \in enabled' PROVE shift' = "wrap" /\ Unmasked(p)'
      <3>1. irq_target(p) \in VM /\ p \in 40 .. 51
        BY TargetType, NumVMAssumption DEF VM
      <3>2. CASE p \in enabled
        <4>1. VidOf(p) \in virq_en[irq_target(p)] /\ shift = "wrap"
          BY <3>2 DEF ForwardedInv, Unmasked, VidOf
        <4>2. VidOf(p) \in virq_en'[irq_target(p)]
          BY <1>1, <2>1, <3>1, <4>1 DEF ForwardedInv
        <4> QED BY <2>1, <4>1, <4>2 DEF Unmasked, VidOf
      <3>3. CASE p \notin enabled
        <4>1. PICK j \in D!pids(vm_id, S) : p \in D!written(j)
          BY <2>1, <2>3, <3>3
        <4>2. j = p /\ shift = "wrap"
          BY <3>1, <4>1 DEF D!written
        <4>3. PICK d \in S : D!virq_pid(vm_id, d) = p
          BY <4>1, <4>2 DEF D!pids
        <4>4. vm_id = irq_target(p) /\ d = VidOf(p)
          BY <1>1, <4>3, VirqOf
        <4>5. VidOf(p) \in virq_en'[irq_target(p)]
          BY <1>1, <2>1, <4>3, <4>4 DEF ForwardedInv
        <4> QED BY <2>1, <4>2, <4>5 DEF Unmasked, VidOf
      <3> QED BY <3>2, <3>3
    <2> QED BY <2>1, <2>2, <2>3 DEF ForwardedInv
  <1>4. ASSUME NEW S \in SUBSET Vids, store_icenabler(S) PROVE ForwardedInv'
    <2>1. /\ virq_en' = [virq_en EXCEPT ![vm_id] = virq_en[vm_id] \ S]
          /\ enabled' = enabled \ UNION {D!written(i) : i \in D!pids(vm_id, S)}
          /\ shift' = shift
      BY <1>4, Announced DEF store_icenabler, D!write_icenabler, D!dev_gic2_dist_disable_irq
    <2>2. virq_en' \in [VM -> SUBSET Vids]
      BY <1>1, <2>1 DEF ForwardedInv
    <2>3. ASSUME NEW p \in Pids, p \in enabled' PROVE shift' = "wrap" /\ Unmasked(p)'
      <3>1. /\ irq_target(p) \in VM /\ p \in 40 .. 51
            /\ VidOf(p) \in 0 .. 63 /\ D!virq_pid(irq_target(p), VidOf(p)) = p
        BY TargetType, VirqMapped, NumVMAssumption DEF VM, VidOf, virq_pid, D!virq_pid
      <3>2. p \in enabled /\ VidOf(p) \in virq_en[irq_target(p)] /\ shift = "wrap"
        BY <2>1, <2>3 DEF ForwardedInv, Unmasked, VidOf
      <3>3. irq_target(p) = vm_id => VidOf(p) \notin S
        <4>1. SUFFICES ASSUME irq_target(p) = vm_id, VidOf(p) \in S PROVE FALSE
          OBVIOUS
        <4>2. p \in D!pids(vm_id, S)
          BY <3>1, <4>1 DEF D!pids
        <4>3. p \in D!written(p)
          BY <3>2 DEF D!written
        <4> QED BY <2>1, <2>3, <4>2, <4>3
      <3>4. VidOf(p) \in virq_en'[irq_target(p)]
        BY <1>1, <2>1, <3>1, <3>2, <3>3 DEF ForwardedInv
      <3> QED BY <2>1, <3>2, <3>4 DEF Unmasked, VidOf
    <2> QED BY <2>1, <2>2, <2>3 DEF ForwardedInv
  <1> QED BY <1>2, <1>3, <1>4, DistSteps DEF distVars

\* Where a step can make an interrupt pending: only where irq_handler injects
\* it, which needs the physical distributor to forward it.
LEMMA PendingSteps ==
  ASSUME Inv, IrqInv, [INext]_allVars, NEW p \in Pids,
         IrqState(Lists', p) = "pending", IrqState(Lists, p) # "pending"
  PROVE  p \in enabled /\ UNCHANGED <<distVars, masked>>
  <1>1. Lists' # Lists
    OBVIOUS
  <1>2. ASSUME NEW i \in LRs, GuestAck(i) \/ GuestEoi(i) PROVE FALSE
    <2>1. LET q == cpu.list[i].pid
          IN  \/ OneMoves(Lists, Lists', q, "pending", "active")
              \/ OneMoves(Lists, Lists', q, "active", "inactive")
      BY <1>2, InterfaceMoves
    <2> QED BY <2>1 DEF OneMoves
  <1>3. ASSUME NEW pid \in Pids, forward_device(pid) PROVE p \in enabled /\ UNCHANGED <<distVars, masked>>
    <2>1. irq_device(pid) /\ pid \in enabled /\ UNCHANGED <<distVars, masked>>
      BY <1>3 DEF forward_device
    <2>2. CASE inject_failure(irq_target(pid), pid) # "no"
      <3>1. UNCHANGED <<bk, cpu>>
        BY <2>1, <2>2 DEF irq_device, schedVars
      <3> QED BY <1>1, <3>1 DEF Lists, EffList
    <2>3. CASE inject_failure(irq_target(pid), pid) = "no"
      <3>1. OneMoves(Lists, Lists', pid, "inactive", "pending")
        BY <2>1, <2>3, DeviceMoves
      <3>2. p = pid
        BY <3>1 DEF OneMoves
      <3> QED BY <2>1, <3>2
    <2> QED BY <2>2, <2>3
  <1>4. CASE \/ GuestExecute \/ GuestWfiNoWait \/ trap_wfi \/ trap_cp \/ trap_hvc
             \/ trap_dabort_memory \/ trap_dabort_load \/ trap_dabort_store \/ trap_error
             \/ irq_timer \/ irq_spurious \/ irq_unknown \/ Tick \/ Exited \/ UNCHANGED vars
             \/ \E pid \in Pids : Raise(pid)
    BY <1>1, <1>4, QuietSteps
  <1> QED
    BY <1>2, <1>3, <1>4 DEF INext, Others, allVars, store_isenabler, store_icenabler, store_ctlr,
         store_other, forward_timer, take

\* Who may take an interrupt, or change what is known of it.
LEMMA NextMasked ==
  Inv /\ IrqInv /\ ForwardedInv /\ MaskedInv /\ [INext]_allVars => MaskedInv'
  <1> SUFFICES ASSUME Inv, IrqInv, ForwardedInv, MaskedInv, [INext]_allVars PROVE MaskedInv'
    OBVIOUS
  <1>1. vm_id \in VM /\ \A p \in Pids : irq_target(p) \in VM
    BY TypeSplit, TargetType DEF Inv, SchedType
  <1>2. ASSUME NEW p \in Pids, masked[p] = 1
        PROVE  IrqState(Lists', p) # "pending"
    <2>1. ~Unmasked(p) /\ IrqState(Lists, p) # "pending"
      BY <1>2 DEF MaskedInv
    <2>2. p \notin enabled
      BY <2>1 DEF ForwardedInv
    <2> QED BY <2>1, <2>2, PendingSteps
  <1>3. CASE UNCHANGED <<virq_en, masked>>
    BY <1>2, <1>3 DEF MaskedInv, Unmasked
  <1>4. ASSUME NEW S \in SUBSET Vids, store_isenabler(S) PROVE MaskedInv'
    <2>1. /\ virq_en' = [virq_en EXCEPT ![vm_id] = virq_en[vm_id] \cup S]
          /\ masked' = [p \in Pids |-> IF p \in OwnPids(S) THEN 0 ELSE masked[p]]
      BY <1>4, Announced DEF store_isenabler, D!write_isenabler
    <2>2. ASSUME NEW p \in Pids, masked'[p] = 1
          PROVE  ~Unmasked(p)' /\ IrqState(Lists', p) # "pending"
      <3>1. masked[p] = 1 /\ p \notin OwnPids(S)
        BY <2>1, <2>2
      <3>2. ~Unmasked(p)
        BY <3>1 DEF MaskedInv
      <3>3. irq_target(p) = vm_id => VidOf(p) \notin S
        BY <3>1 DEF OwnPids, VidOf
      <3>4. VidOf(p) \notin virq_en'[irq_target(p)]
        BY <1>1, <2>1, <3>2, <3>3 DEF Unmasked, VidOf, ForwardedInv
      <3> QED BY <1>2, <3>1, <3>4 DEF Unmasked, VidOf
    <2>3. masked' \in [Pids -> 0 .. 1]
      BY <2>1 DEF MaskedInv
    <2> QED BY <2>2, <2>3 DEF MaskedInv
  <1>5. ASSUME NEW S \in SUBSET Vids, store_icenabler(S) PROVE MaskedInv'
    <2>1. /\ virq_en' = [virq_en EXCEPT ![vm_id] = virq_en[vm_id] \ S]
          /\ masked' = masked
      BY <1>5, Announced DEF store_icenabler, D!write_icenabler
    <2>2. \A p \in Pids : ~Unmasked(p) => ~Unmasked(p)'
      BY <1>1, <2>1 DEF Unmasked, ForwardedInv
    <2> QED BY <1>2, <2>1, <2>2 DEF MaskedInv
  <1>6. ASSUME NEW i \in LRs, take(i) PROVE MaskedInv'
    <2> DEFINE q == cpu.list[i].pid
    <2>1. OneMoves(Lists, Lists', q, "pending", "active")
      BY <1>6, InterfaceMoves DEF take
    <2>2. /\ masked' = [masked EXCEPT ![q] = IF Unmasked(q) \/ masked[q] = 2
                                             THEN masked[q] ELSE masked[q] + 1]
          /\ virq_en' = virq_en
      BY <1>6 DEF take, distVars
    <2>3. /\ q \in Pids /\ IrqState(Lists, q) = "pending" /\ IrqState(Lists', q) = "active"
      BY <2>1 DEF OneMoves
    <2> HIDE DEF q
    <2>4. masked[q] = 0
      BY <2>3 DEF MaskedInv
    <2>5. masked' = [masked EXCEPT ![q] = IF Unmasked(q) THEN 0 ELSE 1]
      BY <2>2, <2>4
    <2>6. masked' \in [Pids -> 0 .. 1]
      BY <2>3, <2>5 DEF MaskedInv
    <2>7. ASSUME NEW p \in Pids, masked'[p] = 1
          PROVE  ~Unmasked(p) /\ IrqState(Lists', p) # "pending"
      <3>1. CASE p = q
        BY <2>3, <2>5, <2>7, <3>1 DEF MaskedInv
      <3>2. CASE p # q
        <4>1. masked[p] = 1
          BY <2>3, <2>5, <2>7, <3>2 DEF MaskedInv
        <4> QED BY <1>2, <4>1 DEF MaskedInv
      <3> QED BY <3>1, <3>2
    <2>8. \A p \in Pids : Unmasked(p)' <=> Unmasked(p)
      BY <2>2 DEF Unmasked
    <2> QED BY <2>6, <2>7, <2>8 DEF MaskedInv
  <1> QED
    BY <1>3, <1>4, <1>5, <1>6 DEF INext, Others, allVars, distVars, store_ctlr, store_other,
         forward_timer, forward_device, D!write_ctlr

\* Out of reset nothing of a guest is forwarded, and nothing was taken.
LEMMA IInitInv == IInit => Inv /\ IrqInv /\ ForwardedInv /\ MaskedInv
  <1> SUFFICES ASSUME IInit PROVE Inv /\ IrqInv /\ ForwardedInv /\ MaskedInv
    OBVIOUS
  <1>1. Inv /\ IrqInv
    BY InitInv, InitIrqInv DEF IInit
  <1>2. \A p \in Pids : p \notin enabled
    <2>1. \A p \in Pids : p # TimerPid
      BY TargetType, NumVMAssumption DEF VM, TimerPid
    <2> QED BY <2>1, ResetAssumption DEF IInit
  <1>3. ForwardedInv
    BY <1>2 DEF IInit, ForwardedInv
  <1>4. MaskedInv
    BY DEF IInit, MaskedInv
  <1> QED BY <1>1, <1>3, <1>4

\* The inductive invariant of the composition.
LEMMA IInvHolds == ISpec => [](Inv /\ IrqInv /\ ForwardedInv /\ MaskedInv)
  <1>1. /\ Inv /\ IrqInv /\ ForwardedInv /\ MaskedInv /\ [INext]_allVars
        => (Inv /\ IrqInv /\ ForwardedInv /\ MaskedInv)'
    BY IStep, NextInv, NextIrqInv, NextForwarded, NextMasked
  <1> QED BY <1>1, IInitInv, PTL DEF ISpec

\* With distributors between devices and irq_handler the hypervisor behaves as
\* without: the distributors only withhold interrupts.  What is proved of
\* Hypervisor holds of the composition.
THEOREM DistributorsRefine == ISpec => Spec
  <1>1. IInit => Init
    BY DEF IInit
  <1> QED BY <1>1, IStep, PTL DEF ISpec, Spec

\* irq_handler injects an interrupt only if its own guest has it enabled at
\* that moment, for either outcome of the shift and whatever the guests store
\* to the announced interrupts.
THEOREM OnlyUnmasked == ISpec => InjectedOnlyIfUnmasked
  <1>1. Inv /\ ForwardedInv /\ [INext]_allVars => [\A p \in act' \ act : Unmasked(p)]_allVars
    <2> SUFFICES ASSUME Inv, ForwardedInv, INext, NEW p \in act' \ act PROVE Unmasked(p)
      OBVIOUS
    <2>1. ASSUME NEW pid \in Pids, forward_device(pid) PROVE Unmasked(p)
      <3>1. p = pid /\ pid \in enabled
        BY <2>1 DEF forward_device, irq_device
      <3> QED BY <3>1 DEF ForwardedInv
    <2>2. CASE ~\E pid \in Pids : forward_device(pid)
      <3>1. act' \subseteq act
        BY <2>2 DEF INext, Others, store_isenabler, store_icenabler, store_ctlr, store_other,
             forward_timer, take, GuestExecute, GuestWfiNoWait, GuestAck, GuestEoi, trap_wfi,
             trap_cp, trap_hvc, trap_dabort_memory, trap_dabort_load, trap_dabort_store,
             trap_error, irq_timer, Raise, irq_spurious, irq_unknown, Tick, Exited, vars
      <3> QED BY <3>1
    <2> QED BY <2>1, <2>2
  <1> QED BY <1>1, IInvHolds, PTL DEF ISpec, InjectedOnlyIfUnmasked

\* A guest takes an interrupt it has disabled at most once, however often the
\* device raises it again.
THEOREM MaskedOnce == ISpec => []MaskedTakenOnce
  <1>1. MaskedInv => MaskedTakenOnce
    BY DEF MaskedInv, MaskedTakenOnce
  <1> QED BY <1>1, IInvHolds, PTL
=============================================================================

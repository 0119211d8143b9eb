-------------------------- MODULE Monitored_proofs --------------------------
(***************************************************************************)
(* The counters of the monitor, for every instance: a VM's own counters      *)
(* count that VM's traps, and the interrupts counted for the system are      *)
(* those counted for the VMs plus those that found their VM off the CPU.     *)
(* A handler counts through vm_id and through the dirty flags; that these    *)
(* name the code that was executing is the ownership invariant Inv.          *)
(***************************************************************************)
EXTENDS Monitored, Hypervisor_proofs

Counters == [Events -> Nat]
Monitors == [print_count : Nat, events : Counters]

MonType ==
  /\ sys_mon \in Monitors
  /\ vm_mon \in [VM -> Monitors]
  /\ seen \in [VM -> Counters]
  /\ absent \in Nat

\* The step counts event e for VM v.
CountsFor(v, e) == vm_mon' = [vm_mon EXCEPT ![v] = monitor_trigger(@, e)]

\* The step changes no counter of a VM, although it may print them.
KeepsVmCounters ==
  /\ vm_mon' \in [VM -> Monitors]
  /\ \A v \in VM : vm_mon'[v].events = vm_mon[v].events

\* The step keeps the system's count of interrupts.
KeepsSysIrqs ==
  /\ sys_mon' \in Monitors
  /\ sys_mon'.events["TRAP_IRQ"] = sys_mon.events["TRAP_IRQ"]
  /\ absent' = absent

\* sum[v] is what VMs 0 to v - 1 have counted; all of them and the absent ones
\* are the system's count.
Balanced(sum, vms, sys, off) ==
  /\ sum \in [0 .. NumVM -> 0 .. sys]
  /\ sum[0] = 0
  /\ \A v \in VM : sum[v + 1] = sum[v] + vms[v].events["TRAP_IRQ"]
  /\ sys = off + sum[NumVM]

Balance(vms, sys, off) == \E sum \in [0 .. NumVM -> 0 .. sys] : Balanced(sum, vms, sys, off)

\* One more of one kind of event in a well-typed monitor.
LEMMA TriggerType ==
  ASSUME NEW mon \in Monitors, NEW e \in Events
  PROVE  /\ monitor_trigger(mon, e) \in Monitors
         /\ \A f \in Events : monitor_trigger(mon, e).events[f]
                                = mon.events[f] + (IF f = e THEN 1 ELSE 0)
  <1>1. mon.events \in Counters /\ mon.print_count \in Nat
    BY DEF Monitors
  <1>2. monitor_trigger(mon, e)
          = [print_count |-> mon.print_count, events |-> [mon.events EXCEPT ![e] = @ + 1]]
    BY DEF monitor_trigger, Monitors
  <1>3. [mon.events EXCEPT ![e] = @ + 1] \in Counters
    BY <1>1 DEF Counters
  <1>4. \A f \in Events : [mon.events EXCEPT ![e] = @ + 1][f]
                            = mon.events[f] + (IF f = e THEN 1 ELSE 0)
    BY <1>1 DEF Counters
  <1> QED BY <1>1, <1>2, <1>3, <1>4 DEF Monitors

\* Printing changes no counter of events.
LEMMA PrintType ==
  ASSUME NEW mon \in Monitors
  PROVE  monitor_print(mon) \in Monitors /\ monitor_print(mon).events = mon.events
  BY DEF monitor_print, Monitors

\* Counting a switch changes no other counter.
LEMMA SwitchType ==
  ASSUME NEW mon \in Monitors
  PROVE  /\ count_switch(mon) \in Monitors
         /\ count_switch(mon).events["TRAP_IRQ"] = mon.events["TRAP_IRQ"]
  <1>1. "VM_SWITCH" \in Events /\ "TRAP_IRQ" \in Events
    BY DEF Events
  <1>2. mon.events["TRAP_IRQ"] \in Nat
    BY <1>1 DEF Monitors, Counters
  <1> QED BY <1>1, <1>2, TriggerType DEF count_switch

\* One more event of VM v in the monitors of the VMs.
LEMMA CountsForType ==
  ASSUME vm_mon \in [VM -> Monitors], NEW v \in VM, NEW e \in Events, CountsFor(v, e)
  PROVE  /\ vm_mon' \in [VM -> Monitors]
         /\ \A u \in VM, f \in Events :
              vm_mon'[u].events[f] = vm_mon[u].events[f] + (IF u = v /\ f = e THEN 1 ELSE 0)
  <1>1. monitor_trigger(vm_mon[v], e) \in Monitors
    BY TriggerType
  <1>2. vm_mon' \in [VM -> Monitors]
    BY <1>1 DEF CountsFor
  <1>3. \A u \in VM : vm_mon'[u] = IF u = v THEN monitor_trigger(vm_mon[v], e) ELSE vm_mon[u]
    BY DEF CountsFor
  <1>4. \A u \in VM, f \in Events : vm_mon[u].events[f] \in Nat
    BY DEF Monitors, Counters
  <1> QED BY <1>2, <1>3, <1>4, TriggerType

\* The trap of the executing guest is counted for vm_id, which is that guest.
LEMMA TrapCounted ==
  ASSUME Inv, GuestRuns, MonType, CountsOwnTraps, NEW e \in GuestEvents,
         CountsFor(vm_id, e), Saw(e)
  PROVE  vm_mon' \in [VM -> Monitors] /\ seen' \in [VM -> Counters] /\ CountsOwnTraps'
  <1>1. Running = vm_id /\ vm_id \in VM /\ halt = "no"
    BY TypeSplit DEF Inv, OwnInv, OwnershipConsistent, GuestRuns, SchedType
  <1>2. GuestEvents \subseteq Events
    BY DEF GuestEvents, Events
  <1>3. vm_mon \in [VM -> Monitors] /\ seen \in [VM -> Counters]
    BY DEF MonType
  <1>4. /\ vm_mon' \in [VM -> Monitors]
        /\ \A u \in VM, f \in Events :
             vm_mon'[u].events[f] = vm_mon[u].events[f] + (IF u = vm_id /\ f = e THEN 1 ELSE 0)
    BY <1>1, <1>2, <1>3, CountsForType
  <1>5. seen' = [seen EXCEPT ![vm_id] = [seen[vm_id] EXCEPT ![e] = @ + 1]]
    BY <1>1 DEF Saw
  <1>6. [seen[vm_id] EXCEPT ![e] = @ + 1] \in Counters
    BY <1>1, <1>2, <1>3 DEF Counters
  <1>7. seen' \in [VM -> Counters]
    BY <1>1, <1>3, <1>5, <1>6
  <1>8. \A u \in VM, f \in Events :
          seen'[u][f] = seen[u][f] + (IF u = vm_id /\ f = e THEN 1 ELSE 0)
    <2> TAKE u \in VM, f \in Events
    <2>1. seen[u] \in Counters /\ seen[u][f] \in Nat
      BY <1>3 DEF Counters
    <2>2. CASE u = vm_id
      <3>1. seen'[u] = [seen[u] EXCEPT ![e] = @ + 1]
        BY <1>3, <1>5, <2>2
      <3> QED BY <2>1, <2>2, <3>1 DEF Counters
    <2>3. CASE u # vm_id
      <3>1. seen'[u] = seen[u]
        BY <1>3, <1>5, <2>3
      <3> QED BY <2>1, <2>3, <3>1
    <2> QED BY <2>2, <2>3
  <1>9. \A u \in VM, f \in GuestEvents : vm_mon[u].events[f] = seen[u][f]
    BY <1>1 DEF CountsOwnTraps
  <1>10. \A u \in VM, f \in GuestEvents : vm_mon'[u].events[f] = seen'[u][f]
    BY <1>2, <1>4, <1>8, <1>9
  <1> QED BY <1>4, <1>7, <1>10 DEF CountsOwnTraps

\* A step that changes no counter of a VM keeps them equal to the history.
LEMMA TrapsKept ==
  ASSUME MonType, CountsOwnTraps, halt = "no" \/ halt' = halt, KeepsVmCounters, seen' = seen
  PROVE  vm_mon' \in [VM -> Monitors] /\ seen' \in [VM -> Counters] /\ CountsOwnTraps'
  BY DEF MonType, CountsOwnTraps, KeepsVmCounters


\* Nothing is counted that concerns interrupts.
LEMMA BalanceKept ==
  ASSUME MonType, IrqsBalance, halt = "no" \/ halt' = halt, KeepsSysIrqs,
         \A v \in VM : vm_mon'[v].events["TRAP_IRQ"] = vm_mon[v].events["TRAP_IRQ"]
  PROVE  IrqsBalance'
  BY DEF IrqsBalance, KeepsSysIrqs

\* An interrupt for a VM off the CPU: the system's count and the number of
\* those move together.
LEMMA BalanceAbsent ==
  ASSUME NEW vms, NEW sys \in Nat, NEW off \in Nat, Balance(vms, sys, off)
  PROVE  Balance(vms, sys + 1, off + 1)
  <1>1. PICK sum \in [0 .. NumVM -> 0 .. sys] : Balanced(sum, vms, sys, off)
    BY DEF Balance
  <1>2. sum \in [0 .. NumVM -> 0 .. sys + 1]
    <2>1. 0 .. sys \subseteq 0 .. sys + 1
      OBVIOUS
    <2> QED BY <2>1
  <1>3. sum[NumVM] \in 0 .. sys
    BY NumVMAssumption
  <1>4. sys + 1 = off + 1 + sum[NumVM]
    BY <1>1, <1>3 DEF Balanced
  <1>5. Balanced(sum, vms, sys + 1, off + 1)
    BY <1>1, <1>2, <1>4 DEF Balanced
  <1> QED BY <1>2, <1>5 DEF Balance

\* An interrupt for VM t on the CPU: all partial sums from t on grow by one.
LEMMA BalancePresent ==
  ASSUME NEW vms, NEW new, NEW sys \in Nat, NEW off \in Nat, NEW t \in VM,
         \A v \in VM : vms[v].events["TRAP_IRQ"] \in Nat,
         \A v \in VM : new[v].events["TRAP_IRQ"]
                         = vms[v].events["TRAP_IRQ"] + (IF v = t THEN 1 ELSE 0),
         Balance(vms, sys, off)
  PROVE  Balance(new, sys + 1, off)
  <1>1. PICK sum \in [0 .. NumVM -> 0 .. sys] : Balanced(sum, vms, sys, off)
    BY DEF Balance
  <1> DEFINE more == [i \in 0 .. NumVM |-> IF i > t THEN sum[i] + 1 ELSE sum[i]]
  <1>2. t \in Int /\ 0 <= t /\ t < NumVM /\ NumVM \in Nat
    BY NumVMAssumption DEF VM
  <1>3. more \in [0 .. NumVM -> 0 .. sys + 1]
    <2>1. ASSUME NEW i \in 0 .. NumVM PROVE more[i] \in 0 .. sys + 1
      <3>1. sum[i] \in 0 .. sys
        OBVIOUS
      <3>2. more[i] \in {sum[i], sum[i] + 1}
        OBVIOUS
      <3> HIDE DEF more
      <3> QED BY <3>1, <3>2
    <2> QED BY <2>1
  <1>4. more[0] = 0
    BY <1>1, <1>2 DEF Balanced
  <1>5. ASSUME NEW v \in VM PROVE more[v + 1] = more[v] + new[v].events["TRAP_IRQ"]
    <2>1. v \in 0 .. NumVM /\ v + 1 \in 0 .. NumVM /\ v \in Int
      BY NumVMAssumption DEF VM
    <2>2. sum[v] \in Int /\ sum[v + 1] \in Int
      BY <2>1
    <2>3. sum[v + 1] = sum[v] + vms[v].events["TRAP_IRQ"]
      BY <1>1 DEF Balanced
    <2>4. /\ more[v] = IF v > t THEN sum[v] + 1 ELSE sum[v]
          /\ more[v + 1] = IF v + 1 > t THEN sum[v + 1] + 1 ELSE sum[v + 1]
      BY <2>1
    <2>5. vms[v].events["TRAP_IRQ"] \in Nat
      OBVIOUS
    <2>6. new[v].events["TRAP_IRQ"] = vms[v].events["TRAP_IRQ"] + (IF v = t THEN 1 ELSE 0)
      OBVIOUS
    <2>7. CASE v < t
      <3>1. more[v] = sum[v] /\ more[v + 1] = sum[v + 1]
        BY <1>2, <2>1, <2>4, <2>7
      <3> HIDE DEF more
      <3> QED BY <1>2, <2>1, <2>2, <2>3, <2>5, <2>6, <2>7, <3>1
    <2>8. CASE v = t
      <3>1. more[v] = sum[v] /\ more[v + 1] = sum[v + 1] + 1
        BY <1>2, <2>1, <2>4, <2>8
      <3> HIDE DEF more
      <3> QED BY <2>2, <2>3, <2>5, <2>6, <2>8, <3>1
    <2>9. CASE v > t
      <3>1. more[v] = sum[v] + 1 /\ more[v + 1] = sum[v + 1] + 1
        BY <1>2, <2>1, <2>4, <2>9
      <3>2. new[v].events["TRAP_IRQ"] = vms[v].events["TRAP_IRQ"]
        <4>1. v # t
          BY <1>2, <2>1, <2>9
        <4> QED BY <2>5, <2>6, <4>1
      <3> HIDE DEF more
      <3> QED BY <2>2, <2>3, <2>5, <3>1, <3>2
    <2> QED BY <1>2, <2>1, <2>7, <2>8, <2>9
  <1>6. sys + 1 = off + more[NumVM]
    <2>1. NumVM \in 0 .. NumVM /\ sum[NumVM] \in 0 .. sys
      BY <1>2
    <2>2. more[NumVM] = sum[NumVM] + 1 /\ sys = off + sum[NumVM]
      BY <1>1, <1>2, <2>1 DEF Balanced
    <2> HIDE DEF more
    <2> QED BY <2>1, <2>2
  <1> HIDE DEF more
  <1>7. Balanced(more, new, sys + 1, off)
    BY <1>3, <1>4, <1>5, <1>6 DEF Balanced
  <1> QED BY <1>3, <1>7 DEF Balance

\* IrqsBalance in terms of Balance.
LEMMA BalanceSame ==
  /\ IrqsBalance <=> (halt = "no" => Balance(vm_mon, sys_mon.events["TRAP_IRQ"], absent))
  /\ IrqsBalance' <=> (halt' = "no" => Balance(vm_mon', sys_mon'.events["TRAP_IRQ"], absent'))
  BY DEF IrqsBalance, Balance, Balanced

\* An interrupt is counted for its VM exactly when that VM was executing: a
\* dirty backup and no sleep mean that the VM's code is on the CPU.
LEMMA ActiveRuns ==
  ASSUME Inv, NEW t \in VM
  PROVE  target_is_active(t) <=> Running = t
  <1>1. /\ Running = IF scheduler_idle THEN Idle ELSE vm_id
        /\ bk[t].dirty <=> (t = vm_id /\ ~scheduler_idle)
        /\ ~scheduler_idle => wfi_state[vm_id] = "WFI_Out"
    BY DEF Inv, OwnInv, OwnershipConsistent, SleepConsistent
  <1>2. Idle \notin VM
    BY DEF Idle, VM
  <1> QED BY <1>1, <1>2 DEF target_is_active


\* The interrupt handler keeps the balance, whichever list it writes to.
LEMMA IrqCounted ==
  ASSUME Inv, MonType, IrqsBalance, CountsOwnTraps, NEW pid \in Pids, mon_irq(pid)
  PROVE  MonType' /\ CountsOwnTraps' /\ IrqsBalance'
  <1> DEFINE t == irq_target(pid)
             s == monitor_trigger(sys_mon, "TRAP_IRQ")
             n == sys_mon.events["TRAP_IRQ"]
  <1>1. t \in VM
    BY TargetType
  <1>2. "TRAP_IRQ" \in Events /\ "TRAP_IRQ" \notin GuestEvents /\ GuestEvents \subseteq Events
    BY DEF Events, GuestEvents
  <1>3. /\ sys_mon \in Monitors /\ vm_mon \in [VM -> Monitors] /\ seen \in [VM -> Counters]
        /\ absent \in Nat
    BY DEF MonType
  <1>4. n \in Nat /\ \A v \in VM : vm_mon[v].events["TRAP_IRQ"] \in Nat
    BY <1>2, <1>3 DEF Monitors, Counters
  <1>5. s \in Monitors /\ s.events["TRAP_IRQ"] = n + 1
    BY <1>2, <1>3, TriggerType
  <1>6. /\ vm_mon' = IF target_is_active(t)
                     THEN [vm_mon EXCEPT ![t] = monitor_trigger(@, "TRAP_IRQ")] ELSE vm_mon
        /\ sys_mon' = IF scheduler_idle THEN count_switch(s) ELSE s
        /\ absent' = IF Running = t THEN absent ELSE absent + 1
        /\ seen' = seen
        /\ halt = "no"
    BY DEF mon_irq, irq_device
  <1> HIDE DEF t, s, n
  <1>7. sys_mon' \in Monitors /\ sys_mon'.events["TRAP_IRQ"] = n + 1
    BY <1>5, <1>6, SwitchType
  <1>8. Balance(vm_mon, n, absent)
    BY <1>6, BalanceSame DEF n
  <1>9. target_is_active(t) <=> Running = t
    BY <1>1, ActiveRuns
  <1>10. absent' \in Nat
    BY <1>3, <1>6
  <1>11. \A v \in VM, f \in GuestEvents : vm_mon[v].events[f] = seen[v][f]
    BY <1>6 DEF CountsOwnTraps
  <1>12. CASE target_is_active(t)
    <2>1. CountsFor(t, "TRAP_IRQ")
      BY <1>6, <1>12 DEF CountsFor
    <2>2. /\ vm_mon' \in [VM -> Monitors]
          /\ \A u \in VM, f \in Events : vm_mon'[u].events[f]
               = vm_mon[u].events[f] + (IF u = t /\ f = "TRAP_IRQ" THEN 1 ELSE 0)
      BY <1>1, <1>2, <1>3, <2>1, CountsForType
    <2>3. \A u \in VM : vm_mon'[u].events["TRAP_IRQ"]
                          = vm_mon[u].events["TRAP_IRQ"] + (IF u = t THEN 1 ELSE 0)
      BY <1>2, <2>2
    <2>4. Balance(vm_mon', n + 1, absent)
      BY <1>1, <1>3, <1>4, <1>8, <2>3, BalancePresent
    <2>5. absent' = absent
      BY <1>6, <1>9, <1>12
    <2>6. IrqsBalance'
      BY <1>7, <2>4, <2>5, BalanceSame
    <2>7. \A v \in VM, f \in GuestEvents : vm_mon'[v].events[f] = vm_mon[v].events[f]
      <3> TAKE v \in VM, f \in GuestEvents
      <3>1. f \in Events /\ f # "TRAP_IRQ" /\ vm_mon[v].events[f] \in Nat
        BY <1>2, <1>3 DEF Monitors, Counters
      <3> QED BY <2>2, <3>1
    <2>8. CountsOwnTraps'
      BY <1>6, <1>11, <2>7 DEF CountsOwnTraps
    <2> QED BY <1>3, <1>6, <1>7, <1>10, <2>2, <2>6, <2>8 DEF MonType
  <1>13. CASE ~target_is_active(t)
    <2>1. vm_mon' = vm_mon /\ absent' = absent + 1
      BY <1>6, <1>9, <1>13
    <2>2. Balance(vm_mon, n + 1, absent + 1)
      BY <1>3, <1>4, <1>8, BalanceAbsent
    <2>3. IrqsBalance'
      BY <1>7, <2>1, <2>2, BalanceSame
    <2>4. CountsOwnTraps'
      BY <1>6, <1>11, <2>1 DEF CountsOwnTraps
    <2> QED BY <1>3, <1>6, <1>7, <1>10, <2>1, <2>3, <2>4 DEF MonType
  <1> QED BY <1>12, <1>13

\* A trap that is counted: for the right VM, and beside the count of interrupts.
LEMMA GuestCounted ==
  ASSUME Inv, GuestRuns, MonType, IrqsBalance, CountsOwnTraps, NEW e \in GuestEvents,
         CountsFor(vm_id, e), Saw(e), KeepsSysIrqs
  PROVE  MonType' /\ CountsOwnTraps' /\ IrqsBalance'
  <1>1. vm_mon' \in [VM -> Monitors] /\ seen' \in [VM -> Counters] /\ CountsOwnTraps'
    BY TrapCounted
  <1>2. vm_id \in VM /\ halt = "no"
    BY TypeSplit DEF Inv, GuestRuns, SchedType
  <1>3. e \in Events /\ e # "TRAP_IRQ" /\ "TRAP_IRQ" \in Events
    BY DEF GuestEvents, Events
  <1>4. \A u \in VM : vm_mon'[u].events["TRAP_IRQ"] = vm_mon[u].events["TRAP_IRQ"]
    <2> TAKE u \in VM
    <2>1. vm_mon[u].events["TRAP_IRQ"] \in Nat
      BY <1>3 DEF MonType, Monitors, Counters
    <2> QED BY <1>2, <1>3, <2>1, CountsForType DEF MonType
  <1>5. IrqsBalance'
    BY <1>2, <1>4, BalanceKept
  <1> QED BY <1>1, <1>5 DEF MonType, KeepsSysIrqs

\* Nothing is counted for a VM, and no interrupt for the system.
LEMMA NothingCounted ==
  ASSUME MonType, IrqsBalance, CountsOwnTraps, halt = "no" \/ halt' = halt,
         KeepsVmCounters, KeepsSysIrqs, seen' = seen
  PROVE  MonType' /\ CountsOwnTraps' /\ IrqsBalance'
  <1>1. vm_mon' \in [VM -> Monitors] /\ seen' \in [VM -> Counters] /\ CountsOwnTraps'
    BY TrapsKept
  <1>2. IrqsBalance'
    BY BalanceKept DEF KeepsVmCounters
  <1> QED BY <1>1, <1>2 DEF MonType, KeepsSysIrqs


\* Every step of the composition is a step of Hypervisor.
LEMMA MStep == [MNext]_allVars => [Next]_vars
  BY DEF MNext, Next, allVars, mon_wfi, mon_cp15, mon_cp14, mon_hvc, mon_dabort, mon_timer,
         mon_irq, Uncounted

\* Leaving the monitors alone.
LEMMA QuietMonitors ==
  ASSUME MonType, UNCHANGED monVars
  PROVE  KeepsVmCounters /\ KeepsSysIrqs /\ seen' = seen
  BY DEF MonType, KeepsVmCounters, KeepsSysIrqs, monVars

\* One step of the composition.
LEMMA NextMon ==
  Inv /\ MonType /\ CountsOwnTraps /\ IrqsBalance /\ [MNext]_allVars
    => MonType' /\ CountsOwnTraps' /\ IrqsBalance'
  <1> SUFFICES ASSUME Inv, MonType, CountsOwnTraps, IrqsBalance, [MNext]_allVars
               PROVE  MonType' /\ CountsOwnTraps' /\ IrqsBalance'
    OBVIOUS
  <1>1. /\ sys_mon \in Monitors /\ vm_mon \in [VM -> Monitors] /\ vm_id \in VM
    BY TypeSplit DEF Inv, MonType, SchedType
  <1>2. {"TRAP_WFI", "TRAP_CP15", "ALLOCATE_PAGE", "TRAP_DABORT_VDEV"} \subseteq GuestEvents
        /\ "TRAP_WFI" \in Events /\ "TRAP_IRQ" \in Events
    BY DEF GuestEvents, Events
  <1>3. CASE mon_wfi
    <2>1. GuestRuns /\ CountsFor(vm_id, "TRAP_WFI") /\ Saw("TRAP_WFI")
      BY <1>3 DEF mon_wfi, trap_wfi, Executes, CountsFor
    <2>2. KeepsSysIrqs
      BY <1>1, <1>3, SwitchType DEF mon_wfi, KeepsSysIrqs
    <2> QED BY <1>2, <2>1, <2>2, GuestCounted
  <1>4. CASE mon_cp15
    <2>1. GuestRuns /\ CountsFor(vm_id, "TRAP_CP15") /\ Saw("TRAP_CP15")
      BY <1>4 DEF mon_cp15, trap_cp, Executes, CountsFor
    <2>2. KeepsSysIrqs
      <3>1. sys_mon.events["TRAP_IRQ"] \in Nat
        BY <1>1, <1>2 DEF Monitors, Counters
      <3> QED BY <1>1, <1>2, <1>4, <3>1, TriggerType DEF mon_cp15, KeepsSysIrqs
    <2> QED BY <1>2, <2>1, <2>2, GuestCounted
  <1>5. ASSUME NEW imm16 \in 0 .. 3, mon_hvc(imm16)
        PROVE  MonType' /\ CountsOwnTraps' /\ IrqsBalance'
    <2>1. halt = "no" /\ seen' = seen /\ absent' = absent
      BY <1>5 DEF mon_hvc, trap_hvc, Executes, GuestRuns
    <2>2. KeepsSysIrqs
      BY <1>1, <1>5, <2>1, PrintType DEF mon_hvc, KeepsSysIrqs
    <2>3. KeepsVmCounters
      <3>1. vm_mon' = [vm_mon EXCEPT ![vm_id] = monitor_print(vm_mon[vm_id])] \/ vm_mon' = vm_mon
        BY <1>5 DEF mon_hvc
      <3>2. /\ monitor_print(vm_mon[vm_id]) \in Monitors
            /\ monitor_print(vm_mon[vm_id]).events = vm_mon[vm_id].events
        BY <1>1, PrintType
      <3> QED BY <1>1, <3>1, <3>2 DEF KeepsVmCounters
    <2> QED BY <2>1, <2>2, <2>3, NothingCounted
  <1>6. CASE mon_timer
    <2>1. halt = "no" /\ seen' = seen /\ KeepsSysIrqs /\ KeepsVmCounters
      BY <1>1, <1>6, SwitchType DEF mon_timer, irq_timer, KeepsSysIrqs, KeepsVmCounters
    <2> QED BY <2>1, NothingCounted
  <1>7. ASSUME NEW pid \in Pids, mon_irq(pid)
        PROVE  MonType' /\ CountsOwnTraps' /\ IrqsBalance'
    BY <1>7, IrqCounted
  <1>8. CASE mon_cp14 \/ Uncounted \/ UNCHANGED allVars
    <2>1. halt = "no" \/ halt' = halt
      BY <1>8 DEF mon_cp14, Uncounted, allVars, vars, trap_cp, GuestExecute, GuestWfiNoWait,
                  GuestAck, GuestEoi, trap_error, Raise, irq_spurious, irq_unknown, Tick, Exited,
                  Executes, GuestRuns
    <2>2. UNCHANGED monVars
      BY <1>8 DEF mon_cp14, Uncounted, allVars
    <2> QED BY <2>1, <2>2, QuietMonitors, NothingCounted
  <1>9. (trap_dabort_memory \/ trap_dabort_load \/ trap_dabort_store) => GuestRuns
    BY DEF trap_dabort_memory, trap_dabort_load, trap_dabort_store, Executes
  <1>10. CASE \/ mon_dabort("ALLOCATE_PAGE", trap_dabort_memory)
              \/ mon_dabort("TRAP_DABORT_VDEV", trap_dabort_load)
              \/ mon_dabort("TRAP_DABORT_VDEV", trap_dabort_store)
    <2>1. GuestRuns /\ absent' = absent /\ sys_mon' = sys_mon
      BY <1>9, <1>10 DEF mon_dabort
    <2>2. PICK e \in GuestEvents : CountsFor(vm_id, e) /\ Saw(e)
      BY <1>2, <1>10 DEF mon_dabort, CountsFor
    <2>3. KeepsSysIrqs
      BY <1>1, <2>1 DEF KeepsSysIrqs
    <2> QED BY <2>1, <2>2, <2>3, GuestCounted
  <1> QED BY <1>3, <1>4, <1>5, <1>6, <1>7, <1>8, <1>10 DEF MNext


\* The monitors start empty.
LEMMA InitMon == MInit => Init /\ MonType /\ CountsOwnTraps /\ IrqsBalance
  <1> SUFFICES ASSUME MInit PROVE MonType /\ CountsOwnTraps /\ IrqsBalance
    BY DEF MInit
  <1>1. NoEvents \in Monitors /\ \A e \in Events : NoEvents.events[e] = 0
    BY DEF NoEvents, Monitors, Counters
  <1>2. /\ sys_mon = NoEvents /\ vm_mon = [v \in VM |-> NoEvents]
        /\ seen = [v \in VM |-> NoEvents.events] /\ absent = 0
    BY DEF MInit
  <1>3. NoEvents.events \in Counters
    BY <1>1 DEF Monitors
  <1>4. MonType
    BY <1>1, <1>2, <1>3 DEF MonType
  <1>5. CountsOwnTraps
    BY <1>2 DEF CountsOwnTraps
  <1>6. IrqsBalance
    <2> DEFINE zero == [i \in 0 .. NumVM |-> 0]
    <2>1. "TRAP_IRQ" \in Events
      BY DEF Events
    <2>2. sys_mon.events["TRAP_IRQ"] = 0 /\ \A v \in VM : vm_mon[v].events["TRAP_IRQ"] = 0
      BY <1>1, <1>2, <2>1
    <2>3. zero \in [0 .. NumVM -> 0 .. 0]
      OBVIOUS
    <2>4. \A v \in VM : v \in 0 .. NumVM /\ v + 1 \in 0 .. NumVM
      BY NumVMAssumption DEF VM
    <2>5. NumVM \in 0 .. NumVM /\ 0 \in 0 .. NumVM
      BY NumVMAssumption
    <2>6. Balanced(zero, vm_mon, 0, 0)
      BY <2>2, <2>3, <2>4, <2>5 DEF Balanced
    <2> HIDE DEF zero
    <2>7. Balance(vm_mon, 0, 0)
      BY <2>3, <2>6 DEF Balance
    <2> QED BY <1>2, <2>2, <2>7, BalanceSame
  <1> QED BY <1>4, <1>5, <1>6

\* The counters hold throughout.
LEMMA MonHolds == MSpec => [](Inv /\ MonType /\ CountsOwnTraps /\ IrqsBalance)
  <1>1. MInit => Inv /\ MonType /\ CountsOwnTraps /\ IrqsBalance
    BY InitMon, InitInv
  <1>2. Inv /\ [MNext]_allVars => Inv'
    BY MStep, NextInv
  <1> QED BY <1>1, <1>2, NextMon, PTL DEF MSpec

\* vm[v].mon counts the traps of VM v's own code, for any number of VMs and any
\* number of counted events, although the handlers count through vm_id, before
\* or after they switch to another VM.
THEOREM TrapsCounted == MSpec => []CountsOwnTraps
  BY MonHolds, PTL

\* The system's interrupt counter is the sum of the VMs' counters and of the
\* interrupts that found their VM off the CPU, which
\* guest_rpb_irq_handler_suspend does not count.
THEOREM IrqsCounted == MSpec => []IrqsBalance
  BY MonHolds, PTL
=============================================================================

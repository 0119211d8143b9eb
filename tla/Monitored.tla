------------------------------ MODULE Monitored ------------------------------
(***************************************************************************)
(* The event counters of vmm/monitor.c, beside Hypervisor: which handler     *)
(* counts what, for which VM and for the system, and the hypervisor calls    *)
(* that print them.                                                         *)
(***************************************************************************)
EXTENDS Hypervisor

CONSTANT MaxEvents    \* events counted in a behaviour

ASSUME MaxEventsAssumption == MaxEvents \in Nat

Events == {"TRAP_WFI", "TRAP_CP15", "TRAP_DABORT_VDEV", "ALLOCATE_PAGE", "TRAP_IRQ",
           "VM_SWITCH"}

VARIABLES sys_mon,    \* sys_monitor
          vm_mon,     \* vm[v].mon
          seen,       \* history: the traps the code of each VM really caused
          absent,     \* history: interrupts that found their VM off the CPU
          total       \* history: events so far

monVars == <<sys_mon, vm_mon, seen, absent, total>>
allVars == <<vars, monVars>>

NoEvents == [print_count |-> 0, events |-> [e \in Events |-> 0]]

monitor_trigger(mon, event) == [mon EXCEPT !.events[event] = @ + 1]

\* The lines themselves go to the console; the count remains.
monitor_print(mon) == [mon EXCEPT !.print_count = @ + 1]

\* Another event can be counted.
Count == total < MaxEvents /\ total' = total + 1

\* What the guest that is really executing did.
Saw(event) == seen' = [seen EXCEPT ![Running][event] = @ + 1]

\* monitor_trigger(&sys_monitor, VM_SWITCH) in the loop of scheduler_rr, once
\* a VM has been restored.
count_switch(mon) ==
  IF halt' = "no" /\ ~scheduler_idle' THEN monitor_trigger(mon, "VM_SWITCH") ELSE mon

\* Counted after the scheduler has run, for the VM that comes next.
mon_wfi_bug ==
  /\ Count
  /\ trap_wfi
  /\ vm_mon' = [vm_mon EXCEPT ![vm_id'] = monitor_trigger(@, "TRAP_WFI")]
  /\ sys_mon' = count_switch(sys_mon)
  /\ Saw("TRAP_WFI")
  /\ UNCHANGED absent

\* ec 0x01, WFI: counted before the scheduler is called.
mon_wfi ==
  /\ Count
  /\ trap_wfi
  /\ vm_mon' = [vm_mon EXCEPT ![vm_id] = monitor_trigger(@, "TRAP_WFI")]
  /\ sys_mon' = count_switch(sys_mon)
  /\ Saw("TRAP_WFI")
  /\ UNCHANGED absent

\* ec 0x03 and 0x04: the system's counter is that of WFI.
mon_cp15 ==
  /\ Count
  /\ trap_cp
  /\ vm_mon' = [vm_mon EXCEPT ![vm_id] = monitor_trigger(@, "TRAP_CP15")]
  /\ sys_mon' = monitor_trigger(sys_mon, "TRAP_WFI")
  /\ Saw("TRAP_CP15")
  /\ UNCHANGED absent

\* ec 0x05: not counted.
mon_cp14 == trap_cp /\ UNCHANGED monVars

\* The immediate of HVC selects what is printed.
mon_hvc(imm16) ==
  /\ Count
  /\ trap_hvc
  /\ vm_mon' = IF imm16 \in {1, 3} THEN [vm_mon EXCEPT ![vm_id] = monitor_print(@)] ELSE vm_mon
  /\ sys_mon' = IF imm16 \in {2, 3} THEN monitor_print(sys_mon) ELSE sys_mon
  /\ UNCHANGED <<seen, absent>>

mon_dabort(event, trap) ==
  /\ Count
  /\ trap
  /\ vm_mon' = [vm_mon EXCEPT ![vm_id] = monitor_trigger(@, event)]
  /\ Saw(event)
  /\ UNCHANGED <<sys_mon, absent>>

\* The slice ends: only the switch is counted.
mon_timer ==
  /\ Count
  /\ irq_timer
  /\ sys_mon' = count_switch(sys_mon)
  /\ UNCHANGED <<vm_mon, seen, absent>>

\* irq_handler counts for the system, guest_rpb_irq_handler for the VM, but
\* guest_rpb_irq_handler_suspend does not.
mon_irq(pid) ==
  LET t == irq_target(pid)
      s == monitor_trigger(sys_mon, "TRAP_IRQ")
  IN  /\ Count
      /\ irq_device(pid)
      /\ vm_mon' = IF target_is_active(t)
                   THEN [vm_mon EXCEPT ![t] = monitor_trigger(@, "TRAP_IRQ")] ELSE vm_mon
      /\ sys_mon' = IF scheduler_idle THEN count_switch(s) ELSE s
      /\ absent' = IF Running = t THEN absent ELSE absent + 1
      /\ UNCHANGED seen

Uncounted ==
  /\ \/ GuestExecute
     \/ GuestWfiNoWait
     \/ \E i \in LRs : GuestAck(i) \/ GuestEoi(i)
     \/ trap_error
     \/ \E pid \in Pids : Raise(pid)
     \/ irq_spurious
     \/ irq_unknown
     \/ Tick
     \/ Exited
  /\ UNCHANGED monVars

\* monitor_reset.
MInit ==
  /\ Init
  /\ sys_mon = NoEvents
  /\ vm_mon = [v \in VM |-> NoEvents]
  /\ seen = [v \in VM |-> NoEvents.events]
  /\ absent = 0
  /\ total = 0

MNext ==
  \/ mon_wfi
  \/ mon_cp15
  \/ mon_cp14
  \/ \E imm16 \in 0 .. 3 : mon_hvc(imm16)
  \/ mon_dabort("ALLOCATE_PAGE", trap_dabort_memory)
  \/ mon_dabort("TRAP_DABORT_VDEV", trap_dabort_load)
  \/ mon_dabort("TRAP_DABORT_VDEV", trap_dabort_store)
  \/ mon_timer
  \/ \E pid \in Pids : mon_irq(pid)
  \/ Uncounted

MSpec == MInit /\ [][MNext]_allVars

(***************************************************************************)
(* Properties.                                                             *)
(***************************************************************************)
GuestEvents == {"TRAP_WFI", "TRAP_CP15", "TRAP_DABORT_VDEV", "ALLOCATE_PAGE"}

\* Each VM's monitor counts the traps of that VM's own code, although a handler
\* counts through vm_id and may switch to another VM on the way.
CountsOwnTraps ==
  halt = "no" => \A v \in VM : \A e \in GuestEvents : vm_mon[v].events[e] = seen[v][e]

\* Every interrupt the system counts is counted for a VM that is on the CPU, or
\* found its VM off the CPU: the counters of the VMs and the system differ by
\* exactly those, idle periods included.  sum[v] is what VMs 0 to v - 1 have
\* counted.
IrqsBalance ==
  halt = "no" =>
    \E sum \in [0 .. NumVM -> 0 .. sys_mon.events["TRAP_IRQ"]] :
      /\ sum[0] = 0
      /\ \A v \in VM : sum[v + 1] = sum[v] + vm_mon[v].events["TRAP_IRQ"]
      /\ sys_mon.events["TRAP_IRQ"] = absent + sum[NumVM]
=============================================================================

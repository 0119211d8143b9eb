----------------------------- MODULE Interrupts -----------------------------
(***************************************************************************)
(* The way of an interrupt from a device to a guest: the physical            *)
(* distributor forwards it only while its enable bit is set, the guests set   *)
(* and clear these bits by trapped stores to their virtual distributors       *)
(* (VGicDist), and what is forwarded is injected by irq_handler (Hypervisor). *)
(* A guest may enable or disable an interrupt at any moment of its way.       *)
(* Its stores are among the 64 interrupts the distributor announces: what is  *)
(* stored past them, and leaves nothing certain, is the case wild of VGicDist. *)
(***************************************************************************)
EXTENDS Hypervisor

CONSTANTS ResetEnabled    \* what the physical distributor forwards out of reset

\* Nothing in the code sets the enable bit of the hypervisor's own timer: it
\* has to be set out of reset.
ASSUME ResetAssumption == ResetEnabled \subseteq {TimerPid}

VARIABLES en, virq_en, enabled, shift,    \* VGicDist
          masked        \* history: how often an interrupt was taken by its
                        \* guest since the guest disabled it (up to 2)

distVars == <<en, virq_en, enabled, shift>>
allVars  == <<vars, distVars, masked>>

\* The virtual ids of the interrupts in Pids, one per line and VM.
Vids == {vdev_gic2_dist_irq_to_virq(irq_target(p), p) : p \in Pids}

D == INSTANCE VGicDist WITH Words <- {1}, Data <- Vids, Outcomes <- {},
                            wild <- (\E d \in Vids : d > 63), halt <- (halt # "no")

\* Whether the guest of p has p enabled at its virtual distributor.
Unmasked(p) == vdev_gic2_dist_irq_to_virq(irq_target(p), p) \in virq_en[irq_target(p)]

(***************************************************************************)
(* A store to the virtual distributor is the store of Hypervisor with the    *)
(* effect of VGicDist; the handler passes the VM it believes to run, vm_id.  *)
(***************************************************************************)
\* The interrupts of the VM that issued the store.
OwnPids(S) == {p \in Pids : irq_target(p) = vm_id
                            /\ vdev_gic2_dist_irq_to_virq(vm_id, p) \in S}

store_isenabler(S) ==
  /\ trap_dabort_store
  /\ D!write_isenabler(vm_id, S)
  /\ masked' = [p \in Pids |-> IF p \in OwnPids(S) THEN 0 ELSE masked[p]]

store_icenabler(S) ==
  /\ trap_dabort_store
  /\ D!write_icenabler(vm_id, S)
  /\ UNCHANGED masked

\* Bit 0 or bit 1 of GICD_CTLR.  (Both together, and other errors, stop the
\* program: trap_error.)
store_ctlr(group0_en, group1_en) ==
  /\ ~(group0_en /\ group1_en)
  /\ trap_dabort_store
  /\ D!write_ctlr(vm_id, group0_en, group1_en)
  /\ UNCHANGED masked

\* Any other store to a device.
store_other ==
  /\ trap_dabort_store
  /\ UNCHANGED <<distVars, masked>>

(***************************************************************************)
(* The physical distributor: a pending interrupt waits while it is disabled.  *)
(***************************************************************************)
forward_timer ==
  /\ TimerPid \in enabled
  /\ irq_timer
  /\ UNCHANGED <<distVars, masked>>

forward_device(pid) ==
  /\ pid \in enabled
  /\ irq_device(pid)
  /\ UNCHANGED <<distVars, masked>>

\* The virtual CPU interface presents list registers; it knows nothing of the
\* virtual distributor.
take(i) ==
  /\ GuestAck(i)
  /\ LET p == cpu.list[i].pid
     IN  masked' = [masked EXCEPT ![p] = IF Unmasked(p) \/ @ = 2 THEN @ ELSE @ + 1]
  /\ UNCHANGED distVars

Others ==
  /\ \/ GuestExecute
     \/ GuestWfiNoWait
     \/ \E i \in LRs : GuestEoi(i)
     \/ trap_wfi
     \/ trap_cp
     \/ trap_hvc
     \/ trap_dabort_memory
     \/ trap_dabort_load
     \/ trap_error
     \/ \E pid \in Pids : Raise(pid)
     \/ irq_spurious
     \/ irq_unknown
     \/ Tick
     \/ Exited
  /\ UNCHANGED <<distVars, masked>>

IInit ==
  /\ Init
  /\ en = [v \in VM |-> FALSE]
  /\ virq_en = [v \in VM |-> {}]
  /\ enabled = ResetEnabled
  /\ shift \in {"zero", "wrap"}
  /\ masked = [p \in Pids |-> 0]

INext ==
  \/ \E S \in (SUBSET Vids) \ {{}} : store_isenabler(S) \/ store_icenabler(S)
  \/ \E g0, g1 \in BOOLEAN : store_ctlr(g0, g1)
  \/ store_other
  \/ forward_timer
  \/ \E pid \in Pids : forward_device(pid)
  \/ \E i \in LRs : take(i)
  \/ Others

ISpec == IInit /\ [][INext]_allVars

\* As in Hypervisor, for the interrupts that are forwarded.
IFairness ==
  /\ WF_allVars(Tick /\ UNCHANGED <<distVars, masked>>)
  /\ WF_allVars(forward_timer)
  /\ \A pid \in Pids : WF_allVars(forward_device(pid))

IFairSpec == ISpec /\ IFairness

(***************************************************************************)
(* Properties.                                                             *)
(***************************************************************************)
\* irq_handler injects an interrupt only if its own guest has it enabled at
\* that moment (stores being to announced interrupts), although the enable bits are in one register that every
\* guest's stores write and the guest may be off the CPU or asleep.
InjectedOnlyIfUnmasked == [][\A p \in act' \ act : Unmasked(p)]_allVars

\* Disabling does not withdraw an interrupt that is already in a list register,
\* but at most that one still arrives: a guest takes an interrupt it has
\* disabled at most once, however often the device raises it again.
MaskedTakenOnce == \A p \in Pids : masked[p] <= 1

\* An interrupt raised while it is disabled is late, not lost: if its guest
\* finally leaves it enabled, it gets that guest onto the CPU with the
\* interrupt in a list register.  (For the compiled shift that sets the bit.)
UnmaskedArrives ==
  \A p \in Pids :
    (shift = "wrap" /\ <>[]Unmasked(p)) =>
      ((p \in pend \ act) ~>
        (halt # "no" \/ \E i \in LRs : Running = irq_target(p) /\ cpu.list[i].pid = p))

\* The time slice works although guests write the distributor's enable bits:
\* no store to an announced interrupt stops the hypervisor's timer, and a VM that can run is
\* eventually given the CPU, also when no guest executes WFI.  (It needs a
\* distributor that forwards the timer out of reset: ResetEnabled.)
TimeShared ==
  \A v \in VM : (wfi_state[v] # "WFI_In") ~> (Running = v \/ halt # "no")
=============================================================================

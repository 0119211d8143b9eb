------------------------------ MODULE Machines ------------------------------
(***************************************************************************)
(* What the hypervisor promises its guests: every VM is a machine of its    *)
(* own.  Its registers change only by its own instructions, an instruction  *)
(* that traps has its effect exactly once, it sleeps only by executing WFI  *)
(* with nothing pending, and each of its interrupts goes once from the      *)
(* device through "pending" and "active" back to "inactive".  There is no   *)
(* CPU, no switch, no timer and no saved copy in this specification.        *)
(***************************************************************************)
EXTENDS Integers

CONSTANTS VM,                \* the machines
          Pids,              \* their interrupts
          Owner(_),          \* the machine an interrupt belongs to
          Code,              \* the instructions at each program counter
          PcInc(_),          \* the program counter after one instruction
          DataInc(_)         \* the next version of a register

VARIABLES mach,              \* registers of each machine
          asleep,            \* machines waiting for an interrupt
          irq,               \* state of each interrupt at its machine
          on                 \* FALSE once the program has stopped

vars == <<mach, asleep, irq, on>>

Awake(v) == on /\ v \notin asleep
Executes(v, ins) == Awake(v) /\ ins \in Code[mach[v].pc.n]
HasPending(v) == \E p \in Pids : Owner(p) = v /\ irq[p] = "pending"

First(v) == [own |-> v, n |-> 0]

Init ==
  /\ mach = [v \in VM |-> [pc   |-> First(v), usr |-> First(v), bank |-> First(v),
                           sys |-> First(v), ctlr |-> First(v)]]
  /\ asleep = {}
  /\ irq = [p \in Pids |-> "inactive"]
  /\ on = TRUE

\* Ordinary code: the program counter moves, every register gets a new version.
Execute(v) ==
  /\ Executes(v, "run") \/ Executes(v, "ram")
  /\ LET new == DataInc(mach[v].bank)
     IN  mach' = [mach EXCEPT ![v] = [pc  |-> PcInc(mach[v].pc), usr |-> new,
                                      bank |-> new, sys |-> new, ctlr |-> new]]
  /\ UNCHANGED <<asleep, irq, on>>

\* Instructions that leave the registers alone: an ignored coprocessor access,
\* a hypervisor call, a device store, WFI with an interrupt pending.
Step(v) ==
  /\ \/ Executes(v, "cp") \/ Executes(v, "hvc") \/ Executes(v, "store")
     \/ Executes(v, "wfi") /\ HasPending(v)
  /\ mach' = [mach EXCEPT ![v].pc = PcInc(@)]
  /\ UNCHANGED <<asleep, irq, on>>

\* A load from an emulated device.
Load(v) ==
  /\ Executes(v, "load")
  /\ mach' = [mach EXCEPT ![v].pc = PcInc(@), ![v].usr = DataInc(@)]
  /\ UNCHANGED <<asleep, irq, on>>

WaitForInterrupt(v) ==
  /\ Executes(v, "wfi")
  /\ ~HasPending(v)
  /\ mach' = [mach EXCEPT ![v].pc = PcInc(@)]
  /\ asleep' = asleep \cup {v}
  /\ UNCHANGED <<irq, on>>

Deliver(p) ==
  /\ on
  /\ irq[p] = "inactive"
  /\ irq' = [irq EXCEPT ![p] = "pending"]
  /\ asleep' = asleep \ {Owner(p)}
  /\ UNCHANGED <<mach, on>>

Acknowledge(p) ==
  /\ Awake(Owner(p))
  /\ irq[p] = "pending"
  /\ irq' = [irq EXCEPT ![p] = "active"]
  /\ UNCHANGED <<mach, asleep, on>>

EndOfInterrupt(p) ==
  /\ Awake(Owner(p))
  /\ irq[p] = "active"
  /\ irq' = [irq EXCEPT ![p] = "inactive"]
  /\ UNCHANGED <<mach, asleep, on>>

Stop ==
  /\ on
  /\ on' = FALSE
  /\ UNCHANGED <<mach, asleep, irq>>

Next ==
  \/ \E v \in VM : Execute(v) \/ Step(v) \/ Load(v) \/ WaitForInterrupt(v)
  \/ \E p \in Pids : Deliver(p) \/ Acknowledge(p) \/ EndOfInterrupt(p)
  \/ Stop

Spec == Init /\ [][Next]_vars
=============================================================================

------------------------------ MODULE ListSlots ------------------------------
(***************************************************************************)
(* What guests/guest_rpb.c relies on list registers for: slots that hold an *)
(* interrupt or are free.  A free slot holds nothing, a new interrupt goes   *)
(* to the first free slot, and moving a VM off the CPU and back changes      *)
(* nothing.  This is how module Hypervisor sees list registers.             *)
(***************************************************************************)
EXTENDS Integers

CONSTANTS LRs,      \* the slots, 0 .. n
          Irqs      \* the interrupts of the VM

VARIABLES slot,     \* each slot's contents
          on        \* FALSE once the list has overflowed

Free == [state |-> "LR_Invalid", pid |-> {}, vid |-> {}]
Holds(st, q) == [state |-> st, pid |-> q.pid, vid |-> q.vid]
IsFree(i) == slot[i].state = "LR_Invalid"

Init == slot = [i \in LRs |-> Free] /\ on = TRUE

Put(q) ==
  /\ on
  /\ \E i \in LRs :
       /\ IsFree(i)
       /\ \A j \in LRs : j < i => ~IsFree(j)
       /\ slot' = [slot EXCEPT ![i] = Holds("LR_Pending", q)]
  /\ UNCHANGED on

Overflow ==
  /\ on
  /\ \A i \in LRs : ~IsFree(i)
  /\ on' = FALSE
  /\ UNCHANGED slot

Acknowledge(i) ==
  /\ on
  /\ slot[i].state = "LR_Pending"
  /\ slot' = [slot EXCEPT ![i].state = "LR_Active"]
  /\ UNCHANGED on

End(i) ==
  /\ on
  /\ slot[i].state = "LR_Active"
  /\ slot' = [slot EXCEPT ![i] = Free]
  /\ UNCHANGED on

Next ==
  \/ \E q \in Irqs : Put(q)
  \/ Overflow
  \/ \E i \in LRs : Acknowledge(i) \/ End(i)

Spec == Init /\ [][Next]_<<slot, on>>
=============================================================================

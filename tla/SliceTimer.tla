----------------------------- MODULE SliceTimer -----------------------------
(***************************************************************************)
(* What the scheduler relies on the hypervisor's timer for: once a slice has *)
(* been set, the interrupt comes after Slice clocks and again every Slice    *)
(* clocks, setting the slice again starts it anew, and an interrupt that is  *)
(* due stays until it is cleared.  Module Hypervisor counts its time slices  *)
(* in this way.                                                            *)
(***************************************************************************)
EXTENDS Integers

CONSTANT Slice

VARIABLES left,     \* clocks left of the slice, 0 before the first one is set
          irq       \* the interrupt request

vars == <<left, irq>>

Init == left = 0 /\ irq \in BOOLEAN

\* Nothing is promised before the first slice is set.
Early == left = 0 /\ left' = 0 /\ irq' \in BOOLEAN

SetSlice == left' = Slice /\ UNCHANGED irq

Clock ==
  /\ left > 0
  /\ left' = IF left = 1 THEN Slice ELSE left - 1
  /\ irq' = (irq \/ left = 1)

Clear ==
  /\ left > 0 /\ irq
  /\ irq' = FALSE
  /\ UNCHANGED left

Next == Early \/ SetSlice \/ Clock \/ Clear

Spec == Init /\ [][Next]_vars
=============================================================================

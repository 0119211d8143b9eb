---------------------------- MODULE MCInterrupts ----------------------------
(* A finite instance of Interrupts for TLC. *)
EXTENDS Interrupts, TLC

AnyCode == (0 :> {"run", "ram", "wfi", "cp", "hvc", "load", "store", "bad"})
=============================================================================

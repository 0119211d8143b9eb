---------------------------- MODULE MCHypervisor ----------------------------
(* Finite instances of Hypervisor for TLC; the constants are in the .cfg files. *)
EXTENDS Hypervisor, TLC

\* One program counter at which a guest may do anything.
AnyCode == (0 :> {"run", "ram", "wfi", "cp", "hvc", "load", "store", "bad"})

\* A loop in which a device load and a RAM access (which may fault and be
\* redone) are the only instructions at their addresses, so that skipping or
\* repeating one is visible.
LoopCode == (0 :> {"run", "wfi", "cp", "hvc", "store", "bad"})
            @@ (1 :> {"load"}) @@ (2 :> {"ram"})
=============================================================================

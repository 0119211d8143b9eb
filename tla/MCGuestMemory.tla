---------------------------- MODULE MCGuestMemory ----------------------------
(* Finite instances of GuestMemory for TLC.  The layout keeps the order of the
   real one: RAM, devices, high window; the high window's 32-bit comparison ends
   below the top of the address space, and its low aliases cover the devices. *)
EXTENDS GuestMemory, TLC

\* Blocks of four pages; the devices lie in three blocks, as they do in reality.
MCDevIpa == [uart |-> 13, timer_0 |-> 14, timer_2 |-> 15, vcpu_if |-> 17, black_hole |-> 20]
MCEmulated == {12, 18}
MCBoth == {TRUE, FALSE}
MCStatic == {TRUE}
MCOnDemand == {FALSE}
\* RAM at low and high addresses, mapped and emulated devices, a hole.
MCInside == {3, 6, 24 + 3, 24 + 7, 13, 12, 22}
MCRam == 0 .. RamPages - 1
\* One page past the RAM, low.
MCPast == {0, 8}
=============================================================================

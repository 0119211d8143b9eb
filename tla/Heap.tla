-------------------------------- MODULE Heap --------------------------------
(***************************************************************************)
(* _sbrk of vmm/newlib_stub.c: the C library's heap in hypervisor memory,    *)
(* with the program below it and the stack above (boot/include/asm.inc).    *)
(* Addresses are unsigned and wrap at Top; an increment is signed.          *)
(***************************************************************************)
EXTENDS Integers

CONSTANTS Top,          \* 2^32
          heap_start,   \* 0x02000000
          heap_end,     \* 0x04000000, where the stack of hypervisor mode ends
          Incr          \* the increments newlib asks for

\* Increments are ints: even the largest, added to the end of the heap, stays
\* below 2^32.
ASSUME HeapAssumption ==
  /\ {Top, heap_start, heap_end} \subseteq Nat
  /\ heap_start <= heap_end /\ heap_end < Top
  /\ Incr \subseteq Int
  /\ \A i \in Incr : heap_end + i < Top

VARIABLES current_heap_end,   \* the static variable
          blocks              \* external: the addresses newlib got and still has

vars == <<current_heap_end, blocks>>

uint32(n) == n % Top

\* The test is made before the increment is added.
full_bug(incr) == current_heap_end > heap_end

full(incr) == uint32(current_heap_end + incr) > heap_end

\* newlib takes more, or gives back the end of what it has.
Asks(incr) ==
  incr < 0 => (current_heap_end + incr) .. (current_heap_end - 1) \subseteq blocks

sbrk(incr) ==
  /\ Asks(incr)
  /\ ~full(incr)
  /\ current_heap_end' = uint32(current_heap_end + incr)
  /\ blocks' = IF incr >= 0 THEN blocks \cup (current_heap_end .. (current_heap_end + incr - 1))
               ELSE blocks \ ((current_heap_end + incr) .. (current_heap_end - 1))

\* The null pointer it returns is taken as a refusal.
out_of_memory(incr) ==
  /\ Asks(incr)
  /\ full(incr)
  /\ UNCHANGED vars

Init == current_heap_end = heap_start /\ blocks = {}

Next == \E incr \in Incr : sbrk(incr) \/ out_of_memory(incr)

Spec == Init /\ [][Next]_vars

(***************************************************************************)
(* Properties.                                                             *)
(***************************************************************************)
\* After any sequence of requests and returns, at the limit and with negative
\* increments that wrap, newlib has exactly the memory from heap_start to the
\* current end, and that never reaches into the program or the stack.
HeapExact ==
  /\ current_heap_end \in heap_start .. heap_end
  /\ blocks = heap_start .. (current_heap_end - 1)
=============================================================================

----------------------------- MODULE StackFrame -----------------------------
(***************************************************************************)
(* The stack frame of boot/vector.s: every handler starts with an empty      *)
(* stack and pushes r0-r12 and lr of the code it interrupted.  The frame is  *)
(* a function from word offsets below STACK_HYP_BASE to contents.            *)
(***************************************************************************)
EXTENDS Integers

\* The registers of a frame, by their number in an instruction.
FrameRegs == (0 .. 12) \cup {14}

\* The words below the base at which read_reg_from_stack and
\* write_reg_to_stack look for register rn ("stack diagram").
frame_offset(rn) == IF rn <= 12 THEN 14 - rn ELSE 1

\* Register numbers for which they print an error and exit.
no_offset(rn) == rn \notin FrameRegs

read_reg_from_stack(f, rn) == f[frame_offset(rn)]

write_reg_to_stack(f, rn, value) == [f EXCEPT ![frame_offset(rn)] = value]

\* push {r0-r12, lr} and pop {r0-r12, lr}: the lowest register is at the
\* lowest address, lr next to the base.
push(r) == [k \in 1 .. 14 |-> IF k = 1 THEN r[14] ELSE r[14 - k]]
pop(f)  == [rn \in FrameRegs |-> IF rn = 14 THEN f[1] ELSE f[14 - rn]]
=============================================================================

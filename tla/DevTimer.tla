------------------------------ MODULE DevTimer ------------------------------
(***************************************************************************)
(* devices/dev_timer.c over the dual timer it drives.  The driver keeps a    *)
(* copy of each control register and every setter changes some bits of the   *)
(* copy and writes all of it, so a setter can undo an earlier one, and the   *)
(* counters run between any two register writes.  A step of the program is   *)
(* one call; interrupts are masked until the first guest runs.              *)
(***************************************************************************)
EXTENDS BitOpt, Sequences

CONSTANTS Slice,     \* value written to the load register (1200000 in the code)
          Max16,     \* largest value of a counter in 16-bit mode
          Max32,     \* largest value of a counter in 32-bit mode
          Reset      \* control words the hardware may start with

\* A slice fits only a 32-bit counter.
SliceAssumption ==
  /\ {Slice, Max16, Max32} \subseteq Nat \ {0}
  /\ Max16 < Slice /\ Slice <= Max32
  /\ Reset \subseteq Word

VARIABLES control_reg,   \* dev_timer.control_reg: the driver's copies
          hw,            \* the registers of the two timers
          pc             \* the next call of the program

vars == <<control_reg, hw, pc>>

Timers == {0, 1}

(***************************************************************************)
(* The hardware.                                                           *)
(***************************************************************************)
Divider(w) == CASE get_field(w, 3, 2) = {0} -> 16
                [] get_field(w, 3, 2) = {1} -> 256
                [] OTHER -> 1

Largest(w) == IF 1 \in w THEN Max32 ELSE Max16

\* What the counter continues with after it has reached zero.
Reloaded(t) == CASE 0 \in t.control -> 0
                 [] 6 \in t.control -> t.load % (Largest(t.control) + 1)
                 [] OTHER -> Largest(t.control)

Stopped(t) == 7 \notin t.control \/ (0 \in t.control /\ t.value = 0)

\* One clock of timer n.
Clock(n) ==
  LET t == hw[n]
      full == t.pre + 1 >= Divider(t.control)
      ends == full /\ t.value <= 1
  IN  /\ ~Stopped(t)
      /\ hw' = [hw EXCEPT ![n].pre   = IF full THEN 0 ELSE t.pre + 1,
                          ![n].value = IF ends THEN Reloaded(t)
                                       ELSE IF full THEN t.value - 1 ELSE t.value,
                          ![n].raw   = t.raw \/ ends]
      /\ UNCHANGED <<control_reg, pc>>

\* The two timers share one interrupt request.
Line == \E n \in Timers : hw[n].raw /\ 5 \in hw[n].control

write_control(n, w) ==
  /\ control_reg' = [control_reg EXCEPT ![n] = w]
  /\ hw' = [hw EXCEPT ![n].control = w]

write_load(n, v) ==
  /\ hw' = [hw EXCEPT ![n].load  = v,
                      ![n].value = v % (Largest(hw[n].control) + 1),
                      ![n].pre   = 0]
  /\ UNCHANGED control_reg

(***************************************************************************)
(* The setters, as what they make of the control word w.                   *)
(***************************************************************************)
dev_timer_set_wrapping(w, wrapping) ==
  IF wrapping THEN set_bit(w, 0, FALSE) ELSE set_bit(w, 1, FALSE)

dev_timer_set_size(w, size) ==
  CASE size = 16 -> set_bit(w, 1, FALSE)
    [] size = 32 -> set_bit(w, 1, TRUE)

dev_timer_set_prescale(w, prescale) ==
  CASE prescale = 1   -> set_field(w, 3, 2, {})
    [] prescale = 16  -> set_field(w, 3, 2, {0})
    [] prescale = 256 -> set_field(w, 3, 2, {1})

dev_timer_set_interrupt(w, int_en) == set_bit(w, 5, int_en)

dev_timer_set_mode(w, mode) == set_bit(w, 6, mode = "Period")

\* The branches are the same.
dev_timer_set_enable_bug(w, en) == set_bit(w, 7, FALSE)

dev_timer_set_enable(w, en) == set_bit(w, 7, en)

(***************************************************************************)
(* The calls made before the first guest runs.                             *)
(***************************************************************************)
call(f, n, a) == [f |-> f, n |-> n, a |-> a]

dev_timer_init(n) ==
  <<call("wrapping", n, FALSE), call("size", n, 32), call("prescale", n, 1),
    call("interrupt", n, FALSE), call("mode", n, "Period"), call("enable", n, FALSE)>>

\* The size is set before the wrapping.
meteor_devices_init_bug ==
  <<call("size", 0, 32), call("wrapping", 0, FALSE), call("prescale", 0, 1),
    call("mode", 0, "Period"), call("interrupt", 0, TRUE), call("enable", 0, TRUE)>>

meteor_devices_init ==
  <<call("wrapping", 0, FALSE), call("size", 0, 32), call("prescale", 0, 1),
    call("mode", 0, "Period"), call("interrupt", 0, TRUE), call("enable", 0, TRUE)>>

\* main() ends with scheduler_reset_timer.
Calls == dev_timer_init(0) \o dev_timer_init(1) \o meteor_devices_init \o <<call("load", 0, Slice)>>

Guest == Len(Calls) + 1      \* a guest runs, or the idle thread
InIrq == Len(Calls) + 2      \* irq_handler has cleared the interrupt

at(f) == pc \in DOMAIN Calls /\ Calls[pc].f = f

\* A call of a setter: new control word, copy and register.
set(f, Setter(_, _)) ==
  /\ at(f)
  /\ write_control(Calls[pc].n, Setter(control_reg[Calls[pc].n], Calls[pc].a))
  /\ pc' = pc + 1

dev_timer_set_load ==
  /\ at("load")
  /\ write_load(Calls[pc].n, Calls[pc].a)
  /\ pc' = pc + 1

\* A guest's WFI, or an interrupt that ends the idle thread, switches VMs.
scheduler_reset_timer ==
  /\ pc = Guest
  /\ write_load(0, Slice)
  /\ UNCHANGED pc

\* irq_handler, case 34: first the interrupt is cleared ...
dev_timer_clear_interrupt ==
  /\ pc = Guest /\ Line
  /\ hw' = [hw EXCEPT ![0].raw = FALSE]
  /\ pc' = InIrq
  /\ UNCHANGED control_reg

\* ... then the scheduler sets the slice.
irq_reset_timer ==
  /\ pc = InIrq
  /\ write_load(0, Slice)
  /\ pc' = Guest

Init ==
  /\ control_reg = [n \in Timers |-> {}]
  /\ hw \in [Timers -> [load : {0}, value : {Max32}, control : Reset, raw : BOOLEAN, pre : {0}]]
  /\ pc = 1

Program ==
  \/ set("wrapping", dev_timer_set_wrapping)
  \/ set("size", dev_timer_set_size)
  \/ set("prescale", dev_timer_set_prescale)
  \/ set("interrupt", dev_timer_set_interrupt)
  \/ set("mode", dev_timer_set_mode)
  \/ set("enable", dev_timer_set_enable)
  \/ dev_timer_set_load
  \/ scheduler_reset_timer
  \/ dev_timer_clear_interrupt
  \/ irq_reset_timer

Next == Program \/ \E n \in Timers : Clock(n)

Spec == Init /\ [][Next]_vars

\* The program goes through its calls, a handler ends, and the hardware counts;
\* when a guest waits and whether the interrupt is taken is left open.
FairSpec ==
  /\ Spec
  /\ WF_vars(pc # Guest /\ Program)
  /\ WF_vars(Clock(0))

(***************************************************************************)
(* Properties.                                                             *)
(***************************************************************************)
\* The registers, as all the calls leave them and however the counters run
\* between them, are the timer the scheduler counts on: a full slice of clocks
\* to the interrupt (not its low 16 bits, no prescaling), again every slice,
\* the request kept until cleared and cleared by clearing timer 0.  It breaks
\* when one setter undoes another.
Sliced == INSTANCE SliceTimer WITH
            left <- IF pc < Guest THEN 0 ELSE hw[0].value,
            irq  <- Line
RefinesSlice == Sliced!Spec

\* Unless switches keep starting new slices, the timer keeps interrupting: also
\* when an interrupt is never taken, when it is taken late, and when a clock
\* falls between clearing it and setting the next slice.
SliceEnds ==
  \/ []<><<scheduler_reset_timer>>_vars
  \/ []<>Line
=============================================================================

---------------------------- MODULE ListRegister ----------------------------
(***************************************************************************)
(* The list registers of one VM as the 32-bit words the code reads and      *)
(* writes (guests/guest_rpb.c, devices/dev_gic2_vctrl.c), in the hardware    *)
(* while the VM is on the CPU and in vm->bk.list while it is not.  A list    *)
(* register that becomes invalid keeps its old bits: the handlers reuse such *)
(* a word by overwriting fields of it.                                      *)
(*                                                                         *)
(* Operators whose name ends in _bug are faulty variants of the definition  *)
(* after them and no part of the specification.                             *)
(***************************************************************************)
EXTENDS BitOpt

CONSTANTS NumLR,     \* list registers (64)
          Irqs       \* the VM's interrupts: [pid, vid], each the set of its bits

LRs == 0 .. NumLR - 1

ASSUME NumLRAssumption == NumLR \in Nat \ {0}
\* pid and vid fit their fields of ten bits.
ASSUME IrqsAssumption  == Irqs \subseteq [pid : SUBSET (0 .. 9), vid : SUBSET (0 .. 9)]

VARIABLES list,      \* the hardware list registers
          bk_list,   \* vm->bk.list
          live,      \* the VM is on the CPU (its backup is dirty)
          halt

vars == <<list, bk_list, live, halt>>

LR_Invalid == {}
LR_Pending == {0}
LR_Active  == {1}

state_of(w) == get_field(w, 29, 28)

\* dev_gic2_vctrl_write_list: a word built from zero.
dev_gic2_vctrl_write_list(hw, state, pid, vid) ==
  set_field(set_field(set_field(set_bit({}, 1, hw), 29, 28, state), 19, 10, pid), 9, 0, vid)

dev_gic2_vctrl_clear_list ==
  [i \in LRs |-> dev_gic2_vctrl_write_list(FALSE, LR_Invalid, {}, {})]

\* The four writes of guest_rpb_irq_handler(_suspend) to the old word.
pending_word(w, q) ==
  set_field(set_field(set_field(set_bit(w, 1, TRUE), 29, 28, LR_Pending), 19, 10, q.pid),
            9, 0, q.vid)

first_invalid(l, i) ==
  /\ state_of(l[i]) = LR_Invalid
  /\ \A j \in LRs : j < i => state_of(l[j]) # LR_Invalid

\* The VM is on the CPU: hardware list registers.
guest_rpb_irq_handler(q) ==
  /\ ~halt /\ live
  /\ \E i \in LRs :
       /\ first_invalid(list, i)
       /\ list' = [list EXCEPT ![i] = pending_word(list[i], q)]
  /\ UNCHANGED <<bk_list, live, halt>>

\* It is not: the saved copy.
guest_rpb_irq_handler_suspend(q) ==
  /\ ~halt /\ ~live
  /\ \E i \in LRs :
       /\ first_invalid(bk_list, i)
       /\ bk_list' = [bk_list EXCEPT ![i] = pending_word(bk_list[i], q)]
  /\ UNCHANGED <<list, live, halt>>

\* No word is invalid: printbi exits.
no_empty_list_register ==
  /\ ~halt
  /\ \A i \in LRs : state_of(IF live THEN list[i] ELSE bk_list[i]) # LR_Invalid
  /\ halt' = TRUE
  /\ UNCHANGED <<list, bk_list, live>>

guest_backup_list ==
  /\ ~halt /\ live
  /\ bk_list' = list
  /\ live' = FALSE
  /\ UNCHANGED <<list, halt>>

guest_restore_list ==
  /\ ~halt /\ ~live
  /\ list' = bk_list
  /\ live' = TRUE
  /\ UNCHANGED <<bk_list, halt>>

\* Meanwhile the list registers serve the other VMs.
OtherVM ==
  /\ ~halt /\ ~live
  /\ \E q \in Irqs : list' = [i \in LRs |-> pending_word({}, q)]
  /\ UNCHANGED <<bk_list, live, halt>>

\* The hardware changes the state field only.
GuestAck(i) ==
  /\ ~halt /\ live
  /\ state_of(list[i]) = LR_Pending
  /\ list' = [list EXCEPT ![i] = (@ \ {28}) \cup {29}]
  /\ UNCHANGED <<bk_list, live, halt>>

GuestEoi(i) ==
  /\ ~halt /\ live
  /\ state_of(list[i]) = LR_Active
  /\ list' = [list EXCEPT ![i] = @ \ {28, 29}]
  /\ UNCHANGED <<bk_list, live, halt>>

Exited == halt /\ UNCHANGED vars

Init ==
  /\ list = dev_gic2_vctrl_clear_list
  /\ bk_list = [i \in LRs |-> {}]
  /\ live = FALSE
  /\ halt = FALSE

Next ==
  \/ \E q \in Irqs : guest_rpb_irq_handler(q) \/ guest_rpb_irq_handler_suspend(q)
  \/ no_empty_list_register
  \/ guest_backup_list
  \/ guest_restore_list
  \/ OtherVM
  \/ \E i \in LRs : GuestAck(i) \/ GuestEoi(i)
  \/ Exited

Spec == Init /\ [][Next]_vars

(***************************************************************************)
(* Properties.                                                             *)
(***************************************************************************)
TypeOK ==
  /\ list \in [LRs -> Word]
  /\ bk_list \in [LRs -> Word]
  /\ live \in BOOLEAN
  /\ halt \in BOOLEAN

\* What the interrupt controller makes of a word; of an invalid one, nothing.
StateName(w) ==
  IF state_of(w) = LR_Invalid THEN "LR_Invalid"
  ELSE IF state_of(w) = LR_Pending THEN "LR_Pending" ELSE "LR_Active"

Decode(w) ==
  [state |-> StateName(w),
   pid   |-> IF state_of(w) = LR_Invalid THEN {} ELSE get_field(w, 19, 10),
   vid   |-> IF state_of(w) = LR_Invalid THEN {} ELSE get_field(w, 9, 0)]

EffWord(i) == IF live THEN list[i] ELSE bk_list[i]

S == INSTANCE ListSlots WITH
       slot <- [i \in LRs |-> Decode(EffWord(i))],
       on   <- ~halt

\* The words implement slots (ListSlots): stale bits of an earlier interrupt
\* never show in a later one, fields do not run into each other, and an
\* interrupt keeps its slot and its ids across switches until it is ended.
RefinesSlots == S!Spec

\* "dev_gic2_vctrl_write_list(&sys_gic_vctrl, i, true, ...)", the call the four
\* writes replace (guest_rpb.c), asks for hw = true, which the code keeps in
\* bit 1: a list register in use should have it set.
HwFlagKept == \A i \in LRs : state_of(EffWord(i)) # LR_Invalid => get_bit(EffWord(i), 1) = {0}
=============================================================================

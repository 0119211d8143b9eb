-------------------------- MODULE Registers_proofs --------------------------
(***************************************************************************)
(* Proofs about the modules MCRegisters brings together: what the field      *)
(* operations of bit_opt_v2l.c return, that list registers as words          *)
(* implement list registers as slots (ListRegister), that the world switch   *)
(* gives every VM its registers back (GuestRegisters), and that access to    *)
(* the coprocessor by name is exact (Cp15Access).                           *)
(***************************************************************************)
EXTENDS MCRegisters, TLAPS

(***************************************************************************)
(* Fields of a word.                                                       *)
(***************************************************************************)
\* Reading the field that was just written gives the value written, whatever
\* the word held before.
THEOREM FieldRoundTrip ==
  ASSUME NEW w \in Word, NEW msb \in Bit, NEW lsb \in 0 .. msb,
         NEW f \in SUBSET (0 .. msb - lsb)
  PROVE  get_field(set_field(w, msb, lsb, f), msb, lsb) = f
  <1> DEFINE new == set_field(w, msb, lsb, f)
  <1>1. ASSUME NEW b \in Bit, lsb <= b, b <= msb
        PROVE  b \in new <=> b - lsb \in f
    BY <1>1 DEF set_field, mask, imask, shl, Bit
  <1>2. ASSUME NEW b \in get_field(new, msb, lsb) PROVE b \in f
    <2>1. b \in Bit /\ b + lsb \in new /\ b + lsb \in Bit /\ lsb <= b + lsb /\ b + lsb <= msb
      BY <1>2 DEF get_field, mask, shr, Bit
    <2>2. (b + lsb) - lsb \in f
      BY <1>1, <2>1
    <2>3. (b + lsb) - lsb = b
      BY <2>1 DEF Bit
    <2> QED BY <2>2, <2>3
  <1>3. ASSUME NEW b \in f PROVE b \in get_field(new, msb, lsb)
    <2>1. /\ b \in Bit /\ b + lsb \in Bit /\ lsb <= b + lsb /\ b + lsb <= msb
          /\ (b + lsb) - lsb = b
      BY DEF Bit
    <2>2. b + lsb \in new
      BY <1>1, <2>1
    <2> HIDE DEF new
    <2> QED BY <2>1, <2>2 DEF get_field, mask, shr, Bit
  <1> QED BY <1>2, <1>3

\* Writing a field leaves every field that does not overlap it alone.
THEOREM FieldFrame ==
  ASSUME NEW w \in Word, NEW msb \in Bit, NEW lsb \in Bit, NEW f,
         NEW m \in Bit, NEW l \in Bit, m < lsb \/ msb < l
  PROVE  get_field(set_field(w, msb, lsb, f), m, l) = get_field(w, m, l)
  BY DEF get_field, set_field, mask, imask, shl, shr, Word, Bit

\* set_field and set_bit stay within the 32 bits of a word.
LEMMA WordType ==
  ASSUME NEW w \in Word, NEW msb \in Bit, NEW lsb \in Bit, NEW f
  PROVE  /\ set_field(w, msb, lsb, f) \in Word
         /\ set_bit(w, msb, TRUE) \in Word
  BY DEF set_field, set_bit, mask, imask, shl, Word, Bit

\* The four writes make any old word the pending list register of q.
LEMMA PendingWord ==
  ASSUME NEW w \in Word, NEW q \in Irqs
  PROVE  /\ pending_word(w, q) \in Word
         /\ state_of(pending_word(w, q)) = LR_Pending
         /\ get_field(pending_word(w, q), 19, 10) = q.pid
         /\ get_field(pending_word(w, q), 9, 0) = q.vid
  <1> DEFINE w1 == set_bit(w, 1, TRUE)
             w2 == set_field(w1, 29, 28, LR_Pending)
             w3 == set_field(w2, 19, 10, q.pid)
             w4 == set_field(w3, 9, 0, q.vid)
  <1>1. q.pid \in SUBSET (0 .. 9) /\ q.vid \in SUBSET (0 .. 9)
    BY IrqsAssumption
  <1>2. /\ 0 \in Bit /\ 1 \in Bit /\ 9 \in Bit /\ 10 \in Bit
        /\ 19 \in Bit /\ 28 \in Bit /\ 29 \in Bit
    BY DEF Bit
  <1>3. w1 \in Word
    BY <1>2, WordType
  <1>4. w2 \in Word
    BY <1>2, <1>3, WordType
  <1>5. w3 \in Word
    BY <1>2, <1>4, WordType
  <1>6. w4 \in Word
    BY <1>2, <1>5, WordType
  <1>7. pending_word(w, q) = w4
    BY DEF pending_word
  <1> HIDE DEF w1, w2, w3, w4
  <1>8. get_field(w2, 29, 28) = LR_Pending
    <2>1. 28 \in 0 .. 29 /\ LR_Pending \in SUBSET (0 .. 29 - 28)
      BY DEF LR_Pending
    <2> QED BY <1>2, <1>3, <2>1, FieldRoundTrip DEF w2
  <1>9. get_field(w3, 29, 28) = LR_Pending
    BY <1>2, <1>4, <1>8, FieldFrame DEF w3
  <1>10. get_field(w4, 29, 28) = LR_Pending
    BY <1>2, <1>5, <1>9, FieldFrame DEF w4
  <1>11. get_field(w3, 19, 10) = q.pid
    <2>1. 10 \in 0 .. 19 /\ q.pid \in SUBSET (0 .. 19 - 10)
      BY <1>1
    <2> QED BY <1>2, <1>4, <2>1, FieldRoundTrip DEF w3
  <1>12. get_field(w4, 19, 10) = q.pid
    BY <1>2, <1>5, <1>11, FieldFrame DEF w4
  <1>13. get_field(w4, 9, 0) = q.vid
    <2>1. 0 \in 0 .. 9 /\ q.vid \in SUBSET (0 .. 9 - 0)
      BY <1>1
    <2> QED BY <1>2, <1>5, <2>1, FieldRoundTrip DEF w4
  <1> QED BY <1>6, <1>7, <1>10, <1>12, <1>13 DEF state_of

\* What the hardware's changes of the state field do to a word.
LEMMA StateChange ==
  ASSUME NEW w \in Word
  PROVE  /\ (w \ {28}) \cup {29} \in Word
         /\ state_of((w \ {28}) \cup {29}) = LR_Active
         /\ get_field((w \ {28}) \cup {29}, 19, 10) = get_field(w, 19, 10)
         /\ get_field((w \ {28}) \cup {29}, 9, 0) = get_field(w, 9, 0)
         /\ w \ {28, 29} \in Word
         /\ state_of(w \ {28, 29}) = LR_Invalid
  <1>1. (w \ {28}) \cup {29} \in Word /\ w \ {28, 29} \in Word
    BY DEF Word, Bit
  <1>2. state_of((w \ {28}) \cup {29}) = LR_Active
    BY DEF state_of, get_field, mask, shr, Word, Bit, LR_Active
  <1>3. state_of(w \ {28, 29}) = LR_Invalid
    BY DEF state_of, get_field, mask, shr, Word, Bit, LR_Invalid
  <1>4. /\ get_field((w \ {28}) \cup {29}, 19, 10) = get_field(w, 19, 10)
        /\ get_field((w \ {28}) \cup {29}, 9, 0) = get_field(w, 9, 0)
    BY DEF get_field, mask, shr, Word, Bit
  <1> QED BY <1>1, <1>2, <1>3, <1>4

\* The word zero is an invalid list register.
LEMMA ZeroWord == {} \in Word /\ state_of({}) = LR_Invalid
  BY DEF state_of, get_field, mask, shr, Word, Bit, LR_Invalid

\* Clearing a list register writes the word zero.
LEMMA ClearedWord == dev_gic2_vctrl_write_list(FALSE, LR_Invalid, {}, {}) = {}
  <1>1. set_bit({}, 1, FALSE) = {}
    BY DEF set_bit
  <1>2. \A m \in Bit, l \in Bit : set_field({}, m, l, {}) = {}
    BY DEF set_field, shl
  <1>3. 29 \in Bit /\ 28 \in Bit /\ 19 \in Bit /\ 10 \in Bit /\ 9 \in Bit /\ 0 \in Bit
    BY DEF Bit
  <1> QED BY <1>1, <1>2, <1>3 DEF dev_gic2_vctrl_write_list, LR_Invalid

(***************************************************************************)
(* The words stay words.                                                   *)
(***************************************************************************)
\* Every step keeps the list registers, in the hardware and saved, words.
LEMMA NextType == TypeOK /\ [Next]_vars => TypeOK'
  <1> SUFFICES ASSUME TypeOK, [Next]_vars PROVE TypeOK'
    OBVIOUS
  <1> USE DEF TypeOK
  <1>1. ASSUME NEW q \in Irqs, guest_rpb_irq_handler(q) PROVE TypeOK'
    BY <1>1, PendingWord DEF guest_rpb_irq_handler
  <1>2. ASSUME NEW q \in Irqs, guest_rpb_irq_handler_suspend(q) PROVE TypeOK'
    BY <1>2, PendingWord DEF guest_rpb_irq_handler_suspend
  <1>3. CASE no_empty_list_register
    BY <1>3 DEF no_empty_list_register
  <1>4. CASE guest_backup_list
    BY <1>4 DEF guest_backup_list
  <1>5. CASE guest_restore_list
    BY <1>5 DEF guest_restore_list
  <1>6. CASE OtherVM
    BY <1>6, PendingWord, ZeroWord DEF OtherVM
  <1>7. ASSUME NEW i \in LRs, GuestAck(i) PROVE TypeOK'
    BY <1>7, StateChange DEF GuestAck
  <1>8. ASSUME NEW i \in LRs, GuestEoi(i) PROVE TypeOK'
    BY <1>8, StateChange DEF GuestEoi
  <1>9. CASE Exited
    BY <1>9 DEF Exited, vars
  <1>10. CASE UNCHANGED vars
    BY <1>10 DEF vars
  <1> QED
    BY <1>1, <1>2, <1>3, <1>4, <1>5, <1>6, <1>7, <1>8, <1>9, <1>10 DEF Next

\* List registers, in the hardware and saved, always are 32-bit words.
THEOREM TypeCorrect == Spec => []TypeOK
  <1>1. Init => TypeOK
    BY ZeroWord, ClearedWord DEF Init, TypeOK, dev_gic2_vctrl_clear_list
  <1> QED BY <1>1, NextType, PTL DEF Spec

(***************************************************************************)
(* Refinement.                                                             *)
(***************************************************************************)
Slots == [i \in LRs |-> Decode(EffWord(i))]

\* An invalid word decodes as a free slot, and only such a word.
LEMMA DecodeFree ==
  ASSUME NEW w
  PROVE  /\ state_of(w) = LR_Invalid => Decode(w) = S!Free
         /\ Decode(w).state = "LR_Invalid" <=> state_of(w) = LR_Invalid
  BY DEF Decode, StateName, S!Free, LR_Invalid, LR_Pending

\* A pending word decodes as its interrupt.
LEMMA DecodePending ==
  ASSUME NEW w \in Word, NEW q \in Irqs
  PROVE  Decode(pending_word(w, q)) = S!Holds("LR_Pending", q)
  BY PendingWord DEF Decode, StateName, S!Holds, LR_Invalid, LR_Pending

\* A new interrupt in the first invalid word is a Put.
LEMMA PutStep ==
  ASSUME TypeOK, NEW q \in Irqs, ~halt, UNCHANGED halt, NEW i \in LRs,
         first_invalid([j \in LRs |-> EffWord(j)], i),
         \A j \in LRs : EffWord(j)' = IF j = i THEN pending_word(EffWord(i), q) ELSE EffWord(j)
  PROVE  S!Put(q)
  <1>1. EffWord(i) \in Word
    BY DEF TypeOK, EffWord
  <1>2. \A j \in LRs : S!IsFree(j) <=> state_of(EffWord(j)) = LR_Invalid
    BY DecodeFree DEF S!IsFree
  <1>3. S!IsFree(i) /\ \A j \in LRs : j < i => ~S!IsFree(j)
    BY <1>2 DEF first_invalid
  <1>4. Slots' = [Slots EXCEPT ![i] = S!Holds("LR_Pending", q)]
    BY <1>1, DecodePending DEF Slots
  <1> QED BY <1>3, <1>4 DEF S!Put, Slots

\* Every step of the words is a step of the slots or none.
LEMMA NextSlots == TypeOK /\ [Next]_vars => [S!Next]_<<Slots, ~halt>>
  <1> SUFFICES ASSUME TypeOK, [Next]_vars PROVE [S!Next]_<<Slots, ~halt>>
    OBVIOUS
  <1>1. list \in [LRs -> Word] /\ bk_list \in [LRs -> Word]
    BY DEF TypeOK
  <1>2. ASSUME NEW q \in Irqs, guest_rpb_irq_handler(q) PROVE S!Next
    <2>1. PICK i \in LRs : first_invalid(list, i) /\ list' = [list EXCEPT ![i] = pending_word(list[i], q)]
      BY <1>2 DEF guest_rpb_irq_handler
    <2>2. first_invalid([j \in LRs |-> EffWord(j)], i)
      BY <1>2, <2>1 DEF guest_rpb_irq_handler, first_invalid, EffWord
    <2>3. \A j \in LRs : EffWord(j)' = IF j = i THEN pending_word(EffWord(i), q) ELSE EffWord(j)
      BY <1>1, <1>2, <2>1 DEF guest_rpb_irq_handler, EffWord
    <2>4. ~halt /\ UNCHANGED halt
      BY <1>2 DEF guest_rpb_irq_handler
    <2> QED BY <2>2, <2>3, <2>4, PutStep DEF S!Next
  <1>3. ASSUME NEW q \in Irqs, guest_rpb_irq_handler_suspend(q) PROVE S!Next
    <2>1. PICK i \in LRs : /\ first_invalid(bk_list, i)
                           /\ bk_list' = [bk_list EXCEPT ![i] = pending_word(bk_list[i], q)]
      BY <1>3 DEF guest_rpb_irq_handler_suspend
    <2>2. first_invalid([j \in LRs |-> EffWord(j)], i)
      BY <1>3, <2>1 DEF guest_rpb_irq_handler_suspend, first_invalid, EffWord
    <2>3. \A j \in LRs : EffWord(j)' = IF j = i THEN pending_word(EffWord(i), q) ELSE EffWord(j)
      BY <1>1, <1>3, <2>1 DEF guest_rpb_irq_handler_suspend, EffWord
    <2>4. ~halt /\ UNCHANGED halt
      BY <1>3 DEF guest_rpb_irq_handler_suspend
    <2> QED BY <2>2, <2>3, <2>4, PutStep DEF S!Next
  <1>4. CASE no_empty_list_register
    <2>1. \A i \in LRs : ~S!IsFree(i)
      BY <1>4, DecodeFree DEF no_empty_list_register, S!IsFree, EffWord
    <2>2. Slots' = Slots
      BY <1>4 DEF no_empty_list_register, Slots, EffWord
    <2> QED BY <1>4, <2>1, <2>2 DEF no_empty_list_register, S!Next, S!Overflow, Slots
  <1>5. CASE guest_backup_list \/ guest_restore_list \/ OtherVM \/ Exited \/ UNCHANGED vars
    <2>1. \A i \in LRs : EffWord(i)' = EffWord(i)
      BY <1>1, <1>5 DEF guest_backup_list, guest_restore_list, OtherVM, Exited, vars, EffWord
    <2>2. halt' = halt
      BY <1>5 DEF guest_backup_list, guest_restore_list, OtherVM, Exited, vars
    <2> QED BY <2>1, <2>2 DEF Slots
  <1>6. ASSUME NEW i \in LRs, GuestAck(i) PROVE S!Next
    <2>1. /\ ~halt /\ ~halt' /\ live /\ live' /\ list[i] \in Word
          /\ list' = [list EXCEPT ![i] = (list[i] \ {28}) \cup {29}]
          /\ state_of(list[i]) = LR_Pending
      BY <1>1, <1>6 DEF GuestAck
    <2>2. Decode(list[i]).state = "LR_Pending"
      BY <2>1 DEF Decode, StateName, LR_Invalid, LR_Pending
    <2>3. Decode((list[i] \ {28}) \cup {29}) = [Decode(list[i]) EXCEPT !.state = "LR_Active"]
      <3> DEFINE w == (list[i] \ {28}) \cup {29}
      <3>1. /\ state_of(w) = LR_Active
            /\ get_field(w, 19, 10) = get_field(list[i], 19, 10)
            /\ get_field(w, 9, 0) = get_field(list[i], 9, 0)
        BY <2>1, StateChange
      <3> HIDE DEF w
      <3>2. LR_Active # LR_Invalid /\ LR_Active # LR_Pending /\ LR_Pending # LR_Invalid
        <4>1. 1 \in LR_Active /\ 0 \in LR_Pending /\ 1 \notin LR_Pending
          BY DEF LR_Pending, LR_Active
        <4> QED BY <4>1 DEF LR_Invalid
      <3>3. Decode(w) = [state |-> "LR_Active", pid |-> get_field(list[i], 19, 10),
                         vid |-> get_field(list[i], 9, 0)]
        BY <3>1, <3>2 DEF Decode, StateName
      <3>4. Decode(list[i]) = [state |-> "LR_Pending", pid |-> get_field(list[i], 19, 10),
                               vid |-> get_field(list[i], 9, 0)]
        BY <2>1, <3>2 DEF Decode, StateName
      <3> QED BY <3>3, <3>4 DEF w
    <2>4. Slots' = [Slots EXCEPT ![i].state = "LR_Active"]
      BY <1>1, <2>1, <2>3 DEF Slots, EffWord
    <2>5. S!Acknowledge(i)
      BY <2>1, <2>2, <2>4 DEF S!Acknowledge, Slots, EffWord
    <2> QED BY <2>5 DEF S!Next
  <1>7. ASSUME NEW i \in LRs, GuestEoi(i) PROVE S!Next
    <2>1. /\ ~halt /\ ~halt' /\ live /\ live' /\ list[i] \in Word
          /\ list' = [list EXCEPT ![i] = list[i] \ {28, 29}]
          /\ state_of(list[i]) = LR_Active
      BY <1>1, <1>7 DEF GuestEoi
    <2>2. Decode(list[i]).state = "LR_Active"
      BY <2>1 DEF Decode, StateName, LR_Invalid, LR_Pending, LR_Active
    <2>3. Decode(list[i] \ {28, 29}) = S!Free
      BY <2>1, StateChange, DecodeFree
    <2>4. Slots' = [Slots EXCEPT ![i] = S!Free]
      BY <1>1, <2>1, <2>3 DEF Slots, EffWord
    <2>5. S!End(i)
      BY <2>1, <2>2, <2>4 DEF S!End, Slots, EffWord
    <2> QED BY <2>5 DEF S!Next
  <1> QED BY <1>2, <1>3, <1>4, <1>5, <1>6, <1>7 DEF Next

\* The list register words implement slots, for any number of list registers
\* and any interrupts of ten bits.
THEOREM Refinement == Spec => RefinesSlots
  <1>1. Init => S!Init
    BY ZeroWord, DecodeFree DEF Init, S!Init, EffWord
  <1> QED BY <1>1, NextSlots, TypeCorrect, PTL DEF Spec, RefinesSlots, S!Spec, Slots


(***************************************************************************)
(* The frame of boot/vector.s.                                             *)
(***************************************************************************)
\* A handler reads each register where vector.s pushed it.
LEMMA ReadFrame ==
  ASSUME NEW r, NEW rn \in R!FrameRegs
  PROVE  R!read_reg_from_stack(R!push(r), rn) = r[rn]
  <1>1. R!frame_offset(rn) \in 1 .. 14
    BY DEF R!FrameRegs, R!frame_offset
  <1>2. CASE rn = 14
    BY <1>1, <1>2 DEF R!read_reg_from_stack, R!push, R!frame_offset
  <1>3. CASE rn \in 0 .. 12
    <2>1. R!frame_offset(rn) = 14 - rn /\ 14 - rn # 1 /\ 14 - (14 - rn) = rn
      BY <1>3 DEF R!frame_offset
    <2> QED BY <1>1, <2>1 DEF R!read_reg_from_stack, R!push
  <1> QED BY <1>2, <1>3 DEF R!FrameRegs

\* A register written into the frame is popped, and no other.
LEMMA LoadFrame ==
  ASSUME NEW r, r = [rn \in R!FrameRegs |-> r[rn]], NEW rt \in R!FrameRegs, NEW x
  PROVE  R!pop(R!write_reg_to_stack(R!push(r), rt, x)) = [r EXCEPT ![rt] = x]
  <1> DEFINE f == R!push(r)
             k == R!frame_offset(rt)
             g == [f EXCEPT ![k] = x]
  <1>1. k \in 1 .. 14 /\ k = (IF rt = 14 THEN 1 ELSE 14 - rt)
    BY DEF R!FrameRegs, R!frame_offset
  <1>2. f = [i \in 1 .. 14 |-> f[i]] /\ f[1] = r[14] /\ \A i \in 2 .. 14 : f[i] = r[14 - i]
    BY DEF R!push
  <1> HIDE DEF f
  <1>3. \A i \in 1 .. 14 : g[i] = IF i = k THEN x ELSE f[i]
    BY <1>2
  <1> HIDE DEF g, k
  <1>4. ASSUME NEW rn \in R!FrameRegs PROVE R!pop(g)[rn] = IF rn = rt THEN x ELSE r[rn]
    <2>1. CASE rn = 14
      <3>1. R!pop(g)[rn] = g[1]
        BY <2>1 DEF R!pop
      <3>2. k = 1 <=> rt = 14
        BY <1>1 DEF R!FrameRegs
      <3> QED BY <3>1, <3>2, <2>1, <1>2, <1>3
    <2>2. CASE rn \in 0 .. 12
      <3>1. R!pop(g)[rn] = g[14 - rn] /\ 14 - rn \in 2 .. 14 /\ 14 - (14 - rn) = rn
        BY <2>2 DEF R!pop
      <3>2. k = 14 - rn <=> rt = rn
        BY <1>1, <2>2 DEF R!FrameRegs
      <3>3. f[14 - rn] = r[rn]
        BY <1>2, <3>1
      <3> QED BY <3>1, <3>2, <3>3, <1>3
    <2> QED BY <2>1, <2>2 DEF R!FrameRegs
  <1>5. R!pop(g) = [rn \in R!FrameRegs |-> IF rn = rt THEN x ELSE r[rn]]
    BY <1>4 DEF R!pop
  <1>6. [r EXCEPT ![rt] = x] = [rn \in R!FrameRegs |-> IF rn = rt THEN x ELSE r[rn]]
    OBVIOUS
  <1> QED BY <1>5, <1>6 DEF g, f, k, R!write_reg_to_stack

\* guest_restore_rf fills the whole frame from the backup.
LEMMA RestoreFrame ==
  ASSUME NEW b, NEW f
  PROVE  R!pop(R!restore_frame(b, f)) =
           [rn \in R!FrameRegs |-> IF rn = 14 THEN b.lr_usr ELSE b.r_usr[rn]]
  <1> DEFINE Of(k) == CHOOSE rn \in 0 .. 12 : R!frame_offset(rn) = k
             g == [k \in 1 .. 14 |-> IF \E rn \in 0 .. 12 : R!frame_offset(rn) = k
                                     THEN b.r_usr[Of(k)] ELSE f[k]]
             h == [g EXCEPT ![1] = b.lr_usr]
  <1>1. \A rn \in 0 .. 12 : R!frame_offset(rn) = 14 - rn
    BY DEF R!frame_offset
  <1>2. ASSUME NEW rn \in 0 .. 12 PROVE g[14 - rn] = b.r_usr[rn] /\ 14 - rn \in 2 .. 14
    <2>1. PICK k \in 2 .. 14 : k = 14 - rn
      OBVIOUS
    <2>2. Of(k) = rn
      BY <1>1, <2>1
    <2> HIDE DEF Of
    <2>3. \E j \in 0 .. 12 : R!frame_offset(j) = k
      BY <1>1, <2>1
    <2>4. g[k] = b.r_usr[rn]
      BY <2>2, <2>3
    <2> QED BY <2>1, <2>4
  <1>3. g = [k \in 1 .. 14 |-> g[k]]
    OBVIOUS
  <1> HIDE DEF g, Of
  <1>4. h[1] = b.lr_usr /\ \A k \in 2 .. 14 : h[k] = g[k]
    BY <1>3
  <1>5. R!restore_frame(b, f) = h
    BY DEF R!restore_frame, R!write_reg_to_stack, R!frame_offset, g, Of
  <1> HIDE DEF h
  <1>6. \A rn \in R!FrameRegs : (IF rn = 14 THEN h[1] ELSE h[14 - rn])
                                = IF rn = 14 THEN b.lr_usr ELSE b.r_usr[rn]
    BY <1>2, <1>4 DEF R!FrameRegs
  <1> QED BY <1>5, <1>6 DEF R!pop


(***************************************************************************)
(* The coprocessor registers the world switch names.                       *)
(***************************************************************************)
HypNames == {"HSCTLR", "HCR", "HVBAR", "VTCR", "HSTR"}
At(n)    == R!cp15_reg_names[n].at

\* The header's coordinates of the registers of hypervisor mode.
LEMMA HypAt ==
  /\ At("HSCTLR") = <<1, 4, 0, 0>> /\ At("HCR") = <<1, 4, 1, 0>>
  /\ At("HVBAR") = <<12, 4, 0, 0>> /\ At("VTCR") = <<2, 4, 1, 2>> /\ At("HSTR") = <<1, 4, 1, 3>>
  BY DEF At, R!cp15_reg_names, R!setcr

\* A name with other bits of the same register.
LEMMA Setfd ==
  ASSUME NEW h0, NEW l0, NEW a, NEW h, NEW l
  PROVE  R!setfd([hsb |-> h0, lsb |-> l0, at |-> a], h, l) = [hsb |-> h, lsb |-> l, at |-> a]
  <1> DEFINE x == [hsb |-> h0, lsb |-> l0, at |-> a]
             y == [x EXCEPT !.hsb = h]
             z == [y EXCEPT !.lsb = l]
  <1>1. y = [hsb |-> h, lsb |-> l0, at |-> a]
    OBVIOUS
  <1>2. R!setfd(x, h, l) = z
    BY DEF R!setfd
  <1> HIDE DEF y
  <1>3. z = [hsb |-> h, lsb |-> l, at |-> a]
    BY <1>1
  <1> QED BY <1>2, <1>3

\* The full names of the registers of hypervisor mode, and the registers their
\* instructions access.
LEMMA HypFull ==
  ASSUME NEW n \in HypNames
  PROVE  /\ R!cp15_reg_names[n] = [hsb |-> 31, lsb |-> 0, at |-> At(n)]
         /\ ~R!no_case(R!cp15_reg_names[n])
         /\ R!full(R!cp15_reg_names[n]) = R!cp15_reg_names[n]
         /\ R!CP15_PARSE(R!cp15_reg_names[n]) = At(n)
  <1>1. R!cp15_reg_names[n] = [hsb |-> 31, lsb |-> 0, at |-> At(n)]
    BY SMTT(30) DEF HypNames, At, R!cp15_reg_names, R!setcr
  <1>2. R!full(R!cp15_reg_names[n]) = R!cp15_reg_names[n]
    BY <1>1, Setfd DEF R!full
  <1>3. /\ R!cp15_reg_names["HTPIDR"].at = <<13, 4, 0, 2>>
        /\ R!cp15_reg_names["TTBCR"].at = <<2, 0, 0, 2>>
        /\ R!cp15_reg_names["TTBR0"].at = <<2, 0, 0, 0>>
        /\ R!cp15_reg_names["TTBR1"].at = <<2, 0, 0, 1>>
    BY DEF R!cp15_reg_names, R!setcr
  <1>4. At(n) \notin {<<13, 4, 0, 2>>, <<2, 0, 0, 2>>, <<2, 0, 0, 0>>, <<2, 0, 0, 1>>}
    BY HypAt DEF HypNames
  <1>5. R!cp15_reg_names[n].at = At(n)
    BY DEF At
  <1>6. \A m \in {"HTPIDR", "TTBCR", "TTBR0", "TTBR1"} : R!cp15_reg_names[n] # R!cp15_reg_names[m]
    BY <1>3, <1>4, <1>5
  <1> QED BY <1>1, <1>2, <1>5, <1>6 DEF R!no_case, R!CP15_PARSE

\* Coprocessor c with v in the register at a.
Put(c, a, v) == [c EXCEPT ![a] = v]

\* A write by the full name writes the register.
LEMMA WriteFull ==
  ASSUME NEW c, NEW n \in HypNames, NEW v
  PROVE  /\ R!cp15_write(c, R!cp15_reg_names[n], v) = Put(c, At(n), v)
         /\ R!cp15_read(c, R!cp15_reg_names[n]) = c[At(n)]
  <1> DEFINE x == R!cp15_reg_names[n]
             a == At(n)
  <1>1. ~R!no_case(x) /\ R!full(x) = x /\ R!CP15_PARSE(x) = a
    BY HypFull
  <1> HIDE DEF x, a
  <1>2. R!CP15_PARSE(R!full(x)) = a /\ x = R!full(x)
    BY <1>1
  <1>3. R!cp15_write(c, x, v) = Put(c, a, v)
    BY <1>1, <1>2 DEF R!cp15_write, Put
  <1>4. R!cp15_read(c, x) = c[a]
    BY <1>1, <1>2 DEF R!cp15_read
  <1> QED BY <1>3, <1>4 DEF x, a

\* A write of a field reads, modifies and writes.
LEMMA WriteField ==
  ASSUME NEW c, NEW n \in HypNames, NEW h \in 0 .. 30, NEW l \in 0 .. h, NEW v
  PROVE  R!cp15_write(c, R!setfd(R!cp15_reg_names[n], h, l), v) =
           Put(c, At(n), R!set_field(c[At(n)], h, l, v))
  <1> DEFINE m == R!setfd(R!cp15_reg_names[n], h, l)
  <1>1. m = [hsb |-> h, lsb |-> l, at |-> At(n)]
    <2>1. R!cp15_reg_names[n] = [hsb |-> 31, lsb |-> 0, at |-> At(n)]
      BY HypFull
    <2> QED BY <2>1, Setfd
  <1>2. R!full(m) = [hsb |-> 31, lsb |-> 0, at |-> At(n)]
    BY <1>1, Setfd DEF R!full
  <1>3. R!full(m) = R!cp15_reg_names[n]
    BY <1>2, HypFull
  <1>4. m # R!full(m)
    <2>1. m.hsb = h /\ R!full(m).hsb = 31
      BY <1>1, <1>2
    <2> QED BY <2>1
  <1>5. ~R!no_case(m)
    BY <1>3, HypFull DEF R!no_case
  <1>6. m.hsb = h /\ m.lsb = l
    BY <1>1
  <1>7. R!cp15_read(c, R!full(m)) = c[At(n)]
    BY <1>3, WriteFull
  <1> HIDE DEF m
  <1>8. R!cp15_write(c, m, v) = Put(c, At(n), R!set_field(c[At(n)], h, l, v))
    <2> DEFINE a == At(n)
               x == R!full(m)
    <2>1. R!CP15_PARSE(x) = a
      BY <1>3, HypFull
    <2>2. R!cp15_read(c, x) = c[a]
      BY <1>7
    <2>3. m # x
      BY <1>4
    <2>4. R!cp15_write(c, m, v) = Put(c, R!CP15_PARSE(x),
                                       R!set_field(R!cp15_read(c, x), m.hsb, m.lsb, v))
      BY <1>5, <2>3 DEF R!cp15_write, Put
    <2> HIDE DEF x, a
    <2> QED BY <2>1, <2>2, <2>4, <1>6 DEF a
  <1> QED BY <1>8 DEF m

\* The values meteor_cp15_init leaves in the registers the guests depend on.
Armed(c) ==
  /\ R!HypCp \subseteq DOMAIN c
  /\ c[At("HSCTLR")] = {1} /\ c[At("HCR")] = {0, 4, 13}
  /\ c[At("VTCR")] = {6} /\ c[At("HSTR")] = {7, 8}

\* A coprocessor with the registers of hypervisor mode.
HypRegs(c) == c = [a \in R!HypCp |-> c[a]]

\* Every register of hypervisor mode is among HypCp.
LEMMA HypInCp == ASSUME NEW n \in HypNames PROVE At(n) \in R!HypCp
  BY DEF HypNames, At, R!HypCp

\* The registers of hypervisor mode differ.
LEMMA HypDistinct ==
  ASSUME NEW n \in HypNames, NEW m \in HypNames, n # m
  PROVE  At(n) # At(m)
  BY HypAt DEF HypNames

\* What one write makes of the registers.
Written(c, d, n, v) ==
  /\ HypRegs(d)
  /\ d[At(n)] = v
  /\ \A m \in HypNames : m # n => d[At(m)] = c[At(m)]

\* A write by the full name, register by register.
LEMMA FullStep ==
  ASSUME NEW c, HypRegs(c), NEW n \in HypNames, NEW v
  PROVE  Written(c, R!reg(c, n, v), n, v)
  <1> DEFINE d == Put(c, At(n), v)
  <1>1. R!reg(c, n, v) = d
    BY WriteFull DEF R!reg
  <1>2. At(n) \in R!HypCp /\ \A m \in HypNames : m # n => At(m) \in R!HypCp /\ At(m) # At(n)
    <2>1. At(n) \in R!HypCp
      BY HypInCp
    <2>2. ASSUME NEW m \in HypNames, m # n PROVE At(m) \in R!HypCp /\ At(m) # At(n)
      BY <2>2, HypInCp, HypDistinct
    <2> QED BY <2>1, <2>2
  <1>3. HypRegs(d) /\ d[At(n)] = v /\ \A a \in R!HypCp : a # At(n) => d[a] = c[a]
    BY <1>2 DEF HypRegs, Put
  <1> QED BY <1>1, <1>2, <1>3 DEF Written

\* A write of a field, register by register.
LEMMA FieldStep ==
  ASSUME NEW c, HypRegs(c), NEW n \in HypNames, NEW h \in 0 .. 30, NEW l \in 0 .. h, NEW v
  PROVE  Written(c, R!field(c, n, h, l, v), n, R!set_field(c[At(n)], h, l, v))
  <1> DEFINE w == R!set_field(c[At(n)], h, l, v)
             d == Put(c, At(n), w)
  <1>1. R!field(c, n, h, l, v) = d
    BY WriteField DEF R!field
  <1>2. At(n) \in R!HypCp /\ \A m \in HypNames : m # n => At(m) \in R!HypCp /\ At(m) # At(n)
    <2>1. At(n) \in R!HypCp
      BY HypInCp
    <2>2. ASSUME NEW m \in HypNames, m # n PROVE At(m) \in R!HypCp /\ At(m) # At(n)
      BY <2>2, HypInCp, HypDistinct
    <2> QED BY <2>1, <2>2
  <1>3. HypRegs(d) /\ d[At(n)] = w /\ \A a \in R!HypCp : a # At(n) => d[a] = c[a]
    BY <1>2 DEF HypRegs, Put
  <1> QED BY <1>1, <1>2, <1>3 DEF Written


(***************************************************************************)
(* Small numbers as sets of bits.                                          *)
(***************************************************************************)
\* Powers of two, as the provers can handle them.
Pow(b) == 2 ^ b

\* The powers of two below 2^31.
LEMMA Powers ==
  /\ Pow(0) = 1 /\ Pow(1) = 2
  /\ \A b \in 2 .. 30 : Pow(b) \in Nat /\ 3 < Pow(b)
  <1>1. /\ Pow(0) = 1 /\ Pow(1) = 2 /\ Pow(2) = 4 /\ Pow(3) = 8 /\ Pow(4) = 16 /\ Pow(5) = 32
        /\ Pow(6) = 64 /\ Pow(7) = 128 /\ Pow(8) = 256 /\ Pow(9) = 512 /\ Pow(10) = 1024
        /\ Pow(11) = 2048 /\ Pow(12) = 4096 /\ Pow(13) = 8192 /\ Pow(14) = 16384
        /\ Pow(15) = 32768 /\ Pow(16) = 65536 /\ Pow(17) = 131072 /\ Pow(18) = 262144
        /\ Pow(19) = 524288 /\ Pow(20) = 1048576 /\ Pow(21) = 2097152 /\ Pow(22) = 4194304
        /\ Pow(23) = 8388608 /\ Pow(24) = 16777216 /\ Pow(25) = 33554432 /\ Pow(26) = 67108864
        /\ Pow(27) = 134217728 /\ Pow(28) = 268435456 /\ Pow(29) = 536870912
        /\ Pow(30) = 1073741824
    BY DEF Pow
  <1>2. 2 .. 30 = {2, 3, 4, 5, 6, 7, 8, 9, 10, 11, 12, 13, 14, 15, 16, 17, 18, 19, 20, 21, 22,
                   23, 24, 25, 26, 27, 28, 29, 30}
    OBVIOUS
  <1> QED BY <1>1, <1>2

\* Numbers below four use the two low bits, and one is bit 0.
LEMMA SmallBits ==
  /\ R!Bits(0) = {} /\ R!Bits(1) = {0}
  /\ \A v \in 0 .. 3 : R!Bits(v) \subseteq {0, 1}
  <1>1. \A n : R!Bits(n) = {b \in 0 .. 30 : (n \div Pow(b)) % 2 = 1}
    BY DEF R!Bits, Pow
  <1>2. ASSUME NEW v \in 0 .. 3, NEW b \in 2 .. 30 PROVE (v \div Pow(b)) % 2 = 0
    <2> DEFINE p == Pow(b)
    <2>1. p \in Nat /\ v < p
      BY Powers
    <2> HIDE DEF p
    <2>2. v \div p = 0
      BY <2>1
    <2> QED BY <2>2 DEF p
  <1>3. /\ (0 \div Pow(0)) % 2 = 0 /\ (0 \div Pow(1)) % 2 = 0
        /\ (1 \div Pow(0)) % 2 = 1 /\ (1 \div Pow(1)) % 2 = 0
    BY Powers
  <1>4. ASSUME NEW v \in 0 .. 3 PROVE \A b \in 0 .. 30 : (v \div Pow(b)) % 2 = 1 => b \in {0, 1}
    <2> TAKE b \in 0 .. 30
    <2>1. CASE b \in 2 .. 30
      BY <1>2, <2>1
    <2>2. CASE b \in {0, 1}
      BY <2>2
    <2> QED BY <2>1, <2>2
  <1>5. \A v \in 0 .. 3 : R!Bits(v) \subseteq {0, 1}
    BY <1>1, <1>4
  <1>6. 0 \in 0 .. 30 /\ 1 \in 0 .. 30 /\ 0 \in 0 .. 3 /\ 1 \in 0 .. 3
    OBVIOUS
  <1>7. R!Bits(0) = {}
    <2>1. 0 \notin R!Bits(0) /\ 1 \notin R!Bits(0)
      BY <1>1, <1>3
    <2> QED BY <2>1, <1>5, <1>6
  <1>8. R!Bits(1) = {0}
    <2>1. 0 \in R!Bits(1) /\ 1 \notin R!Bits(1)
      BY <1>1, <1>3, <1>6
    <2> QED BY <2>1, <1>5, <1>6
  <1> QED BY <1>5, <1>7, <1>8

\* Setting bit h of a word, as a field of one bit, adds it.
LEMMA OneBitField ==
  ASSUME NEW w \in SUBSET (0 .. 31), NEW h \in 0 .. 31
  PROVE  R!set_field(w, h, h, {0}) = w \cup {h}
  <1>1. ASSUME NEW b \in 0 .. 31
        PROVE  b \in R!set_field(w, h, h, {0}) <=> b \in w \/ b = h
    BY DEF R!set_field, R!mask, R!imask, R!shl, R!Bit
  <1>2. R!set_field(w, h, h, {0}) \subseteq 0 .. 31
    BY DEF R!set_field, R!mask, R!imask, R!shl, R!Bit
  <1> QED BY <1>1, <1>2

\* The two fields of VTCR that are not single bits.
LEMMA VtcrFields ==
  /\ R!set_field({}, 7, 6, {0}) = {6}
  /\ R!set_field({6}, 3, 0, {}) = {6}
  <1>1. ASSUME NEW b \in 0 .. 31
        PROVE  /\ b \in R!set_field({}, 7, 6, {0}) <=> b = 6
               /\ b \in R!set_field({6}, 3, 0, {}) <=> b = 6
    BY DEF R!set_field, R!mask, R!imask, R!shl, R!Bit
  <1>2. /\ R!set_field({}, 7, 6, {0}) \subseteq 0 .. 31
        /\ R!set_field({6}, 3, 0, {}) \subseteq 0 .. 31
    BY DEF R!set_field, R!mask, R!imask, R!shl, R!Bit
  <1> QED BY <1>1, <1>2

(***************************************************************************)
(* meteor_cp15_init.                                                       *)
(***************************************************************************)
\* Whatever the registers held before, apart from HSTR, they end up armed.
LEMMA MeteorInit ==
  ASSUME NEW c, HypRegs(c), c[At("HSTR")] = {}
  PROVE  HypRegs(R!meteor_cp15_init(c)) /\ Armed(R!meteor_cp15_init(c))
  <1> DEFINE one == R!Bits(1)
             c1  == R!reg(c, "HSCTLR", {})
             c2  == R!field(c1, "HSCTLR", 1, 1, one)
             c3  == R!reg(c2, "HCR", {})
             c4  == R!field(c3, "HCR", 0, 0, one)
             c5  == R!field(c4, "HCR", 4, 4, one)
             c6  == R!field(c5, "HCR", 13, 13, one)
             c7  == R!reg(c6, "HVBAR", {})
             c8  == R!reg(c7, "VTCR", {})
             c9  == R!field(c8, "VTCR", 7, 6, one)
             c10 == R!field(c9, "VTCR", 3, 0, {})
             c11 == R!field(c10, "HSTR", 7, 7, one)
             c12 == R!field(c11, "HSTR", 8, 8, one)
  <1>0. one = {0}
    BY SmallBits
  <1>1. R!meteor_cp15_init(c) = c12
    BY DEF R!meteor_cp15_init, R!init_hsctlr, R!init_hcr, R!init_vtcr, R!init_hstr
  <1> HIDE DEF one
  <1>2. "HSCTLR" \in HypNames /\ "HCR" \in HypNames /\ "HVBAR" \in HypNames
        /\ "VTCR" \in HypNames /\ "HSTR" \in HypNames
    BY DEF HypNames
  <1>3. Written(c, c1, "HSCTLR", {})
    BY <1>2, FullStep
  <1> HIDE DEF c1
  <1>4. Written(c1, c2, "HSCTLR", {1})
    <2>1. R!set_field(c1[At("HSCTLR")], 1, 1, one) = {1}
      BY <1>0, <1>3, OneBitField DEF Written
    <2>2. HypRegs(c1)
      BY <1>3 DEF Written
    <2>3. 1 \in 0 .. 30 /\ 1 \in 0 .. 1
      OBVIOUS
    <2>4. Written(c1, c2, "HSCTLR", R!set_field(c1[At("HSCTLR")], 1, 1, one))
      BY <1>2, <2>2, <2>3, FieldStep
    <2> QED BY <2>1, <2>4
  <1> HIDE DEF c2
  <1>5. Written(c2, c3, "HCR", {})
    BY <1>2, <1>4, FullStep DEF Written
  <1> HIDE DEF c3
  <1>6. Written(c3, c4, "HCR", {0})
    <2>1. R!set_field(c3[At("HCR")], 0, 0, one) = {0}
      BY <1>0, <1>5, OneBitField DEF Written
    <2>2. HypRegs(c3)
      BY <1>5 DEF Written
    <2>3. 0 \in 0 .. 30 /\ 0 \in 0 .. 0
      OBVIOUS
    <2>4. Written(c3, c4, "HCR", R!set_field(c3[At("HCR")], 0, 0, one))
      BY <1>2, <2>2, <2>3, FieldStep
    <2> QED BY <2>1, <2>4
  <1> HIDE DEF c4
  <1>7. Written(c4, c5, "HCR", {0, 4})
    <2>1. R!set_field(c4[At("HCR")], 4, 4, one) = {0, 4}
      BY <1>0, <1>6, OneBitField DEF Written
    <2>2. HypRegs(c4)
      BY <1>6 DEF Written
    <2>3. 4 \in 0 .. 30 /\ 4 \in 0 .. 4
      OBVIOUS
    <2>4. Written(c4, c5, "HCR", R!set_field(c4[At("HCR")], 4, 4, one))
      BY <1>2, <2>2, <2>3, FieldStep
    <2> QED BY <2>1, <2>4
  <1> HIDE DEF c5
  <1>8. Written(c5, c6, "HCR", {0, 4, 13})
    <2>1. R!set_field(c5[At("HCR")], 13, 13, one) = {0, 4, 13}
      BY <1>0, <1>7, OneBitField DEF Written
    <2>2. HypRegs(c5)
      BY <1>7 DEF Written
    <2>3. 13 \in 0 .. 30 /\ 13 \in 0 .. 13
      OBVIOUS
    <2>4. Written(c5, c6, "HCR", R!set_field(c5[At("HCR")], 13, 13, one))
      BY <1>2, <2>2, <2>3, FieldStep
    <2> QED BY <2>1, <2>4
  <1> HIDE DEF c6
  <1>9. Written(c6, c7, "HVBAR", {})
    BY <1>2, <1>8, FullStep DEF Written
  <1> HIDE DEF c7
  <1>10. Written(c7, c8, "VTCR", {})
    BY <1>2, <1>9, FullStep DEF Written
  <1> HIDE DEF c8
  <1>11. Written(c8, c9, "VTCR", {6})
    <2>1. R!set_field(c8[At("VTCR")], 7, 6, one) = {6}
      BY <1>0, <1>10, VtcrFields DEF Written
    <2>2. HypRegs(c8)
      BY <1>10 DEF Written
    <2>3. 7 \in 0 .. 30 /\ 6 \in 0 .. 7
      OBVIOUS
    <2>4. Written(c8, c9, "VTCR", R!set_field(c8[At("VTCR")], 7, 6, one))
      BY <1>2, <2>2, <2>3, FieldStep
    <2> QED BY <2>1, <2>4
  <1> HIDE DEF c9
  <1>12. Written(c9, c10, "VTCR", {6})
    <2>1. R!set_field(c9[At("VTCR")], 3, 0, {}) = {6}
      BY <1>11, VtcrFields DEF Written
    <2>2. HypRegs(c9)
      BY <1>11 DEF Written
    <2>3. 3 \in 0 .. 30 /\ 0 \in 0 .. 3
      OBVIOUS
    <2>4. Written(c9, c10, "VTCR", R!set_field(c9[At("VTCR")], 3, 0, {}))
      BY <1>2, <2>2, <2>3, FieldStep
    <2> QED BY <2>1, <2>4
  <1> HIDE DEF c10
  <1>13. c10[At("HSTR")] = {}
    BY <1>2, <1>3, <1>4, <1>5, <1>6, <1>7, <1>8, <1>9, <1>10, <1>11, <1>12 DEF Written
  <1>14. Written(c10, c11, "HSTR", {7})
    <2>1. R!set_field(c10[At("HSTR")], 7, 7, one) = {7}
      BY <1>0, <1>13, OneBitField
    <2>2. HypRegs(c10)
      BY <1>12 DEF Written
    <2>3. 7 \in 0 .. 30 /\ 7 \in 0 .. 7
      OBVIOUS
    <2>4. Written(c10, c11, "HSTR", R!set_field(c10[At("HSTR")], 7, 7, one))
      BY <1>2, <2>2, <2>3, FieldStep
    <2> QED BY <2>1, <2>4
  <1> HIDE DEF c11
  <1>15. Written(c11, c12, "HSTR", {7, 8})
    <2>1. R!set_field(c11[At("HSTR")], 8, 8, one) = {7, 8}
      BY <1>0, <1>14, OneBitField DEF Written
    <2>2. HypRegs(c11)
      BY <1>14 DEF Written
    <2>3. 8 \in 0 .. 30 /\ 8 \in 0 .. 8
      OBVIOUS
    <2>4. Written(c11, c12, "HSTR", R!set_field(c11[At("HSTR")], 8, 8, one))
      BY <1>2, <2>2, <2>3, FieldStep
    <2> QED BY <2>1, <2>4
  <1> HIDE DEF c12
  <1>16. c12[At("HSCTLR")] = {1}
    BY <1>2, <1>4, <1>5, <1>6, <1>7, <1>8, <1>9, <1>10, <1>11, <1>12, <1>14, <1>15 DEF Written
  <1>17. c12[At("HCR")] = {0, 4, 13}
    BY <1>2, <1>8, <1>9, <1>10, <1>11, <1>12, <1>14, <1>15 DEF Written
  <1>18. c12[At("VTCR")] = {6}
    BY <1>2, <1>12, <1>14, <1>15 DEF Written
  <1>19. HypRegs(c12) /\ c12[At("HSTR")] = {7, 8}
    BY <1>15 DEF Written
  <1> QED BY <1>1, <1>16, <1>17, <1>18, <1>19 DEF Armed, HypRegs


(***************************************************************************)
(* The registers the world switch saves.                                   *)
(***************************************************************************)
Parse(n) == R!CP15_PARSE(R!cp15_reg_names[n])

\* The header's coordinates of the saved registers.
LEMMA SavedAt ==
  /\ At("CSSELR") = <<0, 2, 0, 0>> /\ At("SCTLR") = <<1, 0, 0, 0>> /\ At("TTBR0") = <<2, 0, 0, 0>>
  /\ At("TTBR1") = <<2, 0, 0, 1>> /\ At("TTBCR") = <<2, 0, 0, 2>> /\ At("DACR") = <<3, 0, 0, 0>>
  /\ At("DFSR") = <<5, 0, 0, 0>> /\ At("IFSR") = <<5, 0, 0, 1>> /\ At("DFAR") = <<6, 0, 0, 0>>
  /\ At("IFAR") = <<6, 0, 0, 2>> /\ At("PRRR") = <<10, 0, 2, 0>> /\ At("NMRR") = <<10, 0, 2, 1>>
  /\ At("FCSEIDR") = <<13, 0, 0, 0>> /\ At("CONTEXTIDR") = <<13, 0, 0, 1>>
  /\ At("TPIDR_URO") = <<13, 0, 0, 3>>
  BY DEF At, R!cp15_reg_names, R!setcr

\* The saved names are full names the switch of cp15.c knows.
LEMMA SavedFull ==
  ASSUME NEW n \in R!SavedNames
  PROVE  /\ R!cp15_reg_names[n] = [hsb |-> 31, lsb |-> 0, at |-> At(n)]
         /\ ~R!no_case(R!cp15_reg_names[n])
         /\ R!full(R!cp15_reg_names[n]) = R!cp15_reg_names[n]
  <1>1. R!cp15_reg_names[n] = [hsb |-> 31, lsb |-> 0, at |-> At(n)]
    BY SMTT(30) DEF R!SavedNames, At, R!cp15_reg_names, R!setcr
  <1>2. R!full(R!cp15_reg_names[n]) = R!cp15_reg_names[n]
    BY <1>1, Setfd DEF R!full
  <1>3. At("HTPIDR") = <<13, 4, 0, 2>>
    BY DEF At, R!cp15_reg_names, R!setcr
  <1>4. At(n) # At("HTPIDR")
    BY <1>3, SavedAt DEF R!SavedNames
  <1>5. R!cp15_reg_names[n] # R!cp15_reg_names["HTPIDR"]
    BY <1>4 DEF At
  <1> QED BY <1>1, <1>2, <1>5 DEF R!no_case

\* The instructions issued for the translation table registers.
LEMMA ParseTable ==
  Parse("TTBCR") = At("TTBR0") /\ Parse("TTBR0") = At("TTBR1") /\ Parse("TTBR1") = At("TTBCR")
  <1>1. R!cp15_reg_names["TTBR0"] # R!cp15_reg_names["TTBCR"]
        /\ R!cp15_reg_names["TTBR1"] # R!cp15_reg_names["TTBCR"]
        /\ R!cp15_reg_names["TTBR1"] # R!cp15_reg_names["TTBR0"]
    <2>1. /\ At("TTBR0") # At("TTBCR") /\ At("TTBR1") # At("TTBCR")
          /\ At("TTBR1") # At("TTBR0")
      BY SavedAt
    <2> QED BY <2>1 DEF At
  <1>2. Parse("TTBCR") = <<2, 0, 0, 0>>
    BY <1>1 DEF Parse, R!CP15_PARSE
  <1>3. Parse("TTBR0") = <<2, 0, 0, 1>>
    BY <1>1 DEF Parse, R!CP15_PARSE
  <1>4. Parse("TTBR1") = <<2, 0, 0, 2>>
    BY <1>1 DEF Parse, R!CP15_PARSE
  <1> QED BY <1>2, <1>3, <1>4, SavedAt

\* All others are accessed where the header says.
LEMMA ParseOther ==
  ASSUME NEW n \in R!SavedNames \ {"TTBCR", "TTBR0", "TTBR1"}
  PROVE  Parse(n) = At(n)
  <1>1. At(n) # At("TTBCR") /\ At(n) # At("TTBR0") /\ At(n) # At("TTBR1")
    BY SavedAt DEF R!SavedNames
  <1>2. /\ R!cp15_reg_names[n] # R!cp15_reg_names["TTBCR"]
        /\ R!cp15_reg_names[n] # R!cp15_reg_names["TTBR0"]
        /\ R!cp15_reg_names[n] # R!cp15_reg_names["TTBR1"]
    BY <1>1 DEF At
  <1> QED BY <1>2 DEF Parse, R!CP15_PARSE, At

\* Reading a saved register by its name.
LEMMA ReadSaved ==
  ASSUME NEW c, NEW n \in R!SavedNames
  PROVE  R!cp15_read(c, R!cp15_reg_names[n]) = c[Parse(n)]
  <1> DEFINE x == R!cp15_reg_names[n]
  <1>1. ~R!no_case(x) /\ R!full(x) = x /\ R!CP15_PARSE(x) = Parse(n)
    BY SavedFull DEF Parse
  <1> HIDE DEF x
  <1>2. R!cp15_read(c, x) = c[Parse(n)]
    BY <1>1 DEF R!cp15_read
  <1> QED BY <1>2 DEF x

\* The instructions for the saved names access the saved registers, each of
\* them: three names are permuted, none is lost.
LEMMA ParseOnto ==
  /\ \A n \in R!SavedNames : Parse(n) \in R!SavedCp
  /\ \A a \in R!SavedCp : \E n \in R!SavedNames : Parse(n) = a
  <1>1. \A n \in R!SavedNames : At(n) \in R!SavedCp
    BY DEF At, R!SavedCp
  <1>2. \A a \in R!SavedCp : \E n \in R!SavedNames : a = At(n)
    BY DEF At, R!SavedCp
  <1>3. "TTBCR" \in R!SavedNames /\ "TTBR0" \in R!SavedNames /\ "TTBR1" \in R!SavedNames
    BY DEF R!SavedNames
  <1>4. ASSUME NEW n \in R!SavedNames PROVE Parse(n) \in R!SavedCp
    <2>1. CASE n \in {"TTBCR", "TTBR0", "TTBR1"}
      BY <1>1, <1>3, <2>1, ParseTable
    <2>2. CASE n \notin {"TTBCR", "TTBR0", "TTBR1"}
      BY <1>1, <2>2, ParseOther
    <2> QED BY <2>1, <2>2
  <1>5. ASSUME NEW n \in R!SavedNames PROVE \E m \in R!SavedNames : Parse(m) = At(n)
    <2>1. CASE n \in {"TTBCR", "TTBR0", "TTBR1"}
      BY <1>3, <2>1, ParseTable
    <2>2. CASE n \notin {"TTBCR", "TTBR0", "TTBR1"}
      BY <2>2, ParseOther
    <2> QED BY <2>1, <2>2
  <1> QED BY <1>2, <1>4, <1>5

\* SCTLR, the register that does not start as zero, is not permuted.
LEMMA ParseSctlr ==
  ASSUME NEW n \in R!SavedNames
  PROVE  At(n) = At("SCTLR") <=> Parse(n) = At("SCTLR")
  <1>1. CASE n \in {"TTBCR", "TTBR0", "TTBR1"}
    <2>1. At("TTBCR") # At("SCTLR") /\ At("TTBR0") # At("SCTLR") /\ At("TTBR1") # At("SCTLR")
      BY SavedAt
    <2> QED BY <1>1, <2>1, ParseTable
  <1>2. CASE n \notin {"TTBCR", "TTBR0", "TTBR1"}
    BY <1>2, ParseOther
  <1> QED BY <1>1, <1>2

\* A guest cannot name the registers of hypervisor mode.
LEMMA HypApart == R!HypCp \cap (R!SavedCp \cup R!UnsavedCp) = {}
  <1>1. \A n \in HypNames, m \in R!SavedNames : At(n) # At(m)
    BY HypAt, SavedAt DEF HypNames, R!SavedNames
  <1>2. \A n \in HypNames : At(n) \notin R!UnsavedCp
    BY HypAt DEF HypNames, R!UnsavedCp
  <1>3. /\ \A a \in R!HypCp : \E n \in HypNames : a = At(n)
        /\ \A a \in R!SavedCp : \E n \in R!SavedNames : a = At(n)
    BY DEF At, R!HypCp, HypNames, R!SavedCp
  <1> QED BY <1>1, <1>2, <1>3


(***************************************************************************)
(* VTTBR: the base of the tables and the VMID.                             *)
(***************************************************************************)
Vt == <<2, 6>>

\* What VTTBR holds while VM v runs.
VttbrOf(v) == R!pt_base(v) \cup {48 + b : b \in R!Bits(v)}

\* The two names of VTTBR that the world switch uses.
LEMMA VttbrNames ==
  /\ R!VTTBR = [hsb |-> 63, lsb |-> 0, at |-> Vt]
  /\ R!cp15_reg_names64["VTTBR_LPAE_VMID"] = [hsb |-> 55, lsb |-> 48, at |-> Vt]
  <1>1. R!VTTBR = R!setcr64(2, 6)
    BY DEF R!VTTBR, R!cp15_reg_names64
  <1>2. R!setcr64(2, 6) = [hsb |-> 63, lsb |-> 0, at |-> Vt]
    BY DEF R!setcr64, Vt
  <1>3. R!cp15_reg_names64["VTTBR_LPAE_VMID"] = R!setfd(R!setcr64(2, 6), 55, 48)
    BY DEF R!cp15_reg_names64
  <1>4. R!setfd([hsb |-> 63, lsb |-> 0, at |-> Vt], 55, 48) = [hsb |-> 55, lsb |-> 48, at |-> Vt]
    BY Setfd
  <1> QED BY <1>1, <1>2, <1>3, <1>4

\* Writing all of VTTBR.
LEMMA WriteVttbr ==
  ASSUME NEW d, NEW x
  PROVE  R!cp15_write64(d, R!VTTBR, x) = Put(d, Vt, x)
  <1>1. R!setfd(R!VTTBR, 63, 0) = R!VTTBR /\ R!VTTBR.at = Vt
    BY VttbrNames, Setfd
  <1> QED BY <1>1 DEF R!cp15_write64, Put

\* Writing the VMID into VTTBR.
LEMMA WriteVmid ==
  ASSUME NEW d, NEW v
  PROVE  R!set_vmid(v, d) = Put(d, Vt, R!set_field64(d[Vt], 55, 48, R!Bits(v)))
  <1> DEFINE m == R!cp15_reg_names64["VTTBR_LPAE_VMID"]
  <1>1. m = [hsb |-> 55, lsb |-> 48, at |-> Vt]
    BY VttbrNames
  <1>2. R!setfd(m, 63, 0) = [hsb |-> 63, lsb |-> 0, at |-> Vt]
    BY <1>1, Setfd
  <1>3. m.hsb = 55 /\ m.lsb = 48 /\ m.at = Vt /\ R!setfd(m, 63, 0).hsb = 63
    BY <1>1, <1>2
  <1>4. m # R!setfd(m, 63, 0)
    BY <1>3
  <1>5. R!set_vmid(v, d) = R!cp15_write64(d, m, R!Bits(v))
    BY DEF R!set_vmid
  <1> HIDE DEF m
  <1>6. R!cp15_write64(d, m, R!Bits(v)) = Put(d, Vt, R!set_field64(d[Vt], 55, 48, R!Bits(v)))
    BY <1>3, <1>4 DEF R!cp15_write64, Put
  <1> QED BY <1>5, <1>6

\* The VMID replaces an older one and leaves the base of the tables alone.
LEMMA VmidField ==
  ASSUME NEW v \in 0 .. 3, NEW w, w = R!pt_base(v) \/ w = VttbrOf(v)
  PROVE  R!set_field64(w, 55, 48, R!Bits(v)) = VttbrOf(v)
  <1> DEFINE B == R!Bits(v)
  <1>1. B \subseteq {0, 1}
    BY SmallBits
  <1>2. VttbrOf(v) = R!pt_base(v) \cup {48 + b : b \in B}
    BY DEF VttbrOf
  <1>3. R!pt_base(v) = {27} \cup {20 + b : b \in B}
    BY DEF R!pt_base
  <1> HIDE DEF B
  <1>4. R!pt_base(v) \subseteq 20 .. 27 /\ {48 + b : b \in B} \subseteq 48 .. 49
    BY <1>1, <1>3
  <1>5. ASSUME NEW i \in 0 .. 63
        PROVE  i \in R!set_field64(w, 55, 48, B)
                 <=> (i \in w /\ ~(48 <= i /\ i <= 55)) \/ (i - 48 \in B /\ 48 <= i /\ i <= 55)
    BY DEF R!set_field64, R!mask64, R!imask64, R!Bit64
  <1>6. ASSUME NEW i \in 0 .. 63 PROVE i - 48 \in B <=> i \in {48 + b : b \in B}
    BY <1>1
  <1>7. R!set_field64(w, 55, 48, B) \subseteq 0 .. 63
    BY DEF R!set_field64, R!mask64, R!imask64, R!Bit64
  <1>8. ASSUME NEW i \in 0 .. 63 PROVE i \in R!set_field64(w, 55, 48, B) <=> i \in VttbrOf(v)
    <2>1. CASE 48 <= i /\ i <= 55
      <3>1. i \notin R!pt_base(v)
        BY <1>4, <2>1
      <3> QED BY <3>1, <2>1, <1>2, <1>5, <1>6
    <2>2. CASE ~(48 <= i /\ i <= 55)
      <3>1. i \notin {48 + b : b \in B}
        BY <1>4, <2>2
      <3>2. i \in w <=> i \in R!pt_base(v)
        BY <3>1, <1>2
      <3> QED BY <3>1, <3>2, <2>2, <1>2, <1>5
    <2> QED BY <2>1, <2>2
  <1>9. VttbrOf(v) \subseteq 0 .. 63
    BY <1>2, <1>4
  <1>10. R!set_field64(w, 55, 48, B) = VttbrOf(v)
    BY <1>7, <1>8, <1>9
  <1> QED BY <1>10 DEF B

\* Reading VTTBR while VM v runs.
LEMMA ReadVttbr ==
  ASSUME NEW d, NEW v \in 0 .. 3, d[Vt] = VttbrOf(v)
  PROVE  R!cp15_read64(d, R!VTTBR) = VttbrOf(v)
  <1> DEFINE w == VttbrOf(v)
             B == R!Bits(v)
  <1>1. R!cp15_read64(d, R!VTTBR) = R!get_field64(w, 63, 0)
    <2>1. R!VTTBR.hsb = 63 /\ R!VTTBR.lsb = 0 /\ R!VTTBR.at = Vt
      BY VttbrNames
    <2> HIDE DEF w
    <2>2. d[Vt] = w
      BY DEF w
    <2> QED BY <2>1, <2>2 DEF R!cp15_read64
  <1>2. B \subseteq {0, 1}
    BY SmallBits
  <1>3. w = ({27} \cup {20 + b : b \in B}) \cup {48 + b : b \in B}
    BY DEF VttbrOf, R!pt_base
  <1> HIDE DEF w, B
  <1>4. w \subseteq 0 .. 63
    BY <1>2, <1>3
  <1>5. R!get_field64(w, 63, 0) = w
    <2>1. ASSUME NEW i \in 0 .. 63 PROVE i \in R!get_field64(w, 63, 0) <=> i \in w
      BY DEF R!get_field64, R!mask64, R!Bit64
    <2>2. R!get_field64(w, 63, 0) \subseteq 0 .. 63
      BY DEF R!get_field64, R!mask64, R!Bit64
    <2> QED BY <1>4, <2>1, <2>2
  <1> QED BY <1>1, <1>5 DEF w


(***************************************************************************)
(* Suspending and restoring.                                               *)
(***************************************************************************)
\* The shapes of a backup, of the registers and of what a VM left in them.
IsBackup(b) ==
  b = [dirty |-> b.dirty, r_usr |-> b.r_usr, lr_usr |-> b.lr_usr, bank |-> b.bank,
       cp15 |-> b.cp15, vttbr_lpae |-> b.vttbr_lpae, ctlr |-> b.ctlr]
IsCpu(h) ==
  /\ h = [r |-> h.r, bank |-> h.bank, cp |-> h.cp, cp64 |-> h.cp64, ctlr |-> h.ctlr]
  /\ h.r = [rn \in R!FrameRegs |-> h.r[rn]]
  /\ h.cp64 = [a \in {Vt} |-> h.cp64[a]]
IsWant(w) ==
  /\ w = [r |-> w.r, bank |-> w.bank, cp |-> w.cp, ctlr |-> w.ctlr]
  /\ w.r = [rn \in R!FrameRegs |-> w.r[rn]]

\* The CPU holds what w asks for; backup b of VM v does.
Loaded(h, w) ==
  /\ h.r = w.r
  /\ \A x \in R!Banked : h.bank[x] = w.bank[x]
  /\ \A a \in R!SavedCp : h.cp[a] = w.cp[a]
  /\ h.ctlr = w.ctlr
Saved(b, w, v) ==
  /\ \A rn \in 0 .. 12 : b.r_usr[rn] = w.r[rn]
  /\ b.lr_usr = w.r[14]
  /\ \A x \in R!Banked : b.bank[x] = w.bank[x]
  /\ \A n \in R!SavedNames : b.cp15[n] = w.cp[Parse(n)]
  /\ b.vttbr_lpae = R!pt_base(v) \/ b.vttbr_lpae = VttbrOf(v)
  /\ b.ctlr = w.ctlr

\* A VM that is suspended leaves all it needs in its backup.
LEMMA SuspendSaves ==
  ASSUME NEW b, IsBackup(b), b.dirty, NEW h, IsCpu(h), NEW w, Loaded(h, w),
         NEW v \in 0 .. 3, h.cp64[Vt] = VttbrOf(v)
  PROVE  LET s == R!guest_suspend(b, h, R!push(h.r))
         IN  IsBackup(s) /\ s.dirty = FALSE /\ Saved(s, w, v)
  <1> DEFINE f  == R!push(h.r)
             s  == R!guest_suspend(b, h, f)
             rs == [rn \in 0 .. 12 |-> R!read_reg_from_stack(f, rn)]
             lr == R!read_reg_from_stack(f, 14)
             bs == [x \in R!Banked |-> h.bank[x]]
             cs == [n \in R!SavedNames |-> R!cp15_read(h.cp, R!cp15_reg_names[n])]
             vt == R!cp15_read64(h.cp64, R!VTTBR)
             D == b.dirty
             C0 == b.cp15
             T0 == b.vttbr_lpae
             Z0 == b.ctlr
             b1 == [b EXCEPT !.r_usr = rs]
             b2 == [b1 EXCEPT !.lr_usr = lr]
             b3 == [b2 EXCEPT !.bank = bs]
             b4 == [b3 EXCEPT !.cp15 = cs]
             b5 == [b4 EXCEPT !.vttbr_lpae = vt]
             b6 == [b5 EXCEPT !.ctlr = h.ctlr]
             no == FALSE
             b7 == [b6 EXCEPT !.dirty = no]
  <1>1. s = [dirty |-> FALSE, r_usr |-> rs, lr_usr |-> lr, bank |-> bs, cp15 |-> cs,
             vttbr_lpae |-> vt, ctlr |-> h.ctlr]
    <2>1. R!guest_backup_rf(b, h, f) = b3
      BY DEF R!guest_backup_rf
    <2> HIDE DEF b3
    <2>2. R!guest_backup_cp15(b3, h) = b5
      BY DEF R!guest_backup_cp15
    <2> HIDE DEF b5
    <2>3. s = b7
      BY <2>1, <2>2 DEF R!guest_suspend
    <2> HIDE DEF rs, lr, bs, cs, vt, s
    <2>4. b = [dirty |-> D, r_usr |-> b.r_usr, lr_usr |-> b.lr_usr, bank |-> b.bank,
               cp15 |-> C0, vttbr_lpae |-> T0, ctlr |-> Z0]
      BY DEF IsBackup
    <2> HIDE DEF D, C0, T0, Z0, b1, b2, b4, b6, b7, no
    <2>5. b1 = [dirty |-> D, r_usr |-> rs, lr_usr |-> b.lr_usr, bank |-> b.bank,
                cp15 |-> C0, vttbr_lpae |-> T0, ctlr |-> Z0]
      BY <2>4 DEF b1
    <2>6. b2 = [dirty |-> D, r_usr |-> rs, lr_usr |-> lr, bank |-> b.bank,
                cp15 |-> C0, vttbr_lpae |-> T0, ctlr |-> Z0]
      BY <2>5 DEF b2
    <2>7. b3 = [dirty |-> D, r_usr |-> rs, lr_usr |-> lr, bank |-> bs,
                cp15 |-> C0, vttbr_lpae |-> T0, ctlr |-> Z0]
      BY <2>6 DEF b3
    <2>8. b4 = [dirty |-> D, r_usr |-> rs, lr_usr |-> lr, bank |-> bs,
                cp15 |-> cs, vttbr_lpae |-> T0, ctlr |-> Z0]
      BY <2>7 DEF b4
    <2>9. b5 = [dirty |-> D, r_usr |-> rs, lr_usr |-> lr, bank |-> bs,
                cp15 |-> cs, vttbr_lpae |-> vt, ctlr |-> Z0]
      BY <2>8 DEF b5
    <2>10. b6 = [dirty |-> D, r_usr |-> rs, lr_usr |-> lr, bank |-> bs,
                 cp15 |-> cs, vttbr_lpae |-> vt, ctlr |-> h.ctlr]
      BY <2>9 DEF b6
    <2>11. b7 = [dirty |-> no, r_usr |-> rs, lr_usr |-> lr, bank |-> bs,
                 cp15 |-> cs, vttbr_lpae |-> vt, ctlr |-> h.ctlr]
      BY <2>10 DEF b7
    <2> QED BY <2>3, <2>11 DEF no
  <1>2. \A rn \in 0 .. 12 : rs[rn] = w.r[rn]
    <2>1. \A rn \in 0 .. 12 : R!read_reg_from_stack(f, rn) = h.r[rn]
      BY ReadFrame DEF R!FrameRegs
    <2> QED BY <2>1 DEF Loaded
  <1>3. lr = w.r[14]
    <2>1. R!read_reg_from_stack(f, 14) = h.r[14]
      BY ReadFrame DEF R!FrameRegs
    <2> QED BY <2>1 DEF Loaded
  <1>4. \A x \in R!Banked : bs[x] = w.bank[x]
    BY DEF Loaded
  <1>5. \A n \in R!SavedNames : cs[n] = w.cp[Parse(n)]
    <2> TAKE n \in R!SavedNames
    <2>1. cs[n] = h.cp[Parse(n)]
      BY ReadSaved
    <2>2. Parse(n) \in R!SavedCp
      BY ParseOnto
    <2> QED BY <2>1, <2>2 DEF Loaded
  <1>6. vt = VttbrOf(v)
    BY ReadVttbr
  <1>7. h.ctlr = w.ctlr
    BY DEF Loaded
  <1> HIDE DEF s, rs, lr, bs, cs, vt
  <1>8. /\ s.dirty = FALSE /\ s.r_usr = rs /\ s.lr_usr = lr /\ s.bank = bs /\ s.cp15 = cs
        /\ s.vttbr_lpae = vt /\ s.ctlr = h.ctlr
    BY <1>1
  <1>9. IsBackup(s)
    BY <1>1, <1>8 DEF IsBackup
  <1>10. Saved(s, w, v)
    BY <1>2, <1>3, <1>4, <1>5, <1>6, <1>7, <1>8 DEF Saved
  <1> QED BY <1>8, <1>9, <1>10 DEF s


\* What writing registers over others leaves.
LEMMA OverDomain ==
  ASSUME NEW f, NEW g
  PROVE  DOMAIN R!Over(f, g) = DOMAIN f \cup DOMAIN g
  BY DEF R!Over

\* The register is written.
LEMMA OverAt ==
  ASSUME NEW f, NEW g, NEW x \in DOMAIN f
  PROVE  R!Over(f, g)[x] = f[x]
  BY DEF R!Over

\* The register is not.
LEMMA OverNot ==
  ASSUME NEW f, NEW g, NEW x \in DOMAIN g, x \notin DOMAIN f
  PROVE  R!Over(f, g)[x] = g[x]
  BY DEF R!Over

\* Registers of hypervisor mode outlive writes to the guest's.
LEMMA OverArmed ==
  ASSUME NEW f, NEW g, Armed(g), DOMAIN f \subseteq R!SavedCp \cup R!UnsavedCp
  PROVE  Armed(R!Over(f, g))
  <1>1. \A n \in HypNames : At(n) \in DOMAIN g \ DOMAIN f
    BY HypInCp, HypApart DEF Armed
  <1>2. \A n \in HypNames : R!Over(f, g)[At(n)] = g[At(n)]
    <2> TAKE n \in HypNames
    <2> DEFINE a == At(n)
    <2>1. a \in DOMAIN g \ DOMAIN f
      BY <1>1
    <2> HIDE DEF a
    <2>2. R!Over(f, g)[a] = g[a]
      BY <2>1, OverNot
    <2> QED BY <2>2 DEF a
  <1>3. "HSCTLR" \in HypNames /\ "HCR" \in HypNames /\ "VTCR" \in HypNames /\ "HSTR" \in HypNames
    BY DEF HypNames
  <1>4. R!HypCp \subseteq DOMAIN R!Over(f, g)
    BY OverDomain DEF Armed
  <1> QED BY <1>2, <1>3, <1>4 DEF Armed

\* The fields guest_restore sets.
LEMMA RestoreFields ==
  ASSUME NEW b, NEW h, IsCpu(h), NEW f, NEW v
  PROVE  LET g == R!guest_restore(v, b, h, f)
         IN  /\ g = [r |-> g.r, bank |-> g.bank, cp |-> g.cp, cp64 |-> g.cp64, ctlr |-> g.ctlr]
             /\ g.r = R!pop(R!restore_frame(b, f))
             /\ g.bank = R!Over([x \in R!Banked |-> b.bank[x]], h.bank)
             /\ g.cp = R!Over([a \in R!SavedCp |-> b.cp15[R!named(a)]], h.cp)
             /\ g.cp64 = R!set_vmid(v, R!cp15_write64(h.cp64, R!VTTBR, b.vttbr_lpae))
             /\ g.ctlr = b.ctlr
  <1> DEFINE rs == R!pop(R!restore_frame(b, f))
             bs == R!Over([x \in R!Banked |-> b.bank[x]], h.bank)
             cs == R!Over([a \in R!SavedCp |-> b.cp15[R!named(a)]], h.cp)
             d1 == R!cp15_write64(h.cp64, R!VTTBR, b.vttbr_lpae)
             d2 == R!set_vmid(v, d1)
             P0 == h.cp
             D0 == h.cp64
             Z0 == h.ctlr
             zs == b.ctlr
             h1 == [h EXCEPT !.r = rs]
             h2 == [h1 EXCEPT !.bank = bs]
             h3 == [h2 EXCEPT !.cp = cs]
             h4 == [h3 EXCEPT !.cp64 = d1]
             h5 == [h4 EXCEPT !.ctlr = zs]
             h6 == [h5 EXCEPT !.cp64 = d2]
             k1 == [h EXCEPT !.cp = cs]
             k2 == [k1 EXCEPT !.cp64 = d1]
             g  == R!guest_restore(v, b, h, f)
  <1>1. R!guest_restore_rf(b, h, f) = h2
    BY DEF R!guest_restore_rf
  <1>2. h = [r |-> h.r, bank |-> h.bank, cp |-> P0, cp64 |-> D0, ctlr |-> Z0]
    BY DEF IsCpu
  <1>3. R!guest_restore_cp15(b, h) = k2
    BY DEF R!guest_restore_cp15
  <1> HIDE DEF rs, bs, P0, D0, Z0, zs
  <1>4. h1 = [r |-> rs, bank |-> h.bank, cp |-> P0, cp64 |-> D0, ctlr |-> Z0]
    BY <1>2
  <1> HIDE DEF h1
  <1>5. h2 = [r |-> rs, bank |-> bs, cp |-> P0, cp64 |-> D0, ctlr |-> Z0]
    BY <1>4
  <1>6. h2.cp = h.cp /\ h2.cp64 = h.cp64
    BY <1>5 DEF P0, D0
  <1> HIDE DEF h2
  <1>7. R!guest_restore_cp15(b, h2) = h4
    BY <1>6 DEF R!guest_restore_cp15
  <1> HIDE DEF cs, d1
  <1>8. k1 = [r |-> h.r, bank |-> h.bank, cp |-> cs, cp64 |-> D0, ctlr |-> Z0]
    BY <1>2
  <1> HIDE DEF k1
  <1>9. k2 = [r |-> h.r, bank |-> h.bank, cp |-> cs, cp64 |-> d1, ctlr |-> Z0]
    BY <1>8
  <1>10. k2.cp64 = d1
    BY <1>9
  <1> HIDE DEF k2
  <1>11. h3 = [r |-> rs, bank |-> bs, cp |-> cs, cp64 |-> D0, ctlr |-> Z0]
    BY <1>5
  <1> HIDE DEF h3
  <1>12. h4 = [r |-> rs, bank |-> bs, cp |-> cs, cp64 |-> d1, ctlr |-> Z0]
    BY <1>11
  <1>13. g = h6
    <2> HIDE DEF h4, d2
    <2>1. R!set_vmid(v, R!guest_restore_cp15(b, h).cp64) = d2
      BY <1>3, <1>10 DEF d2
    <2> QED BY <1>1, <1>7, <2>1 DEF R!guest_restore, zs
  <1> HIDE DEF h4, d2, g
  <1>14. h5 = [r |-> rs, bank |-> bs, cp |-> cs, cp64 |-> d1, ctlr |-> zs]
    BY <1>12
  <1> HIDE DEF h5
  <1>15. h6 = [r |-> rs, bank |-> bs, cp |-> cs, cp64 |-> d2, ctlr |-> zs]
    BY <1>14
  <1>16. g.r = rs /\ g.bank = bs /\ g.cp = cs /\ g.cp64 = d2 /\ g.ctlr = zs
    BY <1>13, <1>15
  <1>17. g = [r |-> g.r, bank |-> g.bank, cp |-> g.cp, cp64 |-> g.cp64, ctlr |-> g.ctlr]
    BY <1>13, <1>15, <1>16
  <1> QED BY <1>16, <1>17 DEF g, rs, bs, cs, d1, d2, zs


\* What a restored CPU holds.
LEMMA RestoreLoads ==
  ASSUME NEW b, NEW w, IsWant(w), NEW v \in 0 .. 3, Saved(b, w, v),
         NEW h, IsCpu(h), Armed(h.cp), NEW f
  PROVE  LET g == R!guest_restore(v, b, h, f)
         IN  IsCpu(g) /\ Armed(g.cp) /\ Loaded(g, w) /\ g.cp64[Vt] = VttbrOf(v)
  <1> DEFINE g == R!guest_restore(v, b, h, f)
             bs == [x \in R!Banked |-> b.bank[x]]
             cs == [a \in R!SavedCp |-> b.cp15[R!named(a)]]
             rs == R!pop(R!restore_frame(b, f))
             d  == R!set_vmid(v, R!cp15_write64(h.cp64, R!VTTBR, b.vttbr_lpae))
  <1>1. /\ g = [r |-> g.r, bank |-> g.bank, cp |-> g.cp, cp64 |-> g.cp64, ctlr |-> g.ctlr]
        /\ g.r = rs /\ g.bank = R!Over(bs, h.bank) /\ g.cp = R!Over(cs, h.cp)
        /\ g.cp64 = d /\ g.ctlr = b.ctlr
    BY RestoreFields
  <1> HIDE DEF g
  <1>2. rs = w.r
    <2>1. rs = [rn \in R!FrameRegs |-> IF rn = 14 THEN b.lr_usr ELSE b.r_usr[rn]]
      BY RestoreFrame
    <2>2. w.r = [rn \in R!FrameRegs |-> w.r[rn]]
      BY DEF IsWant
    <2>3. \A rn \in R!FrameRegs : (IF rn = 14 THEN b.lr_usr ELSE b.r_usr[rn]) = w.r[rn]
      BY DEF Saved, R!FrameRegs
    <2> HIDE DEF rs
    <2> QED BY <2>1, <2>2, <2>3
  <1>3. \A x \in R!Banked : g.bank[x] = w.bank[x]
    <2>1. DOMAIN bs = R!Banked /\ \A x \in R!Banked : bs[x] = w.bank[x]
      BY DEF Saved
    <2> HIDE DEF bs
    <2>2. \A x \in R!Banked : R!Over(bs, h.bank)[x] = bs[x]
      BY <2>1, OverAt
    <2> QED BY <1>1, <2>1, <2>2
  <1>4. \A a \in R!SavedCp : g.cp[a] = w.cp[a]
    <2>1. DOMAIN cs = R!SavedCp
      OBVIOUS
    <2>2. \A a \in R!SavedCp : cs[a] = w.cp[a]
      <3> TAKE a \in R!SavedCp
      <3> DEFINE n == R!named(a)
      <3>1. n \in R!SavedNames /\ Parse(n) = a
        BY ParseOnto DEF R!named, Parse
      <3>2. cs[a] = b.cp15[n]
        OBVIOUS
      <3> HIDE DEF n, cs
      <3>3. b.cp15[n] = w.cp[Parse(n)]
        BY <3>1 DEF Saved
      <3> QED BY <3>1, <3>2, <3>3
    <2> HIDE DEF cs
    <2>3. \A a \in R!SavedCp : R!Over(cs, h.cp)[a] = cs[a]
      BY <2>1, OverAt
    <2> QED BY <1>1, <2>2, <2>3
  <1>5. Armed(g.cp)
    <2>1. DOMAIN cs \subseteq R!SavedCp \cup R!UnsavedCp
      OBVIOUS
    <2> HIDE DEF cs
    <2>2. Armed(R!Over(cs, h.cp))
      BY <2>1, OverArmed
    <2> QED BY <1>1, <2>2
  <1>6. d = [a \in {Vt} |-> d[a]] /\ d[Vt] = VttbrOf(v)
    <2> DEFINE x == b.vttbr_lpae
               e == Put(h.cp64, Vt, x)
               y == R!set_field64(e[Vt], 55, 48, R!Bits(v))
    <2>1. d = Put(e, Vt, y)
      BY WriteVttbr, WriteVmid
    <2>2. x = R!pt_base(v) \/ x = VttbrOf(v)
      BY DEF Saved
    <2>3. h.cp64 = [a \in {Vt} |-> h.cp64[a]]
      BY DEF IsCpu
    <2> HIDE DEF d, x
    <2>4. e = [a \in {Vt} |-> x]
      BY <2>3 DEF Put
    <2> HIDE DEF e
    <2>5. e[Vt] = x
      BY <2>4
    <2>6. y = VttbrOf(v)
      BY <2>2, <2>5, VmidField
    <2> HIDE DEF y
    <2>7. d = [a \in {Vt} |-> y]
      BY <2>1, <2>4 DEF Put
    <2> QED BY <2>6, <2>7
  <1> HIDE DEF rs, d
  <1>7. IsCpu(g)
    <2>1. g.r = [rn \in R!FrameRegs |-> g.r[rn]]
      BY <1>1, <1>2 DEF IsWant
    <2>2. g.cp64 = [a \in {Vt} |-> g.cp64[a]]
      BY <1>1, <1>6
    <2> QED BY <1>1, <2>1, <2>2 DEF IsCpu
  <1>8. Loaded(g, w)
    <2>1. g.r = w.r /\ g.ctlr = w.ctlr
      BY <1>1, <1>2 DEF Saved
    <2> QED BY <2>1, <1>3, <1>4 DEF Loaded
  <1>9. g.cp64[Vt] = VttbrOf(v)
    BY <1>1, <1>6
  <1> QED BY <1>5, <1>7, <1>8, <1>9 DEF g


-----------------------------------------------------------------------------
\* VM v is not the one on the CPU.
Away(vm, id, v) == id \/ v # vm

\* The inductive invariant: the VM on the CPU has its registers there and its
\* backup in use; every other VM has them in its backup.
Good(vm, id, h, b, w) ==
  /\ vm \in R!VM /\ id \in BOOLEAN
  /\ b = [v \in R!VM |-> b[v]] /\ w = [v \in R!VM |-> w[v]]
  /\ \A v \in R!VM : IsBackup(b[v]) /\ IsWant(w[v])
  /\ IsCpu(h) /\ Armed(h.cp)
  /\ ~id => h.cp64[Vt] = VttbrOf(vm) /\ Loaded(h, w[vm]) /\ b[vm].dirty = TRUE
  /\ \A v \in R!VM : Away(vm, id, v) => b[v].dirty = FALSE /\ Saved(b[v], w[v], v)

\* All VMs are suspended.
Suspended(b, w) ==
  /\ b = [v \in R!VM |-> b[v]]
  /\ \A v \in R!VM : IsBackup(b[v]) /\ b[v].dirty = FALSE /\ Saved(b[v], w[v], v)

\* There are at most four VMs, so two bits hold a VM's number.
LEMMA VMs == R!VM \subseteq 0 .. 3 /\ 0 \in R!VM
  BY RegistersAssumption DEF R!Assumption, R!VM

\* guest_suspend leaves every VM suspended.
LEMMA AllSuspended ==
  ASSUME NEW vm, NEW id, NEW h, NEW b, NEW w, Good(vm, id, h, b, w)
  PROVE  Suspended([b EXCEPT ![vm] = R!guest_suspend(b[vm], h, R!push(h.r))], w)
  <1> DEFINE x == R!guest_suspend(b[vm], h, R!push(h.r))
             s == [b EXCEPT ![vm] = x]
  <1>1. vm \in R!VM /\ vm \in 0 .. 3 /\ b = [v \in R!VM |-> b[v]]
    BY VMs DEF Good
  <1>2. IsBackup(x) /\ x.dirty = FALSE /\ Saved(x, w[vm], vm)
    <2>1. CASE id
      <3>1. b[vm].dirty = FALSE /\ Saved(b[vm], w[vm], vm) /\ IsBackup(b[vm])
        BY <1>1, <2>1 DEF Good, Away
      <3>2. x = b[vm]
        BY <3>1 DEF R!guest_suspend
      <3> QED BY <3>1, <3>2
    <2>2. CASE ~id
      <3>1. /\ IsBackup(b[vm]) /\ b[vm].dirty /\ IsCpu(h) /\ Loaded(h, w[vm])
            /\ h.cp64[Vt] = VttbrOf(vm)
        BY <1>1, <2>2 DEF Good
      <3> QED BY <1>1, <3>1, SuspendSaves
    <2> QED BY <2>1, <2>2
  <1> HIDE DEF x
  <1>3. s = [v \in R!VM |-> s[v]] /\ s[vm] = x /\ \A v \in R!VM : v # vm => s[v] = b[v]
    BY <1>1
  <1> HIDE DEF s
  <1>4. ASSUME NEW v \in R!VM
        PROVE  IsBackup(s[v]) /\ s[v].dirty = FALSE /\ Saved(s[v], w[v], v)
    <2>1. CASE v = vm
      BY <1>2, <1>3, <2>1
    <2>2. CASE v # vm
      <3>1. IsBackup(b[v]) /\ b[v].dirty = FALSE /\ Saved(b[v], w[v], v)
        BY <2>2 DEF Good, Away
      <3> QED BY <1>3, <2>2, <3>1
    <2> QED BY <2>1, <2>2
  <1> QED BY <1>3, <1>4 DEF Suspended, s, x

\* Backup b with the flag that marks it in use set to y.
Flagged(b, y) == [b EXCEPT !.dirty = y]

\* The flag is all that setting it changes.
LEMMA SetDirty ==
  ASSUME NEW b, IsBackup(b), NEW y
  PROVE  LET t == Flagged(b, y)
         IN  /\ t = [dirty |-> y, r_usr |-> b.r_usr, lr_usr |-> b.lr_usr, bank |-> b.bank,
                     cp15 |-> b.cp15, vttbr_lpae |-> b.vttbr_lpae, ctlr |-> b.ctlr]
             /\ IsBackup(t) /\ t.dirty = y
             /\ \A w, v : Saved(b, w, v) => Saved(t, w, v)
  <1> DEFINE t == [b EXCEPT !.dirty = y]
             b1 == b.r_usr
             b2 == b.lr_usr
             b3 == b.bank
             b4 == b.cp15
             b5 == b.vttbr_lpae
             b6 == b.ctlr
  <1>1. b = [dirty |-> b.dirty, r_usr |-> b1, lr_usr |-> b2, bank |-> b3,
             cp15 |-> b4, vttbr_lpae |-> b5, ctlr |-> b6]
    BY DEF IsBackup
  <1> HIDE DEF b1, b2, b3, b4, b5, b6
  <1>2. t = [dirty |-> y, r_usr |-> b1, lr_usr |-> b2, bank |-> b3,
             cp15 |-> b4, vttbr_lpae |-> b5, ctlr |-> b6]
    BY <1>1
  <1> HIDE DEF t
  <1>3. /\ t.dirty = y /\ t.r_usr = b1 /\ t.lr_usr = b2 /\ t.bank = b3
        /\ t.cp15 = b4 /\ t.vttbr_lpae = b5 /\ t.ctlr = b6
    BY <1>2
  <1>4. IsBackup(t)
    BY <1>2, <1>3 DEF IsBackup
  <1>5. /\ t.r_usr = b.r_usr /\ t.lr_usr = b.lr_usr /\ t.bank = b.bank
        /\ t.cp15 = b.cp15 /\ t.vttbr_lpae = b.vttbr_lpae /\ t.ctlr = b.ctlr
    BY <1>3 DEF b1, b2, b3, b4, b5, b6
  <1>6. ASSUME NEW w, NEW v, Saved(b, w, v) PROVE Saved(t, w, v)
    BY <1>5, <1>6 DEF Saved
  <1> QED BY <1>2, <1>3, <1>4, <1>6 DEF t, b1, b2, b3, b4, b5, b6, Flagged

\* Restoring a VM when all are suspended puts it on the CPU.
LEMMA Switched ==
  ASSUME NEW s, NEW w, Suspended(s, w), w = [v \in R!VM |-> w[v]],
         \A v \in R!VM : IsWant(w[v]), NEW h, IsCpu(h), Armed(h.cp), NEW f, NEW vm \in R!VM
  PROVE  Good(vm, FALSE, R!guest_restore(vm, s[vm], h, f), [s EXCEPT ![vm].dirty = TRUE], w)
  <1> DEFINE g == R!guest_restore(vm, s[vm], h, f)
             yes == TRUE
             x == Flagged(s[vm], yes)
             t == [s EXCEPT ![vm] = x]
  <1>1. IsCpu(g) /\ Armed(g.cp) /\ Loaded(g, w[vm]) /\ g.cp64[Vt] = VttbrOf(vm)
    BY VMs, RestoreLoads DEF Suspended
  <1>2. s = [v \in R!VM |-> s[v]]
    BY DEF Suspended
  <1>3. IsBackup(x) /\ x.dirty = yes
    <2>1. IsBackup(s[vm])
      BY DEF Suspended
    <2> HIDE DEF yes
    <2> QED BY <2>1, SetDirty
  <1> HIDE DEF x, g
  <1>4. t = [v \in R!VM |-> t[v]] /\ t[vm] = x /\ \A v \in R!VM : v # vm => t[v] = s[v]
    BY <1>2
  <1>5. [s EXCEPT ![vm].dirty = TRUE] = t
    BY DEF x, yes, Flagged
  <1> HIDE DEF t
  <1>6. \A v \in R!VM : IsBackup(t[v]) /\ IsWant(w[v])
    BY <1>3, <1>4 DEF Suspended
  <1>7. \A v \in R!VM : Away(vm, FALSE, v) => t[v].dirty = FALSE /\ Saved(t[v], w[v], v)
    BY <1>4 DEF Suspended, Away
  <1>8. t[vm].dirty = TRUE
    BY <1>3, <1>4 DEF yes
  <1>9. Good(vm, FALSE, g, t, w)
    BY <1>1, <1>4, <1>6, <1>7, <1>8 DEF Good
  <1> QED BY <1>5, <1>9 DEF g


\* A CPU with other contents in all a guest may name.
Refilled(h, rs, bs, zs, cs) == [h EXCEPT !.r = rs, !.bank = bs, !.ctlr = zs, !.cp = cs]

\* Its fields.
LEMMA CpuFields ==
  ASSUME NEW h, IsCpu(h), NEW rs, NEW bs, NEW zs, NEW cs
  PROVE  Refilled(h, rs, bs, zs, cs) =
           [r |-> rs, bank |-> bs, cp |-> cs, cp64 |-> h.cp64, ctlr |-> zs]
  <1> DEFINE H1 == h.r
             H2 == h.bank
             H3 == h.cp
             H4 == h.cp64
             H5 == h.ctlr
             g1 == [h EXCEPT !.r = rs]
             g2 == [g1 EXCEPT !.bank = bs]
             g3 == [g2 EXCEPT !.ctlr = zs]
             g4 == [g3 EXCEPT !.cp = cs]
  <1>1. h = [r |-> H1, bank |-> H2, cp |-> H3, cp64 |-> H4, ctlr |-> H5]
    BY DEF IsCpu
  <1> HIDE DEF H1, H2, H3, H4, H5
  <1>2. g1 = [r |-> rs, bank |-> H2, cp |-> H3, cp64 |-> H4, ctlr |-> H5]
    BY <1>1
  <1> HIDE DEF g1
  <1>3. g2 = [r |-> rs, bank |-> bs, cp |-> H3, cp64 |-> H4, ctlr |-> H5]
    BY <1>2
  <1> HIDE DEF g2
  <1>4. g3 = [r |-> rs, bank |-> bs, cp |-> H3, cp64 |-> H4, ctlr |-> zs]
    BY <1>3
  <1> HIDE DEF g3
  <1>5. g4 = [r |-> rs, bank |-> bs, cp |-> cs, cp64 |-> H4, ctlr |-> zs]
    BY <1>4
  <1> QED BY <1>5 DEF g1, g2, g3, H4, Refilled

\* The guest writes its registers.
LEMMA Ran ==
  ASSUME NEW vm, NEW h, NEW b, NEW w, Good(vm, FALSE, h, b, w), NEW e, IsWant(e),
         DOMAIN e.cp = R!SavedCp \cup R!UnsavedCp
  PROVE  Good(vm, FALSE,
              [h EXCEPT !.r = e.r, !.bank = e.bank, !.ctlr = e.ctlr, !.cp = R!Over(e.cp, h.cp)],
              b, [w EXCEPT ![vm] = e])
  <1> DEFINE rs == e.r
             bs == e.bank
             zs == e.ctlr
             cs == R!Over(e.cp, h.cp)
             g == Refilled(h, rs, bs, zs, cs)
             u == [w EXCEPT ![vm] = e]
             ds == h.cp64
  <1>1. IsCpu(h) /\ Armed(h.cp) /\ vm \in R!VM /\ w = [v \in R!VM |-> w[v]]
    BY DEF Good
  <1>2. g = [r |-> rs, bank |-> bs, cp |-> cs, cp64 |-> ds, ctlr |-> zs]
    BY <1>1, CpuFields
  <1>3. Armed(cs)
    BY <1>1, OverArmed
  <1>4. \A a \in R!SavedCp : cs[a] = e.cp[a]
    <2> TAKE a \in R!SavedCp
    <2>1. a \in DOMAIN e.cp
      OBVIOUS
    <2> QED BY <2>1, OverAt
  <1>5. rs = [rn \in R!FrameRegs |-> rs[rn]]
    BY DEF IsWant
  <1>6. ds = [a \in {Vt} |-> ds[a]] /\ ds[Vt] = VttbrOf(vm)
    BY DEF Good, IsCpu
  <1>7. \A x \in R!Banked : bs[x] = e.bank[x]
    OBVIOUS
  <1>8. u = [v \in R!VM |-> u[v]] /\ u[vm] = e /\ \A v \in R!VM : v # vm => u[v] = w[v]
    BY <1>1
  <1> HIDE DEF cs, ds, g, u
  <1>9. g.r = rs /\ g.bank = bs /\ g.cp = cs /\ g.cp64 = ds /\ g.ctlr = zs
    BY <1>2
  <1>10. IsCpu(g)
    BY <1>2, <1>5, <1>6, <1>9 DEF IsCpu
  <1>11. Loaded(g, u[vm])
    BY <1>4, <1>8, <1>9 DEF Loaded
  <1>12. Armed(g.cp) /\ g.cp64[Vt] = VttbrOf(vm)
    BY <1>3, <1>6, <1>9
  <1>13. \A v \in R!VM : IsBackup(b[v]) /\ IsWant(u[v])
    BY <1>8 DEF Good
  <1>14. \A v \in R!VM : Away(vm, FALSE, v) => b[v].dirty = FALSE /\ Saved(b[v], u[v], v)
    BY <1>8 DEF Good, Away
  <1>15. b = [v \in R!VM |-> b[v]] /\ b[vm].dirty = TRUE
    BY DEF Good
  <1>16. Good(vm, FALSE, g, b, u)
    BY <1>1, <1>8, <1>10, <1>11, <1>12, <1>13, <1>14, <1>15 DEF Good
  <1> QED BY <1>16 DEF g, u, cs, Refilled

\* A trapped load gives the guest one new register.
LEMMA Trapped ==
  ASSUME NEW vm, NEW h, NEW b, NEW w, Good(vm, FALSE, h, b, w), NEW rt \in R!FrameRegs, NEW x
  PROVE  Good(vm, FALSE, [h EXCEPT !.r = R!pop(R!write_reg_to_stack(R!push(h.r), rt, x))],
              b, [w EXCEPT ![vm].r[rt] = x])
  <1> DEFINE rs == R!pop(R!write_reg_to_stack(R!push(h.r), rt, x))
             q  == [h.r EXCEPT ![rt] = x]
             o1 == h.bank
             o2 == h.cp
             o3 == h.cp64
             o4 == h.ctlr
             g  == [h EXCEPT !.r = rs]
             y  == w[vm]
             y1 == y.bank
             y2 == y.cp
             y3 == y.ctlr
             qw == [y.r EXCEPT ![rt] = x]
             z  == [y EXCEPT !.r = qw]
             u  == [w EXCEPT ![vm] = z]
  <1>1. IsCpu(h) /\ Armed(h.cp) /\ vm \in R!VM /\ w = [v \in R!VM |-> w[v]]
    BY DEF Good
  <1>2. h.r = y.r /\ h.r = [rn \in R!FrameRegs |-> h.r[rn]]
    BY DEF Good, Loaded, IsCpu
  <1>3. rs = q
    BY <1>2, LoadFrame
  <1>4. qw = q
    BY <1>2
  <1>5. q = [rn \in R!FrameRegs |-> q[rn]]
    BY <1>2
  <1>6. h = [r |-> h.r, bank |-> o1, cp |-> o2, cp64 |-> o3, ctlr |-> o4]
    BY <1>1 DEF IsCpu
  <1>7. /\ y = [r |-> y.r, bank |-> y1, cp |-> y2, ctlr |-> y3]
        /\ \A k \in R!Banked : o1[k] = y1[k]
        /\ \A a \in R!SavedCp : o2[a] = y2[a]
        /\ o4 = y3
    <2>1. IsWant(w[vm]) /\ Loaded(h, w[vm])
      BY <1>1 DEF Good
    <2>2. IsWant(y) /\ Loaded(h, y)
      BY <2>1
    <2> HIDE DEF y
    <2> QED BY <2>2 DEF IsWant, Loaded
  <1>8. Armed(o2) /\ o3 = [a \in {Vt} |-> o3[a]] /\ o3[Vt] = VttbrOf(vm)
    BY DEF Good, IsCpu
  <1>9. [w EXCEPT ![vm].r[rt] = x] = u
    OBVIOUS
  <1> HIDE DEF rs, q, qw, o1, o2, o3, o4, y1, y2, y3, y
  <1>10. g = [r |-> q, bank |-> o1, cp |-> o2, cp64 |-> o3, ctlr |-> o4]
    BY <1>3, <1>6
  <1>11. z = [r |-> q, bank |-> y1, cp |-> y2, ctlr |-> y3]
    BY <1>4, <1>7
  <1> HIDE DEF z, g
  <1>12. u = [v \in R!VM |-> u[v]] /\ u[vm] = z /\ \A v \in R!VM : v # vm => u[v] = w[v]
    BY <1>1
  <1> HIDE DEF u
  <1>13. g.r = q /\ g.bank = o1 /\ g.cp = o2 /\ g.cp64 = o3 /\ g.ctlr = o4
    BY <1>10
  <1>14. z.r = q /\ z.bank = y1 /\ z.cp = y2 /\ z.ctlr = y3
    BY <1>11
  <1>15. IsCpu(g)
    BY <1>5, <1>8, <1>10, <1>13 DEF IsCpu
  <1>16. IsWant(z)
    BY <1>5, <1>11, <1>14 DEF IsWant
  <1>17. Loaded(g, u[vm])
    BY <1>7, <1>12, <1>13, <1>14 DEF Loaded
  <1>18. Armed(g.cp) /\ g.cp64[Vt] = VttbrOf(vm)
    BY <1>8, <1>13
  <1>19. \A v \in R!VM : IsBackup(b[v]) /\ IsWant(u[v])
    BY <1>12, <1>16 DEF Good
  <1>20. \A v \in R!VM : Away(vm, FALSE, v) => b[v].dirty = FALSE /\ Saved(b[v], u[v], v)
    BY <1>12 DEF Good, Away
  <1>21. b = [v \in R!VM |-> b[v]] /\ b[vm].dirty = TRUE
    BY DEF Good
  <1>22. Good(vm, FALSE, g, b, u)
    BY <1>1, <1>12, <1>15, <1>17, <1>18, <1>19, <1>20, <1>21 DEF Good
  <1> QED BY <1>9, <1>22 DEF g, rs


\* The idle thread takes the CPU: r and bs are its registers.
LEMMA Idled ==
  ASSUME NEW vm \in R!VM, NEW h, IsCpu(h), Armed(h.cp), NEW s, NEW w, Suspended(s, w),
         w = [v \in R!VM |-> w[v]], \A v \in R!VM : IsWant(w[v]),
         NEW rs, rs = [rn \in R!FrameRegs |-> rs[rn]], NEW x, NEW y
  PROVE  Good(vm, TRUE,
              [h EXCEPT !.r = rs, !.bank["elr_hyp"] = x, !.bank["spsr_hyp"] = y], s, w)
  <1> DEFINE o1 == h.bank
             o2 == h.cp
             o3 == h.cp64
             o4 == h.ctlr
             p1 == [o1 EXCEPT !["elr_hyp"] = x]
             p2 == [p1 EXCEPT !["spsr_hyp"] = y]
             g1 == [h EXCEPT !.r = rs]
             g2 == [g1 EXCEPT !.bank = p1]
             g  == [g2 EXCEPT !.bank = p2]
  <1>1. h = [r |-> h.r, bank |-> o1, cp |-> o2, cp64 |-> o3, ctlr |-> o4]
    BY DEF IsCpu
  <1>2. Armed(o2) /\ o3 = [a \in {Vt} |-> o3[a]]
    BY DEF IsCpu
  <1> HIDE DEF o1, o2, o3, o4
  <1>3. g1 = [r |-> rs, bank |-> o1, cp |-> o2, cp64 |-> o3, ctlr |-> o4]
    BY <1>1
  <1>4. g1.bank = o1
    BY <1>3
  <1> HIDE DEF g1
  <1>5. g2 = [g1 EXCEPT !.bank = [g1.bank EXCEPT !["elr_hyp"] = x]]
    BY <1>4
  <1> HIDE DEF p1
  <1>6. g2 = [r |-> rs, bank |-> p1, cp |-> o2, cp64 |-> o3, ctlr |-> o4]
    BY <1>3
  <1>7. g2.bank = p1
    BY <1>6
  <1> HIDE DEF g2
  <1>8. g = [g2 EXCEPT !.bank = [g2.bank EXCEPT !["spsr_hyp"] = y]]
    BY <1>7
  <1> HIDE DEF p2
  <1>9. g = [r |-> rs, bank |-> p2, cp |-> o2, cp64 |-> o3, ctlr |-> o4]
    BY <1>6
  <1>10. [h EXCEPT !.r = rs, !.bank["elr_hyp"] = x, !.bank["spsr_hyp"] = y] = g
    BY <1>5, <1>8 DEF g1
  <1> HIDE DEF g
  <1>11. g.r = rs /\ g.bank = p2 /\ g.cp = o2 /\ g.cp64 = o3 /\ g.ctlr = o4
    BY <1>9
  <1>12. IsCpu(g) /\ Armed(g.cp)
    BY <1>2, <1>9, <1>11 DEF IsCpu
  <1>13. Good(vm, TRUE, g, s, w)
    BY <1>12 DEF Good, Suspended
  <1> QED BY <1>10, <1>13

\* What main() leaves in a backup is what its VM is to find.
LEMMA InitSaved ==
  ASSUME NEW v, NEW w, \A rn \in R!FrameRegs : w.r[rn] = R!Contents(R!Initial, rn, 0),
         \A x \in R!Banked : w.bank[x] = R!Contents(R!Initial, x, 0),
         \A a \in R!SavedCp : w.cp[a] = R!InitialCp(a),
         w.ctlr = R!Contents(R!Initial, "ctlr", 0)
  PROVE  /\ IsBackup(R!guest_rpb_init(v)) /\ R!guest_rpb_init(v).dirty = FALSE
         /\ Saved(R!guest_rpb_init(v), w, v)
  <1> DEFINE b == R!guest_rpb_init(v)
             b1 == [rn \in 0 .. 12 |-> R!Contents(R!Initial, rn, 0)]
             b2 == R!Contents(R!Initial, 14, 0)
             b3 == [x \in R!Banked |-> R!Contents(R!Initial, x, 0)]
             b4 == [n \in R!SavedNames |-> R!InitialCp(At(n))]
             b5 == R!pt_base(v)
             b6 == R!Contents(R!Initial, "ctlr", 0)
             no == FALSE
  <1>1. b = [dirty |-> no, r_usr |-> b1, lr_usr |-> b2, bank |-> b3,
             cp15 |-> b4, vttbr_lpae |-> b5, ctlr |-> b6]
    BY DEF R!guest_rpb_init, At
  <1>2. (\A rn \in 0 .. 12 : b1[rn] = w.r[rn]) /\ b2 = w.r[14]
    BY DEF R!FrameRegs
  <1>3. \A x \in R!Banked : b3[x] = w.bank[x]
    OBVIOUS
  <1>4. \A n \in R!SavedNames : b4[n] = w.cp[Parse(n)]
    <2> TAKE n \in R!SavedNames
    <2> DEFINE p == Parse(n)
               a == At(n)
    <2>1. p \in R!SavedCp /\ (a = At("SCTLR") <=> p = At("SCTLR"))
      BY ParseOnto, ParseSctlr
    <2>2. b4[n] = R!InitialCp(a)
      OBVIOUS
    <2> HIDE DEF p, a, b4
    <2>3. R!InitialCp(a) = R!InitialCp(p)
      BY <2>1 DEF R!InitialCp, At
    <2>4. w.cp[p] = R!InitialCp(p)
      BY <2>1
    <2> QED BY <2>2, <2>3, <2>4 DEF p
  <1>5. b6 = w.ctlr
    OBVIOUS
  <1> HIDE DEF b, b1, b2, b3, b4, b5, b6, no
  <1>6. /\ b.dirty = no /\ b.r_usr = b1 /\ b.lr_usr = b2 /\ b.bank = b3
        /\ b.cp15 = b4 /\ b.vttbr_lpae = b5 /\ b.ctlr = b6
    BY <1>1
  <1>7. IsBackup(b)
    BY <1>1, <1>6 DEF IsBackup
  <1>8. Saved(b, w, v)
    BY <1>2, <1>3, <1>4, <1>5, <1>6 DEF Saved, b5
  <1>9. b.dirty = FALSE
    BY <1>6 DEF no
  <1> QED BY <1>7, <1>8, <1>9 DEF b

\* The CPU that main() hands to guest_restore.
LEMMA InitCpu ==
  ASSUME NEW r, r = [rn \in R!FrameRegs |-> r[rn]], NEW bs, NEW zs, NEW cs,
         DOMAIN cs = R!SavedCp \cup R!UnsavedCp, NEW u
  PROVE  LET reset == [a \in R!HypCp |-> IF a = R!cp15_reg_names["HSTR"].at THEN {} ELSE u]
             h == [r |-> r, bank |-> bs, cp |-> R!Over(cs, R!meteor_cp15_init(reset)),
                   cp64 |-> [a \in {R!VTTBR.at} |-> {}], ctlr |-> zs]
         IN  IsCpu(h) /\ Armed(h.cp)
  <1> DEFINE reset == [a \in R!HypCp |-> IF a = R!cp15_reg_names["HSTR"].at THEN {} ELSE u]
             m == R!meteor_cp15_init(reset)
             c == R!Over(cs, m)
             d == [a \in {R!VTTBR.at} |-> {}]
             h == [r |-> r, bank |-> bs, cp |-> c, cp64 |-> d, ctlr |-> zs]
  <1>1. HypRegs(reset)
    BY DEF HypRegs
  <1>2. reset[At("HSTR")] = {}
    <2>1. At("HSTR") \in R!HypCp
      BY HypInCp DEF HypNames
    <2> QED BY <2>1 DEF At
  <1> HIDE DEF reset
  <1>3. Armed(m)
    BY <1>1, <1>2, MeteorInit
  <1> HIDE DEF m
  <1>4. Armed(c)
    BY <1>3, OverArmed
  <1>5. d = [a \in {Vt} |-> d[a]]
    <2>1. R!VTTBR.at = Vt
      BY VttbrNames
    <2> QED BY <2>1
  <1> HIDE DEF c, d
  <1>6. h.r = r /\ h.bank = bs /\ h.cp = c /\ h.cp64 = d /\ h.ctlr = zs
    OBVIOUS
  <1>7. h = [r |-> h.r, bank |-> h.bank, cp |-> h.cp, cp64 |-> h.cp64, ctlr |-> h.ctlr]
    OBVIOUS
  <1> HIDE DEF h
  <1>8. IsCpu(h) /\ Armed(h.cp)
    BY <1>4, <1>5, <1>6, <1>7 DEF IsCpu
  <1> QED BY <1>8 DEF h, c, d, m, reset


\* The invariant of the world switch.  printb is never reached.
RInv == Good(vm_id, idle, hw, bk, want) /\ stop = FALSE

\* main() establishes it.
LEMMA InitGood == R!Init => RInv
  <1> SUFFICES ASSUME R!Init PROVE RInv
    OBVIOUS
  <1> DEFINE r == [rn \in R!FrameRegs |-> R!Contents(IF rn = 14 THEN R!Hyp ELSE R!Initial, rn, 0)]
             zc == [a \in R!SavedCp \cup R!UnsavedCp |-> R!InitialCp(a)]
             zero == [R!Everything(R!Initial, 0) EXCEPT !.cp = zc]
             first == [zero EXCEPT !.r = r]
             Reset(u) == [a \in R!HypCp |-> IF a = R!cp15_reg_names["HSTR"].at THEN {} ELSE u]
             Start(u) == [r |-> r, bank |-> first.bank,
                          cp |-> R!Over(first.cp, R!meteor_cp15_init(Reset(u))),
                          cp64 |-> [a \in {R!VTTBR.at} |-> {}], ctlr |-> first.ctlr]
             Rest(u) == R!guest_restore(0, R!guest_rpb_init(0), Start(u), R!push(r))
             Bk(v) == [R!guest_rpb_init(v) EXCEPT !.dirty = (v = 0)]
  <1>1. PICK u : /\ vm_id = 0 /\ idle = FALSE /\ stop = FALSE
                 /\ bk = [v \in R!VM |-> Bk(v)]
                 /\ hw = [Rest(u) EXCEPT !.r = r]
                 /\ want = [v \in R!VM |-> IF v = 0 THEN first ELSE zero]
    BY DEF R!Init
  <1> DEFINE zr == [rn \in R!FrameRegs |-> R!Contents(R!Initial, rn, 0)]
             zb == [x \in R!Banked \cup R!UnsavedBank |-> R!Contents(R!Initial, x, 0)]
             ec == [a \in R!SavedCp \cup R!UnsavedCp |-> R!Contents(R!Initial, a, 0)]
             zz == R!Contents(R!Initial, "ctlr", 0)
             e  == R!Everything(R!Initial, 0)
             h  == Start(u)
             g  == Rest(u)
             k  == [g EXCEPT !.r = r]
  <1>0. hw = k
    BY <1>1
  <1>2. e = [r |-> zr, bank |-> zb, cp |-> ec, ctlr |-> zz]
    BY DEF R!Everything
  <1>3. r = [rn \in R!FrameRegs |-> r[rn]] /\ zr = [rn \in R!FrameRegs |-> zr[rn]]
    OBVIOUS
  <1>4. /\ \A rn \in R!FrameRegs : zr[rn] = R!Contents(R!Initial, rn, 0)
        /\ \A x \in R!Banked : zb[x] = R!Contents(R!Initial, x, 0)
        /\ \A a \in R!SavedCp : zc[a] = R!InitialCp(a)
        /\ DOMAIN zc = R!SavedCp \cup R!UnsavedCp
    OBVIOUS
  <1>5. zero = [e EXCEPT !.cp = zc]
    OBVIOUS
  <1> HIDE DEF r, zc, zr, zb, ec, e
  <1>6. zero = [r |-> zr, bank |-> zb, cp |-> zc, ctlr |-> zz]
    BY <1>2, <1>5
  <1> HIDE DEF zero
  <1>7. first = [r |-> r, bank |-> zb, cp |-> zc, ctlr |-> zz]
    BY <1>6
  <1> HIDE DEF first
  <1>8. /\ zero.r = zr /\ zero.bank = zb /\ zero.cp = zc /\ zero.ctlr = zz
        /\ first.r = r /\ first.bank = zb /\ first.cp = zc /\ first.ctlr = zz
    BY <1>6, <1>7
  <1>9. IsWant(zero) /\ IsWant(first)
    BY <1>3, <1>6, <1>7, <1>8 DEF IsWant
  <1>10. ASSUME NEW v, NEW w, w.bank = zb, w.cp = zc, w.ctlr = zz, w.r = zr
         PROVE  /\ IsBackup(R!guest_rpb_init(v)) /\ R!guest_rpb_init(v).dirty = FALSE
                /\ Saved(R!guest_rpb_init(v), w, v)
    BY <1>4, <1>10, InitSaved
  <1>11. IsCpu(h) /\ Armed(h.cp)
    <2> DEFINE bs == first.bank
               zs == first.ctlr
               cs == first.cp
    <2>1. DOMAIN cs = R!SavedCp \cup R!UnsavedCp
      BY <1>4, <1>8
    <2> HIDE DEF bs, zs, cs
    <2>2. LET reset == [a \in R!HypCp |-> IF a = R!cp15_reg_names["HSTR"].at THEN {} ELSE u]
              hh == [r |-> r, bank |-> bs, cp |-> R!Over(cs, R!meteor_cp15_init(reset)),
                     cp64 |-> [a \in {R!VTTBR.at} |-> {}], ctlr |-> zs]
          IN  IsCpu(hh) /\ Armed(hh.cp)
      BY <1>3, <2>1, InitCpu
    <2> QED BY <2>2 DEF bs, zs, cs
  <1> HIDE DEF h
  <1>12. IsCpu(g) /\ Armed(g.cp) /\ Loaded(g, zero) /\ g.cp64[Vt] = VttbrOf(0)
    <2>1. 0 \in 0 .. 3
      OBVIOUS
    <2>2. Saved(R!guest_rpb_init(0), zero, 0)
      BY <1>8, <1>10
    <2>3. g = R!guest_restore(0, R!guest_rpb_init(0), h, R!push(r))
      BY DEF h
    <2> HIDE DEF g
    <2> QED BY <1>9, <1>11, <2>1, <2>2, <2>3, RestoreLoads
  <1> HIDE DEF g
  <1>13. IsCpu(k) /\ Armed(k.cp) /\ Loaded(k, first) /\ k.cp64[Vt] = VttbrOf(0)
    <2> DEFINE o1 == g.bank
               o2 == g.cp
               o3 == g.cp64
               o4 == g.ctlr
    <2>1. g = [r |-> g.r, bank |-> o1, cp |-> o2, cp64 |-> o3, ctlr |-> o4]
      BY <1>12 DEF IsCpu
    <2>2. o3 = [a \in {Vt} |-> o3[a]] /\ o3[Vt] = VttbrOf(0) /\ Armed(o2)
      BY <1>12 DEF IsCpu
    <2>3. /\ \A x \in R!Banked : o1[x] = first.bank[x]
          /\ \A a \in R!SavedCp : o2[a] = first.cp[a]
          /\ o4 = first.ctlr
      BY <1>8, <1>12 DEF Loaded
    <2> HIDE DEF o1, o2, o3, o4
    <2>4. k = [r |-> r, bank |-> o1, cp |-> o2, cp64 |-> o3, ctlr |-> o4]
      BY <2>1
    <2> HIDE DEF k
    <2>5. k.r = r /\ k.bank = o1 /\ k.cp = o2 /\ k.cp64 = o3 /\ k.ctlr = o4
      BY <2>4
    <2>6. IsCpu(k)
      BY <1>3, <2>2, <2>4, <2>5 DEF IsCpu
    <2>7. Loaded(k, first)
      BY <1>8, <2>3, <2>5 DEF Loaded
    <2> QED BY <2>2, <2>5, <2>6, <2>7
  <1>15. \A v \in R!VM : IsBackup(Bk(v)) /\ (Bk(v).dirty <=> v = 0) /\ Bk(v).dirty \in BOOLEAN
    <2> TAKE v \in R!VM
    <2> DEFINE b == R!guest_rpb_init(v)
               y == v = 0
    <2>1. IsBackup(b)
      BY <1>8, <1>10, Zenon
    <2>2. y \in BOOLEAN /\ (y <=> v = 0)
      OBVIOUS
    <2>3. Bk(v) = Flagged(b, y)
      BY DEF Flagged
    <2> HIDE DEF b, y, Bk
    <2>4. IsBackup(Bk(v)) /\ Bk(v).dirty = y
      BY <2>1, <2>3, SetDirty
    <2> QED BY <2>2, <2>4
  <1>16. \A v \in R!VM : v # 0 => Saved(Bk(v), zero, v)
    <2> TAKE v \in R!VM
    <2> DEFINE b == R!guest_rpb_init(v)
               y == v = 0
    <2>1. IsBackup(b) /\ Saved(b, zero, v)
      BY <1>8, <1>10, Zenon
    <2>2. Bk(v) = Flagged(b, y)
      BY DEF Flagged
    <2> HIDE DEF b, y, Bk
    <2>3. Saved(Bk(v), zero, v)
      BY <2>1, <2>2, SetDirty
    <2> QED BY <2>3
  <1> HIDE DEF Bk, k
  <1>17. \A v \in R!VM : bk[v] = Bk(v) /\ want[v] = IF v = 0 THEN first ELSE zero
    BY <1>1
  <1>18. bk = [v \in R!VM |-> bk[v]] /\ want = [v \in R!VM |-> want[v]]
    BY <1>1
  <1>19. \A v \in R!VM : IsBackup(bk[v]) /\ IsWant(want[v])
    BY <1>9, <1>15, <1>17
  <1>20. want[0] = first /\ bk[0].dirty = TRUE
    BY <1>15, <1>17, VMs
  <1>21. \A v \in R!VM : Away(0, FALSE, v) => bk[v].dirty = FALSE /\ Saved(bk[v], want[v], v)
    BY <1>15, <1>16, <1>17 DEF Away
  <1>22. Good(0, FALSE, hw, bk, want)
    BY <1>0, <1>13, <1>18, <1>19, <1>20, <1>21, VMs DEF Good
  <1> QED BY <1>1, <1>22 DEF RInv


\* Every step of the world switch keeps it.
LEMMA StepGood == RInv /\ [R!Next]_(R!vars) => RInv'
  <1> SUFFICES ASSUME RInv, [R!Next]_(R!vars) PROVE RInv'
    OBVIOUS
  <1>1. /\ Good(vm_id, idle, hw, bk, want) /\ stop = FALSE
        /\ vm_id \in R!VM /\ idle \in BOOLEAN /\ IsCpu(hw) /\ Armed(hw.cp)
        /\ want = [v \in R!VM |-> want[v]] /\ \A v \in R!VM : IsWant(want[v])
    BY DEF RInv, Good
  <1> DEFINE f == R!push(hw.r)
             x == R!guest_suspend(bk[vm_id], hw, f)
             s == [bk EXCEPT ![vm_id] = x]
  <1>2. Suspended(s, want)
    BY <1>1, AllSuspended
  <1>3. CASE R!GuestRun
    <2> DEFINE m == IF version[vm_id] = Versions THEN 1 ELSE version[vm_id] + 1
               e == R!Everything(vm_id, m)
    <2>1. /\ idle = FALSE /\ idle' = idle /\ vm_id' = vm_id /\ bk' = bk /\ stop' = stop
          /\ hw' = [hw EXCEPT !.r = e.r, !.bank = e.bank, !.ctlr = e.ctlr,
                              !.cp = R!Over(e.cp, hw.cp)]
          /\ want' = [want EXCEPT ![vm_id] = e]
      BY <1>1, <1>3 DEF R!GuestRun
    <2>2. IsWant(e) /\ DOMAIN e.cp = R!SavedCp \cup R!UnsavedCp
      <3> HIDE DEF m
      <3> DEFINE er == [rn \in R!FrameRegs |-> R!Contents(vm_id, rn, m)]
                 eb == [b \in R!Banked \cup R!UnsavedBank |-> R!Contents(vm_id, b, m)]
                 ec == [a \in R!SavedCp \cup R!UnsavedCp |-> R!Contents(vm_id, a, m)]
                 ez == R!Contents(vm_id, "ctlr", m)
      <3>1. e = [r |-> er, bank |-> eb, cp |-> ec, ctlr |-> ez]
        BY DEF R!Everything
      <3>2. er = [rn \in R!FrameRegs |-> er[rn]] /\ DOMAIN ec = R!SavedCp \cup R!UnsavedCp
        OBVIOUS
      <3> HIDE DEF er, eb, ec, ez, e
      <3>3. e.r = er /\ e.bank = eb /\ e.cp = ec /\ e.ctlr = ez
        BY <3>1
      <3> QED BY <3>1, <3>2, <3>3 DEF IsWant
    <2> HIDE DEF e
    <2>3. Good(vm_id, FALSE, hw', bk, want')
      BY <1>1, <2>1, <2>2, Ran
    <2> QED BY <1>1, <2>1, <2>3 DEF RInv
  <1>4. ASSUME NEW rt \in LoadRegs, R!trap_load(rt) PROVE RInv'
    <2> DEFINE got == R!Contents(vm_id, rt, 0)
    <2>1. /\ idle = FALSE /\ idle' = idle /\ vm_id' = vm_id /\ bk' = bk /\ stop' = stop
          /\ hw' = [hw EXCEPT !.r = R!pop(R!write_reg_to_stack(R!push(hw.r), rt, got))]
          /\ want' = [want EXCEPT ![vm_id].r[rt] = got]
      BY <1>1, <1>4 DEF R!trap_load
    <2>2. rt \in R!FrameRegs
      BY RegistersAssumption DEF R!Assumption
    <2> HIDE DEF got
    <2>3. Good(vm_id, FALSE, hw', bk, want')
      BY <1>1, <2>1, <2>2, Trapped
    <2> QED BY <1>1, <2>1, <2>3 DEF RInv
  <1>5. ASSUME NEW next \in R!VM, R!world_switch(next) PROVE RInv'
    <2>1. s[next].dirty = FALSE
      BY <1>2 DEF Suspended
    <2>2. /\ hw' = R!guest_restore(next, s[next], hw, f)
          /\ bk' = [s EXCEPT ![next].dirty = TRUE]
          /\ vm_id' = next /\ idle' = FALSE /\ stop' = stop /\ want' = want
      BY <1>5, <2>1 DEF R!world_switch
    <2> HIDE DEF s, f
    <2>3. Good(next, FALSE, hw', bk', want)
      BY <1>1, <1>2, <2>2, Switched
    <2> QED BY <1>1, <2>2, <2>3 DEF RInv
  <1>6. CASE R!enter_idle
    <2> DEFINE rs == [rn \in R!FrameRegs |-> R!Contents(R!Hyp, rn, 0)]
               p  == R!Contents(R!Hyp, "elr_hyp", 0)
               q  == R!Contents(R!Hyp, "spsr_hyp", 0)
    <2>1. /\ bk' = s /\ idle' = TRUE /\ vm_id' = vm_id /\ stop' = stop /\ want' = want
          /\ hw' = [hw EXCEPT !.r = rs, !.bank["elr_hyp"] = p, !.bank["spsr_hyp"] = q]
      BY <1>6 DEF R!enter_idle
    <2>2. rs = [rn \in R!FrameRegs |-> rs[rn]]
      OBVIOUS
    <2> HIDE DEF s, rs, p, q
    <2>3. Good(vm_id, TRUE, hw', s, want)
      BY <1>1, <1>2, <2>1, <2>2, Idled
    <2> QED BY <1>1, <2>1, <2>3 DEF RInv
  <1>7. CASE UNCHANGED R!vars
    BY <1>1, <1>7 DEF RInv, R!vars
  <1> QED BY <1>3, <1>4, <1>5, <1>6, <1>7 DEF R!Next

\* The world switch gives each VM its registers back: guest_suspend and
\* guest_restore of guests/guest.c, for every number of VMs and every order.
THEOREM SwitchOwnRegisters == R!Spec => []OwnRegisters
  <1>1. RInv => OwnRegisters
    BY DEF RInv, Good, Loaded, OwnRegisters, R!OwnRegisters
  <1> QED BY <1>1, InitGood, StepGood, PTL DEF R!Spec

\* Traps and stage 2 stay configured for the VM on the CPU, whatever the guests
\* wrote and whichever VM follows which.
THEOREM SwitchTrapsArmed == R!Spec => []TrapsArmed
  <1>1. RInv => TrapsArmed
    <2> SUFFICES ASSUME RInv PROVE TrapsArmed
      OBVIOUS
    <2> DEFINE Rd(n) == R!cp15_read(hw.cp, R!cp15_reg_names[n])
    <2>1. Armed(hw.cp)
      BY DEF RInv, Good
    <2>2. Rd("HSCTLR") = hw.cp[At("HSCTLR")] /\ Rd("HCR") = hw.cp[At("HCR")]
      BY WriteFull DEF HypNames
    <2>3. Rd("VTCR") = hw.cp[At("VTCR")] /\ Rd("HSTR") = hw.cp[At("HSTR")]
      BY WriteFull DEF HypNames
    <2>4. ~idle => R!cp15_read64(hw.cp64, R!VTTBR) = VttbrOf(vm_id)
      <3>1. vm_id \in 0 .. 3 /\ (~idle => hw.cp64[Vt] = VttbrOf(vm_id))
        BY VMs DEF RInv, Good
      <3> QED BY <3>1, ReadVttbr
    <2>5. Rd("HSCTLR") = {1} /\ Rd("HCR") = {0, 4, 13} /\ Rd("VTCR") = {6} /\ Rd("HSTR") = {7, 8}
      BY <2>1, <2>2, <2>3 DEF Armed
    <2> QED BY <2>4, <2>5 DEF TrapsArmed, R!TrapsArmed, VttbrOf
  <1> QED BY <1>1, InitGood, StepGood, PTL DEF R!Spec


-----------------------------------------------------------------------------
(***************************************************************************)
(* Cp15Access: access by name.                                             *)
(***************************************************************************)
\* The coordinates the header gives to a register.
Coord(r) == C!cp15_reg_names[r].at

\* The registers the header names; HTPIDR is the one cp15.c has no case for.
LEMMA FullNames ==
  ASSUME NEW r \in C!Names \ {"HTPIDR"}
  PROVE  /\ C!cp15_reg_names[r] = [hsb |-> 31, lsb |-> 0, at |-> Coord(r)]
         /\ Coord(r) # <<13, 4, 0, 2>>
  <1>1. \E a, b, c, d : C!cp15_reg_names[r] = C!setcr(a, b, c, d)
    BY SMTT(60) DEF C!cp15_reg_names, C!Names
  <1>2. C!cp15_reg_names[r].at # <<13, 4, 0, 2>>
    BY SMTT(60) DEF C!cp15_reg_names, C!Names, C!setcr
  <1>3. C!cp15_reg_names[r] = [hsb |-> 31, lsb |-> 0, at |-> C!cp15_reg_names[r].at]
    BY <1>1 DEF C!setcr
  <1> QED BY <1>2, <1>3 DEF Coord

\* The bits <<hsb, lsb>> of a word.
IsField(f) == f[1] \in 0 .. 31 /\ f[2] \in 0 .. f[1]

\* A single bit is a field.
LEMMA SingleField ==
  ASSUME NEW Set, Set \subseteq 0 .. 31, NEW f \in C!Single(Set)
  PROVE  IsField(f)
  BY DEF C!Single, IsField

\* The registers with named fields.
LEMMA FieldDomain ==
  DOMAIN C!cp15_reg_fields =
    {"CONTEXTIDR", "CSSELR", "FCSEIDR", "HCR", "HDCR", "HSCTLR", "HTCR", "HSTR", "PRRR", "SCR",
     "SCTLR", "TTBCR", "VTCR"}
  BY DEF C!cp15_reg_fields

\* They are among the registers with a case.
LEMMA FieldNames == DOMAIN C!cp15_reg_fields \subseteq C!Names \ {"HTPIDR"}
  BY FieldDomain DEF C!Names, C!cp15_reg_names

\* Every named field lies within its register.
LEMMA NamedFields ==
  ASSUME NEW r \in DOMAIN C!cp15_reg_fields, NEW f \in C!cp15_reg_fields[r]
  PROVE  IsField(f)
  <1>1. CASE r = "CONTEXTIDR"
    BY <1>1 DEF C!cp15_reg_fields, IsField
  <1>2. CASE r = "CSSELR"
    BY <1>2 DEF C!cp15_reg_fields, IsField
  <1>3. CASE r = "FCSEIDR"
    BY <1>3 DEF C!cp15_reg_fields, IsField
  <1>4. CASE r = "HCR"
    <2>1. f = <<11, 10>> \/ f \in C!Single((0 .. 9) \cup (12 .. 27))
      BY <1>4 DEF C!cp15_reg_fields
    <2>2. (0 .. 9) \cup (12 .. 27) \subseteq 0 .. 31
      OBVIOUS
    <2>3. IsField(<<11, 10>>)
      BY DEF IsField
    <2> QED BY <2>1, <2>2, <2>3, SingleField
  <1>5. CASE r = "HDCR"
    <2>1. f = <<4, 0>> \/ f \in C!Single(5 .. 11)
      BY <1>5 DEF C!cp15_reg_fields
    <2>2. 5 .. 11 \subseteq 0 .. 31
      OBVIOUS
    <2>3. IsField(<<4, 0>>)
      BY DEF IsField
    <2> QED BY <2>1, <2>2, <2>3, SingleField
  <1>6. CASE r = "HSCTLR"
    <2>1. f \in C!Single({0, 1, 2, 5, 12, 19, 21, 25, 30})
      BY <1>6 DEF C!cp15_reg_fields
    <2>2. {0, 1, 2, 5, 12, 19, 21, 25, 30} \subseteq 0 .. 31
      OBVIOUS
    <2> QED BY <2>1, <2>2, SingleField
  <1>7. CASE r = "HTCR"
    BY <1>7 DEF C!cp15_reg_fields, IsField
  <1>8. CASE r = "HSTR"
    <2>1. f \in C!Single((0 .. 13) \cup (15 .. 17))
      BY <1>8 DEF C!cp15_reg_fields
    <2>2. (0 .. 13) \cup (15 .. 17) \subseteq 0 .. 31
      OBVIOUS
    <2> QED BY <2>1, <2>2, SingleField
  <1>9. CASE r = "PRRR"
    <2>1. \/ \E n \in 0 .. 7 : f = <<2 * n + 1, 2 * n>>
          \/ f \in C!Single((16 .. 19) \cup (24 .. 31))
      BY <1>9 DEF C!cp15_reg_fields
    <2>2. (16 .. 19) \cup (24 .. 31) \subseteq 0 .. 31
      OBVIOUS
    <2>3. \A n \in 0 .. 7 : IsField(<<2 * n + 1, 2 * n>>)
      BY DEF IsField
    <2> QED BY <2>1, <2>2, <2>3, SingleField
  <1>10. CASE r = "SCR"
    <2>1. f \in C!Single(0 .. 9)
      BY <1>10 DEF C!cp15_reg_fields
    <2>2. 0 .. 9 \subseteq 0 .. 31
      OBVIOUS
    <2> QED BY <2>1, <2>2, SingleField
  <1>11. CASE r = "SCTLR"
    <2> DEFINE Set == {0, 1, 2, 5, 7, 10, 11, 12, 13, 14, 17, 19, 20, 21, 22, 24, 25, 27, 28, 29, 30}
    <2>1. f \in C!Single(Set)
      BY <1>11 DEF C!cp15_reg_fields
    <2>2. Set \subseteq 0 .. 31
      OBVIOUS
    <2> HIDE DEF Set
    <2> QED BY <2>1, <2>2, SingleField
  <1>12. CASE r = "TTBCR"
    <2> DEFINE T == {<<2, 0>>, <<9, 8>>, <<11, 10>>, <<13, 12>>, <<18, 16>>, <<25, 24>>,
                     <<27, 26>>, <<29, 28>>}
    <2>1. f \in T \/ f \in C!Single({4, 5, 7, 22, 23, 31})
      BY <1>12 DEF C!cp15_reg_fields
    <2>2. {4, 5, 7, 22, 23, 31} \subseteq 0 .. 31
      OBVIOUS
    <2>3. \A g \in T : IsField(g)
      BY DEF IsField
    <2> HIDE DEF T
    <2> QED BY <2>1, <2>2, <2>3, SingleField
  <1>13. CASE r = "VTCR"
    BY <1>13 DEF C!cp15_reg_fields, IsField
  <1> QED
    BY FieldDomain, <1>1, <1>2, <1>3, <1>4, <1>5, <1>6, <1>7, <1>8, <1>9, <1>10, <1>11, <1>12, <1>13


\* A name cp15.c has a case for: bits of a register.
IsName(n) ==
  /\ n = [hsb |-> n.hsb, lsb |-> n.lsb, at |-> n.at]
  /\ n.hsb \in 0 .. 31 /\ n.lsb \in 0 .. n.hsb
  /\ n.at # <<13, 4, 0, 2>>

\* setfd on the name of a register.
LEMMA SetfdC ==
  ASSUME NEW a, NEW h0, NEW l0, NEW h, NEW l
  PROVE  C!setfd([hsb |-> h0, lsb |-> l0, at |-> a], h, l) = [hsb |-> h, lsb |-> l, at |-> a]
  <1> DEFINE x == [hsb |-> h0, lsb |-> l0, at |-> a]
             y == [x EXCEPT !.hsb = h]
             z == [y EXCEPT !.lsb = l]
  <1>1. y = [hsb |-> h, lsb |-> l0, at |-> a]
    OBVIOUS
  <1>2. C!setfd(x, h, l) = z
    BY DEF C!setfd
  <1> HIDE DEF y
  <1>3. z = [hsb |-> h, lsb |-> l, at |-> a]
    BY <1>1
  <1> QED BY <1>2, <1>3

\* So are all names.
LEMMA AllAreNames == ASSUME NEW n \in C!AllNames PROVE IsName(n)
  <1>1. ASSUME NEW r \in C!Names \ {"HTPIDR"}, n = C!cp15_reg_names[r] PROVE IsName(n)
    <2>1. n = [hsb |-> 31, lsb |-> 0, at |-> Coord(r)] /\ Coord(r) # <<13, 4, 0, 2>>
      BY <1>1, FullNames
    <2> HIDE DEF Coord
    <2>2. n.hsb = 31 /\ n.lsb = 0 /\ n.at = Coord(r)
      BY <2>1
    <2> QED BY <2>1, <2>2 DEF IsName
  <1>2. ASSUME NEW r \in DOMAIN C!cp15_reg_fields, NEW f \in C!cp15_reg_fields[r],
               n = C!setfd(C!cp15_reg_names[r], f[1], f[2])
        PROVE  IsName(n)
    <2> DEFINE h == f[1]
               l == f[2]
    <2>1. /\ C!cp15_reg_names[r] = [hsb |-> 31, lsb |-> 0, at |-> Coord(r)]
          /\ Coord(r) # <<13, 4, 0, 2>>
      BY FieldNames, FullNames
    <2>2. h \in 0 .. 31 /\ l \in 0 .. h
      BY NamedFields DEF IsField
    <2>3. n = C!setfd(C!cp15_reg_names[r], h, l)
      BY <1>2
    <2> HIDE DEF h, l
    <2>4. n = [hsb |-> h, lsb |-> l, at |-> Coord(r)]
      BY <2>1, <2>3, SetfdC
    <2>5. n.hsb = h /\ n.lsb = l /\ n.at = Coord(r)
      BY <2>4
    <2> QED BY <2>1, <2>2, <2>4, <2>5 DEF IsName
  <1>3. \/ \E r \in C!Names \ {"HTPIDR"} : n = C!cp15_reg_names[r]
        \/ \E r \in DOMAIN C!cp15_reg_fields :
             \E f \in C!cp15_reg_fields[r] : n = C!setfd(C!cp15_reg_names[r], f[1], f[2])
    BY DEF C!AllNames
  <1> QED BY <1>1, <1>2, <1>3

\* The register the instruction for a register with coordinates a accesses.
Reach(a) ==
  IF a = <<2, 0, 0, 2>> THEN <<2, 0, 0, 0>>
  ELSE IF a = <<2, 0, 0, 0>> THEN <<2, 0, 0, 1>>
  ELSE IF a = <<2, 0, 0, 1>> THEN <<2, 0, 0, 2>> ELSE a

\* The switch permutes the registers, so no two names meet.
LEMMA ReachInjective == ASSUME NEW a, NEW b, Reach(a) = Reach(b) PROVE a = b
  BY DEF Reach

\* It stays within the registers named.
LEMMA ReachCloses == ASSUME NEW a \in C!Coordinates PROVE Reach(a) \in C!Coordinates
  <1>1. ASSUME NEW r \in C!Names \ {"HTPIDR"} PROVE Coord(r) \in C!Coordinates
    <2>1. C!cp15_reg_names[r] \in C!AllNames
      BY DEF C!AllNames
    <2> QED BY <2>1 DEF C!Coordinates, Coord
  <1>2. /\ "TTBR0" \in C!Names \ {"HTPIDR"} /\ "TTBR1" \in C!Names \ {"HTPIDR"}
        /\ "TTBCR" \in C!Names \ {"HTPIDR"}
    BY DEF C!Names, C!cp15_reg_names
  <1>3. Coord("TTBR0") = <<2, 0, 0, 0>> /\ Coord("TTBR1") = <<2, 0, 0, 1>>
        /\ Coord("TTBCR") = <<2, 0, 0, 2>>
    BY DEF Coord, C!cp15_reg_names, C!setcr
  <1> QED BY <1>1, <1>2, <1>3 DEF Reach

\* What the accesses make of a name.
LEMMA NameParts ==
  ASSUME NEW n, IsName(n)
  PROVE  /\ C!full(n) = [hsb |-> 31, lsb |-> 0, at |-> n.at]
         /\ ~C!no_case(n)
         /\ C!full(C!full(n)) = C!full(n)
         /\ ~C!no_case(C!full(n))
         /\ n = C!full(n) <=> n.hsb = 31 /\ n.lsb = 0
         /\ C!CP15_PARSE(C!full(n)) = Reach(n.at)
  <1> DEFINE h == n.hsb
             l == n.lsb
             a == n.at
             m == C!full(n)
  <1>1. n = [hsb |-> h, lsb |-> l, at |-> a] /\ a # <<13, 4, 0, 2>>
    BY DEF IsName
  <1>2. m = [hsb |-> 31, lsb |-> 0, at |-> a]
    <2> HIDE DEF h, l, a
    <2> QED BY <1>1, SetfdC DEF C!full
  <1>3. C!full(m) = m
    <2> HIDE DEF h, l, a, m
    <2> QED BY <1>2, SetfdC DEF C!full
  <1>4. C!cp15_reg_names["HTPIDR"] = [hsb |-> 31, lsb |-> 0, at |-> <<13, 4, 0, 2>>]
    BY DEF C!cp15_reg_names, C!setcr
  <1>5. C!cp15_reg_names["TTBCR"] = [hsb |-> 31, lsb |-> 0, at |-> <<2, 0, 0, 2>>]
    BY DEF C!cp15_reg_names, C!setcr
  <1>6. C!cp15_reg_names["TTBR0"] = [hsb |-> 31, lsb |-> 0, at |-> <<2, 0, 0, 0>>]
    BY DEF C!cp15_reg_names, C!setcr
  <1>7. C!cp15_reg_names["TTBR1"] = [hsb |-> 31, lsb |-> 0, at |-> <<2, 0, 0, 1>>]
    BY DEF C!cp15_reg_names, C!setcr
  <1> HIDE DEF h, l, a, m
  <1>8. ~C!no_case(n) /\ ~C!no_case(m)
    <2>1. m # C!cp15_reg_names["HTPIDR"]
      BY <1>1, <1>2, <1>4
    <2> QED BY <1>3, <2>1 DEF C!no_case, m
  <1>9. n = m <=> h = 31 /\ l = 0
    BY <1>1, <1>2
  <1>10. C!CP15_PARSE(m) = Reach(a)
    <2> DEFINE t1 == C!cp15_reg_names["TTBCR"]
               t2 == C!cp15_reg_names["TTBR0"]
               t3 == C!cp15_reg_names["TTBR1"]
    <2>1. (m = t1 <=> a = <<2, 0, 0, 2>>)
      BY <1>2, <1>5
    <2>2. (m = t2 <=> a = <<2, 0, 0, 0>>)
      BY <1>2, <1>6
    <2>3. (m = t3 <=> a = <<2, 0, 0, 1>>)
      BY <1>2, <1>7
    <2>4. m.at = a
      BY <1>2
    <2>5. C!CP15_PARSE(m) = CASE m = t1 -> <<2, 0, 0, 0>>
                              [] m = t2 -> <<2, 0, 0, 1>>
                              [] m = t3 -> <<2, 0, 0, 2>>
                              [] OTHER -> m.at
      BY DEF C!CP15_PARSE
    <2> HIDE DEF t1, t2, t3
    <2>6. CASE m = t1
      <3>1. m # t2 /\ m # t3
        BY <2>1, <2>2, <2>3, <2>6
      <3> QED BY <2>1, <2>5, <2>6, <3>1 DEF Reach
    <2>7. CASE m = t2
      <3>1. m # t1 /\ m # t3
        BY <2>1, <2>2, <2>3, <2>7
      <3> QED BY <2>2, <2>5, <2>7, <3>1 DEF Reach
    <2>8. CASE m = t3
      <3>1. m # t1 /\ m # t2
        BY <2>1, <2>2, <2>3, <2>8
      <3> QED BY <2>3, <2>5, <2>8, <3>1 DEF Reach
    <2>9. CASE m # t1 /\ m # t2 /\ m # t3
      BY <2>1, <2>2, <2>3, <2>4, <2>5, <2>9 DEF Reach
    <2> QED BY <2>6, <2>7, <2>8, <2>9
  <1> QED BY <1>2, <1>3, <1>8, <1>9, <1>10 DEF h, l, a, m


\* What a name reads.
LEMMA ReadName ==
  ASSUME NEW c, NEW n, IsName(n)
  PROVE  C!cp15_read(c, n) = IF n.hsb = 31 /\ n.lsb = 0 THEN c[Reach(n.at)]
                             ELSE C!get_field(c[Reach(n.at)], n.hsb, n.lsb)
  BY NameParts DEF C!cp15_read

\* What the whole register of a name reads.
LEMMA ReadWhole ==
  ASSUME NEW c, NEW n, IsName(n)
  PROVE  C!cp15_read(c, C!full(n)) = c[Reach(n.at)]
  BY NameParts DEF C!cp15_read

\* What a write by name leaves.
LEMMA WriteName ==
  ASSUME NEW c, NEW n, IsName(n), NEW v
  PROVE  C!cp15_write(c, n, v) =
           Put(c, Reach(n.at), IF n.hsb = 31 /\ n.lsb = 0 THEN v
                               ELSE C!set_field(c[Reach(n.at)], n.hsb, n.lsb, v))
  <1> DEFINE p == C!CP15_PARSE(C!full(n))
             w == C!cp15_read(c, C!full(n))
  <1>1. p = Reach(n.at) /\ w = c[Reach(n.at)] /\ ~C!no_case(n)
    BY NameParts, ReadWhole
  <1>2. n = C!full(n) <=> n.hsb = 31 /\ n.lsb = 0
    BY NameParts
  <1>3. C!cp15_write(c, n, v) = IF C!no_case(n) THEN c
                                ELSE IF n = C!full(n) THEN [c EXCEPT ![p] = v]
                                ELSE [c EXCEPT ![p] = C!set_field(w, n.hsb, n.lsb, v)]
    BY DEF C!cp15_write
  <1> HIDE DEF p, w
  <1>4. CASE n = C!full(n)
    <2>1. C!cp15_write(c, n, v) = [c EXCEPT ![p] = v]
      BY <1>1, <1>3, <1>4
    <2> QED BY <1>1, <1>2, <1>4, <2>1 DEF Put
  <1>5. CASE n # C!full(n)
    <2>1. C!cp15_write(c, n, v) = [c EXCEPT ![p] = C!set_field(w, n.hsb, n.lsb, v)]
      BY <1>1, <1>3, <1>5
    <2> QED BY <1>1, <1>2, <1>5, <2>1 DEF Put
  <1> QED BY <1>4, <1>5

\* Bits h to l of a word, what of f fits there, and two fields apart.
Within(h, l) == h \in 0 .. 31 /\ l \in 0 .. h
Cut(f, h, l) == f \cap (0 .. h - l)
Apart(h, l, h2, l2) == ~(l <= h2 /\ l2 <= h)

\* A field reads back what was written to it, cut to its width.
LEMMA FieldBack ==
  ASSUME NEW w, NEW h, NEW l, Within(h, l), NEW f, f \subseteq 0 .. 30
  PROVE  C!get_field(C!set_field(w, h, l, f), h, l) = Cut(f, h, l)
  <1> SUFFICES ASSUME h \in 0 .. 31, l \in 0 .. h
               PROVE  C!get_field(C!set_field(w, h, l, f), h, l) = f \cap (0 .. h - l)
    BY DEF Within, Cut
  <1> DEFINE s == C!set_field(w, h, l, f)
             g == C!get_field(s, h, l)
  <1>1. \A i \in 0 .. 31 : l <= i /\ i <= h => (i \in s <=> i - l \in f)
    BY DEF C!set_field, C!imask, C!mask, C!shl, C!Bit
  <1>2. \A b : b \in g <=> b \in 0 .. 31 /\ b + l \in s /\ b + l \in l .. 31 /\ b + l \in 0 .. h
    BY DEF C!get_field, C!mask, C!shr, C!Bit
  <1> HIDE DEF s, g
  <1>3. \A b \in 0 .. 31 : b \in g <=> b \in f /\ b <= h - l
    <2> TAKE b \in 0 .. 31
    <2>1. CASE b <= h - l
      <3>1. b + l \in 0 .. 31 /\ l <= b + l /\ b + l <= h /\ (b + l) - l = b
        BY <2>1
      <3> QED BY <1>1, <1>2, <2>1, <3>1
    <2>2. CASE ~(b <= h - l)
      BY <1>2, <2>2
    <2> QED BY <2>1, <2>2
  <1>4. g \subseteq 0 .. 31
    BY <1>2
  <1>5. \A b : b \in f \cap (0 .. h - l) <=> b \in 0 .. 31 /\ b \in f /\ b <= h - l
    OBVIOUS
  <1>6. g = f \cap (0 .. h - l)
    BY <1>3, <1>4, <1>5
  <1> QED BY <1>6 DEF g, s

\* A field with no bit in common reads as before.
LEMMA FieldKept ==
  ASSUME NEW w, NEW h, NEW l, Within(h, l), NEW f, NEW h2, NEW l2, Within(h2, l2),
         Apart(h, l, h2, l2)
  PROVE  C!get_field(C!set_field(w, h, l, f), h2, l2) = C!get_field(w, h2, l2)
  <1> USE DEF Within, Apart
  <1> DEFINE s == C!set_field(w, h, l, f)
  <1>1. \A i \in 0 .. 31 : ~(l <= i /\ i <= h) => (i \in s <=> i \in w)
    BY DEF C!set_field, C!imask, C!mask, C!shl, C!Bit
  <1> HIDE DEF s
  <1>2. \A b \in 0 .. 31 : b + l2 \in s \cap C!mask(h2, l2) <=> b + l2 \in w \cap C!mask(h2, l2)
    <2> TAKE b \in 0 .. 31
    <2>1. CASE b + l2 \in C!mask(h2, l2)
      <3>1. b + l2 \in 0 .. 31 /\ ~(l <= b + l2 /\ b + l2 <= h)
        BY <2>1 DEF C!mask
      <3> QED BY <1>1, <3>1
    <2> QED BY <2>1
  <1>3. C!get_field(s, h2, l2) = C!get_field(w, h2, l2)
    BY <1>2 DEF C!get_field, C!shr, C!Bit
  <1> QED BY <1>3 DEF s


\* One write by name, read back by every name.
LEMMA WrittenByName ==
  ASSUME NEW c, c = [a \in C!Coordinates |-> c[a]], NEW n \in C!AllNames, NEW v, v \subseteq 0 .. 30
  PROVE  LET d == C!cp15_write(c, n, v)
         IN  /\ C!cp15_read(d, n) = v \cap (0 .. n.hsb - n.lsb)
             /\ \A m \in C!AllNames : ~C!Overlap(n, m) => C!cp15_read(d, m) = C!cp15_read(c, m)
  <1> DEFINE d == C!cp15_write(c, n, v)
             h == n.hsb
             l == n.lsb
             p == Reach(n.at)
             x == IF h = 31 /\ l = 0 THEN v ELSE C!set_field(c[p], h, l, v)
  <1>1. IsName(n) /\ h \in 0 .. 31 /\ l \in 0 .. h
    BY AllAreNames DEF IsName
  <1>2. p \in C!Coordinates
    BY ReachCloses DEF C!Coordinates
  <1>3. d = Put(c, p, x)
    BY <1>1, WriteName
  <1> HIDE DEF x
  <1>4. d[p] = x /\ \A q \in C!Coordinates : q # p => d[q] = c[q]
    <2> HIDE DEF p, d
    <2>1. d[p] = x
      BY <1>2, <1>3 DEF Put
    <2>2. \A q \in C!Coordinates : q # p => d[q] = c[q]
      BY <1>2, <1>3 DEF Put
    <2> QED BY <2>1, <2>2
  <1>5. C!cp15_read(d, n) = v \cap (0 .. h - l)
    <2>1. CASE h = 31 /\ l = 0
      <3>0. C!cp15_read(d, n) = d[p]
        <4>1. C!cp15_read(d, n) = IF h = 31 /\ l = 0 THEN d[p] ELSE C!get_field(d[p], h, l)
          BY <1>1, ReadName
        <4> HIDE DEF d, p, h, l
        <4> QED BY <2>1, <4>1
      <3>1. C!cp15_read(d, n) = x /\ x = v
        BY <1>4, <2>1, <3>0 DEF x
      <3>2. v \cap (0 .. h - l) = v
        BY <2>1
      <3> QED BY <3>1, <3>2
    <2>2. CASE ~(h = 31 /\ l = 0)
      <3>1. C!cp15_read(d, n) = C!get_field(d[p], h, l)
        BY <1>1, <2>2, ReadName
      <3>2. x = C!set_field(c[p], h, l, v)
        BY <2>2 DEF x
      <3> DEFINE w == c[p]
      <3> HIDE DEF d, p, h, l, w
      <3>3. C!get_field(C!set_field(w, h, l, v), h, l) = v \cap (0 .. h - l)
        <4>1. Within(h, l)
          BY <1>1 DEF Within
        <4>2. C!get_field(C!set_field(w, h, l, v), h, l) = Cut(v, h, l)
          BY <4>1, FieldBack
        <4> QED BY <4>2 DEF Cut
      <3> QED BY <1>4, <3>1, <3>2, <3>3 DEF w
    <2> QED BY <2>1, <2>2
  <1>6. ASSUME NEW m \in C!AllNames, ~C!Overlap(n, m) PROVE C!cp15_read(d, m) = C!cp15_read(c, m)
    <2> DEFINE h2 == m.hsb
               l2 == m.lsb
               q  == Reach(m.at)
    <2>1. IsName(m) /\ h2 \in 0 .. 31 /\ l2 \in 0 .. h2
      BY AllAreNames DEF IsName
    <2>2. /\ C!cp15_read(d, m) = IF h2 = 31 /\ l2 = 0 THEN d[q] ELSE C!get_field(d[q], h2, l2)
          /\ C!cp15_read(c, m) = IF h2 = 31 /\ l2 = 0 THEN c[q] ELSE C!get_field(c[q], h2, l2)
      BY <2>1, ReadName
    <2>3. CASE n.at # m.at
      <3>1. q # p
        BY <2>3, ReachInjective
      <3>3. q \in C!Coordinates
        BY ReachCloses DEF C!Coordinates
      <3> HIDE DEF d, p, q, h2, l2
      <3>2. d[q] = c[q]
        BY <1>4, <3>1, <3>3
      <3> QED BY <2>2, <3>2
    <2>4. CASE n.at = m.at
      <3>1. ~(l <= h2 /\ l2 <= h) /\ q = p
        BY <1>6, <2>4 DEF C!Overlap
      <3> HIDE DEF d, p, q, h, l, h2, l2
      <3>2. ~(h = 31 /\ l = 0) /\ ~(h2 = 31 /\ l2 = 0)
        BY <1>1, <2>1, <3>1
      <3> DEFINE w == c[p]
      <3>3. d[q] = C!set_field(w, h, l, v)
        BY <1>4, <3>1, <3>2 DEF x
      <3> HIDE DEF w
      <3>4. C!get_field(C!set_field(w, h, l, v), h2, l2) = C!get_field(w, h2, l2)
        <4>1. Within(h, l) /\ Within(h2, l2) /\ Apart(h, l, h2, l2)
          BY <1>1, <2>1, <3>1 DEF Within, Apart
        <4> QED BY <4>1, FieldKept
      <3>5. c[q] = w
        BY <3>1 DEF w
      <3> QED BY <2>2, <3>2, <3>3, <3>4, <3>5
    <2> QED BY <2>3, <2>4
  <1> QED BY <1>5, <1>6

\* The invariant of Cp15Access.
CInv ==
  /\ before = [a \in C!Coordinates |-> before[a]]
  /\ name # C!None => /\ name \in C!AllNames /\ value \subseteq 0 .. 30
                      /\ after = C!cp15_write(before, name, value)

\* Access by name reads back what was written and disturbs no other name, for
\* every name of cp15.h and every value: cp15_read and cp15_write of vmm/cp15.c.
THEOREM Cp15NamedAccess == C!Spec => []NamedAccess
  <1>1. C!Init => CInv
    <2> SUFFICES ASSUME C!Init PROVE CInv
      OBVIOUS
    <2>1. PICK w : before = [a \in C!Coordinates |-> w]
      BY DEF C!Init
    <2>2. before = [a \in C!Coordinates |-> before[a]]
      BY <2>1
    <2>3. name = C!None
      BY DEF C!Init
    <2> QED BY <2>2, <2>3 DEF CInv
  <1>2. CInv /\ [C!Next]_(C!vars) => CInv'
    <2> SUFFICES ASSUME CInv, [C!Next]_(C!vars) PROVE CInv'
      OBVIOUS
    <2>1. ASSUME NEW n \in C!AllNames, NEW v \in Values, C!Write(n, C!Bits(v)) PROVE CInv'
      <3>1. C!Bits(v) \subseteq 0 .. 30
        BY DEF C!Bits
      <3> QED BY <2>1, <3>1 DEF C!Write, CInv
    <2>2. CASE C!Read
      BY <2>2 DEF C!Read, C!vars, CInv
    <2>3. CASE UNCHANGED C!vars
      BY <2>3 DEF C!vars, CInv
    <2> QED BY <2>1, <2>2, <2>3 DEF C!Next
  <1>3. CInv => NamedAccess
    BY WrittenByName DEF CInv, NamedAccess, C!NamedAccess
  <1> QED BY <1>1, <1>2, <1>3, PTL DEF C!Spec
=============================================================================

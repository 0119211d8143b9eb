------------------------ MODULE DeviceAccess_proofs ------------------------
(***************************************************************************)
(* Proofs about the accesses of guests to emulated devices, for every set of *)
(* instructions, addresses and register contents: what the shared physical  *)
(* distributor forwards follows the guests' own enable flags, and a         *)
(* completed access had the effect of the guest's instruction and no other.  *)
(* All of it as long as no guest has stored a bit past virq[] (wild).        *)
(***************************************************************************)
EXTENDS DeviceAccess, TLAPS

(***************************************************************************)
(* The distributors.                                                       *)
(***************************************************************************)
\* A physical interrupt belongs to one virtual interrupt of one VM.
LEMMA PidUnique ==
  ASSUME NEW v \in VM, NEW w \in VM, NEW d, NEW e,
         virq_pid(v, d) = virq_pid(w, e), virq_pid(v, d) # -1
  PROVE  v = w /\ d = e
  <1>1. v \in 0 .. 3 /\ w \in 0 .. 3
    BY NumVMAssumption DEF VM
  <1>2. d \in {44, 36, 37} /\ e \in {44, 36, 37}
    BY DEF virq_pid
  <1>3. /\ virq_pid(v, d) = IF d = 44 THEN 40 + v ELSE IF d = 36 THEN 44 + v ELSE 48 + v
        /\ virq_pid(w, e) = IF e = 44 THEN 40 + w ELSE IF e = 36 THEN 44 + w ELSE 48 + w
    BY <1>2 DEF virq_pid
  <1>4. CASE d = e
    <2>1. \/ 40 + v = 40 + w \/ 44 + v = 44 + w \/ 48 + v = 48 + w
      BY <1>2, <1>3, <1>4
    <2>2. v = w
      BY <1>1, <2>1
    <2> QED BY <2>2, <1>4
  <1>5. CASE d # e
    <2> DEFINE P(x, n) == IF x = 44 THEN 40 + n ELSE IF x = 36 THEN 44 + n ELSE 48 + n
    <2>1. \A n \in 0 .. 3 : /\ P(44, n) \in 40 .. 43
                           /\ P(36, n) \in 44 .. 47
                           /\ P(37, n) \in 48 .. 51
      OBVIOUS
    <2> HIDE DEF P
    <2>2. P(d, v) # P(e, w)
      <3>1. CASE d = 44
        BY <1>1, <1>2, <1>5, <2>1, <3>1
      <3>2. CASE d = 36
        BY <1>1, <1>2, <1>5, <2>1, <3>2
      <3>3. CASE d = 37
        BY <1>1, <1>2, <1>5, <2>1, <3>3
      <3> QED BY <1>2, <3>1, <3>2, <3>3
    <2> QED BY <2>2, <1>3 DEF P
  <1> QED BY <1>4, <1>5

\* Guests own interrupts of the second enable word only.
LEMMA PidRange ==
  ASSUME NEW v \in VM, NEW d, virq_pid(v, d) # -1
  PROVE  virq_pid(v, d) \in 40 .. 51 /\ d \in Vids
  <1>1. v \in 0 .. 3
    BY NumVMAssumption DEF VM
  <1> QED BY <1>1 DEF virq_pid, Vids

\* What a store to an enable register does to the bits: all of it or nothing,
\* according to the compiled shift.
LEMMA WrittenPids ==
  ASSUME NEW v \in VM, NEW D, shift \in {"zero", "wrap"}
  PROVE  UNION {written(i) : i \in pids(v, D)} = IF shift = "wrap" THEN pids(v, D) ELSE {}
  <1>1. ASSUME NEW i \in pids(v, D) PROVE written(i) = IF shift = "wrap" THEN {i} ELSE {}
    <2>1. i \in 40 .. 51
      BY PidRange DEF pids
    <2>2. ~(i <= 31)
      BY <2>1
    <2> QED BY <2>2 DEF written
  <1>2. CASE shift = "wrap"
    BY <1>1, <1>2
  <1>3. CASE shift # "wrap"
    BY <1>1, <1>3
  <1> QED BY <1>2, <1>3

\* What the distributors have in common with their guests' flags.
ForwardInv ==
  /\ shift \in {"zero", "wrap"}
  /\ DOMAIN virq_en = VM
  /\ shift = "zero" => enabled = {}
  /\ shift = "wrap" => enabled = UNION {pids(v, virq_en[v]) : v \in VM}

Enables(v, D) ==
  /\ virq_en' = [virq_en EXCEPT ![v] = @ \cup D]
  /\ enabled' = enabled \cup (IF shift = "wrap" THEN pids(v, D) ELSE {})
  /\ shift' = shift

Disables(v, D) ==
  /\ virq_en' = [virq_en EXCEPT ![v] = @ \ D]
  /\ enabled' = enabled \ (IF shift = "wrap" THEN pids(v, D) ELSE {})
  /\ shift' = shift

DistStep ==
  \/ UNCHANGED <<virq_en, enabled, shift>>
  \/ \E v \in VM : \E D : Enables(v, D) \/ Disables(v, D)

\* The stores that change enable bits of the table.
LEMMA EnableSteps ==
  ASSUME shift \in {"zero", "wrap"}, NEW v \in VM, NEW D, ~wild'
  PROVE  /\ write_isenabler(v, D) => Enables(v, D) /\ en' = en
         /\ write_icenabler(v, D) => Disables(v, D) /\ en' = en
  <1>1. ~Beyond
    BY DEF Beyond
  <1> QED BY <1>1, WrittenPids DEF write_isenabler, write_icenabler, dev_gic2_dist_enable_irq,
     dev_gic2_dist_disable_irq, Enables, Disables

\* A damaged table stays one.
LEMMA WildWrites ==
  ASSUME wild
  PROVE  /\ \A v, D : write_isenabler(v, D) \/ write_icenabler(v, D) => wild'
         /\ Beyond => wild'
  BY DEF write_isenabler, write_icenabler, Beyond

\* ... whatever the access.
LEMMA WildStays == wild /\ [Next]_vars => wild'
  BY WildWrites DEF Next, Write, write_ctlr, write_itargetsr, write_sgir, ignored, access_error,
     Damaged, Exited, vars

\* A step of the distributors.
LEMMA DistSteps ==
  ASSUME shift \in {"zero", "wrap"}, [Next]_vars, ~wild'
  PROVE  DistStep
  <1>1. ASSUME NEW v \in VM, Write(v) PROVE DistStep
    BY <1>1, EnableSteps DEF Write, write_ctlr, DistStep
  <1>2. CASE ~\E v \in VM : Write(v)
    BY <1>2 DEF Next, write_itargetsr, write_sgir, ignored, access_error, Damaged, Beyond, Exited,
       vars, DistStep
  <1> QED BY <1>1, <1>2

\* What the flags of the VMs say should be forwarded.
Wanted(i) == \E v \in VM : \E d \in virq_en[v] : virq_pid(v, d) = i /\ i # -1

\* ForwardingExact, interrupt by interrupt.
LEMMA ExactEach ==
  (enabled = UNION {pids(v, virq_en[v]) : v \in VM}) <=> (\A i : i \in enabled <=> Wanted(i))
  BY DEF pids, Wanted

\* ... and in the next state.
LEMMA ExactEachNext ==
  (enabled' = UNION {pids(v, virq_en'[v]) : v \in VM}) <=> (\A i : i \in enabled' <=> Wanted(i)')
  BY DEF pids, Wanted

\* A step of the distributors keeps the flags and the forwarding together, and
\* changes the forwarding of an interrupt only with the flag of its VM.
LEMMA ForwardStep ==
  ASSUME ForwardInv, DistStep
  PROVE  /\ ForwardInv'
         /\ \A i \in (enabled \ enabled') \cup (enabled' \ enabled) :
              \E v \in VM, d \in Vids :
                /\ virq_pid(v, d) = i
                /\ (d \in virq_en[v]) # (d \in virq_en'[v])
  <1>0. shift = "wrap" => \A i : i \in enabled <=> Wanted(i)
    BY ExactEach DEF ForwardInv
  <1>1. CASE UNCHANGED <<virq_en, enabled, shift>>
    BY <1>1 DEF ForwardInv
  <1>2. ASSUME NEW v \in VM, NEW D, Enables(v, D) \/ Disables(v, D), shift = "zero"
        PROVE  ForwardInv' /\ enabled' = enabled
    BY <1>2 DEF ForwardInv, Enables, Disables
  <1>3. ASSUME NEW v \in VM, NEW D, Enables(v, D), shift = "wrap"
        PROVE  /\ \A i : i \in enabled' <=> Wanted(i)'
               /\ \A i \in (enabled \ enabled') \cup (enabled' \ enabled) :
                    \E w \in VM, d \in Vids :
                      virq_pid(w, d) = i /\ (d \in virq_en[w]) # (d \in virq_en'[w])
    <2>1. /\ virq_en'[v] = virq_en[v] \cup D
          /\ \A w \in VM : w # v => virq_en'[w] = virq_en[w]
          /\ enabled' = enabled \cup pids(v, D)
      BY <1>3 DEF Enables, ForwardInv
    <2>2. \A i : i \in pids(v, D) <=> \E d \in D : virq_pid(v, d) = i /\ i # -1
      BY DEF pids
    <2>3. ASSUME NEW i PROVE i \in enabled' <=> Wanted(i)'
      <3>1. i \in enabled <=> Wanted(i)
        BY <1>0, <1>3
      <3>2. ASSUME Wanted(i)' PROVE Wanted(i) \/ i \in pids(v, D)
        <4>1. PICK w, d : w \in VM /\ d \in virq_en'[w] /\ virq_pid(w, d) = i /\ i # -1
          BY <3>2 DEF Wanted
        <4>2. d \in virq_en[w] \/ (w = v /\ d \in D)
          BY <4>1, <2>1
        <4> QED BY <4>1, <4>2, <2>2 DEF Wanted
      <3>3. ASSUME Wanted(i) \/ i \in pids(v, D) PROVE Wanted(i)'
        <4>1. PICK w, d : w \in VM /\ virq_pid(w, d) = i /\ i # -1 /\ (d \in virq_en[w] \/ (w = v /\ d \in D))
          BY <3>3, <2>2 DEF Wanted
        <4>2. d \in virq_en'[w]
          BY <4>1, <2>1
        <4> QED BY <4>1, <4>2 DEF Wanted
      <3> QED BY <3>1, <3>2, <3>3, <2>1
    <2>4. ASSUME NEW i \in (enabled \ enabled') \cup (enabled' \ enabled)
          PROVE  \E w \in VM, d \in Vids :
                   virq_pid(w, d) = i /\ (d \in virq_en[w]) # (d \in virq_en'[w])
      <3>1. i \notin enabled /\ i \in pids(v, D)
        BY <2>1
      <3>2. PICK d \in D : virq_pid(v, d) = i /\ i # -1
        BY <3>1, <2>2
      <3>3. d \in Vids
        BY <3>2, PidRange
      <3>4. d \notin virq_en[v]
        BY <3>1, <3>2, <1>0, <1>3 DEF Wanted
      <3> QED BY <3>2, <3>3, <3>4, <2>1
    <2> QED BY <2>3, <2>4
  <1>4. ASSUME NEW v \in VM, NEW D, Disables(v, D), shift = "wrap"
        PROVE  /\ \A i : i \in enabled' <=> Wanted(i)'
               /\ \A i \in (enabled \ enabled') \cup (enabled' \ enabled) :
                    \E w \in VM, d \in Vids :
                      virq_pid(w, d) = i /\ (d \in virq_en[w]) # (d \in virq_en'[w])
    <2>1. /\ virq_en'[v] = virq_en[v] \ D
          /\ \A w \in VM : w # v => virq_en'[w] = virq_en[w]
          /\ enabled' = enabled \ pids(v, D)
      BY <1>4 DEF Disables, ForwardInv
    <2>2. \A i : i \in pids(v, D) <=> \E d \in D : virq_pid(v, d) = i /\ i # -1
      BY DEF pids
    <2>3. ASSUME NEW i PROVE i \in enabled' <=> Wanted(i)'
      <3>1. i \in enabled <=> Wanted(i)
        BY <1>0, <1>4
      <3>2. ASSUME Wanted(i)' PROVE Wanted(i) /\ i \notin pids(v, D)
        <4>1. PICK w, d : w \in VM /\ d \in virq_en'[w] /\ virq_pid(w, d) = i /\ i # -1
          BY <3>2 DEF Wanted
        <4>2. d \in virq_en[w] /\ ~(w = v /\ d \in D)
          BY <4>1, <2>1
        <4>3. i \notin pids(v, D)
          BY <4>1, <4>2, <2>2, PidUnique
        <4> QED BY <4>1, <4>2, <4>3 DEF Wanted
      <3>3. ASSUME Wanted(i), i \notin pids(v, D) PROVE Wanted(i)'
        <4>1. PICK w, d : w \in VM /\ d \in virq_en[w] /\ virq_pid(w, d) = i /\ i # -1
          BY <3>3 DEF Wanted
        <4>2. d \in virq_en'[w]
          BY <4>1, <3>3, <2>1, <2>2
        <4> QED BY <4>1, <4>2 DEF Wanted
      <3> QED BY <3>1, <3>2, <3>3, <2>1
    <2>4. ASSUME NEW i \in (enabled \ enabled') \cup (enabled' \ enabled)
          PROVE  \E w \in VM, d \in Vids :
                   virq_pid(w, d) = i /\ (d \in virq_en[w]) # (d \in virq_en'[w])
      <3>1. i \in enabled /\ i \in pids(v, D)
        BY <2>1
      <3>2. PICK d \in D : virq_pid(v, d) = i /\ i # -1
        BY <3>1, <2>2
      <3>3. PICK w, e : w \in VM /\ e \in virq_en[w] /\ virq_pid(w, e) = i
        BY <3>1, <1>0, <1>4 DEF Wanted
      <3>4. w = v /\ e = d
        BY <3>2, <3>3, PidUnique
      <3>5. d \in Vids
        BY <3>2, PidRange
      <3> QED BY <3>2, <3>3, <3>4, <3>5, <2>1
    <2> QED BY <2>3, <2>4
  <1>5. ASSUME NEW v \in VM, NEW D, Enables(v, D) \/ Disables(v, D), \A i : i \in enabled' <=> Wanted(i)',
               shift = "wrap"
        PROVE  ForwardInv'
    <2>1. enabled' = UNION {pids(w, virq_en'[w]) : w \in VM}
      BY <1>5, ExactEachNext
    <2>2. shift' = "wrap" /\ DOMAIN virq_en' = VM
      BY <1>5 DEF Enables, Disables, ForwardInv
    <2> QED BY <2>1, <2>2 DEF ForwardInv
  <1>6. CASE \E v \in VM : \E D : Enables(v, D) \/ Disables(v, D)
    <2>1. PICK v \in VM : \E D : Enables(v, D) \/ Disables(v, D)
      BY <1>6
    <2>2. PICK D : Enables(v, D) \/ Disables(v, D)
      BY <2>1
    <2>3. CASE shift = "zero"
      BY <2>2, <2>3, <1>2
    <2>4. CASE shift = "wrap"
      BY <2>2, <2>4, <1>3, <1>4, <1>5
    <2> QED BY <2>3, <2>4 DEF ForwardInv
  <1> QED BY <1>1, <1>6 DEF DistStep

\* At the start nothing is enabled.
LEMMA ForwardInit == Init => ForwardInv
  <1> HAVE Init
  <1>1. \A v \in VM : pids(v, virq_en[v]) = {}
    BY DEF Init, pids
  <1>2. UNION {pids(v, virq_en[v]) : v \in VM} = {}
    BY <1>1
  <1> QED BY <1>2 DEF Init, ForwardInv

\* The inductive invariant: the books are right or the table was overrun.
LEMMA ForwardNext == (wild \/ ForwardInv) /\ [Next]_vars => (wild \/ ForwardInv)'
  BY WildStays, DistSteps, ForwardStep DEF ForwardInv

\* The physical distributor forwards exactly the mapped interrupts that their
\* guests have enabled, after any sequence of accesses by all the guests (for the
\* compiled shift that sets the bits), until a guest stores a bit past virq[].
THEOREM ForwardingFollowsFlags == Spec => []ForwardingExact
  <1>1. wild \/ ForwardInv => ForwardingExact
    BY DEF ForwardInv, ForwardingExact
  <1> QED BY <1>1, ForwardNext, ForwardInit, PTL DEF Spec

\* As long as no guest has stored a bit past virq[], no access of a guest switches
\* the forwarding of another VM's interrupt.  Stores past virq[] are steps of the
\* specification: the condition is the property's, not an assumption on the guests.
THEOREM ForwardingOwn == Spec => OwnForwarding
  <1>1. (wild \/ ForwardInv) /\ [Next]_vars =>
          [~wild' =>
             \A i \in (enabled \ enabled') \cup (enabled' \ enabled) :
               \E v \in VM, d \in Vids :
                 /\ virq_pid(v, d) = i
                 /\ (d \in virq_en[v]) # (d \in virq_en'[v])]_vars
    BY WildStays, DistSteps, ForwardStep DEF ForwardInv
  <1> QED BY <1>1, ForwardNext, ForwardInit, PTL DEF Spec, OwnForwarding


(***************************************************************************)
(* The instruction.                                                        *)
(***************************************************************************)
\* The low bits of the constants the decoder compares with.
LEMMA SmallBits ==
  /\ 0 \notin B!Bits(0) /\ 1 \notin B!Bits(0)
  /\ 0 \in B!Bits(1) /\ 1 \notin B!Bits(1)
  /\ 0 \notin B!Bits(2) /\ 1 \in B!Bits(2) /\ 2 \notin B!Bits(2)
  /\ 0 \in B!Bits(3) /\ 1 \in B!Bits(3) /\ 2 \notin B!Bits(3)
  BY DEF B!Bits

\* Powers of two, as the provers can handle them.
Pow(b) == 2 ^ b

\* Those that fit a word.
LEMMA Powers ==
  /\ Pow(0) = 1
  /\ \A b \in 1 .. 30 : Pow(b) \in Nat /\ 1 < Pow(b)
  <1>1. /\ Pow(0) = 1 /\ Pow(1) = 2 /\ Pow(2) = 4 /\ Pow(3) = 8 /\ Pow(4) = 16 /\ Pow(5) = 32
        /\ Pow(6) = 64 /\ Pow(7) = 128 /\ Pow(8) = 256 /\ Pow(9) = 512 /\ Pow(10) = 1024
        /\ Pow(11) = 2048 /\ Pow(12) = 4096 /\ Pow(13) = 8192 /\ Pow(14) = 16384
        /\ Pow(15) = 32768 /\ Pow(16) = 65536 /\ Pow(17) = 131072 /\ Pow(18) = 262144
        /\ Pow(19) = 524288 /\ Pow(20) = 1048576 /\ Pow(21) = 2097152 /\ Pow(22) = 4194304
        /\ Pow(23) = 8388608 /\ Pow(24) = 16777216 /\ Pow(25) = 33554432 /\ Pow(26) = 67108864
        /\ Pow(27) = 134217728 /\ Pow(28) = 268435456 /\ Pow(29) = 536870912
        /\ Pow(30) = 1073741824
    BY DEF Pow
  <1>2. \A b \in 1 .. 30 : b \in {1, 2, 3, 4, 5, 6, 7, 8, 9, 10, 11, 12, 13, 14, 15, 16, 17, 18, 19, 20,
                                  21, 22, 23, 24, 25, 26, 27, 28, 29, 30}
    OBVIOUS
  <1> QED BY <1>1, <1>2

\* The words of the numbers 0 and 1.
LEMMA ZeroOne == B!Bits(0) = {} /\ B!Bits(1) = {0}
  <1>1. \A n : B!Bits(n) = {b \in 0 .. 30 : (n \div Pow(b)) % 2 = 1}
    BY DEF B!Bits, Pow
  <1>2. ASSUME NEW b \in 1 .. 30 PROVE (0 \div Pow(b)) % 2 = 0 /\ (1 \div Pow(b)) % 2 = 0
    <2>1. 0 \div Pow(b) = 0 /\ 1 \div Pow(b) = 0
      BY Powers
    <2> QED BY <2>1
  <1>3. \A b \in 0 .. 30 : b = 0 \/ b \in 1 .. 30
    OBVIOUS
  <1>4. (0 \div Pow(0)) % 2 = 0 /\ (1 \div Pow(0)) % 2 = 1
    BY Powers
  <1>5. \A b \in 0 .. 30 : (0 \div Pow(b)) % 2 # 1 /\ ((1 \div Pow(b)) % 2 = 1 <=> b = 0)
    BY <1>2, <1>3, <1>4
  <1> QED BY <1>1, <1>5

\* A field of one bit.
LEMMA OneBit ==
  ASSUME NEW i, NEW k \in 0 .. 31
  PROVE  /\ is(i, k, k, 1) <=> k \in i
         /\ is(i, k, k, 0) <=> k \notin i
  <1>1. B!get_field(i, k, k) = IF k \in i THEN {0} ELSE {}
    BY DEF B!get_field, B!shr, B!mask, B!Bit
  <1> QED BY <1>1, ZeroOne DEF is

\* A field of two bits that holds 1.
LEMMA TwoBits ==
  ASSUME NEW i, 26 \in i, 27 \notin i
  PROVE  is(i, 27, 26, 1)
  <1>1. B!get_field(i, 27, 26) = {0}
    BY DEF B!get_field, B!shr, B!mask, B!Bit
  <1> QED BY <1>1, ZeroOne DEF is

\* The three bits of the operation.
LEMMA ThreeBits ==
  ASSUME NEW i
  PROVE  /\ is(i, 27, 25, 2) => 27 \notin i /\ 26 \in i /\ 25 \notin i
         /\ is(i, 27, 25, 3) => 27 \notin i /\ 26 \in i /\ 25 \in i
  <1>1. /\ 0 \in B!get_field(i, 27, 25) <=> 25 \in i
        /\ 1 \in B!get_field(i, 27, 25) <=> 26 \in i
        /\ 2 \in B!get_field(i, 27, 25) <=> 27 \in i
    BY DEF B!get_field, B!shr, B!mask, B!Bit
  <1> QED BY <1>1, SmallBits DEF is

\* An instruction that the handler takes for a load or a store is a transfer of one
\* word in that direction.
LEMMA DecodedRight ==
  ASSUME NEW i
  PROVE  /\ decode(i) = "load" => SingleTransfer(i) /\ ~ByteTransfer(i) /\ Loads(i)
         /\ decode(i) = "store" => SingleTransfer(i) /\ ~ByteTransfer(i) /\ ~Loads(i)
  <1>1. ASSUME ldr_imm(i) PROVE SingleTransfer(i) /\ ~ByteTransfer(i) /\ Loads(i)
    <2>1. is(i, 27, 25, 2) /\ is(i, 22, 22, 0) /\ is(i, 20, 20, 1)
      BY <1>1 DEF ldr_imm
    <2>2. is(i, 27, 26, 1) /\ is(i, 25, 25, 0) /\ 22 \notin i
      BY <2>1, ThreeBits, TwoBits, OneBit
    <2>3. ~is(i, 22, 22, 1)
      BY <2>2, OneBit
    <2> QED BY <2>1, <2>2, <2>3 DEF SingleTransfer, ByteTransfer, Loads
  <1>2. ASSUME str_imm(i) \/ str_reg(i) PROVE SingleTransfer(i) /\ ~ByteTransfer(i) /\ ~Loads(i)
    <2>1. /\ is(i, 27, 25, 2) \/ (is(i, 27, 25, 3) /\ is(i, 4, 4, 0))
          /\ is(i, 22, 22, 0) /\ is(i, 20, 20, 0)
      BY <1>2 DEF str_imm, str_reg
    <2>2. is(i, 27, 26, 1)
      BY <2>1, ThreeBits, TwoBits
    <2>3. is(i, 25, 25, 0) \/ is(i, 4, 4, 0)
      BY <2>1, ThreeBits, OneBit
    <2>4. ~is(i, 22, 22, 1) /\ ~is(i, 20, 20, 1)
      BY <2>1, OneBit
    <2> QED BY <2>2, <2>3, <2>4 DEF SingleTransfer, ByteTransfer, Loads
  <1> QED BY <1>1, <1>2 DEF decode


(***************************************************************************)
(* The stack frame and the timer.                                          *)
(***************************************************************************)
\* Registers have different places in the frame.
LEMMA FramePlaces ==
  /\ \A n \in FrameRegs : frame_offset(n) \in 1 .. 14
  /\ \A m, n \in FrameRegs : frame_offset(m) = frame_offset(n) => m = n
  /\ \A n \in FrameRegs : frame_offset(n) = IF n = 14 THEN 1 ELSE 14 - n
  BY DEF FrameRegs, frame_offset

\* The frame holds each register where read_reg_from_stack looks for it.
LEMMA FrameRead ==
  ASSUME NEW f, NEW n \in FrameRegs
  PROVE  read_reg_from_stack(push(f), n) = f[n]
  <1>1. CASE n = 14
    <2>1. frame_offset(n) = 1 /\ 1 \in 1 .. 14
      BY <1>1, FramePlaces
    <2> QED BY <1>1, <2>1 DEF read_reg_from_stack, push
  <1>2. CASE n \in 0 .. 12
    <2>1. frame_offset(n) = 14 - n /\ 14 - n \in 1 .. 14 /\ 14 - n # 1 /\ 14 - (14 - n) = n
      BY <1>2 DEF frame_offset
    <2> QED BY <2>1 DEF read_reg_from_stack, push
  <1> QED BY <1>1, <1>2 DEF FrameRegs

\* A register written to the frame is the only one that pop changes.
LEMMA FrameWrite ==
  ASSUME NEW f, NEW k \in FrameRegs, NEW w
  PROVE  LET g == pop(write_reg_to_stack(push(f), k, w))
         IN  g[k] = w /\ \A n \in FrameRegs : n # k => g[n] = f[n]
  <1> DEFINE h == write_reg_to_stack(push(f), k, w)
  <1>1. \A n \in FrameRegs : pop(h)[n] = h[frame_offset(n)]
    BY FramePlaces DEF pop
  <1>2. \A n \in FrameRegs : push(f)[frame_offset(n)] = f[n]
    BY FrameRead DEF read_reg_from_stack
  <1>3. DOMAIN push(f) = 1 .. 14
    BY DEF push
  <1>4. \A x \in 1 .. 14 : h[x] = IF x = frame_offset(k) THEN w ELSE push(f)[x]
    BY <1>3 DEF write_reg_to_stack
  <1> HIDE DEF h
  <1>5. \A n \in FrameRegs : pop(h)[n] = IF n = k THEN w ELSE f[n]
    BY <1>1, <1>2, <1>4, FramePlaces
  <1> QED BY <1>5 DEF h

IsTimer(t) ==
  t = [load |-> [k \in 0 .. 1 |-> t.load[k]], value |-> [k \in 0 .. 1 |-> t.value[k]]]

\* What a load from the timer shows.
LEMMA TimerRead ==
  ASSUME NEW t, NEW o \in {0, 4, 32, 36}
  PROVE  vdev_timer_read(t, o) = TimerRegister(t, o)
  <1>1. o = 0 => o % 32 = 0 /\ o \div 32 = 0
    OBVIOUS
  <1>2. o = 4 => o % 32 # 0 /\ o \div 32 = 0
    OBVIOUS
  <1>3. o = 32 => o % 32 = 0 /\ o \div 32 = 1
    OBVIOUS
  <1>4. o = 36 => o % 32 # 0 /\ o \div 32 = 1
    OBVIOUS
  <1> QED BY <1>1, <1>2, <1>3, <1>4 DEF vdev_timer_read, TimerRegister

\* What a store to the timer does: the channel it addresses, if it is a load register.
LEMMA TimerWrite ==
  ASSUME NEW t, IsTimer(t), NEW o \in {0, 4, 8, 12, 32, 36, 40, 44}, NEW data
  PROVE  LET u == vdev_timer_write(t, o, data)
         IN  /\ IsTimer(u)
             /\ o % 32 = 0 => TimerRegister(u, o) = data
             /\ \A x \in {0, 4, 32, 36} : (x \div 32 # o \div 32 \/ o % 32 # 0) =>
                  TimerRegister(u, x) = TimerRegister(t, x)
  <1> DEFINE u == vdev_timer_write(t, o, data)
  <1>0. /\ DOMAIN t.load = 0 .. 1 /\ DOMAIN t.value = 0 .. 1
        /\ t = [load |-> t.load, value |-> t.value]
    BY DEF IsTimer
  <1>1. CASE o \in {4, 8, 12, 36, 40, 44}
    <2>1. u = t
      BY <1>1 DEF vdev_timer_write
    <2>2. o % 32 # 0
      BY <1>1
    <2> QED BY <2>1, <2>2
  <1>2. CASE o = 0
    <2>1. u = [load |-> [t.load EXCEPT ![0] = data], value |-> [t.value EXCEPT ![0] = data]]
      <3>1. u = [t EXCEPT !.load[0] = data, !.value[0] = data]
        BY <1>2 DEF vdev_timer_write
      <3> DEFINE a == t.load
                 b == t.value
      <3>2. t = [load |-> a, value |-> b]
        BY <1>0
      <3> HIDE DEF a, b, u
      <3>3. u = [[load |-> a, value |-> b] EXCEPT !.load[0] = data, !.value[0] = data]
        BY <3>1, <3>2
      <3> QED BY <3>3 DEF a, b
    <2> HIDE DEF u
    <2>2. /\ u.load = [k \in 0 .. 1 |-> IF k = 0 THEN data ELSE t.load[k]]
          /\ u.value = [k \in 0 .. 1 |-> IF k = 0 THEN data ELSE t.value[k]]
      BY <2>1, <1>0
    <2>3. IsTimer(u)
      BY <2>1, <2>2 DEF IsTimer
    <2>4. u.load[0] = data /\ u.load[1] = t.load[1] /\ u.value[1] = t.value[1]
      BY <2>2
    <2>5. /\ 0 % 32 = 0 /\ 0 \div 32 = 0 /\ 4 \div 32 = 0 /\ 32 \div 32 = 1 /\ 32 % 32 = 0
          /\ 36 \div 32 = 1 /\ 36 % 32 # 0
      OBVIOUS
    <2>6. TimerRegister(u, 0) = data /\ TimerRegister(u, 32) = TimerRegister(t, 32)
          /\ TimerRegister(u, 36) = TimerRegister(t, 36)
      BY <2>4, <2>5 DEF TimerRegister
    <2> QED BY <2>3, <2>5, <2>6, <1>2 DEF u
  <1>3. CASE o = 32
    <2>1. u = [load |-> [t.load EXCEPT ![1] = data], value |-> [t.value EXCEPT ![1] = data]]
      <3>1. u = [t EXCEPT !.load[1] = data, !.value[1] = data]
        BY <1>3 DEF vdev_timer_write
      <3> DEFINE a == t.load
                 b == t.value
      <3>2. t = [load |-> a, value |-> b]
        BY <1>0
      <3> HIDE DEF a, b, u
      <3>3. u = [[load |-> a, value |-> b] EXCEPT !.load[1] = data, !.value[1] = data]
        BY <3>1, <3>2
      <3> QED BY <3>3 DEF a, b
    <2> HIDE DEF u
    <2>2. /\ u.load = [k \in 0 .. 1 |-> IF k = 1 THEN data ELSE t.load[k]]
          /\ u.value = [k \in 0 .. 1 |-> IF k = 1 THEN data ELSE t.value[k]]
      BY <2>1, <1>0
    <2>3. IsTimer(u)
      BY <2>1, <2>2 DEF IsTimer
    <2>4. u.load[1] = data /\ u.load[0] = t.load[0] /\ u.value[0] = t.value[0]
      BY <2>2
    <2>5. /\ 0 % 32 = 0 /\ 0 \div 32 = 0 /\ 4 \div 32 = 0 /\ 4 % 32 # 0 /\ 32 \div 32 = 1
          /\ 32 % 32 = 0 /\ 36 \div 32 = 1
      OBVIOUS
    <2>6. TimerRegister(u, 32) = data /\ TimerRegister(u, 0) = TimerRegister(t, 0)
          /\ TimerRegister(u, 4) = TimerRegister(t, 4)
      BY <2>4, <2>5 DEF TimerRegister
    <2> QED BY <2>3, <2>5, <2>6, <1>3 DEF u
  <1> QED BY <1>1, <1>2, <1>3


(***************************************************************************)
(* Accesses.                                                               *)
(***************************************************************************)
AccessInv ==
  /\ ForwardInv
  /\ DOMAIN en = VM
  /\ DOMAIN vtimer = VM
  /\ \A v \in VM : IsTimer(vtimer[v])
  /\ trap = NoTrap \/ (trap.vm \in VM /\ \A n \in FrameRegs : r[n] \in B!Word)

\* The ids of a word's bits, as quotient and remainder.
LEMMA IdsOf ==
  ASSUME NEW n \in Nat, NEW w \in B!Word, NEW d \in Vids
  PROVE  d \in ids(n, w) <=> n = d \div 32 /\ d % 32 \in w
  <1>1. d \in ids(n, w) <=> \E b \in w : d = 32 * n + b
    BY DEF ids
  <1>2. \A b \in w : b \in 0 .. 31
    BY DEF B!Word, B!Bit
  <1>3. d \in 0 .. 63 /\ d = (32 * (d \div 32)) + (d % 32) /\ d % 32 \in 0 .. 31
    BY DEF Vids
  <1>4. ASSUME NEW b \in 0 .. 31, d = 32 * n + b PROVE n = d \div 32 /\ b = d % 32
    BY <1>3, <1>4
  <1>5. ASSUME n = d \div 32 PROVE d = (32 * n) + (d % 32)
    BY <1>3, <1>5
  <1> QED BY <1>1, <1>2, <1>4, <1>5

\* FlagAfter for the offsets the handlers accept.
LEMMA FlagCases ==
  ASSUME NEW d \in Vids, NEW o \in Nat, NEW w, NEW F
  PROVE  /\ o \in 256 .. 380 =>
              (FlagAfter(d \in F, d, o, w)
                 <=> d \in F \/ ((o - 256) \div 4 = d \div 32 /\ d % 32 \in w))
         /\ o \in 384 .. 508 =>
              (FlagAfter(d \in F, d, o, w)
                 <=> d \in F /\ ~((o - 384) \div 4 = d \div 32 /\ d % 32 \in w))
         /\ (o < 256 \/ 512 <= o) => (FlagAfter(d \in F, d, o, w) <=> d \in F)
  <1> DEFINE m == d \div 32
             k == o \div 4
  <1>1. m \in {0, 1}
    BY DEF Vids
  <1>2. o \in 256 .. 380 => k \in 64 .. 95 /\ (o - 256) \div 4 = k - 64
    OBVIOUS
  <1>3. o \in 384 .. 508 => k \in 96 .. 127 /\ (o - 384) \div 4 = k - 96
    OBVIOUS
  <1>4. (o < 256 \/ 512 <= o) => k \in Nat /\ (k < 64 \/ 128 <= k)
    OBVIOUS
  <1>5. FlagAfter(d \in F, d, o, w) <=>
          CASE k = 64 + m -> d \in F \/ d % 32 \in w
            [] k = 96 + m -> d \in F /\ d % 32 \notin w
            [] OTHER -> d \in F
    BY DEF FlagAfter
  <1> HIDE DEF m, k
  <1>6. CASE o \in 256 .. 380
    <2>1. k # 96 + m /\ (k = 64 + m <=> (o - 256) \div 4 = m)
      BY <1>1, <1>2, <1>6
    <2> QED BY <2>1, <1>5, <1>6 DEF m
  <1>7. CASE o \in 384 .. 508
    <2>1. k # 64 + m /\ (k = 96 + m <=> (o - 384) \div 4 = m)
      BY <1>1, <1>3, <1>7
    <2> QED BY <2>1, <1>5, <1>7 DEF m
  <1>8. CASE o < 256 \/ 512 <= o
    <2>1. k # 64 + m /\ k # 96 + m
      BY <1>1, <1>4, <1>8
    <2> QED BY <2>1, <1>5, <1>8
  <1> QED BY <1>6, <1>7, <1>8

\* The flags of VM v after a store.
Flags(v, o, w) ==
  \A d \in Vids : (d \in virq_en'[v]) <=> FlagAfter(d \in virq_en[v], d, o, w)

\* A store to the distributor of VM v changes the flags it addresses and leaves
\* those of the other VMs alone.
LEMMA DistWrites ==
  ASSUME ForwardInv, DOMAIN en = VM, NEW v \in VM, NEW o \in WriteOffsets(122881),
         NEW data \in B!Word, vdev_gic2_dist_write(v, o, data), ~wild'
  PROVE  /\ DistStep
         /\ DOMAIN en' = VM
         /\ \A w \in VM : w # v => en'[w] = en[w] /\ virq_en'[w] = virq_en[w]
         /\ Flags(v, o, data)
  <1>0. shift \in {"zero", "wrap"} /\ DOMAIN virq_en = VM
    BY DEF ForwardInv
  <1>1. ASSUME NEW g0, NEW g1, write_ctlr(v, g0, g1)
        PROVE  /\ UNCHANGED <<virq_en, enabled, shift>> /\ DOMAIN en' = VM
               /\ \A w \in VM : w # v => en'[w] = en[w]
    BY <1>1 DEF write_ctlr
  <1>2. ASSUME NEW D, write_isenabler(v, D) \/ write_icenabler(v, D)
        PROVE  /\ Enables(v, D) \/ Disables(v, D)
               /\ en' = en
               /\ \A w \in VM : w # v => virq_en'[w] = virq_en[w]
    <2>1. (Enables(v, D) \/ Disables(v, D)) /\ en' = en
      BY <1>0, <1>2, EnableSteps
    <2>2. \A w \in VM : w # v => virq_en'[w] = virq_en[w]
      BY <1>0, <2>1 DEF Enables, Disables
    <2> QED BY <2>1, <2>2
  <1>3. ASSUME (\E n : write_itargetsr(n)) \/ (\E f, c : write_sgir(f, c)) \/ UNCHANGED <<distVars, halt>>
        PROVE  UNCHANGED <<en, virq_en, enabled, shift>>
    BY <1>3 DEF write_itargetsr, write_sgir, distVars
  <1>4. o \in Nat /\ (o < 256 \/ o \in 256 .. 380 \/ o \in 384 .. 508 \/ 512 <= o)
    <2>1. o \in {0, 128} \cup (256 .. 380) \cup (384 .. 508) \cup (1024 .. 2040)
                \cup (2048 .. 2296) \cup (3072 .. 3324) \cup {3840}
      BY SMT, 122881 # 65537, 122881 # 65554 DEF WriteOffsets
    <2> QED BY <2>1
  <1>5. /\ o \in 256 .. 380 => write_isenabler(v, ids((o - 256) \div 4, data))
        /\ o \in 384 .. 508 => write_icenabler(v, ids((o - 384) \div 4, data))
        /\ (o < 256 \/ 512 <= o) =>
             \/ \E g0, g1 : write_ctlr(v, g0, g1)
             \/ (\E n : write_itargetsr(n)) \/ (\E f, c : write_sgir(f, c))
             \/ UNCHANGED <<distVars, halt>>
    <2>1. o \in 256 .. 380 => o # 0 /\ o \notin 384 .. 508
      OBVIOUS
    <2>2. o \in 384 .. 508 => o # 0 /\ o \notin 256 .. 380 /\ o \notin 2048 .. 2296 /\ o # 3840
      OBVIOUS
    <2>3. o \in 256 .. 380 => o \notin 2048 .. 2296 /\ o # 3840
      OBVIOUS
    <2>4. o < 256 \/ 512 <= o => o \notin 256 .. 380 /\ o \notin 384 .. 508
      BY <1>4
    <2> QED BY <2>1, <2>2, <2>3, <2>4 DEF vdev_gic2_dist_write
  <1>6. CASE o \in 256 .. 380
    <2> DEFINE n == (o - 256) \div 4
               D == ids(n, data)
    <2>1. n \in Nat
      BY <1>6
    <2>2. write_isenabler(v, D)
      BY <1>5, <1>6
    <2>3. \A d \in Vids : d \in D <=> n = d \div 32 /\ d % 32 \in data
      BY <2>1, IdsOf
    <2>4. \A d \in Vids : FlagAfter(d \in virq_en[v], d, o, data)
                           <=> d \in virq_en[v] \/ (n = d \div 32 /\ d % 32 \in data)
      BY <1>4, <1>6, FlagCases
    <2> HIDE DEF n, D
    <2>5. Enables(v, D) /\ en' = en
      BY <2>2, <1>0, EnableSteps
    <2>6. virq_en'[v] = virq_en[v] \cup D /\ \A w \in VM : w # v => virq_en'[w] = virq_en[w]
      BY <2>5, <1>0 DEF Enables
    <2>7. Flags(v, o, data)
      BY <2>3, <2>4, <2>6 DEF Flags
    <2>8. DistStep
      BY <2>5 DEF DistStep
    <2> QED BY <2>5, <2>6, <2>7, <2>8
  <1>7. CASE o \in 384 .. 508
    <2> DEFINE n == (o - 384) \div 4
               D == ids(n, data)
    <2>1. n \in Nat
      BY <1>7
    <2>2. write_icenabler(v, D)
      BY <1>5, <1>7
    <2>3. \A d \in Vids : d \in D <=> n = d \div 32 /\ d % 32 \in data
      BY <2>1, IdsOf
    <2>4. \A d \in Vids : FlagAfter(d \in virq_en[v], d, o, data)
                           <=> d \in virq_en[v] /\ ~(n = d \div 32 /\ d % 32 \in data)
      BY <1>4, <1>7, FlagCases
    <2> HIDE DEF n, D
    <2>5. Disables(v, D) /\ en' = en
      BY <2>2, <1>0, EnableSteps
    <2>6. virq_en'[v] = virq_en[v] \ D /\ \A w \in VM : w # v => virq_en'[w] = virq_en[w]
      BY <2>5, <1>0 DEF Disables
    <2>7. Flags(v, o, data)
      BY <2>3, <2>4, <2>6 DEF Flags
    <2>8. DistStep
      BY <2>5 DEF DistStep
    <2> QED BY <2>5, <2>6, <2>7, <2>8
  <1>8. CASE o < 256 \/ 512 <= o
    <2>1. /\ UNCHANGED <<virq_en, enabled, shift>> /\ DOMAIN en' = VM
          /\ \A w \in VM : w # v => en'[w] = en[w]
      BY <1>1, <1>3, <1>5, <1>8
    <2>2. \A d \in Vids : FlagAfter(d \in virq_en[v], d, o, data) <=> d \in virq_en[v]
      BY <1>4, <1>8, FlagCases
    <2> QED BY <2>1, <2>2 DEF DistStep, Flags
  <1> QED BY <1>4, <1>6, <1>7, <1>8

\* What AccessExact says of a step.
Exact ==
  (trap # NoTrap /\ ~halt' /\ ~wild') =>
     /\ SingleTransfer(trap.inst)
     /\ ~ByteTransfer(trap.inst)
     /\ IF Loads(trap.inst)
        THEN /\ \A n \in FrameRegs \ {rt(trap.inst)} : r'[n] = r[n]
             /\ r'[rt(trap.inst)] \in device_read(trap.vm, page, offs)
             /\ page = 65554 =>
                  r'[rt(trap.inst)] = TimerRegister(vtimer[trap.vm], offs)
             /\ UNCHANGED <<distVars, vtimer>>
        ELSE /\ UNCHANGED r
             /\ \A v \in VM \ {trap.vm} :
                  vtimer'[v] = vtimer[v] /\ en'[v] = en[v] /\ virq_en'[v] = virq_en[v]
             /\ page = 122881 => \A d \in Vids :
                  (d \in virq_en'[trap.vm]) <=>
                    FlagAfter(d \in virq_en[trap.vm], d, offs, r[rt(trap.inst)])
             /\ (page = 65554 /\ offs % 32 = 0) =>
                  TimerRegister(vtimer'[trap.vm], offs) = r[rt(trap.inst)]
             /\ page = 65554 => \A o \in {0, 4, 32, 36} :
                  (o \div 32 # offs \div 32 \/ offs % 32 # 0) =>
                    TimerRegister(vtimer'[trap.vm], o) = TimerRegister(vtimer[trap.vm], o)

\* A load.
LEMMA LoadExact ==
  ASSUME AccessInv, trap_load
  PROVE  Exact /\ DistStep /\ AccessInv'
  <1> DEFINE k == rt(trap.inst)
  <1>1. /\ decode(trap.inst) = "load" /\ offs \in ReadOffsets(page) /\ k \in FrameRegs
        /\ trap' = NoTrap /\ UNCHANGED <<distVars, halt, vtimer>> /\ trap # NoTrap
    BY DEF trap_load, Trapped, no_offset
  <1>2. PICK w \in device_read(trap.vm, page, offs) :
          r' = pop(write_reg_to_stack(push(r), k, w))
    BY DEF trap_load
  <1>3. SingleTransfer(trap.inst) /\ ~ByteTransfer(trap.inst) /\ Loads(trap.inst)
    BY <1>1, DecodedRight
  <1>4. r'[k] = w /\ \A n \in FrameRegs : n # k => r'[n] = r[n]
    BY <1>1, <1>2, FrameWrite
  <1>5. page = 65554 => offs \in {0, 4, 32, 36}
    BY <1>1 DEF ReadOffsets
  <1>6. page = 65554 => w = TimerRegister(vtimer[trap.vm], offs)
    <2>1. page = 65554 => w = vdev_timer_read(vtimer[trap.vm], offs)
      BY <1>2 DEF device_read
    <2> QED BY <2>1, <1>5, TimerRead
  <1>7. Exact
    BY <1>1, <1>2, <1>3, <1>4, <1>6 DEF Exact
  <1>8. en' = en /\ virq_en' = virq_en /\ enabled' = enabled /\ shift' = shift /\ vtimer' = vtimer
    BY <1>1 DEF distVars
  <1>9. DistStep
    BY <1>8 DEF DistStep
  <1>10. ForwardInv'
    BY <1>9, ForwardStep DEF AccessInv
  <1> QED BY <1>1, <1>7, <1>8, <1>9, <1>10 DEF AccessInv

\* A store.
LEMMA StoreExact ==
  ASSUME AccessInv, trap_store, ~wild'
  PROVE  Exact /\ DistStep /\ AccessInv'
  <1> DEFINE k == rt(trap.inst)
             v == trap.vm
             data == read_reg_from_stack(push(r), k)
             t == vtimer[v]
  <1>1. /\ decode(trap.inst) = "store" /\ offs \in WriteOffsets(page) /\ k \in FrameRegs
        /\ trap' = NoTrap /\ r' = r /\ trap # NoTrap
        /\ IF page = 65554
           THEN vtimer' = [vtimer EXCEPT ![v] = vdev_timer_write(t, offs, data)]
           ELSE vtimer' = vtimer
        /\ IF page = 122881 THEN vdev_gic2_dist_write(v, offs, data) ELSE UNCHANGED <<distVars, halt>>
    BY DEF trap_store, Trapped, no_offset
  <1>2. v \in VM /\ IsTimer(t) /\ DOMAIN vtimer = VM /\ ForwardInv /\ DOMAIN en = VM
        /\ r[k] \in B!Word
    BY <1>1 DEF AccessInv
  <1>3. data = r[k]
    BY <1>1, FrameRead
  <1>4. SingleTransfer(trap.inst) /\ ~ByteTransfer(trap.inst) /\ ~Loads(trap.inst)
    BY <1>1, DecodedRight
  <1>5. /\ DistStep /\ DOMAIN en' = VM
        /\ \A w \in VM : w # v => en'[w] = en[w] /\ virq_en'[w] = virq_en[w]
        /\ page = 122881 => Flags(v, offs, r[k])
    <2>1. CASE page = 122881
      BY <1>1, <1>2, <1>3, <2>1, DistWrites
    <2>2. CASE page # 122881
      BY <1>1, <1>2, <2>2 DEF distVars, DistStep
    <2> QED BY <2>1, <2>2
  <1>6. /\ DOMAIN vtimer' = VM
        /\ \A w \in VM : w # v => vtimer'[w] = vtimer[w]
        /\ vtimer'[v] = IF page = 65554 THEN vdev_timer_write(t, offs, data) ELSE t
    BY <1>1, <1>2
  <1>7. page = 65554 => offs \in {0, 4, 8, 12, 32, 36, 40, 44}
    BY <1>1 DEF WriteOffsets
  <1>8. page = 65554 =>
          /\ IsTimer(vtimer'[v])
          /\ offs % 32 = 0 => TimerRegister(vtimer'[v], offs) = r[k]
          /\ \A o \in {0, 4, 32, 36} : (o \div 32 # offs \div 32 \/ offs % 32 # 0) =>
               TimerRegister(vtimer'[v], o) = TimerRegister(t, o)
    <2> SUFFICES ASSUME page = 65554
                 PROVE  /\ IsTimer(vtimer'[v])
                        /\ offs % 32 = 0 => TimerRegister(vtimer'[v], offs) = r[k]
                        /\ \A o \in {0, 4, 32, 36} : (o \div 32 # offs \div 32 \/ offs % 32 # 0) =>
                             TimerRegister(vtimer'[v], o) = TimerRegister(t, o)
      OBVIOUS
    <2>1. vtimer'[v] = vdev_timer_write(t, offs, r[k]) /\ offs \in {0, 4, 8, 12, 32, 36, 40, 44}
      BY <1>3, <1>6, <1>7
    <2> HIDE DEF t, v, k
    <2> QED BY <2>1, <1>2, TimerWrite
  <1>12. page = 122881 => \A d \in Vids :
           (d \in virq_en'[v]) <=> FlagAfter(d \in virq_en[v], d, offs, r[k])
    BY <1>5 DEF Flags
  <1>9. Exact
    BY <1>1, <1>4, <1>5, <1>6, <1>8, <1>12 DEF Exact
  <1>10. \A w \in VM : IsTimer(vtimer'[w])
    BY <1>2, <1>6, <1>8 DEF AccessInv
  <1>11. ForwardInv'
    BY <1>2, <1>5, ForwardStep
  <1> QED BY <1>1, <1>5, <1>6, <1>9, <1>10, <1>11 DEF AccessInv

\* The registers of a guest hold words.
LEMMA RegWords ==
  ASSUME NEW f \in RegFiles
  PROVE  \A n \in FrameRegs : f[n] \in B!Word
  <1>1. PICK g \in [Regs -> Values] : f = [n \in FrameRegs |-> IF n \in Regs THEN g[n] ELSE {}]
    BY DEF RegFiles
  <1> QED BY <1>1, ValuesAssumption

\* Every step that leaves virq[] intact.
LEMMA AccessStep ==
  ASSUME AccessInv, [DNext]_allVars, ~wild'
  PROVE  (Exact \/ UNCHANGED allVars) /\ DistStep /\ AccessInv'
  <1>1. CASE trap_load
    BY <1>1, LoadExact
  <1>2. CASE trap_store
    BY <1>2, StoreExact
  <1>3. CASE GuestAccesses(VM, Accesses)
    <2>1. PICK v, i, a, f : v \in VM /\ f \in RegFiles /\ GuestAccess(v, i, a, f)
      BY <1>3 DEF GuestAccesses
    <2>2. /\ trap = NoTrap /\ UNCHANGED <<en, virq_en, enabled, shift, halt, vtimer>>
          /\ trap'.vm = v /\ r' = f
      BY <2>1 DEF GuestAccess, distVars
    <2>3. DistStep /\ ForwardInv'
      BY <2>2, ForwardStep DEF DistStep, AccessInv
    <2>4. \A n \in FrameRegs : r'[n] \in B!Word
      BY <2>1, <2>2, RegWords
    <2> QED BY <2>1, <2>2, <2>3, <2>4 DEF Exact, AccessInv
  <1>4. CASE trap_error
    <2>1. halt' /\ UNCHANGED <<en, virq_en, enabled, shift, vtimer, r, trap>>
      BY <1>4 DEF trap_error, distVars
    <2>2. DistStep /\ ForwardInv'
      BY <2>1, ForwardStep DEF DistStep, AccessInv
    <2> QED BY <2>1, <2>2 DEF Exact, AccessInv
  <1>5. CASE UNCHANGED allVars
    <2>1. UNCHANGED <<en, virq_en, enabled, shift, vtimer, r, trap>>
      BY <1>5 DEF allVars, accVars, distVars
    <2>2. DistStep /\ ForwardInv'
      BY <2>1, ForwardStep DEF DistStep, AccessInv
    <2> QED BY <1>5, <2>1, <2>2 DEF AccessInv
  <1>6. ~devices_damaged
    BY DEF devices_damaged, Damaged, Beyond
  <1> QED BY <1>1, <1>2, <1>3, <1>4, <1>5, <1>6 DEF DNext, Handler, Ended

\* An overrun table stays one, whatever the access.
LEMMA DecodedWild ==
  ASSUME wild, [DNext]_allVars
  PROVE  wild'
  <1>1. CASE trap_store
    <2>1. \/ UNCHANGED <<distVars, halt>>
          \/ \E v, o, data : vdev_gic2_dist_write(v, o, data)
      BY <1>1 DEF trap_store
    <2>2. ASSUME NEW v, NEW o, NEW data, vdev_gic2_dist_write(v, o, data) PROVE wild'
      <3>1. \/ \E g0, g1 : write_ctlr(v, g0, g1)
            \/ \E D : write_isenabler(v, D) \/ write_icenabler(v, D)
            \/ (\E n : write_itargetsr(n)) \/ (\E f, c : write_sgir(f, c))
            \/ UNCHANGED <<distVars, halt>>
        BY <2>2 DEF vdev_gic2_dist_write
      <3> QED BY <3>1, WildWrites DEF write_ctlr, write_itargetsr, write_sgir, distVars
    <2> QED BY <2>1, <2>2 DEF distVars
  <1>2. CASE ~trap_store
    BY <1>2, WildWrites DEF DNext, GuestAccesses, GuestAccess, Handler, trap_load, trap_error,
       devices_damaged, Damaged, Ended, allVars, distVars
  <1> QED BY <1>1, <1>2

\* The inductive invariant of the accesses.
LEMMA AccessNext == (wild \/ AccessInv) /\ [DNext]_allVars => (wild \/ AccessInv)'
  BY DecodedWild, AccessStep

\* At the start.
LEMMA AccessInit == DInit => AccessInv
  <1> HAVE DInit
  <1>1. ForwardInv
    BY ForwardInit DEF DInit
  <1>2. DOMAIN en = VM /\ DOMAIN vtimer = VM /\ trap = NoTrap
    BY DEF DInit, Init
  <1>3. \A v \in VM : IsTimer(vtimer[v])
    BY DEF DInit, IsTimer
  <1> QED BY <1>1, <1>2, <1>3 DEF AccessInv

\* A trapped access that the hypervisor completes had the effect of the guest's
\* instruction: one word, the named register, what the device answers, the VM's
\* own devices, the addressed flags or channel; until a guest stores a bit past
\* virq[].
THEOREM AccessesExact == DSpec => AccessExact
  <1>1. (wild \/ AccessInv) /\ [DNext]_allVars => [Exact]_allVars
    <2> SUFFICES ASSUME wild \/ AccessInv, [DNext]_allVars PROVE Exact \/ UNCHANGED allVars
      OBVIOUS
    <2>1. CASE wild'
      BY <2>1 DEF Exact
    <2>2. CASE ~wild'
      BY <2>2, DecodedWild, AccessStep
    <2> QED BY <2>1, <2>2
  <1>2. DSpec => [][Exact]_allVars
    BY <1>1, AccessNext, AccessInit, PTL DEF DSpec
  <1> QED BY <1>2 DEF AccessExact, Exact

\* Also when the accesses come through the decoder, the forwarding of interrupts
\* follows the guests' flags, until a guest stores a bit past virq[].
THEOREM DecodedForwarding == DSpec => []ForwardingExact
  <1>1. wild \/ AccessInv => ForwardingExact
    BY DEF AccessInv, ForwardInv, ForwardingExact
  <1> QED BY <1>1, AccessNext, AccessInit, PTL DEF DSpec

\* ... and until then no trapped store, to whatever address of the distributor's
\* page, switches an interrupt of another VM.
THEOREM DecodedForwardingOwn == DSpec => OwnForwarding
  <1>1. (wild \/ AccessInv) /\ [DNext]_allVars =>
          [~wild' =>
             \A i \in (enabled \ enabled') \cup (enabled' \ enabled) :
               \E v \in VM, d \in Vids :
                 /\ virq_pid(v, d) = i
                 /\ (d \in virq_en[v]) # (d \in virq_en'[v])]_vars
    BY DecodedWild, AccessStep, ForwardStep DEF AccessInv
  <1> QED BY <1>1, AccessNext, AccessInit, PTL DEF DSpec, OwnForwarding

=============================================================================

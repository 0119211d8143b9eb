--------------------------- MODULE MCDeviceAccess ---------------------------
(***************************************************************************)
(* Three instances, of which a behaviour follows one: DeviceAccess with few  *)
(* instructions, one VM with every encoding, and VGicDist with more          *)
(* interrupts than the stores of the first reach.                           *)
(***************************************************************************)
EXTENDS DeviceAccess

\* A word of the instruction's bits and the number of rt.
Encode(bits, t) == bits \cup {12 + b : b \in B!Bits(t)}

\* LDR and STR with an immediate, STR with a register offset, LDRB, and a STR of a
\* register that has no place in the frame.
MCInsts == {Encode({26, 24, 20}, 14), Encode({26, 24}, 1), Encode({26, 25, 24}, 14),
            Encode({26, 24, 22, 20}, 1), Encode({26, 24}, 13)}

MCIpas == {<<65536, 36>>, <<65537, 4064>>, <<65554, 32>>, <<122881, 4>>, <<122881, 260>>,
           <<122881, 388>>, <<122881, 264>>, <<122881, 2048>>, <<122881, 3840>>, <<65538, 0>>}

MCValues == {{}, {0, 4}}

\* After a store past virq[]: flags lost, an interrupt of VM 1 switched on.
MCOutcomes == {[en |-> [v \in VM |-> FALSE], virq_en |-> [v \in VM |-> {}], enabled |-> {45}]}
MCTimerOutcomes == {[v \in VM |-> [load |-> [k \in 0 .. 1 |-> {}], value |-> [k \in 0 .. 1 |-> {7}]]]}

\* Every combination of the bits that the decoder looks at or should.
AllInsts == {Encode(s, t) : s \in SUBSET {27, 26, 25, 24, 22, 21, 20, 4}, t \in {1, 14}}
              \cup {Encode({26, 24, 20} \cup (16 .. 19), t) : t \in 0 .. 15}

\* A system register, the system controller, an enable word, timer 2.
DecodeIpas == {<<65536, 36>>, <<65537, 0>>, <<122881, 260>>, <<65554, 32>>}

MCAccesses == MCInsts \X MCIpas

VARIABLE part

MCInit == DInit /\ part \in {"access", "decode", "distributor"}

MCNext ==
  \/ part = "access" /\ DNext /\ UNCHANGED part
  \/ /\ part = "decode"
     /\ GuestAccesses({0}, AllInsts \X DecodeIpas) \/ Handler
     /\ UNCHANGED part
  \/ part = "distributor" /\ Next /\ UNCHANGED <<accVars, part>>

MCSpec == MCInit /\ [][MCNext]_<<allVars, part>>
=============================================================================

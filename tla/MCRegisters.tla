----------------------------- MODULE MCRegisters -----------------------------
(***************************************************************************)
(* The modules about registers and their words: ListRegister, GuestRegisters *)
(* and Cp15Access.  They share no state, so a behaviour follows one of them. *)
(***************************************************************************)
EXTENDS ListRegister, TLC

CONSTANTS NumVM, Versions, LoadRegs,    \* GuestRegisters
          Values                        \* Cp15Access

VARIABLES part,
          vm_id, idle, hw, bk, stop, want, version,
          before, name, value, after

switchVars == <<vm_id, idle, hw, bk, stop, want, version>>
cp15Vars   == <<before, name, value, after>>

R == INSTANCE GuestRegisters WITH halt <- stop
C == INSTANCE Cp15Access

ASSUME RegistersAssumption == R!Assumption

\* VM 0's interrupts, with the ids main() gives them.
Irq(p, v) == [pid |-> Bits(p), vid |-> Bits(v)]
MCIrqs    == {Irq(40, 44), Irq(44, 36), Irq(48, 37)}

MCInit ==
  /\ Init /\ R!Init /\ C!Init
  /\ part \in {"list", "switch", "cp15"}
  /\ part # "cp15" => before = [a \in C!Coordinates |-> {}]

MCNext ==
  \/ part = "list"   /\ Next   /\ UNCHANGED <<part, switchVars, cp15Vars>>
  \/ part = "switch" /\ R!Next /\ UNCHANGED <<part, vars, cp15Vars>>
  \/ part = "cp15"   /\ C!Next /\ UNCHANGED <<part, vars, switchVars>>

MCSpec == MCInit /\ [][MCNext]_<<part, vars, switchVars, cp15Vars>>

\* The world switch gives each VM its registers back (GuestRegisters).
OwnRegisters == R!OwnRegisters

\* Traps and stage 2 stay configured for the VM on the CPU (GuestRegisters).
TrapsArmed == R!TrapsArmed

\* Access by name reads back what was written and disturbs nothing (Cp15Access).
NamedAccess == C!NamedAccess
=============================================================================

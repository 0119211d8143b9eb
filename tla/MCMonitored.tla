----------------------------- MODULE MCMonitored -----------------------------
(***************************************************************************)
(* An instance of Hypervisor in which the counters of Monitored are either   *)
(* followed, for MaxEvents events, or left alone, for ever.                 *)
(***************************************************************************)
EXTENDS Monitored, TLC

AnyCode == (0 :> {"run", "ram", "wfi", "cp", "hvc", "load", "store", "bad"})

\* A total that no count reaches.
NotCounting == MaxEvents + 1

MCInit ==
  \/ MInit
  \/ /\ Init
     /\ sys_mon = NoEvents
     /\ vm_mon = [v \in VM |-> NoEvents]
     /\ seen = [v \in VM |-> NoEvents.events]
     /\ absent = 0
     /\ total = NotCounting

MCNext ==
  \/ total # NotCounting /\ MNext
  \/ total = NotCounting /\ Next /\ UNCHANGED monVars

MCSpec == MCInit /\ [][MCNext]_allVars
=============================================================================

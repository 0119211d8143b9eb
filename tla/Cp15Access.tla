----------------------------- MODULE Cp15Access -----------------------------
(***************************************************************************)
(* The accesses of Cp15 by every name of the header, one write at a time,    *)
(* on a coprocessor that holds all zeros or all ones.                       *)
(***************************************************************************)
EXTENDS Cp15

CONSTANT Values      \* the numbers written

VARIABLES before, name, value, after    \* "none" before the write

vars == <<before, name, value, after>>

\* All names the switch of cp15.c knows: registers and fields.
AllNames ==
  {cp15_reg_names[r] : r \in Names \ {"HTPIDR"}}
    \cup UNION {{setfd(cp15_reg_names[r], f[1], f[2]) : f \in cp15_reg_fields[r]}
                : r \in DOMAIN cp15_reg_fields}

Coordinates == {n.at : n \in AllNames}

None == setcr(15, 15, 15, 15)

Init ==
  /\ \E w \in {{}, Bit} : before = [a \in Coordinates |-> w]
  /\ name = None
  /\ value = {}
  /\ after = before

Write(n, w) ==
  /\ name = None
  /\ name' = n
  /\ value' = w
  /\ after' = cp15_write(before, n, w)
  /\ UNCHANGED before

Read == name # None /\ UNCHANGED vars

Next ==
  \/ \E n \in AllNames, v \in Values : Write(n, Bits(v))
  \/ Read

Spec == Init /\ [][Next]_vars

\* Two names that have a bit in common.
Overlap(n, m) == n.at = m.at /\ n.lsb <= m.hsb /\ m.lsb <= n.hsb

\* cp15_write then cp15_read by the same name gives the value back, cut to the
\* width of the field, and what every other name reads, unless the two
\* overlap, is what it was: the read-modify-write disturbs no neighbour, and
\* the permuted table registers do not land on one another.
NamedAccess ==
  name # None =>
    /\ cp15_read(after, name) = value \cap (0 .. name.hsb - name.lsb)
    /\ \A m \in AllNames :
         ~Overlap(name, m) => cp15_read(after, m) = cp15_read(before, m)
=============================================================================

-------------------------------- MODULE Cp15 --------------------------------
(***************************************************************************)
(* vmm/cp15.c and vmm/include/cp15.h: access to the system coprocessor by    *)
(* name.  A name says which bits (hsb, lsb) of which register it means; the  *)
(* register is given by its coordinates <<crn, opc1, crm, opc2>>, which the  *)
(* header encodes in the name and the switch of cp15.c encodes once more in  *)
(* the instruction it issues.                                              *)
(*                                                                         *)
(* The coprocessor is a function from coordinates to words (BitOpt).  A      *)
(* whole register may also hold any other value: get_field(w, 31, 0) is w.   *)
(***************************************************************************)
EXTENDS BitOpt

setcr(crn, opc1, crm, opc2) == [hsb |-> 31, lsb |-> 0, at |-> <<crn, opc1, crm, opc2>>]

setfd(name, hsb, lsb) == [name EXCEPT !.hsb = hsb, !.lsb = lsb]

\* Every full register the header names.
cp15_reg_names ==
  [MIDR    |-> setcr(0, 0, 0, 0), CTR     |-> setcr(0, 0, 0, 1), MPIDR   |-> setcr(0, 0, 0, 5),
   MMFR0   |-> setcr(0, 0, 1, 4), MMFR1   |-> setcr(0, 0, 1, 5), MMFR2   |-> setcr(0, 0, 1, 6),
   MMFR3   |-> setcr(0, 0, 1, 7), CCSIDR0 |-> setcr(0, 1, 0, 0), CCSIDR1 |-> setcr(0, 1, 0, 6),
   CCSIDR2 |-> setcr(0, 1, 0, 7), CLIDR   |-> setcr(0, 1, 0, 1), CSSELR  |-> setcr(0, 2, 0, 0),
   VPIDR   |-> setcr(0, 4, 0, 0), SCTLR   |-> setcr(1, 0, 0, 0), SCR     |-> setcr(1, 0, 1, 0),
   HSCTLR  |-> setcr(1, 4, 0, 0), HCR     |-> setcr(1, 4, 1, 0), HDCR    |-> setcr(1, 4, 1, 1),
   HCPTR   |-> setcr(1, 4, 1, 2), HSTR    |-> setcr(1, 4, 1, 3), TTBR0   |-> setcr(2, 0, 0, 0),
   TTBR1   |-> setcr(2, 0, 0, 1), TTBCR   |-> setcr(2, 0, 0, 2), HTCR    |-> setcr(2, 4, 0, 2),
   VTCR    |-> setcr(2, 4, 1, 2), DACR    |-> setcr(3, 0, 0, 0), DFSR    |-> setcr(5, 0, 0, 0),
   IFSR    |-> setcr(5, 0, 0, 1), ADFSR   |-> setcr(5, 0, 1, 0), AIFSR   |-> setcr(5, 0, 1, 1),
   HADFSR  |-> setcr(5, 4, 1, 0), HAIFSR  |-> setcr(5, 4, 1, 1), HSR     |-> setcr(5, 4, 2, 0),
   DFAR    |-> setcr(6, 0, 0, 0), IFAR    |-> setcr(6, 0, 0, 2), HDFAR   |-> setcr(6, 4, 0, 0),
   HIFAR   |-> setcr(6, 4, 0, 2), HPFAR   |-> setcr(6, 4, 0, 4), PRRR    |-> setcr(10, 0, 2, 0),
   NMRR    |-> setcr(10, 0, 2, 1), VBAR   |-> setcr(12, 0, 0, 0), MVBAR  |-> setcr(12, 0, 0, 1),
   ISR     |-> setcr(12, 0, 1, 0), HVBAR  |-> setcr(12, 4, 0, 0), FCSEIDR |-> setcr(13, 0, 0, 0),
   CONTEXTIDR |-> setcr(13, 0, 0, 1), TPIDR_URO |-> setcr(13, 0, 0, 3),
   HTPIDR  |-> setcr(13, 4, 0, 2)]

Names == DOMAIN cp15_reg_names

\* The bits of each register that have a name of their own, as <<hsb, lsb>>.
Single(S) == {<<b, b>> : b \in S}

cp15_reg_fields ==
  [CONTEXTIDR |-> {<<7, 0>>, <<31, 8>>, <<31, 0>>},
   CSSELR     |-> {<<3, 1>>, <<0, 0>>},
   FCSEIDR    |-> {<<31, 25>>},
   HCR        |-> {<<11, 10>>} \cup Single((0 .. 9) \cup (12 .. 27)),
   HDCR       |-> {<<4, 0>>} \cup Single(5 .. 11),
   HSCTLR     |-> Single({0, 1, 2, 5, 12, 19, 21, 25, 30}),
   HTCR       |-> {<<13, 12>>, <<11, 10>>, <<9, 8>>, <<2, 0>>},
   HSTR       |-> Single((0 .. 13) \cup (15 .. 17)),
   PRRR       |-> {<<2 * n + 1, 2 * n>> : n \in 0 .. 7} \cup Single((16 .. 19) \cup (24 .. 31)),
   SCR        |-> Single(0 .. 9),
   SCTLR      |-> Single({0, 1, 2, 5, 7, 10, 11, 12, 13, 14, 17, 19, 20, 21, 22, 24, 25,
                          27, 28, 29, 30}),
   TTBCR      |-> {<<2, 0>>, <<9, 8>>, <<11, 10>>, <<13, 12>>, <<18, 16>>, <<25, 24>>,
                   <<27, 26>>, <<29, 28>>} \cup Single({4, 5, 7, 22, 23, 31}),
   VTCR       |-> {<<3, 0>>, <<4, 4>>, <<7, 6>>, <<9, 8>>, <<11, 10>>, <<13, 12>>}]

\* The register the instruction issued for a full name accesses: the switch
\* repeats the header's coordinates, except for the three translation table
\* registers.
CP15_PARSE(full_name) ==
  CASE full_name = cp15_reg_names["TTBCR"] -> <<2, 0, 0, 0>>
    [] full_name = cp15_reg_names["TTBR0"] -> <<2, 0, 0, 1>>
    [] full_name = cp15_reg_names["TTBR1"] -> <<2, 0, 0, 2>>
    [] OTHER -> full_name.at

full(name) == setfd(name, 31, 0)

\* HTPIDR has a name but no case in the switch: printe, and no access.
no_case(name) == full(name) = cp15_reg_names["HTPIDR"]

\* c is the coprocessor.
cp15_read(c, name) ==
  IF no_case(name) THEN {}
  ELSE IF name = full(name) THEN c[CP15_PARSE(full(name))]
  ELSE get_field(c[CP15_PARSE(full(name))], name.hsb, name.lsb)

\* A field is written alone, without reading the rest of its register.
cp15_write_bug(c, name, value) ==
  IF no_case(name) THEN c
  ELSE IF name = full(name) THEN [c EXCEPT ![CP15_PARSE(full(name))] = value]
  ELSE [c EXCEPT ![CP15_PARSE(full(name))] = set_field({}, name.hsb, name.lsb, value)]

\* The coprocessor after the write; a field is read, modified and written.
cp15_write(c, name, value) ==
  IF no_case(name) THEN c
  ELSE IF name = full(name) THEN [c EXCEPT ![CP15_PARSE(full(name))] = value]
  ELSE [c EXCEPT ![CP15_PARSE(full(name))] =
          set_field(cp15_read(c, full(name)), name.hsb, name.lsb, value)]

(***************************************************************************)
(* 64-bit registers, at <<crm, opc1>>.                                      *)
(***************************************************************************)
setcr64(crm, opc1) == [hsb |-> 63, lsb |-> 0, at |-> <<crm, opc1>>]

cp15_reg_names64 ==
  [TTBR0_LPAE |-> setcr64(2, 0), TTBR1_LPAE |-> setcr64(2, 1),
   HTTBR_LPAE |-> setcr64(2, 4), VTTBR_LPAE |-> setcr64(2, 6),
   VTTBR_LPAE_BADDR |-> setfd(setcr64(2, 6), 39, 0),
   VTTBR_LPAE_VMID  |-> setfd(setcr64(2, 6), 55, 48)]

\* d holds the 64-bit registers; the switch repeats the header's coordinates.
cp15_read64(d, name) == get_field64(d[name.at], name.hsb, name.lsb)

cp15_write64(d, name, value) ==
  [d EXCEPT ![name.at] = IF name = setfd(name, 63, 0) THEN value
                         ELSE set_field64(d[name.at], name.hsb, name.lsb, value)]
=============================================================================

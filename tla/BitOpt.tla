------------------------------- MODULE BitOpt -------------------------------
(***************************************************************************)
(* vmm/bit_opt_v2l.c.  A 32-bit word is the set of the numbers of its bits   *)
(* that are one; &, | and ~ are intersection, union and complement, and a    *)
(* shift drops the bits that leave the word.                                *)
(***************************************************************************)
EXTENDS Integers

Bit  == 0 .. 31
Word == SUBSET Bit

\* The word that holds the number n < 2^31.
Bits(n) == {b \in 0 .. 30 : (n \div 2^b) % 2 = 1}

shl(w, n) == {b \in Bit : b - n \in w}
shr(w, n) == {b \in Bit : b + n \in w}

\* (t << lsb) & (t >> (31 - msb)), t all ones.
mask(msb, lsb)  == (lsb .. 31) \cap (0 .. msb)
imask(msb, lsb) == Bit \ mask(msb, lsb)

get_field(w, msb, lsb) == shr(w \cap mask(msb, lsb), lsb)

get_bit(w, n) == get_field(w, n, n)

\* The old contents of the field are not cleared.
set_field_bug(w, msb, lsb, f) == w \cup (shl(f, lsb) \cap mask(msb, lsb))

set_field(w, msb, lsb, f) ==
  (w \cap imask(msb, lsb)) \cup (shl(f, lsb) \cap mask(msb, lsb))

set_bit(w, n, b) == IF b THEN w \cup mask(n, n) ELSE w \cap imask(n, n)

copy_field(dst, src, msb, lsb) == set_field(dst, msb, lsb, get_field(src, msb, lsb))

copy_bit(dst, src, n) == set_bit(dst, n, get_bit(src, n) # {})
(***************************************************************************)
(* The same on 64-bit words.                                               *)
(***************************************************************************)
Bit64  == 0 .. 63
Word64 == SUBSET Bit64

mask64(msb, lsb)  == (lsb .. 63) \cap (0 .. msb)
imask64(msb, lsb) == Bit64 \ mask64(msb, lsb)

get_field64(w, msb, lsb) == {b \in Bit64 : b + lsb \in w \cap mask64(msb, lsb)}

get_bit64(w, n) == get_field64(w, n, n)

set_field64(w, msb, lsb, f) ==
  (w \cap imask64(msb, lsb)) \cup ({b \in Bit64 : b - lsb \in f} \cap mask64(msb, lsb))

set_bit64(w, n, b) == IF b THEN w \cup mask64(n, n) ELSE w \cap imask64(n, n)
=============================================================================

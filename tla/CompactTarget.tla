--------------------------- MODULE CompactTarget ----------------------------
(***************************************************************************)
(* The arithmetic of PowVerifier (week 6, zcash-scanner-rs/src/lib.rs): a  *)
(* hash and a target are arrays of Width bytes, least significant first;   *)
(* the compact form of a target is an exponent and a mantissa of three     *)
(* bytes whose sign bit is masked.  A byte has Base values (256 in the     *)
(* code, where Width is 32; both are parameters so that the boundaries of  *)
(* the exponent are within reach).                                         *)
(***************************************************************************)
EXTENDS Integers

CONSTANTS Base, Width

ASSUME CompactTargetAssumption ==
  /\ Base \in Nat \ {0, 1} /\ Base % 2 = 0
  /\ Width \in Nat /\ Width >= 3

Digits == [0 .. (Width - 1) -> 0 .. (Base - 1)]
(* What a byte weighs by its place.                                        *)
Power[i \in 0 .. Width] == IF i = 0 THEN 1 ELSE Base * Power[i - 1]
Bits == [exp : Nat, mant : 0 .. (Power[3] - 1)]

(* `bits & 0x007f_ffff`: the top bit of the mantissa is dropped.           *)
Mantissa(bits) == bits.mant % (Power[3] \div 2)
Byte(n, i) == (n \div Power[i]) % Base

(* target_from_bits: the mantissa is placed at byte exp - 3, or shifted    *)
(* down when there is no such byte; beyond the array the target is zero.   *)
Target(bits) ==
  LET shift == bits.exp - 3
      m     == Mantissa(bits)
  IN IF shift <= 0
       THEN [i \in 0 .. (Width - 1) |->
               IF i < 3 THEN Byte(m \div Power[-shift], i) ELSE 0]
       ELSE [i \in 0 .. (Width - 1) |->
               IF shift + 3 <= Width /\ i \in shift .. (shift + 2)
                 THEN Byte(m, i - shift) ELSE 0]

\* Faulty: the loop runs from the least significant byte.
LessFromLow(a, b) ==
  \E i \in 0 .. (Width - 1) :
    a[i] < b[i] /\ \A j \in 0 .. (i - 1) : a[j] = b[j]

(* le_bytes_lt: the highest byte in which the two differ decides.          *)
Less(a, b) ==
  \E i \in 0 .. (Width - 1) :
    a[i] < b[i] /\ \A j \in (i + 1) .. (Width - 1) : a[j] = b[j]

-----------------------------------------------------------------------------
(* The numbers meant: what an array stands for (the sums of its bytes from *)
(* the lowest up), and mantissa * Base^(e-3).                              *)
Sums(d) ==
  LET sum[i \in 0 .. Width] ==
        IF i = 0 THEN 0 ELSE sum[i - 1] + d[i - 1] * Power[i - 1]
  IN sum
NumberOf(d) == Sums(d)[Width]
CompactNumber(bits) ==
  IF bits.exp > Width THEN 0
  ELSE IF bits.exp >= 3 THEN Mantissa(bits) * Power[bits.exp - 3]
                        ELSE Mantissa(bits) \div Power[3 - bits.exp]
=============================================================================

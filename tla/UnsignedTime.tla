---------------------------- MODULE UnsignedTime ----------------------------
(***************************************************************************)
(* Timestamps and the fixed-width subtraction every window of this library *)
(* is built on.  timestamp_t is an unsigned integer, so the difference of  *)
(* two timestamps taken in the wrong order is not negative: it wraps.      *)
(* TimeModulus stands for 2^64; the runs use a small one that is still     *)
(* larger than every time the stream reaches.                              *)
(***************************************************************************)
EXTENDS Integers, Sequences

CONSTANT TimeModulus

ASSUME TimeModulusAssumption == TimeModulus \in Nat \ {0}

\* timestamp_t
Timestamps == 0 .. TimeModulus - 1

\* a - b and a + b on an unsigned type of m values
UIntMinus(a, b, m) == IF a >= b THEN a - b ELSE a - b + m
UIntPlus(a, b, m) == (a + b) % m

\* later - earlier, as the compiled code computes it
elapsed(later, earlier) == UIntMinus(later, earlier, TimeModulus)

\* The test every window makes of an element against a reference time.
fits(t, ref, length) == elapsed(t, ref) < length

=============================================================================

------------------------------- MODULE Numerals -------------------------------
(***************************************************************************)
(* Sums, and numbers by digits, the least significant first: trits packed  *)
(* into a byte of the task file, bytes of a stored target, bits of a byte. *)
(***************************************************************************)
EXTENDS Integers

\* Of the first n summands, from summand 0 on.
Total(summands, n) ==
  LET sum[k \in 0..n] == IF k = 0 THEN 0 ELSE sum[k - 1] + summands[k - 1] IN sum[n]

\* base ^ n.
Weight(base, n) ==
  LET power[k \in 0..n] == IF k = 0 THEN 1 ELSE base * power[k - 1] IN power[n]

\* The number of the n digits from digit 0 on.
Value(base, digits, n) == Total([k \in 0..(n - 1) |-> digits[k] * Weight(base, k)], n)

Bit(x, k) == (x \div Weight(2, k)) % 2

\* x | y, of two bytes.
ByteOr(x, y) ==
  Value(2, [k \in 0..7 |-> IF Bit(x, k) = 1 \/ Bit(y, k) = 1 THEN 1 ELSE 0], 8)
=============================================================================

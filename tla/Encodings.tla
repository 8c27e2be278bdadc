------------------------------ MODULE Encodings ------------------------------
(***************************************************************************)
(* The compression helpers of include/soatable/soatable.hpp that compute   *)
(* with numbers: low_bits_mask, quantized_float and delta_value.  They are *)
(* pure functions of integers of some width, so they are operators here,   *)
(* at a width of digits bits.  Floating point is computed in exact         *)
(* arithmetic, in the thousandths in which the template parameters are     *)
(* given.                                                                  *)
(***************************************************************************)
EXTENDS Integers, Sequences

CONSTANT digits     \* std::numeric_limits<UInt>::digits

ASSUME DigitsAssumption == digits \in Nat \ {0, 1}

(* What the bits stand for, and what one more bit would.                   *)
PowerOfTwo ==
  LET power[n \in 0 .. digits] == IF n = 0 THEN 1 ELSE 2 * power[n - 1]
  IN  power

Width == PowerOfTwo[digits]

(* x << n and, in BitHelpers, x >> n for an unsigned type of that width.   *)
(* A shift by the width or more is undefined; the machine takes the count  *)
(* modulo it.                                                              *)
Shl(x, n) == (x * PowerOfTwo[n % digits]) % Width

low_bits_mask(bits) ==
  IF bits >= digits THEN Width - 1
  ELSE IF bits = 0 THEN 0
  ELSE Shl(1, bits) - 1

-----------------------------------------------------------------------------
Clamp(x, lo, hi) == IF x < lo THEN lo ELSE IF x > hi THEN hi ELSE x

(* The integer below n / d + 1/2, for n >= 0.                              *)
Rounded(n, d) == (2 * n + d) \div (2 * d)

(* quantized_float<StorageType, MinM1000, MaxM1000, Bits>::set             *)
quantized_set(q, value) ==
  LET max_val == low_bits_mask(q.bits)
      clamped == Clamp(value, q.min, q.max)
      quantized == Rounded((clamped - q.min) * max_val, q.max - q.min) % Width
  IN  IF quantized < max_val THEN quantized ELSE max_val

(* get() - Min, in units of (Max - Min) / MaxVal.                          *)
quantized_get(q, quantized) == quantized * (q.max - q.min)

(* The range of DeltaType, which is signed.                                *)
min_value == -PowerOfTwo[digits - 1]
max_value == PowerOfTwo[digits - 1] - 1

(* Mutant: converted before it is clamped.                                 *)
GetDeltaWraps(m_value, new_value, scale) ==
  LET diff == new_value - m_value
      rounded == IF diff >= 0 THEN Rounded(diff, scale) ELSE -Rounded(-diff, scale)
  IN  ((rounded - min_value) % Width) + min_value

(* delta_value::get_delta: rounded half away from zero, then clamped.      *)
get_delta(m_value, new_value, scale) ==
  LET diff == new_value - m_value
      rounded == IF diff >= 0 THEN Rounded(diff, scale) ELSE -Rounded(-diff, scale)
  IN  Clamp(rounded, min_value, max_value)

apply_delta(m_value, delta, scale) == m_value + delta * scale

-----------------------------------------------------------------------------
(* What the runs ask of them.                                              *)

Distance(x, y) == IF x < y THEN y - x ELSE x - y

(* The tracked value after each of the readings has been sent as a delta.  *)
Tracked(readings, scale) ==
  LET after[i \in 0 .. Len(readings)] ==
        IF i = 0 THEN 0
        ELSE apply_delta(after[i - 1], get_delta(after[i - 1], readings[i], scale), scale)
  IN  after

DeltasNearest(readings, scale) ==
  LET after == Tracked(readings, scale)
  IN  \A i \in DOMAIN readings, delta \in min_value .. max_value :
        Distance(after[i], readings[i])
          <= Distance(apply_delta(after[i - 1], delta, scale), readings[i])

QuantizedNearest(q, value) ==
  LET exact == (Clamp(value, q.min, q.max) - q.min) * low_bits_mask(q.bits)
      read  == quantized_get(q, quantized_set(q, value))
  IN  /\ 2 * Distance(read, exact) <= q.max - q.min
      /\ value <= q.min \/ value >= q.max => read = exact
=============================================================================

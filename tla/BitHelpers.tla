----------------------------- MODULE BitHelpers -----------------------------
(***************************************************************************)
(* The bit helpers of include/soatable/soatable.hpp: packed_bits,          *)
(* dirty_mask and bitmap, at a width of digits bits.                       *)
(***************************************************************************)
EXTENDS Encodings, SequencesExt

Positions == 0 .. digits - 1
Word      == 0 .. Width - 1

Shr(x, n) == x \div PowerOfTwo[n % digits]

(* The bits that are 1, of a number too large or negative those that a     *)
(* conversion to the type keeps.                                           *)
SetBits(x) == {i \in Positions : Shr(x, i) % 2 = 1}

(* The words by their bits, and what C++ has on them.                      *)
WordOf == [S \in SUBSET Positions |-> CHOOSE x \in Word : SetBits(x) = S]

x & y == WordOf[SetBits(x) \cap SetBits(y)]
x | y == WordOf[SetBits(x) \cup SetBits(y)]

Complement(x)  == WordOf[Positions \ SetBits(x)]
popcount(x)    == Cardinality(SetBits(x))
countr_zero(x) == Min(SetBits(x))

-----------------------------------------------------------------------------
(* packed_bits<ContainerType, ValueType, Offset, Bits>                     *)
Fields == {f \in [offset : Positions, bits : 1 .. digits] : f.offset + f.bits <= digits}

ValueMask(f) == Shl(low_bits_mask(f.bits), f.offset)

(* Mutant: a value that is too large spills over the field.                *)
PackedSpills(f, container, value) ==
  (container & Complement(ValueMask(f))) | Shl(value % Width, f.offset)

packed_set(f, container, value) ==
  (container & Complement(ValueMask(f)))
    | (Shl(value % Width, f.offset) & ValueMask(f))

packed_get(f, container) == Shr(container & ValueMask(f), f.offset)

(* dirty_mask: flags are the values of an enum.                            *)
mark_dirty(mask, flag)  == mask | flag
clear_dirty(mask, flag) == mask & Complement(flag)
is_dirty(mask, flag)    == (mask & flag) # 0

-----------------------------------------------------------------------------
(* bitmap: bits_per_word is digits.                                        *)
bitmap(bit_count) ==
  [k \in 1 .. ((bit_count + digits - 1) \div digits) |-> 0]

bitmap_set(words, i) ==
  [words EXCEPT ![i \div digits + 1] = @ | Shl(1, i % digits)]

bitmap_test(words, i) ==
  (Shr(words[i \div digits + 1], i % digits) & 1) # 0

bitmap_count(words) ==
  LET total[k \in 0 .. Len(words)] ==
        IF k = 0 THEN 0 ELSE total[k - 1] + popcount(words[k])
  IN  total[Len(words)]

(* The inner loop of for_each_set.                                         *)
Visited[remaining \in Word] ==
  IF remaining = 0 THEN <<>>
  ELSE <<countr_zero(remaining)>> \o Visited[remaining & (remaining - 1)]

(* Mutant: the position within the word.                                   *)
ForEachSetInWord(words) == FlattenSeq([k \in DOMAIN words |-> Visited[words[k]]])

for_each_set(words) ==
  FlattenSeq([k \in DOMAIN words |->
    LET bits == Visited[words[k]]
    IN  [j \in DOMAIN bits |-> (k - 1) * digits + bits[j]]])

-----------------------------------------------------------------------------
(* What the runs ask of the helpers.                                       *)

MaskExact ==
  \A bits \in 0 .. 2 * digits : SetBits(low_bits_mask(bits)) = {i \in Positions : i < bits}

(* The positions of a field, and the ways to lay out fields side by side,  *)
(* with or without gaps, in any order.                                     *)
Within(f) == f.offset .. f.offset + f.bits - 1

Layouts ==
  UNION {{fields \in [1 .. n -> Fields] :
            \A i, j \in 1 .. n : i # j => Within(fields[i]) \cap Within(fields[j]) = {}}
         : n \in 0 .. digits}

(* The values stored one after the other, each in its field.               *)
Packed(container, fields, values) ==
  LET after[i \in 0 .. Len(fields)] ==
        IF i = 0 THEN container ELSE packed_set(fields[i], after[i - 1], values[i])
  IN  after[Len(fields)]

ReadBack(container, fields, values) ==
  LET packed == Packed(container, fields, values)
      taken  == UNION {Within(fields[i]) : i \in DOMAIN fields}
  IN  /\ \A i \in DOMAIN fields :
           packed_get(fields[i], packed) = values[i] % PowerOfTwo[fields[i].bits]
      /\ SetBits(packed) \ taken = SetBits(container) \ taken

PackedApart(values) ==
  \A fields \in {l \in Layouts : DOMAIN l = DOMAIN values}, container \in {0, Width - 1} :
    ReadBack(container, fields, values)

(* An enumerator stands for one bit.                                       *)
Flag(position) == Shl(1, position)

Marked(positions) ==
  LET mask[i \in 0 .. Len(positions)] ==
        IF i = 0 THEN 0 ELSE mark_dirty(mask[i - 1], Flag(positions[i]))
  IN  mask[Len(positions)]

FlagsApart(positions) ==
  \A p, other \in Positions :
    /\ is_dirty(Marked(positions), Flag(p)) <=> p \in ToSet(positions)
    /\ is_dirty(clear_dirty(Marked(positions), Flag(other)), Flag(p))
         <=> p \in ToSet(positions) \ {other}

(* The bitmap with a bit for each value that is not 0.                     *)
NonZero(values) == {i \in 0 .. Len(values) - 1 : values[i + 1] # 0}

BitmapOf(values) ==
  LET words[i \in 0 .. Len(values)] ==
        IF i = 0 THEN bitmap(Len(values))
        ELSE IF values[i] # 0 THEN bitmap_set(words[i - 1], i - 1)
        ELSE words[i - 1]
  IN  words[Len(values)]

BitmapAgrees(values) ==
  LET words  == BitmapOf(values)
      S      == NonZero(values)
      visits == for_each_set(words)
  IN  /\ \A i \in 0 .. Len(values) - 1 : bitmap_test(words, i) <=> i \in S
      /\ bitmap_count(words) = Cardinality(S)
      /\ ToSet(visits) = S
      /\ \A j, k \in DOMAIN visits : j < k => visits[j] < visits[k]
=============================================================================

---------------------------- MODULE ColumnHelpers ----------------------------
(* ColumnCompute and the helpers that take values: the values they are     *)
(* given are the elements the column holds, so that they are tried on      *)
(* every vector the column can be.                                         *)
EXTENDS ColumnCompute, BitHelpers, TimeSeries

(* The elements are of the unsigned type that the windows are summed in.   *)
ASSUME ElementsAssumption == Values \subseteq 0 .. Modulus - 1

(* The column has changed since the last call: it is every vector then.    *)
Idle == caller.pc = "free"

(* What is read back is the nearest that can be represented.  A quantized  *)
(* value is off by at most half a step, and exact at the ends of the range *)
(* and beyond, where it is clamped.  get_delta returns "the delta that,    *)
(* when applied, brings the current value closest to new_value", all along *)
(* a stream of readings, those that no delta reaches included.             *)
EncodingsNearest ==
  Idle =>
    /\ \A scale \in 1 .. 3, spread \in {1, 5, 13} :
         DeltasNearest([i \in DOMAIN Elements |-> spread * (Elements[i] - 1)], scale)
    /\ \A q \in [min : {-3, 0}, max : {1, 7}, bits : 1 .. digits] :
         \A i \in DOMAIN Elements :
           \A shift \in {-5, -2, 0, 1, 4, 6} : QuantizedNearest(q, Elements[i] + shift)

(* Adding what comes in and taking off what goes out is the sum of the     *)
(* window, wrap-around included; the mean divides by the values there are, *)
(* fewer at the start; and the deltas add up to the way from the first     *)
(* value to each.                                                          *)
WindowsExact == Idle => \A window \in 0 .. MaxSize + 1 : WindowExact(Elements, window)

(* Values stored in fields of one container, one after the other, read     *)
(* back modulo the size of their fields, whatever the layout: a value too  *)
(* large for its field, or a negative one, does not reach its neighbours,  *)
(* and the bits beyond the fields stay.  The flags of a dirty_mask are as  *)
(* independent, and low_bits_mask has the bits below the count, at the     *)
(* width of the type and beyond it too, where a shift alone would be       *)
(* undefined.                                                              *)
FieldsIndependent ==
  Idle => /\ MaskExact
          /\ PackedApart(Elements)
          /\ PackedApart([i \in DOMAIN Elements |-> -Elements[i]])
          /\ FlagsApart([i \in DOMAIN Elements |-> Elements[i] % digits])

(* Whatever the number of bits, a multiple of the word or not: the bits    *)
(* set are the ones that test, count and for_each_set report, the last in  *)
(* ascending order and once each.                                          *)
BitmapExact == Idle => BitmapAgrees(Elements)
=============================================================================

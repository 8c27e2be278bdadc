----------------------------- MODULE TimeSeries -----------------------------
(***************************************************************************)
(* The rolling windows and differences of include/soatable/timeseries.hpp, *)
(* over values of an unsigned type of Modulus values.                      *)
(***************************************************************************)
EXTENDS Integers, SequencesExt

CONSTANT Modulus     \* arithmetic wraps around at

ASSUME ModulusAssumption == Modulus \in Nat \ {0}

Effective(window) == IF window = 0 THEN 1 ELSE window

(* Mutant: the window is one too long.                                     *)
RunningTotalLong(input, window) ==
  LET running[i \in 0 .. Len(input)] ==
        IF i = 0 THEN 0
        ELSE running[i - 1] + input[i]
             - (IF i - 1 > Effective(window) THEN input[i - Effective(window)] ELSE 0)
  IN  running

(* running at the end of each turn of the loop: the new value goes in, the *)
(* one that leaves the window goes out.                                    *)
RunningTotal(input, window) ==
  LET running[i \in 0 .. Len(input)] ==
        IF i = 0 THEN 0
        ELSE running[i - 1] + input[i]
             - (IF i - 1 >= Effective(window) THEN input[i - Effective(window)] ELSE 0)
  IN  running

rolling_sum(input, window) ==
  [i \in DOMAIN input |-> RunningTotal(input, window)[i] % Modulus]

(* The mean as the pair of what is divided by what.                        *)
rolling_mean(input, window) ==
  [i \in DOMAIN input |->
     <<RunningTotal(input, window)[i],
       IF i < Effective(window) THEN i ELSE Effective(window)>>]

deltas(input) ==
  [i \in DOMAIN input |->
     IF i = 1 THEN 0 ELSE (input[i] - input[i - 1]) % Modulus]

-----------------------------------------------------------------------------
(* The values of the window that ends at i.                                *)
Window(input, window, i) ==
  SubSeq(input, IF i > Effective(window) THEN i - Effective(window) + 1 ELSE 1, i)

SumOf(seq) ==
  LET sum[i \in 0 .. Len(seq)] == IF i = 0 THEN 0 ELSE sum[i - 1] + seq[i]
  IN  sum[Len(seq)]

WindowExact(input, window) ==
  \A i \in DOMAIN input :
    LET values == Window(input, window, i)
    IN  /\ rolling_sum(input, window)[i] = SumOf(values) % Modulus
        /\ rolling_mean(input, window)[i] = <<SumOf(values), Len(values)>>
        /\ (input[1] + SumOf(SubSeq(deltas(input), 1, i))) % Modulus = input[i]
=============================================================================

------------------------------- MODULE Chrono -------------------------------
(***************************************************************************)
(* detail/impl/chrono.hpp: checked conversions between durations, and the   *)
(* split of a file time into a whole number of seconds and the ticks (ns)   *)
(* within a second.  All representations are two's complement numbers of    *)
(* one width; RepMax stands for INT64_MAX and Hz for the 10^9 ticks of a    *)
(* second, which do not divide RepMax + 1.                                  *)
(***************************************************************************)
EXTENDS Integers

CONSTANTS RepMax, Hz

ASSUME RepAssumption == RepMax \in Nat /\ Hz \in 2..RepMax /\ (RepMax + 1) % Hz # 0

RepMin == -RepMax - 1
Rep == RepMin..RepMax
Quot(a, b) == IF a >= 0 THEN a \div b ELSE -((-a) \div b)      \* C++ division
Wrap(x) == ((x - RepMin) % (RepMax - RepMin + 1)) + RepMin

Failed == [ok |-> FALSE, v |-> 0]
Is(v) == [ok |-> TRUE, v |-> v]
InRep(v) == IF v \in Rep THEN Is(v) ELSE Failed

\* num / den is the ratio of the two periods.
safe_duration_cast(in, num, den) ==
  IF den = 1 THEN IF Quot(RepMin, num) <= in /\ in <= Quot(RepMax, num)
                  THEN Is(in * num) ELSE Failed
  ELSE IF num = 1 THEN InRep(Quot(in, den))
  ELSE InRep(Quot(Wrap(in * num), den))

\* time_pair_values: the pairs at the ends of the range of a time.
max_first == Quot(RepMax, Hz)
min_first == Quot(RepMin, Hz)
max_second == RepMax - max_first * Hz
min_second == RepMin - min_first * Hz + Hz

\* <<seconds, ticks>> with 0 <= ticks < Hz.
decompose_time(in) ==
  LET f == safe_duration_cast(in, 1, Hz).v
      s == in - f * Hz IN
  IF s >= 0 THEN Is(<<f, s>>)
  ELSE IF f > min_first \/ (RepMin # min_first /\ f = min_first)
       THEN Is(<<f - 1, s + Hz>>)
       ELSE Failed

compose_loose(first, second) ==   \* mutant: only the seconds are compared
  IF first <= max_first /\ first >= min_first THEN Is(Wrap(first * Hz + second)) ELSE Failed

\* The bound for other negative seconds is min_second, not min_first.
compose_time(first, second) ==
  IF first >= 0
  THEN IF first < max_first \/ (first = max_first /\ second <= max_second)
       THEN Is(Wrap(first * Hz + second)) ELSE Failed
  ELSE IF IF RepMin # min_first /\ first = min_first - 1 THEN second < min_second
                                                         ELSE first < min_second
       THEN Failed
       ELSE Is(IF second = 0 THEN Wrap(first * Hz)
               ELSE Wrap((first + 1) * Hz - (Hz - second)))
=============================================================================

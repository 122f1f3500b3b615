--------------------------- MODULE CandleTheorems ---------------------------
(* Lemmas about Align, the grid of windows every candle starts on.            *)
EXTENDS Candle, TLAPS

LEMMA TimesMonotonic ==
  ASSUME NEW a \in Nat, NEW b \in Nat, NEW d \in Nat \ {0}, a < b
  PROVE  a * d + d <= b * d
OBVIOUS

(* A tick lies in the window it is aligned to: not before its start, and before
   its end (AlignToInterval, newCandleState). *)
LEMMA AlignWindow ==
  ASSUME NEW ts \in Nat, NEW d \in Nat \ {0}
  PROVE  /\ Align(ts, d) \in Nat
         /\ Align(ts, d) <= ts
         /\ ts < Align(ts, d) + d
BY DEF Align

LEMMA AlignMultiple ==
  ASSUME NEW k \in Nat, NEW d \in Nat \ {0}
  PROVE  Align(k * d, d) = k * d
<1> DEFINE q == (k * d) \div d
<1>1. k * d \in Nat
  OBVIOUS
<1>2. q \in Nat /\ q * d <= k * d /\ k * d < q * d + d
  BY <1>1, AlignWindow DEF Align
<1>3. ~(q < k)
  BY <1>2, TimesMonotonic
<1>4. ~(k < q)
  BY <1>2, TimesMonotonic
<1> QED
  BY <1>2, <1>3, <1>4 DEF Align

(* Aligning what is aligned changes nothing: DeleteAt aligns a bar's start again
   and reaches the key Save wrote. *)
LEMMA AlignTwice ==
  ASSUME NEW ts \in Nat, NEW d \in Nat \ {0}
  PROVE  Align(Align(ts, d), d) = Align(ts, d)
<1>1. ts \div d \in Nat
  OBVIOUS
<1> QED
  BY <1>1, AlignMultiple DEF Align

(* An instant in the window that starts at s is aligned to s. *)
LEMMA AlignUnique ==
  ASSUME NEW ts \in Nat, NEW s \in Nat, NEW d \in Nat \ {0},
         Align(s, d) = s, s <= ts, ts < s + d
  PROVE  Align(ts, d) = s
<1> DEFINE p == ts \div d
           q == s \div d
<1>1. /\ p \in Nat /\ p * d <= ts /\ ts < p * d + d
  BY AlignWindow DEF Align
<1>2. q \in Nat /\ q * d = s
  BY DEF Align
<1>3. ~(p < q)
  BY <1>1, <1>2, TimesMonotonic
<1>4. ~(q < p)
  BY <1>1, <1>2, TimesMonotonic
<1> QED
  BY <1>1, <1>2, <1>3, <1>4 DEF Align
=============================================================================

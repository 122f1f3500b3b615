----------------------------- MODULE MCAggregator -----------------------------
(* Instances of Aggregator for TLC.  Alone, the interval lasts two instants; two  *)
(* intervals nest as 5m and 15m do, the unit being five minutes: a tick that ends  *)
(* a bar of the shorter one leaves the other's open.                               *)
EXTENDS Aggregator, TLC

CONSTANTS s1

OneInterval == {1}
TwoIntervals == {1, 2}
const_Dur1 == 1 :> 2
const_Dur2 == 1 :> 1 @@ 2 :> 3

Once(ks) == [k \in Kinds |-> IF k \in ks THEN 1 ELSE 0]

Faults == Once({"crash", "io"})
Disorder == Once({"session", "clock"})
OneCrash == Once({"crash"})
OneStop == Once({"stop"})
=============================================================================

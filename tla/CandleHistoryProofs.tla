------------------------- MODULE CandleHistoryProofs -------------------------
(* Theorems about CandleHistory, for every set of prices, volumes and instants *)
(* and every duration.                                                         *)
EXTENDS CandleHistory, CandleTheorems

Inv == TypeOK /\ WindowOfFirstTick /\ SummarisesPrices

(* A function that runs over the ticks and adds up their volumes.  There is one *)
(* and each gives the bar's volume: stated of a state, this needs no induction  *)
(* over the ticks, as a step only adds the last of them.                        *)
Running(f) ==
  f = [i \in 0 .. Len(ticks) |->
         IF i = 0 THEN 0 ELSE f[i - 1] + ticks[i].volume]
VolumeInv ==
  /\ \E f : Running(f)
  /\ \A f : Running(f) => f[Len(ticks)] = bar.volume

LEMMA FirstTick == Init => Inv
<1> SUFFICES ASSUME NEW t \in Ticks,
                    bar = NewBar(t.ts, t.price, t.volume, Dur), ticks = <<t>>
             PROVE  Inv
  BY DEF Init
<1> USE CandleHistoryAssumption
<1>1. t.ts \in Nat /\ t.price \in Int /\ t.volume \in Nat
  BY DEF Ticks
<1>2. ticks \in Seq(Ticks) /\ ticks # <<>> /\ Len(ticks) = 1 /\ ticks[1] = t
  OBVIOUS
<1>3. /\ Align(t.ts, Dur) \in Nat /\ Align(t.ts, Dur) <= t.ts
      /\ t.ts < Align(t.ts, Dur) + Dur
      /\ Align(Align(t.ts, Dur), Dur) = Align(t.ts, Dur)
  BY <1>1, AlignWindow, AlignTwice
<1>4. TypeOK
  BY <1>1, <1>2, <1>3 DEF TypeOK, NewBar
<1>5. WindowOfFirstTick
  BY <1>2, <1>3 DEF WindowOfFirstTick, NewBar
<1>6. SummarisesPrices
  BY <1>1, <1>2 DEF SummarisesPrices, NewBar
<1> QED
  BY <1>4, <1>5, <1>6 DEF Inv

LEMMA NextTick == Inv /\ Update => Inv'
<1> SUFFICES ASSUME Inv, NEW t \in Ticks,
                    bar' = Updated(bar, t.price, t.volume),
                    ticks' = Append(ticks, t)
             PROVE  Inv'
  BY DEF Update
<1> USE CandleHistoryAssumption
<1>1. t.ts \in Nat /\ t.price \in Int /\ t.volume \in Nat
  BY DEF Ticks
<1>2. /\ ticks \in Seq(Ticks) /\ ticks # <<>> /\ Len(ticks) \in Nat \ {0}
      /\ ticks' \in Seq(Ticks) /\ ticks' # <<>>
      /\ Len(ticks') = Len(ticks) + 1
      /\ ticks'[Len(ticks')] = t
      /\ \A i \in 1 .. Len(ticks) : ticks'[i] = ticks[i]
  BY DEF Inv, TypeOK
<1>3. ASSUME NEW i \in 1 .. Len(ticks)
      PROVE  ticks[i].price \in Int
  <2>1. ticks[i] \in Ticks
    BY <1>2
  <2> QED
    BY <2>1 DEF Ticks
<1>4. TypeOK'
  <2>1. bar'.volume = bar.volume + t.volume /\ bar.volume \in Nat
    BY DEF Inv, TypeOK, Updated
  <2>2. bar' = [ start |-> bar.start, end |-> bar.end, open |-> bar.open,
                 high |-> bar'.high, low |-> bar'.low, close |-> t.price,
                 volume |-> bar'.volume, complete |-> bar.complete ]
    BY DEF Inv, TypeOK, Updated
  <2>3. bar'.high \in Int /\ bar'.low \in Int
    BY <1>1 DEF Inv, TypeOK, Updated
  <2>4. /\ bar.start \in Nat /\ bar.end \in Nat /\ bar.open \in Int
        /\ bar.complete \in BOOLEAN
    BY DEF Inv, TypeOK
  <2>5. bar'.volume \in Nat
    BY <1>1, <2>1
  <2> QED
    BY <1>1, <1>2, <2>2, <2>3, <2>4, <2>5 DEF TypeOK
<1>5. WindowOfFirstTick'
  BY <1>2 DEF Inv, TypeOK, WindowOfFirstTick, Updated
<1>6. SummarisesPrices'
  <2>1. /\ bar'.open = bar.open /\ bar'.close = t.price
        /\ bar'.high = IF t.price > bar.high THEN t.price ELSE bar.high
        /\ bar'.low = IF t.price < bar.low THEN t.price ELSE bar.low
        /\ bar.high \in Int /\ bar.low \in Int
    BY DEF Inv, TypeOK, Updated
  <2>2. bar'.open = ticks'[1].price /\ bar'.close = ticks'[Len(ticks')].price
    BY <1>2, <2>1 DEF Inv, SummarisesPrices
  <2>3. ASSUME NEW i \in 1 .. Len(ticks')
        PROVE  bar'.low <= ticks'[i].price /\ ticks'[i].price <= bar'.high
    <3>1. CASE i = Len(ticks')
      BY <3>1, <1>1, <1>2, <2>1
    <3>2. CASE i # Len(ticks')
      <4>1. i \in 1 .. Len(ticks) /\ ticks'[i] = ticks[i]
        BY <3>2, <1>2
      <4>2. /\ ticks[i].price \in Int
            /\ bar.low <= ticks[i].price /\ ticks[i].price <= bar.high
        BY <4>1, <1>3 DEF Inv, SummarisesPrices
      <4>3. /\ bar'.low <= bar.low /\ bar.high <= bar'.high
            /\ bar'.low \in Int /\ bar'.high \in Int
        BY <1>1, <2>1
      <4> QED
        BY <4>1, <4>2, <4>3, <2>1
    <3> QED
      BY <3>1, <3>2
  <2>4. \E i \in 1 .. Len(ticks') : bar'.high = ticks'[i].price
    <3>1. CASE t.price > bar.high
      BY <3>1, <1>2, <2>1
    <3>2. CASE ~(t.price > bar.high)
      BY <3>2, <1>2, <2>1 DEF Inv, SummarisesPrices
    <3> QED
      BY <3>1, <3>2
  <2>5. \E i \in 1 .. Len(ticks') : bar'.low = ticks'[i].price
    <3>1. CASE t.price < bar.low
      BY <3>1, <1>2, <2>1
    <3>2. CASE ~(t.price < bar.low)
      BY <3>2, <1>2, <2>1 DEF Inv, SummarisesPrices
    <3> QED
      BY <3>1, <3>2
  <2> QED
    BY <2>2, <2>3, <2>4, <2>5 DEF SummarisesPrices
<1> QED
  BY <1>4, <1>5, <1>6 DEF Inv

LEMMA Inductive == Inv /\ [Next]_vars => Inv'
<1> SUFFICES ASSUME Inv, [Next]_vars
             PROVE  Inv'
  OBVIOUS
<1>1. CASE Update
  BY <1>1, NextTick
<1>2. CASE Restore
  BY <1>2 DEF Inv, TypeOK, WindowOfFirstTick, SummarisesPrices, Restore, Restored
<1>3. CASE Flush
  BY <1>3 DEF Inv, TypeOK, WindowOfFirstTick, SummarisesPrices, Flush
<1>4. CASE UNCHANGED vars
  BY <1>4 DEF Inv, TypeOK, WindowOfFirstTick, SummarisesPrices, vars
<1> QED
  BY <1>1, <1>2, <1>3, <1>4 DEF Next

(* The window of a bar is the grid window of its first tick. *)
THEOREM WindowCorrect == Spec => []WindowOfFirstTick
<1>1. Inv => WindowOfFirstTick
  BY DEF Inv
<1> QED
  BY <1>1, FirstTick, Inductive, PTL DEF Spec

(* Open, close, high and low are those of the ticks the bar has taken, for
   candleState.update, after any number of restores from Redis. *)
THEOREM PricesCorrect == Spec => []SummarisesPrices
<1>1. Inv => SummarisesPrices
  BY DEF Inv
<1> QED
  BY <1>1, FirstTick, Inductive, PTL DEF Spec
(* The first tick is the whole sum.                                            *)
LEMMA FirstVolume == Init => VolumeInv
<1> SUFFICES ASSUME NEW t \in Ticks,
                    bar = NewBar(t.ts, t.price, t.volume, Dur), ticks = <<t>>
             PROVE  VolumeInv
  BY DEF Init
<1>1. /\ t.volume \in Nat /\ bar.volume = t.volume
      /\ Len(ticks) = 1 /\ ticks[1] = t
  BY CandleHistoryAssumption DEF Ticks, NewBar
<1>2. \E f : Running(f)
  <2> DEFINE g == [i \in 0 .. 1 |-> IF i = 0 THEN 0 ELSE t.volume]
  <2>1. g = [i \in 0 .. 1 |-> IF i = 0 THEN 0 ELSE g[i - 1] + ticks[i].volume]
    <3>1. ASSUME NEW i \in 0 .. 1, i # 0
          PROVE  g[i - 1] + ticks[i].volume = t.volume
      <4>1. i = 1 /\ i - 1 = 0
        BY <3>1
      <4> QED
        BY <4>1, <1>1
    <3> QED
      BY <3>1
  <2>2. Running(g)
    BY <2>1, <1>1 DEF Running
  <2> QED
    BY <2>2
<1>3. ASSUME NEW f, Running(f)
      PROVE  f[Len(ticks)] = bar.volume
  <2>1. f = [i \in 0 .. 1 |-> IF i = 0 THEN 0 ELSE f[i - 1] + ticks[i].volume]
    BY <1>1, <1>3 DEF Running
  <2>2. f[0] = 0 /\ f[1] = f[0] + ticks[1].volume
    BY <2>1
  <2> QED
    BY <2>2, <1>1
<1> QED
  BY <1>2, <1>3 DEF VolumeInv

(* A tick more: the sum is that of the ticks before it, and its own volume.    *)
LEMMA NextVolume == Inv /\ VolumeInv /\ Update => VolumeInv'
<1> SUFFICES ASSUME Inv, VolumeInv, NEW t \in Ticks,
                    bar' = Updated(bar, t.price, t.volume),
                    ticks' = Append(ticks, t)
             PROVE  VolumeInv'
  BY DEF Update
<1> DEFINE n == Len(ticks)
<1>1. /\ t.volume \in Nat /\ n \in Nat /\ Len(ticks') = n + 1
      /\ ticks'[n + 1] = t /\ \A i \in 1 .. n : ticks'[i] = ticks[i]
      /\ bar'.volume = bar.volume + t.volume
  <2>1. t.volume \in Nat
    BY CandleHistoryAssumption DEF Ticks
  <2>2. /\ n \in Nat /\ Len(ticks') = n + 1
        /\ ticks'[n + 1] = t /\ \A i \in 1 .. n : ticks'[i] = ticks[i]
    BY DEF Inv, TypeOK
  <2>3. bar'.volume = bar.volume + t.volume
    BY DEF Inv, TypeOK, Updated
  <2> QED
    BY <2>1, <2>2, <2>3
<1> HIDE DEF n
<1>2. (\E f : Running(f))'
  <2>1. PICK f : Running(f)
    BY DEF VolumeInv
  <2> DEFINE g == [i \in 0 .. n + 1 |-> IF i <= n THEN f[i] ELSE f[n] + t.volume]
  <2>2. f = [i \in 0 .. n |-> IF i = 0 THEN 0 ELSE f[i - 1] + ticks[i].volume]
    BY <2>1 DEF Running, n
  <2>3. ASSUME NEW i \in 0 .. n + 1
        PROVE  g[i] = IF i = 0 THEN 0 ELSE g[i - 1] + ticks'[i].volume
    <3>1. CASE i = 0
      <4>1. f[0] = 0
        BY <2>2, <1>1
      <4> QED
        BY <3>1, <4>1, <1>1
    <3>2. CASE i \in 1 .. n
      <4>1. /\ f[i] = f[i - 1] + ticks[i].volume /\ ticks'[i] = ticks[i]
            /\ i # 0 /\ i - 1 \in 0 .. n + 1
        BY <2>2, <3>2, <1>1
      <4>2. g[i] = f[i] /\ g[i - 1] = f[i - 1]
        BY <3>2, <1>1
      <4> QED
        BY <4>1, <4>2
    <3>3. CASE i = n + 1
      <4>1. /\ g[i] = f[n] + t.volume /\ i # 0 /\ i - 1 = n
            /\ g[n] = f[n] /\ ticks'[i] = t
        BY <3>3, <1>1
      <4> QED
        BY <4>1
    <3> QED
      BY <3>1, <3>2, <3>3, <1>1
  <2>4. g = [i \in 0 .. n + 1 |-> IF i = 0 THEN 0 ELSE g[i - 1] + ticks'[i].volume]
    <3> DEFINE h == [i \in 0 .. n + 1 |->
                       IF i = 0 THEN 0 ELSE g[i - 1] + ticks'[i].volume]
    <3>1. \A i \in 0 .. n + 1 : g[i] = h[i]
      BY <2>3
    <3> QED
      BY <3>1
  <2> HIDE DEF g
  <2>5. \E f2 : f2 = [i \in 0 .. n + 1 |->
                       IF i = 0 THEN 0 ELSE f2[i - 1] + ticks'[i].volume]
    BY <2>4
  <2>6. PICK f2 : f2 = [i \in 0 .. n + 1 |->
                          IF i = 0 THEN 0 ELSE f2[i - 1] + ticks'[i].volume]
    BY <2>5
  <2>7. Running(f2)'
    BY <2>6, <1>1 DEF Running
  <2> QED
    BY <2>7
<1>3. ASSUME NEW f, Running(f)'
      PROVE  f[Len(ticks')] = bar'.volume
  <2>1. f = [i \in 0 .. n + 1 |-> IF i = 0 THEN 0 ELSE f[i - 1] + ticks'[i].volume]
    BY <1>1, <1>3 DEF Running
  <2> DEFINE g == [i \in 0 .. n |-> f[i]]
  <2>2. ASSUME NEW i \in 0 .. n
        PROVE  g[i] = IF i = 0 THEN 0 ELSE g[i - 1] + ticks[i].volume
    <3>1. CASE i = 0
      BY <3>1, <2>1, <1>1
    <3>2. CASE i # 0
      <4>1. /\ i \in 0 .. n + 1 /\ i - 1 \in 0 .. n /\ ticks'[i] = ticks[i]
        BY <3>2, <1>1
      <4>2. f[i] = f[i - 1] + ticks'[i].volume
        BY <2>1, <3>2, <4>1
      <4> QED
        BY <3>2, <4>1, <4>2
    <3> QED
      BY <3>1, <3>2
  <2>3. g = [i \in 0 .. n |-> IF i = 0 THEN 0 ELSE g[i - 1] + ticks[i].volume]
    <3> DEFINE h == [i \in 0 .. n |->
                       IF i = 0 THEN 0 ELSE g[i - 1] + ticks[i].volume]
    <3>1. \A i \in 0 .. n : g[i] = h[i]
      BY <2>2
    <3> QED
      BY <3>1
  <2>4. g[n] = f[n]
    BY <1>1
  <2> HIDE DEF g
  <2>5. g[n] = bar.volume
    BY <2>3 DEF VolumeInv, Running, n
  <2>6. f[n + 1] = f[n] + t.volume
    <3>1. n + 1 \in 0 .. n + 1 /\ n + 1 # 0 /\ (n + 1) - 1 = n
      BY <1>1
    <3> QED
      BY <2>1, <3>1, <1>1
  <2> QED
    BY <2>4, <2>5, <2>6, <1>1
<1> QED
  BY <1>2, <1>3 DEF VolumeInv

(* The volume of a bar is the sum over its ticks, for newCandleState and
   candleState.update, after any number of restores from Redis. *)
THEOREM VolumeCorrect == Spec => []SumsVolumes
<1>1. Inv /\ VolumeInv /\ [Next]_vars => VolumeInv'
  <2> SUFFICES ASSUME Inv, VolumeInv, [Next]_vars
               PROVE  VolumeInv'
    OBVIOUS
  <2>1. CASE Update
    BY <2>1, NextVolume
  <2>2. ASSUME ticks' = ticks, bar'.volume = bar.volume
        PROVE  VolumeInv'
    BY <2>2 DEF VolumeInv, Running
  <2>3. CASE Restore \/ Flush \/ UNCHANGED vars
    <3>1. ticks' = ticks /\ bar'.volume = bar.volume
      BY <2>3 DEF Inv, TypeOK, Restore, Restored, Flush, vars
    <3> QED
      BY <3>1, <2>2
  <2> QED
    BY <2>1, <2>3 DEF Next
<1>2. VolumeInv => SumsVolumes
  <2> SUFFICES ASSUME VolumeInv
               PROVE  SumsVolumes
    OBVIOUS
  <2> DEFINE total == CHOOSE f : Running(f)
  <2>1. Running(total)
    BY DEF VolumeInv
  <2>2. total[Len(ticks)] = bar.volume
    BY <2>1 DEF VolumeInv
  <2> QED
    BY <2>2 DEF SumsVolumes, Running
<1> QED
  BY <1>1, <1>2, FirstTick, Inductive, FirstVolume, PTL DEF Spec
=============================================================================

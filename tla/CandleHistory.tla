---------------------------- MODULE CandleHistory ----------------------------
(***************************************************************************)
(* The life of one bar, beside the ticks it has taken: what the six        *)
(* numbers of a candle must say of them, whatever the order of prices, and *)
(* across a write to Redis and the read that restores it.                  *)
(***************************************************************************)
EXTENDS Candle, Sequences

CONSTANTS Prices, Volumes,   \* what a tick may carry
          Instants,          \* event times of ticks
          Dur,               \* the interval's duration
          MaxTicks           \* bound on the ticks of one bar

ASSUME CandleHistoryAssumption ==
  /\ Prices \subseteq Int
  /\ Volumes \subseteq Nat
  /\ Instants \subseteq Nat
  /\ Dur \in Nat \ {0}
  /\ MaxTicks \in Nat \ {0}

VARIABLES bar,    \* candleState.Candle, once there is one
          ticks   \* history: the ticks that made the bar, in order

vars == <<bar, ticks>>

Ticks == [ts : Instants, price : Prices, volume : Volumes]

Init == \E t \in Ticks : /\ bar = NewBar(t.ts, t.price, t.volume, Dur)
                         /\ ticks = <<t>>

Update == /\ ~bar.complete
          /\ Len(ticks) < MaxTicks
          /\ \E t \in Ticks : /\ bar' = Updated(bar, t.price, t.volume)
                              /\ ticks' = Append(ticks, t)

\* Save, the death of the process, LoadAt in the next one.
Restore == /\ bar' = Restored(bar)
           /\ UNCHANGED ticks

\* flushOne marks the bar and hands it to the sinks.
Flush == /\ bar' = [bar EXCEPT !.complete = TRUE]
         /\ UNCHANGED ticks

Next == Update \/ Restore \/ Flush

Spec == Init /\ [][Next]_vars

-----------------------------------------------------------------------------

TypeOK ==
  /\ bar \in [ start : Nat, end : Nat, open : Int, high : Int, low : Int,
               close : Int, volume : Nat, complete : BOOLEAN ]
  /\ ticks \in Seq(Ticks)
  /\ ticks # <<>>

(* The window is the grid window of the first tick, whatever came later: the
   code's AlignToInterval and newCandleState. *)
WindowOfFirstTick ==
  /\ bar.start <= ticks[1].ts
  /\ ticks[1].ts < bar.end
  /\ bar.end = bar.start + Dur
  /\ Align(bar.start, Dur) = bar.start

(* Open and close are the first and the last price; high and low bound every
   price and are each the price of some tick: candleState.update. *)
SummarisesPrices ==
  /\ bar.open = ticks[1].price
  /\ bar.close = ticks[Len(ticks)].price
  /\ \A i \in 1 .. Len(ticks) : /\ bar.low <= ticks[i].price
                                /\ ticks[i].price <= bar.high
  /\ \E i \in 1 .. Len(ticks) : bar.high = ticks[i].price
  /\ \E i \in 1 .. Len(ticks) : bar.low = ticks[i].price

(* The volume is the sum over the ticks: the reference is the running sum. *)
SumsVolumes ==
  LET total[i \in 0 .. Len(ticks)] ==
        IF i = 0 THEN 0 ELSE total[i - 1] + ticks[i].volume
  IN bar.volume = total[Len(ticks)]
=============================================================================

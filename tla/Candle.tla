------------------------------- MODULE Candle -------------------------------
(***************************************************************************)
(* One OHLCV bar of the preprocessor: aggregator/candle.go and the         *)
(* conversions of aggregator/types.go.  Instants are naturals counted from *)
(* Go's zero time, the origin time.Truncate rounds from.  Prices and       *)
(* volumes are integers: the code's float64 values are only compared and   *)
(* added, and the exchange sends neither NaN nor an infinity.              *)
(***************************************************************************)
EXTENDS Integers

\* AlignToInterval: ts rounded down to a multiple of the interval's duration.
Align(ts, dur) == (ts \div dur) * dur

\* Mutant: the bar starts at its first tick.
NewBarUnaligned(ts, price, volume, dur) ==
  [ start |-> ts, end |-> ts + dur,
    open |-> price, high |-> price, low |-> price, close |-> price,
    volume |-> volume, complete |-> FALSE ]

\* newCandleState: the bar that opens at the window of its first tick.
NewBar(ts, price, volume, dur) ==
  [ start |-> Align(ts, dur), end |-> Align(ts, dur) + dur,
    open |-> price, high |-> price, low |-> price, close |-> price,
    volume |-> volume, complete |-> FALSE ]

\* Mutant: the volume of the last tick replaces the sum.
UpdatedLastVolume(bar, price, volume) ==
  [ bar EXCEPT !.high = IF price > @ THEN price ELSE @,
               !.low = IF price < @ THEN price ELSE @,
               !.close = price,
               !.volume = volume ]

\* Mutant: the comparison with the low looks at the high.
UpdatedLowFromHigh(bar, price, volume) ==
  [ bar EXCEPT !.high = IF price > @ THEN price ELSE @,
               !.low = IF price < bar.high THEN price ELSE @,
               !.close = price,
               !.volume = @ + volume ]

\* candleState.update: one more tick in an open bar.
Updated(bar, price, volume) ==
  [ bar EXCEPT !.high = IF price > @ THEN price ELSE @,
               !.low = IF price < @ THEN price ELSE @,
               !.close = price,
               !.volume = @ + volume ]

\* What Save (through ToProto) writes and LoadAt reads back: every field but
\* the Complete flag, which the protobuf message does not have.
Restored(bar) == [bar EXCEPT !.complete = FALSE]
=============================================================================

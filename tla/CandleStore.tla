----------------------------- MODULE CandleStore -----------------------------
(***************************************************************************)
(* What the preprocessor promises to the readers of its two outputs: a bar *)
(* is on the grid of its interval and made of ticks that were delivered,   *)
(* none of them more often than it was; a row of the table is there for    *)
(* good, the only one of its window; a published bar cannot be unsaid.     *)
(* Module Aggregator implements it under every disturbance it models.      *)
(***************************************************************************)
EXTENDS Candle

CONSTANTS Offsets, Cells, Dur

VARIABLES rows,      \* the candles table
          topic,     \* the candles topic
          delivered  \* delivered[o]: how often the tick at offset o has come in

vars == <<rows, topic, delivered>>

Truthful(r) ==
  /\ r.cell \in Cells
  /\ Align(r.bar.start, Dur[r.cell.iv]) = r.bar.start
  /\ \A o \in Offsets : r.bar.hits[o] <= delivered[o]

Init == /\ rows = {} /\ topic = {}
        /\ delivered = [o \in Offsets |-> 0]

Deliver == /\ \E o \in Offsets :
                delivered' = [delivered EXCEPT ![o] = @ + 1]
           /\ UNCHANGED <<rows, topic>>

\* A window gets its row once.
Record == /\ \E r \in rows' :
               /\ Truthful(r)
               /\ ~\E q \in rows : q.cell = r.cell /\ q.bar.start = r.bar.start
               /\ rows' = rows \cup {r}
          /\ UNCHANGED <<topic, delivered>>

Publish == /\ \E t \in topic' : /\ Truthful(t)
                                /\ topic' = topic \cup {t}
           /\ UNCHANGED <<rows, delivered>>

Next == Deliver \/ Record \/ Publish

Spec == Init /\ [][Next]_vars
=============================================================================

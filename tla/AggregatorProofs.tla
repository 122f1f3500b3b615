-------------------------- MODULE AggregatorProofs --------------------------
(***************************************************************************)
(* Theorems about Aggregator, for every number of symbols, intervals and   *)
(* ticks, every duration, and every budget of disturbances.                *)
(***************************************************************************)
EXTENDS Aggregator, CandleTheorems

-----------------------------------------------------------------------------
(* The inductive invariant, in parts.                                       *)

(* Where the holder of the mutex is: a bar it is at is one it has still to
   finish, and is open; who flushes goes through open bars only; the tick that
   Process has in hand is on the raw topic. *)
JobOK ==
  /\ holder = "nobody" => todo = {} /\ stage = "next"
  /\ stage = "next" => cur = None
  /\ stage # "next" => cur \in todo /\ buckets[cur] # None
  /\ stage = "save" => holder = "consumer"
  /\ holder \in {"flusher", "closer"} => \A c \in todo : buckets[c] # None
  /\ holder = "consumer" =>
       /\ pos < Len(log)
       /\ \A c \in todo : c.sym = log[pos + 1].sym

(* Close runs when the consumer is gone, and a dead process has no memory. *)
ProcOK ==
  /\ holder = "closer" =>
       /\ proc = "closing"
       /\ \A c \in Cells : buckets[c] # None => c \in todo
  /\ holder = "consumer" => proc \in {"up", "stopping"}
  /\ proc = "down" => /\ holder = "nobody" /\ flushNow = None
                      /\ \A c \in Cells : buckets[c] = None

(* What the holder flushes is over, unless it is FlushAll. *)
OverOK ==
  /\ flushNow # None => flushNow <= now
  /\ holder = "flusher" =>
       flushNow # None /\ \A c \in todo : now >= End(c, buckets[c])
  /\ stage \in {"db", "kafka", "del"} =>
       holder = "closer" \/ now >= End(cur, buckets[cur])

-----------------------------------------------------------------------------
(* Facts about bars.                                                        *)

LEMMA CellFacts ==
  ASSUME NEW c \in Cells
  PROVE  /\ c.iv \in Intervals /\ c.sym \in Symbols
         /\ Dur[c.iv] \in Nat \ {0}
         /\ c # None
BY AggregatorAssumption, NoneAssumption DEF Cells

LEMMA BarFacts ==
  ASSUME NEW b \in Bars
  PROVE  /\ b # None
         /\ b.start \in Nat
         /\ \A o \in Offsets : b.hits[o] \in Nat
BY NoneAssumption DEF Bars

LEMMA WindowFacts ==
  ASSUME NEW c \in Cells, NEW ts \in Nat
  PROVE  /\ Window(c, ts) \in Nat
         /\ Window(c, Window(c, ts)) = Window(c, ts)
         /\ Window(c, ts) <= ts /\ ts < Window(c, ts) + Dur[c.iv]
BY CellFacts, AlignWindow, AlignTwice DEF Window

LEMMA TickFacts ==
  ASSUME TypeOK, NEW o \in Nat \ {0}, o <= Len(log)
  PROVE  /\ o \in Offsets
         /\ log[o].sym \in Symbols
         /\ log[o].ts \in Nat
<1>1. Len(log) \in Nat /\ Len(log) <= MaxTicks /\ MaxTicks \in Nat
  BY AggregatorAssumption DEF TypeOK
<1>2. o \in 1 .. Len(log) /\ o \in Offsets
  BY <1>1 DEF Offsets
<1>3. log \in Seq(RawTicks)
  BY DEF TypeOK
<1>4. log[o] \in RawTicks
  BY <1>2, <1>3
<1> QED
  BY <1>2, <1>4 DEF RawTicks

LEMMA FreshFacts ==
  ASSUME TypeOK, NEW c \in Cells, NEW o \in Nat \ {0}, o <= Len(log)
  PROVE  /\ Fresh(c, o) \in Bars
         /\ Fresh(c, o).start = Window(c, log[o].ts)
         /\ \A q \in Offsets : Fresh(c, o).hits[q] = IF q = o THEN 1 ELSE 0
<1>1. o \in Offsets /\ log[o].ts \in Nat
  BY TickFacts
<1>2. Window(c, log[o].ts) \in Nat
  BY <1>1, WindowFacts
<1>3. [q \in Offsets |-> IF q = o THEN 1 ELSE 0] \in [Offsets -> Nat]
  OBVIOUS
<1> QED
  BY <1>1, <1>2, <1>3 DEF Fresh, Bars

LEMMA SpendFacts ==
  ASSUME TypeOK, NEW k \in Kinds, Spend(k)
  PROVE  /\ spent' \in [Kinds -> Nat]
         /\ spent'[k] = spent[k] + 1
         /\ \A j \in Kinds : spent[j] <= spent'[j]
BY DEF TypeOK, Spend

LEMMA CallFacts ==
  ASSUME TypeOK, NEW ok \in BOOLEAN, Call(ok) \/ ContextCall(ok)
  PROVE  /\ spent' \in [Kinds -> Nat]
         /\ ok => spent' = spent
         /\ ~ok => spent'["io"] > 0 \/ spent'["cut"] > 0
         /\ \A j \in Kinds : spent'[j] = 0 => spent[j] = 0
<1>1. CASE Spend("io") /\ ~ok
  BY <1>1, SpendFacts DEF TypeOK, Kinds
<1>2. CASE spent' = [spent EXCEPT !["cut"] = 1] /\ ~ok
  BY <1>2 DEF TypeOK, Kinds
<1>3. CASE spent' = spent /\ ok
  BY <1>3 DEF TypeOK
<1> QED
  BY <1>1, <1>2, <1>3 DEF Call, ContextCall

LEMMA UpdateFacts ==
  ASSUME NEW b \in Bars, NEW o \in Offsets
  PROVE  /\ Update(b, o) \in Bars
         /\ Update(b, o).start = b.start
         /\ \A q \in Offsets :
              Update(b, o).hits[q] = IF q = o THEN b.hits[q] + 1 ELSE b.hits[q]
BY DEF Update, Bars

LEMMA SaveFacts ==
  ASSUME TypeOK, NEW c \in Cells, NEW b \in Bars
  PROVE  RedisWith(c, b) \subseteq Saved
<1>1. now + 2 * Dur[c.iv] \in Nat
  BY CellFacts DEF TypeOK
<1> QED
  BY <1>1 DEF TypeOK, RedisWith, Saved

-----------------------------------------------------------------------------
(* The types, and where the holder of the mutex and the process are.        *)

Placed == TypeOK /\ JobOK /\ ProcOK

LEMMA PlacedInit == Init => Placed
<1> SUFFICES ASSUME Init
             PROVE  Placed
  OBVIOUS
<1>1. log \in Seq(RawTicks) /\ Len(log) = 0
  BY DEF Init
<1>2. TypeOK
  <2>1. /\ buckets \in [Cells -> Bars \cup {None}]
        /\ deliveries \in [Offsets -> Nat]
        /\ spent \in [Kinds -> Nat]
    BY DEF Init
  <2>2. /\ redis \subseteq Saved /\ rows \subseteq Entries
        /\ topic \subseteq Entries /\ todo \subseteq Cells
    BY DEF Init
  <2>3. now \in Nat /\ committed \in Nat /\ pos \in Nat /\ committed <= pos
    BY DEF Init
  <2>4. /\ proc \in {"up", "stopping", "closing", "down"}
        /\ holder \in {"nobody", "consumer", "flusher", "closer"}
        /\ stage \in {"next", "save", "db", "kafka", "del"}
        /\ sinkErr \in BOOLEAN
    BY DEF Init
  <2>5. cur \in Cells \cup {None} /\ flushNow \in Nat \cup {None}
    BY DEF Init
  <2>6. pos <= Len(log) /\ Len(log) <= MaxTicks
    BY <1>1, AggregatorAssumption DEF Init
  <2> QED
    BY <1>1, <2>1, <2>2, <2>3, <2>4, <2>5, <2>6 DEF TypeOK
<1>3. JobOK /\ ProcOK
  BY DEF Init, JobOK, ProcOK
<1> QED
  BY <1>2, <1>3 DEF Placed

\* AfterFlush, by whoever holds the mutex.
LEMMA AfterFlushPlaced ==
  ASSUME Placed, stage \in {"kafka", "del"}, AfterFlush,
         holder' = holder, pos' = pos, log' = log, proc' = proc,
         flushNow' = flushNow
  PROVE  /\ buckets' \in [Cells -> Bars \cup {None}]
         /\ todo' \subseteq Cells
         /\ cur' \in Cells \cup {None}
         /\ stage' \in {"next", "save"}
         /\ JobOK' /\ ProcOK'
<1> USE DEF Placed
<1>1. /\ cur \in Cells /\ cur \in todo /\ holder # "nobody"
      /\ buckets[cur] # None
  BY DEF TypeOK, JobOK
<1>2. CASE holder = "consumer"
  <2>1. pos + 1 \in Nat \ {0} /\ pos + 1 <= Len(log)
    BY <1>2 DEF TypeOK, JobOK
  <2>2. Fresh(cur, pos + 1) \in Bars /\ Fresh(cur, pos + 1) # None
    BY <1>1, <2>1, FreshFacts, BarFacts
  <2>3. /\ buckets' = [buckets EXCEPT ![cur] = Fresh(cur, pos + 1)]
        /\ stage' = "save" /\ todo' = todo /\ cur' = cur
    BY <1>2 DEF AfterFlush
  <2>4. buckets' \in [Cells -> Bars \cup {None}] /\ buckets'[cur] # None
    BY <1>1, <2>2, <2>3 DEF TypeOK
  <2> QED
    BY <1>1, <1>2, <2>3, <2>4 DEF TypeOK, JobOK, ProcOK
<1>3. CASE holder # "consumer"
  <2>1. /\ buckets' = [buckets EXCEPT ![cur] = None]
        /\ todo' = todo \ {cur} /\ cur' = None /\ stage' = "next"
    BY <1>3 DEF AfterFlush
  <2>2. holder \in {"flusher", "closer"}
    BY <1>1, <1>3 DEF TypeOK
  <2>3. /\ buckets' \in [Cells -> Bars \cup {None}]
        /\ \A c \in Cells : c # cur => buckets'[c] = buckets[c]
        /\ buckets'[cur] = None
    BY <1>1, <2>1 DEF TypeOK
  <2> QED
    BY <1>1, <1>3, <2>1, <2>2, <2>3 DEF TypeOK, JobOK, ProcOK
<1> QED
  BY <1>2, <1>3

LEMMA ExitPlaced ==
  ASSUME Placed, Exit, spent' \in [Kinds -> Nat]
  PROVE  Placed'
<1>1. TypeOK'
  <2>1. buckets' \in [Cells -> Bars \cup {None}] /\ todo' \subseteq Cells
    BY DEF Exit
  <2>2. /\ pos' = committed /\ committed' = committed /\ log' = log
        /\ committed' <= pos' /\ pos' <= Len(log')
    BY DEF Placed, Exit, TypeOK, world
  <2> QED
    BY <2>1, <2>2 DEF Placed, Exit, TypeOK, world, stores
<1>2. JobOK' /\ ProcOK'
  BY DEF Placed, Exit, JobOK, ProcOK, world, stores
<1> QED
  BY <1>1, <1>2 DEF Placed

LEMMA PlacedNext == Placed /\ [Next]_vars => Placed'
<1> SUFFICES ASSUME Placed, [Next]_vars
             PROVE  Placed'
  OBVIOUS
<1> USE DEF Placed, world, stores, job
<1>1. CASE Tick
  <2>1. TypeOK'
    BY <1>1 DEF Tick, TypeOK
  <2>2. JobOK' /\ ProcOK'
    BY <1>1 DEF Tick, TypeOK, JobOK, ProcOK
  <2> QED
    BY <2>1, <2>2
<1>2. CASE Produce
  <2>1. TypeOK'
    <3>1. PICK s \in Symbols, ts \in 0 .. now + 1 :
            /\ log' = Append(log, [sym |-> s, ts |-> ts])
            /\ IF InOrder(ts) THEN UNCHANGED spent ELSE Spend("clock")
      BY <1>2 DEF Produce
    <3>2. spent' \in [Kinds -> Nat]
      BY <3>1, SpendFacts DEF TypeOK, Kinds
    <3>3. ts \in Nat /\ [sym |-> s, ts |-> ts] \in RawTicks
      BY <3>1 DEF TypeOK, RawTicks
    <3>4. /\ log' \in Seq(RawTicks)
          /\ Len(log') = Len(log) + 1 /\ Len(log) < MaxTicks
      BY <1>2, <3>1, <3>3 DEF TypeOK, Produce
    <3> QED
      BY <1>2, <3>2, <3>4, AggregatorAssumption DEF TypeOK, Produce
  <2>2. JobOK' /\ ProcOK'
    BY <1>2 DEF Produce, TypeOK, JobOK, ProcOK
  <2> QED
    BY <2>1, <2>2
<1>3. CASE BeginProcess
  <2>1. TypeOK'
    <3>1. pos + 1 \in Nat \ {0} /\ pos + 1 <= Len(log)
      BY <1>3 DEF TypeOK, BeginProcess
    <3>2. log[pos + 1].sym \in Symbols /\ pos + 1 \in Offsets
      BY <3>1, TickFacts
    <3>3. todo' \subseteq Cells
      BY <1>3, <3>2 DEF BeginProcess, Cells
    <3>4. deliveries' \in [Offsets -> Nat]
      BY <1>3, <3>2 DEF BeginProcess, TypeOK
    <3> QED
      BY <1>3, <3>3, <3>4 DEF TypeOK, BeginProcess
  <2>2. JobOK' /\ ProcOK'
    BY <1>3 DEF BeginProcess, TypeOK, JobOK, ProcOK
  <2> QED
    BY <2>1, <2>2
<1>4. CASE FlushRead
  <2>1. TypeOK'
    BY <1>4 DEF FlushRead, TypeOK
  <2>2. JobOK' /\ ProcOK'
    BY <1>4 DEF FlushRead, TypeOK, JobOK, ProcOK
  <2> QED
    BY <2>1, <2>2
<1>5. CASE BeginFlush
  <2>1. TypeOK'
    BY <1>5 DEF BeginFlush, TypeOK
  <2>2. /\ holder' = "flusher" /\ stage' = "next" /\ cur' = None
        /\ \A c \in todo' : buckets'[c] # None
    BY <1>5 DEF BeginFlush, JobOK
  <2>3. JobOK'
    BY <2>2 DEF JobOK
  <2>4. ProcOK'
    BY <1>5 DEF BeginFlush, TypeOK, JobOK, ProcOK
  <2> QED
    BY <2>1, <2>3, <2>4
<1>6. CASE BeginFlushAll
  <2>1. TypeOK'
    BY <1>6 DEF BeginFlushAll, TypeOK
  <2>2. JobOK' /\ ProcOK'
    BY <1>6 DEF BeginFlushAll, TypeOK, JobOK, ProcOK
  <2> QED
    BY <2>1, <2>2
<1>7. ASSUME NEW c \in Cells, Restore(c)
      PROVE  Placed'
  <2>1. /\ c \in todo /\ holder = "consumer" /\ cur' = c /\ stage' = "save"
        /\ \E b \in Bars : buckets' = [buckets EXCEPT ![c] = b]
    BY <1>7 DEF Restore, Visits, Stored, TypeOK, Saved
  <2>2. /\ buckets' \in [Cells -> Bars \cup {None}]
        /\ buckets'[c] # None
        /\ \A d \in Cells : d # c => buckets'[d] = buckets[d]
    BY <2>1, BarFacts DEF TypeOK
  <2>3. TypeOK'
    BY <1>7, <2>1, <2>2 DEF Restore, TypeOK
  <2>4. JobOK' /\ ProcOK'
    BY <1>7, <2>1, <2>2 DEF Restore, TypeOK, JobOK, ProcOK
  <2> QED
    BY <2>3, <2>4
<1>8. ASSUME NEW c \in Cells, Create(c)
      PROVE  Placed'
  <2>1. /\ c \in todo /\ holder = "consumer" /\ cur' = c /\ stage' = "save"
        /\ buckets' = [buckets EXCEPT ![c] = Fresh(c, pos + 1)]
    BY <1>8 DEF Create, Visits
  <2>2. Fresh(c, pos + 1) \in Bars
    <3>1. pos + 1 \in Nat \ {0} /\ pos + 1 <= Len(log)
      BY <2>1 DEF TypeOK, JobOK
    <3> QED
      BY <3>1, FreshFacts
  <2>3. /\ buckets' \in [Cells -> Bars \cup {None}]
        /\ buckets'[c] # None
        /\ \A d \in Cells : d # c => buckets'[d] = buckets[d]
    BY <2>1, <2>2, BarFacts DEF TypeOK
  <2>4. spent' \in [Kinds -> Nat]
    BY <1>8, CallFacts DEF Create
  <2>5. TypeOK'
    BY <1>8, <2>1, <2>3, <2>4 DEF Create, TypeOK
  <2>6. JobOK' /\ ProcOK'
    BY <1>8, <2>1, <2>3 DEF Create, TypeOK, JobOK, ProcOK
  <2> QED
    BY <2>5, <2>6
<1>9. ASSUME NEW c \in Cells, Extend(c)
      PROVE  Placed'
  <2>1. /\ c \in todo /\ holder = "consumer" /\ cur' = c /\ stage' = "save"
        /\ buckets' = [buckets EXCEPT ![c] = Update(buckets[c], pos + 1)]
        /\ buckets[c] \in Bars
    BY <1>9 DEF Extend, Visits, TypeOK
  <2>2. pos + 1 \in Offsets
    BY <2>1, TickFacts DEF TypeOK, JobOK
  <2>3. Update(buckets[c], pos + 1) \in Bars
    BY <2>1, <2>2, UpdateFacts
  <2>4. /\ buckets' \in [Cells -> Bars \cup {None}]
        /\ buckets'[c] # None
        /\ \A d \in Cells : d # c => buckets'[d] = buckets[d]
    BY <2>1, <2>3, BarFacts DEF TypeOK
  <2>5. TypeOK'
    BY <1>9, <2>1, <2>4 DEF Extend, TypeOK
  <2>6. JobOK' /\ ProcOK'
    BY <1>9, <2>1, <2>4 DEF Extend, TypeOK, JobOK, ProcOK
  <2> QED
    BY <2>5, <2>6
<1>10. ASSUME NEW c \in Cells, Replace(c)
      PROVE  Placed'
  <2>1. TypeOK'
    BY <1>10 DEF Replace, Visits, TypeOK
  <2>2. JobOK' /\ ProcOK'
    BY <1>10 DEF Replace, Visits, TypeOK, JobOK, ProcOK
  <2> QED
    BY <2>1, <2>2
<1>11. CASE Save
  <2>1. TypeOK'
    <3>1. cur \in Cells /\ buckets[cur] \in Bars
      BY <1>11 DEF Save, TypeOK, JobOK
    <3>2. spent' \in [Kinds -> Nat]
      BY <1>11, CallFacts DEF Save
    <3>3. redis' \subseteq Saved
      BY <1>11, <3>1, SaveFacts DEF Save, TypeOK
    <3> QED
      BY <1>11, <3>2, <3>3 DEF Save, TypeOK
  <2>2. JobOK' /\ ProcOK'
    BY <1>11 DEF Save, TypeOK, JobOK, ProcOK
  <2> QED
    BY <2>1, <2>2
<1>12. CASE EndProcess
  <2>1. TypeOK'
    <3>1. pos + 1 <= Len(log) /\ committed <= pos + 1
      BY <1>12 DEF EndProcess, TypeOK, JobOK
    <3> QED
      BY <1>12, <3>1 DEF EndProcess, TypeOK
  <2>2. JobOK' /\ ProcOK'
    BY <1>12 DEF EndProcess, TypeOK, JobOK, ProcOK
  <2> QED
    BY <2>1, <2>2
<1>13. CASE FlushToTable
  <2>1. TypeOK'
    <3>1. cur \in Cells /\ buckets[cur] \in Bars
      BY <1>13 DEF FlushToTable, TypeOK, JobOK
    <3>2. spent' \in [Kinds -> Nat]
      BY <1>13, CallFacts DEF FlushToTable
    <3>3. rows' \subseteq Entries
      BY <1>13, <3>1 DEF FlushToTable, RowsWith, Entries, TypeOK
    <3>4. sinkErr' \in BOOLEAN
      BY <1>13 DEF FlushToTable
    <3> QED
      BY <1>13, <3>2, <3>3, <3>4 DEF FlushToTable, TypeOK
  <2>2. JobOK' /\ ProcOK'
    BY <1>13 DEF FlushToTable, TypeOK, JobOK, ProcOK
  <2> QED
    BY <2>1, <2>2
<1>14. CASE FlushToTopic
  <2>1. cur \in Cells /\ buckets[cur] \in Bars
    BY <1>14 DEF FlushToTopic, TypeOK, JobOK
  <2>2. spent' \in [Kinds -> Nat]
    BY <1>14, CallFacts DEF FlushToTopic
  <2>3. topic' \subseteq Entries
    BY <1>14, <2>1 DEF FlushToTopic, Entries, TypeOK
  <2>4. CASE stage' = "del" /\ UNCHANGED <<buckets, todo, cur>>
    <3>1. TypeOK'
      BY <1>14, <2>2, <2>3, <2>4 DEF FlushToTopic, TypeOK
    <3>2. JobOK' /\ ProcOK'
      BY <1>14, <2>4 DEF FlushToTopic, TypeOK, JobOK, ProcOK
    <3> QED
      BY <3>1, <3>2
  <2>5. CASE AfterFlush
    <3>1. /\ buckets' \in [Cells -> Bars \cup {None}]
          /\ todo' \subseteq Cells /\ cur' \in Cells \cup {None}
          /\ stage' \in {"next", "save"} /\ JobOK' /\ ProcOK'
      BY <1>14, <2>5, AfterFlushPlaced DEF FlushToTopic
    <3>2. TypeOK'
      BY <1>14, <2>2, <2>3, <3>1 DEF FlushToTopic, TypeOK
    <3> QED
      BY <3>1, <3>2
  <2> QED
    BY <1>14, <2>4, <2>5 DEF FlushToTopic
<1>15. CASE Forget
  <2>1. spent' \in [Kinds -> Nat]
    BY <1>15, CallFacts DEF Forget
  <2>2. redis' \subseteq Saved
    BY <1>15 DEF Forget, RedisWithout, TypeOK
  <2>3. /\ buckets' \in [Cells -> Bars \cup {None}]
        /\ todo' \subseteq Cells /\ cur' \in Cells \cup {None}
        /\ stage' \in {"next", "save"} /\ JobOK' /\ ProcOK'
    BY <1>15, AfterFlushPlaced DEF Forget
  <2>4. TypeOK'
    BY <1>15, <2>1, <2>2, <2>3 DEF Forget, TypeOK
  <2> QED
    BY <2>3, <2>4
<1>16. CASE PickBar
  <2>1. TypeOK'
    BY <1>16 DEF PickBar, TypeOK
  <2>2. JobOK' /\ ProcOK'
    BY <1>16 DEF PickBar, TypeOK, JobOK, ProcOK
  <2> QED
    BY <2>1, <2>2
<1>17. CASE EndFlush
  <2>1. TypeOK'
    BY <1>17 DEF EndFlush, TypeOK
  <2>2. JobOK' /\ ProcOK'
    BY <1>17 DEF EndFlush, TypeOK, JobOK, ProcOK
  <2> QED
    BY <2>1, <2>2
<1>18. CASE EndFlushAll
  BY <1>18, ExitPlaced DEF EndFlushAll, TypeOK
<1>19. CASE AutoCommit
  <2>1. TypeOK'
    BY <1>19 DEF AutoCommit, Marked, TypeOK
  <2>2. JobOK' /\ ProcOK'
    BY <1>19 DEF AutoCommit, TypeOK, JobOK, ProcOK
  <2> QED
    BY <2>1, <2>2
<1>20. CASE LoseSession
  <2>1. TypeOK'
    <3>1. spent' \in [Kinds -> Nat]
      BY <1>20, SpendFacts DEF LoseSession, Kinds
    <3> QED
      BY <1>20, <3>1 DEF LoseSession, TypeOK
  <2>2. JobOK' /\ ProcOK'
    BY <1>20 DEF LoseSession, TypeOK, JobOK, ProcOK
  <2> QED
    BY <2>1, <2>2
<1>21. CASE Stop
  <2>1. TypeOK'
    <3>1. spent' \in [Kinds -> Nat]
      BY <1>21, SpendFacts DEF Stop, Kinds
    <3> QED
      BY <1>21, <3>1 DEF Stop, TypeOK
  <2>2. JobOK' /\ ProcOK'
    BY <1>21 DEF Stop, TypeOK, JobOK, ProcOK
  <2> QED
    BY <2>1, <2>2
<1>22. CASE CloseConsumer
  <2>1. TypeOK'
    BY <1>22 DEF CloseConsumer, Marked, TypeOK
  <2>2. JobOK' /\ ProcOK'
    BY <1>22 DEF CloseConsumer, TypeOK, JobOK, ProcOK
  <2> QED
    BY <2>1, <2>2
<1>23. CASE Crash
  BY <1>23, ExitPlaced, SpendFacts DEF Crash, Kinds
<1>24. CASE Restart
  <2>1. TypeOK'
    BY <1>24 DEF Restart, TypeOK
  <2>2. JobOK' /\ ProcOK'
    BY <1>24 DEF Restart, TypeOK, JobOK, ProcOK
  <2> QED
    BY <2>1, <2>2
<1>25. CASE UNCHANGED vars
  BY <1>25 DEF vars, TypeOK, JobOK, ProcOK
<1> QED
  BY <1>1, <1>2, <1>3, <1>4, <1>5, <1>6, <1>7, <1>8, <1>9, <1>10, <1>11, <1>12, <1>13, <1>14, <1>15, <1>16, <1>17, <1>18, <1>19, <1>20, <1>21, <1>22, <1>23, <1>24, <1>25 DEF Next, Work, Visit

(* Every variable has its type, the offsets committed are behind those processed,
   and no more than the raw topic is. *)
THEOREM TypeCorrect == Spec => []TypeOK
<1>1. Placed => TypeOK
  BY DEF Placed
<1> QED
  BY <1>1, PlacedInit, PlacedNext, PTL DEF Spec

-----------------------------------------------------------------------------
(* What is published is over.                                               *)

LEMMA OverNext == Placed /\ OverOK /\ [Next]_vars => OverOK'
<1> SUFFICES ASSUME Placed, OverOK, [Next]_vars
             PROVE  OverOK'
  OBVIOUS
<1> USE DEF world, stores, job, End
<1>0. /\ now \in Nat /\ \A c \in Cells : Dur[c.iv] \in Nat
      /\ \A c \in Cells : buckets[c] # None => buckets[c] \in Bars /\ buckets[c].start \in Nat
      /\ todo \subseteq Cells
      /\ flushNow # None => flushNow \in Nat
  BY CellFacts, BarFacts DEF Placed, TypeOK
<1>1. CASE Tick
  <2>1. now' = now + 1
    BY <1>1 DEF Tick
  <2>2. stage \in {"db", "kafka", "del"} => cur \in Cells /\ buckets[cur] # None
    BY DEF Placed, TypeOK, JobOK
  <2>3. holder = "flusher" => \A c \in todo : buckets[c] # None
    BY DEF Placed, JobOK
  <2> QED
    BY <1>1, <1>0, <2>1, <2>2, <2>3 DEF Tick, OverOK
<1>2. CASE Produce
  BY <1>2 DEF Produce, Placed, JobOK, OverOK
<1>3. CASE BeginProcess
  BY <1>3 DEF BeginProcess, Placed, JobOK, OverOK
<1>4. CASE FlushRead
  BY <1>4, <1>0 DEF FlushRead, Placed, JobOK, OverOK
<1>5. CASE BeginFlush
  <2>1. \A c \in todo' : now >= End(c, buckets[c])
    BY <1>5, <1>0 DEF BeginFlush, Due, OverOK
  <2> QED
    BY <1>5, <2>1 DEF BeginFlush, Placed, JobOK, OverOK
<1>6. CASE BeginFlushAll
  BY <1>6 DEF BeginFlushAll, Placed, JobOK, OverOK
<1>7. ASSUME NEW c \in Cells, Restore(c)
      PROVE  OverOK'
  BY <1>7 DEF Restore, Visits, OverOK
<1>8. ASSUME NEW c \in Cells, Create(c)
      PROVE  OverOK'
  BY <1>8 DEF Create, Visits, OverOK
<1>9. ASSUME NEW c \in Cells, Extend(c)
      PROVE  OverOK'
  BY <1>9 DEF Extend, Visits, OverOK
<1>10. ASSUME NEW c \in Cells, Replace(c)
      PROVE  OverOK'
  BY <1>10 DEF Replace, Visits, Due, OverOK
<1>11. CASE Save
  BY <1>11 DEF Save, Placed, JobOK, OverOK
<1>12. CASE EndProcess
  BY <1>12 DEF EndProcess, OverOK
<1>13. CASE FlushToTable
  BY <1>13 DEF FlushToTable, OverOK
<1>14. CASE FlushToTopic
  <2>1. CASE AfterFlush
    BY <1>14, <2>1, <1>0 DEF FlushToTopic, AfterFlush, Placed, TypeOK, OverOK
  <2>2. CASE stage' = "del" /\ UNCHANGED <<buckets, todo, cur>>
    BY <1>14, <2>2 DEF FlushToTopic, OverOK
  <2> QED
    BY <1>14, <2>1, <2>2 DEF FlushToTopic
<1>15. CASE Forget
  BY <1>15, <1>0 DEF Forget, AfterFlush, Placed, TypeOK, OverOK
<1>16. CASE PickBar
  BY <1>16 DEF PickBar, OverOK
<1>17. CASE EndFlush
  BY <1>17 DEF EndFlush, OverOK
<1>18. CASE EndFlushAll
  BY <1>18 DEF EndFlushAll, Exit, OverOK
<1>19. CASE AutoCommit
  BY <1>19 DEF AutoCommit, OverOK
<1>20. CASE LoseSession
  BY <1>20 DEF LoseSession, OverOK
<1>21. CASE Stop
  BY <1>21 DEF Stop, OverOK
<1>22. CASE CloseConsumer
  BY <1>22 DEF CloseConsumer, OverOK
<1>23. CASE Crash
  BY <1>23 DEF Crash, Exit, OverOK
<1>24. CASE Restart
  BY <1>24 DEF Restart, OverOK
<1>25. CASE UNCHANGED vars
  BY <1>25 DEF vars, OverOK
<1> QED
  BY <1>1, <1>2, <1>3, <1>4, <1>5, <1>6, <1>7, <1>8, <1>9, <1>10, <1>11, <1>12, <1>13, <1>14, <1>15, <1>16, <1>17, <1>18, <1>19, <1>20, <1>21, <1>22, <1>23, <1>24, <1>25 DEF Next, Work, Visit

(* Only FlushTopic publishes, and what it publishes is over unless Close flushes it:
   the flush loop may wait long for the mutex with the clock it has read, for
   flushExpired. *)
THEOREM PublishesOnTime == Spec => PublishedWhenOver
<1>1. Init => Placed /\ OverOK
  BY PlacedInit DEF Init, OverOK
<1>2. Placed /\ OverOK /\ [Next]_vars => (Placed /\ OverOK)'
  BY PlacedNext, OverNext
<1>3. ASSUME Placed, OverOK, [Next]_vars
      PROVE  [\A t \in topic' \ topic :
                holder = "closer" \/ now >= End(t.cell, t.bar)]_vars
  <2>1. CASE FlushToTopic
    <3>1. \A t \in topic' \ topic : t = [cell |-> cur, bar |-> buckets[cur]]
      BY <2>1 DEF FlushToTopic
    <3>2. holder = "closer" \/ now >= End(cur, buckets[cur])
      BY <1>3, <2>1 DEF FlushToTopic, OverOK
    <3>3. ASSUME NEW t \in topic' \ topic
          PROVE  holder = "closer" \/ now >= End(t.cell, t.bar)
      <4>1. t.cell = cur /\ t.bar = buckets[cur]
        BY <3>1
      <4> QED
        BY <4>1, <3>2
    <3> QED
      BY <3>3
  <2>2. CASE topic' = topic
    BY <2>2
  <2>3. FlushToTopic \/ topic' = topic
    BY <1>3 DEF Next, Work, Visit, vars, stores, world, Tick, Produce,
       BeginProcess, FlushRead, BeginFlush, BeginFlushAll, Restore, Create,
       Extend, Replace, Save, EndProcess, FlushToTable, Forget, PickBar,
       EndFlush, EndFlushAll, AutoCommit, LoseSession, Stop, CloseConsumer,
       Crash, Exit, Restart
  <2> QED
    BY <2>1, <2>2, <2>3
<1> QED
  BY <1>1, <1>2, <1>3, PTL DEF Spec, PublishedWhenOver

-----------------------------------------------------------------------------
(***************************************************************************)
(* What a bar may contain, wherever it is kept: the ticks it counts, the   *)
(* grid it starts on, the window its ticks lie in; and that Aggregator     *)
(* implements CandleStore.  The inductive invariant, in parts:             *)
(***************************************************************************)

\* Process has still to add the tick it has in hand to the bar of c.
Pending(c) == /\ holder = "consumer" /\ c \in todo
              /\ ~(stage = "save" /\ cur = c)

CountOK(c, b) ==
  \A o \in Offsets : /\ b.hits[o] <= deliveries[o]
                     /\ b.hits[o] > 0 => log[o].sym = c.sym
                     /\ Pending(c) /\ o = pos + 1 => b.hits[o] < deliveries[o]

GridOK(c, b) == Window(c, b.start) = b.start

AimOK(c, b) ==
  Orderly => \A o \in Offsets : b.hits[o] > 0 => Window(c, log[o].ts) = b.start

BarOK(c, b) == CountOK(c, b) /\ GridOK(c, b) /\ AimOK(c, b)

MemoryOK == \A c \in Cells : buckets[c] # None => BarOK(c, buckets[c])
StoresOK == \A k \in redis \cup rows \cup topic : BarOK(k.cell, k.bar)

\* What was delivered is on the raw topic, the tick in hand has been delivered.
DeliveredOK ==
  /\ \A o \in Offsets : deliveries[o] > 0 => o <= Len(log)
  /\ holder = "consumer" => deliveries[pos + 1] > 0

\* Ticks come in time order, and an open bar does not start after the last tick
\* that was processed.
OrderOK ==
  Orderly =>
    /\ \A o \in 1 .. Len(log) : /\ log[o].ts <= now
                                /\ \A p \in 1 .. o : log[p].ts <= log[o].ts
    /\ \A c \in Cells : buckets[c] # None =>
         \E o \in 1 .. Len(log) :
           /\ o <= pos \/ (holder = "consumer" /\ o = pos + 1)
           /\ buckets[c].start <= log[o].ts

UniqueOK ==
  /\ \A r, q \in rows : r.cell = q.cell /\ r.bar.start = q.bar.start => r = q
  /\ \A e, f \in redis : e.cell = f.cell /\ e.bar.start = f.bar.start => e = f

-----------------------------------------------------------------------------
(* What a step may do, whichever it is.                                     *)

LEMMA LogStep ==
  ASSUME Placed, [Next]_vars
  PROVE  /\ Len(log) \in Nat /\ Len(log') \in Nat /\ Len(log) <= Len(log')
         /\ \A o \in 1 .. Len(log) : log'[o] = log[o]
         /\ now <= now' /\ now \in Nat /\ now' \in Nat
<1> USE DEF Placed
<1>1. log \in Seq(RawTicks) /\ Len(log) \in Nat /\ now \in Nat
  BY DEF TypeOK
<1>2. CASE Produce
  <2>1. PICK s \in Symbols, ts \in 0 .. now + 1 :
          log' = Append(log, [sym |-> s, ts |-> ts])
    BY <1>2 DEF Produce
  <2>2. [sym |-> s, ts |-> ts] \in RawTicks
    BY <1>1, <2>1 DEF RawTicks
  <2>3. Len(log') = Len(log) + 1 /\ \A o \in 1 .. Len(log) : log'[o] = log[o]
    BY <1>1, <2>1, <2>2
  <2> QED
    BY <1>1, <1>2, <2>3 DEF Produce
<1>3. CASE Tick
  BY <1>1, <1>3 DEF Tick
<1>4. CASE ~Produce /\ ~Tick
  <2>1. log' = log /\ now' = now
    BY <1>4 DEF Next, Work, Visit, vars, world, stores, job, Tick,
     Produce, BeginProcess, FlushRead, BeginFlush, BeginFlushAll, Restore,
     Create, Extend, Replace, Visits, Save, EndProcess, FlushToTable,
     FlushToTopic, Forget, AfterFlush, PickBar, EndFlush, EndFlushAll,
     AutoCommit, LoseSession, Stop, CloseConsumer, Crash, Exit, Restart
  <2> QED
    BY <1>1, <2>1
<1> QED
  BY <1>2, <1>3, <1>4

LEMMA SpentStep ==
  ASSUME Placed, [Next]_vars
  PROVE  \A k \in Kinds : spent'[k] = 0 => spent[k] = 0
<1> USE DEF Placed
<1>1. spent \in [Kinds -> Nat] /\ spent' \in [Kinds -> Nat]
  BY PlacedNext DEF TypeOK
<1>2. CASE spent' = spent
  BY <1>1, <1>2
<1>3. CASE \E k \in Kinds : Spend(k)
  BY <1>1, <1>3 DEF Spend
<1>4. CASE spent' = [spent EXCEPT !["cut"] = 1]
  BY <1>1, <1>4
<1>5. \/ spent' = spent \/ spent' = [spent EXCEPT !["cut"] = 1]
      \/ \E k \in Kinds : Spend(k)
  BY DEF Next, Work, Visit, vars, world, stores, job, Tick,
     Produce, BeginProcess, FlushRead, BeginFlush, BeginFlushAll, Restore,
     Create, Extend, Replace, Visits, Save, EndProcess, FlushToTable,
     FlushToTopic, Forget, AfterFlush, PickBar, EndFlush, EndFlushAll,
     AutoCommit, LoseSession, Stop, CloseConsumer, Crash, Exit, Restart,
     Call, ContextCall, Kinds
<1> QED
  BY <1>2, <1>3, <1>4, <1>5

LEMMA OrderlyStep ==
  ASSUME Placed, [Next]_vars, Orderly'
  PROVE  Orderly
BY SpentStep DEF Orderly, Kinds

\* Only BeginProcess gives Process a tick to add.
LEMMA PendingStep ==
  ASSUME Placed, [Next]_vars, ~BeginProcess
  PROVE  /\ deliveries' = deliveries
         /\ \A c \in Cells : Pending(c)' => Pending(c) /\ pos' = pos
<1>1. deliveries' = deliveries
  BY DEF Next, Work, Visit, vars, world, stores, job, Tick,
     Produce, BeginProcess, FlushRead, BeginFlush, BeginFlushAll, Restore,
     Create, Extend, Replace, Visits, Save, EndProcess, FlushToTable,
     FlushToTopic, Forget, AfterFlush, PickBar, EndFlush, EndFlushAll,
     AutoCommit, LoseSession, Stop, CloseConsumer, Crash, Exit, Restart
<1>2. ASSUME NEW c \in Cells, Pending(c)'
      PROVE  Pending(c) /\ pos' = pos
  <2>1. holder' = "consumer" => holder = "consumer" /\ todo' \subseteq todo
    BY DEF Next, Work, Visit, vars, world, stores, job, Tick,
     Produce, BeginProcess, FlushRead, BeginFlush, BeginFlushAll, Restore,
     Create, Extend, Replace, Visits, Save, EndProcess, FlushToTable,
     FlushToTopic, Forget, AfterFlush, PickBar, EndFlush, EndFlushAll,
     AutoCommit, LoseSession, Stop, CloseConsumer, Crash, Exit, Restart,
       Placed, JobOK
  <2>2. holder' = "consumer" => pos' = pos
    BY DEF Next, Work, Visit, vars, world, stores, job, Tick,
     Produce, BeginProcess, FlushRead, BeginFlush, BeginFlushAll, Restore,
     Create, Extend, Replace, Visits, Save, EndProcess, FlushToTable,
     FlushToTopic, Forget, AfterFlush, PickBar, EndFlush, EndFlushAll,
     AutoCommit, LoseSession, Stop, CloseConsumer, Crash, Exit, Restart
  <2>3. stage = "save" /\ cur = c => (stage' = "save" /\ cur' = c) \/ c \notin todo'
    BY DEF Next, Work, Visit, vars, world, stores, job, Tick,
     Produce, BeginProcess, FlushRead, BeginFlush, BeginFlushAll, Restore,
     Create, Extend, Replace, Visits, Save, EndProcess, FlushToTable,
     FlushToTopic, Forget, AfterFlush, PickBar, EndFlush, EndFlushAll,
     AutoCommit, LoseSession, Stop, CloseConsumer, Crash, Exit, Restart, Placed, JobOK
  <2> QED
    BY <1>2, <2>1, <2>2, <2>3 DEF Pending
<1> QED
  BY <1>1, <1>2

\* A copy that is made is a copy of the open bar.
LEMMA StoreStep ==
  ASSUME Placed, [Next]_vars
  PROVE  \A k \in redis' \cup rows' \cup topic' :
           \/ k \in redis \cup rows \cup topic
           \/ k.cell \in Cells /\ buckets[k.cell] # None /\ k.bar = buckets[k.cell]
<1>1. CASE Save
  BY <1>1 DEF Save, RedisWith, Placed, JobOK, stores, TypeOK
<1>2. CASE FlushToTable
  BY <1>2 DEF FlushToTable, RowsWith, Placed, JobOK, TypeOK
<1>3. CASE FlushToTopic
  BY <1>3 DEF FlushToTopic, Placed, JobOK, TypeOK
<1>4. CASE Forget
  BY <1>4 DEF Forget, RedisWithout
<1>5. CASE ~(Save \/ FlushToTable \/ FlushToTopic \/ Forget)
  BY <1>5 DEF Next, Work, Visit, vars, world, stores, job, Tick,
     Produce, BeginProcess, FlushRead, BeginFlush, BeginFlushAll, Restore,
     Create, Extend, Replace, Visits, Save, EndProcess, FlushToTable,
     FlushToTopic, Forget, AfterFlush, PickBar, EndFlush, EndFlushAll,
     AutoCommit, LoseSession, Stop, CloseConsumer, Crash, Exit, Restart
<1> QED
  BY <1>1, <1>2, <1>3, <1>4, <1>5

-----------------------------------------------------------------------------
(* A bar that is in order stays so, as it is.                               *)

LEMMA DeliveredNext == Placed /\ DeliveredOK /\ [Next]_vars => DeliveredOK'
<1> SUFFICES ASSUME Placed, DeliveredOK, [Next]_vars
             PROVE  DeliveredOK'
  OBVIOUS
<1>1. CASE BeginProcess
  <2>1. /\ pos + 1 \in Nat \ {0} /\ pos + 1 <= Len(log)
        /\ deliveries \in [Offsets -> Nat]
    BY <1>1 DEF BeginProcess, Placed, TypeOK
  <2>2. pos + 1 \in Offsets
    BY <2>1, TickFacts DEF Placed
  <2>3. /\ deliveries' = [deliveries EXCEPT ![pos + 1] = @ + 1]
        /\ pos' = pos /\ log' = log
    BY <1>1 DEF BeginProcess, world
  <2> QED
    BY <2>1, <2>2, <2>3 DEF DeliveredOK
<1>2. CASE ~BeginProcess
  <2>1. deliveries' = deliveries
    BY <1>2, PendingStep
  <2>2. holder' = "consumer" => holder = "consumer" /\ pos' = pos
    BY <1>2 DEF Next, Work, Visit, vars, world, stores, job, Tick,
     Produce, BeginProcess, FlushRead, BeginFlush, BeginFlushAll, Restore,
     Create, Extend, Replace, Visits, Save, EndProcess, FlushToTable,
     FlushToTopic, Forget, AfterFlush, PickBar, EndFlush, EndFlushAll,
     AutoCommit, LoseSession, Stop, CloseConsumer, Crash, Exit, Restart
  <2>3. Len(log) <= Len(log') /\ Len(log) \in Nat /\ Len(log') \in Nat
    BY LogStep
  <2>4. \A o \in Offsets : o \in Nat
    BY DEF Offsets
  <2> QED
    BY <2>1, <2>2, <2>3, <2>4 DEF DeliveredOK
<1> QED
  BY <1>1, <1>2

\* The tick of a bar is one of the raw topic.
LEMMA HitFacts ==
  ASSUME Placed, DeliveredOK, NEW c \in Cells, NEW b \in Bars, BarOK(c, b),
         NEW o \in Offsets, b.hits[o] > 0
  PROVE  o \in 1 .. Len(log) /\ log[o].ts \in Nat
<1>1. b.hits[o] \in Nat /\ deliveries[o] \in Nat /\ o \in Nat \ {0}
  BY BarFacts DEF Placed, TypeOK, Offsets
<1>2. deliveries[o] > 0
  BY <1>1 DEF BarOK, CountOK
<1>3. o <= Len(log)
  BY <1>2 DEF DeliveredOK
<1>4. Len(log) \in Nat
  BY DEF Placed, TypeOK
<1> QED
  BY <1>1, <1>3, <1>4, TickFacts DEF Placed

LEMMA BarPersists ==
  ASSUME Placed, DeliveredOK, [Next]_vars,
         NEW c \in Cells, NEW b \in Bars, BarOK(c, b)
  PROVE  BarOK(c, b)'
<1>1. /\ \A o \in Offsets : b.hits[o] \in Nat /\ deliveries[o] \in Nat
      /\ pos \in Nat
  BY BarFacts DEF Placed, TypeOK
<1>2. \A o \in Offsets : b.hits[o] > 0 => log'[o] = log[o]
  BY HitFacts, LogStep
<1>3. CountOK(c, b)'
  <2>1. CASE BeginProcess
    <3>1. /\ \A o \in Offsets : deliveries'[o] = IF o = pos + 1 THEN deliveries[o] + 1
                                                  ELSE deliveries[o]
          /\ pos' = pos
      BY <2>1, <1>1 DEF BeginProcess, Placed, TypeOK
    <3> QED
      BY <3>1, <1>1, <1>2 DEF BarOK, CountOK
  <2>2. CASE ~BeginProcess
    <3>1. deliveries' = deliveries /\ (Pending(c)' => Pending(c) /\ pos' = pos)
      BY <2>2, PendingStep
    <3> QED
      BY <3>1, <1>2 DEF BarOK, CountOK
  <2> QED
    BY <2>1, <2>2
<1>4. GridOK(c, b)'
  BY DEF BarOK, GridOK, Window
<1>5. AimOK(c, b)'
  BY <1>2, OrderlyStep DEF BarOK, AimOK, Window
<1> QED
  BY <1>3, <1>4, <1>5 DEF BarOK

LEMMA StoresNext ==
  Placed /\ DeliveredOK /\ MemoryOK /\ StoresOK /\ [Next]_vars => StoresOK'
<1> SUFFICES ASSUME Placed, DeliveredOK, MemoryOK, StoresOK, [Next]_vars,
                    NEW k \in redis' \cup rows' \cup topic'
             PROVE  BarOK(k.cell, k.bar)'
  BY DEF StoresOK
<1>1. CASE k \in redis \cup rows \cup topic
  <2>1. k.cell \in Cells /\ k.bar \in Bars
    BY <1>1 DEF Placed, TypeOK, Saved, Entries
  <2>2. BarOK(k.cell, k.bar)
    BY <1>1 DEF StoresOK
  <2> QED
    BY <2>1, <2>2, BarPersists
<1>2. CASE k.cell \in Cells /\ buckets[k.cell] # None /\ k.bar = buckets[k.cell]
  <2>1. k.bar \in Bars
    BY <1>2 DEF Placed, TypeOK
  <2>2. BarOK(k.cell, k.bar)
    BY <1>2 DEF MemoryOK
  <2> QED
    BY <1>2, <2>1, <2>2, BarPersists
<1> QED
  BY <1>1, <1>2, StoreStep

-----------------------------------------------------------------------------
(* The bars Process opens and extends.                                      *)

\* The three ways Process makes the bar of c.
MadeFresh(c) == buckets'[c] = Fresh(c, pos + 1)
MadeStored(c) == \E k \in Stored(c, log[pos + 1].ts) : buckets'[c] = k.bar
MadeLonger(c) == /\ buckets[c] # None /\ ~Due(c, buckets[c], now) /\ Pending(c)
                 /\ buckets'[c] = Update(buckets[c], pos + 1)

Made(c) == /\ holder = "consumer" /\ holder' = "consumer"
           /\ stage' = "save" /\ cur' = c
           /\ c.sym = log[pos + 1].sym
           /\ pos' = pos /\ log' = log /\ now' = now /\ deliveries' = deliveries
           /\ MadeFresh(c) \/ MadeStored(c) \/ MadeLonger(c)

LEMMA MemoryStep ==
  ASSUME Placed, [Next]_vars, NEW c \in Cells
  PROVE  buckets'[c] = None \/ buckets'[c] = buckets[c] \/ Made(c)
<1>0. buckets \in [Cells -> Bars \cup {None}]
  BY DEF Placed, TypeOK
<1>1. ASSUME NEW d \in Cells, Restore(d) \/ Create(d) \/ Extend(d)
      PROVE  buckets'[c] = buckets[c] \/ Made(c)
  <2>1. CASE c = d
    <3>1. /\ Visits(c) /\ stage' = "save" /\ holder' = holder /\ pos' = pos
          /\ log' = log /\ now' = now /\ deliveries' = deliveries
      BY <1>1, <2>1 DEF Restore, Create, Extend, world
    <3>2. MadeFresh(c) \/ MadeStored(c) \/ MadeLonger(c)
      BY <1>0, <1>1, <2>1, <3>1 DEF Restore, Create, Extend, Visits, Pending,
         MadeFresh, MadeStored, MadeLonger
    <3> QED
      BY <3>1, <3>2 DEF Made, Visits, Placed, JobOK
  <2>2. CASE c # d
    BY <1>0, <1>1, <2>2 DEF Restore, Create, Extend
  <2> QED
    BY <2>1, <2>2
<1>2. ASSUME AfterFlush, stage \in {"kafka", "del"}, FlushToTopic \/ Forget
      PROVE  buckets'[c] = None \/ buckets'[c] = buckets[c] \/ Made(c)
  <2>1. cur \in Cells /\ cur \in todo
    BY <1>2 DEF Placed, TypeOK, JobOK
  <2>2. CASE holder = "consumer" /\ c = cur
    <3>1. MadeFresh(c) /\ stage' = "save" /\ cur' = c
      BY <1>0, <1>2, <2>1, <2>2 DEF AfterFlush, MadeFresh
    <3> QED
      BY <1>2, <2>1, <2>2, <3>1 DEF FlushToTopic, Forget, Made, Placed, JobOK, world
  <2>3. CASE ~(holder = "consumer" /\ c = cur)
    BY <1>0, <1>2, <2>1, <2>3 DEF AfterFlush
  <2> QED
    BY <2>2, <2>3
<1>3. CASE FlushToTopic \/ Forget
  BY <1>2, <1>3 DEF FlushToTopic, Forget
<1>4. CASE Crash \/ EndFlushAll
  BY <1>4 DEF Crash, EndFlushAll, Exit
<1>5. CASE \E d \in Cells : Restore(d) \/ Create(d) \/ Extend(d)
  BY <1>1, <1>5
<1>6. CASE /\ ~(FlushToTopic \/ Forget) /\ ~(Crash \/ EndFlushAll)
           /\ ~\E d \in Cells : Restore(d) \/ Create(d) \/ Extend(d)
  BY <1>6 DEF Next, Work, Visit, vars, world, stores, job, Tick, Produce,
     BeginProcess, FlushRead, BeginFlush, BeginFlushAll, Replace, Save,
     EndProcess, FlushToTable, PickBar, EndFlush, AutoCommit, LoseSession,
     Stop, CloseConsumer, Restart
<1> QED
  BY <1>3, <1>4, <1>5, <1>6

\* In time order, a tick that comes before the end of an open bar is of its window.
LEMMA ExtendsInWindow ==
  ASSUME Placed, OrderOK, Orderly, MemoryOK, NEW c \in Cells,
         holder = "consumer", buckets[c] # None, ~Due(c, buckets[c], now)
  PROVE  Window(c, log[pos + 1].ts) = buckets[c].start
<1> DEFINE s == buckets[c].start
           o == pos + 1
<1>1. /\ buckets[c] \in Bars /\ s \in Nat /\ now \in Nat /\ pos \in Nat
      /\ Len(log) \in Nat /\ o \in Nat \ {0} /\ o <= Len(log) /\ o \in 1 .. Len(log)
  BY BarFacts DEF Placed, TypeOK, JobOK
<1>2. log[o].ts \in Nat /\ Dur[c.iv] \in Nat \ {0}
  BY <1>1, TickFacts, CellFacts DEF Placed
<1>3. log[o].ts <= now
  BY <1>1 DEF OrderOK
<1>4. now < s + Dur[c.iv]
  BY <1>1, <1>2 DEF Due, End
<1>5. PICK q \in 1 .. Len(log) : q <= o /\ s <= log[q].ts
  BY <1>1 DEF OrderOK
<1>6. log[q].ts <= log[o].ts
  BY <1>1, <1>5 DEF OrderOK
<1>7. log[q].ts \in Nat
  BY <1>5, TickFacts DEF Placed
<1>8. Align(s, Dur[c.iv]) = s
  BY DEF MemoryOK, BarOK, GridOK, Window
<1>9. s <= log[o].ts /\ log[o].ts < s + Dur[c.iv]
  <2> HIDE DEF s, o
  <2> QED
    BY <1>1, <1>2, <1>3, <1>4, <1>5, <1>6, <1>7
<1> QED
  BY <1>1, <1>2, <1>8, <1>9, AlignUnique DEF Window

LEMMA MemoryNext ==
  Placed /\ DeliveredOK /\ OrderOK /\ MemoryOK /\ StoresOK /\ [Next]_vars => MemoryOK'
<1> SUFFICES ASSUME Placed, DeliveredOK, OrderOK, MemoryOK, StoresOK, [Next]_vars,
                    NEW c \in Cells, buckets'[c] # None
             PROVE  BarOK(c, buckets[c])'
  BY DEF MemoryOK
<1>1. buckets' \in [Cells -> Bars \cup {None}] /\ buckets'[c] \in Bars
  BY PlacedNext DEF Placed, TypeOK
<1>2. CASE buckets'[c] = buckets[c]
  <2>1. buckets[c] \in Bars /\ BarOK(c, buckets[c])
    BY <1>1, <1>2 DEF MemoryOK
  <2> QED
    BY <1>2, <2>1, BarPersists
<1>3. CASE Made(c)
  <2> DEFINE o == pos + 1
  <2>1. /\ o \in Nat \ {0} /\ o <= Len(log) /\ o \in Offsets /\ pos \in Nat
        /\ log[o].ts \in Nat
    <3>1. o \in Nat \ {0} /\ o <= Len(log) /\ pos \in Nat
      BY <1>3 DEF Made, Placed, TypeOK, JobOK
    <3> QED
      BY <3>1, TickFacts DEF Placed
  <2>2. /\ deliveries'[o] > 0 /\ deliveries' = deliveries /\ log' = log
        /\ c.sym = log[o].sym /\ ~Pending(c)'
        /\ \A q \in Offsets : deliveries[q] \in Nat
    BY <1>3 DEF Made, Pending, DeliveredOK, Placed, TypeOK
  <2>3. CASE MadeFresh(c)
    <3>1. /\ buckets'[c].start = Window(c, log[o].ts)
          /\ \A q \in Offsets : buckets'[c].hits[q] = IF q = o THEN 1 ELSE 0
      BY <2>1, <2>3, FreshFacts DEF MadeFresh, Placed
    <3>2. CountOK(c, buckets[c])'
      BY <2>1, <2>2, <3>1 DEF CountOK
    <3>3. GridOK(c, buckets[c])'
      BY <2>1, <3>1, WindowFacts DEF GridOK, Window
    <3>4. AimOK(c, buckets[c])'
      BY <2>2, <3>1 DEF AimOK, Window
    <3> QED
      BY <3>2, <3>3, <3>4 DEF BarOK
  <2>4. CASE MadeStored(c)
    <3>1. PICK k \in redis : k.cell = c /\ buckets'[c] = k.bar
      BY <2>4 DEF MadeStored, Stored
    <3>2. k.bar \in Bars /\ BarOK(c, k.bar)
      BY <3>1 DEF StoresOK, Placed, TypeOK, Saved
    <3>3. BarOK(c, k.bar)'
      BY <3>2, BarPersists
    <3> QED
      BY <3>1, <3>3
  <2>5. CASE MadeLonger(c)
    <3>1. /\ buckets[c] \in Bars /\ buckets[c] # None /\ BarOK(c, buckets[c])
          /\ Pending(c) /\ holder = "consumer" /\ ~Due(c, buckets[c], now)
      BY <1>3, <2>5 DEF Made, MadeLonger, MemoryOK, Placed, TypeOK
    <3>2. /\ buckets'[c].start = buckets[c].start
          /\ \A q \in Offsets : /\ buckets[c].hits[q] \in Nat
                                /\ buckets'[c].hits[q] = IF q = o
                                                         THEN buckets[c].hits[q] + 1
                                                         ELSE buckets[c].hits[q]
      BY <2>1, <2>5, <3>1, UpdateFacts, BarFacts DEF MadeLonger
    <3>3. CountOK(c, buckets[c])'
      BY <2>1, <2>2, <3>1, <3>2 DEF BarOK, CountOK
    <3>4. GridOK(c, buckets[c])'
      BY <3>1, <3>2 DEF BarOK, GridOK, Window
    <3>5. Orderly' => Window(c, log[o].ts) = buckets[c].start
      BY <3>1, OrderlyStep, ExtendsInWindow
    <3>6. AimOK(c, buckets[c])'
      BY <2>2, <3>1, <3>2, <3>5, OrderlyStep DEF BarOK, AimOK, Window
    <3> QED
      BY <3>3, <3>4, <3>6 DEF BarOK
  <2> QED
    BY <1>3, <2>3, <2>4, <2>5 DEF Made
<1> QED
  BY <1>2, <1>3, MemoryStep

-----------------------------------------------------------------------------
(* The order of ticks.                                                      *)

\* While the process lives and no session is lost, it moves forward.
LEMMA ForwardStep ==
  ASSUME Placed, [Next]_vars, Orderly', NEW c \in Cells, buckets'[c] # None,
         buckets'[c] = buckets[c], NEW o \in 1 .. Len(log),
         o <= pos \/ (holder = "consumer" /\ o = pos + 1)
  PROVE  o <= pos' \/ (holder' = "consumer" /\ o = pos' + 1)
<1>1. pos \in Nat /\ o \in Nat
  BY DEF Placed, TypeOK
<1>2. CASE Crash \/ EndFlushAll
  BY <1>2 DEF Crash, EndFlushAll, Exit
<1>3. CASE LoseSession
  <2>1. spent'["session"] = spent["session"] + 1 /\ spent["session"] \in Nat
    BY <1>3, SpendFacts DEF LoseSession, Placed, TypeOK, Kinds
  <2> QED
    BY <2>1 DEF Orderly
<1>4. CASE EndProcess
  BY <1>1, <1>4 DEF EndProcess
<1>5. CASE BeginProcess \/ BeginFlush \/ BeginFlushAll
  BY <1>5 DEF BeginProcess, BeginFlush, BeginFlushAll
<1>6. CASE EndFlush
  BY <1>6 DEF EndFlush
<1>7. CASE ~(Crash \/ EndFlushAll \/ LoseSession \/ EndProcess \/ BeginProcess
             \/ BeginFlush \/ BeginFlushAll \/ EndFlush)
  <2>1. pos' = pos /\ holder' = holder
    BY <1>7 DEF Next, Work, Visit, vars, world, stores, job, Tick, Produce,
       FlushRead, Restore, Create, Extend, Replace, Visits, Save, FlushToTable,
       FlushToTopic, Forget, PickBar, AutoCommit, Stop, CloseConsumer, Restart
  <2> QED
    BY <2>1
<1> QED
  BY <1>2, <1>3, <1>4, <1>5, <1>6, <1>7

LEMMA OrderNext ==
  Placed /\ DeliveredOK /\ MemoryOK /\ OrderOK /\ [Next]_vars => OrderOK'
<1> SUFFICES ASSUME Placed, DeliveredOK, MemoryOK, OrderOK, [Next]_vars, Orderly'
             PROVE  /\ \A o \in 1 .. Len(log') :
                         /\ log'[o].ts <= now'
                         /\ \A p \in 1 .. o : log'[p].ts <= log'[o].ts
                    /\ \A c \in Cells : buckets'[c] # None =>
                         \E o \in 1 .. Len(log') :
                           /\ o <= pos' \/ (holder' = "consumer" /\ o = pos' + 1)
                           /\ buckets'[c].start <= log'[o].ts
  BY DEF OrderOK
<1>1. Orderly
  BY OrderlyStep
<1>2. /\ \A o \in 1 .. Len(log) : /\ log[o].ts \in Nat /\ log[o].ts <= now
                                  /\ \A p \in 1 .. o : log[p].ts <= log[o].ts
      /\ log \in Seq(RawTicks) /\ Len(log) \in Nat
  <2>1. \A o \in 1 .. Len(log) : log[o].ts \in Nat
    BY TickFacts DEF Placed
  <2> QED
    BY <1>1, <2>1 DEF OrderOK, Placed, TypeOK
<1>3. ASSUME NEW o \in 1 .. Len(log')
      PROVE  log'[o].ts <= now' /\ \A p \in 1 .. o : log'[p].ts <= log'[o].ts
  <2>1. CASE Produce
    <3>1. PICK sym \in Symbols, ts \in 0 .. now + 1 :
            /\ log' = Append(log, [sym |-> sym, ts |-> ts])
            /\ IF InOrder(ts) THEN UNCHANGED spent ELSE Spend("clock")
      BY <2>1 DEF Produce
    <3>2. InOrder(ts)
      <4>1. CASE Spend("clock")
        <5>1. spent'["clock"] = spent["clock"] + 1 /\ spent["clock"] \in Nat
          BY <4>1, SpendFacts DEF Placed, TypeOK, Kinds
        <5> QED
          BY <5>1 DEF Orderly
      <4> QED
        BY <3>1, <4>1
    <3>3. [sym |-> sym, ts |-> ts] \in RawTicks /\ ts \in Nat
      BY <3>1 DEF Placed, TypeOK, RawTicks
    <3>4. /\ Len(log') = Len(log) + 1 /\ log'[Len(log) + 1].ts = ts
          /\ \A p \in 1 .. Len(log) : log'[p] = log[p]
      BY <1>2, <3>1, <3>3
    <3>5. ts <= now /\ \A p \in 1 .. Len(log) : log[p].ts <= ts
      BY <1>2, <3>2 DEF InOrder
    <3>6. now' = now
      BY <2>1 DEF Produce
    <3>7. CASE o = Len(log) + 1
      BY <1>2, <3>3, <3>4, <3>5, <3>6, <3>7
    <3>8. CASE o \in 1 .. Len(log)
      BY <1>2, <3>4, <3>6, <3>8
    <3> QED
      BY <1>2, <3>4, <3>7, <3>8
  <2>2. CASE ~Produce
    <3>1. log' = log
      BY <2>2 DEF Next, Work, Visit, vars, world, stores, job, Tick,
     Produce, BeginProcess, FlushRead, BeginFlush, BeginFlushAll, Restore,
     Create, Extend, Replace, Visits, Save, EndProcess, FlushToTable,
     FlushToTopic, Forget, AfterFlush, PickBar, EndFlush, EndFlushAll,
     AutoCommit, LoseSession, Stop, CloseConsumer, Crash, Exit, Restart
    <3>2. now <= now' /\ now \in Nat /\ now' \in Nat
      BY LogStep
    <3> QED
      BY <1>2, <3>1, <3>2
  <2> QED
    BY <2>1, <2>2
<1>4. ASSUME NEW c \in Cells, buckets'[c] # None
      PROVE  \E o \in 1 .. Len(log') :
               /\ o <= pos' \/ (holder' = "consumer" /\ o = pos' + 1)
               /\ buckets'[c].start <= log'[o].ts
  <2>1. CASE buckets'[c] = buckets[c]
    <3>1. PICK o \in 1 .. Len(log) : /\ o <= pos \/ (holder = "consumer" /\ o = pos + 1)
                                     /\ buckets[c].start <= log[o].ts
      BY <1>1, <1>4, <2>1 DEF OrderOK
    <3>2. o <= pos' \/ (holder' = "consumer" /\ o = pos' + 1)
      BY <1>4, <2>1, <3>1, ForwardStep
    <3>3. o \in 1 .. Len(log') /\ log'[o] = log[o]
      BY <1>2, <3>1, LogStep
    <3> QED
      BY <2>1, <3>1, <3>2, <3>3
  <2>2. CASE Made(c)
    <3> DEFINE o == pos + 1
    <3>1. o \in Nat \ {0} /\ o <= Len(log) /\ o \in 1 .. Len(log) /\ pos \in Nat
      BY <2>2 DEF Made, Placed, TypeOK, JobOK
    <3>2. log[o].ts \in Nat /\ Window(c, log[o].ts) <= log[o].ts
      BY <3>1, TickFacts, WindowFacts DEF Placed
    <3>3. buckets'[c].start <= log[o].ts
      <4>1. CASE MadeFresh(c)
        BY <3>1, <3>2, <4>1, FreshFacts DEF MadeFresh, Placed
      <4>2. CASE MadeStored(c)
        BY <3>2, <4>2 DEF MadeStored, Stored
      <4>3. CASE MadeLonger(c)
        <5>1. /\ buckets[c] \in Bars /\ holder = "consumer" /\ o \in Offsets
              /\ buckets[c] # None /\ ~Due(c, buckets[c], now)
          BY <2>2, <3>1, <4>3, TickFacts DEF Made, MadeLonger, Placed, TypeOK
        <5>2. buckets'[c].start = buckets[c].start
          BY <4>3, <5>1, UpdateFacts DEF MadeLonger
        <5>3. Window(c, log[o].ts) = buckets[c].start
          BY <1>1, <5>1, ExtendsInWindow
        <5> QED
          BY <3>2, <5>2, <5>3
      <4> QED
        BY <2>2, <4>1, <4>2, <4>3 DEF Made
    <3>4. log' = log /\ pos' = pos /\ holder' = "consumer"
      BY <2>2 DEF Made
    <3> QED
      BY <3>1, <3>3, <3>4
  <2> QED
    BY <1>4, <2>1, <2>2, MemoryStep
<1> QED
  BY <1>3, <1>4

-----------------------------------------------------------------------------
(* The keys of the stores.                                                  *)

LEMMA UniqueNext == Placed /\ UniqueOK /\ [Next]_vars => UniqueOK'
<1> SUFFICES ASSUME Placed, UniqueOK, [Next]_vars
             PROVE  UniqueOK'
  OBVIOUS
<1>1. CASE Save
  BY <1>1 DEF Save, RedisWith, UniqueOK
<1>2. CASE FlushToTable
  BY <1>2 DEF FlushToTable, RowsWith, HasRow, UniqueOK
<1>3. CASE Forget
  BY <1>3 DEF Forget, RedisWithout, UniqueOK
<1>4. CASE ~(Save \/ FlushToTable \/ Forget)
  <2>1. redis' = redis /\ rows' = rows
    BY <1>4 DEF Next, Work, Visit, vars, world, stores, job, Tick,
     Produce, BeginProcess, FlushRead, BeginFlush, BeginFlushAll, Restore,
     Create, Extend, Replace, Visits, Save, EndProcess, FlushToTable,
     FlushToTopic, Forget, AfterFlush, PickBar, EndFlush, EndFlushAll,
     AutoCommit, LoseSession, Stop, CloseConsumer, Crash, Exit, Restart
  <2> QED
    BY <2>1 DEF UniqueOK
<1> QED
  BY <1>1, <1>2, <1>3, <1>4

-----------------------------------------------------------------------------
(* The invariant and what follows from it.                                  *)

StoreInv == /\ Placed /\ DeliveredOK /\ MemoryOK /\ StoresOK /\ OrderOK
            /\ UniqueOK

LEMMA StoreInvInit == Init => StoreInv
<1> SUFFICES ASSUME Init
             PROVE  StoreInv
  OBVIOUS
<1>1. Placed
  BY PlacedInit
<1>2. DeliveredOK
  BY DEF Init, DeliveredOK
<1>3. MemoryOK /\ StoresOK /\ UniqueOK
  BY DEF Init, MemoryOK, StoresOK, UniqueOK
<1>4. OrderOK
  <2>1. Len(log) = 0 /\ \A c \in Cells : buckets[c] = None
    BY DEF Init
  <2> QED
    BY <2>1 DEF OrderOK
<1> QED
  BY <1>1, <1>2, <1>3, <1>4 DEF StoreInv

LEMMA StoreInvNext == StoreInv /\ [Next]_vars => StoreInv'
BY PlacedNext, DeliveredNext, MemoryNext, StoresNext, OrderNext, UniqueNext
   DEF StoreInv

\* Every copy of a bar is in order.
LEMMA CopiesOK ==
  ASSUME StoreInv, NEW k \in Copies
  PROVE  k.cell \in Cells /\ k.bar \in Bars /\ BarOK(k.cell, k.bar)
<1>1. CASE k \in InMemory
  BY <1>1 DEF InMemory, StoreInv, MemoryOK, Placed, TypeOK
<1>2. CASE k \in InRedis
  <2>1. PICK e \in redis : k.cell = e.cell /\ k.bar = e.bar
    BY <1>2 DEF InRedis
  <2> QED
    BY <2>1 DEF StoreInv, StoresOK, Placed, TypeOK, Saved
<1>3. CASE k \in rows \cup topic
  BY <1>3 DEF StoreInv, StoresOK, Placed, TypeOK, Entries
<1> QED
  BY <1>1, <1>2, <1>3 DEF Copies

(* No copy of a bar counts a tick more often than Process was given it, or a tick of
   another symbol: manager.go's Process, under every disturbance. *)
THEOREM CountsCorrect == Spec => []CountsDeliveredTicks
<1>1. StoreInv => CountsDeliveredTicks
  BY CopiesOK DEF BarOK, CountOK, CountsDeliveredTicks
<1> QED
  BY <1>1, StoreInvInit, StoreInvNext, PTL DEF Spec

(* All starts are on the grid, and no window has two rows or two partial bars: the
   keys of redis/adapter.go and of the candles table. *)
THEOREM KeysCorrect == Spec => []OneBarPerWindow
<1>1. StoreInv => OneBarPerWindow
  BY CopiesOK DEF BarOK, GridOK, StoreInv, UniqueOK, OneBarPerWindow
<1> QED
  BY <1>1, StoreInvInit, StoreInvNext, PTL DEF Spec

(* With ticks in time order, none of the future, and no lost session, a bar holds
   ticks of its own window only, though candleState.update never looks. *)
THEOREM WindowsCorrect == Spec => []TicksInWindow
<1>1. StoreInv => TicksInWindow
  BY CopiesOK DEF BarOK, AimOK, TicksInWindow
<1> QED
  BY <1>1, StoreInvInit, StoreInvNext, PTL DEF Spec

(* The outputs keep the promise of CandleStore: a row is never changed, removed or
   written twice, and rows and messages are truthful. *)
THEOREM Implements == Spec => PromiseKept
<1>1. Init => Promise!Init
  BY DEF Init, Promise!Init
<1>2. ASSUME StoreInv, [Next]_vars
      PROVE  [Promise!Next]_(Promise!vars)
  <2> DEFINE k == [cell |-> cur, bar |-> buckets[cur]]
  <2>1. ASSUME stage \in {"db", "kafka"}
        PROVE  Promise!Truthful(k) /\ k.cell = cur /\ k.bar = buckets[cur]
    <3>1. cur \in Cells /\ buckets[cur] # None
      BY <1>2, <2>1 DEF StoreInv, Placed, TypeOK, JobOK
    <3>2. BarOK(cur, buckets[cur])
      BY <1>2, <3>1 DEF StoreInv, MemoryOK
    <3> QED
      BY <3>1, <3>2 DEF Promise!Truthful, Promise!Align, Align, BarOK, CountOK, GridOK,
         Window
  <2>2. CASE FlushToTable
    <3>1. topic' = topic /\ deliveries' = deliveries /\ stage = "db"
      BY <2>2 DEF FlushToTable
    <3>2. rows' = rows \/ (~HasRow(cur, buckets[cur]) /\ rows' = rows \cup {k})
      BY <2>2 DEF FlushToTable, RowsWith
    <3>3. CASE rows' = rows
      BY <3>1, <3>3 DEF Promise!vars
    <3>4. CASE ~HasRow(cur, buckets[cur]) /\ rows' = rows \cup {k}
      BY <2>1, <3>1, <3>4 DEF HasRow, Promise!Next, Promise!Record
    <3> QED
      BY <3>2, <3>3, <3>4
  <2>3. CASE FlushToTopic
    <3>1. rows' = rows /\ deliveries' = deliveries /\ stage = "kafka"
      BY <2>3 DEF FlushToTopic
    <3>2. topic' = topic \/ topic' = topic \cup {k}
      BY <2>3 DEF FlushToTopic
    <3>3. CASE topic' = topic
      BY <3>1, <3>3 DEF Promise!vars
    <3>4. CASE topic' = topic \cup {k}
      BY <2>1, <3>1, <3>4 DEF Promise!Next, Promise!Publish
    <3> QED
      BY <3>2, <3>3, <3>4
  <2>4. CASE BeginProcess
    <3>1. pos + 1 \in Nat \ {0} /\ pos + 1 <= Len(log)
      BY <1>2, <2>4 DEF BeginProcess, StoreInv, Placed, TypeOK
    <3>2. pos + 1 \in Offsets
      BY <1>2, <3>1, TickFacts DEF StoreInv, Placed
    <3> QED
      BY <2>4, <3>2 DEF BeginProcess, stores, Promise!Next, Promise!Deliver
  <2>5. CASE ~FlushToTable /\ ~FlushToTopic /\ ~BeginProcess
    <3>1. rows' = rows /\ topic' = topic
      BY <1>2, <2>5 DEF Next, Work, Visit, vars, world, stores, job, Tick,
     Produce, BeginProcess, FlushRead, BeginFlush, BeginFlushAll, Restore,
     Create, Extend, Replace, Visits, Save, EndProcess, FlushToTable,
     FlushToTopic, Forget, AfterFlush, PickBar, EndFlush, EndFlushAll,
     AutoCommit, LoseSession, Stop, CloseConsumer, Crash, Exit, Restart
    <3>2. deliveries' = deliveries
      BY <1>2, <2>5, PendingStep DEF StoreInv
    <3> QED
      BY <3>1, <3>2 DEF Promise!vars
  <2> QED
    BY <2>2, <2>3, <2>4, <2>5
<1> QED
  BY <1>1, <1>2, StoreInvInit, StoreInvNext, PTL DEF Spec, PromiseKept, Promise!Spec

-----------------------------------------------------------------------------
(***************************************************************************)
(* While no remote call fails and the process does not die, nothing is     *)
(* lost, counted twice, or told to one sink only: whatever the clocks, the *)
(* order of ticks, the redeliveries and the shutdowns.  The invariant:     *)
(***************************************************************************)

CurEntry == [cell |-> cur, bar |-> buckets[cur]]

\* An error of a sink is remembered only if there was one.
ErrOK == sinkErr => ~Faultless

\* How far flushOne has come with the bar it is at.
SinkOK == /\ stage = "del" => CurEntry \in topic
          /\ Faultless /\ stage = "kafka" => HasRow(cur, buckets[cur])

\* Redis against the memory; the bar to be saved replaces one of its window only.
MirrorOK ==
  Faultless =>
    \A c \in Cells :
      IF stage = "save" /\ cur = c
      THEN \A e \in redis : e.cell = c => e.bar.start = buckets[c].start
      ELSE {e.bar : e \in {f \in redis : f.cell = c}} = {buckets[c]} \ {None}

\* Process has added the tick to the bar it saves.
SaveOK == Faultless /\ stage = "save" => buckets[cur].hits[pos + 1] > 0

\* A tick delivered once is in one bar, which may be open and published only
\* between its publication and its removal.
OnceOK ==
  Faultless =>
    \A t \in topic, o \in Offsets :
      deliveries[o] = 1 /\ t.bar.hits[o] > 0 =>
        /\ \A u \in topic : u.cell = t.cell /\ u.bar.hits[o] > 0 => u = t
        /\ buckets[t.cell] # None /\ buckets[t.cell].hits[o] > 0 =>
             stage = "del" /\ t = CurEntry

LossInv == /\ StoreInv /\ ErrOK /\ SinkOK /\ MirrorOK /\ SaveOK /\ OnceOK
           /\ SinksAgree /\ NoTickLost

-----------------------------------------------------------------------------
(* What a step may do that leaves the run faultless.                        *)

LEMMA FaultlessStep ==
  ASSUME Placed, [Next]_vars, Faultless'
  PROVE  Faultless
BY SpentStep DEF Faultless, Kinds

LEMMA FaultlessCall ==
  ASSUME TypeOK, NEW ok \in BOOLEAN, Call(ok) \/ ContextCall(ok), Faultless'
  PROVE  ok
<1>1. spent' \in [Kinds -> Nat] /\ (~ok => spent'["io"] > 0 \/ spent'["cut"] > 0)
  BY CallFacts
<1> QED
  BY <1>1 DEF Faultless, Kinds

\* The step touches neither a bar nor a store, and at most takes up a bar to flush.
Quiet == /\ UNCHANGED <<stores, buckets, sinkErr>>
         /\ \/ stage' = stage /\ cur' = cur
            \/ stage = "next" /\ stage' = "db"

LEMMA FaultlessCases ==
  ASSUME Placed, MirrorOK, ErrOK, [Next]_vars, Faultless'
  PROVE  \/ Quiet
         \/ \E c \in Cells : Create(c) \/ Extend(c)
         \/ /\ Save
            /\ redis' = RedisWith(cur, buckets[cur])
         \/ /\ FlushToTable
            /\ rows' = RowsWith(cur, buckets[cur]) /\ ~sinkErr'
         \/ /\ FlushToTopic /\ topic' = topic \cup {CurEntry}
            /\ stage' = "del" /\ UNCHANGED <<buckets, todo, cur>>
         \/ /\ Forget
            /\ redis' = RedisWithout(cur, buckets[cur].start)
<1>0. Faultless /\ TypeOK
  BY FaultlessStep DEF Placed
<1>1. CASE Save
  <2>1. PICK ok, applied \in BOOLEAN :
          /\ ok => applied
          /\ ContextCall(ok)
          /\ redis' = IF applied THEN RedisWith(cur, buckets[cur]) ELSE redis
    BY <1>1 DEF Save
  <2>2. ok
    BY <1>0, <2>1, FaultlessCall
  <2> QED
    BY <1>1, <2>1, <2>2
<1>2. CASE FlushToTable
  <2>1. PICK ok, applied \in BOOLEAN :
          /\ ok => applied
          /\ ContextCall(ok)
          /\ rows' = IF applied THEN RowsWith(cur, buckets[cur]) ELSE rows
          /\ sinkErr' = ~ok
    BY <1>2 DEF FlushToTable
  <2>2. ok
    BY <1>0, <2>1, FaultlessCall
  <2> QED
    BY <1>2, <2>1, <2>2
<1>3. CASE FlushToTopic
  <2>1. PICK ok, applied \in BOOLEAN :
          /\ ok => applied
          /\ Call(ok)
          /\ topic' = IF applied THEN topic \cup {CurEntry} ELSE topic
          /\ IF ok /\ ~sinkErr
             THEN stage' = "del" /\ UNCHANGED <<buckets, todo, cur>>
             ELSE AfterFlush
    BY <1>3 DEF FlushToTopic, CurEntry
  <2>2. ok
    BY <1>0, <2>1, FaultlessCall
  <2>3. ~sinkErr
    BY <1>0 DEF ErrOK
  <2> QED
    BY <1>3, <2>1, <2>2, <2>3
<1>4. CASE Forget
  <2>1. PICK ok, applied \in BOOLEAN :
          /\ ok => applied
          /\ ContextCall(ok)
          /\ redis' = IF applied THEN RedisWithout(cur, buckets[cur].start) ELSE redis
    BY <1>4 DEF Forget
  <2>2. ok
    BY <1>0, <2>1, FaultlessCall
  <2> QED
    BY <1>4, <2>1, <2>2
<1>5. ASSUME NEW c \in Cells, Restore(c)
      PROVE  FALSE
  <2>1. buckets[c] = None /\ stage = "next" /\ \E e \in redis : e.cell = c
    BY <1>5 DEF Restore, Visits, Stored
  <2>2. {e.bar : e \in {f \in redis : f.cell = c}} = {buckets[c]} \ {None}
    BY <1>0, <2>1 DEF MirrorOK
  <2> QED
    BY <2>1, <2>2
<1>6. CASE EndFlushAll
  <2>1. \A c \in Cells : buckets[c] = None
    BY <1>6 DEF EndFlushAll, Placed, ProcOK
  <2>2. buckets \in [Cells -> Bars \cup {None}] /\ cur = None /\ ~sinkErr
    BY <1>0, <1>6 DEF EndFlushAll, TypeOK, Placed, JobOK, ErrOK
  <2>3. buckets' = buckets
    BY <1>6, <2>1, <2>2 DEF EndFlushAll, Exit
  <2>4. sinkErr' = sinkErr
    BY <1>0, <1>6, <2>2 DEF EndFlushAll, Exit, TypeOK
  <2> QED
    BY <1>6, <2>2, <2>3, <2>4 DEF EndFlushAll, Exit, Quiet
<1>7. CASE Crash
  <2>1. spent'["crash"] = spent["crash"] + 1 /\ spent["crash"] \in Nat
    BY <1>0, <1>7, SpendFacts DEF Crash, TypeOK, Kinds
  <2> QED
    BY <2>1 DEF Faultless
<1>8. CASE \/ Tick \/ Produce \/ BeginProcess \/ FlushRead \/ BeginFlush
           \/ BeginFlushAll \/ EndProcess \/ PickBar \/ EndFlush \/ AutoCommit
           \/ LoseSession \/ Stop \/ CloseConsumer \/ Restart \/ UNCHANGED vars
           \/ \E c \in Cells : Replace(c)
  BY <1>8 DEF Tick, Produce, BeginProcess, FlushRead, BeginFlush,
     BeginFlushAll, EndProcess, PickBar, EndFlush, AutoCommit, LoseSession,
     Stop, CloseConsumer, Restart, Replace, Visits, vars, stores, job, Quiet
<1> QED
  BY <1>1, <1>2, <1>3, <1>4, <1>5, <1>6, <1>7, <1>8 DEF Next, Work, Visit

\* The step that opens or extends the bar of c.
LEMMA OpenStep ==
  ASSUME Placed, NEW c \in Cells, Create(c) \/ Extend(c)
  PROVE  /\ holder = "consumer" /\ holder' = "consumer" /\ c \in todo /\ todo' = todo
         /\ stage = "next" /\ stage' = "save" /\ cur = None /\ cur' = c
         /\ UNCHANGED <<stores, pos, log, deliveries, sinkErr>>
         /\ pos + 1 \in Offsets /\ c.sym = log[pos + 1].sym
         /\ \A d \in Cells : d # c => buckets'[d] = buckets[d]
         /\ \/ buckets[c] = None /\ buckets'[c] = Fresh(c, pos + 1)
            \/ /\ buckets[c] # None /\ buckets[c] \in Bars
               /\ buckets'[c] = Update(buckets[c], pos + 1)
         /\ buckets'[c] \in Bars /\ buckets'[c] # None
<1> USE DEF Placed
<1>1. /\ holder = "consumer" /\ holder' = "consumer" /\ c \in todo /\ todo' = todo
      /\ stage = "next" /\ stage' = "save" /\ cur = None /\ cur' = c
      /\ UNCHANGED <<stores, pos, log, deliveries, sinkErr>>
  BY DEF Create, Extend, Visits, world, JobOK
<1>2. pos + 1 \in Nat \ {0} /\ pos + 1 <= Len(log) /\ c.sym = log[pos + 1].sym
  BY <1>1 DEF TypeOK, JobOK
<1>3. pos + 1 \in Offsets
  BY <1>2, TickFacts
<1>4. /\ \A d \in Cells : d # c => buckets'[d] = buckets[d]
      /\ \/ buckets[c] = None /\ buckets'[c] = Fresh(c, pos + 1)
         \/ /\ buckets[c] # None /\ buckets[c] \in Bars
            /\ buckets'[c] = Update(buckets[c], pos + 1)
  BY DEF Create, Extend, TypeOK
<1>5. buckets'[c] \in Bars
  BY <1>2, <1>3, <1>4, FreshFacts, UpdateFacts
<1> QED
  BY <1>1, <1>2, <1>3, <1>4, <1>5, BarFacts

\* The step that leaves a bar behind.
LEMMA ForgetStep ==
  ASSUME Placed, Forget
  PROVE  /\ cur \in Cells /\ cur \in todo /\ stage = "del"
         /\ buckets[cur] \in Bars /\ buckets[cur] # None
         /\ UNCHANGED <<rows, topic, pos, log, deliveries, sinkErr, holder>>
         /\ \A d \in Cells : d # cur => buckets'[d] = buckets[d]
         /\ \/ /\ holder = "consumer" /\ cur' = cur /\ stage' = "save" /\ todo' = todo
               /\ pos + 1 \in Offsets /\ cur.sym = log[pos + 1].sym
               /\ buckets'[cur] = Fresh(cur, pos + 1) /\ buckets'[cur] \in Bars
            \/ /\ holder # "consumer" /\ stage' = "next" /\ cur' = None
               /\ todo' = todo \ {cur} /\ buckets'[cur] = None
<1> USE DEF Placed
<1>1. /\ cur \in Cells /\ cur \in todo /\ stage = "del"
      /\ buckets[cur] \in Bars /\ buckets[cur] # None
      /\ UNCHANGED <<rows, topic, pos, log, deliveries, sinkErr, holder>>
  BY DEF Forget, world, TypeOK, JobOK
<1>2. /\ \A d \in Cells : d # cur => buckets'[d] = buckets[d]
      /\ \/ /\ holder = "consumer" /\ cur' = cur /\ stage' = "save" /\ todo' = todo
            /\ buckets'[cur] = Fresh(cur, pos + 1)
         \/ /\ holder # "consumer" /\ stage' = "next" /\ cur' = None
            /\ todo' = todo \ {cur} /\ buckets'[cur] = None
  BY <1>1 DEF Forget, AfterFlush, TypeOK
<1>3. ASSUME holder = "consumer"
      PROVE  /\ pos + 1 \in Offsets /\ cur.sym = log[pos + 1].sym
             /\ Fresh(cur, pos + 1) \in Bars
  <2>1. pos + 1 \in Nat \ {0} /\ pos + 1 <= Len(log) /\ cur.sym = log[pos + 1].sym
    BY <1>1, <1>3 DEF TypeOK, JobOK
  <2> QED
    BY <1>1, <2>1, TickFacts, FreshFacts
<1> QED
  BY <1>1, <1>2, <1>3

\* The tick in hand is in the bar that Process has opened or extended.
LEMMA OpenedHit ==
  ASSUME NEW c \in Cells, NEW o \in Offsets, NEW b,
         \/ b = Fresh(c, o)
         \/ \E a \in Bars : b = Update(a, o)
  PROVE  b.hits[o] > 0
<1>1. CASE b = Fresh(c, o)
  BY <1>1 DEF Fresh
<1>2. CASE \E a \in Bars : b = Update(a, o)
  <2>1. PICK a \in Bars : b = Update(a, o)
    BY <1>2
  <2>2. a.hits[o] \in Nat /\ b.hits[o] = a.hits[o] + 1
    BY <2>1, UpdateFacts, BarFacts
  <2> QED
    BY <2>2
<1> QED
  BY <1>1, <1>2

-----------------------------------------------------------------------------
(* Each part is preserved.                                                  *)

LEMMA ErrNext ==
  Placed /\ MirrorOK /\ ErrOK /\ [Next]_vars => ErrOK'
<1> SUFFICES ASSUME Placed, MirrorOK, ErrOK, [Next]_vars, Faultless'
             PROVE  ~sinkErr'
  BY DEF ErrOK
<1>1. ~sinkErr /\ sinkErr \in BOOLEAN
  BY FaultlessStep DEF ErrOK, Placed, TypeOK
<1>2. sinkErr' = sinkErr \/ ~sinkErr'
  BY FaultlessCases DEF Quiet, Create, Extend, Save, FlushToTopic, Forget
<1> QED
  BY <1>1, <1>2

LEMMA SinkNext ==
  Placed /\ MirrorOK /\ ErrOK /\ SinkOK /\ [Next]_vars => SinkOK'
<1> SUFFICES ASSUME Placed, MirrorOK, ErrOK, SinkOK, [Next]_vars
             PROVE  SinkOK'
  OBVIOUS
<1>1. ASSUME stage' = "del"
      PROVE  CurEntry' \in topic'
  <2>1. CASE FlushToTopic
    BY <1>1, <2>1 DEF FlushToTopic, AfterFlush, CurEntry
  <2>2. CASE ~FlushToTopic
    <3>1. stage = "del" /\ cur' = cur /\ topic' = topic /\ buckets' = buckets
      BY <1>1, <2>2 DEF Next, Work, Visit, vars, world, stores, job, Tick,
     Produce, BeginProcess, FlushRead, BeginFlush, BeginFlushAll, Restore,
     Create, Extend, Replace, Visits, Save, EndProcess, FlushToTable,
     Forget, AfterFlush, PickBar, EndFlush, EndFlushAll,
     AutoCommit, LoseSession, Stop, CloseConsumer, Crash, Exit, Restart
    <3> QED
      BY <3>1 DEF SinkOK, CurEntry
  <2> QED
    BY <2>1, <2>2
<1>2. ASSUME Faultless', stage' = "kafka"
      PROVE  HasRow(cur, buckets[cur])'
  <2>1. Faultless
    BY <1>2, FaultlessStep
  <2>2. CASE FlushToTable /\ rows' = RowsWith(cur, buckets[cur])
    <3>1. cur' = cur /\ buckets' = buckets
      BY <2>2 DEF FlushToTable
    <3>2. CurEntry \in rows' \/ (HasRow(cur, buckets[cur]) /\ rows' = rows)
      BY <2>2 DEF RowsWith, CurEntry
    <3>3. \E r \in rows' : r.cell = cur /\ r.bar.start = buckets[cur].start
      BY <3>2 DEF HasRow, CurEntry
    <3> QED
      BY <3>1, <3>3 DEF HasRow
  <2>3. CASE Quiet
    BY <1>2, <2>1, <2>3 DEF Quiet, stores, SinkOK, HasRow
  <2> QED
    BY <1>2, <2>2, <2>3, FaultlessCases DEF Create, Extend, Save, Forget, AfterFlush
<1> QED
  BY <1>1, <1>2 DEF SinkOK

LEMMA SaveNext ==
  Placed /\ MirrorOK /\ ErrOK /\ SaveOK /\ [Next]_vars => SaveOK'
<1> SUFFICES ASSUME Placed, MirrorOK, ErrOK, SaveOK, [Next]_vars,
                    Faultless', stage' = "save"
             PROVE  buckets'[cur'].hits[pos' + 1] > 0
  BY DEF SaveOK
<1>1. Faultless
  BY FaultlessStep
<1>2. ASSUME NEW c \in Cells, Create(c) \/ Extend(c)
      PROVE  buckets'[cur'].hits[pos' + 1] > 0
  BY <1>2, OpenStep, OpenedHit
<1>3. CASE Forget
  BY <1>3, ForgetStep, OpenedHit
<1>4. CASE Quiet
  <2>1. stage = "save" /\ cur' = cur /\ buckets' = buckets
    BY <1>4 DEF Quiet
  <2>2. pos' = pos
    BY <2>1 DEF Next, Work, Visit, vars, world, stores, job, Tick,
     Produce, BeginProcess, FlushRead, BeginFlush, BeginFlushAll, Restore,
     Create, Extend, Replace, Visits, Save, EndProcess, FlushToTable,
     FlushToTopic, Forget, AfterFlush, PickBar, EndFlush, EndFlushAll,
     AutoCommit, LoseSession, Stop, CloseConsumer, Crash, Exit, Restart,
     Placed, JobOK
  <2> QED
    BY <1>1, <2>1, <2>2 DEF SaveOK
<1> QED
  BY <1>2, <1>3, <1>4, FaultlessCases DEF Save, FlushToTable

LEMMA MirrorNext ==
  StoreInv /\ MirrorOK /\ ErrOK /\ [Next]_vars => MirrorOK'
<1> DEFINE Mine(c) == {e.bar : e \in {f \in redis : f.cell = c}}
           Match(c) == IF stage = "save" /\ cur = c
                       THEN \A e \in redis : e.cell = c => e.bar.start = buckets[c].start
                       ELSE Mine(c) = {buckets[c]} \ {None}
<1> SUFFICES ASSUME StoreInv, MirrorOK, ErrOK, [Next]_vars, Faultless', NEW c \in Cells
             PROVE  Match(c)'
  BY DEF MirrorOK
<1>0. Placed /\ MemoryOK
  BY DEF StoreInv
<1>1. Match(c) /\ Faultless
  BY <1>0, FaultlessStep DEF MirrorOK
<1>2. CASE Quiet
  <2>1. redis' = redis /\ buckets' = buckets
    BY <1>2 DEF Quiet, stores
  <2>2. (stage' = "save" /\ cur' = c) <=> (stage = "save" /\ cur = c)
    BY <1>2 DEF Quiet
  <2> QED
    BY <1>1, <2>1, <2>2
<1>3. ASSUME NEW d \in Cells, Create(d) \/ Extend(d)
      PROVE  Match(c)'
  <2>1. /\ redis' = redis /\ stage = "next" /\ stage' = "save" /\ cur' = d
        /\ \A b \in Cells : b # d => buckets'[b] = buckets[b]
    BY <1>0, <1>3, OpenStep DEF stores
  <2>2. CASE c # d
    BY <1>1, <2>1, <2>2
  <2>3. CASE c = d /\ buckets[c] = None
    <3>1. \A e \in redis : e.cell # c
      BY <1>1, <2>1, <2>3
    <3> QED
      BY <2>1, <2>3, <3>1
  <2>4. CASE c = d /\ buckets[c] # None
    <3>1. buckets'[c].start = buckets[c].start
      BY <1>0, <1>3, <2>4, OpenStep, UpdateFacts
    <3>2. \A e \in redis : e.cell = c => e.bar = buckets[c]
      BY <1>1, <2>1, <2>4
    <3> QED
      BY <2>1, <2>4, <3>1, <3>2
  <2> QED
    BY <2>2, <2>3, <2>4
<1>4. CASE Save /\ redis' = RedisWith(cur, buckets[cur])
  <2>1. stage = "save" /\ stage' = "next" /\ buckets' = buckets /\ buckets[cur] # None
    BY <1>0, <1>4 DEF Save, Placed, JobOK
  <2>2. CASE c = cur
    <3>1. \A e \in redis : e.cell = c => e.bar.start = buckets[c].start
      BY <1>1, <2>1, <2>2
    <3>2. Mine(c)' = {buckets[c]}
      <4> DEFINE new == [cell |-> c, bar |-> buckets[c], exp |-> now + 2 * Dur[c.iv]]
      <4>1. redis' = {e \in redis : ~(e.cell = c /\ e.bar.start = buckets[c].start)} \cup {new}
        BY <1>4, <2>2 DEF RedisWith
      <4>2. \A e \in redis' : e.cell = c => e = new
        BY <3>1, <4>1
      <4>3. new \in redis' /\ new.cell = c /\ new.bar = buckets[c]
        BY <4>1
      <4> HIDE DEF new
      <4> QED
        BY <4>2, <4>3
    <3> QED
      BY <2>1, <2>2, <3>2
  <2>3. CASE c # cur
    <3>1. Mine(c)' = Mine(c)
      BY <1>4, <2>3 DEF RedisWith
    <3> QED
      BY <1>1, <2>1, <2>3, <3>1
  <2> QED
    BY <2>2, <2>3
<1>5. CASE FlushToTable
  BY <1>1, <1>5 DEF FlushToTable
<1>6. CASE FlushToTopic /\ stage' = "del" /\ UNCHANGED <<buckets, todo, cur>>
  BY <1>1, <1>6 DEF FlushToTopic
<1>7. CASE Forget /\ redis' = RedisWithout(cur, buckets[cur].start)
  <2>1. /\ cur \in Cells /\ stage = "del" /\ buckets[cur] # None
        /\ \A d \in Cells : d # cur => buckets'[d] = buckets[d]
    BY <1>0, <1>7, ForgetStep
  <2>2. CASE c = cur
    <3>1. \A e \in redis : e.cell = c => e.bar = buckets[c]
      BY <1>1, <2>1, <2>2
    <3>2. Window(c, buckets[c].start) = buckets[c].start
      BY <1>0, <2>1, <2>2 DEF MemoryOK, BarOK, GridOK
    <3>3. \A e \in redis' : e.cell # c
      BY <1>7, <2>2, <3>1, <3>2 DEF RedisWithout
    <3>4. \/ stage' = "save" /\ cur' = c
          \/ buckets'[c] = None
      BY <1>0, <1>7, <2>2, ForgetStep
    <3> QED
      BY <3>3, <3>4
  <2>3. CASE c # cur
    <3>1. Mine(c)' = Mine(c)
      BY <1>7, <2>3 DEF RedisWithout
    <3>2. cur' # c
      <4>1. c # None
        BY CellFacts
      <4> QED
        BY <1>0, <1>7, <2>3, <4>1, ForgetStep
    <3> QED
      BY <1>1, <2>1, <2>3, <3>1, <3>2
  <2> QED
    BY <2>2, <2>3
<1> QED
  BY <1>0, <1>2, <1>3, <1>4, <1>5, <1>6, <1>7, FaultlessCases

LEMMA SinksNext ==
  Placed /\ MirrorOK /\ ErrOK /\ SinkOK /\ SinksAgree /\ [Next]_vars => SinksAgree'
<1> SUFFICES ASSUME Placed, MirrorOK, ErrOK, SinkOK, SinksAgree, [Next]_vars, Faultless'
             PROVE  /\ \A r \in rows' :
                         r \in topic' \/ (stage' = "kafka" /\ r = CurEntry')
                    /\ \A t \in topic' : HasRow(t.cell, t.bar)'
  BY DEF SinksAgree, CurEntry
<1>1. /\ Faultless
      /\ \A r \in rows : r \in topic \/ (stage = "kafka" /\ r = CurEntry)
      /\ \A t \in topic : HasRow(t.cell, t.bar)
  BY FaultlessStep DEF SinksAgree, CurEntry
<1>2. CASE FlushToTable /\ rows' = RowsWith(cur, buckets[cur])
  <2>1. /\ stage = "db" /\ stage' = "kafka" /\ topic' = topic
        /\ cur' = cur /\ buckets' = buckets
    BY <1>2 DEF FlushToTable
  <2>2. rows \subseteq rows' /\ rows' \subseteq rows \cup {CurEntry}
    BY <1>2 DEF RowsWith, CurEntry
  <2> QED
    BY <1>1, <2>1, <2>2 DEF HasRow, CurEntry
<1>3. CASE FlushToTopic /\ topic' = topic \cup {CurEntry} /\ stage' = "del"
  <2>1. rows' = rows /\ stage = "kafka"
    BY <1>3 DEF FlushToTopic
  <2>2. HasRow(CurEntry.cell, CurEntry.bar)
    BY <1>1, <2>1 DEF SinkOK, CurEntry
  <2> QED
    BY <1>1, <1>3, <2>1, <2>2 DEF HasRow
<1>4. CASE Quiet
  <2>1. rows' = rows /\ topic' = topic /\ buckets' = buckets
    BY <1>4 DEF Quiet, stores
  <2>2. stage = "kafka" => stage' = "kafka" /\ cur' = cur
    BY <1>4 DEF Quiet
  <2> QED
    BY <1>1, <2>1, <2>2 DEF HasRow, CurEntry
<1>5. CASE Save \/ Forget \/ \E c \in Cells : Create(c) \/ Extend(c)
  <2>1. rows' = rows /\ topic' = topic /\ stage # "kafka"
    BY <1>5, OpenStep DEF Save, Forget, stores
  <2> QED
    BY <1>1, <2>1 DEF HasRow
<1> QED
  BY <1>2, <1>3, <1>4, <1>5, FaultlessCases

LEMMA OnceNext ==
  StoreInv /\ MirrorOK /\ ErrOK /\ OnceOK /\ [Next]_vars => OnceOK'
<1> SUFFICES ASSUME StoreInv, MirrorOK, ErrOK, OnceOK, [Next]_vars, Faultless',
                    NEW t \in topic', NEW o \in Offsets,
                    deliveries'[o] = 1, t.bar.hits[o] > 0
             PROVE  /\ \A u \in topic' : u.cell = t.cell /\ u.bar.hits[o] > 0 => u = t
                    /\ buckets'[t.cell] # None /\ buckets'[t.cell].hits[o] > 0 =>
                         stage' = "del" /\ t = CurEntry'
  BY DEF OnceOK
<1>0. Placed /\ Faultless
  BY FaultlessStep DEF StoreInv
<1>1. ASSUME NEW u \in topic
      PROVE  /\ u.cell \in Cells
             /\ u.bar.hits[o] \in Nat /\ u.bar.hits[o] <= deliveries[o]
             /\ Pending(u.cell) /\ o = pos + 1 => u.bar.hits[o] < deliveries[o]
  <2>1. u.cell \in Cells /\ u.bar \in Bars /\ CountOK(u.cell, u.bar)
    BY <1>1 DEF StoreInv, StoresOK, BarOK, Placed, TypeOK, Entries
  <2> QED
    BY <2>1, BarFacts DEF CountOK
<1>2. deliveries[o] \in Nat
  BY <1>0 DEF Placed, TypeOK
<1>3. ASSUME NEW u \in topic, u.bar.hits[o] > 0
      PROVE  deliveries[o] = 1
  <2>1. CASE BeginProcess
    <3>1. deliveries'[o] = deliveries[o] \/ deliveries'[o] = deliveries[o] + 1
      BY <1>0, <2>1 DEF BeginProcess, Placed, TypeOK
    <3> QED
      BY <1>1, <1>2, <1>3, <3>1
  <2>2. CASE ~BeginProcess
    BY <1>0, <2>2, PendingStep
  <2> QED
    BY <2>1, <2>2
<1>4. ASSUME NEW u \in topic, u.bar.hits[o] > 0
      PROVE  /\ \A w \in topic : w.cell = u.cell /\ w.bar.hits[o] > 0 => w = u
             /\ buckets[u.cell] # None /\ buckets[u.cell].hits[o] > 0 =>
                  stage = "del" /\ u = CurEntry
  BY <1>0, <1>3, <1>4 DEF OnceOK
<1>5. CASE Quiet
  <2>1. /\ topic' = topic /\ buckets' = buckets
        /\ stage = "del" => stage' = "del" /\ CurEntry' = CurEntry
    BY <1>5 DEF Quiet, stores, CurEntry
  <2> QED
    BY <1>4, <2>1
<1>6. ASSUME NEW c \in Cells, Create(c) \/ Extend(c)
      PROVE  /\ \A u \in topic' : u.cell = t.cell /\ u.bar.hits[o] > 0 => u = t
             /\ ~(buckets'[t.cell] # None /\ buckets'[t.cell].hits[o] > 0)
  <2>1. topic' = topic /\ stage = "next" /\ Pending(c) /\ pos + 1 \in Offsets
    BY <1>0, <1>6, OpenStep DEF stores, Pending
  <2>2. ASSUME t.cell # c
        PROVE  buckets'[t.cell] = buckets[t.cell]
    BY <1>0, <1>1, <1>6, <2>1, <2>2, OpenStep
  <2>3. ASSUME t.cell = c, buckets'[c].hits[o] > 0
        PROVE  FALSE
    <3>1. o # pos + 1
      BY <1>1, <1>3, <2>1, <2>3
    <3>2. \/ buckets'[c] = Fresh(c, pos + 1)
          \/ /\ buckets[c] # None /\ buckets[c] \in Bars
             /\ buckets'[c] = Update(buckets[c], pos + 1)
      BY <1>0, <1>6, OpenStep
    <3>3. CASE buckets'[c] = Fresh(c, pos + 1)
      BY <2>3, <3>1, <3>3 DEF Fresh
    <3>4. CASE /\ buckets[c] # None /\ buckets[c] \in Bars
               /\ buckets'[c] = Update(buckets[c], pos + 1)
      <4>1. buckets'[c].hits[o] = buckets[c].hits[o]
        BY <2>1, <3>1, <3>4, UpdateFacts
      <4> QED
        BY <1>4, <2>1, <2>3, <3>4, <4>1
    <3> QED
      BY <3>2, <3>3, <3>4
  <2> QED
    BY <1>4, <2>1, <2>2, <2>3
<1>7. CASE Save \/ FlushToTable
  <2>1. topic' = topic /\ buckets' = buckets /\ stage # "del"
    BY <1>7 DEF Save, FlushToTable
  <2> QED
    BY <1>4, <2>1
<1>8. CASE /\ FlushToTopic /\ topic' = topic \cup {CurEntry}
           /\ stage' = "del" /\ UNCHANGED <<buckets, todo, cur>>
  <2>1. stage = "kafka" /\ buckets' = buckets /\ CurEntry' = CurEntry
    BY <1>8 DEF FlushToTopic, CurEntry
  <2>2. buckets[cur] # None
    BY <1>0, <2>1 DEF Placed, JobOK
  <2>3. \A u \in topic : u.bar.hits[o] > 0 =>
          ~(buckets[u.cell] # None /\ buckets[u.cell].hits[o] > 0)
    BY <1>4, <2>1
  <2>4. CurEntry.cell = cur /\ CurEntry.bar = buckets[cur]
    BY DEF CurEntry
  <2>5. CASE t = CurEntry
    BY <1>8, <2>1, <2>2, <2>3, <2>4, <2>5
  <2>6. CASE t \in topic
    BY <1>4, <1>8, <2>1, <2>2, <2>3, <2>4, <2>6
  <2> QED
    BY <1>8, <2>5, <2>6
<1>9. CASE Forget
  <2>1. topic' = topic /\ stage = "del" /\ cur \in Cells /\ cur \in todo
    BY <1>0, <1>9, ForgetStep
  <2>2. ASSUME buckets'[t.cell] # None, buckets'[t.cell].hits[o] > 0
        PROVE  FALSE
    <3>1. CASE t.cell # cur
      <4>1. buckets'[t.cell] = buckets[t.cell]
        BY <1>0, <1>1, <1>9, <2>1, <3>1, ForgetStep
      <4>2. t = CurEntry
        BY <1>4, <2>1, <2>2, <4>1
      <4> QED
        BY <3>1, <4>2 DEF CurEntry
    <3>2. CASE t.cell = cur
      <4>1. holder = "consumer" /\ buckets'[cur] = Fresh(cur, pos + 1)
        BY <1>0, <1>9, <2>2, <3>2, ForgetStep
      <4>2. o = pos + 1
        BY <2>2, <3>2, <4>1 DEF Fresh
      <4>3. Pending(t.cell)
        BY <2>1, <3>2, <4>1 DEF Pending
      <4> QED
        BY <1>1, <1>3, <2>1, <4>2, <4>3
    <3> QED
      BY <3>1, <3>2
  <2> QED
    BY <1>4, <2>1, <2>2
<1> QED
  BY <1>0, <1>5, <1>6, <1>7, <1>8, <1>9, FaultlessCases

\* What counts a tick goes on counting it.
LEMMA CountedStep ==
  ASSUME Placed, MirrorOK, ErrOK, SinkOK, [Next]_vars, Faultless',
         NEW c \in Cells, NEW o \in Offsets, Counted(c, o)
  PROVE  Counted(c, o)'
<1>1. CASE Quiet \/ Save \/ FlushToTable
  <2>1. topic' = topic /\ buckets' = buckets
    BY <1>1 DEF Quiet, Save, FlushToTable, stores
  <2> QED
    BY <2>1 DEF Counted
<1>2. ASSUME NEW d \in Cells, Create(d) \/ Extend(d)
      PROVE  Counted(c, o)'
  <2>1. /\ topic' = topic /\ (c # d => buckets'[c] = buckets[c])
        /\ pos + 1 \in Offsets
    BY <1>2, OpenStep DEF stores
  <2>2. ASSUME c = d, buckets[c] # None, buckets[c].hits[o] > 0
        PROVE  buckets'[c] # None /\ buckets'[c].hits[o] > 0
    <3>1. /\ buckets[c] \in Bars /\ buckets'[c] # None
          /\ buckets'[c] = Update(buckets[c], pos + 1)
      BY <1>2, <2>2, OpenStep
    <3>2. buckets[c].hits[o] \in Nat
      BY <3>1, BarFacts
    <3> QED
      BY <2>1, <2>2, <3>1, <3>2, UpdateFacts
  <2> QED
    BY <2>1, <2>2 DEF Counted
<1>3. CASE /\ FlushToTopic /\ topic' = topic \cup {CurEntry}
           /\ stage' = "del" /\ UNCHANGED <<buckets, todo, cur>>
  BY <1>3 DEF Counted
<1>4. CASE Forget
  <2>1. /\ topic' = topic /\ stage = "del"
        /\ c # cur => buckets'[c] = buckets[c]
    BY <1>4, ForgetStep
  <2>2. CurEntry \in topic
    BY <2>1 DEF SinkOK
  <2> QED
    BY <2>1, <2>2 DEF Counted, CurEntry
<1> QED
  BY <1>1, <1>2, <1>3, <1>4, FaultlessCases

LEMMA LostNext ==
  StoreInv /\ MirrorOK /\ ErrOK /\ SinkOK /\ SaveOK /\ NoTickLost /\ [Next]_vars
    => NoTickLost'
<1> SUFFICES ASSUME StoreInv, MirrorOK, ErrOK, SinkOK, SaveOK, NoTickLost,
                    [Next]_vars, Faultless', NEW c \in Cells, NEW o \in Offsets,
                    deliveries'[o] > 0, OnTopic(c, o)'
             PROVE  Counted(c, o)' \/ InHand(c, o)'
  BY DEF NoTickLost
<1>0. Placed /\ DeliveredOK /\ Faultless
  BY FaultlessStep DEF StoreInv
<1>1. CASE BeginProcess /\ o = pos + 1
  <2>1. /\ log' = log /\ pos' = pos /\ holder' = "consumer"
        /\ todo' = {[iv |-> i, sym |-> log[pos + 1].sym] : i \in Intervals}
    BY <1>1 DEF BeginProcess, world
  <2>2. c.sym = log[pos + 1].sym
    BY <1>1, <2>1 DEF OnTopic
  <2>3. c.iv \in Intervals /\ c = [iv |-> c.iv, sym |-> c.sym]
    BY DEF Cells
  <2> QED
    BY <1>1, <2>1, <2>2, <2>3 DEF InHand
<1>2. CASE ~(BeginProcess /\ o = pos + 1)
  <2>1. deliveries[o] > 0
    <3>1. CASE BeginProcess
      BY <1>0, <1>2, <3>1 DEF BeginProcess, Placed, TypeOK
    <3>2. CASE ~BeginProcess
      BY <1>0, <3>2, PendingStep
    <3> QED
      BY <3>1, <3>2
  <2>2. OnTopic(c, o)
    <3>1. o \in 1 .. Len(log)
      BY <1>0, <2>1 DEF DeliveredOK, Offsets, Placed, TypeOK
    <3>2. log'[o] = log[o]
      BY <1>0, <3>1, LogStep
    <3> QED
      BY <1>0, <3>1, <3>2 DEF OnTopic
  <2>3. Counted(c, o) \/ InHand(c, o)
    BY <1>0, <2>1, <2>2 DEF NoTickLost
  <2>4. CASE Counted(c, o)
    BY <1>0, <2>4, CountedStep
  <2>5. CASE InHand(c, o) /\ Save /\ c = cur
    <3>1. buckets[c] # None /\ buckets[c].hits[o] > 0 /\ buckets' = buckets
      BY <1>0, <2>5 DEF Save, InHand, SaveOK, Placed, JobOK
    <3> QED
      BY <3>1 DEF Counted
  <2>6. CASE InHand(c, o) /\ ~(Save /\ c = cur)
    <3>1. ~Crash
      <4>1. ASSUME Crash
            PROVE  FALSE
        <5>1. spent'["crash"] = spent["crash"] + 1 /\ spent["crash"] \in Nat
          BY <1>0, <4>1, SpendFacts DEF Crash, Placed, TypeOK, Kinds
        <5> QED
          BY <5>1 DEF Faultless
      <4> QED
        BY <4>1
    <3>2. holder' = "consumer" /\ pos' = pos /\ c \in todo'
      BY <2>6, <3>1 DEF InHand, Next, Work, Visit, vars, world, stores, job, Tick,
     Produce, BeginProcess, FlushRead, BeginFlush, BeginFlushAll, Restore,
     Create, Extend, Replace, Visits, Save, EndProcess, FlushToTable,
     FlushToTopic, Forget, AfterFlush, PickBar, EndFlush, EndFlushAll,
     AutoCommit, LoseSession, Stop, CloseConsumer, Restart
    <3> QED
      BY <2>6, <3>2 DEF InHand
  <2> QED
    BY <2>3, <2>4, <2>5, <2>6
<1> QED
  BY <1>1, <1>2

-----------------------------------------------------------------------------
(* The invariant and what follows from it.                                  *)

LEMMA LossInvInit == Init => LossInv
<1> SUFFICES ASSUME Init
             PROVE  LossInv
  OBVIOUS
<1>1. StoreInv
  BY StoreInvInit
<1>2. MirrorOK
  <2>1. redis = {} /\ \A c \in Cells : buckets[c] = None
    BY DEF Init
  <2> QED
    BY <2>1 DEF Init, MirrorOK
<1>3. NoTickLost
  BY DEF Init, NoTickLost
<1>4. ErrOK /\ SinkOK /\ SaveOK /\ OnceOK /\ SinksAgree
  BY DEF Init, ErrOK, SinkOK, SaveOK, OnceOK, SinksAgree
<1> QED
  BY <1>1, <1>2, <1>3, <1>4 DEF LossInv

LEMMA LossInvNext == LossInv /\ [Next]_vars => LossInv'
<1> SUFFICES ASSUME LossInv, [Next]_vars
             PROVE  LossInv'
  OBVIOUS
<1>1. Placed
  BY DEF LossInv, StoreInv
<1> QED
  BY <1>1, StoreInvNext, ErrNext, SinkNext, MirrorNext, SaveNext, OnceNext,
     SinksNext, LostNext DEF LossInv

(* What is saved in Redis and not deleted is exactly the open bars: LoadAt never
   brings back a bar that was published (redis/adapter.go, flushOne). *)
THEOREM MirrorCorrect == Spec => []RedisMirrorsMemory
<1>1. LossInv => RedisMirrorsMemory
  BY DEF LossInv, MirrorOK, RedisMirrorsMemory
<1> QED
  BY <1>1, LossInvInit, LossInvNext, PTL DEF Spec

(* Every tick handed to Process is in the open bar or in a published one, of every
   interval, for every number of ticks, sessions and shutdowns. *)
THEOREM NothingLost == Spec => []NoTickLost
<1>1. LossInv => NoTickLost
  BY DEF LossInv
<1> QED
  BY <1>1, LossInvInit, LossInvNext, PTL DEF Spec

(* A tick delivered once is in one bar only of each interval. *)
THEOREM NothingTwice == Spec => []NoTickTwice
<1>1. LossInv => NoTickTwice
  <2> SUFFICES ASSUME LossInv, Faultless,
                      NEW t \in topic \cup InMemory, NEW u \in topic \cup InMemory,
                      NEW o \in Offsets, deliveries[o] = 1, t.cell = u.cell,
                      t.bar.hits[o] > 0, u.bar.hits[o] > 0
               PROVE  t = u
    BY DEF NoTickTwice
  <2>1. \A k \in InMemory : /\ buckets[k.cell] # None
                            /\ k = [cell |-> k.cell, bar |-> buckets[k.cell]]
    BY DEF InMemory
  <2>2. OnceOK
    BY DEF LossInv
  <2>3. CASE t \in topic /\ u \in topic
    BY <2>2, <2>3 DEF OnceOK
  <2>4. CASE t \in InMemory /\ u \in InMemory
    BY <2>1, <2>4
  <2>5. CASE t \in topic /\ u \in InMemory
    <3>1. t = CurEntry /\ u.bar = buckets[u.cell]
      BY <2>1, <2>2, <2>5 DEF OnceOK
    <3> QED
      BY <2>1, <2>5, <3>1 DEF CurEntry
  <2>6. CASE t \in InMemory /\ u \in topic
    <3>1. u = CurEntry /\ t.bar = buckets[t.cell]
      BY <2>1, <2>2, <2>6 DEF OnceOK
    <3> QED
      BY <2>1, <2>6, <3>1 DEF CurEntry
  <2> QED
    BY <2>3, <2>4, <2>5, <2>6
<1> QED
  BY <1>1, LossInvInit, LossInvNext, PTL DEF Spec

(* Every row was published as it is, and every window on the topic has its row:
   multisink.go calls both sinks for every bar. *)
THEOREM SinksCorrect == Spec => []SinksAgree
<1>1. LossInv => SinksAgree
  BY DEF LossInv
<1> QED
  BY <1>1, LossInvInit, LossInvNext, PTL DEF Spec

=============================================================================

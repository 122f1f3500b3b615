----------------------------- MODULE Aggregator -----------------------------
(***************************************************************************)
(* The preprocessor: aggregator.Manager (manager.go) between the topic of  *)
(* raw ticks it consumes, the partial bars it keeps in Redis, and the two  *)
(* sinks of finished bars, the TimescaleDB table and the candles topic.    *)
(*                                                                         *)
(* Two goroutines, the consumer (Process) and the flush loop               *)
(* (flushExpired), and Close (FlushAll) at shutdown, take m.mu for a whole *)
(* call, remote calls included.  The holder of the mutex goes through the  *)
(* bars in `todo' one remote call at a time, so that the clock, the        *)
(* topic, a failure or the death of the process may come between two of    *)
(* them.  Steps on memory alone, which nobody can see before the mutex is  *)
(* released, are part of the step that precedes or follows them.           *)
(*                                                                         *)
(* A bar is the start of its window and how often it took each tick of the *)
(* topic: its prices and volume are a function of those ticks, and module  *)
(* CandleHistory is about that function.  Candle.Complete, UpdatedAt,      *)
(* metrics and logs are left out: nothing reads the first outside the      *)
(* process, and only a latency metric reads the second.                    *)
(***************************************************************************)
EXTENDS Candle, FiniteSets, Sequences

CONSTANTS Symbols,
          Intervals,    \* positions in the configured list of intervals
          Dur,          \* Dur[i]: the duration of interval i
          None,         \* no bar, no instant
          MaxTime,      \* bound on the clock
          MaxTicks,     \* bound on the length of the raw topic
          Budget        \* Budget[k]: how many disturbances of kind k to allow

(* The disturbances of the environment:                                     *)
(*   crash    the process dies                                              *)
(*   stop     SIGTERM                                                       *)
(*   session  the consumer group session ends and its offsets are lost      *)
(*   io       a remote call returns an error                                *)
(*   cut      a remote call fails because its context is cancelled: what    *)
(*            follows a stop, with no budget of its own                     *)
(*   clock    the exchange's time of a tick is earlier than the tick before *)
(*            it, or ahead of the local clock                               *)
Kinds == {"crash", "stop", "session", "io", "cut", "clock"}

Offsets == 1 .. MaxTicks

ASSUME AggregatorAssumption ==
  /\ Intervals \subseteq Nat
  /\ Dur \in [Intervals -> Nat \ {0}]
  /\ MaxTime \in Nat
  /\ MaxTicks \in Nat
  /\ Budget \in [Kinds -> Nat]

RawTicks == [sym : Symbols, ts : Nat]
Cells == [iv : Intervals, sym : Symbols]
Bars == [start : Nat, hits : [Offsets -> Nat]]
Entries == [cell : Cells, bar : Bars]
Saved == [cell : Cells, bar : Bars, exp : Nat]

ASSUME NoneAssumption == None \notin Bars \cup Nat \cup Cells

VARIABLES
  now,         \* the wall clock, m.now()
  log,         \* the raw topic: log[o] is the tick at offset o
  committed,   \* the group's committed offset: ticks up to it are not redelivered
  redis,       \* partial bars, under their symbol, interval and start
  rows,        \* the candles table
  topic,       \* the bars published to the candles topic
  proc,        \* "up", "stopping" (context cancelled), "closing" (Close), "down"
  pos,         \* the last tick whose Process returned
  buckets,     \* m.buckets: the open bar of each interval and symbol
  holder,      \* who holds m.mu
  todo,        \* the bars the holder has still to go through
  cur,         \* the bar it is at
  stage,       \* the remote call it makes next for that bar
  sinkErr,     \* MultiSink's firstErr # nil
  flushNow,    \* the instant flushExpired read before it asked for the mutex
  deliveries,  \* history: how often each tick was handed to Process
  spent        \* how many disturbances of each kind there have been

world == <<now, log>>
stores == <<redis, rows, topic>>
job == <<holder, todo, cur, stage, sinkErr>>
vars == <<now, log, committed, redis, rows, topic, proc, pos, buckets, holder,
          todo, cur, stage, sinkErr, flushNow, deliveries, spent>>

-----------------------------------------------------------------------------
(* Bars, and what the stores do with them.                                  *)

Spend(k) == /\ spent[k] < Budget[k]
            /\ spent' = [spent EXCEPT ![k] = @ + 1]

\* A remote call returns nil, or an error.
Call(ok) == IF ok THEN UNCHANGED spent ELSE Spend("io")

\* The context of the calls in progress is cancelled: by SIGTERM the one Process
\* passes on, by Manager.Close the one of flushExpired.
Cancelled == \/ holder = "consumer" /\ proc = "stopping"
             \/ holder = "flusher" /\ proc = "closing"

\* A call of Redis or of TimescaleDB, which fail at once under a cancelled
\* context.
ContextCall(ok) ==
  IF Cancelled THEN ~ok /\ spent' = [spent EXCEPT !["cut"] = 1] ELSE Call(ok)

Window(c, ts) == Align(ts, Dur[c.iv])
End(c, bar) == bar.start + Dur[c.iv]

\* Mutant: End is the last instant of the window.
DueAfterEnd(c, bar, t) == t > End(c, bar)
\* Mutant: a bar is over one instant early.
DueEarly(c, bar, t) == t >= End(c, bar) - 1
\* shouldFlush
Due(c, bar, t) == t >= End(c, bar)

\* newCandleState for the tick at offset o
Fresh(c, o) == [ start |-> Window(c, log[o].ts),
                 hits |-> [q \in Offsets |-> IF q = o THEN 1 ELSE 0] ]

\* Mutant: the tick is counted twice.
UpdateTwice(bar, o) == [bar EXCEPT !.hits[o] = @ + 2]
\* candleState.update: no look at whether the tick's time is in the window.
Update(bar, o) == [bar EXCEPT !.hits[o] = @ + 1]

\* Adapter.Save: SET under the bar's start, to live twice the interval.
RedisWith(c, bar) ==
  {e \in redis : ~(e.cell = c /\ e.bar.start = bar.start)}
    \cup {[cell |-> c, bar |-> bar, exp |-> now + 2 * Dur[c.iv]]}

\* Mutant: the key to delete is made from the time of day, as Adapter.Delete does.
RedisWithoutNow(c, ts) ==
  {e \in redis : ~(e.cell = c /\ e.bar.start = Window(c, now))}
\* Adapter.DeleteAt
RedisWithout(c, ts) ==
  {e \in redis : ~(e.cell = c /\ e.bar.start = Window(c, ts))}

\* Adapter.LoadAt: what Redis has, and has not expired, for the tick's window.
Stored(c, ts) ==
  {e \in redis : e.cell = c /\ e.bar.start = Window(c, ts) /\ now < e.exp}

HasRow(c, bar) == \E r \in rows : r.cell = c /\ r.bar.start = bar.start

\* Mutant: ON CONFLICT DO UPDATE.
RowsOverwritten(c, bar) ==
  {r \in rows : ~(r.cell = c /\ r.bar.start = bar.start)}
    \cup {[cell |-> c, bar |-> bar]}
\* Mutant: the row is stored under the end of the window.
RowsAtEnd(c, bar) ==
  IF \E r \in rows : r.cell = c /\ r.bar.start = End(c, bar)
  THEN rows
  ELSE rows \cup {[cell |-> c, bar |-> [bar EXCEPT !.start = End(c, bar)]]}
\* Mutant: INSERT with no ON CONFLICT and no unique index.
RowsAppended(c, bar) == rows \cup {[cell |-> c, bar |-> bar]}
\* TimescaleWriter.FlushCandle: INSERT ... ON CONFLICT DO NOTHING.
RowsWith(c, bar) ==
  IF HasRow(c, bar) THEN rows ELSE rows \cup {[cell |-> c, bar |-> bar]}

-----------------------------------------------------------------------------

Init ==
  /\ now = 0
  /\ log = <<>>
  /\ committed = 0
  /\ redis = {} /\ rows = {} /\ topic = {}
  /\ proc = "up"
  /\ pos = 0
  /\ buckets = [c \in Cells |-> None]
  /\ holder = "nobody" /\ todo = {} /\ cur = None
  /\ stage = "next" /\ sinkErr = FALSE
  /\ flushNow = None
  /\ deliveries = [o \in Offsets |-> 0]
  /\ spent = [k \in Kinds |-> 0]

(* The environment: time passes, the collector publishes a tick.            *)

Tick ==
  /\ now < MaxTime
  /\ now' = now + 1
  /\ UNCHANGED <<log, committed, stores, proc, pos, buckets, job, flushNow,
                 deliveries, spent>>

InOrder(ts) == /\ ts <= now
               /\ \A o \in DOMAIN log : log[o].ts <= ts

Produce ==
  /\ Len(log) < MaxTicks
  /\ \E s \in Symbols, ts \in 0 .. now + 1 :
       /\ log' = Append(log, [sym |-> s, ts |-> ts])
       /\ IF InOrder(ts) THEN UNCHANGED spent ELSE Spend("clock")
  /\ UNCHANGED <<now, committed, stores, proc, pos, buckets, job, flushNow,
                 deliveries>>

(* The consumer goroutine: Process, under the mutex.                        *)

BeginProcess ==
  /\ proc \in {"up", "stopping"}
  /\ holder = "nobody"
  /\ pos < Len(log)
  /\ holder' = "consumer"
  /\ todo' = {[iv |-> i, sym |-> log[pos + 1].sym] : i \in Intervals}
  /\ deliveries' = [deliveries EXCEPT ![pos + 1] = @ + 1]
  /\ UNCHANGED <<world, committed, stores, proc, pos, buckets, cur, stage,
                 sinkErr, flushNow, spent>>

\* The loop over m.intervals reaches the bar c.
Visits(c) ==
  /\ holder = "consumer" /\ stage = "next"
  /\ c \in todo
  /\ \A d \in todo : c.iv <= d.iv
  /\ cur' = c

\* No bar in memory and LoadAt finds one: it becomes the bar, as it is.
Restore(c) ==
  /\ Visits(c)
  /\ buckets[c] = None
  /\ ~Cancelled
  /\ \E e \in Stored(c, log[pos + 1].ts) :
       buckets' = [buckets EXCEPT ![c] = e.bar]
  /\ stage' = "save"
  /\ UNCHANGED <<world, committed, stores, proc, pos, holder, todo, sinkErr,
                 flushNow, deliveries, spent>>

\* No bar in memory, and none in Redis or LoadAt failed: a new bar.
Create(c) ==
  /\ Visits(c)
  /\ buckets[c] = None
  /\ \E ok \in BOOLEAN : /\ ok => Stored(c, log[pos + 1].ts) = {}
                         /\ ContextCall(ok)
  /\ buckets' = [buckets EXCEPT ![c] = Fresh(c, pos + 1)]
  /\ stage' = "save"
  /\ UNCHANGED <<world, committed, stores, proc, pos, holder, todo, sinkErr,
                 flushNow, deliveries>>

\* The bar's time is not over.
Extend(c) ==
  /\ Visits(c)
  /\ buckets[c] # None
  /\ ~Due(c, buckets[c], now)
  /\ buckets' = [buckets EXCEPT ![c] = Update(@, pos + 1)]
  /\ stage' = "save"
  /\ UNCHANGED <<world, committed, stores, proc, pos, holder, todo, sinkErr,
                 flushNow, deliveries, spent>>

\* The bar's time is over: flushOne comes first.
Replace(c) ==
  /\ Visits(c)
  /\ buckets[c] # None
  /\ Due(c, buckets[c], now)
  /\ stage' = "db"
  /\ UNCHANGED <<world, committed, stores, proc, pos, buckets, holder, todo,
                 sinkErr, flushNow, deliveries, spent>>

\* storage.Save, whose error is ignored, and the next interval.
Save ==
  /\ stage = "save"
  /\ \E ok, applied \in BOOLEAN :
       /\ ok => applied
       /\ ContextCall(ok)
       /\ redis' = IF applied THEN RedisWith(cur, buckets[cur]) ELSE redis
  /\ todo' = todo \ {cur}
  /\ cur' = None /\ stage' = "next"
  /\ UNCHANGED <<world, committed, rows, topic, proc, pos, buckets, holder,
                 sinkErr, flushNow, deliveries>>

\* Process returns nil, and ConsumeClaim marks the message.
EndProcess ==
  /\ holder = "consumer" /\ stage = "next" /\ todo = {}
  /\ pos' = pos + 1
  /\ holder' = "nobody"
  /\ UNCHANGED <<world, committed, stores, proc, buckets, todo, cur, stage,
                 sinkErr, flushNow, deliveries, spent>>

(* flushOne, for whoever holds the mutex: both sinks, then Redis.           *)

\* Mutant: Process adds the tick to the bar it has just flushed.
AfterFlushExtends ==
  IF holder = "consumer"
  THEN /\ buckets' = [buckets EXCEPT ![cur] = Update(@, pos + 1)]
       /\ stage' = "save"
       /\ UNCHANGED <<todo, cur>>
  ELSE /\ buckets' = [buckets EXCEPT ![cur] = None]
       /\ todo' = todo \ {cur}
       /\ cur' = None /\ stage' = "next"

\* Mutant: Process drops the flushed bar and forgets the tick in hand.
AfterFlushForgets ==
  /\ buckets' = [buckets EXCEPT ![cur] = None]
  /\ todo' = todo \ {cur}
  /\ cur' = None /\ stage' = "next"

\* What follows flushOne, whether it failed or not: Process opens the tick's
\* bar in place of the old one, flushExpired and FlushAll drop the bar.
AfterFlush ==
  IF holder = "consumer"
  THEN /\ buckets' = [buckets EXCEPT ![cur] = Fresh(cur, pos + 1)]
       /\ stage' = "save"
       /\ UNCHANGED <<todo, cur>>
  ELSE /\ buckets' = [buckets EXCEPT ![cur] = None]
       /\ todo' = todo \ {cur}
       /\ cur' = None /\ stage' = "next"

\* The first sink.  A call that returns an error may have taken effect.
FlushToTable ==
  /\ stage = "db"
  /\ \E ok, applied \in BOOLEAN :
       /\ ok => applied
       /\ ContextCall(ok)
       /\ rows' = IF applied THEN RowsWith(cur, buckets[cur]) ELSE rows
       /\ sinkErr' = ~ok
  /\ stage' = "kafka"
  /\ UNCHANGED <<world, committed, redis, topic, proc, pos, buckets, holder,
                 todo, cur, flushNow, deliveries>>

\* The second sink is called whatever the first one said, and sends under a
\* cancelled context too; an error of either makes flushOne return before it
\* deletes the Redis key.
FlushToTopic ==
  /\ stage = "kafka"
  /\ \E ok, applied \in BOOLEAN :
       /\ ok => applied
       /\ Call(ok)
       /\ topic' = IF applied
                   THEN topic \cup {[cell |-> cur, bar |-> buckets[cur]]}
                   ELSE topic
       /\ IF ok /\ ~sinkErr
          THEN stage' = "del" /\ UNCHANGED <<buckets, todo, cur>>
          ELSE AfterFlush
  /\ sinkErr' = FALSE
  /\ UNCHANGED <<world, committed, redis, rows, proc, pos, holder, flushNow,
                 deliveries>>

\* storage.DeleteAt, whose error is only logged.
Forget ==
  /\ stage = "del"
  /\ \E ok, applied \in BOOLEAN :
       /\ ok => applied
       /\ ContextCall(ok)
       /\ redis' = IF applied THEN RedisWithout(cur, buckets[cur].start)
                   ELSE redis
  /\ AfterFlush
  /\ UNCHANGED <<world, committed, rows, topic, proc, pos, holder, sinkErr,
                 flushNow, deliveries>>

(* The flush loop.                                                          *)

\* The ticker fires: flushExpired reads the clock, then asks for the mutex.
FlushRead ==
  /\ proc # "down"
  /\ flushNow = None
  /\ flushNow' = now
  /\ UNCHANGED <<world, committed, stores, proc, pos, buckets, job,
                 deliveries, spent>>

BeginFlush ==
  /\ holder = "nobody"
  /\ flushNow # None
  /\ holder' = "flusher"
  /\ todo' = {c \in Cells : buckets[c] # None /\ Due(c, buckets[c], flushNow)}
  /\ UNCHANGED <<world, committed, stores, proc, pos, buckets, cur, stage,
                 sinkErr, flushNow, deliveries, spent>>

\* flushExpired and FlushAll range over a map: any order.
PickBar ==
  /\ holder \in {"flusher", "closer"} /\ stage = "next"
  /\ \E c \in todo : cur' = c
  /\ stage' = "db"
  /\ UNCHANGED <<world, committed, stores, proc, pos, buckets, holder, todo,
                 sinkErr, flushNow, deliveries, spent>>

EndFlush ==
  /\ holder = "flusher" /\ stage = "next" /\ todo = {}
  /\ holder' = "nobody"
  /\ flushNow' = None
  /\ UNCHANGED <<world, committed, stores, proc, pos, buckets, todo, cur,
                 stage, sinkErr, deliveries, spent>>

(* Offsets, shutdown, death and restart.                                    *)

\* Mutant: the message is marked before its handler returns.
MarkedEarly == IF holder = "consumer" THEN pos + 1 ELSE pos
\* The offset ConsumeClaim has marked: the last message whose handler returned.
Marked == pos

\* sarama commits the marked offset in the background.
AutoCommit ==
  /\ proc \in {"up", "stopping"}
  /\ committed < Marked
  /\ committed' = Marked
  /\ UNCHANGED <<world, stores, proc, pos, buckets, job, flushNow, deliveries,
                 spent>>

\* A session ends with its marks not committed; the next one starts from the
\* committed offset, and the Manager keeps its bars.
LoseSession ==
  /\ proc = "up"
  /\ holder # "consumer"
  /\ committed < pos
  /\ Spend("session")
  /\ pos' = committed
  /\ UNCHANGED <<world, committed, stores, proc, buckets, job, flushNow,
                 deliveries>>

\* SIGTERM cancels the context; the message in hand is still processed.
Stop ==
  /\ proc = "up"
  /\ Spend("stop")
  /\ proc' = "stopping"
  /\ UNCHANGED <<world, committed, stores, pos, buckets, job, flushNow,
                 deliveries>>

\* The consumer has returned and closes, its last commit done or lost; then
\* Manager.Close stops the flush loop and calls FlushAll.
CloseConsumer ==
  /\ proc = "stopping"
  /\ holder # "consumer"
  /\ proc' = "closing"
  /\ committed' \in {committed, Marked}
  /\ UNCHANGED <<world, stores, pos, buckets, job, flushNow, deliveries, spent>>

BeginFlushAll ==
  /\ proc = "closing"
  /\ holder = "nobody"
  /\ holder' = "closer"
  /\ todo' = {c \in Cells : buckets[c] # None}
  /\ UNCHANGED <<world, committed, stores, proc, pos, buckets, cur, stage,
                 sinkErr, flushNow, deliveries, spent>>

\* The process is gone, and with it all it had in memory.
Exit ==
  /\ proc' = "down"
  /\ buckets' = [c \in Cells |-> None]
  /\ holder' = "nobody" /\ todo' = {} /\ cur' = None
  /\ stage' = "next" /\ sinkErr' = FALSE
  /\ flushNow' = None
  /\ pos' = committed
  /\ UNCHANGED <<world, committed, stores, deliveries>>

EndFlushAll ==
  /\ holder = "closer" /\ stage = "next" /\ todo = {}
  /\ Exit
  /\ UNCHANGED spent

Crash ==
  /\ proc # "down"
  /\ Spend("crash")
  /\ Exit

Restart ==
  /\ proc = "down"
  /\ proc' = "up"
  /\ UNCHANGED <<world, committed, stores, pos, buckets, job, flushNow,
                 deliveries, spent>>

-----------------------------------------------------------------------------

Visit == \E c \in Cells : Restore(c) \/ Create(c) \/ Extend(c) \/ Replace(c)

\* The steps of whoever holds the mutex.
Work == \/ Visit \/ Save \/ EndProcess
        \/ FlushToTable \/ FlushToTopic \/ Forget
        \/ PickBar \/ EndFlush \/ EndFlushAll

Next == \/ Tick \/ Produce
        \/ BeginProcess \/ FlushRead \/ BeginFlush \/ BeginFlushAll
        \/ Work
        \/ AutoCommit \/ LoseSession
        \/ Stop \/ CloseConsumer \/ Crash \/ Restart

Spec == Init /\ [][Next]_vars

(* Time passes and the runtime runs every goroutine; sync.Mutex hands the   *)
(* lock to a waiter that has waited long, so whoever keeps asking for it    *)
(* gets it: strong fairness.  The container is restarted when it exits      *)
(* (restart: always).                                                       *)
Fairness ==
  /\ WF_vars(Tick)
  /\ WF_vars(Work)
  /\ WF_vars(FlushRead)
  /\ SF_vars(BeginProcess)
  /\ SF_vars(BeginFlush)
  /\ SF_vars(BeginFlushAll)
  /\ WF_vars(CloseConsumer)
  /\ WF_vars(Restart)

FairSpec == Spec /\ Fairness

-----------------------------------------------------------------------------
(* Properties.                                                              *)

TypeOK ==
  /\ now \in Nat
  /\ log \in Seq(RawTicks) /\ Len(log) <= MaxTicks
  /\ committed \in Nat /\ pos \in Nat
  /\ committed <= pos /\ pos <= Len(log)
  /\ redis \subseteq Saved /\ rows \subseteq Entries /\ topic \subseteq Entries
  /\ proc \in {"up", "stopping", "closing", "down"}
  /\ buckets \in [Cells -> Bars \cup {None}]
  /\ holder \in {"nobody", "consumer", "flusher", "closer"}
  /\ todo \subseteq Cells
  /\ cur \in Cells \cup {None}
  /\ stage \in {"next", "save", "db", "kafka", "del"}
  /\ sinkErr \in BOOLEAN
  /\ flushNow \in Nat \cup {None}
  /\ deliveries \in [Offsets -> Nat]
  /\ spent \in [Kinds -> Nat]

\* Every copy of a bar: in memory, in Redis, in the table, on the topic.
InMemory == {[cell |-> c, bar |-> buckets[c]] :
               c \in {d \in Cells : buckets[d] # None}}
InRedis == {[cell |-> e.cell, bar |-> e.bar] : e \in redis}
Copies == InMemory \cup InRedis \cup rows \cup topic

Faultless == \A k \in {"crash", "io", "cut"} : spent[k] = 0
Orderly == spent["session"] = 0 /\ spent["clock"] = 0

(* No copy of a bar counts a tick more often than the tick was delivered, or
   a tick of another symbol, whatever fails and however often the process is
   restarted from Redis: Process adds a tick to a bar once per call. *)
CountsDeliveredTicks ==
  \A k \in Copies, o \in Offsets :
    /\ k.bar.hits[o] <= deliveries[o]
    /\ k.bar.hits[o] > 0 => log[o].sym = k.cell.sym

(* The stores are keyed by the start of the window, which every writer aligns
   by itself: all starts are on the grid, and no window has two rows or two
   partial bars (Save, LoadAt, DeleteAt, the table's unique index). *)
OneBarPerWindow ==
  /\ \A k \in Copies : Window(k.cell, k.bar.start) = k.bar.start
  /\ \A r, q \in rows :
       r.cell = q.cell /\ r.bar.start = q.bar.start => r = q
  /\ \A e, f \in redis :
       e.cell = f.cell /\ e.bar.start = f.bar.start => e = f

(* update does not look at the tick's time: a bar holds the ticks of its own
   window only because ticks come in time order and never from the future, in
   one session.  Under that condition they do, across lag, faults and restarts. *)
TicksInWindow ==
  Orderly => \A k \in Copies, o \in Offsets :
               k.bar.hits[o] > 0 => Window(k.cell, log[o].ts) = k.bar.start

(* With no remote call failing and no crash, what was saved in Redis and not
   deleted is exactly the open bars, but for the bar being saved: no store of a
   bar outlives it, and LoadAt never brings back a bar that was published. *)
RedisMirrorsMemory ==
  Faultless =>
    \A c \in Cells :
      \/ stage = "save" /\ cur = c
      \/ {e.bar : e \in {f \in redis : f.cell = c}} = {buckets[c]} \ {None}

\* The raw topic has a tick at offset o, for cell c.
OnTopic(c, o) == o <= Len(log) /\ log[o].sym = c.sym

\* The tick at offset o counts in the open or in a published bar of cell c.
Counted(c, o) ==
  \/ buckets[c] # None /\ buckets[c].hits[o] > 0
  \/ \E t \in topic : t.cell = c /\ t.bar.hits[o] > 0

\* Process has the tick at offset o in hand, and the cell c still before it.
InHand(c, o) == holder = "consumer" /\ o = pos + 1 /\ c \in todo

(* With no remote call failing and no crash, every tick delivered is, in every
   interval, in the open bar or in a published one: no replacement, shutdown,
   redelivery or late tick drops it. *)
NoTickLost ==
  Faultless =>
    \A c \in Cells, o \in Offsets :
      deliveries[o] > 0 /\ OnTopic(c, o) => Counted(c, o) \/ InHand(c, o)

(* ... and a tick delivered once is in one bar only of each interval: a volume
   is not published twice, though the same window may be published again. *)
NoTickTwice ==
  Faultless =>
    \A t, u \in topic \cup InMemory, o \in Offsets :
      /\ deliveries[o] = 1
      /\ t.cell = u.cell
      /\ t.bar.hits[o] > 0 /\ u.bar.hits[o] > 0
      => t = u

(* With no remote call failing and no crash, the two sinks tell the same story
   but for the ignored inserts: every row was published as it is, and every
   window on the topic has its row. *)
SinksAgree ==
  Faultless =>
    /\ \A r \in rows : \/ r \in topic
                       \/ stage = "kafka" /\ r = [cell |-> cur, bar |-> buckets[cur]]
    /\ \A t \in topic : HasRow(t.cell, t.bar)

(* Except at shutdown a bar is published only when its time is over, by the
   clock at the moment of publication: the flush loop's clock was read before it
   waited for the mutex. *)
PublishedWhenOver ==
  [][\A t \in topic' \ topic :
       holder = "closer" \/ now >= End(t.cell, t.bar)]_vars

(* The outputs keep what CandleStore promises, under every disturbance. *)
Promise == INSTANCE CandleStore WITH delivered <- deliveries
PromiseKept == Promise!Spec

Settled(c, o) ==
  \/ ~Faultless
  \/ OnTopic(c, o) /\ Window(c, log[o].ts) + Dur[c.iv] > MaxTime
  \/ \E t \in topic : t.cell = c /\ t.bar.hits[o] > 0

(* Every tick on the raw topic ends up, in every interval, in a published bar,
   unless a fault came in between or the clock stopped before the bar was over:
   the flush loop closes bars that no later tick closes, and a shutdown that cuts
   off no call, and the restart after it, lose none. *)
EveryTickPublished ==
  \A c \in Cells, o \in Offsets : OnTopic(c, o) ~> Settled(c, o)

-----------------------------------------------------------------------------
(* What the source says and the code does not do.                           *)

(* interface.go: Process "updates the corresponding bar" with the tick.  When it
   moves on from a bar, the bar has the tick. *)
ProcessUpdatesBar ==
  stage = "save" => buckets[cur].hits[pos + 1] > 0
=============================================================================

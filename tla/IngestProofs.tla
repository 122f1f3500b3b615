------------------------------ MODULE IngestProofs ------------------------------
(***************************************************************************)
(* Proofs about Ingest, for any feed, buffers, replicas and any number of   *)
(* faults and rebalances.  The collector and the group have an inductive    *)
(* invariant each, CInv and GInv: a step of the one leaves the other alone, *)
(* but for the log the group reads, of which GInv says nothing.             *)
(***************************************************************************)
EXTENDS Ingest, SequenceTheorems, TLAPS

-----------------------------------------------------------------------------
(* Order of sequences of numbers.                                           *)

Sorted(q) == \A i, j \in DOMAIN q : i < j => q[i] <= q[j]
Before(p, q) == \A i \in DOMAIN p : \A j \in DOMAIN q : p[i] <= q[j]
AtMost(q, n) == \A i \in DOMAIN q : q[i] <= n
AtLeast(q, n) == \A i \in DOMAIN q : n <= q[i]

\* Append puts one number behind the others.
LEMMA Appended ==
  ASSUME NEW q \in Seq(Nat), NEW n \in Nat
  PROVE  /\ Append(q, n) \in Seq(Nat)
         /\ \A i \in DOMAIN Append(q, n) : \/ i \in DOMAIN q /\ Append(q, n)[i] = q[i]
                                           \/ i = Len(q) + 1 /\ Append(q, n)[i] = n
<1>1. /\ Append(q, n) \in Seq(Nat) /\ Len(Append(q, n)) = Len(q) + 1
      /\ \A i \in 1 .. Len(q) : Append(q, n)[i] = q[i]
      /\ Append(q, n)[Len(q) + 1] = n
  BY AppendProperties
<1>2. DOMAIN q = 1 .. Len(q) /\ DOMAIN Append(q, n) = 1 .. Len(q) + 1 /\ Len(q) \in Nat
  BY <1>1, LenProperties
<1> QED
  BY <1>1, <1>2

\* Tail drops the first and moves the others up.
LEMMA Tailed ==
  ASSUME NEW q \in Seq(Nat), q # <<>>
  PROVE  /\ Tail(q) \in Seq(Nat) /\ Head(q) = q[1] /\ 1 \in DOMAIN q
         /\ \A i \in DOMAIN Tail(q) : i \in Nat /\ i >= 1 /\ i + 1 \in DOMAIN q
                                      /\ Tail(q)[i] = q[i + 1]
<1>1. /\ Tail(q) \in Seq(Nat) /\ Len(Tail(q)) = Len(q) - 1
      /\ \A i \in 1 .. Len(Tail(q)) : Tail(q)[i] = q[i + 1]
  BY HeadTailProperties
<1>2. DOMAIN q = 1 .. Len(q) /\ DOMAIN Tail(q) = 1 .. Len(q) - 1 /\ Len(q) \in Nat
  BY <1>1, LenProperties
<1>3. Len(q) > 0
  BY EmptySeq
<1> QED
  BY <1>1, <1>2, <1>3

LEMMA AppendSorted ==
  ASSUME NEW q \in Seq(Nat), NEW n \in Nat, Sorted(q), AtMost(q, n)
  PROVE  Sorted(Append(q, n))
<1> SUFFICES ASSUME NEW i \in DOMAIN Append(q, n), NEW j \in DOMAIN Append(q, n), i < j
             PROVE  Append(q, n)[i] <= Append(q, n)[j]
  BY DEF Sorted
<1>1. DOMAIN q = 1 .. Len(q) /\ Len(q) \in Nat
  BY LenProperties
<1>2. i \in DOMAIN q /\ Append(q, n)[i] = q[i]
  BY <1>1, Appended
<1>3. CASE j \in DOMAIN q /\ Append(q, n)[j] = q[j]
  BY <1>2, <1>3 DEF Sorted
<1>4. CASE Append(q, n)[j] = n
  BY <1>2, <1>4 DEF AtMost
<1> QED
  BY <1>3, <1>4, Appended

LEMMA AppendBefore ==
  ASSUME NEW p \in Seq(Nat), NEW q \in Seq(Nat), NEW n \in Nat, Before(p, q)
  PROVE  /\ AtMost(p, n) => Before(p, Append(q, n))
         /\ AtLeast(q, n) => Before(Append(p, n), q)
BY Appended DEF Before, AtMost, AtLeast

LEMMA AppendAtMost ==
  ASSUME NEW q \in Seq(Nat), NEW n \in Nat, NEW m \in Nat, AtMost(q, m), n <= m
  PROVE  AtMost(Append(q, n), m)
BY Appended DEF AtMost

LEMMA TailSorted ==
  ASSUME NEW q \in Seq(Nat), q # <<>>, Sorted(q)
  PROVE  Sorted(Tail(q)) /\ AtLeast(Tail(q), Head(q))
<1>1. ASSUME NEW i \in DOMAIN Tail(q), NEW j \in DOMAIN Tail(q), i < j
      PROVE  Tail(q)[i] <= Tail(q)[j]
  BY <1>1, Tailed DEF Sorted
<1>2. ASSUME NEW i \in DOMAIN Tail(q)
      PROVE  Head(q) <= Tail(q)[i]
  BY <1>2, Tailed DEF Sorted
<1> QED
  BY <1>1, <1>2 DEF Sorted, AtLeast

LEMMA TailBefore ==
  ASSUME NEW p \in Seq(Nat), NEW q \in Seq(Nat), q # <<>>
  PROVE  /\ Before(p, q) => Before(p, Tail(q)) /\ AtMost(p, Head(q))
         /\ Before(q, p) => Before(Tail(q), p) /\ AtLeast(p, Head(q))
BY Tailed DEF Before, AtMost, AtLeast

LEMMA TailAtMost ==
  ASSUME NEW q \in Seq(Nat), q # <<>>, NEW m \in Nat, AtMost(q, m)
  PROVE  AtMost(Tail(q), m) /\ Head(q) <= m
BY Tailed DEF AtMost

LEMMA AtMostMore ==
  ASSUME NEW q \in Seq(Nat), NEW m \in Nat, NEW n \in Nat, m <= n, AtMost(q, m)
  PROVE  AtMost(q, n)
<1>1. \A i \in DOMAIN q : q[i] \in Nat
  BY LenProperties, ElementOfSeq
<1> QED
  BY <1>1 DEF AtMost

LEMMA AppendAtLeast ==
  ASSUME NEW q \in Seq(Nat), NEW n \in Nat, NEW m \in Nat, AtLeast(q, m), m <= n
  PROVE  AtLeast(Append(q, n), m)
BY Appended DEF AtLeast

LEMMA TailAtLeast ==
  ASSUME NEW q \in Seq(Nat), q # <<>>, NEW m \in Nat, AtLeast(q, m)
  PROVE  AtLeast(Tail(q), m)
BY Tailed DEF AtLeast

-----------------------------------------------------------------------------
(* The collector.                                                           *)

\* Which goroutines are alive when: of a stream that has ended none, and the
\* connection is open only while its goroutine uses it.
Stages ==
  /\ open => runner \in {"subscribe", "head", "read"}
  /\ ~outOpen => runner = "ended" /\ raw = <<>>
  /\ app # "route" => ~outOpen /\ out = <<>> /\ cur = None

\* A message is in one place, and nothing overtakes it on its way.
InOrder ==
  /\ Sorted(raw) /\ Sorted(out) /\ Before(out, raw)
  /\ AtMost(raw, read) /\ AtMost(out, read)
  /\ cur # None => AtLeast(out, cur) /\ AtLeast(raw, cur) /\ cur <= read
  /\ \A t \in Topic :
        /\ Sorted(topic[t]) /\ Before(topic[t], out) /\ Before(topic[t], raw)
        /\ AtMost(topic[t], read)
        /\ cur # None => AtMost(topic[t], cur)

CInv == CollectorTypeOK /\ Stages /\ PingersBounded /\ InOrder

LEMMA Messages ==
  /\ Message \subseteq Nat /\ None \notin Message
  /\ \A q \in Seq(Message) : q \in Seq(Nat)
<1>1. Len(Feed) \in Nat
  BY FeedAssumption, LenProperties
<1>2. Message \subseteq Nat /\ None \notin Message
  BY <1>1 DEF Message, None
<1> QED
  BY <1>2, SeqMonotonic

LEMMA Numbers ==
  ASSUME CollectorTypeOK
  PROVE  /\ raw \in Seq(Nat) /\ out \in Seq(Nat) /\ read \in Nat /\ cur \in Nat
         /\ \A t \in Topic : topic[t] \in Seq(Nat)
<1>1. Len(Feed) \in Nat
  BY FeedAssumption, LenProperties
<1>2. read \in Nat /\ cur \in Nat
  BY <1>1, Messages DEF CollectorTypeOK, None
<1> QED
  BY <1>2, Messages DEF CollectorTypeOK

\* The actions that leave every message where it is.
Stays ==
  \/ Cancel \/ StartStream \/ StopLoop \/ CloseAll \/ CheckStops \/ CheckGoesOn
  \/ Connect \/ ConnectFails \/ Subscribe \/ SubscribeFails \/ ReadNext
  \/ ReadFails \/ ReadStops \/ ForwardEnds \/ RouterEnds

LEMMA StaysPut == Stays => UNCHANGED <<raw, out, cur, topic, read, dropped>>
BY DEF Stays, Cancel, StartStream, StopLoop, CloseAll, CheckStops, CheckGoesOn,
   Connect, ConnectFails, Subscribe, SubscribeFails, ReadNext, ReadFails, ReadStops,
   HangUp, ForwardEnds, RouterEnds, stream, channels, publishing

LEMMA CollectorCases ==
  CollectorNext <=> \/ Stays \/ Receive \/ Forward \/ Route
                    \/ Send \/ SendFails \/ GiveUp
BY DEF CollectorNext, CollectorProgress, Stays

(* Types.                                                                   *)

LEMMA WrittenType ==
  ASSUME CollectorTypeOK, cur # None
  PROVE  /\ Written \in [Topic -> Seq(Message)]
         /\ Target(Feed[cur]) \in Topic
         /\ cur \in Message
<1>1. Target(Feed[cur]) \in Topic
  BY DEF Target, Topic
<1>2. cur \in Message
  BY DEF CollectorTypeOK
<1>3. Append(topic[Target(Feed[cur])], cur) \in Seq(Message)
  BY <1>1, <1>2, AppendProperties DEF CollectorTypeOK
<1> QED
  BY <1>1, <1>2, <1>3 DEF Written, CollectorTypeOK

LEMMA QueueTypes ==
  ASSUME NEW q \in Seq(Message), Len(q) <= BufferSize
  PROVE  /\ \A n \in Message : Len(q) < BufferSize =>
               Append(q, n) \in Seq(Message) /\ Len(Append(q, n)) <= BufferSize
         /\ q # <<>> => /\ Tail(q) \in Seq(Message) /\ Head(q) \in Message
                        /\ Len(Tail(q)) <= BufferSize
<1>1. Len(q) \in Nat /\ BufferSize \in Nat
  BY LenProperties, BufferAssumption
<1>2. ASSUME NEW n \in Message, Len(q) < BufferSize
      PROVE  Append(q, n) \in Seq(Message) /\ Len(Append(q, n)) <= BufferSize
  BY <1>1, <1>2, AppendProperties
<1>3. ASSUME q # <<>>
      PROVE  /\ Tail(q) \in Seq(Message) /\ Head(q) \in Message
             /\ Len(Tail(q)) <= BufferSize
  BY <1>1, <1>3, HeadTailProperties
<1> QED
  BY <1>2, <1>3

\* The types of what the messages pass through, and of the control.
DataOK ==
  /\ raw \in Seq(Message) /\ Len(raw) <= BufferSize
  /\ out \in Seq(Message) /\ Len(out) <= BufferSize
  /\ cur \in Message \cup {None} /\ topic \in [Topic -> Seq(Message)]
  /\ read \in 0 .. Len(Feed) /\ dropped \subseteq Message
FlagsOK ==
  /\ ctxDone \in BOOLEAN /\ open \in BOOLEAN /\ pinging \in BOOLEAN
  /\ outOpen \in BOOLEAN /\ failed \in BOOLEAN
ControlOK ==
  /\ app \in {"start", "route", "stopped", "closed"}
  /\ runner \in {"check", "connect", "subscribe", "head", "read", "ended"}
  /\ leaked \in Nat /\ refused \in Nat /\ faults \in 0 .. MaxFaults

LEMMA CollectorTypeParts == CollectorTypeOK <=> DataOK /\ FlagsOK /\ ControlOK
BY DEF CollectorTypeOK, DataOK, FlagsOK, ControlOK

LEMMA DataStep == ASSUME CollectorTypeOK, CollectorNext PROVE DataOK'
<1>1. DataOK
  BY CollectorTypeParts
<1>2. CASE Stays
  BY <1>1, <1>2, StaysPut DEF DataOK
<1>3. CASE Receive
  <2>1. read' \in 0 .. Len(Feed) /\ read' \in Message
    BY <1>1, <1>3, FeedAssumption, LenProperties DEF Receive, DataOK, Message
  <2>2. raw' \in Seq(Message) /\ Len(raw') <= BufferSize /\ dropped' \subseteq Message
    BY <1>1, <1>3, <2>1, QueueTypes DEF Receive, DataOK
  <2> QED
    BY <1>1, <1>3, <2>1, <2>2 DEF Receive, DataOK, publishing
<1>4. CASE Forward
  <2>1. /\ Head(raw) \in Message
        /\ raw' \in Seq(Message) /\ Len(raw') <= BufferSize
    BY <1>1, <1>4, QueueTypes DEF Forward, DataOK
  <2>2. out' \in Seq(Message) /\ Len(out') <= BufferSize /\ dropped' \subseteq Message
    BY <1>1, <1>4, <2>1, QueueTypes DEF Forward, DataOK
  <2> QED
    BY <1>1, <1>4, <2>1, <2>2 DEF Forward, DataOK, publishing, stream
<1>5. CASE Route
  <2>1. /\ Head(out) \in Message
        /\ out' \in Seq(Message) /\ Len(out') <= BufferSize
    BY <1>1, <1>5, QueueTypes DEF Route, DataOK
  <2> QED
    BY <1>1, <1>5, <2>1 DEF Route, DataOK, stream
<1>6. CASE Send
  BY <1>1, <1>6, WrittenType DEF Send, MayAttempt, DataOK, stream, channels
<1>7. CASE SendFails
  BY <1>1, <1>7, WrittenType DEF SendFails, MayAttempt, DataOK, stream, channels
<1>8. CASE GiveUp
  BY <1>1, <1>8 DEF GiveUp, DataOK, stream, channels
<1> QED
  BY <1>2, <1>3, <1>4, <1>5, <1>6, <1>7, <1>8, CollectorCases

LEMMA FlagsStep == ASSUME CollectorTypeOK, CollectorNext PROVE FlagsOK'
<1>1. FlagsOK
  BY CollectorTypeParts
<1>2. ctxDone' \in BOOLEAN /\ failed' \in BOOLEAN /\ outOpen' \in BOOLEAN
  BY <1>1, CollectorCases DEF FlagsOK, Stays, Receive, Forward, Route, Send,
     SendFails, GiveUp, Cancel, StartStream, StopLoop, CloseAll, CheckStops,
     CheckGoesOn, Connect, ConnectFails, Subscribe, SubscribeFails, ReadNext,
     ReadFails, ReadStops, HangUp, ForwardEnds, RouterEnds, stream, channels,
     publishing
<1>3. open' \in BOOLEAN /\ pinging' \in BOOLEAN
  BY <1>1, CollectorCases DEF FlagsOK, Stays, Receive, Forward, Route, Send,
     SendFails, GiveUp, Cancel, StartStream, StopLoop, CloseAll, CheckStops,
     CheckGoesOn, Connect, ConnectFails, Subscribe, SubscribeFails, ReadNext,
     ReadFails, ReadStops, HangUp, ForwardEnds, RouterEnds, stream, channels,
     publishing
<1> QED
  BY <1>2, <1>3 DEF FlagsOK

LEMMA FaultCounted ==
  ASSUME faults \in 0 .. MaxFaults, Fault
  PROVE  faults' \in 0 .. MaxFaults
BY FaultsAssumption DEF Fault

LEMMA ControlStep == ASSUME CollectorTypeOK, CollectorNext PROVE ControlOK'
<1>1. ControlOK
  BY CollectorTypeParts
<1>2. /\ app' \in {"start", "route", "stopped", "closed"}
      /\ runner' \in {"check", "connect", "subscribe", "head", "read", "ended"}
  BY <1>1, CollectorCases DEF ControlOK, Stays, Receive, Forward, Route, Send,
     SendFails, GiveUp, Cancel, StartStream, StopLoop, CloseAll, CheckStops,
     CheckGoesOn, Connect, ConnectFails, Subscribe, SubscribeFails, ReadNext,
     ReadFails, ReadStops, HangUp, ForwardEnds, RouterEnds, stream, channels,
     publishing
<1>3. leaked' \in Nat /\ refused' \in Nat
  BY <1>1, CollectorCases DEF ControlOK, Stays, Receive, Forward, Route, Send,
     SendFails, GiveUp, Cancel, StartStream, StopLoop, CloseAll, CheckStops,
     CheckGoesOn, Connect, ConnectFails, Subscribe, SubscribeFails, ReadNext,
     ReadFails, ReadStops, HangUp, ForwardEnds, RouterEnds, stream, channels,
     publishing
<1>4. faults' \in 0 .. MaxFaults
  <2>1. faults' = faults \/ Fault
    BY CollectorCases DEF Stays, Receive, Forward, Route, Send,
       SendFails, GiveUp, Cancel, StartStream, StopLoop, CloseAll, CheckStops,
       CheckGoesOn, Connect, ConnectFails, Subscribe, SubscribeFails, ReadNext,
       ReadFails, ReadStops, ForwardEnds, RouterEnds
  <2> QED
    BY <1>1, <2>1, FaultCounted DEF ControlOK
<1> QED
  BY <1>2, <1>3, <1>4 DEF ControlOK

(* Stages and pingers.                                                      *)

LEMMA StagesStep ==
  ASSUME CollectorTypeOK, Stages, CollectorNext
  PROVE  Stages'
<1>1. CASE \/ Cancel \/ StartStream \/ StopLoop \/ CloseAll \/ ForwardEnds \/ RouterEnds
  BY <1>1 DEF Stages, Cancel, StartStream, StopLoop, CloseAll, ForwardEnds,
     RouterEnds, stream, channels, publishing
<1>2. CASE \/ CheckStops \/ CheckGoesOn \/ Connect \/ ConnectFails \/ Subscribe
           \/ SubscribeFails \/ ReadNext \/ ReadFails \/ ReadStops
  BY <1>2 DEF Stages, CheckStops, CheckGoesOn, Connect, ConnectFails, Subscribe,
     SubscribeFails, ReadNext, ReadFails, ReadStops, HangUp, channels, publishing
<1>3. CASE Receive
  BY <1>3 DEF Stages, Receive, publishing
<1>4. CASE Forward \/ Route
  BY <1>4 DEF Stages, Forward, Route, stream, publishing
<1>5. CASE Send \/ SendFails \/ GiveUp
  BY <1>5 DEF Stages, Send, SendFails, GiveUp, MayAttempt, stream, channels
<1> QED
  BY <1>1, <1>2, <1>3, <1>4, <1>5, CollectorCases DEF Stays

LEMMA PingersStep ==
  ASSUME CollectorTypeOK, PingersBounded, Stages, CollectorNext
  PROVE  PingersBounded'
<1>1. leaked \in Nat /\ refused \in Nat
  BY DEF CollectorTypeOK
<1>2. CASE \/ Cancel \/ StartStream \/ StopLoop \/ CloseAll \/ ForwardEnds \/ RouterEnds
  BY <1>1, <1>2 DEF PingersBounded, Cancel, StartStream, StopLoop, CloseAll,
     ForwardEnds, RouterEnds, stream
<1>3. CASE SubscribeFails
  BY <1>1, <1>3 DEF PingersBounded, Stages, SubscribeFails, channels
<1>4. CASE \/ CheckStops \/ CheckGoesOn \/ Connect \/ ConnectFails \/ Subscribe
           \/ ReadNext \/ ReadFails \/ ReadStops
  BY <1>1, <1>4 DEF PingersBounded, CheckStops, CheckGoesOn, Connect, ConnectFails,
     Subscribe, ReadNext, ReadFails, ReadStops, HangUp
<1>5. CASE Receive \/ Forward \/ Route \/ Send \/ SendFails \/ GiveUp
  BY <1>1, <1>5 DEF PingersBounded, Receive, Forward, Route, Send, SendFails, GiveUp,
     stream
<1> QED
  BY <1>2, <1>3, <1>4, <1>5, CollectorCases DEF Stays

(* Order.                                                                   *)

LEMMA ReceiveInOrder ==
  ASSUME CollectorTypeOK, InOrder, Receive
  PROVE  InOrder'
<1>1. /\ raw \in Seq(Nat) /\ out \in Seq(Nat) /\ read \in Nat /\ cur \in Nat
      /\ \A t \in Topic : topic[t] \in Seq(Nat)
  BY Numbers
<1>2. read' = read + 1 /\ read' \in Nat /\ read <= read' /\ UNCHANGED <<out, cur, topic>>
  BY <1>1 DEF Receive, publishing
<1>3. raw' = raw \/ raw' = Append(raw, read')
  BY DEF Receive
<1>4. AtMost(raw, read') /\ AtMost(out, read')
  BY <1>1, <1>2, AtMostMore DEF InOrder
<1>5. Sorted(raw') /\ Before(out, raw') /\ AtMost(raw', read')
  <2>1. CASE raw' = raw
    BY <1>4, <2>1 DEF InOrder
  <2>2. CASE raw' = Append(raw, read')
    BY <1>1, <1>2, <1>4, <2>2, AppendSorted, AppendBefore, AppendAtMost DEF InOrder
  <2> QED
    BY <1>3, <2>1, <2>2
<1>6. cur # None => AtLeast(raw', cur) /\ cur <= read'
  <2>1. SUFFICES ASSUME cur # None PROVE AtLeast(raw', cur) /\ cur <= read'
    OBVIOUS
  <2>2. AtLeast(raw, cur) /\ cur <= read /\ cur <= read'
    BY <1>1, <1>2, <2>1 DEF InOrder
  <2>3. CASE raw' = raw
    BY <2>2, <2>3
  <2>4. CASE raw' = Append(raw, read')
    BY <1>1, <1>2, <2>2, <2>4, AppendAtLeast
  <2> QED
    BY <1>3, <2>2, <2>3, <2>4
<1>7. ASSUME NEW t \in Topic
      PROVE  Before(topic[t], raw') /\ AtMost(topic[t], read')
  <2>1. AtMost(topic[t], read')
    BY <1>1, <1>2, AtMostMore DEF InOrder
  <2> QED
    BY <1>1, <1>2, <1>3, <2>1, AppendBefore DEF InOrder
<1> QED
  BY <1>2, <1>4, <1>5, <1>6, <1>7 DEF InOrder

LEMMA ForwardInOrder ==
  ASSUME CollectorTypeOK, InOrder, Forward
  PROVE  InOrder'
<1>1. /\ raw \in Seq(Nat) /\ out \in Seq(Nat) /\ read \in Nat /\ cur \in Nat
      /\ \A t \in Topic : topic[t] \in Seq(Nat)
  BY Numbers
<1> DEFINE n == Head(raw)
<1>2. /\ raw # <<>> /\ raw' = Tail(raw) /\ UNCHANGED <<cur, topic, read>>
      /\ out' = out \/ out' = Append(out, n)
  BY DEF Forward, stream, publishing
<1>3. n \in Nat /\ Tail(raw) \in Seq(Nat)
  BY <1>1, <1>2, HeadTailProperties
<1>4. /\ Sorted(Tail(raw)) /\ AtLeast(Tail(raw), n) /\ AtMost(Tail(raw), read) /\ n <= read
      /\ Before(out, Tail(raw)) /\ AtMost(out, n)
  BY <1>1, <1>2, TailSorted, TailBefore, TailAtMost DEF InOrder
<1>5. Sorted(out') /\ Before(out', raw') /\ AtMost(out', read)
  BY <1>1, <1>2, <1>3, <1>4, AppendSorted, AppendBefore, AppendAtMost DEF InOrder
<1>6. cur # None => AtLeast(out', cur) /\ AtLeast(raw', cur)
  <2>1. ASSUME cur # None PROVE AtLeast(raw, cur) /\ cur <= n
    BY <1>1, <1>2, <2>1, Tailed DEF InOrder, AtLeast
  <2> QED
    BY <1>1, <1>2, <1>3, <2>1, AppendAtLeast, TailAtLeast DEF InOrder
<1>7. ASSUME NEW t \in Topic
      PROVE  Before(topic[t], out') /\ Before(topic[t], raw')
  <2>1. Before(topic[t], Tail(raw)) /\ AtMost(topic[t], n)
    BY <1>1, <1>2, TailBefore DEF InOrder
  <2> QED
    BY <1>1, <1>2, <1>3, <2>1, AppendBefore DEF InOrder
<1> QED
  BY <1>2, <1>4, <1>5, <1>6, <1>7 DEF InOrder

LEMMA RouteInOrder ==
  ASSUME CollectorTypeOK, InOrder, Route
  PROVE  InOrder'
<1>1. /\ raw \in Seq(Nat) /\ out \in Seq(Nat) /\ read \in Nat
      /\ \A t \in Topic : topic[t] \in Seq(Nat)
  BY Numbers
<1> DEFINE n == Head(out)
<1>2. /\ out # <<>> /\ out' = Tail(out) /\ UNCHANGED <<raw, topic, read>>
      /\ cur' = n \/ cur' = None
  BY DEF Route, stream
<1>3. /\ Sorted(Tail(out)) /\ AtLeast(Tail(out), n) /\ AtMost(Tail(out), read) /\ n <= read
      /\ Before(Tail(out), raw) /\ AtLeast(raw, n)
  BY <1>1, <1>2, TailSorted, TailBefore, TailAtMost DEF InOrder
<1>4. \A t \in Topic : Before(topic[t], Tail(out)) /\ AtMost(topic[t], n)
  BY <1>1, <1>2, TailBefore DEF InOrder
<1> QED
  BY <1>2, <1>3, <1>4 DEF InOrder

LEMMA SendInOrder ==
  ASSUME CollectorTypeOK, InOrder, Send \/ SendFails \/ GiveUp
  PROVE  InOrder'
<1>1. /\ raw \in Seq(Nat) /\ out \in Seq(Nat) /\ read \in Nat /\ cur \in Nat
      /\ \A t \in Topic : topic[t] \in Seq(Nat)
  BY Numbers
<1>2. /\ cur # None /\ UNCHANGED <<raw, out, read>>
      /\ cur' = cur \/ cur' = None
      /\ topic' = topic \/ topic' = Written
  BY DEF Send, SendFails, GiveUp, MayAttempt, stream, channels
<1>3. ASSUME NEW t \in Topic
      PROVE  topic'[t] = topic[t] \/ topic'[t] = Append(topic[t], cur)
  BY <1>2, <1>3 DEF Written, CollectorTypeOK
<1>4. ASSUME NEW t \in Topic
      PROVE  /\ Sorted(topic'[t]) /\ Before(topic'[t], out) /\ Before(topic'[t], raw)
             /\ AtMost(topic'[t], read) /\ AtMost(topic'[t], cur)
  <2>1. /\ Sorted(topic[t]) /\ Before(topic[t], out) /\ Before(topic[t], raw)
        /\ AtMost(topic[t], read) /\ AtMost(topic[t], cur)
        /\ AtLeast(out, cur) /\ AtLeast(raw, cur) /\ cur <= read
    BY <1>2 DEF InOrder
  <2>2. CASE topic'[t] = topic[t]
    BY <2>1, <2>2
  <2>3. CASE topic'[t] = Append(topic[t], cur)
    <3>1. Sorted(topic'[t])
      BY <1>1, <2>1, <2>3, AppendSorted
    <3>2. Before(topic'[t], out) /\ Before(topic'[t], raw)
      BY <1>1, <2>1, <2>3, AppendBefore
    <3>3. AtMost(topic'[t], read) /\ AtMost(topic'[t], cur)
      BY <1>1, <2>1, <2>3, AppendAtMost
    <3> QED
      BY <3>1, <3>2, <3>3
  <2> QED
    BY <1>3, <2>2, <2>3
<1> QED
  BY <1>2, <1>4 DEF InOrder

LEMMA InOrderStep ==
  ASSUME CollectorTypeOK, InOrder, CollectorNext
  PROVE  InOrder'
<1>1. CASE Stays
  BY <1>1, StaysPut DEF InOrder
<1> QED
  BY <1>1, ReceiveInOrder, ForwardInOrder, RouteInOrder, SendInOrder, CollectorCases

LEMMA CInvInit == CollectorInit => CInv
<1> SUFFICES ASSUME CollectorInit PROVE CInv
  OBVIOUS
<1>1. Len(Feed) \in Nat
  BY FeedAssumption, LenProperties
<1>2. /\ <<>> \in Seq(Message) /\ Len(<<>>) = 0 /\ Sorted(<<>>) /\ Before(<<>>, <<>>)
      /\ AtMost(<<>>, 0)
  BY EmptySeq DEF Sorted, Before, AtMost
<1>3. raw = <<>> /\ out = <<>> /\ Len(raw) <= BufferSize /\ Len(out) <= BufferSize
  BY <1>2, BufferAssumption DEF CollectorInit
<1>4. /\ cur \in Message \cup {None} /\ topic \in [Topic -> Seq(Message)]
      /\ read \in 0 .. Len(Feed) /\ dropped \subseteq Message
  BY <1>1, <1>2 DEF CollectorInit
<1>5. DataOK
  BY <1>2, <1>3, <1>4 DEF DataOK
<1>6. FlagsOK /\ ControlOK
  <2>1. FlagsOK
    BY DEF CollectorInit, FlagsOK
  <2>2. app = "start" /\ runner = "ended" /\ leaked = 0 /\ refused = 0 /\ faults = 0
    BY DEF CollectorInit
  <2>3. 0 \in 0 .. MaxFaults
    BY FaultsAssumption
  <2>4. ControlOK
    BY <2>2, <2>3 DEF ControlOK
  <2> QED
    BY <2>1, <2>4
<1>7. InOrder
  BY <1>2 DEF CollectorInit, InOrder
<1>8. Stages /\ PingersBounded
  BY DEF CollectorInit, Stages, PingersBounded
<1> QED
  BY <1>5, <1>6, <1>7, <1>8, CollectorTypeParts DEF CInv

LEMMA CInvStep == ASSUME CInv, CollectorNext PROVE CInv'
<1>1. DataOK' /\ FlagsOK' /\ ControlOK'
  BY DataStep, FlagsStep, ControlStep DEF CInv
<1>2. CollectorTypeOK'
  BY <1>1 DEF CollectorTypeOK, DataOK, FlagsOK, ControlOK
<1>3. Stages' /\ PingersBounded' /\ InOrder'
  BY StagesStep, PingersStep, InOrderStep DEF CInv
<1> QED
  BY <1>2, <1>3 DEF CInv

LEMMA CInvStays == ASSUME CInv, UNCHANGED collectorVars PROVE CInv'
BY DEF CInv, collectorVars, stream, channels, publishing, CollectorTypeOK, Stages,
   PingersBounded, InOrder

-----------------------------------------------------------------------------
(* The consumer group.                                                      *)

Seen == handled \cup refusedBy

\* A member with the partition is alive; what it has marked, and what it has
\* fetched except for the message at work, was given to a handler that returned.
SessionsOK ==
  /\ \A m \in owner : session[m].alive
  /\ \A m \in Member :
        /\ ~session[m].alive => session[m].marked = 0 /\ ~session[m].busy
        /\ \A n \in 1 .. session[m].marked : n \in Seen
        /\ \A n \in 1 .. session[m].fetched :
              n \in Seen \/ (session[m].busy /\ n = session[m].fetched)

GInv == G!GroupTypeOK /\ SessionsOK /\ CommittedIsDelivered

Sessions == [alive : BOOLEAN, fetched : Nat, marked : Nat, busy : BOOLEAN]

\* What a session must be, for given sets of seen messages.
SessionOK(r, seen) ==
  /\ ~r.alive => r.marked = 0 /\ ~r.busy
  /\ \A n \in 1 .. r.marked : n \in seen
  /\ \A n \in 1 .. r.fetched : n \in seen \/ (r.busy /\ n = r.fetched)

LEMMA SessionsParts ==
  SessionsOK <=> /\ \A m \in owner : session[m].alive
                 /\ \A m \in Member : SessionOK(session[m], Seen)
BY DEF SessionsOK, SessionOK

\* More messages seen do no harm.
LEMMA SeenMore ==
  ASSUME NEW r, NEW s, NEW t, s \subseteq t, SessionOK(r, s)
  PROVE  SessionOK(r, t)
BY DEF SessionOK

\* A step that gives member m the session r and sees no less keeps the rest.
LEMMA SessionChanged ==
  ASSUME GInv, NEW m \in Member, NEW r \in Sessions,
         session' = [session EXCEPT ![m] = r], Seen \subseteq Seen',
         SessionOK(r, Seen'), owner' \subseteq Member,
         \A o \in owner' : (o = m => r.alive) /\ (o # m => o \in owner)
  PROVE  /\ session' \in [Member -> Sessions]
         /\ SessionsOK'
<1>1. session \in [Member -> Sessions]
  BY DEF GInv, G!GroupTypeOK, Sessions
<1>2. session' \in [Member -> Sessions]
  BY <1>1
<1>3. ASSUME NEW o \in Member PROVE SessionOK(session'[o], Seen')
  <2>1. CASE o = m
    BY <1>1, <2>1
  <2>2. CASE o # m
    <3>1. session'[o] = session[o] /\ SessionOK(session[o], Seen)
      BY <1>1, <2>2, SessionsParts DEF GInv
    <3> QED
      BY <3>1, SeenMore
  <2> QED
    BY <2>1, <2>2
<1>4. ASSUME NEW o \in owner' PROVE session'[o].alive
  <2>1. CASE o = m
    BY <1>1, <2>1
  <2>2. CASE o # m
    BY <1>1, <1>4, <2>2 DEF GInv, SessionsOK
  <2> QED
    BY <2>1, <2>2
<1> QED
  BY <1>2, <1>3, <1>4 DEF SessionsOK, SessionOK, Seen

\* What is left of the types when the sessions are taken away.
GroupRest ==
  /\ committed \in Nat /\ owner \in SUBSET Member
  /\ handled \in SUBSET Nat /\ refusedBy \in SUBSET Nat
  /\ rebalances \in 0 .. MaxRebalances
  /\ \A n \in 1 .. committed : n \in Seen

LEMMA GInvParts ==
  GInv <=> GroupRest /\ session \in [Member -> Sessions] /\ SessionsOK
BY DEF GInv, G!GroupTypeOK, GroupRest, Sessions, CommittedIsDelivered,
   G!CommittedIsDelivered, Seen

LEMMA SessionFields ==
  ASSUME GInv, NEW m \in Member
  PROVE  /\ session[m] \in Sessions /\ session[m].fetched \in Nat
         /\ session[m].marked \in Nat /\ SessionOK(session[m], Seen)
BY SessionsParts, GInvParts DEF Sessions

LEMMA JoinStep == ASSUME GInv, NEW m \in Member, G!Join(m) PROVE GInv'
<1>1. GroupRest
  BY GInvParts
<1> DEFINE r == [alive |-> TRUE, fetched |-> committed, marked |-> committed,
                 busy |-> FALSE]
<1>2. r \in Sessions
  BY <1>1 DEF Sessions, GroupRest
<1>3. /\ session' = [session EXCEPT ![m] = r] /\ owner' = {m}
      /\ UNCHANGED <<committed, handled, refusedBy, rebalances>>
  BY DEF G!Join
<1>4. r.alive /\ r.marked = committed /\ r.fetched = committed
  OBVIOUS
<1> HIDE DEF r
<1>5. SessionOK(r, Seen')
  <2>1. Seen' = Seen /\ \A n \in 1 .. committed : n \in Seen
    BY <1>1, <1>3 DEF GroupRest, Seen
  <2> QED
    BY <1>4, <2>1 DEF SessionOK
<1>6. session' \in [Member -> Sessions] /\ SessionsOK'
  BY <1>2, <1>3, <1>4, <1>5, SessionChanged DEF Seen
<1>7. GroupRest'
  BY <1>1, <1>3 DEF GroupRest, Seen
<1> QED
  BY <1>6, <1>7 DEF GInv, G!GroupTypeOK, GroupRest, Sessions, CommittedIsDelivered,
     G!CommittedIsDelivered, Seen

LEMMA FetchStep == ASSUME GInv, NEW m \in Member, G!Fetch(m) PROVE GInv'
<1>1. GroupRest /\ session \in [Member -> Sessions]
  BY GInvParts
<1>2. /\ session[m] \in Sessions /\ session[m].fetched \in Nat
      /\ SessionOK(session[m], Seen)
  BY SessionFields
<1> DEFINE r == [session[m] EXCEPT !.fetched = session[m].fetched + 1, !.busy = TRUE]
<1>3. /\ session[m].alive /\ ~session[m].busy
      /\ UNCHANGED <<committed, owner, handled, refusedBy, rebalances>>
  BY DEF G!Fetch
<1>4. session' = [session EXCEPT ![m] = r]
  BY <1>1 DEF G!Fetch, Sessions
<1>5. r.busy /\ r.alive
  BY <1>2, <1>3 DEF Sessions
<1>6. /\ r \in Sessions /\ r.fetched = session[m].fetched + 1
      /\ r.marked = session[m].marked
  <2>1. session[m].fetched + 1 \in Nat
    BY <1>2
  <2>2. r \in Sessions
    BY <1>2, <2>1 DEF Sessions
  <2> QED
    BY <1>2, <2>1, <2>2 DEF Sessions
<1> HIDE DEF r
<1>7. SessionOK(r, Seen')
  <2>1. Seen' = Seen
    BY <1>3 DEF Seen
  <2>2. /\ \A n \in 1 .. session[m].marked : n \in Seen
        /\ \A n \in 1 .. session[m].fetched : n \in Seen
    BY <1>2, <1>3 DEF SessionOK
  <2>3. \A n \in 1 .. session[m].fetched + 1 :
           n \in 1 .. session[m].fetched \/ n = session[m].fetched + 1
    BY <1>2
  <2> QED
    BY <1>5, <1>6, <2>1, <2>2, <2>3 DEF SessionOK
<1>8. session' \in [Member -> Sessions] /\ SessionsOK'
  BY <1>1, <1>3, <1>4, <1>5, <1>6, <1>7, SessionChanged DEF Seen, GroupRest
<1>9. GroupRest'
  BY <1>1, <1>3 DEF GroupRest, Seen
<1> QED
  BY <1>8, <1>9 DEF GInv, G!GroupTypeOK, GroupRest, Sessions, CommittedIsDelivered,
     G!CommittedIsDelivered, Seen

\* The handler returns, with an error or without.
LEMMA HandlerStep ==
  ASSUME GInv, NEW m \in Member, G!HandlerAccepts(m) \/ G!HandlerRefuses(m)
  PROVE  GInv'
<1>1. GroupRest /\ session \in [Member -> Sessions]
  BY GInvParts
<1>2. /\ session[m] \in Sessions /\ session[m].fetched \in Nat
      /\ SessionOK(session[m], Seen)
  BY SessionFields
<1>3. /\ session[m].busy /\ UNCHANGED <<committed, owner, rebalances>>
      /\ Seen' = Seen \cup {session[m].fetched}
  BY DEF G!HandlerAccepts, G!HandlerRefuses, Seen
<1>4. handled' \in SUBSET Nat /\ refusedBy' \in SUBSET Nat
  BY <1>1, <1>2 DEF G!HandlerAccepts, G!HandlerRefuses, GroupRest
<1>5. session[m].alive
  BY <1>2, <1>3 DEF SessionOK
<1>6. PICK k \in {session[m].marked, session[m].fetched} :
         session' = [session EXCEPT ![m] = [session[m] EXCEPT !.busy = FALSE, !.marked = k]]
  <2>1. CASE G!HandlerAccepts(m)
    <3>1. session' = [session EXCEPT ![m] =
              [session[m] EXCEPT !.busy = FALSE, !.marked = session[m].fetched]]
      BY <1>1, <2>1 DEF G!HandlerAccepts, Sessions
    <3> QED
      BY <3>1
  <2>2. CASE G!HandlerRefuses(m)
    <3>1. session' = [session EXCEPT ![m] =
              [session[m] EXCEPT !.busy = FALSE, !.marked = session[m].marked]]
      BY <1>1, <1>2, <2>2 DEF G!HandlerRefuses, Sessions
    <3> QED
      BY <3>1
  <2> QED
    BY <2>1, <2>2
<1> DEFINE r == [session[m] EXCEPT !.busy = FALSE, !.marked = k]
<1>7. /\ r \in Sessions /\ r.fetched = session[m].fetched /\ r.marked = k
  BY <1>2 DEF Sessions
<1>8. ~r.busy /\ r.alive
  BY <1>2, <1>5 DEF Sessions
<1>9. session' = [session EXCEPT ![m] = r]
  BY <1>6
<1> HIDE DEF r
<1>10. SessionOK(r, Seen')
  <2>1. \A n \in 1 .. session[m].fetched : n \in Seen'
    BY <1>2, <1>3 DEF SessionOK
  <2>2. \A n \in 1 .. session[m].marked : n \in Seen'
    BY <1>2, <1>3 DEF SessionOK
  <2>3. /\ \A n \in 1 .. r.fetched : n \in Seen'
        /\ \A n \in 1 .. r.marked : n \in Seen'
    BY <1>7, <2>1, <2>2
  <2> QED
    BY <1>8, <2>3 DEF SessionOK
<1>11. session' \in [Member -> Sessions] /\ SessionsOK'
  BY <1>1, <1>3, <1>7, <1>8, <1>9, <1>10, SessionChanged DEF GroupRest
<1>12. \A n \in 1 .. committed' : n \in Seen'
  BY <1>1, <1>3 DEF GroupRest
<1> QED
  BY <1>1, <1>3, <1>4, <1>11, <1>12 DEF GInv, G!GroupTypeOK, GroupRest, Sessions,
     CommittedIsDelivered, G!CommittedIsDelivered, Seen

LEMMA CommitStep == ASSUME GInv, NEW m \in Member, G!Commit(m) PROVE GInv'
<1>1. GroupRest /\ session \in [Member -> Sessions] /\ SessionsOK
  BY GInvParts
<1>2. /\ committed' = session[m].marked
      /\ UNCHANGED <<owner, session, handled, refusedBy, rebalances>>
  BY DEF G!Commit
<1>3. session[m].marked \in Nat /\ SessionOK(session[m], Seen)
  BY SessionFields
<1>4. GroupRest'
  BY <1>1, <1>2, <1>3 DEF GroupRest, SessionOK, Seen
<1>5. SessionsOK'
  BY <1>1, <1>2 DEF SessionsOK, Seen
<1> QED
  BY <1>1, <1>2, <1>4, <1>5 DEF GInv, G!GroupTypeOK, GroupRest, Sessions,
     CommittedIsDelivered, G!CommittedIsDelivered, Seen

\* The end of a session, in any of four ways.
LEMMA EndStep ==
  ASSUME GInv, NEW m \in Member,
         \/ G!EndSession(m) \/ G!NoticeEviction(m) \/ G!Crash(m) \/ G!Evict(m)
  PROVE  GInv'
<1>1. GroupRest /\ session \in [Member -> Sessions] /\ SessionsOK
  BY GInvParts
<1>2. session[m].marked \in Nat /\ SessionOK(session[m], Seen)
  BY SessionFields
<1>3. UNCHANGED <<handled, refusedBy>> /\ Seen' = Seen
  BY DEF G!EndSession, G!NoticeEviction, G!Crash, G!Evict, Seen
<1>4. \/ rebalances' = rebalances
      \/ rebalances < MaxRebalances /\ rebalances' = rebalances + 1
  <2>1. CASE G!NoticeEviction(m)
    BY <2>1 DEF G!NoticeEviction
  <2>2. CASE G!EndSession(m) \/ G!Crash(m) \/ G!Evict(m)
    BY <2>2 DEF G!EndSession, G!Crash, G!Evict
  <2> QED
    BY <2>1, <2>2
<1>5. rebalances' \in 0 .. MaxRebalances
  BY <1>1, <1>4, GroupAssumption DEF GroupRest
<1>6. committed' = committed \/ committed' = session[m].marked
  BY DEF G!EndSession, G!NoticeEviction, G!Crash, G!Evict
<1>7. committed' \in Nat /\ \A n \in 1 .. committed' : n \in Seen'
  BY <1>1, <1>2, <1>3, <1>6 DEF GroupRest, SessionOK
<1>8. owner' \subseteq owner
  BY DEF G!EndSession, G!NoticeEviction, G!Crash, G!Evict
<1>9. session' \in [Member -> Sessions] /\ SessionsOK'
  <2>1. CASE G!Evict(m)
    BY <1>1, <1>3, <1>8, <2>1 DEF G!Evict, SessionsOK
  <2>2. CASE G!EndSession(m) \/ G!NoticeEviction(m) \/ G!Crash(m)
    <3>1. session' = [session EXCEPT ![m] = G!NoSession] /\ m \notin owner'
      <4>1. CASE G!EndSession(m)
        BY <4>1 DEF G!EndSession
      <4>2. CASE G!NoticeEviction(m)
        BY <4>2 DEF G!NoticeEviction
      <4>3. CASE G!Crash(m)
        BY <4>3 DEF G!Crash
      <4> QED
        BY <2>2, <4>1, <4>2, <4>3
    <3>2. G!NoSession \in Sessions
      BY DEF G!NoSession, Sessions
    <3>3. SessionOK(G!NoSession, Seen')
      BY DEF G!NoSession, SessionOK
    <3> QED
      <4>1. owner' \subseteq Member /\ \A o \in owner' : o # m /\ o \in owner
        BY <1>1, <1>8, <3>1 DEF GroupRest
      <4>2. Seen \subseteq Seen'
        BY <1>3
      <4>3. PICK r \in Sessions : r = G!NoSession
        BY <3>2
      <4>4. session' = [session EXCEPT ![m] = r] /\ SessionOK(r, Seen')
        BY <3>1, <3>3, <4>3
      <4>5. \A o \in owner' : (o = m => r.alive) /\ (o # m => o \in owner)
        BY <4>1
      <4> QED
        BY <4>1, <4>2, <4>4, <4>5, SessionChanged
  <2> QED
    BY <2>1, <2>2
<1> QED
  BY <1>1, <1>3, <1>5, <1>7, <1>8, <1>9 DEF GInv, G!GroupTypeOK, GroupRest, Sessions,
     CommittedIsDelivered, G!CommittedIsDelivered, Seen

LEMMA GInvInit == G!GroupInit => GInv
<1> SUFFICES ASSUME G!GroupInit PROVE GInv
  OBVIOUS
<1>1. G!NoSession \in Sessions
  BY DEF G!NoSession, Sessions
<1>2. session \in [Member -> Sessions]
  BY <1>1 DEF G!GroupInit
<1>3. SessionOK(G!NoSession, Seen)
  BY DEF G!NoSession, SessionOK
<1>4. SessionsOK
  BY <1>3, SessionsParts DEF G!GroupInit
<1>5. GroupRest
  BY GroupAssumption DEF G!GroupInit, GroupRest, Seen
<1> QED
  BY <1>2, <1>4, <1>5, GInvParts

LEMMA GInvStep == ASSUME GInv, G!GroupNext PROVE GInv'
BY JoinStep, FetchStep, HandlerStep, CommitStep, EndStep DEF G!GroupNext, G!GroupProgress

LEMMA GInvStays == ASSUME GInv, UNCHANGED consumers PROVE GInv'
BY DEF GInv, consumers, G!GroupTypeOK, SessionsOK, CommittedIsDelivered,
   G!CommittedIsDelivered, Seen

-----------------------------------------------------------------------------
(* The composition.                                                         *)

LEMMA Inductive == Spec => [](CInv /\ GInv)
<1>1. Init => CInv /\ GInv
  BY CInvInit, GInvInit DEF Init
<1>2. CInv /\ GInv /\ [Next]_vars => CInv' /\ GInv'
  <2> SUFFICES ASSUME CInv, GInv, [Next]_vars PROVE CInv' /\ GInv'
    OBVIOUS
  <2>1. CASE Collect
    BY <2>1, CInvStep, GInvStays DEF Collect
  <2>2. CASE Consume
    BY <2>2, CInvStays, GInvStep DEF Consume
  <2>3. CASE UNCHANGED vars
    BY <2>3, CInvStays, GInvStays DEF vars
  <2> QED
    BY <2>1, <2>2, <2>3 DEF Next
<1> QED
  BY <1>1, <1>2, PTL DEF Spec

\* The types of the collector and of the group: both channels keep within their
\* capacity, whatever the exchange sends and the broker refuses.
THEOREM TypeCorrect == Spec => []TypeOK
<1>1. CInv /\ GInv => TypeOK
  BY DEF CInv, GInv, TypeOK
<1> QED
  BY Inductive, <1>1, PTL

\* A topic holds its messages in the order of the feed, over any reconnects,
\* full channels and sends that were applied but reported as failed.
THEOREM WrittenInOrder == Spec => []TopicInOrder
<1>1. CInv => TopicInOrder
  BY DEF CInv, InOrder, Sorted, TopicInOrder
<1> QED
  BY Inductive, <1>1, PTL

\* Nothing uses the producer and the connector once they are closed.
THEOREM IdleWhenClosed == Spec => []ClosedWhenIdle
<1>1. CInv => ClosedWhenIdle
  BY DEF CInv, Stages, ClosedWhenIdle
<1> QED
  BY Inductive, <1>1, PTL

\* No pinger outlives its connection but those of refused subscriptions, and
\* these end with their stream.
THEOREM PingersEnd == Spec => []PingersBounded
<1>1. CInv => PingersBounded
  BY DEF CInv
<1> QED
  BY Inductive, <1>1, PTL

\* What the group commits was given to a handler that returned, for any number
\* of replicas, rebalances, evictions noticed late and crashes.
THEOREM DeliveredBeforeCommit == Spec => []CommittedIsDelivered
<1>1. GInv => CommittedIsDelivered
  BY DEF GInv
<1> QED
  BY Inductive, <1>1, PTL
=============================================================================

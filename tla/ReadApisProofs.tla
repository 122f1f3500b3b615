---------------------------- MODULE ReadApisProofs ----------------------------
(***************************************************************************)
(* Theorems about ReadApis, for every set of calls, log, size of the        *)
(* channels, set of queries and page: what a stream of live candles keeps,  *)
(* how the parameters of a query are bound, what a listing leaves out.      *)
(***************************************************************************)
EXTENDS ReadApis, SequenceTheorems, FiniteSetTheorems, TLAPS

(***************************************************************************)
(* Live candles.  An event is appended to the pipeline of its call, by the  *)
(* reader, and then only moves along it, until the client leaves or the     *)
(* method returns and what the client has stays as it is.  So the pipeline  *)
(* is whole if what is appended continues what is there: the next event     *)
(* comes after every event that does not come again, and up to the position *)
(* a call has what it should have, whosever session the position was        *)
(* reached in.                                                              *)
(***************************************************************************)

\* A pipeline p of call c without a gap, given the marks m of the events and
\* those that came again, g.
Whole(p, c, m, g) ==
    \A i, j \in DOMAIN p : i < j /\ p[i] # Control /\ p[j] # Control =>
        /\ p[j] .. p[i] \subseteq g
        /\ \A e \in p[i] .. p[j] : Log[e] = SymbolOf[c] =>
              (\E k \in 1 .. j : p[k] = e) \/ m[e] \ {c} # {}

\* The same between an event of the pipeline and a position.
Until(p, c, m, g, pos) ==
    \A i \in DOMAIN p : p[i] # Control =>
        /\ pos + 1 .. p[i] \subseteq g
        /\ \A e \in p[i] .. pos : Log[e] = SymbolOf[c] =>
              (\E k \in DOMAIN p : p[k] = e) \/ m[e] \ {c} # {}

OneSession == \A c, d \in Call : InSession(c) /\ InSession(d) => c = d
HandsWanted ==
    \A c \in Call : reader[c] = "handing" => position < Len(Log) /\ Wanted(c)
Order ==
    \A c \in Call :
        /\ rpc[c] = "none" => requests[c] = "none" /\ reader[c] = "none"
        /\ requests[c] \in {"none", "waiting"} => relay[c] = "none"
        /\ requests[c] = "waiting" => Kind[c] = "subscribe" /\ reader[c] = "none"
        /\ Kind[c] = "stream" => requests[c] = "none" /\ answers[c] = <<>>
        /\ relay[c] = "event" <=> carried[c] # 0
Marked ==
    \A c \in Call : counts[c].sent + Len(inbox[c]) <= position + Len(Log) * breaks
WholeStreams == \A c \in Call : Whole(Delivered(c), c, marked, again)
UpToPosition ==
    \A c \in Call : Served(c) =>
        Until(Pipeline(c), c, marked, again, position)

StreamInv ==
    /\ StreamTypeOK /\ OneSession /\ HandsWanted /\ Order /\ Marked
    /\ WholeStreams /\ UpToPosition

LEMMA LogLength == Len(Log) \in Nat
BY LogAssumption

LEMMA Messages == Event \subseteq Nat /\ Message \subseteq Nat /\ 0 \in Message
BY LogLength DEF Event, Message, Control

LEMMA Grows ==
    ASSUME NEW n \in Nat, NEW b \in Nat
    PROVE  /\ n * b \in Nat /\ n * (b + 1) = n * b + n
OBVIOUS

-----------------------------------------------------------------------------
(* What the steps do to a sequence of messages.                             *)

LEMMA Moved ==
    ASSUME NEW S, NEW s \in Seq(S), NEW t \in Seq(S), t # <<>>
    PROVE  Append(s, Head(t)) \o Tail(t) = s \o t
<1>1. /\ Head(t) = t[1] /\ Head(t) \in S /\ Tail(t) \in Seq(S)
      /\ Len(Tail(t)) = Len(t) - 1
      /\ \A i \in 1 .. Len(Tail(t)) : Tail(t)[i] = t[i + 1]
      /\ Len(t) \in Nat \ {0} /\ Len(s) \in Nat
  BY HeadTailProperties, EmptySeq
<1> DEFINE a == Append(s, Head(t))
           l == Tail(t)
<1>2. /\ a \in Seq(S) /\ Len(a) = Len(s) + 1 /\ a[Len(s) + 1] = t[1]
      /\ \A i \in 1 .. Len(s) : a[i] = s[i]
  BY <1>1, AppendProperties
<1>3. l \in Seq(S) /\ Len(l) = Len(t) - 1 /\ \A i \in 1 .. Len(l) : l[i] = t[i + 1]
  BY <1>1
<1> HIDE DEF a, l
<1>4. /\ a \o l \in Seq(S) /\ Len(a \o l) = Len(a) + Len(l)
      /\ \A i \in 1 .. Len(a) + Len(l) :
            (a \o l)[i] = IF i <= Len(a) THEN a[i] ELSE l[i - Len(a)]
  BY <1>2, <1>3, ConcatProperties
<1>5. /\ s \o t \in Seq(S) /\ Len(s \o t) = Len(s) + Len(t)
      /\ \A i \in 1 .. Len(s) + Len(t) :
            (s \o t)[i] = IF i <= Len(s) THEN s[i] ELSE t[i - Len(s)]
  BY ConcatProperties
<1>6. ASSUME NEW i \in 1 .. Len(a \o l)
      PROVE  (a \o l)[i] = (s \o t)[i]
  <2>1. i \in 1 .. Len(a) + Len(l) /\ i \in 1 .. Len(s) + Len(t)
    BY <1>1, <1>2, <1>3, <1>4
  <2>2. CASE i <= Len(s)
    BY <2>1, <2>2, <1>1, <1>2, <1>4, <1>5
  <2>3. CASE i = Len(s) + 1
    BY <2>1, <2>3, <1>1, <1>2, <1>4, <1>5
  <2>4. CASE i > Len(s) + 1
    <3>1. (a \o l)[i] = l[i - Len(a)] /\ i - Len(a) \in 1 .. Len(l)
      BY <2>1, <2>4, <1>1, <1>2, <1>3, <1>4
    <3>2. l[i - Len(a)] = t[(i - Len(a)) + 1]
      BY <3>1, <1>3
    <3>3. (i - Len(a)) + 1 = i - Len(s) /\ (s \o t)[i] = t[i - Len(s)]
      BY <2>1, <2>4, <1>1, <1>2, <1>5
    <3> QED
      BY <3>1, <3>2, <3>3
  <2> QED
    BY <2>1, <2>2, <2>3, <2>4, <1>1
<1>7. Len(a \o l) = Len(s \o t)
  BY <1>1, <1>2, <1>3, <1>4, <1>5
<1>8. a \o l = s \o t
  BY <1>4, <1>5, <1>6, <1>7, SeqEqual
<1> QED
  BY <1>8 DEF a, l

LEMMA PipelineIs ==
    ASSUME NEW p \in Seq(Message)
    PROVE  /\ DOMAIN p = 1 .. Len(p) /\ Len(p) \in Nat
           /\ \A i \in DOMAIN p : p[i] \in Nat /\ (p[i] # Control => p[i] \in Event)
<1>1. DOMAIN p = 1 .. Len(p) /\ Len(p) \in Nat
  BY LenProperties
<1>2. ASSUME NEW i \in DOMAIN p
      PROVE  p[i] \in Nat /\ (p[i] # Control => p[i] \in Event)
  <2>1. p[i] \in Message
    BY <1>1, ElementOfSeq
  <2> QED
    BY <2>1, Messages DEF Message
<1> QED
  BY <1>1, <1>2

(* Marks and events given again only become more.                           *)
LEMMA MoreMarks ==
    ASSUME NEW p \in Seq(Message), NEW c, NEW m, NEW g, NEW n, NEW h,
           g \subseteq h, \A e \in Event : m[e] \subseteq n[e]
    PROVE  /\ Whole(p, c, m, g) => Whole(p, c, n, h)
           /\ \A pos \in 0 .. Len(Log) :
                 Until(p, c, m, g, pos) => Until(p, c, n, h, pos)
<1>1. ASSUME NEW e \in Event, m[e] \ {c} # {}
      PROVE  n[e] \ {c} # {}
  BY <1>1
<1>2. ASSUME Whole(p, c, m, g)
      PROVE  Whole(p, c, n, h)
  <2> SUFFICES ASSUME NEW i \in DOMAIN p, NEW j \in DOMAIN p,
                      i < j, p[i] # Control, p[j] # Control
               PROVE  /\ p[j] .. p[i] \subseteq h
                      /\ \A e \in p[i] .. p[j] : Log[e] = SymbolOf[c] =>
                            (\E k \in 1 .. j : p[k] = e) \/ n[e] \ {c} # {}
    BY DEF Whole
  <2>1. /\ p[j] .. p[i] \subseteq g
        /\ \A e \in p[i] .. p[j] : Log[e] = SymbolOf[c] =>
              (\E k \in 1 .. j : p[k] = e) \/ m[e] \ {c} # {}
    BY <1>2 DEF Whole
  <2>2. p[i] \in Event /\ p[j] \in Event
    BY PipelineIs
  <2>3. p[i] .. p[j] \subseteq Event
    BY <2>2, LogLength DEF Event
  <2> QED
    BY <1>1, <2>1, <2>3
<1>3. ASSUME NEW pos \in 0 .. Len(Log), Until(p, c, m, g, pos)
      PROVE  Until(p, c, n, h, pos)
  <2> SUFFICES ASSUME NEW i \in DOMAIN p, p[i] # Control
               PROVE  /\ pos + 1 .. p[i] \subseteq h
                      /\ \A e \in p[i] .. pos : Log[e] = SymbolOf[c] =>
                            (\E k \in DOMAIN p : p[k] = e) \/ n[e] \ {c} # {}
    BY DEF Until
  <2>1. /\ pos + 1 .. p[i] \subseteq g
        /\ \A e \in p[i] .. pos : Log[e] = SymbolOf[c] =>
              (\E k \in DOMAIN p : p[k] = e) \/ m[e] \ {c} # {}
    BY <1>3 DEF Until
  <2>2. p[i] \in Event
    BY PipelineIs
  <2>3. p[i] .. pos \subseteq Event
    BY <2>2, LogLength DEF Event
  <2> QED
    BY <1>1, <2>1, <2>3
<1> QED
  BY <1>2, <1>3

(* The position goes past an event that is not for the call, or that another
   call has marked; or back to one the group starts from again.              *)
LEMMA PassedOver ==
    ASSUME NEW p \in Seq(Message), NEW c, NEW m, NEW g, NEW pos \in Nat,
           Until(p, c, m, g, pos),
           Log[pos + 1] = SymbolOf[c] => m[pos + 1] \ {c} # {}
    PROVE  Until(p, c, m, g, pos + 1)
<1> SUFFICES ASSUME NEW i \in DOMAIN p, p[i] # Control
             PROVE  /\ (pos + 1) + 1 .. p[i] \subseteq g
                    /\ \A e \in p[i] .. pos + 1 : Log[e] = SymbolOf[c] =>
                          (\E k \in DOMAIN p : p[k] = e) \/ m[e] \ {c} # {}
  BY DEF Until
<1>1. /\ pos + 1 .. p[i] \subseteq g
      /\ \A e \in p[i] .. pos : Log[e] = SymbolOf[c] =>
            (\E k \in DOMAIN p : p[k] = e) \/ m[e] \ {c} # {}
  BY DEF Until
<1>2. p[i] \in Nat
  BY PipelineIs
<1>3. (pos + 1) + 1 .. p[i] \subseteq pos + 1 .. p[i]
  BY <1>2
<1>4. ASSUME NEW e \in p[i] .. pos + 1, e # pos + 1
      PROVE  e \in p[i] .. pos
  BY <1>2, <1>4
<1> QED
  BY <1>1, <1>3, <1>4

LEMMA SetBack ==
    ASSUME NEW p \in Seq(Message), NEW c, NEW m, NEW g, NEW pos \in Nat,
           NEW from \in 0 .. pos, Until(p, c, m, g, pos)
    PROVE  Until(p, c, m, g \cup (from + 1 .. pos), from)
<1> DEFINE h == g \cup (from + 1 .. pos)
<1> SUFFICES ASSUME NEW i \in DOMAIN p, p[i] # Control
             PROVE  /\ from + 1 .. p[i] \subseteq h
                    /\ \A e \in p[i] .. from : Log[e] = SymbolOf[c] =>
                          (\E k \in DOMAIN p : p[k] = e) \/ m[e] \ {c} # {}
  BY DEF Until
<1>1. /\ pos + 1 .. p[i] \subseteq g
      /\ \A e \in p[i] .. pos : Log[e] = SymbolOf[c] =>
            (\E k \in DOMAIN p : p[k] = e) \/ m[e] \ {c} # {}
  BY DEF Until
<1>2. p[i] \in Nat
  BY PipelineIs
<1>3. from + 1 .. p[i] \subseteq (from + 1 .. pos) \cup (pos + 1 .. p[i])
  BY <1>2
<1>4. p[i] .. from \subseteq p[i] .. pos
  BY <1>2
<1> QED
  BY <1>1, <1>3, <1>4

(* The next event of the symbol, at the end.                                *)
LEMMA EventAppended ==
    ASSUME NEW p \in Seq(Message), NEW c, NEW m, NEW g, NEW pos \in Nat,
           pos + 1 \in Event, Whole(p, c, m, g), Until(p, c, m, g, pos)
    PROVE  /\ Whole(Append(p, pos + 1), c, m, g)
           /\ Until(Append(p, pos + 1), c, m, g, pos + 1)
<1> DEFINE q == Append(p, pos + 1)
           n == Len(p)
<1>1. /\ DOMAIN p = 1 .. n /\ DOMAIN q = 1 .. n + 1 /\ n \in Nat
      /\ q[n + 1] = pos + 1 /\ \A i \in 1 .. n : q[i] = p[i]
      /\ \A i \in 1 .. n : p[i] \in Nat
  <2>1. pos + 1 \in Message
    BY DEF Message
  <2>2. /\ q \in Seq(Message) /\ Len(q) = n + 1 /\ q[n + 1] = pos + 1
        /\ \A i \in 1 .. n : q[i] = p[i]
    BY <2>1, AppendProperties
  <2>3. DOMAIN q = 1 .. n + 1
    BY <2>2, LenProperties
  <2> QED
    BY <2>2, <2>3, PipelineIs
<1> HIDE DEF q, n
<1>2. ASSUME NEW i \in 1 .. n, q[i] # Control
      PROVE  /\ q[i] \in Nat
             /\ pos + 1 .. q[i] \subseteq g
             /\ \A e \in q[i] .. pos + 1 : Log[e] = SymbolOf[c] =>
                   (\E k \in 1 .. n + 1 : q[k] = e) \/ m[e] \ {c} # {}
  <2>1. q[i] = p[i] /\ i \in DOMAIN p /\ q[i] \in Nat
    BY <1>1
  <2>2. /\ pos + 1 .. p[i] \subseteq g
        /\ \A e \in p[i] .. pos : Log[e] = SymbolOf[c] =>
              (\E k \in DOMAIN p : p[k] = e) \/ m[e] \ {c} # {}
    BY <1>2, <2>1 DEF Until
  <2>3. ASSUME NEW e \in q[i] .. pos + 1, Log[e] = SymbolOf[c]
        PROVE  (\E k \in 1 .. n + 1 : q[k] = e) \/ m[e] \ {c} # {}
    <3>1. CASE e = pos + 1
      <4>1. n + 1 \in 1 .. n + 1
        BY <1>1
      <4> QED
        BY <3>1, <4>1, <1>1
    <3>2. CASE e # pos + 1
      <4>1. e \in p[i] .. pos
        BY <2>1, <3>2
      <4>2. CASE \E k \in DOMAIN p : p[k] = e
        <5>1. PICK k \in DOMAIN p : p[k] = e
          BY <4>2
        <5>2. k \in 1 .. n + 1 /\ q[k] = e
          BY <5>1, <1>1
        <5> QED
          BY <5>2
      <4> QED
        BY <2>2, <2>3, <4>1, <4>2
    <3> QED
      BY <3>1, <3>2
  <2> QED
    BY <2>1, <2>2, <2>3
<1>3. Until(q, c, m, g, pos + 1)
  <2> SUFFICES ASSUME NEW i \in DOMAIN q, q[i] # Control
               PROVE  /\ (pos + 1) + 1 .. q[i] \subseteq g
                      /\ \A e \in q[i] .. pos + 1 : Log[e] = SymbolOf[c] =>
                            (\E k \in DOMAIN q : q[k] = e) \/ m[e] \ {c} # {}
    BY DEF Until
  <2>1. CASE i = n + 1
    <3>1. q[i] = pos + 1
      BY <1>1, <2>1
    <3>2. (pos + 1) + 1 .. q[i] = {} /\ q[i] .. pos + 1 = {pos + 1}
      BY <3>1
    <3> QED
      BY <3>1, <3>2
  <2>2. CASE i # n + 1
    <3>1. i \in 1 .. n
      BY <1>1, <2>2
    <3>2. (pos + 1) + 1 .. q[i] \subseteq pos + 1 .. q[i]
      BY <1>2, <3>1
    <3> QED
      BY <1>1, <1>2, <3>1, <3>2
  <2> QED
    BY <2>1, <2>2
<1>4. Whole(q, c, m, g)
  <2> SUFFICES ASSUME NEW i \in DOMAIN q, NEW j \in DOMAIN q,
                      i < j, q[i] # Control, q[j] # Control
               PROVE  /\ q[j] .. q[i] \subseteq g
                      /\ \A e \in q[i] .. q[j] : Log[e] = SymbolOf[c] =>
                            (\E k \in 1 .. j : q[k] = e) \/ m[e] \ {c} # {}
    BY DEF Whole
  <2>1. i \in 1 .. n
    BY <1>1
  <2>2. CASE j = n + 1
    <3>1. q[j] = pos + 1
      BY <1>1, <2>2
    <3> QED
      BY <1>2, <2>1, <2>2, <3>1
  <2>3. CASE j # n + 1
    <3>1. j \in 1 .. n
      BY <1>1, <2>3
    <3>2. /\ i \in DOMAIN p /\ j \in DOMAIN p
          /\ q[i] = p[i] /\ q[j] = p[j]
      BY <1>1, <2>1, <3>1
    <3>3. /\ p[j] .. p[i] \subseteq g
          /\ \A e \in p[i] .. p[j] : Log[e] = SymbolOf[c] =>
                (\E k \in 1 .. j : p[k] = e) \/ m[e] \ {c} # {}
      BY <3>2 DEF Whole
    <3>4. \A k \in 1 .. j : q[k] = p[k]
      BY <1>1, <3>1
    <3> QED
      BY <3>2, <3>3, <3>4
  <2> QED
    BY <2>2, <2>3
<1> QED
  BY <1>3, <1>4 DEF q

(* What the client has, when its method returns.                            *)
LEMMA WholePrefix ==
    ASSUME NEW p \in Seq(Message), NEW q \in Seq(Message),
           NEW c, NEW m, NEW g, Whole(p \o q, c, m, g)
    PROVE  Whole(p, c, m, g)
<1> DEFINE o == p \o q
<1>1. /\ Len(o) = Len(p) + Len(q) /\ o \in Seq(Message)
      /\ \A i \in 1 .. Len(p) + Len(q) :
            o[i] = IF i <= Len(p) THEN p[i] ELSE q[i - Len(p)]
  BY ConcatProperties
<1>2. /\ DOMAIN o = 1 .. Len(p) + Len(q) /\ DOMAIN p = 1 .. Len(p)
      /\ Len(p) \in Nat /\ Len(q) \in Nat
  BY <1>1, LenProperties
<1> HIDE DEF o
<1>3. \A i \in 1 .. Len(p) : i \in DOMAIN o /\ o[i] = p[i]
  BY <1>1, <1>2
<1> SUFFICES ASSUME NEW i \in DOMAIN p, NEW j \in DOMAIN p,
                    i < j, p[i] # Control, p[j] # Control
             PROVE  /\ p[j] .. p[i] \subseteq g
                    /\ \A e \in p[i] .. p[j] : Log[e] = SymbolOf[c] =>
                          (\E k \in 1 .. j : p[k] = e) \/ m[e] \ {c} # {}
  BY DEF Whole
<1>4. i \in DOMAIN o /\ j \in DOMAIN o /\ o[i] = p[i] /\ o[j] = p[j]
  BY <1>2, <1>3
<1>5. Whole(o, c, m, g)
  BY DEF o
<1>6. /\ o[j] .. o[i] \subseteq g
      /\ \A e \in o[i] .. o[j] : Log[e] = SymbolOf[c] =>
            (\E k \in 1 .. j : o[k] = e) \/ m[e] \ {c} # {}
  BY <1>4, <1>5 DEF Whole
<1>7. \A k \in 1 .. j : o[k] = p[k]
  BY <1>2, <1>3
<1> QED
  BY <1>4, <1>6, <1>7

(* A warning, anywhere.                                                     *)
LEMMA WarningBetween ==
    ASSUME NEW p \in Seq(Message), NEW q \in Seq(Message)
    PROVE  LET r == Append(p, Control) \o q IN
           /\ \A c, m, g : Whole(p \o q, c, m, g) => Whole(r, c, m, g)
           /\ \A c, m, g, pos : Until(p \o q, c, m, g, pos) => Until(r, c, m, g, pos)
<1> DEFINE a == Append(p, Control)
           r == a \o q
           o == p \o q
           n == Len(p)
           l == Len(q)
           Old(i) == IF i <= n THEN i ELSE i - 1
           New(i) == IF i <= n THEN i ELSE i + 1
<1>1. /\ a \in Seq(Message) /\ Len(a) = n + 1 /\ a[n + 1] = Control
      /\ \A i \in 1 .. n : a[i] = p[i]
  BY Messages, AppendProperties DEF Control
<1>2. n \in Nat /\ l \in Nat
  BY LenProperties
<1> HIDE DEF a, n, l
<1>3. /\ r \in Seq(Message) /\ Len(r) = Len(a) + l
      /\ \A i \in 1 .. Len(a) + l : r[i] = IF i <= Len(a) THEN a[i] ELSE q[i - Len(a)]
  BY <1>1, ConcatProperties DEF l
<1>4. /\ o \in Seq(Message) /\ Len(o) = n + l
      /\ \A i \in 1 .. n + l : o[i] = IF i <= n THEN p[i] ELSE q[i - n]
  BY ConcatProperties DEF n, l
<1> HIDE DEF r, o
<1>5. DOMAIN r = 1 .. n + l + 1 /\ DOMAIN o = 1 .. n + l
  <2>1. DOMAIN r = 1 .. Len(r) /\ DOMAIN o = 1 .. Len(o)
    BY <1>3, <1>4, LenProperties
  <2> QED
    BY <2>1, <1>1, <1>2, <1>3, <1>4
<1>6. ASSUME NEW i \in DOMAIN r, r[i] # Control
      PROVE  Old(i) \in DOMAIN o /\ r[i] = o[Old(i)] /\ i # n + 1
  <2>1. i # n + 1
    BY <1>1, <1>2, <1>3, <1>5, <1>6
  <2>2. CASE i <= n
    <3>1. i \in 1 .. n /\ i \in DOMAIN o /\ Old(i) = i
      BY <2>2, <1>2, <1>5
    <3>2. r[i] = p[i]
      BY <3>1, <1>1, <1>2, <1>3, <1>5
    <3>3. o[i] = p[i]
      BY <3>1, <1>4, <1>5
    <3> QED
      BY <2>1, <3>1, <3>2, <3>3
  <2>3. CASE i > n + 1
    <3>1. r[i] = q[i - Len(a)] /\ i - Len(a) = (i - 1) - n
      BY <2>3, <1>1, <1>2, <1>3, <1>5
    <3>2. i - 1 \in DOMAIN o /\ o[i - 1] = q[(i - 1) - n] /\ Old(i) = i - 1
      BY <2>3, <1>2, <1>4, <1>5
    <3> QED
      BY <2>1, <3>1, <3>2
  <2> QED
    BY <2>1, <2>2, <2>3, <1>2, <1>5
<1>7. ASSUME NEW i \in DOMAIN o
      PROVE  New(i) \in DOMAIN r /\ r[New(i)] = o[i]
  <2>1. CASE i <= n
    BY <2>1, <1>1, <1>2, <1>3, <1>4, <1>5
  <2>2. CASE i > n
    <3>1. i + 1 \in DOMAIN r /\ New(i) = i + 1
      BY <2>2, <1>2, <1>5
    <3>2. r[i + 1] = q[(i + 1) - Len(a)] /\ (i + 1) - Len(a) = i - n
      <4>1. i + 1 \in Nat /\ i + 1 <= n + l + 1 /\ i + 1 > n + 1
        BY <2>2, <3>1, <1>2, <1>5
      <4>2. r[i + 1] = q[(i + 1) - Len(a)]
        BY <4>1, <1>1, <1>2, <1>3
      <4> QED
        BY <4>2, <1>1, <1>2, <1>5
    <3>3. o[i] = q[i - n]
      BY <2>2, <1>2, <1>4, <1>5
    <3> QED
      BY <3>1, <3>2, <3>3
  <2> QED
    BY <2>1, <2>2, <1>2, <1>5
<1>8. ASSUME NEW c, NEW m, NEW g, Whole(o, c, m, g)
      PROVE  Whole(r, c, m, g)
  <2> SUFFICES ASSUME NEW i \in DOMAIN r, NEW j \in DOMAIN r,
                      i < j, r[i] # Control, r[j] # Control
               PROVE  /\ r[j] .. r[i] \subseteq g
                      /\ \A e \in r[i] .. r[j] : Log[e] = SymbolOf[c] =>
                            (\E k \in 1 .. j : r[k] = e) \/ m[e] \ {c} # {}
    BY DEF Whole
  <2>1. /\ Old(i) \in DOMAIN o /\ r[i] = o[Old(i)] /\ i # n + 1
        /\ Old(j) \in DOMAIN o /\ r[j] = o[Old(j)] /\ j # n + 1
    BY <1>6
  <2>2. Old(i) < Old(j)
    BY <2>1, <1>2, <1>5
  <2>3. ASSUME NEW k \in 1 .. Old(j)
        PROVE  k \in DOMAIN o /\ New(k) \in 1 .. j
    BY <2>1, <1>2, <1>5
  <2> HIDE DEF Old
  <2>4. /\ r[j] .. r[i] \subseteq g
        /\ \A e \in r[i] .. r[j] : Log[e] = SymbolOf[c] =>
              (\E k \in 1 .. Old(j) : o[k] = e) \/ m[e] \ {c} # {}
    BY <2>1, <2>2, <1>8 DEF Whole
  <2>5. ASSUME NEW e, NEW k \in 1 .. Old(j), o[k] = e
        PROVE  \E x \in 1 .. j : r[x] = e
    BY <2>3, <2>5, <1>7
  <2> QED
    BY <2>4, <2>5
<1>9. ASSUME NEW c, NEW m, NEW g, NEW pos, Until(o, c, m, g, pos)
      PROVE  Until(r, c, m, g, pos)
  <2> SUFFICES ASSUME NEW i \in DOMAIN r, r[i] # Control
               PROVE  /\ pos + 1 .. r[i] \subseteq g
                      /\ \A e \in r[i] .. pos : Log[e] = SymbolOf[c] =>
                            (\E k \in DOMAIN r : r[k] = e) \/ m[e] \ {c} # {}
    BY DEF Until
  <2>1. Old(i) \in DOMAIN o /\ r[i] = o[Old(i)]
    BY <1>6
  <2> HIDE DEF Old
  <2>2. /\ pos + 1 .. r[i] \subseteq g
        /\ \A e \in r[i] .. pos : Log[e] = SymbolOf[c] =>
              (\E k \in DOMAIN o : o[k] = e) \/ m[e] \ {c} # {}
    BY <2>1, <1>9 DEF Until
  <2>3. ASSUME NEW e, NEW k \in DOMAIN o, o[k] = e
        PROVE  \E x \in DOMAIN r : r[x] = e
    BY <2>3, <1>7
  <2> QED
    BY <2>2, <2>3
<1> QED
  BY <1>8, <1>9 DEF r, o, a

-----------------------------------------------------------------------------
(* What the steps do to the pipeline of a call.                             *)

LEMMA PipelineParts ==
    ASSUME StreamTypeOK, NEW c \in Call
    PROVE  /\ got[c] \in Seq(Message) /\ answers[c] \in Seq(Message)
           /\ InRelay(c) \in Seq(Message) /\ inbox[c] \in Seq(Event)
           /\ inbox[c] \in Seq(Message) /\ Pipeline(c) \in Seq(Message)
<1>1. /\ got[c] \in Seq(Message) /\ answers[c] \in Seq(Message)
      /\ inbox[c] \in Seq(Event) /\ carried[c] \in Message
  BY DEF StreamTypeOK
<1>2. inbox[c] \in Seq(Message)
  BY <1>1, SeqMonotonic DEF Message
<1>3. InRelay(c) \in Seq(Message)
  BY <1>1 DEF InRelay
<1>4. got[c] \o answers[c] \in Seq(Message) /\ InRelay(c) \o inbox[c] \in Seq(Message)
  BY <1>1, <1>2, <1>3, ConcatProperties
<1>5. Pipeline(c) \in Seq(Message)
  BY <1>4, ConcatProperties DEF Pipeline
<1> QED
  BY <1>1, <1>2, <1>3, <1>5

StreamStep(c) == CallProgress(c) \/ ClientActs(c) \/ KafkaActs(c)

\* The steps in which a reader changes its state or moves the position.
ReaderStep(c) ==
    \/ StreamCandles(c) \/ Subscribe(c) \/ SessionBegins(c) \/ SessionRefused(c)
    \/ Skip(c) \/ Take(c) \/ Hand(c) \/ SessionEnds(c) \/ SessionBreaks(c)
    \/ SessionFails(c) \/ PauseEnds(c)

LEMMA ReaderStays ==
    ASSUME NEW c \in Call, StreamStep(c), ~ReaderStep(c)
    PROVE  reader' = reader /\ UNCHANGED group
BY DEF StreamStep, CallProgress, ClientActs, KafkaActs, ReaderStep, RequestsEnd,
       CancelStream, RelayTakes, RelaySends, RelayLooks, RelayWarns, RelayPanics,
       RelayEnds, SendEvent, SendAnswer, SendLost, Return, SubscribeCandles,
       Acknowledge, Leave

\* The steps that move something along a pipeline, into it or out of it.
PipelineStep(c) ==
    \/ Hand(c) \/ RelayTakes(c) \/ RelaySends(c) \/ RelayWarns(c)
    \/ SendEvent(c) \/ SendAnswer(c) \/ SendLost(c)

LEMMA PipelineStays ==
    ASSUME NEW c \in Call, StreamStep(c), ~PipelineStep(c)
    PROVE  /\ got' = got /\ answers' = answers /\ carried' = carried
           /\ inbox' = inbox
BY DEF StreamStep, CallProgress, ClientActs, KafkaActs, PipelineStep, RequestsEnd,
       CancelStream, RelayLooks, RelayPanics, RelayEnds, Return, StreamCandles,
       SubscribeCandles, Subscribe, Acknowledge, Leave, SessionBegins,
       SessionRefused, Skip, Take, SessionEnds, SessionBreaks, SessionFails,
       PauseEnds, Release

\* What a step does to the group: nothing, an event is marked, a session ends
\* or the group is joined in vain.
MarksNext(c) == Skip(c) \/ Hand(c)

LEMMA GroupMoves ==
    ASSUME StreamTypeOK, HandsWanted, NEW c \in Call, StreamStep(c)
    PROVE  \/ UNCHANGED group
           \/ /\ MarksNext(c) /\ MarkMessage(c) /\ Next1 \in Event
              /\ position' = position + 1
           \/ /\ \E from \in committed .. position : Release(c, from)
              /\ breaks' \in {breaks, breaks + 1} /\ breaks' <= MaxBreaks
              /\ position' = position \/ breaks' = breaks + 1
           \/ /\ UNCHANGED <<position, committed, marked, again>>
              /\ breaks' = breaks + 1 /\ breaks' <= MaxBreaks
<1>1. breaks \in Nat /\ breaks <= MaxBreaks /\ MaxBreaks \in Nat /\ position \in Nat
  BY BreaksAssumption, LogLength DEF StreamTypeOK
<1>2. CASE ~ReaderStep(c)
  BY <1>2, ReaderStays
<1>3. CASE \/ StreamCandles(c) \/ Subscribe(c) \/ SessionBegins(c)
           \/ SessionRefused(c) \/ Take(c) \/ PauseEnds(c)
  BY <1>3 DEF StreamCandles, Subscribe, SessionBegins, SessionRefused, Take, PauseEnds
<1>4. CASE Skip(c) \/ Hand(c)
  <2>1. position < Len(Log) /\ MarkMessage(c) /\ position' = position + 1
    BY <1>4 DEF Skip, Hand, HandsWanted, MarkMessage, Next1
  <2>2. Next1 \in Event
    BY <1>1, <2>1, LogLength DEF Next1, Event
  <2> QED
    BY <1>4, <2>1, <2>2 DEF MarksNext
<1>5. CASE SessionEnds(c)
  <2>1. PICK from \in committed .. position :
           /\ Release(c, from)
           /\ breaks' = IF from < position THEN breaks + 1 ELSE breaks
           /\ breaks' <= MaxBreaks
    BY <1>5 DEF SessionEnds
  <2>2. position' = from /\ (from < position \/ from = position)
    BY <1>1, <2>1 DEF Release, StreamTypeOK
  <2> QED
    BY <2>1, <2>2
<1>6. CASE SessionBreaks(c)
  BY <1>1, <1>6 DEF SessionBreaks
<1>7. CASE SessionFails(c)
  BY <1>1, <1>7 DEF SessionFails
<1> QED
  BY <1>2, <1>3, <1>4, <1>5, <1>6, <1>7 DEF ReaderStep

LEMMA GroupTypesKept ==
    ASSUME StreamTypeOK, HandsWanted, NEW c \in Call, StreamStep(c)
    PROVE  /\ position' \in 0 .. Len(Log) /\ committed' \in 0 .. position'
           /\ marked' \in [Event -> SUBSET Call] /\ again' \subseteq Event
           /\ breaks' \in 0 .. MaxBreaks /\ breaks <= breaks'
<1> USE LogLength, BreaksAssumption
<1>1. /\ position \in 0 .. Len(Log) /\ committed \in 0 .. position
      /\ marked \in [Event -> SUBSET Call] /\ again \subseteq Event
      /\ breaks \in 0 .. MaxBreaks
  BY DEF StreamTypeOK
<1>2. CASE UNCHANGED group
  BY <1>1, <1>2 DEF group
<1>3. CASE MarkMessage(c) /\ Next1 \in Event /\ position' = position + 1
  <2>1. /\ position' \in 0 .. Len(Log) /\ committed' \in 0 .. position'
        /\ again' = again /\ breaks' = breaks
    BY <1>1, <1>3 DEF MarkMessage, Next1, Event
  <2>2. marked' \in [Event -> SUBSET Call]
    BY <1>1, <1>3 DEF MarkMessage
  <2> QED
    BY <1>1, <2>1, <2>2
<1>4. ASSUME NEW from \in committed .. position, Release(c, from)
      PROVE  /\ position' \in 0 .. Len(Log) /\ committed' \in 0 .. position'
             /\ marked' \in [Event -> SUBSET Call] /\ again' \subseteq Event
  <2>1. from \in 0 .. Len(Log) /\ from + 1 .. position \subseteq Event
    BY <1>1 DEF Event
  <2> QED
    BY <1>1, <1>4, <2>1 DEF Release
<1>5. ASSUME breaks' \in {breaks, breaks + 1}, breaks' <= MaxBreaks
      PROVE  breaks' \in 0 .. MaxBreaks /\ breaks <= breaks'
  BY <1>1, <1>5
<1>6. ASSUME \/ \E from \in committed .. position : Release(c, from)
             \/ UNCHANGED <<position, committed, marked, again>>
      PROVE  /\ position' \in 0 .. Len(Log) /\ committed' \in 0 .. position'
             /\ marked' \in [Event -> SUBSET Call] /\ again' \subseteq Event
  <2>1. CASE \E from \in committed .. position : Release(c, from)
    BY <1>4, <2>1
  <2>2. CASE UNCHANGED <<position, committed, marked, again>>
    BY <1>1, <2>2
  <2> QED
    BY <1>6, <2>1, <2>2
<1>7. \/ UNCHANGED group
      \/ MarkMessage(c) /\ Next1 \in Event /\ position' = position + 1
      \/ /\ \/ \E from \in committed .. position : Release(c, from)
            \/ UNCHANGED <<position, committed, marked, again>>
         /\ breaks' \in {breaks, breaks + 1} /\ breaks' <= MaxBreaks
  BY GroupMoves
<1> QED
  <2>1. CASE UNCHANGED group
    BY <1>2, <2>1
  <2>2. CASE MarkMessage(c) /\ Next1 \in Event /\ position' = position + 1
    BY <1>3, <2>2
  <2>3. CASE /\ \/ \E from \in committed .. position : Release(c, from)
                \/ UNCHANGED <<position, committed, marked, again>>
             /\ breaks' \in {breaks, breaks + 1} /\ breaks' <= MaxBreaks
    BY <1>5, <1>6, <2>3
  <2> QED
    BY <1>7, <2>1, <2>2, <2>3

(* Every variable keeps its type: the goroutines have their states, the     *)
(* channels their messages and their capacity, the counts their bound.      *)
LEMMA StatesKept ==
    ASSUME StreamTypeOK, NEW c \in Call, StreamStep(c)
    PROVE  /\ rpc' \in [Call -> {"none", "open", "returned"}]
           /\ gone' \in [Call -> BOOLEAN] /\ crashed' \in BOOLEAN
           /\ requests' \in [Call -> {"none", "waiting", "started", "closed",
                                     "ended"}]
           /\ reader' \in [Call -> {"none", "waiting", "session", "handing",
                                   "pausing", "ended"}]
           /\ relay' \in [Call -> {"none", "idle", "event", "sent", "warning",
                                  "ended"}]
<1> USE DEF StreamTypeOK, Set
<1>1. CASE StreamCandles(c)
  BY <1>1 DEF StreamCandles
<1>2. CASE SubscribeCandles(c)
  BY <1>2 DEF SubscribeCandles
<1>3. CASE Subscribe(c)
  BY <1>3 DEF Subscribe
<1>4. CASE Acknowledge(c)
  BY <1>4 DEF Acknowledge
<1>5. CASE Leave(c)
  BY <1>5 DEF Leave
<1>6. CASE RequestsEnd(c)
  BY <1>6 DEF RequestsEnd
<1>7. CASE CancelStream(c)
  BY <1>7 DEF CancelStream
<1>8. CASE SessionBegins(c)
  BY <1>8 DEF SessionBegins
<1>9. CASE SessionRefused(c)
  BY <1>9 DEF SessionRefused
<1>10. CASE Skip(c)
  BY <1>10 DEF Skip
<1>11. CASE Take(c)
  BY <1>11 DEF Take
<1>12. CASE Hand(c)
  BY <1>12 DEF Hand
<1>13. CASE SessionEnds(c)
  BY <1>13 DEF SessionEnds, Release
<1>14. CASE SessionBreaks(c)
  BY <1>14 DEF SessionBreaks, Release
<1>15. CASE SessionFails(c)
  BY <1>15 DEF SessionFails
<1>16. CASE PauseEnds(c)
  BY <1>16 DEF PauseEnds
<1>17. CASE RelayTakes(c)
  BY <1>17 DEF RelayTakes
<1>18. CASE RelaySends(c)
  BY <1>18 DEF RelaySends
<1>19. CASE RelayLooks(c)
  BY <1>19 DEF RelayLooks
<1>20. CASE RelayWarns(c)
  BY <1>20 DEF RelayWarns
<1>21. CASE RelayPanics(c)
  BY <1>21 DEF RelayPanics
<1>22. CASE RelayEnds(c)
  BY <1>22 DEF RelayEnds
<1>23. CASE SendEvent(c)
  BY <1>23 DEF SendEvent
<1>24. CASE SendAnswer(c)
  BY <1>24 DEF SendAnswer
<1>25. CASE SendLost(c)
  BY <1>25 DEF SendLost
<1>26. CASE Return(c)
  BY <1>26 DEF Return
<1> QED
  BY <1>1, <1>2, <1>3, <1>4, <1>5, <1>6, <1>7, <1>8, <1>9, <1>10, <1>11, <1>12,
     <1>13, <1>14, <1>15, <1>16, <1>17, <1>18, <1>19, <1>20, <1>21, <1>22,
     <1>23, <1>24, <1>25, <1>26
     DEF StreamStep, CallProgress, ClientActs, KafkaActs

LEMMA ChannelsKept ==
    ASSUME StreamTypeOK, HandsWanted, NEW c \in Call, StreamStep(c)
    PROVE  /\ inbox' \in [Call -> Seq(Event)] /\ carried' \in [Call -> Message]
           /\ answers' \in [Call -> Seq(Message)] /\ got' \in [Call -> Seq(Message)]
           /\ \A d \in Call : Len(inbox'[d]) <= Capacity /\ Len(answers'[d]) <= Capacity
<1> USE LogLength, CapacityAssumption DEF Set
<1>1. CASE ~PipelineStep(c)
  BY <1>1, PipelineStays DEF StreamTypeOK
<1>2. ASSUME NEW e \in Message, Len(answers[c]) < Capacity,
             answers' = [answers EXCEPT ![c] = Append(@, e)]
      PROVE  /\ answers' \in [Call -> Seq(Message)]
             /\ \A d \in Call : Len(answers'[d]) <= Capacity
  <2>1. /\ Append(answers[c], e) \in Seq(Message)
        /\ Len(Append(answers[c], e)) = Len(answers[c]) + 1
        /\ Len(answers[c]) \in Nat
    BY PipelineParts, AppendProperties, LenProperties
  <2>2. Len(answers[c]) + 1 <= Capacity
    BY <1>2, <2>1
  <2> QED
    BY <1>2, <2>1, <2>2 DEF StreamTypeOK
<1>3. ASSUME NEW e \in Message, got' = [got EXCEPT ![c] = Append(@, e)]
      PROVE  got' \in [Call -> Seq(Message)]
  <2>1. Append(got[c], e) \in Seq(Message)
    BY PipelineParts, AppendProperties
  <2> QED
    BY <1>3, <2>1 DEF StreamTypeOK
<1>4. ASSUME inbox[c] # <<>>, inbox' = [inbox EXCEPT ![c] = Tail(inbox[c])]
      PROVE  /\ inbox' \in [Call -> Seq(Event)] /\ Head(inbox[c]) \in Event
             /\ \A d \in Call : Len(inbox'[d]) <= Capacity
  <2>1. /\ Head(inbox[c]) \in Event /\ Tail(inbox[c]) \in Seq(Event)
        /\ Len(Tail(inbox[c])) = Len(inbox[c]) - 1 /\ Len(inbox[c]) \in Nat \ {0}
    BY <1>4, PipelineParts, HeadTailProperties, EmptySeq
  <2>2. inbox \in [Call -> Seq(Event)] /\ \A d \in Call : Len(inbox[d]) <= Capacity
    BY DEF StreamTypeOK
  <2>3. \A d \in Call : inbox'[d] \in {inbox[d], Tail(inbox[c])}
    BY <1>4, <2>2
  <2>4. Len(Tail(inbox[c])) <= Capacity
    BY <2>1, <2>2
  <2> QED
    BY <1>4, <2>1, <2>2, <2>3, <2>4
<1>5. ASSUME answers[c] # <<>>, answers' = [answers EXCEPT ![c] = Tail(answers[c])]
      PROVE  /\ answers' \in [Call -> Seq(Message)] /\ Head(answers[c]) \in Message
             /\ \A d \in Call : Len(answers'[d]) <= Capacity
  <2>1. /\ Head(answers[c]) \in Message /\ Tail(answers[c]) \in Seq(Message)
        /\ Len(Tail(answers[c])) = Len(answers[c]) - 1
        /\ Len(answers[c]) \in Nat \ {0}
    BY <1>5, PipelineParts, HeadTailProperties, EmptySeq
  <2>2. /\ answers \in [Call -> Seq(Message)]
        /\ \A d \in Call : Len(answers[d]) <= Capacity
    BY DEF StreamTypeOK
  <2>3. \A d \in Call : answers'[d] \in {answers[d], Tail(answers[c])}
    BY <1>5, <2>2
  <2>4. Len(Tail(answers[c])) <= Capacity
    BY <2>1, <2>2
  <2> QED
    BY <1>5, <2>1, <2>2, <2>3, <2>4
<1>6. CASE Hand(c)
  <2>1. Next1 \in Event
    BY <1>6 DEF Hand, HandsWanted, StreamTypeOK, Event, Next1
  <2>2. /\ Append(inbox[c], Next1) \in Seq(Event)
        /\ Len(Append(inbox[c], Next1)) = Len(inbox[c]) + 1
    BY <2>1, PipelineParts, AppendProperties
  <2>3. Len(inbox[c]) + 1 <= Capacity
    BY <1>6, PipelineParts, LenProperties DEF Hand
  <2> QED
    BY <1>6, <2>2, <2>3 DEF Hand, StreamTypeOK
<1>7. CASE RelayTakes(c)
  <2>1. Head(inbox[c]) \in Message
    BY <1>4, <1>7 DEF RelayTakes, Message
  <2>2. carried' \in [Call -> Message]
    BY <1>7, <2>1 DEF RelayTakes, StreamTypeOK
  <2> QED
    BY <1>4, <1>7, <2>2 DEF RelayTakes, StreamTypeOK
<1>8. CASE RelaySends(c)
  <2>1. carried[c] \in Message
    BY DEF StreamTypeOK
  <2>2. carried' \in [Call -> Message]
    BY <1>8, Messages DEF RelaySends, StreamTypeOK
  <2> QED
    BY <1>2, <1>8, <2>1, <2>2 DEF RelaySends, StreamTypeOK
<1>9. CASE RelayWarns(c)
  BY <1>2, <1>9, Messages DEF RelayWarns, Control, StreamTypeOK
<1>10. CASE SendEvent(c)
  <2>1. Head(inbox[c]) \in Message
    BY <1>4, <1>10 DEF SendEvent, Message
  <2> QED
    BY <1>3, <1>4, <1>10, <2>1 DEF SendEvent, StreamTypeOK
<1>11. CASE SendAnswer(c)
  BY <1>3, <1>5, <1>11 DEF SendAnswer, StreamTypeOK
<1>12. CASE SendLost(c)
  BY <1>4, <1>5, <1>12 DEF SendLost, StreamTypeOK
<1> QED
  BY <1>1, <1>6, <1>7, <1>8, <1>9, <1>10, <1>11, <1>12 DEF PipelineStep

LEMMA CountsKept ==
    ASSUME StreamTypeOK, HandsWanted, Marked, NEW c \in Call, StreamStep(c)
    PROVE  counts' \in [Call -> [sent : 0 .. Len(Log) * (breaks' + 1), acked : Nat]]
<1> DEFINE most == Len(Log) * (breaks + 1)
           mostNow == Len(Log) * (breaks' + 1)
<1>1. most \in Nat /\ mostNow \in Nat /\ most <= mostNow
  <2>1. breaks \in Nat /\ breaks' \in Nat /\ breaks <= breaks'
    BY GroupTypesKept, BreaksAssumption DEF StreamTypeOK
  <2>2. ASSUME NEW n \in Nat, NEW a \in Nat, NEW b \in Nat, a <= b
        PROVE  n * (a + 1) \in Nat /\ n * (b + 1) \in Nat /\ n * (a + 1) <= n * (b + 1)
    <3>1. /\ b - a \in Nat /\ n * (b - a) \in Nat /\ n * (a + 1) \in Nat
          /\ n * (b + 1) = n * (a + 1) + n * (b - a)
      BY <2>2
    <3> QED
      BY <3>1
  <2> QED
    BY <2>1, <2>2, LogLength
<1>2. counts \in [Call -> [sent : 0 .. most, acked : Nat]]
  BY DEF StreamTypeOK
<1> HIDE DEF most, mostNow
<1>3. counts \in [Call -> [sent : 0 .. mostNow, acked : Nat]]
  BY <1>1, <1>2
<1>4. counts[c] \in [sent : 0 .. mostNow, acked : Nat]
  BY <1>3
<1>5. CASE Acknowledge(c)
  <2>1. [counts[c] EXCEPT !.acked = @ + 1] \in [sent : 0 .. mostNow, acked : Nat]
    BY <1>4
  <2>2. counts' = [counts EXCEPT ![c] = [counts[c] EXCEPT !.acked = @ + 1]]
    BY <1>5 DEF Acknowledge
  <2> QED
    BY <1>3, <2>1, <2>2 DEF mostNow
<1>6. CASE RelayTakes(c)
  <2>1. breaks' = breaks
    BY <1>6 DEF RelayTakes, group
  <2>2. /\ counts[c].sent + Len(inbox[c]) <= position + Len(Log) * breaks
        /\ Len(Log) * breaks \in Nat /\ position <= Len(Log) /\ position \in Nat
        /\ mostNow = Len(Log) * breaks + Len(Log)
    <3>1. breaks \in Nat
      BY BreaksAssumption DEF StreamTypeOK
    <3>2. counts[c].sent + Len(inbox[c]) <= position + Len(Log) * breaks
      BY DEF Marked
    <3>3. position <= Len(Log) /\ position \in Nat
      BY LogLength DEF StreamTypeOK
    <3>4. /\ Len(Log) * breaks \in Nat
          /\ Len(Log) * (breaks + 1) = Len(Log) * breaks + Len(Log)
      BY <3>1, LogLength, Grows
    <3> QED
      BY <2>1, <3>2, <3>3, <3>4 DEF mostNow
  <2>3. Len(inbox[c]) \in Nat \ {0}
    BY <1>6, PipelineParts, LenProperties, EmptySeq DEF RelayTakes
  <2>4. counts[c].sent + 1 \in 0 .. mostNow
    <3>1. counts[c].sent \in Nat
      BY <1>1, <1>4
    <3> QED
      BY <2>2, <2>3, <3>1, LogLength
  <2>5. [counts[c] EXCEPT !.sent = @ + 1] \in [sent : 0 .. mostNow, acked : Nat]
    BY <1>4, <2>4
  <2>6. counts' = [counts EXCEPT ![c] = [counts[c] EXCEPT !.sent = @ + 1]]
    BY <1>6 DEF RelayTakes
  <2> QED
    BY <1>3, <2>5, <2>6 DEF mostNow
<1>7. CASE ~(Acknowledge(c) \/ RelayTakes(c))
  <2>1. counts' = counts
    BY <1>7 DEF StreamStep, CallProgress, ClientActs, KafkaActs,
       StreamCandles, SubscribeCandles, Subscribe, Leave, RequestsEnd,
       CancelStream, SessionBegins, SessionRefused, Skip, Take, Hand,
       SessionEnds, SessionBreaks, SessionFails, PauseEnds, RelaySends,
       RelayLooks, RelayWarns, RelayPanics, RelayEnds, SendEvent, SendAnswer,
       SendLost, Return, Release
  <2> QED
    BY <1>3, <2>1 DEF mostNow
<1> QED
  BY <1>5, <1>6, <1>7

LEMMA StreamTypesKept ==
    ASSUME StreamTypeOK, HandsWanted, Marked, NEW c \in Call, StreamStep(c)
    PROVE  StreamTypeOK'
BY StatesKept, ChannelsKept, CountsKept, GroupTypesKept DEF StreamTypeOK

(* Only a free group starts a session, and only a reader in one moves on.   *)
LEMMA SessionsKept ==
    ASSUME StreamTypeOK, OneSession, HandsWanted, NEW c \in Call, StreamStep(c)
    PROVE  OneSession' /\ HandsWanted'
<1> USE DEF Set, StreamTypeOK
<1>1. CASE ~ReaderStep(c)
  <2>1. reader' = reader /\ position' = position
    BY <1>1, ReaderStays DEF group
  <2> QED
    BY <2>1 DEF OneSession, HandsWanted, InSession, Wanted, Next1
<1>2. ASSUME NEW v \in {"waiting", "pausing", "ended"},
             reader' = [reader EXCEPT ![c] = v], position' = position
      PROVE  OneSession' /\ HandsWanted'
  <2>1. \A d \in Call : reader'[d] \in {"session", "handing"} => reader'[d] = reader[d]
    BY <1>2
  <2> QED
    BY <1>2, <2>1 DEF OneSession, HandsWanted, InSession, Wanted, Next1
<1>3. CASE StreamCandles(c) \/ Subscribe(c) \/ SessionRefused(c)
  BY <1>2, <1>3 DEF StreamCandles, Subscribe, SessionRefused, group
<1>4. CASE SessionFails(c) \/ PauseEnds(c)
  BY <1>2, <1>4 DEF SessionFails, PauseEnds, group
<1>5. CASE SessionBegins(c)
  <2>1. /\ \A d \in Call : ~InSession(d)
        /\ reader' = [reader EXCEPT ![c] = "session"]
    BY <1>5 DEF SessionBegins, GroupFree
  <2>2. \A d \in Call : reader'[d] # "handing" /\ (d # c => ~InSession(d)')
    BY <2>1 DEF InSession
  <2> QED
    BY <2>2 DEF OneSession, HandsWanted
<1>6. CASE Take(c)
  BY <1>6 DEF Take, OneSession, HandsWanted, InSession, Wanted, Next1, group
<1>7. ASSUME InSession(c), NEW d \in Call, reader[d] = "handing"
      PROVE  d = c
  BY <1>7 DEF OneSession, InSession
<1>8. CASE Skip(c)
  <2>1. InSession(c) /\ reader[c] # "handing" /\ reader' = reader
    BY <1>8 DEF Skip, InSession
  <2>2. \A d \in Call : reader'[d] # "handing"
    BY <1>7, <2>1
  <2> QED
    BY <2>1, <2>2 DEF OneSession, HandsWanted, InSession
<1>9. ASSUME InSession(c), NEW v \in {"waiting", "pausing", "ended", "session"},
             reader' = [reader EXCEPT ![c] = v]
      PROVE  OneSession' /\ HandsWanted'
  <2>1. \A d \in Call : reader'[d] # "handing"
    BY <1>7, <1>9
  <2>2. \A d \in Call : InSession(d)' => InSession(d)
    BY <1>9 DEF InSession
  <2> QED
    BY <2>1, <2>2 DEF OneSession, HandsWanted
<1>10. CASE Hand(c) \/ SessionEnds(c) \/ SessionBreaks(c)
  BY <1>9, <1>10 DEF Hand, SessionEnds, SessionBreaks, InSession
<1> QED
  BY <1>1, <1>3, <1>4, <1>5, <1>6, <1>8, <1>10 DEF ReaderStep

(* A goroutine is started once, by the one that precedes it.                *)
LEMMA OrderKept ==
    ASSUME StreamTypeOK, Order, NEW c \in Call, StreamStep(c)
    PROVE  Order'
<1>types. /\ rpc \in [Call -> {"none", "open", "returned"}]
          /\ requests \in [Call -> {"none", "waiting", "started", "closed", "ended"}]
          /\ reader \in [Call -> {"none", "waiting", "session", "handing", "pausing",
                                 "ended"}]
          /\ relay \in [Call -> {"none", "idle", "event", "sent", "warning", "ended"}]
          /\ answers \in [Call -> Seq(Message)] /\ carried \in [Call -> Message]
  BY DEF StreamTypeOK
<1> USE <1>types, Messages, KindAssumption DEF Set, Order
<1>1. CASE StreamCandles(c)
  BY <1>1 DEF StreamCandles
<1>2. CASE SubscribeCandles(c)
  BY <1>2 DEF SubscribeCandles
<1>3. CASE Subscribe(c)
  BY <1>3 DEF Subscribe
<1>4. CASE Acknowledge(c)
  BY <1>4 DEF Acknowledge
<1>5. CASE Leave(c)
  BY <1>5 DEF Leave
<1>6. CASE RequestsEnd(c)
  BY <1>6 DEF RequestsEnd
<1>7. CASE CancelStream(c)
  BY <1>7 DEF CancelStream
<1>8. CASE SessionBegins(c)
  BY <1>8 DEF SessionBegins
<1>9. CASE SessionRefused(c)
  BY <1>9 DEF SessionRefused
<1>10. CASE Skip(c)
  BY <1>10 DEF Skip
<1>11. CASE Take(c)
  BY <1>11 DEF Take
<1>12. CASE Hand(c)
  BY <1>12 DEF Hand
<1>13. CASE SessionEnds(c)
  BY <1>13 DEF SessionEnds, Release
<1>14. CASE SessionBreaks(c)
  BY <1>14 DEF SessionBreaks, Release
<1>15. CASE SessionFails(c)
  BY <1>15 DEF SessionFails
<1>16. CASE PauseEnds(c)
  BY <1>16 DEF PauseEnds
<1>17. CASE RelayTakes(c)
  <2>1. Head(inbox[c]) # 0
    <3>1. Head(inbox[c]) \in Event
      BY <1>17, PipelineParts, HeadTailProperties DEF RelayTakes
    <3> QED
      BY <3>1, LogLength DEF Event
  <2> QED
    BY <1>17, <2>1 DEF RelayTakes
<1>18. CASE RelaySends(c)
  BY <1>18 DEF RelaySends
<1>19. CASE RelayLooks(c)
  BY <1>19 DEF RelayLooks
<1>20. CASE RelayWarns(c)
  BY <1>20 DEF RelayWarns
<1>21. CASE RelayPanics(c)
  BY <1>21 DEF RelayPanics
<1>22. CASE RelayEnds(c)
  BY <1>22 DEF RelayEnds
<1>23. CASE SendEvent(c)
  BY <1>23 DEF SendEvent
<1>24. CASE SendAnswer(c)
  BY <1>24 DEF SendAnswer
<1>25. CASE SendLost(c)
  BY <1>25 DEF SendLost
<1>26. CASE Return(c)
  BY <1>26 DEF Return
<1> QED
  BY <1>1, <1>2, <1>3, <1>4, <1>5, <1>6, <1>7, <1>8, <1>9, <1>10, <1>11, <1>12,
     <1>13, <1>14, <1>15, <1>16, <1>17, <1>18, <1>19, <1>20, <1>21, <1>22,
     <1>23, <1>24, <1>25, <1>26
     DEF StreamStep, CallProgress, ClientActs, KafkaActs

(* What a call has been sent, and what waits for its relay, the group has   *)
(* marked, or Kafka has given again.                                        *)
LEMMA MarkedKept ==
    ASSUME StreamTypeOK, HandsWanted, Marked, NEW c \in Call, StreamStep(c)
    PROVE  Marked'
<1> DEFINE most == position + Len(Log) * breaks
           mostNow == position' + Len(Log) * breaks'
<1> SUFFICES ASSUME NEW d \in Call
             PROVE  counts'[d].sent + Len(inbox'[d]) <= mostNow
  BY DEF Marked
<1>1. /\ most \in Nat /\ mostNow \in Nat /\ most <= mostNow
      /\ Hand(c) => mostNow = most + 1
  <2>1. /\ position \in Nat /\ position' \in Nat /\ position <= Len(Log)
        /\ breaks \in Nat /\ breaks' \in Nat
    <3>1. /\ position' \in 0 .. Len(Log) /\ breaks' \in 0 .. MaxBreaks
          /\ position \in 0 .. Len(Log) /\ breaks \in 0 .. MaxBreaks
      BY GroupTypesKept DEF StreamTypeOK
    <3> QED
      BY <3>1, LogLength, BreaksAssumption
  <2>2. /\ Len(Log) * breaks \in Nat /\ Len(Log) * breaks' \in Nat
        /\ breaks' = breaks + 1 => Len(Log) * breaks' = Len(Log) * breaks + Len(Log)
    BY <2>1, LogLength, Grows
  <2>3. \/ breaks' = breaks /\ position' \in {position, position + 1}
        \/ breaks' = breaks + 1
    BY <2>1, GroupMoves DEF group, MarkMessage
  <2>4. Hand(c) => breaks' = breaks /\ position' = position + 1
    BY DEF Hand, MarkMessage, Next1
  <2>5. most \in Nat /\ mostNow \in Nat
    BY <2>1, <2>2
  <2>6. CASE breaks' = breaks /\ position' \in {position, position + 1}
    BY <2>1, <2>2, <2>4, <2>5, <2>6
  <2>7. CASE breaks' = breaks + 1
    BY <2>1, <2>2, <2>4, <2>5, <2>7, LogLength
  <2> QED
    BY <2>3, <2>6, <2>7
<1>2. /\ counts[d].sent + Len(inbox[d]) <= most /\ counts[d].sent \in Nat
      /\ Len(inbox[d]) \in Nat
  <2>1. Len(inbox[d]) \in Nat
    BY PipelineParts, LenProperties
  <2>2. counts[d].sent \in 0 .. Len(Log) * (breaks + 1)
    BY DEF StreamTypeOK
  <2>3. counts[d].sent \in Nat
    BY <2>2
  <2> QED
    BY <2>1, <2>3 DEF Marked
<1> HIDE DEF most, mostNow
<1>3. CASE Hand(c)
  <2>1. Len(inbox'[d]) \in {Len(inbox[d]), Len(inbox[d]) + 1}
    <3>1. Next1 \in Event
      BY <1>3, LogLength DEF Hand, HandsWanted, Next1, Event, StreamTypeOK
    <3>2. Len(Append(inbox[c], Next1)) = Len(inbox[c]) + 1
      BY <3>1, PipelineParts, AppendProperties
    <3> QED
      BY <1>3, <3>2 DEF Hand, StreamTypeOK
  <2>2. counts' = counts
    BY <1>3 DEF Hand
  <2> QED
    BY <1>1, <1>2, <1>3, <2>1, <2>2
<1>4. ASSUME inbox[c] # <<>>
      PROVE  Len(Tail(inbox[c])) = Len(inbox[c]) - 1
  BY <1>4, PipelineParts, HeadTailProperties
<1>5. ASSUME \/ counts'[d].sent = counts[d].sent /\ inbox'[d] = inbox[d]
             \/ /\ counts'[d].sent \in {counts[d].sent, counts[d].sent + 1}
                /\ Len(inbox'[d]) = Len(inbox[d]) - 1
      PROVE  counts'[d].sent + Len(inbox'[d]) <= mostNow
  <2> DEFINE s == counts[d].sent
             n == Len(inbox[d])
             t == counts'[d].sent
             m == Len(inbox'[d])
  <2>1. \/ t = s /\ m = n
        \/ t \in {s, s + 1} /\ m = n - 1
    BY <1>5
  <2>2. /\ s + n <= most /\ s \in Nat /\ n \in Nat
        /\ most \in Nat /\ mostNow \in Nat /\ most <= mostNow
    BY <1>1, <1>2
  <2> HIDE DEF s, n, t, m
  <2>3. t + m <= mostNow
    BY <2>1, <2>2
  <2> QED
    BY <2>3 DEF t, m
<1>6. CASE Acknowledge(c)
  BY <1>5, <1>6 DEF Acknowledge, StreamTypeOK
<1>types. /\ inbox \in [Call -> Seq(Event)]
          /\ counts \in [Call -> [sent : 0 .. Len(Log) * (breaks + 1), acked : Nat]]
  BY DEF StreamTypeOK
<1>7. CASE RelayTakes(c)
  <2>1. /\ inbox[c] # <<>> /\ inbox' = [inbox EXCEPT ![c] = Tail(inbox[c])]
        /\ counts' = [counts EXCEPT ![c].sent = @ + 1]
    BY <1>7 DEF RelayTakes, Set
  <2>2. CASE d = c
    <3>1. inbox'[d] = Tail(inbox[c]) /\ counts'[d].sent = counts[d].sent + 1
      BY <1>types, <2>1, <2>2
    <3> QED
      BY <1>4, <1>5, <2>1, <2>2, <3>1
  <2>3. CASE d # c
    <3>1. inbox'[d] = inbox[d] /\ counts'[d] = counts[d]
      BY <1>types, <2>1, <2>3
    <3> QED
      BY <1>5, <3>1
  <2> QED
    BY <2>2, <2>3
<1>8. CASE SendEvent(c) \/ SendLost(c)
  <2>1. /\ counts' = counts
        /\ \/ inbox' = inbox
           \/ inbox[c] # <<>> /\ inbox' = [inbox EXCEPT ![c] = Tail(inbox[c])]
    BY <1>8 DEF SendEvent, SendLost, Set
  <2>2. inbox'[d] = inbox[d] \/ Len(inbox'[d]) = Len(inbox[d]) - 1
    BY <1>4, <1>types, <2>1
  <2> QED
    BY <1>5, <2>1, <2>2
<1>9. CASE RelaySends(c) \/ RelayWarns(c) \/ SendAnswer(c)
  BY <1>5, <1>9 DEF RelaySends, RelayWarns, SendAnswer
<1>10. CASE ~PipelineStep(c) /\ ~Acknowledge(c)
  <2>1. inbox' = inbox
    BY <1>10, PipelineStays
  <2>2. counts' = counts
    BY <1>10 DEF PipelineStep, StreamStep, CallProgress, ClientActs, KafkaActs,
       StreamCandles, SubscribeCandles, Subscribe, Leave, RequestsEnd, CancelStream,
       SessionBegins, SessionRefused, Skip, Take, SessionEnds, SessionBreaks,
       SessionFails, PauseEnds, RelayLooks, RelayPanics, RelayEnds, Return, Release
  <2> QED
    BY <1>5, <2>1, <2>2
<1> QED
  BY <1>3, <1>6, <1>7, <1>8, <1>9, <1>10 DEF PipelineStep

LEMMA AppendAfter ==
    ASSUME NEW S, NEW s \in Seq(S), NEW t \in Seq(S), NEW e \in S
    PROVE  s \o Append(t, e) = Append(s \o t, e)
<1>1. <<e>> \in Seq(S) /\ s \o t \in Seq(S)
  BY ConcatProperties
<1>2. Append(t, e) = t \o <<e>> /\ Append(s \o t, e) = (s \o t) \o <<e>>
  BY <1>1, AppendIsConcat
<1> QED
  BY <1>1, <1>2, ConcatAssociative

(* The reader adds the next event at the end.                               *)
LEMMA HandAppends ==
    ASSUME StreamTypeOK, HandsWanted, NEW c \in Call, Hand(c)
    PROVE  Next1 \in Event /\ Pipeline(c)' = Append(Pipeline(c), Next1)
<1> DEFINE G == got[c] \o answers[c]
           R == InRelay(c)
           I == inbox[c]
<1>1. Next1 \in Event /\ Next1 \in Message
  BY LogLength DEF Hand, HandsWanted, Next1, Event, Message, StreamTypeOK
<1>2. /\ got' = got /\ answers' = answers /\ carried' = carried
      /\ inbox'[c] = Append(I, Next1)
  BY DEF Hand, StreamTypeOK
<1>3. /\ G \in Seq(Message) /\ R \in Seq(Message) /\ I \in Seq(Message)
      /\ R \o I \in Seq(Message)
  BY PipelineParts, ConcatProperties
<1>4. Pipeline(c)' = G \o (R \o Append(I, Next1))
  BY <1>2 DEF Pipeline, InRelay
<1>5. Pipeline(c) = G \o (R \o I)
  BY DEF Pipeline
<1> HIDE DEF G, R, I
<1>6. R \o Append(I, Next1) = Append(R \o I, Next1)
  BY <1>1, <1>3, AppendAfter
<1>7. G \o Append(R \o I, Next1) = Append(G \o (R \o I), Next1)
  BY <1>1, <1>3, AppendAfter
<1> QED
  BY <1>1, <1>4, <1>5, <1>6, <1>7

(* Every other step leaves it as it is or adds a warning, if the method goes *)
(* on.                                                                      *)
LEMMA OthersMove ==
    ASSUME StreamTypeOK, Order, NEW c \in Call, StreamStep(c),
           NEW d \in Call, ~(d = c /\ (Hand(c) \/ SendLost(c)))
    PROVE  \/ Pipeline(d)' = Pipeline(d)
           \/ \E p, q \in Seq(Message) :
                 Pipeline(d) = p \o q /\ Pipeline(d)' = Append(p, Control) \o q
<1> DEFINE G == got[c]
           A == answers[c]
           R == InRelay(c)
           I == inbox[c]
<1>1. /\ G \in Seq(Message) /\ A \in Seq(Message) /\ R \in Seq(Message)
      /\ I \in Seq(Message) /\ G \o A \in Seq(Message) /\ R \o I \in Seq(Message)
  BY PipelineParts, ConcatProperties
<1>2. Pipeline(c) = (G \o A) \o (R \o I)
  BY DEF Pipeline
<1>3. CASE \/ ~PipelineStep(c)
           \/ d # c
  <2>1. CASE ~PipelineStep(c)
    BY <2>1, PipelineStays DEF Pipeline, InRelay
  <2>2. CASE PipelineStep(c) /\ d # c
    <3>1. /\ got'[d] = got[d] /\ answers'[d] = answers[d]
          /\ carried'[d] = carried[d] /\ inbox'[d] = inbox[d]
      <4>1. /\ got \in [Call -> Seq(Message)] /\ answers \in [Call -> Seq(Message)]
            /\ carried \in [Call -> Message] /\ inbox \in [Call -> Seq(Event)]
        BY DEF StreamTypeOK
      <4>2. CASE Hand(c)
        BY <2>2, <4>1, <4>2 DEF Hand
      <4>3. CASE RelayTakes(c)
        BY <2>2, <4>1, <4>3 DEF RelayTakes, Set
      <4>4. CASE RelaySends(c) \/ RelayWarns(c)
        BY <2>2, <4>1, <4>4 DEF RelaySends, RelayWarns, Set
      <4>5. CASE SendEvent(c) \/ SendAnswer(c)
        BY <2>2, <4>1, <4>5 DEF SendEvent, SendAnswer, Set
      <4>6. CASE SendLost(c)
        BY <2>2, <4>1, <4>6 DEF SendLost, Set
      <4> QED
        BY <2>2, <4>2, <4>3, <4>4, <4>5, <4>6 DEF PipelineStep
    <3> QED
      BY <3>1 DEF Pipeline, InRelay
  <2> QED
    BY <1>3, <2>1, <2>2
<1>4. ASSUME NEW s \in Seq(Message), s # <<>>
      PROVE  /\ Head(s) \in Message /\ Tail(s) \in Seq(Message)
             /\ <<Head(s)>> \o Tail(s) = s
  <2>1. Head(s) \in Message /\ Tail(s) \in Seq(Message)
    BY <1>4, HeadTailProperties
  <2>2. <<>> \in Seq(Message)
    BY EmptySeq
  <2>3. Append(<<>>, Head(s)) \o Tail(s) = <<>> \o s
    BY <1>4, <2>2, Moved
  <2>4. Append(<<>>, Head(s)) = <<Head(s)>> /\ <<>> \o s = s
    BY ConcatEmptySeq
  <2> QED
    BY <2>1, <2>3, <2>4
<1>5. CASE RelayTakes(c) /\ d = c
  <2>1. /\ got'[c] = G /\ answers'[c] = A /\ I # <<>>
        /\ carried'[c] = Head(I) /\ inbox'[c] = Tail(I) /\ R = <<>>
    BY <1>5 DEF RelayTakes, StreamTypeOK, Set, Order, InRelay
  <2>2. Head(I) # 0
    <3>1. Head(I) \in Event
      BY <2>1, PipelineParts, HeadTailProperties
    <3> QED
      BY <3>1, LogLength DEF Event
  <2>3. InRelay(c)' = <<Head(I)>>
    BY <2>1, <2>2 DEF InRelay
  <2>4. Pipeline(c)' = (G \o A) \o (<<Head(I)>> \o Tail(I))
    BY <2>1, <2>3 DEF Pipeline
  <2> HIDE DEF G, A, R, I
  <2>5. <<Head(I)>> \o Tail(I) = I /\ R \o I = I
    BY <1>1, <1>4, <2>1, ConcatEmptySeq
  <2> QED
    BY <1>2, <1>5, <2>4, <2>5
<1>6. CASE RelaySends(c) /\ d = c
  <2>1. /\ got'[c] = G /\ answers'[c] = Append(A, carried[c]) /\ inbox'[c] = I
        /\ carried'[c] = 0 /\ carried[c] \in Message
    BY <1>6 DEF RelaySends, StreamTypeOK, Set
  <2>2. R = <<carried[c]>> /\ InRelay(c)' = <<>>
    BY <1>6, <2>1 DEF RelaySends, Order, InRelay
  <2>3. Pipeline(c)' = (G \o Append(A, carried[c])) \o (<<>> \o I)
    BY <2>1, <2>2 DEF Pipeline
  <2> HIDE DEF G, A, R, I
  <2>4. G \o Append(A, carried[c]) = (G \o A) \o R
    BY <1>1, <2>1, <2>2, AppendAfter, AppendIsConcat
  <2>5. ((G \o A) \o R) \o I = (G \o A) \o (R \o I)
    <3> DEFINE before == G \o A
    <3>1. before \in Seq(Message) /\ R \in Seq(Message) /\ I \in Seq(Message)
      BY <1>1
    <3> HIDE DEF before
    <3>2. (before \o R) \o I = before \o (R \o I)
      BY <3>1, ConcatAssociative
    <3> QED
      BY <3>2 DEF before
  <2>6. <<>> \o I = I
    BY <1>1, ConcatEmptySeq
  <2> QED
    BY <1>2, <1>6, <2>3, <2>4, <2>5, <2>6
<1>7. CASE RelayWarns(c) /\ d = c
  <2>1. /\ got'[c] = G /\ answers'[c] = Append(A, Control) /\ inbox'[c] = I
        /\ carried' = carried /\ Control \in Message
    BY <1>7, Messages DEF RelayWarns, StreamTypeOK, Set, Control
  <2>2. Pipeline(c)' = (G \o Append(A, Control)) \o (R \o I)
    BY <2>1 DEF Pipeline, InRelay
  <2> HIDE DEF G, A, R, I
  <2>3. G \o Append(A, Control) = Append(G \o A, Control)
    BY <1>1, <2>1, AppendAfter
  <2> QED
    BY <1>1, <1>2, <1>7, <2>2, <2>3
<1>8. CASE SendEvent(c) /\ d = c
  <2>1. /\ got'[c] = Append(G, Head(I)) /\ answers' = answers
        /\ inbox'[c] = Tail(I) /\ I # <<>> /\ carried' = carried
    BY <1>8 DEF SendEvent, StreamTypeOK, Set
  <2>2. A = <<>> /\ R = <<>>
    BY <1>8 DEF SendEvent, Order, InRelay
  <2>3. Pipeline(c)' = (Append(G, Head(I)) \o A) \o (R \o Tail(I))
    BY <2>1 DEF Pipeline, InRelay
  <2> HIDE DEF G, A, R, I
  <2>4. Append(G, Head(I)) \in Seq(Message) /\ Tail(I) \in Seq(Message)
    BY <1>1, <1>4, <2>1, AppendProperties
  <2>5. /\ Append(G, Head(I)) \o A = Append(G, Head(I)) /\ R \o Tail(I) = Tail(I)
        /\ G \o A = G /\ R \o I = I
    BY <1>1, <2>2, <2>4, ConcatEmptySeq
  <2>6. Append(G, Head(I)) \o Tail(I) = G \o I
    BY <1>1, <2>1, Moved
  <2> QED
    BY <1>2, <1>8, <2>3, <2>5, <2>6
<1>9. CASE SendAnswer(c) /\ d = c
  <2>1. /\ got'[c] = Append(G, Head(A)) /\ answers'[c] = Tail(A) /\ A # <<>>
        /\ inbox' = inbox /\ carried' = carried
    BY <1>9 DEF SendAnswer, StreamTypeOK, Set
  <2>2. Pipeline(c)' = (Append(G, Head(A)) \o Tail(A)) \o (R \o I)
    BY <2>1 DEF Pipeline, InRelay
  <2> HIDE DEF G, A, R, I
  <2>3. Append(G, Head(A)) \o Tail(A) = G \o A
    BY <1>1, <2>1, Moved
  <2> QED
    BY <1>2, <1>9, <2>2, <2>3
<1> QED
  BY <1>3, <1>5, <1>6, <1>7, <1>8, <1>9 DEF PipelineStep

\* What a client has stays as it is, once it has left or its method returned.
LEMMA GotStays ==
    ASSUME StreamTypeOK, NEW c \in Call, StreamStep(c), NEW d \in Call,
           ~Served(d)'
    PROVE  got'[d] = got[d]
<1> USE DEF StreamTypeOK, Set
<1>1. CASE SendEvent(c) \/ SendAnswer(c)
  <2>1. Served(c) /\ gone' = gone /\ rpc' = rpc
    BY <1>1 DEF SendEvent, SendAnswer, Served
  <2>2. d # c
    BY <2>1 DEF Served
  <2> QED
    BY <1>1, <2>2 DEF SendEvent, SendAnswer
<1>2. CASE ~(SendEvent(c) \/ SendAnswer(c))
  <2>1. got' = got
    BY <1>2 DEF StreamStep, CallProgress, ClientActs, KafkaActs, StreamCandles,
       SubscribeCandles, Subscribe, Acknowledge, Leave, RequestsEnd, CancelStream,
       SessionBegins, SessionRefused, Skip, Take, Hand, SessionEnds, SessionBreaks,
       SessionFails, PauseEnds, RelayTakes, RelaySends, RelayLooks, RelayWarns,
       RelayPanics, RelayEnds, SendLost, Return, Release
  <2> QED
    BY <2>1
<1> QED
  BY <1>1, <1>2

\* No client comes back.
LEMMA ServedBefore ==
    ASSUME StreamTypeOK, NEW c \in Call, StreamStep(c), NEW d \in Call, Served(d)'
    PROVE  Served(d) /\ ~(d = c /\ SendLost(c))
<1> USE DEF StreamTypeOK, Set, Served
<1>1. CASE StreamCandles(c) \/ SubscribeCandles(c)
  BY <1>1 DEF StreamCandles, SubscribeCandles, SendLost
<1>2. CASE Return(c) \/ SendLost(c)
  BY <1>2 DEF Return, SendLost
<1>3. CASE Leave(c)
  BY <1>3 DEF Leave, SendLost
<1>4. CASE /\ ~(StreamCandles(c) \/ SubscribeCandles(c) \/ Return(c))
           /\ ~(SendLost(c) \/ Leave(c))
  <2>1. rpc' = rpc /\ gone' = gone
    BY <1>4 DEF StreamStep, CallProgress, ClientActs, KafkaActs, Subscribe,
       Acknowledge, RequestsEnd, CancelStream, SessionBegins, SessionRefused,
       Skip, Take, Hand, SessionEnds, SessionBreaks, SessionFails, PauseEnds,
       RelayTakes, RelaySends, RelayLooks, RelayWarns, RelayPanics, RelayEnds,
       SendEvent, SendAnswer, Release
  <2> QED
    BY <1>4, <2>1
<1> QED
  BY <1>1, <1>2, <1>3, <1>4

\* What the group has moved on by, a pipeline that stays as it is allows.
LEMMA GroupAllows ==
    ASSUME StreamTypeOK, HandsWanted, NEW c \in Call, StreamStep(c),
           NEW d \in Call, NEW p \in Seq(Message)
    PROVE  /\ Whole(p, d, marked, again) => Whole(p, d, marked', again')
           /\ ~(d = c /\ Hand(c)) /\ Until(p, d, marked, again, position) =>
                 Until(p, d, marked', again', position')
<1> PICK m, g, n, h, pos, now :
       /\ m = marked /\ g = again /\ n = marked' /\ h = again'
       /\ pos = position /\ now = position'
  OBVIOUS
<1>1. /\ pos \in 0 .. Len(Log) /\ pos \in Nat /\ now \in 0 .. Len(Log)
      /\ m \in [Event -> SUBSET Call] /\ committed \in 0 .. pos
  <2>1. /\ position \in 0 .. Len(Log) /\ position' \in 0 .. Len(Log)
        /\ marked \in [Event -> SUBSET Call] /\ committed \in 0 .. position
    BY GroupTypesKept DEF StreamTypeOK
  <2> QED
    BY <2>1, LogLength
<1>2. CASE n = m /\ h = g /\ now = pos
  BY <1>2
<1>3. CASE MarksNext(c) /\ MarkMessage(c) /\ Next1 \in Event /\ now = pos + 1
  <2>1. /\ h = g /\ n = [m EXCEPT ![pos + 1] = m[pos + 1] \cup {c}]
        /\ pos + 1 \in Event
    BY <1>3 DEF MarkMessage, Next1
  <2>2. \A e \in Event : m[e] \subseteq n[e]
    BY <1>1, <2>1
  <2>3. c \in n[pos + 1]
    BY <1>1, <2>1
  <2>4. Whole(p, d, m, g) => Whole(p, d, n, h)
    BY <2>1, <2>2, MoreMarks
  <2>5. Until(p, d, m, g, pos) => Until(p, d, n, h, pos)
    BY <1>1, <2>1, <2>2, MoreMarks
  <2>6. ASSUME ~(d = c /\ Hand(c)), Log[pos + 1] = SymbolOf[d]
        PROVE  n[pos + 1] \ {d} # {}
    <3>1. d # c
      BY <1>3, <2>6 DEF MarksNext, Skip, Wanted, Next1
    <3> QED
      BY <2>3, <3>1
  <2>7. ASSUME ~(d = c /\ Hand(c)), Until(p, d, n, h, pos)
        PROVE  Until(p, d, n, h, pos + 1)
    BY <1>1, <2>6, <2>7, PassedOver
  <2> QED
    BY <1>3, <2>4, <2>5, <2>7
<1>4. ASSUME NEW from \in committed .. position, Release(c, from)
      PROVE  /\ Whole(p, d, m, g) => Whole(p, d, n, h)
             /\ Until(p, d, m, g, pos) => Until(p, d, n, h, now)
  <2>1. /\ n = m /\ h = g \cup (from + 1 .. pos) /\ now = from /\ from \in 0 .. pos
    BY <1>1, <1>4 DEF Release
  <2>2. Whole(p, d, m, g) => Whole(p, d, n, h)
    BY <2>1, MoreMarks
  <2>3. Until(p, d, m, g, pos) => Until(p, d, m, g \cup (from + 1 .. pos), from)
    BY <1>1, <2>1, SetBack
  <2> QED
    BY <2>1, <2>2, <2>3
<1>5. \/ n = m /\ h = g /\ now = pos
      \/ MarksNext(c) /\ MarkMessage(c) /\ Next1 \in Event /\ now = pos + 1
      \/ \E from \in committed .. position : Release(c, from)
  BY GroupMoves DEF group
<1>6. /\ Whole(p, d, m, g) => Whole(p, d, n, h)
      /\ ~(d = c /\ Hand(c)) /\ Until(p, d, m, g, pos) => Until(p, d, n, h, now)
  BY <1>2, <1>3, <1>4, <1>5
<1> QED
  BY <1>6

\* A step keeps every call's pipeline.
LEMMA PipelinesKept ==
    ASSUME StreamInv, NEW c \in Call, StreamStep(c)
    PROVE  WholeStreams' /\ UpToPosition'
<1> USE DEF StreamInv
<1> SUFFICES ASSUME NEW d \in Call
             PROVE  /\ Whole(Delivered(d)', d, marked', again')
                    /\ Served(d)' =>
                          Until(Pipeline(d)', d, marked', again', position')
  BY DEF WholeStreams, UpToPosition, Whole, Until
<1>1. /\ Whole(Delivered(d), d, marked, again)
      /\ Served(d) => Until(Pipeline(d), d, marked, again, position)
      /\ Pipeline(d) \in Seq(Message) /\ got[d] \in Seq(Message)
      /\ position \in Nat
  <2>1. Pipeline(d) \in Seq(Message) /\ got[d] \in Seq(Message)
    BY PipelineParts
  <2>2. position \in Nat
    BY LogLength DEF StreamTypeOK
  <2> QED
    BY <2>1, <2>2 DEF WholeStreams, UpToPosition
<1>2. CASE ~Served(d)'
  <2>1. Delivered(d)' = got[d]
    BY <1>2, GotStays DEF Delivered
  <2>2. Whole(got[d], d, marked, again)
    <3>1. CASE ~Served(d)
      BY <1>1, <3>1 DEF Delivered
    <3>2. CASE Served(d)
      <4>1. Delivered(d) = (got[d] \o answers[d]) \o (InRelay(d) \o inbox[d])
        BY <3>2 DEF Delivered, Pipeline
      <4>2. /\ got[d] \o answers[d] \in Seq(Message) /\ answers[d] \in Seq(Message)
            /\ InRelay(d) \o inbox[d] \in Seq(Message)
        BY PipelineParts, ConcatProperties
      <4>3. Whole(got[d] \o answers[d], d, marked, again)
        BY <1>1, <4>1, <4>2, WholePrefix
      <4> QED
        BY <1>1, <4>2, <4>3, WholePrefix
    <3> QED
      BY <3>1, <3>2
  <2>3. Whole(got[d], d, marked', again')
    BY <1>1, <2>2, GroupAllows
  <2> QED
    BY <1>2, <2>1, <2>3
<1>3. CASE Served(d)'
  <2>1. /\ Served(d) /\ Delivered(d) = Pipeline(d)
        /\ Delivered(d)' = Pipeline(d)'
    BY <1>3, ServedBefore DEF Delivered
  <2>2. /\ Whole(Pipeline(d), d, marked, again)
        /\ Until(Pipeline(d), d, marked, again, position)
    BY <1>1, <2>1
  <2>3. Whole(Pipeline(d), d, marked', again')
    BY <1>1, <2>2, GroupAllows
  <2>4. CASE d = c /\ Hand(c)
    <3>1. /\ Next1 \in Event /\ Pipeline(c)' = Append(Pipeline(c), Next1)
          /\ MarkMessage(c)
      BY <2>4, HandAppends DEF Hand
    <3>2. /\ position + 1 \in Event /\ position' = position + 1 /\ again' = again
          /\ marked' = [marked EXCEPT ![position + 1] = @ \cup {c}]
      BY <3>1 DEF MarkMessage, Next1
    <3>3. Until(Pipeline(c), c, marked', again', position)
      <4> PICK n : n = marked'
        OBVIOUS
      <4>1. \A e \in Event : marked[e] \subseteq n[e]
        BY <3>2 DEF StreamTypeOK
      <4>2. Until(Pipeline(c), c, n, again, position)
        BY <1>1, <2>2, <2>4, <4>1, MoreMarks DEF StreamTypeOK
      <4> QED
        BY <3>2, <4>2
    <3>4. /\ Whole(Append(Pipeline(c), position + 1), c, marked', again')
          /\ Until(Append(Pipeline(c), position + 1), c, marked', again', position + 1)
      BY <1>1, <2>3, <2>4, <3>2, <3>3, EventAppended
    <3> QED
      BY <2>1, <2>4, <3>1, <3>2, <3>4 DEF Next1
  <2>5. CASE ~(d = c /\ Hand(c))
    <3>1. Until(Pipeline(d), d, marked', again', position')
      BY <1>1, <2>2, <2>5, GroupAllows
    <3>2. ~(d = c /\ SendLost(c))
      BY <1>3, ServedBefore
    <3>3. CASE Pipeline(d)' = Pipeline(d)
      BY <2>1, <2>3, <3>1, <3>3
    <3>4. ASSUME NEW p \in Seq(Message), NEW q \in Seq(Message),
                 Pipeline(d) = p \o q, Pipeline(d)' = Append(p, Control) \o q
          PROVE  /\ Whole(Pipeline(d)', d, marked', again')
                 /\ Until(Pipeline(d)', d, marked', again', position')
      BY <2>3, <3>1, <3>4, WarningBetween
    <3> QED
      BY <2>1, <2>5, <3>2, <3>3, <3>4, OthersMove
  <2> QED
    BY <2>4, <2>5
<1> QED
  BY <1>2, <1>3

LEMMA StreamsBegin == StreamInit => StreamInv
<1> SUFFICES ASSUME StreamInit
             PROVE  StreamInv
  OBVIOUS
<1>1. /\ Len(Log) \in Nat /\ Capacity \in Nat /\ \A S : <<>> \in Seq(S)
      /\ Len(<<>>) = 0
  BY LogLength, CapacityAssumption, EmptySeq
<1>2. /\ position = 0 /\ breaks = 0 /\ committed = 0
      /\ Len(Log) * (breaks + 1) = Len(Log) /\ Len(Log) * breaks = 0
  BY <1>1 DEF StreamInit
<1>3. StreamTypeOK
  <2>1. /\ inbox \in [Call -> Seq(Event)] /\ answers \in [Call -> Seq(Message)]
        /\ got \in [Call -> Seq(Message)] /\ carried \in [Call -> Message]
    BY <1>1, Messages DEF StreamInit
  <2>2. \A c \in Call : Len(inbox[c]) <= Capacity /\ Len(answers[c]) <= Capacity
    BY <1>1 DEF StreamInit
  <2>3. /\ counts \in [Call -> [sent : 0 .. Len(Log) * (breaks + 1), acked : Nat]]
        /\ position \in 0 .. Len(Log) /\ committed \in 0 .. position
        /\ breaks \in 0 .. MaxBreaks
    <3>1. [sent |-> 0, acked |-> 0] \in [sent : 0 .. Len(Log), acked : Nat]
      BY <1>1
    <3> QED
      BY <1>1, <1>2, <3>1, BreaksAssumption DEF StreamInit
  <2>4. marked \in [Event -> SUBSET Call] /\ again \subseteq Event
    BY DEF StreamInit
  <2>5. /\ rpc \in [Call -> {"none", "open", "returned"}]
        /\ gone \in [Call -> BOOLEAN] /\ crashed \in BOOLEAN
        /\ requests \in [Call -> {"none", "waiting", "started", "closed", "ended"}]
        /\ reader \in [Call -> {"none", "waiting", "session", "handing", "pausing",
                               "ended"}]
        /\ relay \in [Call -> {"none", "idle", "event", "sent", "warning", "ended"}]
    BY DEF StreamInit
  <2> QED
    BY <2>1, <2>2, <2>3, <2>4, <2>5 DEF StreamTypeOK
<1>4. OneSession /\ HandsWanted
  BY DEF StreamInit, OneSession, HandsWanted, InSession
<1>5. Order
  BY DEF StreamInit, Order
<1>6. Marked
  BY <1>1, <1>2 DEF StreamInit, Marked
<1>7. ASSUME NEW c \in Call
      PROVE  DOMAIN Pipeline(c) = {} /\ DOMAIN Delivered(c) = {}
  <2>1. got[c] = <<>> /\ answers[c] = <<>> /\ InRelay(c) = <<>> /\ inbox[c] = <<>>
    BY DEF StreamInit, InRelay
  <2>2. Pipeline(c) = <<>>
    BY <2>1, <1>1, ConcatEmptySeq DEF Pipeline
  <2> QED
    BY <2>1, <2>2 DEF Delivered
<1>8. WholeStreams /\ UpToPosition
  BY <1>7 DEF WholeStreams, UpToPosition, Whole, Until
<1> QED
  BY <1>3, <1>4, <1>5, <1>6, <1>8 DEF StreamInv

LEMMA StreamsGoOn == StreamInv /\ [StreamNext]_streamVars => StreamInv'
<1>1. ASSUME StreamInv, NEW c \in Call, StreamStep(c)
      PROVE  StreamInv'
  BY <1>1, StreamTypesKept, SessionsKept, OrderKept, MarkedKept, PipelinesKept
     DEF StreamInv
<1>2. ASSUME StreamInv, UNCHANGED streamVars
      PROVE  StreamInv'
  <2>1. \A c \in Call : /\ Pipeline(c)' = Pipeline(c) /\ Delivered(c)' = Delivered(c)
                        /\ (InSession(c)' <=> InSession(c))
    BY <1>2 DEF streamVars, Pipeline, Served, Delivered, InRelay, InSession
  <2>2. StreamTypeOK' /\ OneSession' /\ HandsWanted' /\ Order' /\ Marked'
    BY <1>2 DEF StreamInv, streamVars, group, StreamTypeOK, OneSession, HandsWanted,
       Order, Marked, InSession, Wanted, Next1
  <2>3. WholeStreams' /\ UpToPosition'
    BY <1>2, <2>1 DEF StreamInv, streamVars, group, WholeStreams, UpToPosition,
       Served, Whole, Until
  <2> QED
    BY <2>2, <2>3 DEF StreamInv
<1> QED
  BY <1>1, <1>2 DEF StreamNext, StreamStep

-----------------------------------------------------------------------------
(* Parameters.  A value is passed when the loop finds its name in what is left  *)
(* of the text, and takes the places that begin with it; so a place that is *)
(* taken is the name of its value and the rest, and one that is not is as it *)
(* was written, and begins with no name the loop has been through.          *)

Place == [at : Nat, letters : Seq(Letter)]

BindTypes ==
    /\ query \in Queries \cup {NoQuery}
    /\ stage \in {"idle", "prepare", "ready", "answered", "refused"}
    /\ sql \in Seq(Place) /\ Len(sql) = Len(query.text)
    /\ args \in Seq(query.params) /\ todo \subseteq query.params
    /\ Len(args) + Cardinality(todo) <= Cardinality(query.params)
After(name, letters) == SubSeq(letters, Len(name) + 1, Len(letters))
Taken(place, name, letters) ==
    IsPrefix(name, letters) /\ place.letters = After(name, letters)
PlaceOfValue ==
    \A i \in DOMAIN sql :
        /\ sql[i].at \in 0 .. Len(args)
        /\ IF sql[i].at = 0 THEN sql[i] = Named(query.text[i])
           ELSE Taken(sql[i], args[sql[i].at], query.text[i])
ValueUsed == \A k \in DOMAIN args : \E i \in DOMAIN sql : sql[i].at = k
NoneMissed ==
    stage \in {"prepare", "ready"} =>
        \A name \in query.params \ todo, i \in DOMAIN sql :
            sql[i].at = 0 => ~IsPrefix(name, query.text[i])
AllSeen == stage = "ready" => todo = {}

BindInv == BindTypes /\ PlaceOfValue /\ ValueUsed /\ NoneMissed /\ AllSeen

LEMMA IsSequence ==
    ASSUME NEW S, NEW n \in Nat, NEW f \in [1 .. n -> S]
    PROVE  f \in Seq(S) /\ Len(f) = n /\ DOMAIN f = 1 .. n
OBVIOUS

LEMMA QueryTypes ==
    ASSUME query \in Queries \cup {NoQuery}
    PROVE  /\ query.text \in Seq(Seq(Letter)) /\ query.params \subseteq Seq(Letter)
           /\ IsFiniteSet(query.params)
<1>1. CASE query \in Queries
  BY <1>1, QueriesAssumption
<1>2. CASE query = NoQuery
  <2>1. query.text = <<>> /\ query.params = {}
    BY <1>2 DEF NoQuery
  <2> QED
    BY <2>1, EmptySeq, FS_EmptySet
<1> QED
  BY <1>1, <1>2

(* A query as it was written: no place taken, no value passed.              *)
LEMMA NothingBound ==
    ASSUME query' \in Queries \cup {NoQuery}, args' = <<>>,
           sql' = [i \in DOMAIN query'.text |-> Named(query'.text[i])],
           \/ stage' \in {"idle", "refused"} /\ todo' = {}
           \/ stage' = "prepare" /\ todo' = query'.params
    PROVE  BindInv'
<1> PICK q : q = query'
  OBVIOUS
<1>1. q.text \in Seq(Seq(Letter)) /\ IsFiniteSet(q.params)
  <2>1. CASE q \in Queries
    BY <2>1, QueriesAssumption
  <2>2. CASE q = NoQuery
    <3>1. q.text = <<>> /\ q.params = {}
      BY <2>2 DEF NoQuery
    <3> QED
      BY <3>1, EmptySeq, FS_EmptySet
  <2> QED
    BY <2>1, <2>2
<1>2. DOMAIN q.text = 1 .. Len(q.text) /\ Len(q.text) \in Nat
  BY <1>1, LenProperties
<1>3. ASSUME NEW i \in 1 .. Len(q.text)
      PROVE  Named(q.text[i]) \in Place
  <2>1. q.text[i] \in Seq(Letter)
    BY <1>1, ElementOfSeq
  <2> QED
    BY <2>1 DEF Named, Place
<1>4. sql' = [i \in 1 .. Len(q.text) |-> Named(q.text[i])]
  BY <1>2
<1>5. sql' \in Seq(Place) /\ Len(sql') = Len(q.text) /\ DOMAIN sql' = 1 .. Len(q.text)
  BY <1>2, <1>3, <1>4
<1>6. /\ Len(args') = 0 /\ args' \in Seq(q.params) /\ DOMAIN args' = {}
      /\ Cardinality(q.params) \in Nat /\ Cardinality({}) = 0
  BY <1>1, EmptySeq, FS_CardinalityType, FS_EmptySet
<1>7. Len(args') + Cardinality(todo') <= Cardinality(q.params)
  <2>1. todo' \in {{}, q.params}
    OBVIOUS
  <2>2. Cardinality(todo') \in {0, Cardinality(q.params)}
    BY <1>6, <2>1
  <2> QED
    BY <1>6, <2>2
<1>8. BindTypes'
  BY <1>5, <1>6, <1>7 DEF BindTypes
<1>9. \A i \in 1 .. Len(q.text) : sql'[i] = Named(q.text[i]) /\ sql'[i].at = 0
  BY <1>4 DEF Named
<1>10. PlaceOfValue' /\ ValueUsed'
  <2>1. \A i \in 1 .. Len(q.text) : sql'[i].at \in 0 .. Len(args')
    <3>1. 0 \in 0 .. Len(args')
      BY <1>6
    <3> QED
      BY <1>9, <3>1
  <2>2. PlaceOfValue'
    <3>1. ASSUME NEW i \in 1 .. Len(q.text)
          PROVE  IF sql'[i].at = 0 THEN sql'[i] = Named(query'.text[i])
                 ELSE Taken(sql'[i], args'[sql'[i].at], query'.text[i])
      BY <1>9
    <3> QED
      BY <1>5, <2>1, <3>1 DEF PlaceOfValue
  <2> QED
    BY <1>6, <2>2 DEF ValueUsed
<1>11. NoneMissed' /\ AllSeen'
  BY DEF NoneMissed, AllSeen
<1> QED
  BY <1>8, <1>10, <1>11 DEF BindInv

LEMMA PrepareBinds ==
    ASSUME BindInv, NEW name \in todo, PrepareQuery(name)
    PROVE  BindInv'
<1> USE DEF BindInv
<1> DEFINE text == query.text
           k == Len(args) + 1
           n == Len(query.text)
<1>1. /\ text \in Seq(Seq(Letter)) /\ query.params \subseteq Seq(Letter)
      /\ IsFiniteSet(query.params)
  BY QueryTypes DEF BindTypes
<1>2. /\ name \in query.params /\ todo' = todo \ {name} /\ query' = query
      /\ stage = "prepare" /\ stage' = stage /\ name \in Seq(Letter)
  BY <1>1 DEF PrepareQuery, BindTypes
<1>3. /\ n \in Nat /\ DOMAIN text = 1 .. n /\ DOMAIN sql = 1 .. n
      /\ Len(args) \in Nat /\ DOMAIN args = 1 .. Len(args)
      /\ \A i \in 1 .. n : sql[i] \in Place
      /\ \A i \in 1 .. n : text[i] \in Seq(Letter)
  <2>1. n \in Nat /\ DOMAIN text = 1 .. n /\ \A i \in 1 .. n : text[i] \in Seq(Letter)
    BY <1>1, LenProperties, ElementOfSeq
  <2>2. DOMAIN sql = 1 .. n /\ \A i \in 1 .. n : sql[i] \in Place
    BY LenProperties, ElementOfSeq DEF BindTypes
  <2>3. Len(args) \in Nat /\ DOMAIN args = 1 .. Len(args)
    BY LenProperties DEF BindTypes
  <2> QED
    BY <2>1, <2>2, <2>3
<1>4. /\ Cardinality(todo') = Cardinality(todo) - 1
      /\ Cardinality(todo) \in Nat /\ Cardinality(query.params) \in Nat
  <2>1. IsFiniteSet(todo)
    BY <1>1, FS_Subset DEF BindTypes
  <2> QED
    BY <1>1, <1>2, <2>1, FS_RemoveElement, FS_CardinalityType
<1>5. ASSUME NEW i \in 1 .. n, sql[i].at = 0
      PROVE  sql[i].letters = text[i] /\ (Occurs(name, i) <=> IsPrefix(name, text[i]))
  <2>1. sql[i] = Named(text[i])
    BY <1>3, <1>5 DEF PlaceOfValue
  <2> QED
    BY <1>5, <2>1 DEF Named, Occurs
<1>6. CASE ~Held(name)
  <2>1. sql' = sql /\ args' = args
    BY <1>6 DEF PrepareQuery, Bind
  <2>2. BindTypes' /\ PlaceOfValue' /\ ValueUsed' /\ AllSeen'
    <3>1. Len(args') + Cardinality(todo') <= Cardinality(query.params)
      BY <1>3, <1>4, <2>1 DEF BindTypes
    <3>2. BindTypes'
      BY <1>2, <2>1, <3>1 DEF BindTypes
    <3> QED
      BY <1>2, <2>1, <3>2 DEF PlaceOfValue, ValueUsed, AllSeen
  <2>3. NoneMissed'
    <3>1. \A i \in DOMAIN sql : sql[i].at = 0 => ~IsPrefix(name, text[i])
      BY <1>3, <1>5, <1>6 DEF Held
    <3> QED
      BY <1>2, <2>1, <3>1 DEF NoneMissed
  <2> QED
    BY <2>2, <2>3
<1>7. CASE Held(name)
  <2>1. sql' = Replaced(name, k) /\ args' = Append(args, name)
    BY <1>7 DEF PrepareQuery, Bind
  <2>2. /\ args' \in Seq(query.params) /\ Len(args') = k /\ args'[k] = name
        /\ \A j \in 1 .. Len(args) : args'[j] = args[j]
    BY <1>2, <2>1, AppendProperties DEF BindTypes
  <2>3. DOMAIN args' = 1 .. k /\ k \in Nat
    BY <1>3, <2>2, LenProperties
  <2>4. ASSUME NEW i \in 1 .. n, Occurs(name, i)
        PROVE  /\ Replaced(name, k)[i] \in Place /\ Replaced(name, k)[i].at = k
               /\ Replaced(name, k)[i].letters = After(name, sql[i].letters)
    <3> DEFINE l == sql[i].letters
               rest == SubSeq(l, Len(name) + 1, Len(l))
    <3>1. l \in Seq(Letter)
      BY <1>3 DEF Place
    <3>2. Len(l) \in Nat /\ Len(name) \in Nat
      BY <1>2, <3>1, LenProperties
    <3>3. \A j \in Len(name) + 1 .. Len(l) : l[j] \in Letter
      BY <3>1, <3>2, ElementOfSeq
    <3>4. rest \in Seq(Letter)
      <4> HIDE DEF l
      <4> QED
        BY <3>2, <3>3, SubSeqProperties
    <3>5. Replaced(name, k)[i] = [at |-> k, letters |-> rest]
      BY <1>3, <2>4 DEF Replaced
    <3>6. rest = After(name, sql[i].letters)
      BY DEF After
    <3> HIDE DEF rest
    <3> QED
      BY <2>3, <3>4, <3>5, <3>6 DEF Place
  <2>5. ASSUME NEW i \in 1 .. n, ~Occurs(name, i)
        PROVE  Replaced(name, k)[i] = sql[i]
    BY <1>3, <2>5 DEF Replaced
  <2>6. sql' \in Seq(Place) /\ Len(sql') = n /\ DOMAIN sql' = 1 .. n
    <3>1. DOMAIN Replaced(name, k) = 1 .. n
      BY <1>3 DEF Replaced
    <3>2. Replaced(name, k) \in [1 .. n -> Place]
      <4>1. \A i \in 1 .. n : Replaced(name, k)[i] \in Place
        BY <1>3, <2>4, <2>5
      <4>2. Replaced(name, k) = [i \in 1 .. n |-> Replaced(name, k)[i]]
        BY <3>1 DEF Replaced
      <4> QED
        BY <4>1, <4>2
    <3>3. n \in Nat
      BY <1>3
    <3> HIDE DEF n
    <3> QED
      BY <2>1, <3>2, <3>3, IsSequence
  <2>7. BindTypes'
    <3>1. Len(args') + Cardinality(todo') <= Cardinality(query.params)
      BY <1>3, <1>4, <2>2 DEF BindTypes
    <3> QED
      BY <1>2, <2>2, <2>6, <3>1 DEF BindTypes
  <2>8. ASSUME NEW i \in 1 .. n
        PROVE  /\ sql'[i].at \in 0 .. Len(args')
               /\ IF sql'[i].at = 0 THEN sql'[i] = Named(text[i])
                  ELSE Taken(sql'[i], args'[sql'[i].at], text[i])
    <3>1. CASE Occurs(name, i)
      <4>1. sql'[i].at = k /\ Taken(sql'[i], name, text[i])
        BY <1>5, <2>1, <2>4, <3>1 DEF Occurs, Taken
      <4> QED
        BY <1>3, <2>2, <2>3, <4>1
    <3>2. CASE ~Occurs(name, i)
      <4>1. sql'[i] = sql[i]
        BY <2>1, <2>5, <3>2
      <4>2. /\ sql[i].at \in 0 .. Len(args)
            /\ IF sql[i].at = 0 THEN sql[i] = Named(text[i])
               ELSE Taken(sql[i], args[sql[i].at], text[i])
        BY <1>3 DEF PlaceOfValue
      <4> QED
        BY <1>3, <2>2, <4>1, <4>2
    <3> QED
      BY <3>1, <3>2
  <2>9. PlaceOfValue'
    BY <1>2, <2>6, <2>8 DEF PlaceOfValue
  <2>10. ValueUsed'
    <3>1. ASSUME NEW j \in 1 .. k
          PROVE  \E i \in 1 .. n : sql'[i].at = j
      <4>1. CASE j = k
        <5>1. PICK i \in DOMAIN sql : Occurs(name, i)
          BY <1>7 DEF Held
        <5> QED
          BY <1>3, <2>1, <2>4, <4>1, <5>1
      <4>2. CASE j # k
        <5>1. j \in DOMAIN args
          BY <1>3, <4>2
        <5>2. PICK i \in DOMAIN sql : sql[i].at = j
          BY <5>1 DEF ValueUsed
        <5>3. ~Occurs(name, i) /\ i \in 1 .. n
          BY <1>3, <5>1, <5>2 DEF Occurs
        <5> QED
          BY <2>1, <2>5, <5>2, <5>3
      <4> QED
        BY <4>1, <4>2
    <3> QED
      BY <2>3, <2>6, <3>1 DEF ValueUsed
  <2>11. NoneMissed'
    <3>1. ASSUME NEW i \in 1 .. n, sql'[i].at = 0
          PROVE  sql[i].at = 0 /\ ~IsPrefix(name, text[i])
      <4>1. ~Occurs(name, i)
        BY <1>3, <2>1, <2>4, <3>1
      <4>2. sql[i].at = 0
        BY <2>1, <2>5, <3>1, <4>1
      <4> QED
        BY <1>5, <4>1, <4>2
    <3> QED
      BY <1>2, <1>3, <2>6, <3>1 DEF NoneMissed
  <2>12. AllSeen'
    BY <1>2 DEF AllSeen
  <2> QED
    BY <2>7, <2>9, <2>10, <2>11, <2>12
<1> QED
  BY <1>6, <1>7
LEMMA BindStays ==
    ASSUME BindInv, UNCHANGED <<query, sql, args, todo>>,
           stage' \in {"idle", "prepare", "ready", "answered", "refused"},
           stage' \in {"prepare", "ready"} => stage \in {"prepare", "ready"},
           stage' = "ready" => todo = {}
    PROVE  BindInv'
BY DEF BindInv, BindTypes, PlaceOfValue, ValueUsed, NoneMissed, AllSeen

LEMMA BindGoesOn == BindInv /\ [ReadNext]_readVars => BindInv'
<1> SUFFICES ASSUME BindInv, [ReadNext]_readVars
             PROVE  BindInv'
  OBVIOUS
<1>1. ASSUME NEW q \in Queries, Execute(q)
      PROVE  BindInv'
  BY <1>1, NothingBound DEF Execute
<1>2. ASSUME NEW name \in todo, PrepareQuery(name)
      PROVE  BindInv'
  BY <1>2, PrepareBinds
<1>3. CASE Prepared
  BY <1>3, BindStays DEF Prepared
<1>4. CASE RunQuery
  BY <1>4, BindStays DEF RunQuery
<1>5. CASE Answer
  <2>1. query' = NoQuery /\ query'.text = <<>>
    BY <1>5 DEF Answer, NoQuery
  <2>2. sql' = [i \in DOMAIN query'.text |-> Named(query'.text[i])]
    BY <1>5, <2>1 DEF Answer
  <2> QED
    BY <1>5, <2>1, <2>2, NothingBound DEF Answer
<1>6. CASE UNCHANGED executing
  BY <1>6, BindStays DEF executing, BindInv, BindTypes, AllSeen
<1>7. CASE Insert \/ ListSymbols \/ ListFails
  BY <1>6, <1>7 DEF Insert, ListSymbols, ListFails
<1>8. ASSUME NEW token \in Start, BeginListing(token)
      PROVE  BindInv'
  BY <1>6, <1>8 DEF BeginListing
<1>9. CASE UNCHANGED readVars
  BY <1>6, <1>9 DEF readVars, executing
<1> QED
  BY <1>1, <1>2, <1>3, <1>4, <1>5, <1>7, <1>8, <1>9 DEF ReadNext

(* What is left of a name begins with what follows its parameter's name.    *)
LEMMA LeftOver ==
    ASSUME NEW name \in Seq(Letter), NEW letters \in Seq(Letter),
           IsPrefix(name, letters), After(name, letters) # <<>>
    PROVE  /\ IsStrictPrefix(name, letters)
           /\ After(name, letters)[1] = letters[Len(name) + 1]
<1>1. Len(name) \in Nat /\ Len(letters) \in Nat
  BY LenProperties
<1>2. Len(name) + 1 <= Len(letters)
  <2>1. CASE Len(letters) < Len(name) + 1
    BY <1>1, <2>1, SubSeqEmpty DEF After
  <2> QED
    BY <1>1, <2>1
<1>3. \A j \in Len(name) + 1 .. Len(letters) : letters[j] \in Letter
  BY <1>1, ElementOfSeq
<1>4. \A j \in 1 .. Len(letters) - (Len(name) + 1) + 1 :
         After(name, letters)[j] = letters[(Len(name) + 1) + j - 1]
  BY <1>1, <1>3, SubSeqProperties DEF After
<1>5. /\ 1 \in 1 .. Len(letters) - (Len(name) + 1) + 1
      /\ (Len(name) + 1) + 1 - 1 = Len(name) + 1
  BY <1>1, <1>2
<1>6. After(name, letters)[1] = letters[Len(name) + 1]
  BY <1>4, <1>5
<1>7. name # letters
  BY <1>1, <1>2
<1> QED
  BY <1>6, <1>7 DEF IsStrictPrefix

LEMMA BindSays == BindInv => BoundByName
<1> SUFFICES ASSUME BindInv, stage = "ready"
             PROVE  /\ DigitFree => Positions = DOMAIN args
                    /\ PrefixFree => \A i \in DOMAIN sql :
                          IF query.text[i] \in query.params
                          THEN sql[i].at # 0 /\ args[PositionRead(i)] = query.text[i]
                          ELSE sql[i] = Named(query.text[i])
  BY DEF BoundByName
<1> USE DEF BindInv
<1>1. /\ DOMAIN args = 1 .. Len(args) /\ Len(args) \in Nat
      /\ DOMAIN sql = DOMAIN query.text
      /\ \A k \in DOMAIN args : args[k] \in query.params /\ args[k] \in Seq(Letter)
      /\ \A i \in DOMAIN query.text : query.text[i] \in Seq(Letter)
  <2>1. DOMAIN args = 1 .. Len(args) /\ Len(args) \in Nat
    BY LenProperties DEF BindTypes
  <2>2. \A k \in DOMAIN args : args[k] \in query.params /\ args[k] \in Seq(Letter)
    BY <2>1, ElementOfSeq, QueryTypes DEF BindTypes
  <2>3. query.text \in Seq(Seq(Letter)) /\ DOMAIN query.text = 1 .. Len(query.text)
    BY QueryTypes, LenProperties DEF BindTypes
  <2>4. DOMAIN sql = DOMAIN query.text
    BY <2>3, LenProperties DEF BindTypes
  <2>5. \A i \in DOMAIN query.text : query.text[i] \in Seq(Letter)
    BY <2>3, ElementOfSeq
  <2> QED
    BY <2>1, <2>2, <2>4, <2>5
<1>2. ASSUME NEW i \in DOMAIN sql, sql[i].at # 0
      PROVE  sql[i].at \in DOMAIN args /\ Taken(sql[i], args[sql[i].at], query.text[i])
  BY <1>1, <1>2 DEF PlaceOfValue
<1>3. ASSUME DigitFree, NEW i \in DOMAIN sql, sql[i].at # 0
      PROVE  PositionRead(i) = sql[i].at
  <2> DEFINE name == args[sql[i].at]
             text == query.text[i]
  <2>1. /\ name \in Seq(Letter) /\ text \in Seq(Letter) /\ name \in query.params
        /\ IsPrefix(name, text) /\ sql[i].letters = After(name, text)
    BY <1>1, <1>2, <1>3 DEF Taken
  <2>2. ASSUME DigitFollows(i)
        PROVE  FALSE
    <3>1. After(name, text) # <<>> /\ After(name, text)[1] \in DOMAIN DigitOf
      BY <2>1, <2>2 DEF DigitFollows
    <3>2. /\ IsStrictPrefix(name, text)
          /\ After(name, text)[1] = text[Len(name) + 1]
      BY <2>1, <3>1, LeftOver
    <3> QED
      BY <1>1, <1>3, <2>1, <3>1, <3>2 DEF DigitFree
  <2> QED
    BY <2>2 DEF PositionRead
<1>4. ASSUME DigitFree
      PROVE  Positions = DOMAIN args
  <2>1. Positions \subseteq DOMAIN args
    BY <1>2, <1>3, <1>4 DEF Positions
  <2>2. ASSUME NEW k \in DOMAIN args
        PROVE  k \in Positions
    <3>1. PICK i \in DOMAIN sql : sql[i].at = k
      BY DEF ValueUsed
    <3>2. sql[i].at # 0
      BY <1>1, <3>1
    <3>3. PositionRead(i) = k
      BY <1>3, <1>4, <3>1, <3>2
    <3> QED
      BY <3>2, <3>3 DEF Positions
  <2> QED
    BY <2>1, <2>2
<1>5. PrefixFree => DigitFree
  BY DEF PrefixFree, DigitFree, IsStrictPrefix
<1>6. ASSUME PrefixFree, NEW i \in DOMAIN sql
      PROVE  IF query.text[i] \in query.params
             THEN sql[i].at # 0 /\ args[PositionRead(i)] = query.text[i]
             ELSE sql[i] = Named(query.text[i])
  <2>1. ASSUME sql[i].at # 0
        PROVE  /\ args[PositionRead(i)] = query.text[i]
               /\ query.text[i] \in query.params
    <3>1. sql[i].at \in DOMAIN args /\ IsPrefix(args[sql[i].at], query.text[i])
      BY <1>2, <2>1 DEF Taken
    <3>2. PositionRead(i) = sql[i].at
      BY <1>3, <1>5, <1>6, <2>1
    <3> QED
      BY <1>1, <1>6, <3>1, <3>2 DEF PrefixFree
  <2>2. ASSUME query.text[i] \in query.params
        PROVE  sql[i].at # 0
    <3>1. IsPrefix(query.text[i], query.text[i])
      <4>1. query.text[i] \in Seq(Letter)
        BY <1>1, <1>6
      <4> QED
        BY <4>1, LenProperties DEF IsPrefix
    <3> QED
      BY <2>2, <3>1 DEF NoneMissed, AllSeen
  <2>3. sql[i].at = 0 => sql[i] = Named(query.text[i])
    BY DEF PlaceOfValue
  <2> QED
    BY <2>1, <2>2, <2>3
<1> QED
  BY <1>4, <1>6

-----------------------------------------------------------------------------
(* Pages.  A page holds what comes after its token, up to its own token,    *)
(* which it leaves out; so between the first token of a listing and its     *)
(* last one only tokens are missing of what was there all along.            *)

ListingTypes ==
    /\ symbols \subseteq Symbol
    /\ listing \in [before : SUBSET Symbol, tokens : Seq(Nat),
                    got : Seq(Symbol), open : BOOLEAN]
    /\ listing.open => listing.tokens # <<>> /\ listing.before \subseteq symbols
Increasing ==
    \A i, j \in DOMAIN listing.got : i < j => listing.got[i] < listing.got[j]
BelowToken ==
    listing.open /\ Last(listing.tokens) # 0 =>
        \A i \in DOMAIN listing.got : listing.got[i] < Last(listing.tokens)
Given(s) == s \in Range(listing.got) \cup Range(listing.tokens)
GivenToToken ==
    /\ listing.open =>
          \A s \in listing.before :
              listing.tokens[1] < s /\ s <= Last(listing.tokens) => Given(s)
    /\ ~listing.open /\ listing.tokens # <<>> =>
          \A s \in listing.before : listing.tokens[1] < s => Given(s)

ListingInv == ListingTypes /\ Increasing /\ BelowToken /\ GivenToToken

LEMMA RangeAppended ==
    ASSUME NEW S, NEW seq \in Seq(S), NEW e \in S
    PROVE  Range(Append(seq, e)) = Range(seq) \cup {e}
<1> DEFINE a == Append(seq, e)
           n == Len(seq)
<1>1. /\ n \in Nat /\ DOMAIN seq = 1 .. n /\ DOMAIN a = 1 .. n + 1
      /\ a[n + 1] = e /\ \A i \in 1 .. n : a[i] = seq[i]
  BY AppendProperties, LenProperties
<1> HIDE DEF a, n
<1>2. DOMAIN a = DOMAIN seq \cup {n + 1}
  BY <1>1
<1>3. \A i \in DOMAIN seq : a[i] = seq[i]
  BY <1>1
<1>4. ASSUME NEW x \in Range(a)
      PROVE  x \in Range(seq) \cup {e}
  <2>1. PICK i \in DOMAIN a : a[i] = x
    BY DEF Range
  <2>2. i \in DOMAIN seq \/ i = n + 1
    BY <1>2, <2>1
  <2>3. CASE i \in DOMAIN seq
    BY <1>3, <2>1, <2>3 DEF Range
  <2> QED
    BY <1>1, <2>1, <2>2, <2>3
<1>5. Range(seq) \subseteq Range(a) /\ e \in Range(a)
  <2>1. n + 1 \in DOMAIN a /\ a[n + 1] = e
    BY <1>1, <1>2
  <2>2. ASSUME NEW x \in Range(seq)
        PROVE  x \in Range(a)
    <3>1. PICK i \in DOMAIN seq : seq[i] = x
      BY DEF Range
    <3> QED
      BY <1>2, <1>3, <3>1 DEF Range
  <2> QED
    BY <2>1, <2>2 DEF Range
<1> QED
  BY <1>4, <1>5 DEF a

LEMMA PageGives ==
    ASSUME NEW token \in Nat, symbols \subseteq Symbol,
           NEW rows \in Seq(Symbol), Len(rows) <= PageSize + 1,
           Selected(rows, token, PageSize + 1)
    PROVE  /\ Page(rows).symbols \in Seq(Symbol)
           /\ Page(rows).next \in Symbol \cup {0}
           /\ Page(rows).next # 0 => token < Page(rows).next
           /\ \A i, j \in DOMAIN Page(rows).symbols :
                 i < j => Page(rows).symbols[i] < Page(rows).symbols[j]
           /\ \A i \in DOMAIN Page(rows).symbols :
                 /\ token < Page(rows).symbols[i]
                 /\ Page(rows).next # 0 => Page(rows).symbols[i] < Page(rows).next
           /\ \A s \in symbols :
                 /\ token < s
                 /\ Page(rows).next # 0 => s <= Page(rows).next
                 => s = Page(rows).next \/ s \in Range(Page(rows).symbols)
<1>0. /\ PageSize \in Nat \ {0} /\ PageSize \in Int
      /\ \/ Len(rows) <= PageSize /\ ~(Len(rows) > PageSize) /\ Len(rows) # PageSize + 1
         \/ Len(rows) > PageSize /\ Len(rows) = PageSize + 1
  <2>1. Len(rows) \in Nat
    BY LenProperties
  <2>2. PageSize \in Nat \ {0}
    BY PageAssumption
  <2> QED
    BY <2>1, <2>2
<1>1. /\ Len(rows) \in Nat /\ DOMAIN rows = 1 .. Len(rows)
      /\ \A i \in 1 .. Len(rows) : rows[i] \in Symbol /\ rows[i] \in Nat \ {0}
      /\ PageSize \in Nat \ {0}
  BY LenProperties, ElementOfSeq, SymbolAssumption, PageAssumption
<1>2. /\ \A i, j \in 1 .. Len(rows) : i < j => rows[i] < rows[j]
      /\ \A i \in 1 .. Len(rows) : rows[i] > token
      /\ \A s \in symbols \ Range(rows) : s > token =>
            Len(rows) = PageSize + 1 /\ \A i \in 1 .. Len(rows) : rows[i] < s
  BY <1>1 DEF Selected
<1>3. Range(rows) = {rows[i] : i \in 1 .. Len(rows)}
  BY <1>1 DEF Range
<1>4. CASE Len(rows) <= PageSize
  <2>1. Page(rows).symbols = rows /\ Page(rows).next = 0
    BY <1>0, <1>4 DEF Page
  <2>2. ASSUME NEW s \in symbols, token < s
        PROVE  s \in Range(rows)
    <3>1. Len(rows) # PageSize + 1
      BY <1>0, <1>4
    <3> QED
      BY <1>2, <2>2, <3>1
  <2> QED
    BY <1>1, <1>2, <2>1, <2>2
<1>5. CASE Len(rows) > PageSize
  <2> DEFINE page == SubSeq(rows, 1, PageSize)
  <2>1. Len(rows) = PageSize + 1 /\ PageSize \in Nat \ {0} /\ PageSize \in Int
    BY <1>0, <1>5
  <2>2. \A i \in 1 .. PageSize : rows[i] \in Symbol
    BY <1>1, <2>1
  <2>3. /\ page \in Seq(Symbol) /\ Len(page) = PageSize
        /\ \A i \in 1 .. PageSize : page[i] = rows[i]
    <3>1. /\ page \in Seq(Symbol)
          /\ Len(page) = IF 1 <= PageSize THEN PageSize - 1 + 1 ELSE 0
          /\ \A i \in 1 .. PageSize - 1 + 1 : page[i] = rows[1 + i - 1]
      BY <2>1, <2>2, SubSeqProperties
    <3> HIDE DEF page
    <3> QED
      BY <2>1, <3>1
  <2>4. Page(rows).symbols = page /\ Page(rows).next = rows[PageSize + 1]
    BY <1>5 DEF Page
  <2> HIDE DEF page
  <2>5. DOMAIN page = 1 .. PageSize
    BY <2>3, LenProperties
  <2>6. rows[PageSize + 1] \in Symbol /\ rows[PageSize + 1] \in Nat \ {0}
    BY <1>1, <2>1
  <2>7. \A i, j \in DOMAIN page : i < j => page[i] < page[j]
    BY <1>2, <2>1, <2>3, <2>5
  <2>8. \A i \in DOMAIN page : token < page[i] /\ page[i] < rows[PageSize + 1]
    BY <1>1, <1>2, <2>1, <2>3, <2>5
  <2>9. ASSUME NEW s \in symbols, token < s, s <= rows[PageSize + 1]
        PROVE  s = rows[PageSize + 1] \/ s \in Range(page)
    <3>1. s \in Nat
      BY SymbolAssumption
    <3>2. s \in Range(rows)
      BY <1>2, <2>1, <2>6, <2>9, <3>1
    <3>3. PICK i \in 1 .. Len(rows) : s = rows[i]
      BY <1>3, <3>2
    <3>4. i # PageSize + 1 => s = page[i] /\ i \in DOMAIN page
      BY <2>1, <2>3, <2>5, <3>3
    <3> QED
      BY <3>3, <3>4 DEF Range
  <2>10. token < rows[PageSize + 1]
    BY <1>1, <1>2, <2>1
  <2> QED
    BY <2>3, <2>4, <2>6, <2>7, <2>8, <2>9, <2>10
<1> QED
  BY <1>1, <1>4, <1>5
LEMMA ListingStays ==
    ASSUME ListingInv, listing' = listing, symbols \subseteq symbols',
           symbols' \subseteq Symbol
    PROVE  ListingInv'
<1>1. ListingTypes'
  BY DEF ListingInv, ListingTypes
<1>2. Increasing' /\ BelowToken'
  BY DEF ListingInv, Increasing, BelowToken
<1>3. GivenToToken'
  BY DEF ListingInv, GivenToToken, Given
<1> QED
  BY <1>1, <1>2, <1>3 DEF ListingInv

LEMMA ListingFacts ==
    ASSUME ListingTypes
    PROVE  /\ listing.got \in Seq(Symbol) /\ listing.tokens \in Seq(Nat)
           /\ Len(listing.got) \in Nat /\ Len(listing.tokens) \in Nat
           /\ DOMAIN listing.got = 1 .. Len(listing.got)
           /\ DOMAIN listing.tokens = 1 .. Len(listing.tokens)
           /\ \A i \in DOMAIN listing.got : listing.got[i] \in Nat \ {0}
           /\ listing.tokens # <<>> =>
                 /\ 1 <= Len(listing.tokens) /\ listing.tokens[1] \in Nat
                 /\ Last(listing.tokens) \in Nat
           /\ listing.before \subseteq Nat \ {0}
<1>1. /\ listing.got \in Seq(Symbol) /\ listing.tokens \in Seq(Nat)
      /\ listing.before \subseteq Symbol
  BY DEF ListingTypes
<1>2. /\ Len(listing.got) \in Nat /\ DOMAIN listing.got = 1 .. Len(listing.got)
      /\ \A i \in 1 .. Len(listing.got) : listing.got[i] \in Symbol
  BY <1>1, LenProperties, ElementOfSeq
<1>3. /\ Len(listing.tokens) \in Nat
      /\ DOMAIN listing.tokens = 1 .. Len(listing.tokens)
      /\ \A i \in 1 .. Len(listing.tokens) : listing.tokens[i] \in Nat
  BY <1>1, LenProperties, ElementOfSeq
<1>4. ASSUME listing.tokens # <<>>
      PROVE  /\ 1 <= Len(listing.tokens) /\ listing.tokens[1] \in Nat
             /\ Last(listing.tokens) \in Nat
  <2>1. Len(listing.tokens) \in Nat \ {0}
    BY <1>1, <1>4, EmptySeq
  <2>2. 1 \in 1 .. Len(listing.tokens) /\ Len(listing.tokens) \in 1 .. Len(listing.tokens)
    BY <2>1
  <2> QED
    BY <1>3, <2>1, <2>2 DEF Last
<1>5. Symbol \subseteq Nat \ {0}
  BY SymbolAssumption
<1> QED
  BY <1>1, <1>2, <1>3, <1>4, <1>5

LEMMA ListingBegins ==
    ASSUME ListingInv, NEW token \in Start, BeginListing(token)
    PROVE  ListingInv'
<1>1. /\ symbols' = symbols /\ symbols \subseteq Symbol
      /\ listing' = [before |-> symbols, tokens |-> <<token>>, got |-> <<>>, open |-> TRUE]
  BY DEF BeginListing, ListingInv, ListingTypes
<1>2. /\ listing'.before = symbols /\ listing'.tokens = <<token>>
      /\ listing'.got = <<>> /\ listing'.open = TRUE
  BY <1>1
<1>3. token \in Nat
  BY PageAssumption
<1>4. /\ <<token>> \in Seq(Nat) /\ <<token>> # <<>>
      /\ Len(<<token>>) = 1 /\ <<token>>[1] = token
  BY <1>3
<1>5. <<>> \in Seq(Symbol) /\ DOMAIN listing'.got = {}
  BY <1>2, EmptySeq
<1>6. ListingTypes'
  BY <1>1, <1>2, <1>4, <1>5 DEF ListingTypes
<1>7. Increasing' /\ BelowToken'
  BY <1>5 DEF Increasing, BelowToken
<1>8. GivenToToken'
  <2>1. listing'.tokens[1] = token /\ Last(listing'.tokens) = token /\ token \in Nat
    BY <1>2, <1>3, <1>4, SymbolAssumption DEF Last
  <2>2. \A s \in listing'.before : ~(listing'.tokens[1] < s /\ s <= Last(listing'.tokens))
    BY <1>1, <1>2, <2>1, SymbolAssumption
  <2> QED
    BY <1>2, <2>2 DEF GivenToToken
<1> QED
  BY <1>6, <1>7, <1>8 DEF ListingInv

LEMMA ListingGoesOn ==
    ASSUME ListingInv, ListSymbols
    PROVE  ListingInv'
<1> USE DEF ListingInv
<1> DEFINE old == listing.got
           t == listing.tokens
           k == Last(listing.tokens)
<1>1. PICK rows \in BoundedSeq(Symbol, PageSize + 1) :
         /\ Selected(rows, k, PageSize + 1)
         /\ listing' = [listing EXCEPT !.got = @ \o Page(rows).symbols,
                                       !.tokens = Append(@, Page(rows).next),
                                       !.open = Page(rows).next # 0]
  BY DEF ListSymbols
<1> DEFINE page == Page(rows).symbols
           next == Page(rows).next
<1>2. /\ listing.open /\ k # 0 /\ symbols' = symbols /\ symbols \subseteq Symbol
      /\ listing.before \subseteq symbols /\ t # <<>>
  BY DEF ListSymbols, ListingTypes
<1>3. /\ old \in Seq(Symbol) /\ t \in Seq(Nat)
      /\ Len(old) \in Nat /\ Len(t) \in Nat /\ 1 <= Len(t)
      /\ DOMAIN old = 1 .. Len(old) /\ DOMAIN t = 1 .. Len(t)
      /\ \A i \in DOMAIN old : old[i] \in Nat \ {0}
      /\ k \in Nat /\ listing.before \subseteq Nat \ {0} /\ t[1] \in Nat
  BY <1>2, ListingFacts
<1>4. rows \in Seq(Symbol) /\ Len(rows) <= PageSize + 1
  <2>1. PICK m \in 0 .. PageSize + 1 : rows \in [1 .. m -> Symbol]
    BY <1>1 DEF BoundedSeq, SeqOf
  <2>2. m \in Nat /\ m <= PageSize + 1
    BY <2>1, PageAssumption
  <2> QED
    BY <2>1, <2>2, IsSequence
<1>5. /\ page \in Seq(Symbol) /\ next \in Symbol \cup {0}
      /\ next # 0 => k < next
      /\ \A i, j \in DOMAIN page : i < j => page[i] < page[j]
      /\ \A i \in DOMAIN page : k < page[i] /\ (next # 0 => page[i] < next)
      /\ \A s \in symbols :
            k < s /\ (next # 0 => s <= next) => s = next \/ s \in Range(page)
  BY <1>1, <1>2, <1>3, <1>4, PageGives
<1>6. /\ listing'.before = listing.before /\ listing'.got = old \o page
      /\ listing'.tokens = Append(t, next) /\ listing'.open = (next # 0)
      /\ listing' \in [before : SUBSET Symbol, tokens : Seq(Nat),
                       got : Seq(Symbol), open : BOOLEAN]
  <2>1. /\ listing \in [before : SUBSET Symbol, tokens : Seq(Nat),
                        got : Seq(Symbol), open : BOOLEAN]
    BY DEF ListingTypes
  <2> HIDE DEF page, next
  <2>2. old \o page \in Seq(Symbol) /\ Append(t, next) \in Seq(Nat)
    <3>1. next \in Nat
      BY <1>5, SymbolAssumption
    <3> QED
      BY <1>3, <1>5, <3>1, ConcatProperties, AppendProperties
  <2>3. listing' = [listing EXCEPT !.got = old \o page, !.tokens = Append(t, next),
                                   !.open = (next # 0)]
    BY <1>1 DEF page, next
  <2> QED
    BY <2>1, <2>2, <2>3
<1> HIDE DEF page, next, t, k, old
<1>7. /\ Append(t, next) # <<>> /\ Len(Append(t, next)) = Len(t) + 1
      /\ Append(t, next)[Len(t) + 1] = next
      /\ Append(t, next)[1] = t[1]
      /\ Range(Append(t, next)) = Range(t) \cup {next}
  <2>1. /\ Append(t, next) \in Seq(Nat) /\ Append(t, next) # <<>>
        /\ Len(Append(t, next)) = Len(t) + 1
        /\ Append(t, next)[Len(t) + 1] = next
        /\ \A i \in 1 .. Len(t) : Append(t, next)[i] = t[i]
    <3>1. next \in Nat
      BY <1>5, SymbolAssumption
    <3> QED
      BY <1>3, <3>1, AppendProperties
  <2>2. 1 \in 1 .. Len(t)
    BY <1>3
  <2>3. Range(Append(t, next)) = Range(t) \cup {next}
    <3>1. next \in Nat
      BY <1>5, SymbolAssumption
    <3> QED
      BY <1>3, <3>1, RangeAppended
  <2> QED
    BY <2>1, <2>2, <2>3
<1>8. Last(listing'.tokens) = next /\ listing'.tokens[1] = t[1]
  BY <1>6, <1>7 DEF Last
<1>9. /\ Range(old \o page) = Range(old) \cup Range(page)
      /\ DOMAIN page = 1 .. Len(page) /\ Len(page) \in Nat
      /\ DOMAIN (old \o page) = 1 .. Len(old) + Len(page)
      /\ \A i \in 1 .. Len(old) + Len(page) :
            (old \o page)[i] = IF i <= Len(old) THEN old[i] ELSE page[i - Len(old)]
      /\ \A i \in 1 .. Len(page) : page[i] \in Nat \ {0}
  <2>1. Range(old \o page) = Range(old) \cup Range(page)
    BY <1>3, <1>5, RangeConcatenation
  <2>2. /\ old \o page \in Seq(Symbol) /\ Len(old \o page) = Len(old) + Len(page)
        /\ \A i \in 1 .. Len(old) + Len(page) :
              (old \o page)[i] = IF i <= Len(old) THEN old[i] ELSE page[i - Len(old)]
    BY <1>3, <1>5, ConcatProperties
  <2>3. DOMAIN (old \o page) = 1 .. Len(old) + Len(page)
    BY <2>2, LenProperties
  <2>4. DOMAIN page = 1 .. Len(page) /\ Len(page) \in Nat
    BY <1>5, LenProperties
  <2>5. \A i \in 1 .. Len(page) : page[i] \in Nat \ {0}
    BY <1>5, ElementOfSeq, SymbolAssumption
  <2> QED
    BY <2>1, <2>2, <2>3, <2>4, <2>5
<1>10. ListingTypes'
  <2>1. listing'.tokens # <<>>
    BY <1>6, <1>7
  <2> QED
    BY <1>2, <1>6, <2>1 DEF ListingTypes
<1>11. \A i \in DOMAIN old : old[i] < k
  BY <1>2 DEF BelowToken, old, k
<1>12. ASSUME NEW i \in DOMAIN (old \o page)
       PROVE  IF i <= Len(old) THEN i \in DOMAIN old /\ (old \o page)[i] = old[i]
              ELSE i - Len(old) \in DOMAIN page /\ (old \o page)[i] = page[i - Len(old)]
  BY <1>3, <1>9
<1>13. Increasing'
  <2>1. ASSUME NEW i \in DOMAIN (old \o page), NEW j \in DOMAIN (old \o page), i < j
        PROVE  (old \o page)[i] < (old \o page)[j]
    <3>1. CASE j <= Len(old)
      <4>1. /\ i \in DOMAIN old /\ (old \o page)[i] = old[i]
            /\ j \in DOMAIN old /\ (old \o page)[j] = old[j]
        BY <1>3, <1>9, <1>12, <2>1, <3>1
      <4> QED
        BY <2>1, <4>1 DEF Increasing, old
    <3>2. CASE i <= Len(old) /\ ~(j <= Len(old))
      <4>1. /\ i \in DOMAIN old /\ (old \o page)[i] = old[i]
            /\ j - Len(old) \in DOMAIN page /\ (old \o page)[j] = page[j - Len(old)]
        BY <1>12, <3>2
      <4>2. old[i] < k /\ k < page[j - Len(old)]
        BY <1>5, <1>11, <4>1
      <4>3. old[i] \in Nat /\ page[j - Len(old)] \in Nat
        BY <1>3, <1>9, <4>1
      <4> QED
        BY <1>3, <4>1, <4>2, <4>3
    <3>3. CASE ~(i <= Len(old)) /\ ~(j <= Len(old))
      <4>1. /\ i - Len(old) \in DOMAIN page /\ (old \o page)[i] = page[i - Len(old)]
            /\ j - Len(old) \in DOMAIN page /\ (old \o page)[j] = page[j - Len(old)]
        BY <1>12, <3>3
      <4>2. i - Len(old) < j - Len(old)
        BY <1>3, <1>9, <2>1
      <4> QED
        BY <1>5, <4>1, <4>2
    <3> QED
      BY <1>3, <1>9, <2>1, <3>1, <3>2, <3>3
  <2> QED
    BY <1>6, <2>1 DEF Increasing
<1>14. BelowToken'
  <2>1. ASSUME next # 0, NEW i \in DOMAIN (old \o page)
        PROVE  (old \o page)[i] < next
    <3>1. CASE ~(i <= Len(old))
      BY <1>5, <1>12, <2>1, <3>1
    <3>2. CASE i <= Len(old)
      <4>1. i \in DOMAIN old /\ (old \o page)[i] = old[i] /\ old[i] < k
        BY <1>11, <1>12, <3>2
      <4>2. k < next
        BY <1>5, <2>1
      <4> QED
        BY <1>3, <1>5, <4>1, <4>2, SymbolAssumption
    <3> QED
      BY <3>1, <3>2
  <2> QED
    BY <1>6, <1>8, <2>1 DEF BelowToken
<1>15. GivenToToken'
  <2>1. ASSUME NEW s \in listing.before, t[1] < s, next # 0 => s <= next
        PROVE  s \in Range(old \o page) \cup Range(Append(t, next))
    <3>1. CASE s <= k
      <4>1. s \in Range(old) \cup Range(t)
        BY <1>2, <2>1, <3>1 DEF GivenToToken, Given, old, t, k
      <4> QED
        BY <1>7, <1>9, <4>1
    <3>2. CASE ~(s <= k)
      <4>1. k < s /\ s \in symbols
        BY <1>2, <1>3, <3>2
      <4>2. s = next \/ s \in Range(page)
        BY <1>5, <2>1, <4>1
      <4> QED
        BY <1>7, <1>9, <4>2
    <3> QED
      BY <3>1, <3>2
  <2> QED
    BY <1>6, <1>8, <2>1 DEF GivenToToken, Given
<1> QED
  BY <1>10, <1>13, <1>14, <1>15
LEMMA ListingInvGoesOn == ListingInv /\ [ReadNext]_readVars => ListingInv'
<1> SUFFICES ASSUME ListingInv, [ReadNext]_readVars
             PROVE  ListingInv'
  OBVIOUS
<1>1. symbols \subseteq Symbol
  BY DEF ListingInv, ListingTypes
<1>2. ASSUME NEW q \in Queries, Execute(q)
      PROVE  ListingInv'
  BY <1>1, <1>2, ListingStays DEF Execute
<1>3. ASSUME NEW name \in todo, PrepareQuery(name)
      PROVE  ListingInv'
  BY <1>1, <1>3, ListingStays DEF PrepareQuery
<1>4. CASE Prepared \/ RunQuery \/ Answer \/ UNCHANGED readVars
  BY <1>1, <1>4, ListingStays DEF Prepared, RunQuery, Answer, readVars
<1>5. CASE Insert
  <2>1. listing' = listing /\ symbols \subseteq symbols' /\ symbols' \subseteq Symbol
    BY <1>1, <1>5 DEF Insert
  <2> QED
    BY <2>1, ListingStays
<1>6. ASSUME NEW token \in Start, BeginListing(token)
      PROVE  ListingInv'
  BY <1>6, ListingBegins
<1>7. CASE ListSymbols
  BY <1>7, ListingGoesOn
<1>8. CASE ListFails
  <2>1. symbols' = symbols /\ listing' = NoListing
    BY <1>8 DEF ListFails
  <2>2. /\ listing'.before = {} /\ listing'.tokens = <<>> /\ listing'.got = <<>>
        /\ ~listing'.open /\ DOMAIN listing'.got = {}
    BY <2>1 DEF NoListing
  <2>3. ListingTypes'
    <3>1. NoListing \in [before : SUBSET Symbol, tokens : Seq(Nat),
                         got : Seq(Symbol), open : BOOLEAN]
      BY EmptySeq DEF NoListing
    <3> QED
      BY <1>1, <2>1, <2>2, <3>1 DEF ListingTypes
  <2>4. Increasing' /\ BelowToken' /\ GivenToToken'
    BY <2>2 DEF Increasing, BelowToken, GivenToToken
  <2> QED
    BY <2>3, <2>4 DEF ListingInv
<1> QED
  BY <1>2, <1>3, <1>4, <1>5, <1>6, <1>7, <1>8 DEF ReadNext

LEMMA ReadsBegin == ReadInit => BindInv /\ ListingInv
<1> SUFFICES ASSUME ReadInit
             PROVE  BindInv /\ ListingInv
  OBVIOUS
<1>1. /\ query.text = <<>> /\ query.params = {} /\ sql = <<>> /\ args = <<>>
      /\ todo = {} /\ stage = "idle" /\ query \in Queries \cup {NoQuery}
      /\ DOMAIN sql = {} /\ DOMAIN args = {}
  BY DEF ReadInit, NoQuery
<1>2. /\ \A S : <<>> \in Seq(S)
      /\ Len(<<>>) = 0 /\ Cardinality({}) = 0
  BY EmptySeq, FS_EmptySet
<1>3. BindTypes
  <2>1. Len(args) + Cardinality(todo) <= Cardinality(query.params)
    BY <1>1, <1>2
  <2>2. sql \in Seq(Place) /\ args \in Seq(query.params) /\ Len(sql) = Len(query.text)
    BY <1>1, <1>2
  <2> QED
    BY <1>1, <2>1, <2>2 DEF BindTypes
<1>4. BindInv
  BY <1>1, <1>3 DEF BindInv, PlaceOfValue, ValueUsed, NoneMissed, AllSeen
<1>5. /\ listing.before = {} /\ listing.tokens = <<>> /\ listing.got = <<>>
      /\ ~listing.open /\ DOMAIN listing.got = {} /\ symbols \subseteq Symbol
  BY DEF ReadInit, NoListing
<1>6. NoListing \in [before : SUBSET Symbol, tokens : Seq(Nat),
                     got : Seq(Symbol), open : BOOLEAN]
  BY <1>2 DEF NoListing
<1>7. ListingTypes
  BY <1>5, <1>6 DEF ReadInit, ListingTypes
<1>8. Increasing /\ BelowToken /\ GivenToToken
  BY <1>5 DEF Increasing, BelowToken, GivenToToken
<1> QED
  BY <1>4, <1>7, <1>8 DEF ListingInv

LEMMA ReadTypes == BindInv /\ ListingInv => ReadTypeOK
<1> SUFFICES ASSUME BindInv, ListingInv
             PROVE  ReadTypeOK
  OBVIOUS
<1> USE DEF BindInv
<1>1. IsFiniteSet(query.params) /\ IsFiniteSet(todo)
  BY QueryTypes, FS_Subset DEF BindTypes
<1>2. Len(args) <= Cardinality(query.params)
  <2>1. Len(args) \in Nat
    BY LenProperties DEF BindTypes
  <2>2. Cardinality(query.params) \in Nat /\ Cardinality(todo) \in Nat
    BY <1>1, FS_CardinalityType
  <2>3. Len(args) + Cardinality(todo) <= Cardinality(query.params)
    BY DEF BindTypes
  <2> QED
    BY <2>1, <2>2, <2>3
<1>3. Range(args) \subseteq query.params
  BY RangeOfSeq DEF BindTypes
<1>4. Range(listing.got) \subseteq Symbol /\ symbols \subseteq Symbol
  <2>1. listing.got \in Seq(Symbol) /\ symbols \subseteq Symbol
    BY DEF ListingInv, ListingTypes
  <2> QED
    BY <2>1, RangeOfSeq
<1>5. \A i \in DOMAIN sql : sql[i].at \in 0 .. Len(args)
  BY DEF PlaceOfValue
<1> QED
  BY <1>2, <1>3, <1>4, <1>5 DEF ReadTypeOK, BindTypes

-----------------------------------------------------------------------------
(* The theorems: what either way out keeps, whatever the other does.        *)

Inv == StreamInv /\ BindInv /\ ListingInv

LEMMA InvHolds == Spec => []Inv
<1>1. Init => Inv
  BY StreamsBegin, ReadsBegin DEF Init, Inv
<1>2. Inv /\ [Next]_vars => Inv'
  <2> SUFFICES ASSUME Inv, [Next]_vars
               PROVE  Inv'
    OBVIOUS
  <2>1. [StreamNext]_streamVars /\ [ReadNext]_readVars
    BY DEF Next, Live, Stored, vars
  <2> QED
    BY <2>1, StreamsGoOn, BindGoesOn, ListingInvGoesOn DEF Inv
<1> QED
  BY <1>1, <1>2, PTL DEF Spec

(* Every variable keeps its type: no channel is filled past its capacity, no
   call is sent more events than the topic has and Kafka gives again, no position
   is without a value. *)
THEOREM TypeCorrect == Spec => []TypeOK
<1>1. Inv => TypeOK
  BY ReadTypes DEF Inv, StreamInv, TypeOK
<1> QED
  BY <1>1, InvHolds, PTL

(* For any number of calls of either method, any log and any capacity, and
   however often Kafka ends a session or gives events again, what a client has
   and what is on its way to it is in the order of the topic and without a gap
   that no session of another call explains: StreamCandles, SubscribeCandles and
   Consume. *)
THEOREM StreamsCorrect == Spec => []NothingLostInside
<1>1. Inv => NothingLostInside
  BY DEF Inv, StreamInv, WholeStreams, Whole, NothingLostInside
<1> QED
  BY <1>1, InvHolds, PTL

(* The calls of the analytics-api share one consumer group: one of them at a time
   is in a session.  A call that is served has, or has on its way, every
   event of its symbol from any it has to the position of the group, which the
   sessions of all calls move, but for those the session of another call has
   taken; and what it has beyond the position Kafka gives again. *)
THEOREM SessionsCorrect == Spec => [](OneSession /\ UpToPosition)
<1>1. Inv => OneSession /\ UpToPosition
  BY DEF Inv, StreamInv
<1> QED
  BY <1>1, InvHolds, PTL

(* For any text and parameters and any order of the loop of prepareQuery, the
   database reads the positions of the values passed and no others, unless a digit
   follows the name of a parameter in a longer one; and each name has its own
   value if no parameter's name begins another name. *)
THEOREM BindingCorrect == Spec => []BoundByName
<1>1. Inv => BoundByName
  BY BindSays DEF Inv
<1> QED
  BY <1>1, InvHolds, PTL

(* For any symbols, size of page and first token, the pages of ListSymbols are
   in order, and leave out of what was there from the start only tokens. *)
THEOREM ListingCorrect == Spec => []ListingMissesTokensOnly
<1>1. Inv => ListingMissesTokensOnly
  <2> SUFFICES ASSUME Inv
               PROVE  ListingMissesTokensOnly
    OBVIOUS
  <2>1. listing.before \subseteq Nat \ {0}
    BY ListingFacts DEF Inv, ListingInv
  <2>2. listing.tokens # <<>> => listing.tokens[1] \in Nat
    BY ListingFacts DEF Inv, ListingInv
  <2>3. ASSUME ~listing.open, listing.tokens # <<>>, NEW s \in listing.before,
               s > listing.tokens[1]
        PROVE  s \in Range(listing.got) \cup Range(listing.tokens)
    <3>1. listing.tokens[1] < s
      BY <2>1, <2>2, <2>3
    <3> QED
      BY <2>3, <3>1 DEF Inv, ListingInv, GivenToToken, Given
  <2> QED
    BY <2>3 DEF Inv, ListingInv, Increasing, ListingMissesTokensOnly
<1> QED
  BY <1>1, InvHolds, PTL
=============================================================================

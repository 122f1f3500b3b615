----------------------------- MODULE CandleStreams -----------------------------
(***************************************************************************)
(* The live candles of the analytics-api.  A StreamCandles call is a        *)
(* goroutine that reads Kafka (the reader) and the one that sends to the    *)
(* client.  A SubscribeCandles call has two more between them: one handles  *)
(* the client's requests, the other relays events and warns a client that   *)
(* does not acknowledge.  All calls read through one consumer group, which  *)
(* serves one of them at a time: sarama holds a lock for a whole session.   *)
(* When Kafka ends a session Consume asks for another one, and a call that   *)
(* waits may be served before it.                                           *)
(*                                                                          *)
(* An event is its offset in the topic; the log gives its symbol.  Requests *)
(* are handled as they come: their channel is drained without waiting.      *)
(***************************************************************************)
EXTENDS Naturals, SequencesExt

CONSTANTS
    Call,       \* calls of clients
    Kind,       \* of a call: "stream" (StreamCandles) or "subscribe"
    SymbolOf,   \* the symbol a call asks for
    Log,        \* the symbols of the events of the topic
    Capacity,   \* of the channel of the reader and of that of the relay
    Window,     \* events a client may leave unacknowledged
    MaxBreaks,  \* bound of what goes wrong between the group and Kafka
    MaxLost     \* bound of the marks of one session that are not committed

ASSUME KindAssumption == Kind \in [Call -> {"stream", "subscribe"}]
ASSUME LogAssumption == Log \in Seq(Range(Log))
ASSUME CapacityAssumption == Capacity \in Nat \ {0} /\ Window \in Nat
ASSUME BreaksAssumption == MaxBreaks \in Nat /\ MaxLost \in Nat

Control == 0                    \* the message of flow control
Event == 1 .. Len(Log)
Message == Event \cup {Control}

VARIABLES
    rpc,       \* the method of a call: "none", "open" or "returned"
    gone,      \* the client has left: the context of the call is done
    requests,  \* the goroutine of the requests; "closed": it has closed the
               \* channel of answers, "ended": and cancelled the stream
    reader,    \* the goroutine that reads Kafka
    inbox,     \* the channel it fills
    relay,     \* the goroutine between that and the answers
    carried,   \* the event it holds; 0 for none
    answers,   \* the channel the method sends from
    counts,    \* sentCount and ackCount
    got,       \* what the client has received
    position,  \* the last event the group has marked
    committed, \* where its session began: what is committed for certain
    marked,    \* the calls in whose sessions an event was marked
    again,     \* events that were marked and come again
    breaks,    \* what went wrong between the group and Kafka
    crashed    \* a goroutine panicked: the process is gone

group == <<position, committed, marked, again, breaks>>
streamVars == <<rpc, gone, requests, reader, inbox, relay, carried, answers,
                counts, got, group, crashed>>

StreamTypeOK ==
    /\ rpc \in [Call -> {"none", "open", "returned"}]
    /\ gone \in [Call -> BOOLEAN] /\ crashed \in BOOLEAN
    /\ requests \in [Call -> {"none", "waiting", "started", "closed", "ended"}]
    /\ reader \in [Call -> {"none", "waiting", "session", "handing", "pausing",
                           "ended"}]
    /\ relay \in [Call -> {"none", "idle", "event", "sent", "warning", "ended"}]
    /\ inbox \in [Call -> Seq(Event)] /\ carried \in [Call -> Message]
    /\ answers \in [Call -> Seq(Message)] /\ got \in [Call -> Seq(Message)]
    /\ \A c \in Call : Len(inbox[c]) <= Capacity /\ Len(answers[c]) <= Capacity
    /\ counts \in [Call -> [sent : 0 .. Len(Log) * (breaks + 1), acked : Nat]]
    /\ position \in 0 .. Len(Log) /\ committed \in 0 .. position
    /\ marked \in [Event -> SUBSET Call] /\ again \subseteq Event
    /\ breaks \in 0 .. MaxBreaks

StreamInit ==
    /\ rpc = [c \in Call |-> "none"] /\ gone = [c \in Call |-> FALSE]
    /\ requests = [c \in Call |-> "none"] /\ reader = [c \in Call |-> "none"]
    /\ inbox = [c \in Call |-> <<>>] /\ relay = [c \in Call |-> "none"]
    /\ carried = [c \in Call |-> 0] /\ answers = [c \in Call |-> <<>>]
    /\ counts = [c \in Call |-> [sent |-> 0, acked |-> 0]]
    /\ got = [c \in Call |-> <<>>] /\ crashed = FALSE
    /\ position = 0 /\ committed = 0 /\ marked = [e \in Event |-> {}]
    /\ again = {} /\ breaks = 0

\* The context of the reader: that of the call, or the one the goroutine of
\* the requests cancels.
\* Mutant: a context that does not come from the call's.
ContextDetached(c) == requests[c] = "ended"
ContextDone(c) == gone[c] \/ rpc[c] = "returned" \/ requests[c] = "ended"

Set(f, c, value) == [f EXCEPT ![c] = value]

-----------------------------------------------------------------------------
(* The client and the requests.                                             *)

StreamCandles(c) ==
    /\ Kind[c] = "stream" /\ rpc[c] = "none"
    /\ rpc' = Set(rpc, c, "open") /\ reader' = Set(reader, c, "waiting")
    /\ UNCHANGED <<gone, requests, inbox, relay, carried, answers, counts, got,
                   group, crashed>>

SubscribeCandles(c) ==
    /\ Kind[c] = "subscribe" /\ rpc[c] = "none"
    /\ rpc' = Set(rpc, c, "open") /\ requests' = Set(requests, c, "waiting")
    /\ UNCHANGED <<gone, reader, inbox, relay, carried, answers, counts, got,
                   group, crashed>>

\* The first request starts the reader and the relay; another is passed over.
Subscribe(c) ==
    /\ requests[c] = "waiting" /\ ~gone[c]
    /\ requests' = Set(requests, c, "started")
    /\ reader' = Set(reader, c, "waiting") /\ relay' = Set(relay, c, "idle")
    /\ UNCHANGED <<rpc, gone, inbox, carried, answers, counts, got, group, crashed>>

Acknowledge(c) ==
    /\ requests[c] = "started" /\ ~gone[c]
    /\ counts[c].acked < Len(SelectSeq(got[c], LAMBDA e : e # Control))
    /\ counts' = [counts EXCEPT ![c].acked = @ + 1]
    /\ UNCHANGED <<rpc, gone, requests, reader, inbox, relay, carried, answers,
                   got, group, crashed>>

Leave(c) ==
    /\ rpc[c] = "open" /\ ~gone[c]
    /\ gone' = Set(gone, c, TRUE)
    /\ UNCHANGED <<rpc, requests, reader, inbox, relay, carried, answers, counts,
                   got, group, crashed>>

\* The client ends its requests, or Recv fails: the deferred close of the
\* answers runs before the deferred cancel.
RequestsEnd(c) ==
    /\ requests[c] \in {"waiting", "started"}
    /\ requests' = Set(requests, c, "closed")
    /\ UNCHANGED <<rpc, gone, reader, inbox, relay, carried, answers, counts, got,
                   group, crashed>>

CancelStream(c) ==
    /\ requests[c] = "closed"
    /\ requests' = Set(requests, c, "ended")
    /\ UNCHANGED <<rpc, gone, reader, inbox, relay, carried, answers, counts, got,
                   group, crashed>>

-----------------------------------------------------------------------------
(* The reader: ConsumeCandles inside Consume.                               *)

InSession(c) == reader[c] \in {"session", "handing"}

GroupFree == \A c \in Call : ~InSession(c)

SessionBegins(c) ==
    /\ reader[c] = "waiting" /\ GroupFree /\ ~ContextDone(c)
    /\ reader' = Set(reader, c, "session")
    /\ UNCHANGED <<rpc, gone, requests, inbox, relay, carried, answers, counts,
                   got, group, crashed>>

\* The lock of the group is waited for whatever the context says.
SessionRefused(c) ==
    /\ reader[c] = "waiting" /\ GroupFree /\ ContextDone(c)
    /\ reader' = Set(reader, c, "ended")
    /\ UNCHANGED <<rpc, gone, requests, inbox, relay, carried, answers, counts,
                   got, group, crashed>>

\* The next event: one of another symbol is marked and passed over.
Next1 == position + 1
Wanted(c) == Log[Next1] = SymbolOf[c]

MarkMessage(c) ==
    /\ position' = Next1 /\ marked' = [marked EXCEPT ![Next1] = @ \cup {c}]
    /\ UNCHANGED <<committed, again, breaks>>

Skip(c) ==
    /\ reader[c] = "session" /\ position < Len(Log) /\ ~Wanted(c)
    /\ MarkMessage(c)
    /\ UNCHANGED <<rpc, gone, requests, reader, inbox, relay, carried, answers,
                   counts, got, crashed>>

Take(c) ==
    /\ reader[c] = "session" /\ position < Len(Log) /\ Wanted(c)
    /\ reader' = Set(reader, c, "handing")
    /\ UNCHANGED <<rpc, gone, requests, inbox, relay, carried, answers, counts,
                   got, group, crashed>>

\* The handler sends into the channel, as a candle or as an error that it does
\* not parse, and looks at no context meanwhile; the event is then marked.
\* Mutant: an event is left out when the channel is full.
HandOrDrop(c) ==
    /\ reader[c] = "handing"
    /\ inbox' = IF Len(inbox[c]) < Capacity
                THEN [inbox EXCEPT ![c] = Append(@, Next1)] ELSE inbox
    /\ MarkMessage(c) /\ reader' = Set(reader, c, "session")
    /\ UNCHANGED <<rpc, gone, requests, relay, carried, answers, counts, got,
                   crashed>>
Hand(c) ==
    /\ reader[c] = "handing" /\ Len(inbox[c]) < Capacity
    /\ inbox' = [inbox EXCEPT ![c] = Append(@, Next1)]
    /\ MarkMessage(c) /\ reader' = Set(reader, c, "session")
    /\ UNCHANGED <<rpc, gone, requests, relay, carried, answers, counts, got,
                   crashed>>

\* The session is released: its marks are committed, in the background and at
\* the end, unless Kafka refuses some; the next one goes on from there.
Release(c, from) ==
    /\ position - from <= MaxLost
    /\ position' = from /\ committed' = from
    /\ again' = again \cup (from + 1 .. position)
    /\ UNCHANGED <<rpc, gone, requests, inbox, relay, carried, answers, counts,
                   got, marked, crashed>>

SessionEnds(c) ==
    /\ reader[c] = "session" /\ ContextDone(c)
    /\ \E from \in committed .. position :
          /\ Release(c, from)
          /\ breaks' = IF from < position THEN breaks + 1 ELSE breaks
          /\ breaks' <= MaxBreaks
    /\ reader' = Set(reader, c, "ended")

\* Kafka ends the session (a rebalance, say), with an error or without one: the
\* loop of Consume goes on, after a pause if there was one.
SessionBreaks(c) ==
    /\ reader[c] = "session" /\ ~ContextDone(c) /\ breaks < MaxBreaks
    /\ \E from \in committed .. position : Release(c, from)
    /\ breaks' = breaks + 1
    /\ \E next \in {"waiting", "pausing"} : reader' = Set(reader, c, next)

\* The group is joined in vain.
SessionFails(c) ==
    /\ reader[c] = "waiting" /\ GroupFree /\ breaks < MaxBreaks
    /\ reader' = Set(reader, c, "pausing") /\ breaks' = breaks + 1
    /\ UNCHANGED <<rpc, gone, requests, inbox, relay, carried, answers, counts,
                   got, position, committed, marked, again, crashed>>

\* The pause between two sessions, which looks at the context.
PauseEnds(c) ==
    /\ reader[c] = "pausing"
    /\ \/ reader' = Set(reader, c, "waiting")
       \/ ContextDone(c) /\ reader' = Set(reader, c, "ended")
    /\ UNCHANGED <<rpc, gone, requests, inbox, relay, carried, answers, counts,
                   got, group, crashed>>

-----------------------------------------------------------------------------
(* The relay.  A send into the closed channel of answers panics.            *)

RelayTakes(c) ==
    /\ relay[c] = "idle" /\ inbox[c] # <<>>
    /\ relay' = Set(relay, c, "event") /\ carried' = Set(carried, c, Head(inbox[c]))
    /\ inbox' = Set(inbox, c, Tail(inbox[c]))
    /\ counts' = [counts EXCEPT ![c].sent = @ + 1]
    /\ UNCHANGED <<rpc, gone, requests, reader, answers, got, group, crashed>>

AnswersClosed(c) == requests[c] \in {"closed", "ended"}

RelaySends(c) ==
    /\ relay[c] = "event" /\ ~AnswersClosed(c) /\ Len(answers[c]) < Capacity
    /\ answers' = [answers EXCEPT ![c] = Append(@, carried[c])]
    /\ carried' = Set(carried, c, 0)
    /\ relay' = Set(relay, c, "sent")
    /\ UNCHANGED <<rpc, gone, requests, reader, inbox, counts, got, group, crashed>>

\* counts are two atomic loads; an acknowledgement between them is one before.
Pending(c) == counts[c].sent - counts[c].acked

RelayLooks(c) ==
    /\ relay[c] = "sent"
    /\ relay' = Set(relay, c, IF Pending(c) > Window THEN "warning" ELSE "idle")
    /\ UNCHANGED <<rpc, gone, requests, reader, inbox, carried, answers, counts,
                   got, group, crashed>>

\* Mutant: the warning does not wait for room.
RelayWarnsAnyway(c) ==
    /\ relay[c] = "warning" /\ ~AnswersClosed(c)
    /\ answers' = [answers EXCEPT ![c] = Append(@, Control)]
    /\ relay' = Set(relay, c, "idle")
    /\ UNCHANGED <<rpc, gone, requests, reader, inbox, carried, counts, got,
                   group, crashed>>
RelayWarns(c) ==
    /\ relay[c] = "warning" /\ ~AnswersClosed(c) /\ Len(answers[c]) < Capacity
    /\ answers' = [answers EXCEPT ![c] = Append(@, Control)]
    /\ relay' = Set(relay, c, "idle")
    /\ UNCHANGED <<rpc, gone, requests, reader, inbox, carried, counts, got,
                   group, crashed>>

RelayPanics(c) ==
    /\ relay[c] \in {"event", "warning"} /\ AnswersClosed(c)
    /\ crashed' = TRUE
    /\ UNCHANGED <<rpc, gone, requests, reader, inbox, relay, carried, answers,
                   counts, got, group>>

RelayEnds(c) ==
    /\ relay[c] = "idle" /\ inbox[c] = <<>> /\ reader[c] = "ended"
    /\ relay' = Set(relay, c, "ended")
    /\ UNCHANGED <<rpc, gone, requests, reader, inbox, carried, answers, counts,
                   got, group, crashed>>

-----------------------------------------------------------------------------
(* The methods send what comes and return when their channel is closed, the *)
(* client has left or a send to it fails.                                   *)

SendEvent(c) ==
    /\ Kind[c] = "stream" /\ rpc[c] = "open" /\ ~gone[c] /\ inbox[c] # <<>>
    /\ got' = [got EXCEPT ![c] = Append(@, Head(inbox[c]))]
    /\ inbox' = Set(inbox, c, Tail(inbox[c]))
    /\ UNCHANGED <<rpc, gone, requests, reader, relay, carried, answers, counts,
                   group, crashed>>

SendAnswer(c) ==
    /\ rpc[c] = "open" /\ ~gone[c] /\ answers[c] # <<>>
    /\ got' = [got EXCEPT ![c] = Append(@, Head(answers[c]))]
    /\ answers' = Set(answers, c, Tail(answers[c]))
    /\ UNCHANGED <<rpc, gone, requests, reader, inbox, relay, carried, counts,
                   group, crashed>>

\* Until it sees that its client has left a method may take more: that is lost,
\* and the method returns if the send fails.
SendLost(c) ==
    /\ rpc[c] = "open" /\ gone[c]
    /\ \/ /\ Kind[c] = "stream" /\ inbox[c] # <<>>
          /\ inbox' = Set(inbox, c, Tail(inbox[c])) /\ UNCHANGED answers
       \/ /\ answers[c] # <<>>
          /\ answers' = Set(answers, c, Tail(answers[c])) /\ UNCHANGED inbox
    /\ rpc' \in {rpc, Set(rpc, c, "returned")}
    /\ UNCHANGED <<gone, requests, reader, relay, carried, counts, got, group,
                   crashed>>

Return(c) ==
    /\ rpc[c] = "open"
    /\ \/ gone[c]
       \/ Kind[c] = "stream" /\ reader[c] = "ended" /\ inbox[c] = <<>>
       \/ AnswersClosed(c) /\ answers[c] = <<>>
    /\ rpc' = Set(rpc, c, "returned")
    /\ UNCHANGED <<gone, requests, reader, inbox, relay, carried, answers, counts,
                   got, group, crashed>>

CallProgress(c) ==
    /\ ~crashed
    /\ \/ ContextDone(c) /\ RequestsEnd(c)
       \/ CancelStream(c)
       \/ SessionBegins(c) \/ SessionRefused(c) \/ Skip(c) \/ Take(c) \/ Hand(c)
       \/ SessionEnds(c) \/ PauseEnds(c)
       \/ RelayTakes(c) \/ RelaySends(c) \/ RelayLooks(c) \/ RelayWarns(c)
       \/ RelayPanics(c) \/ RelayEnds(c)
       \/ SendEvent(c) \/ SendAnswer(c) \/ SendLost(c) \/ Return(c)

ClientActs(c) ==
    /\ ~crashed
    /\ \/ StreamCandles(c) \/ SubscribeCandles(c) \/ Subscribe(c)
       \/ Acknowledge(c) \/ Leave(c)
       \/ ~ContextDone(c) /\ RequestsEnd(c)

KafkaActs(c) == ~crashed /\ (SessionBreaks(c) \/ SessionFails(c))

StreamNext == \E c \in Call : CallProgress(c) \/ ClientActs(c) \/ KafkaActs(c)

\* Every goroutine that can run does; clients may do nothing.
StreamFairness == \A c \in Call : WF_streamVars(CallProgress(c))

-----------------------------------------------------------------------------

InRelay(c) == IF carried[c] = 0 THEN <<>> ELSE <<carried[c]>>

\* What the client has, and after it what is on its way, oldest first: events,
\* and the warnings between them.
Pipeline(c) == (got[c] \o answers[c]) \o (InRelay(c) \o inbox[c])

\* What the client has, or will have if it stays.
Served(c) == ~gone[c] /\ rpc[c] # "returned"
Delivered(c) == IF Served(c) THEN Pipeline(c) ELSE got[c]

\* Through up to four goroutines, two channels and any number of sessions a call
\* keeps the order of the topic and loses nothing: of two events it has, the
\* second is after the first unless Kafka gave it again, and by then it has every
\* event of its symbol between them, unless the session of another call took it.
NothingLostInside ==
    \A c \in Call : LET p == Delivered(c) IN
        \A i, j \in DOMAIN p : i < j /\ p[i] # Control /\ p[j] # Control =>
            /\ p[j] .. p[i] \subseteq again
            /\ \A e \in p[i] .. p[j] : Log[e] = SymbolOf[c] =>
                  (\E k \in 1 .. j : p[k] = e) \/ marked[e] \ {c} # {}

\* A StreamCandles call whose client left while its reader waits for room: no
\* one reads that channel again, and the group is held for ever.
Stuck(c) ==
    /\ Kind[c] = "stream" /\ rpc[c] = "returned"
    /\ reader[c] = "handing" /\ Len(inbox[c]) = Capacity

HeldByOther(c) == \E d \in Call \ {c} : InSession(d)

\* When a method has returned its goroutines end, but for the ways out the code
\* leaves open: the relay panics, the reader is stuck, or it waits behind the
\* session of another call that goes on for ever.
GoroutinesEnd ==
    \A c \in Call : []<>~HeldByOther(c) =>
        (rpc[c] = "returned" ~>
            \/ reader[c] \in {"none", "ended"} /\ relay[c] \in {"none", "ended"}
            \/ Stuck(c) \/ crashed)

\* kafka/interface.go: "Consume blocks until the context is cancelled".
ConsumeReturns ==
    \A c \in Call : reader[c] # "none" /\ ContextDone(c) ~>
        reader[c] = "ended" \/ crashed
=============================================================================

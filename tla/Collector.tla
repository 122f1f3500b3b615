------------------------------- MODULE Collector -------------------------------
(***************************************************************************)
(* The market-data-collector: the goroutine that keeps a WebSocket to the   *)
(* exchange and reads it, the goroutine that hands the messages on, the     *)
(* router with its two processors, the retried send to Kafka, and the loop  *)
(* of Run that starts all of it again, until the context ends.              *)
(*                                                                          *)
(* A message is its place in the feed; the feed gives its event type, where *)
(* "malformed" is a trade that does not parse.  A topic is what the broker  *)
(* holds.  Of one stream at most one goroutine of each kind is alive: Run   *)
(* starts the next stream when the router has seen the last channel closed. *)
(***************************************************************************)
EXTENDS Naturals, SequencesExt

CONSTANTS
    Feed,         \* the event types of the messages the exchange sends
    BufferSize,   \* capacity of both channels
    MaxFaults     \* bound: failures of calls to the exchange and to Kafka

ASSUME FeedAssumption ==
    Feed \in Seq({"trade", "malformed", "depthUpdate", "other"})
ASSUME BufferAssumption == BufferSize \in Nat \ {0}
ASSUME FaultsAssumption == MaxFaults \in Nat

None == 0                       \* no message
Message == 1 .. Len(Feed)
Topic == {"raw", "orderbook"}

VARIABLES
    ctxDone,    \* the context of the errgroup has ended
    app,        \* the loop of Run: where it is
    runner,     \* the goroutine of connector.run: where it is
    open,       \* its connection is open
    pinging,    \* the pinger of that connection is alive
    leaked,     \* pingers alive whose connection is closed
    refused,    \* subscriptions that failed since the stream began
    raw,        \* the channel from the reader
    out,        \* the channel to the router
    outOpen,    \* the goroutine between the two has not ended
    cur,        \* the message a processor publishes, or None
    failed,     \* the last attempt to send it failed
    topic,      \* the topics of the broker
    read,       \* messages read from the exchange so far
    dropped,    \* those dropped because a channel was full
    faults

stream == <<runner, open, pinging, leaked, refused, read>>
channels == <<raw, out, outOpen, dropped>>
publishing == <<cur, failed, topic>>
collectorVars == <<ctxDone, app, stream, channels, publishing, faults>>

CollectorTypeOK ==
    /\ ctxDone \in BOOLEAN /\ open \in BOOLEAN /\ pinging \in BOOLEAN
    /\ app \in {"start", "route", "stopped", "closed"}
    /\ runner \in {"check", "connect", "subscribe", "head", "read", "ended"}
    /\ leaked \in Nat /\ refused \in Nat
    /\ raw \in Seq(Message) /\ Len(raw) <= BufferSize
    /\ out \in Seq(Message) /\ Len(out) <= BufferSize
    /\ outOpen \in BOOLEAN /\ failed \in BOOLEAN
    /\ cur \in Message \cup {None}
    /\ topic \in [Topic -> Seq(Message)]
    /\ read \in 0 .. Len(Feed) /\ dropped \subseteq Message
    /\ faults \in 0 .. MaxFaults

CollectorInit ==
    /\ ctxDone = FALSE /\ app = "start" /\ runner = "ended"
    /\ open = FALSE /\ pinging = FALSE /\ leaked = 0 /\ refused = 0
    /\ raw = <<>> /\ out = <<>> /\ outOpen = FALSE
    /\ cur = None /\ failed = FALSE /\ topic = [t \in Topic |-> <<>>]
    /\ read = 0 /\ dropped = {} /\ faults = 0

Fault == faults < MaxFaults /\ faults' = faults + 1

\* SIGTERM, or another task of the errgroup failed.  The pingers' contexts
\* come from this one.
Cancel ==
    /\ ~ctxDone /\ app \in {"start", "route"}
    /\ ctxDone' = TRUE /\ pinging' = FALSE /\ leaked' = 0
    /\ UNCHANGED <<app, runner, open, refused, read, channels, publishing, faults>>

-----------------------------------------------------------------------------
(* The loop of Run.                                                         *)

\* WSManager.Start: two new channels, two new goroutines.
StartStream ==
    /\ app = "start" /\ ~ctxDone
    /\ app' = "route" /\ runner' = "check" /\ outOpen' = TRUE /\ refused' = 0
    /\ UNCHANGED <<ctxDone, open, pinging, leaked, read, raw, out, dropped,
                   publishing, faults>>

StopLoop ==
    /\ app = "start" /\ ctxDone
    /\ app' = "stopped"
    /\ UNCHANGED <<ctxDone, stream, channels, publishing, faults>>

\* After g.Wait: the deferred closes of the producer and of the connector.
CloseAll ==
    /\ app = "stopped"
    /\ app' = "closed" /\ open' = FALSE /\ pinging' = FALSE
    /\ UNCHANGED <<ctxDone, runner, leaked, refused, read, channels, publishing,
                   faults>>

-----------------------------------------------------------------------------
(* connector.run.                                                           *)

CheckStops ==
    /\ runner = "check" /\ (ctxDone \/ app = "closed")
    /\ runner' = "ended"
    /\ UNCHANGED <<ctxDone, app, open, pinging, leaked, refused, read, channels,
                   publishing, faults>>

CheckGoesOn ==
    /\ runner = "check" /\ ~ctxDone /\ app # "closed"
    /\ runner' = "connect"
    /\ UNCHANGED <<ctxDone, app, open, pinging, leaked, refused, read, channels,
                   publishing, faults>>

Connect ==
    /\ runner = "connect" /\ ~ctxDone
    /\ runner' = "subscribe" /\ open' = TRUE /\ pinging' = TRUE
    /\ UNCHANGED <<ctxDone, app, leaked, refused, read, channels, publishing, faults>>

\* The retries are over, or the context ended: run returns for good.
ConnectFails ==
    /\ runner = "connect"
    /\ IF ctxDone THEN UNCHANGED faults ELSE Fault
    /\ runner' = "ended"
    /\ UNCHANGED <<ctxDone, app, open, pinging, leaked, refused, read, channels,
                   publishing>>

Subscribe ==
    /\ runner = "subscribe" /\ ~ctxDone
    /\ runner' = "head"
    /\ UNCHANGED <<ctxDone, app, open, pinging, leaked, refused, read, channels,
                   publishing, faults>>

\* The connection is closed and the loop goes on, without cancelPing.
SubscribeFails ==
    /\ runner = "subscribe"
    /\ IF ctxDone THEN UNCHANGED faults ELSE Fault
    /\ runner' = "check" /\ open' = FALSE /\ refused' = refused + 1
    /\ pinging' = FALSE /\ leaked' = IF pinging THEN leaked + 1 ELSE leaked
    /\ UNCHANGED <<ctxDone, app, read, channels, publishing>>

\* readLoop looks at the context only between two messages ...
ReadNext ==
    /\ runner = "head" /\ ~ctxDone
    /\ runner' = "read"
    /\ UNCHANGED <<ctxDone, app, open, pinging, leaked, refused, read, channels,
                   publishing, faults>>

\* ... and the message it waits for is dropped when the channel is full.
Receive ==
    /\ runner = "read" /\ read < Len(Feed)
    /\ read' = read + 1 /\ runner' = "head"
    /\ IF Len(raw) < BufferSize
       THEN raw' = Append(raw, read') /\ UNCHANGED dropped
       ELSE dropped' = dropped \cup {read'} /\ UNCHANGED raw
    /\ UNCHANGED <<ctxDone, app, open, pinging, leaked, refused, out, outOpen,
                   publishing, faults>>

\* The end of readLoop: cancelPing, Close, and the loop goes on.
\* Mutant: the pinger of a lost connection is not cancelled.
HangUpKeepsPinger ==
    /\ runner' = "check" /\ open' = FALSE /\ pinging' = FALSE
    /\ leaked' = IF pinging THEN leaked + 1 ELSE leaked
    /\ UNCHANGED <<ctxDone, app, refused, read, channels, publishing>>
HangUp ==
    /\ runner' = "check" /\ open' = FALSE /\ pinging' = FALSE
    /\ UNCHANGED <<ctxDone, app, leaked, refused, read, channels, publishing>>

\* The exchange closes the connection or stops answering pings.
ReadFails == runner = "read" /\ Fault /\ HangUp

\* Without its pinger no pong extends the read deadline; and the context is
\* seen before the next message.
\* Mutant: no read deadline, so that only the context is looked at.
ReadStopsByContext ==
    /\ runner = "head" /\ ctxDone
    /\ HangUp /\ UNCHANGED faults
ReadStops ==
    /\ \/ runner = "read" /\ ~pinging
       \/ runner = "head" /\ ctxDone
    /\ HangUp /\ UNCHANGED faults

-----------------------------------------------------------------------------
(* StreamWithMetrics: from one channel to the other, dropping again.        *)

Forward ==
    /\ outOpen /\ raw # <<>>
    /\ raw' = Tail(raw)
    /\ IF Len(out) < BufferSize
       THEN out' = Append(out, Head(raw)) /\ UNCHANGED dropped
       ELSE dropped' = dropped \cup {Head(raw)} /\ UNCHANGED out
    /\ UNCHANGED <<ctxDone, app, stream, outOpen, publishing, faults>>

\* run has closed its channel and nothing is left in it.
ForwardEnds ==
    /\ outOpen /\ raw = <<>> /\ runner = "ended"
    /\ outOpen' = FALSE
    /\ UNCHANGED <<ctxDone, app, stream, raw, out, dropped, publishing, faults>>

-----------------------------------------------------------------------------
(* DispatchRouter.Run and the processors; Publish and its retries.          *)

\* What does not parse, or has no processor, is passed over.
Publishes(kind) == kind \in {"trade", "depthUpdate"}

Target(kind) == IF kind = "depthUpdate" THEN "orderbook" ELSE "raw"

Route ==
    /\ app = "route" /\ cur = None /\ out # <<>>
    /\ out' = Tail(out)
    /\ cur' = IF Publishes(Feed[Head(out)]) THEN Head(out) ELSE None
    /\ UNCHANGED <<ctxDone, app, stream, raw, outOpen, dropped, failed, topic,
                   faults>>

Written == [topic EXCEPT ![Target(Feed[cur])] = Append(@, cur)]

\* One attempt of backoff.Execute, which runs the first whatever the context
\* says and another only while it is live.
MayAttempt == cur # None /\ (failed => ~ctxDone)

Send ==
    /\ MayAttempt
    /\ topic' = Written /\ cur' = None /\ failed' = FALSE
    /\ UNCHANGED <<ctxDone, app, stream, channels, faults>>

\* Mutant: what failed is queued again behind the messages that wait.
SendFailsRequeues ==
    /\ MayAttempt /\ Fault
    /\ out' = Append(out, cur) /\ cur' = None
    /\ UNCHANGED <<ctxDone, app, stream, raw, outOpen, dropped, failed, topic>>

\* An attempt reports an error; the broker may have taken the message, and
\* the next attempt is a new message to it.
SendFails ==
    /\ MayAttempt /\ Fault
    /\ topic' \in {topic, Written} /\ failed' = TRUE
    /\ UNCHANGED <<ctxDone, app, stream, channels, cur>>

\* The time for retries is over, or the context ended: the router logs it.
GiveUp ==
    /\ cur # None /\ failed
    /\ cur' = None /\ failed' = FALSE
    /\ UNCHANGED <<ctxDone, app, stream, channels, topic, faults>>

\* The channel is closed and empty; Run cancels the stream's context.
\* Mutant: the router also ends with the context, as its siblings do.
RouterEndsWithContext ==
    /\ app = "route" /\ cur = None
    /\ (out = <<>> /\ ~outOpen) \/ ctxDone
    /\ app' = "start" /\ leaked' = 0
    /\ UNCHANGED <<ctxDone, runner, open, pinging, refused, read, channels,
                   publishing, faults>>
RouterEnds ==
    /\ app = "route" /\ cur = None /\ out = <<>> /\ ~outOpen
    /\ app' = "start" /\ leaked' = 0
    /\ UNCHANGED <<ctxDone, runner, open, pinging, refused, read, channels,
                   publishing, faults>>

CollectorProgress ==
    \/ StartStream \/ StopLoop \/ CloseAll
    \/ CheckStops \/ CheckGoesOn \/ Connect \/ Subscribe \/ ReadNext \/ ReadStops
    \/ ctxDone /\ (ConnectFails \/ SubscribeFails)
    \/ Forward \/ ForwardEnds \/ Route \/ Send \/ RouterEnds
    \/ ctxDone /\ GiveUp

CollectorNext ==
    \/ CollectorProgress
    \/ Cancel \/ Receive \/ ReadFails \/ SendFails
    \/ ~ctxDone /\ (ConnectFails \/ SubscribeFails \/ GiveUp)

-----------------------------------------------------------------------------

\* A topic holds its messages in the order of the feed, and a second copy only
\* next to the first: over reconnects, dropped messages and sends that were
\* applied but reported as failed (ws.go, client.go, producer.go).
TopicInOrder ==
    \A t \in Topic : \A i, j \in DOMAIN topic[t] :
        i < j => topic[t][i] <= topic[t][j]

\* When the producer and the connector are closed, nothing uses them any more:
\* the reader has ended, its connection is closed and all it read is dealt with.
ClosedWhenIdle ==
    app = "closed" => /\ runner = "ended" /\ ~open
                      /\ raw = <<>> /\ out = <<>> /\ cur = None

\* Beside the pinger of the open connection only those of refused
\* subscriptions are alive, and only until their stream ends.
PingersBounded ==
    /\ leaked <= refused
    /\ pinging => open
    /\ app # "route" => leaked = 0
=============================================================================

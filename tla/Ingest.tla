--------------------------------- MODULE Ingest ---------------------------------
(***************************************************************************)
(* The way in: the collector writes the raw topic, and the replicas of the  *)
(* preprocessor's consumer group read it.                                   *)
(***************************************************************************)
EXTENDS Collector

CONSTANTS Member, MaxRebalances, MaxRefusals

ASSUME GroupAssumption == MaxRebalances \in Nat /\ MaxRefusals \in Nat

VARIABLES committed, owner, session, handled, refusedBy, rebalances

G == INSTANCE ConsumerGroup WITH log <- topic["raw"], refused <- refusedBy

consumers == <<committed, owner, session, handled, refusedBy, rebalances>>
vars == <<collectorVars, consumers>>

TypeOK == CollectorTypeOK /\ G!GroupTypeOK

Init == CollectorInit /\ G!GroupInit

Collect == CollectorNext /\ UNCHANGED consumers
Consume == G!GroupNext /\ UNCHANGED collectorVars

Next == Collect \/ Consume

\* A goroutine that can run does; a call to the exchange or to Kafka returns;
\* a live member's session goes on.  Whether the exchange sends, a call fails
\* or a signal comes is open.
Spec ==
    /\ Init /\ [][Next]_vars
    /\ WF_vars(CollectorProgress /\ UNCHANGED consumers)
    /\ \A m \in Member :
          /\ WF_vars(G!Join(m) /\ UNCHANGED collectorVars)
          /\ WF_vars(G!Fetch(m) /\ UNCHANGED collectorVars)
          /\ WF_vars(G!HandlerAccepts(m) /\ UNCHANGED collectorVars)
          /\ WF_vars(G!Commit(m) /\ UNCHANGED collectorVars)
          /\ WF_vars(G!NoticeEviction(m) /\ UNCHANGED collectorVars)

-----------------------------------------------------------------------------

\* The properties of the group, with the log that the collector writes.
CommittedIsDelivered == G!CommittedIsDelivered

\* A signal stops the collector, whatever its goroutines are doing: blocked on
\* the socket, in the retries of a send, or connecting.
CollectorStops == ctxDone ~> app = "closed"

\* Every message the broker holds is committed in the end, through rebalances
\* and crashes, unless a handler refused it.
LogIsCommitted == \A n \in Message :
    n <= Len(topic["raw"]) ~> committed >= n \/ n \in refusedBy
=============================================================================

----------------------------- MODULE ConsumerGroup -----------------------------
(***************************************************************************)
(* common/kafka/consumer: the replicas of a service share one consumer      *)
(* group and read a partition of a topic.  A session of a member starts at  *)
(* the committed offset, hands the messages to the handler one by one and   *)
(* marks those it takes; sarama commits the marks in the background and at  *)
(* the end of the session.  The coordinator gives the partition to one      *)
(* member at a time, but a member that lost it may be at work on a message. *)
(***************************************************************************)
EXTENDS Naturals, Sequences, FiniteSets

CONSTANTS
    Member,        \* the replicas
    MaxRebalances, \* bound: sessions lost to the coordinator or to a crash
    MaxRefusals    \* bound: messages the handler returns an error for

VARIABLES
    log,        \* the messages of the partition, oldest first
    committed,  \* how many of them the group has committed
    owner,      \* the members the partition is assigned to: one or none
    session,    \* what a member knows: whether its session is alive, the last
                \* message fetched, the one before the next commit, and
                \* whether the handler is at work
    handled,    \* messages whose handler returned nil
    refused,    \* messages whose handler returned an error
    rebalances

groupVars == <<committed, owner, session, handled, refused, rebalances>>

NoSession == [alive |-> FALSE, fetched |-> 0, marked |-> 0, busy |-> FALSE]

GroupTypeOK ==
    /\ committed \in Nat /\ owner \in SUBSET Member
    /\ session \in [Member -> [alive : BOOLEAN, fetched : Nat, marked : Nat,
                               busy : BOOLEAN]]
    /\ handled \in SUBSET Nat /\ refused \in SUBSET Nat
    /\ rebalances \in 0 .. MaxRebalances

GroupInit ==
    /\ committed = 0 /\ owner = {} /\ handled = {} /\ refused = {}
    /\ session = [m \in Member |-> NoSession] /\ rebalances = 0

\* Consume: a session of m begins where the group left off.
Join(m) ==
    /\ owner = {} /\ ~session[m].alive
    /\ owner' = {m}
    /\ session' = [session EXCEPT ![m] =
          [alive |-> TRUE, fetched |-> committed, marked |-> committed, busy |-> FALSE]]
    /\ UNCHANGED <<committed, handled, refused, rebalances>>

\* ConsumeClaim: the next message goes to the handler, ...
\* Mutant: it is marked at once.
FetchMarks(m) ==
    /\ session[m].alive /\ ~session[m].busy /\ session[m].fetched < Len(log)
    /\ session' = [session EXCEPT ![m].fetched = @ + 1, ![m].busy = TRUE,
                                  ![m].marked = session[m].fetched + 1]
    /\ UNCHANGED <<committed, owner, handled, refused, rebalances>>
Fetch(m) ==
    /\ session[m].alive /\ ~session[m].busy /\ session[m].fetched < Len(log)
    /\ session' = [session EXCEPT ![m].fetched = @ + 1, ![m].busy = TRUE]
    /\ UNCHANGED <<committed, owner, handled, refused, rebalances>>

\* ... which marks it by returning nil ...
\* Mutant: MarkMessage is forgotten.
HandlerForgets(m) ==
    /\ session[m].busy
    /\ session' = [session EXCEPT ![m].busy = FALSE]
    /\ handled' = handled \cup {session[m].fetched}
    /\ UNCHANGED <<committed, owner, refused, rebalances>>
HandlerAccepts(m) ==
    /\ session[m].busy
    /\ session' = [session EXCEPT ![m].busy = FALSE,
                                  ![m].marked = session[m].fetched]
    /\ handled' = handled \cup {session[m].fetched}
    /\ UNCHANGED <<committed, owner, refused, rebalances>>

\* ... and does not by returning an error; the loop goes on all the same.
HandlerRefuses(m) ==
    /\ session[m].busy
    /\ session[m].fetched \in refused \/ Cardinality(refused) < MaxRefusals
    /\ session' = [session EXCEPT ![m].busy = FALSE]
    /\ refused' = refused \cup {session[m].fetched}
    /\ UNCHANGED <<committed, owner, handled, rebalances>>

\* sarama commits the marks of the member that has the partition.
Commit(m) ==
    /\ m \in owner /\ session[m].marked > committed
    /\ committed' = session[m].marked
    /\ UNCHANGED <<owner, session, handled, refused, rebalances>>

\* The coordinator asks for a new assignment: between two messages the member
\* commits its marks and gives the partition back.
EndSession(m) ==
    /\ m \in owner /\ ~session[m].busy /\ rebalances < MaxRebalances
    /\ committed' = session[m].marked /\ owner' = {}
    /\ session' = [session EXCEPT ![m] = NoSession]
    /\ rebalances' = rebalances + 1
    /\ UNCHANGED <<handled, refused>>

\* The coordinator misses a heartbeat and takes the partition away ...
Evict(m) ==
    /\ m \in owner /\ rebalances < MaxRebalances
    /\ owner' = {} /\ rebalances' = rebalances + 1
    /\ UNCHANGED <<committed, session, handled, refused>>

\* ... which the member notices between two messages: its marks are refused.
NoticeEviction(m) ==
    /\ session[m].alive /\ m \notin owner /\ ~session[m].busy
    /\ session' = [session EXCEPT ![m] = NoSession]
    /\ UNCHANGED <<committed, owner, handled, refused, rebalances>>

\* The process dies; the coordinator notices.
Crash(m) ==
    /\ session[m].alive /\ rebalances < MaxRebalances
    /\ session' = [session EXCEPT ![m] = NoSession]
    /\ owner' = owner \ {m} /\ rebalances' = rebalances + 1
    /\ UNCHANGED <<committed, handled, refused>>

GroupProgress ==
    \E m \in Member : \/ Join(m) \/ Fetch(m) \/ HandlerAccepts(m) \/ Commit(m)
                      \/ NoticeEviction(m)

GroupNext ==
    \/ GroupProgress
    \/ \E m \in Member : \/ HandlerRefuses(m) \/ EndSession(m) \/ Evict(m) \/ Crash(m)

-----------------------------------------------------------------------------

\* What the group has committed was given to a handler that returned: no
\* rebalance, crash or late member makes it pass over a message unseen.
CommittedIsDelivered == 1 .. committed \subseteq handled \cup refused
=============================================================================

----------------------- MODULE ServiceLifecycleProofs -----------------------
(***************************************************************************)
(* Theorems about ServiceLifecycle, for any number of attempts: in each of *)
(* the six programs what is closed is closed before what it works with.    *)
(***************************************************************************)
EXTENDS ServiceLifecycle, SequenceTheorems, TLAPS

-----------------------------------------------------------------------------
(* The programs.                                                            *)

\* One order of the steps that all programs keep, whichever they have.
Rank(s) == CASE s = "telemetry" -> 1
             [] s = "ws-connector" -> 2
             [] s = "ws-manager" -> 3
             [] s = "redis" -> 4
             [] s = "migrations" -> 5
             [] s = "database" -> 6
             [] s = "producer" -> 7
             [] s = "aggregator" -> 8
             [] s = "consumer" -> 9
             [] s = "signer" -> 10
             [] s = "clients" -> 11
             [] OTHER -> 12

\* The resources of a program that are closed at its end.
Mine(p) == Range(App(p).opens) \cap Deferred

\* The steps of every program have rising ranks.
LEMMA Rising ==
  ASSUME NEW p \in Program
  PROVE  /\ Len(App(p).opens) \in Nat
         /\ DOMAIN App(p).opens = 1 .. Len(App(p).opens)
         /\ \A i, j \in DOMAIN App(p).opens :
               i < j => Rank(App(p).opens[i]) < Rank(App(p).opens[j])
  <1>1. CASE p = "collector"
    <2>1. App(p) = CollectorApp
      BY <1>1 DEF App
    <2> QED
      BY <2>1 DEF CollectorApp, Rank
  <1>2. CASE p = "preprocessor"
    <2>1. App(p) = PreprocessorApp
      BY <1>2 DEF App
    <2> QED
      BY <2>1 DEF PreprocessorApp, Rank
  <1>3. CASE p = "analytics-api"
    <2>1. App(p) = AnalyticsApp
      BY <1>3 DEF App
    <2> QED
      BY <2>1 DEF AnalyticsApp, Rank
  <1>4. CASE p = "query-service"
    <2>1. App(p) = QueryApp
      BY <1>4 DEF App
    <2> QED
      BY <2>1 DEF QueryApp, Rank
  <1>5. CASE p = "auth"
    <2>1. App(p) = AuthApp
      BY <1>5 DEF App
    <2> QED
      BY <2>1 DEF AuthApp, Rank
  <1>6. CASE p = "api-gateway"
    <2>1. App(p) = GatewayApp
      BY <1>6 DEF App
    <2> QED
      BY <2>1 DEF GatewayApp, Rank
  <1> QED
    BY <1>1, <1>2, <1>3, <1>4, <1>5, <1>6 DEF Program

LEMMA RankNat == \A s : Rank(s) \in Nat
  BY DEF Rank

\* What a step's close works with is a step of the same program before it,
\* and is closed by a defer too.
LEMMA UsesEarlier ==
  ASSUME NEW p \in Program, NEW s \in Range(App(p).opens), NEW u \in Kind(s).uses
  PROVE  u \in Mine(p) /\ Rank(u) < Rank(s)
  <1>1. Range(App(p).opens) \subseteq Step
    BY DEF Step
  <1>2. CASE p = "preprocessor" /\ s = "aggregator"
    <2>1. u \in {"redis", "database", "producer"}
      BY <1>2 DEF Kind, AggregatorStep
    <2>2. Rank(u) < Rank(s)
      BY <1>2, <2>1 DEF Rank
    <2>3. /\ Kind("redis") = RedisStep /\ Kind("database") = DatabaseStep
          /\ Kind("producer") = ProducerStep
      BY DEF Kind
    <2>4. Kind(u).deferred
      BY <2>1, <2>3 DEF RedisStep, DatabaseStep, ProducerStep
    <2>5. App(p) = PreprocessorApp
      BY <1>2 DEF App
    <2>6. u \in Range(App(p).opens)
      BY <2>1, <2>5 DEF PreprocessorApp, Range
    <2> QED
      BY <1>1, <2>2, <2>4, <2>6 DEF Mine, Deferred
  <1>3. CASE p = "collector" /\ s = "ws-manager"
    <2>1. u = "ws-connector"
      BY <1>3 DEF Kind, ManagerStep
    <2>2. Rank(u) < Rank(s) /\ Kind(u).deferred
      BY <1>3, <2>1 DEF Rank, Kind, ConnectorStep
    <2>3. u \in Range(App(p).opens)
      BY <1>3, <2>1 DEF App, CollectorApp, Range
    <2> QED
      BY <1>1, <2>2, <2>3 DEF Mine, Deferred
  <1>4. s = "aggregator" => p = "preprocessor"
    BY DEF Program, App, CollectorApp, PreprocessorApp, AnalyticsApp, QueryApp,
       AuthApp, GatewayApp, Range
  <1>5. s = "ws-manager" => p = "collector"
    BY DEF Program, App, CollectorApp, PreprocessorApp, AnalyticsApp, QueryApp,
       AuthApp, GatewayApp, Range
  <1>6. ASSUME s \notin {"aggregator", "ws-manager"} PROVE FALSE
    <2>1. s \in {"telemetry", "redis", "migrations", "database", "producer",
                 "consumer", "ws-connector", "clients", "signer", "listener"}
      BY <1>6 DEF Program, App, CollectorApp, PreprocessorApp, AnalyticsApp, QueryApp,
         AuthApp, GatewayApp, Range
    <2> QED
      BY <2>1 DEF Kind, TelemetryStep, RedisStep, MigrationsStep, DatabaseStep,
         ProducerStep, ConsumerStep, ConnectorStep, ClientsStep, SignerStep, ListenerStep
  <1> QED
    BY <1>2, <1>3, <1>4, <1>5, <1>6

\* Every program has the HTTP server.
LEMMA HttpTask == \A p \in Program : "http" \in App(p).tasks
  BY DEF Program, App, CollectorApp, PreprocessorApp, AnalyticsApp, QueryApp,
     AuthApp, GatewayApp

-----------------------------------------------------------------------------
(* The inductive invariant, in parts.                                       *)

\* What is open was opened by a step that is over, in the order of the steps.
InOrder ==
  /\ opened \in Seq(Mine(program))
  /\ \A i, j \in DOMAIN opened : i < j => Rank(opened[i]) < Rank(opened[j])
  /\ \A i \in DOMAIN opened : \A k \in DOMAIN App(program).opens :
        k >= next => Rank(opened[i]) < Rank(App(program).opens[k])

\* Below what is open, everything is.
NoGap ==
  \A s \in Range(opened) : \A u \in Mine(program) :
     Rank(u) < Rank(s) => u \in Range(opened)

\* Nothing is closed before the end.
KeptOpen ==
  phase \in {"config", "starting", "running"} =>
    \A k \in DOMAIN App(program).opens :
       k < next /\ App(program).opens[k] \in Deferred =>
          App(program).opens[k] \in Range(opened)

\* The tasks run between the steps and the closes; a request is served by the
\* HTTP server, unless it was given up.
Stages ==
  /\ phase = "running" => next > Len(App(program).opens)
  /\ phase # "running" => \A t \in DOMAIN tasks : tasks[t] \in {"off", "ended"}
  /\ phase \in {"config", "starting"} => \A t \in DOMAIN tasks : tasks[t] = "off"
  /\ request = "serving" /\ ~timedOut => tasks["http"] \in {"running", "draining"}
  /\ phase # "exited" => request # "cut"

IInv == /\ TypeOK /\ InOrder /\ NoGap /\ KeptOpen /\ Stages
        /\ RequestAnswered /\ PausesWhenConfigured

-----------------------------------------------------------------------------

USE DEF starting, serving

LEMMA InvInit == Init => IInv
  <1> SUFFICES ASSUME Init PROVE IInv
    OBVIOUS
  <1>1. Len(App(program).opens) \in Nat
    BY Rising DEF Init
  <1>2. conf \subseteq Key
    BY DEF Init, Loaded, Config, Key, CollectorConfig, PreprocessorConfig,
       AnalyticsConfig, QueryConfig, AuthConfig, GatewayConfig, Program
  <1>3. /\ next \in 1 .. Len(App(program).opens) + 1 /\ attempts \in 0 .. MaxAttempts
        /\ Range(opened) = {} /\ Len(opened) = 0
    <2>1. DOMAIN opened = {} /\ Len(opened) = 0
      BY DEF Init
    <2>2. Range(opened) = {}
      BY <2>1 DEF Range
    <2> QED
      BY <1>1, <2>1, <2>2, MaxAttemptsAssumption DEF Init
  <1>4. TypeOK
    <2>1. tasks \in [App(program).tasks -> {"off", "running", "draining", "ended"}]
      BY DEF Init
    <2>2. Len(opened) <= next - 1 /\ Range(opened) \subseteq Deferred
      BY <1>3 DEF Init
    <2> QED
      BY <1>2, <1>3, <2>1, <2>2 DEF Init, TypeOK, Error
  <1>5. InOrder /\ NoGap
    BY DEF Init, InOrder, NoGap, Range
  <1>6. KeptOpen /\ Stages
    BY <1>1, Rising, HttpTask DEF Init, KeptOpen, Stages
  <1> QED
    BY <1>4, <1>5, <1>6 DEF IInv, Init, RequestAnswered, PausesWhenConfigured

\* The step under way is one of the program's.
LEMMA CurrentIsMine ==
  ASSUME IInv, Starting
  PROVE  /\ next \in DOMAIN App(program).opens
         /\ Current \in Range(App(program).opens)
         /\ Current \in Deferred => Current \in Mine(program)
  <1>1. next \in DOMAIN App(program).opens
    BY Rising DEF IInv, TypeOK, Starting
  <1> QED
    BY <1>1 DEF Current, Mine, Range

\* A step that succeeds goes to the end of what is open.
LEMMA OpenKeeps ==
  ASSUME IInv, Open
  PROVE  Range(opened') \subseteq Deferred /\ Len(opened') <= next' - 1
         /\ InOrder' /\ NoGap' /\ KeptOpen'
  <1>1. /\ program' = program /\ phase' = phase /\ next' = next + 1
        /\ Starting /\ opened' = OpenedWith
    BY DEF Open
  <1>2. /\ next \in DOMAIN App(program).opens
        /\ Current \in Range(App(program).opens)
        /\ Current \in Deferred => Current \in Mine(program)
    BY <1>1, CurrentIsMine
  <1>3. /\ Len(App(program).opens) \in Nat
        /\ DOMAIN App(program).opens = 1 .. Len(App(program).opens)
        /\ \A i, j \in DOMAIN App(program).opens :
              i < j => Rank(App(program).opens[i]) < Rank(App(program).opens[j])
    BY Rising DEF IInv, TypeOK
  <1>4. next \in Nat /\ opened \in Seq(Mine(program)) /\ Len(opened) <= next - 1
        /\ Range(opened) \subseteq Deferred
    BY <1>2, <1>3 DEF IInv, InOrder, TypeOK
  <1>5. CASE Current \in Deferred
    <2>1. opened' = Append(opened, Current)
      BY <1>1, <1>5 DEF OpenedWith
    <2>2. /\ opened' \in Seq(Mine(program)) /\ Len(opened') = Len(opened) + 1
          /\ \A i \in 1 .. Len(opened) : opened'[i] = opened[i]
          /\ opened'[Len(opened) + 1] = Current
      BY <1>2, <1>4, <1>5, <2>1, AppendProperties
    <2>3. Range(opened') = Range(opened) \cup {Current}
      BY <1>4, <2>2 DEF Range
    <2>4. Range(opened') \subseteq Deferred /\ Len(opened') <= next' - 1
      BY <1>1, <1>4, <1>5, <2>2, <2>3
    <2>5. InOrder'
      <3>1. ASSUME NEW i \in DOMAIN opened', NEW j \in DOMAIN opened', i < j
            PROVE  Rank(opened'[i]) < Rank(opened'[j])
        <4>1. i \in 1 .. Len(opened)
          BY <3>1, <1>4, <2>2
        <4>2. CASE j = Len(opened) + 1
          BY <4>1, <4>2, <1>2, <1>4, <2>2 DEF IInv, InOrder, Current
        <4>3. CASE j \in 1 .. Len(opened)
          BY <4>1, <4>3, <3>1, <1>4, <2>2 DEF IInv, InOrder
        <4> QED
          BY <4>2, <4>3, <1>4, <2>2
      <3>2. ASSUME NEW i \in DOMAIN opened', NEW k \in DOMAIN App(program).opens,
                   k >= next + 1
            PROVE  Rank(opened'[i]) < Rank(App(program).opens[k])
        <4>1. CASE i = Len(opened) + 1
          BY <4>1, <3>2, <1>2, <1>3, <1>4, <2>2 DEF Current
        <4>2. CASE i \in 1 .. Len(opened)
          BY <4>2, <3>2, <1>3, <1>4, <2>2 DEF IInv, InOrder
        <4> QED
          BY <4>1, <4>2, <1>4, <2>2
      <3> QED
        BY <3>1, <3>2, <2>2, <1>1 DEF InOrder
    <2>6. NoGap'
      <3>1. ASSUME NEW u \in Mine(program), Rank(u) < Rank(Current)
            PROVE  u \in Range(opened)
        <4>1. PICK k \in DOMAIN App(program).opens : App(program).opens[k] = u
          BY DEF Mine, Range
        <4>2. k < next
          BY <4>1, <3>1, <1>2, <1>3, <1>4, RankNat DEF Current
        <4> QED
          BY <4>1, <4>2, <1>1 DEF IInv, KeptOpen, Starting, Mine
      <3> QED
        BY <3>1, <2>3, <1>1 DEF NoGap, IInv
    <2>7. KeptOpen'
      BY <1>1, <1>2, <1>3, <1>4, <2>3 DEF KeptOpen, IInv, Starting, Current
    <2> QED
      BY <2>4, <2>5, <2>6, <2>7
  <1>6. CASE Current \notin Deferred
    <2>1. opened' = opened
      BY <1>1, <1>6 DEF OpenedWith
    <2>2. InOrder'
      BY <1>1, <1>3, <1>4, <2>1 DEF InOrder, IInv
    <2>3. NoGap'
      BY <1>1, <2>1 DEF NoGap, IInv
    <2>4. KeptOpen'
      BY <1>1, <1>2, <1>3, <1>4, <1>6, <2>1 DEF KeptOpen, IInv, Starting, Current
    <2> QED
      BY <1>1, <1>4, <2>1, <2>2, <2>3, <2>4
  <1> QED
    BY <1>5, <1>6

\* A close takes the last, on which nothing else that is open rests.
LEMMA CloseKeeps ==
  ASSUME IInv, Close
  PROVE  Range(opened') \subseteq Deferred /\ Len(opened') <= next' - 1
         /\ InOrder' /\ NoGap' /\ KeptOpen'
  <1>1. /\ program' = program /\ phase' = "closing" /\ next' = next
        /\ opened # <<>> /\ opened' = Front(opened)
    BY DEF Close
  <1>2. opened \in Seq(Mine(program)) /\ Len(opened) \in Nat /\ Len(opened) > 0
        /\ next \in Int
    BY <1>1, Rising DEF IInv, InOrder, TypeOK
  <1>3. /\ opened' \in Seq(Mine(program)) /\ Len(opened') = Len(opened) - 1
        /\ \A i \in 1 .. Len(opened) - 1 : opened'[i] = opened[i]
    <2> DEFINE n == Len(opened) - 1
    <2>1. n \in Nat
      BY <1>2
    <2>2. \A i \in 1 .. n : opened[i] \in Mine(program)
      BY <1>2
    <2>3. opened' = SubSeq(opened, 1, n)
      BY <1>1 DEF Front
    <2> HIDE DEF n
    <2>4. /\ opened' \in Seq(Mine(program))
          /\ Len(opened') = IF 1 <= n THEN n - 1 + 1 ELSE 0
          /\ \A i \in 1 .. n - 1 + 1 : opened'[i] = opened[1 + i - 1]
      BY <2>1, <2>2, <2>3, SubSeqProperties
    <2>5. Len(opened') = n /\ \A i \in 1 .. n : opened'[i] = opened[i]
      BY <2>1, <2>4
    <2> QED
      BY <2>4, <2>5 DEF n
  <1>4. Range(opened') \subseteq Range(opened)
    BY <1>2, <1>3 DEF Range
  <1>5. InOrder'
    BY <1>1, <1>2, <1>3 DEF IInv, InOrder
  <1>6. NoGap'
    <2>1. ASSUME NEW s \in Range(opened'), NEW u \in Mine(program), Rank(u) < Rank(s)
          PROVE  u \in Range(opened')
      <3>1. PICK i \in 1 .. Len(opened) - 1 : opened[i] = s
        BY <2>1, <1>2, <1>3 DEF Range
      <3>2. PICK j \in 1 .. Len(opened) : opened[j] = u
        BY <2>1, <1>2, <1>4 DEF IInv, NoGap, Range
      <3>3. j # Len(opened)
        BY <2>1, <3>1, <3>2, <1>2, RankNat DEF IInv, InOrder
      <3> QED
        BY <3>2, <3>3, <1>2, <1>3 DEF Range
    <2> QED
      BY <2>1, <1>1 DEF NoGap
  <1> QED
    BY <1>1, <1>2, <1>3, <1>4, <1>5, <1>6 DEF KeptOpen, IInv, TypeOK

\* Every other step leaves what is open alone.
LEMMA OthersKeep ==
  ASSUME IInv, opened' = opened, program' = program, next' = next,
         phase' \in {"config", "starting", "running"} =>
            phase \in {"config", "starting", "running"}
  PROVE  Range(opened') \subseteq Deferred /\ Len(opened') <= next' - 1
         /\ InOrder' /\ NoGap' /\ KeptOpen'
  BY DEF IInv, TypeOK, InOrder, NoGap, KeptOpen

\* What a step leaves of the resources, in one formula.
Resources == /\ Range(opened) \subseteq Deferred /\ Len(opened) <= next - 1
             /\ InOrder /\ NoGap /\ KeptOpen

\* The start: configuration, steps, attempts.
LEMMA StartKeeps ==
  ASSUME IInv,
         LoadConfig \/ Open \/ OpenFails \/ AttemptFails \/ GiveUp
  PROVE  IInv'
  <1> USE DEF Stages, RequestAnswered, PausesWhenConfigured, Error
  <1>0. /\ TypeOK /\ Stages /\ RequestAnswered /\ PausesWhenConfigured
        /\ Len(App(program).opens) \in Nat /\ MaxAttempts \in Nat
    BY Rising, MaxAttemptsAssumption DEF IInv, TypeOK
  <1>1. CASE LoadConfig
    <2>1. Resources'
      BY <1>1, OthersKeep DEF LoadConfig, Resources
    <2>2. TypeOK' /\ Stages' /\ RequestAnswered' /\ PausesWhenConfigured'
      BY <1>0, <1>1, <2>1 DEF LoadConfig, TypeOK, Resources
    <2> QED
      BY <2>1, <2>2 DEF IInv, Resources
  <1>2. CASE Open
    <2>1. Resources'
      BY <1>2, OpenKeeps DEF Resources
    <2>2. TypeOK' /\ Stages' /\ RequestAnswered' /\ PausesWhenConfigured'
      BY <1>0, <1>2, <2>1 DEF Open, Starting, TypeOK, Resources
    <2> QED
      BY <2>1, <2>2 DEF IInv, Resources
  <1>3. CASE OpenFails
    <2>1. Resources'
      BY <1>3, OthersKeep DEF OpenFails, Resources
    <2>2. TypeOK' /\ Stages' /\ RequestAnswered' /\ PausesWhenConfigured'
      BY <1>0, <1>3, <2>1 DEF OpenFails, Starting, TypeOK, Resources
    <2> QED
      BY <2>1, <2>2 DEF IInv, Resources
  <1>4. CASE AttemptFails
    <2>1. Resources'
      BY <1>4, OthersKeep DEF AttemptFails, Starting, Resources
    <2>2. TypeOK' /\ Stages' /\ RequestAnswered' /\ PausesWhenConfigured'
      BY <1>0, <1>4, <2>1 DEF AttemptFails, Starting, TypeOK, Resources,
         FirstPause, NextPause
    <2> QED
      BY <2>1, <2>2 DEF IInv, Resources
  <1>5. CASE GiveUp
    <2>1. Resources'
      BY <1>5, OthersKeep DEF GiveUp, Resources
    <2>2. TypeOK' /\ Stages' /\ RequestAnswered' /\ PausesWhenConfigured'
      BY <1>0, <1>5, <2>1 DEF GiveUp, Starting, TypeOK, Resources
    <2> QED
      BY <2>1, <2>2 DEF IInv, Resources
  <1> QED
    BY <1>1, <1>2, <1>3, <1>4, <1>5

\* The tasks and the request.
LEMMA TasksKeep ==
  ASSUME IInv,
         \/ Signal \/ StartTasks \/ ListenFails \/ RequestArrives \/ RequestEnds
         \/ Drain \/ Drained \/ DrainTimesOut \/ LoopStops \/ TaskFails
  PROVE  IInv'
  <1> USE DEF Stages, RequestAnswered, PausesWhenConfigured, Error
  <1>0. /\ TypeOK /\ Stages /\ RequestAnswered /\ PausesWhenConfigured
        /\ Len(App(program).opens) \in Nat /\ "http" \in DOMAIN tasks
    BY Rising, HttpTask DEF IInv, TypeOK
  <1>1. Resources'
    BY OthersKeep DEF Signal, StartTasks, ListenFails, RequestArrives, RequestEnds,
       Drain, Drained, DrainTimesOut, LoopStops, TaskFails, Return, Resources
  <1>2. CASE Signal
    BY <1>0, <1>1, <1>2 DEF Signal, TypeOK, Resources, IInv
  <1>3. CASE StartTasks
    BY <1>0, <1>1, <1>3 DEF StartTasks, TypeOK, Resources, IInv
  <1>4. CASE ListenFails
    BY <1>0, <1>1, <1>4 DEF ListenFails, Running, Return, TypeOK, Resources, IInv
  <1>5. CASE RequestArrives
    BY <1>0, <1>1, <1>5 DEF RequestArrives, Running, TypeOK, Resources, IInv
  <1>6. CASE RequestEnds
    BY <1>0, <1>1, <1>6 DEF RequestEnds, TypeOK, Resources, IInv
  <1>7. CASE Drain
    BY <1>0, <1>1, <1>7 DEF Drain, Running, TypeOK, Resources, IInv
  <1>8. CASE Drained
    BY <1>0, <1>1, <1>8 DEF Drained, Draining, Return, TypeOK, Resources, IInv
  <1>9. CASE DrainTimesOut
    BY <1>0, <1>1, <1>9 DEF DrainTimesOut, Draining, Return, TypeOK, Resources, IInv
  <1>10. CASE LoopStops
    BY <1>0, <1>1, <1>10 DEF LoopStops, Running, Return, TypeOK, Resources, IInv
  <1>11. CASE TaskFails
    BY <1>0, <1>1, <1>11 DEF TaskFails, Running, Return, TypeOK, Resources, IInv
  <1> QED
    BY <1>2, <1>3, <1>4, <1>5, <1>6, <1>7, <1>8, <1>9, <1>10, <1>11

\* The end: the result, the closes, the exit.
LEMMA EndKeeps ==
  ASSUME IInv, WaitReturns \/ Close \/ Exit \/ UNCHANGED vars
  PROVE  IInv'
  <1> USE DEF Stages, RequestAnswered, PausesWhenConfigured, Error
  <1>0. /\ TypeOK /\ Stages /\ RequestAnswered /\ PausesWhenConfigured
        /\ Len(App(program).opens) \in Nat /\ "http" \in DOMAIN tasks
    BY Rising, HttpTask DEF IInv, TypeOK
  <1>1. CASE WaitReturns
    <2>1. Resources'
      BY <1>1, OthersKeep DEF WaitReturns, Resources
    <2> QED
      BY <1>0, <1>1, <2>1 DEF WaitReturns, RunResult, TypeOK, Resources, IInv
  <1>2. CASE Close
    <2>1. Resources'
      BY <1>2, CloseKeeps DEF Resources
    <2> QED
      BY <1>0, <1>2, <2>1 DEF Close, TypeOK, Resources, IInv
  <1>3. CASE Exit
    <2>1. Resources'
      BY <1>3, OthersKeep DEF Exit, Resources
    <2> QED
      BY <1>0, <1>3, <2>1 DEF Exit, TypeOK, Resources, IInv
  <1>4. CASE UNCHANGED vars
    <2>1. Resources'
      BY <1>4, OthersKeep DEF vars, Resources
    <2> QED
      BY <1>0, <1>4, <2>1 DEF vars, TypeOK, Resources, IInv
  <1> QED
    BY <1>1, <1>2, <1>3, <1>4

LEMMA Inductive == IInv /\ [Next]_vars => IInv'
  BY StartKeeps, TasksKeep, EndKeeps DEF Next, Progress

LEMMA Invariant == Spec => []IInv
  BY InvInit, Inductive, PTL DEF Spec

-----------------------------------------------------------------------------
(* The theorems.                                                            *)

\* The process is always in a state the types describe: no step of Run is
\* skipped, no defer closes what was not opened.
THEOREM TypeCorrect == Spec => []TypeOK
  BY Invariant, PTL DEF IInv

\* Nothing is closed while something that is open, a running task or a request
\* that was not given up still works with it.
THEOREM ClosesCorrect == Spec => []DependentsClosedFirst
  <1>1. ASSUME IInv PROVE DependentsClosedFirst
    <2>1. ASSUME NEW s \in Range(opened), NEW u \in Kind(s).uses
          PROVE  u \in Range(opened)
      <3>1. s \in Range(App(program).opens)
        BY <1>1 DEF IInv, InOrder, Mine, Range
      <3>2. u \in Mine(program) /\ Rank(u) < Rank(s)
        BY <1>1, <3>1, UsesEarlier DEF IInv, TypeOK
      <3> QED
        BY <1>1, <3>2 DEF IInv, NoGap
    <2>2. ASSUME NEW u \in Mine(program), phase = "running" PROVE u \in Range(opened)
      <3>1. PICK k \in DOMAIN App(program).opens : App(program).opens[k] = u
        BY DEF Mine, Range
      <3>2. k < next
        BY <1>1, <2>2, <3>1, Rising DEF IInv, Stages, TypeOK
      <3> QED
        BY <1>1, <2>2, <3>1, <3>2 DEF IInv, KeptOpen, Mine
    <2>3. ASSUME NEW t \in DOMAIN tasks, tasks[t] \in {"running", "draining"}
          PROVE  phase = "running"
      BY <1>1, <2>3 DEF IInv, Stages
    <2>4. request = "serving" /\ ~timedOut => phase = "running"
      BY <1>1, <2>3, HttpTask DEF IInv, Stages, TypeOK
    <2> QED
      BY <2>1, <2>2, <2>3, <2>4 DEF DependentsClosedFirst, Mine
  <1> QED
    BY <1>1, Invariant, PTL

\* A request is cut only if it outlasted the graceful stop.
THEOREM RequestsCorrect == Spec => []RequestAnswered
  BY Invariant, PTL DEF IInv

\* With both figures configured every failed attempt is followed by a pause.
THEOREM PausesCorrect == Spec => []PausesWhenConfigured
  BY Invariant, PTL DEF IInv
=============================================================================

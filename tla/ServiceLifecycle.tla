--------------------------- MODULE ServiceLifecycle ---------------------------
(***************************************************************************)
(* The life of one process of the system, whichever of the six programs it *)
(* runs: configuration, start-up, the tasks of its errgroup, a signal, the *)
(* graceful stop of the HTTP server, the deferred closes and the exit code. *)
(* A program is data: the keys its configuration asks for, the steps its   *)
(* Run goes through and the tasks it starts.                               *)
(***************************************************************************)
EXTENDS Naturals, SequencesExt

CONSTANT MaxAttempts    \* bound: attempts of one connection
ASSUME MaxAttemptsAssumption == MaxAttempts \in Nat \ {0}

Program == {"collector", "preprocessor", "analytics-api", "query-service",
            "auth", "api-gateway"}

-----------------------------------------------------------------------------
(* Configuration.  Only the keys that some program needs and does not       *)
(* default are told apart: the name of telemetry, the brokers, the streams, *)
(* the secret of auth, the figures of the retry pauses ("intervals" is      *)
(* initial_interval and max_interval, which always come together), and      *)
(* "weak_acks": a required_acks other than the default, all.                *)

Key == {"telemetry.service_name", "brokers", "streams", "jwt.secret",
        "intervals", "multiplier", "weak_acks"}

\* A default gives a key its value; a known key has the default "".
CollectorConfig ==
    [defaults |-> {"telemetry.service_name"}, known |-> {"weak_acks"},
     required |-> {"telemetry.service_name", "brokers", "streams"}]
PreprocessorConfig ==
    [defaults |-> {"telemetry.service_name", "brokers", "intervals"},
     known |-> {"weak_acks"}, required |-> {"telemetry.service_name", "brokers"}]
AnalyticsConfig ==
    [defaults |-> {"telemetry.service_name", "brokers", "intervals"},
     known |-> {}, required |-> {"telemetry.service_name", "brokers"}]
QueryConfig == [defaults |-> {}, known |-> {},
    required |-> {"telemetry.service_name"}]
AuthConfig == [defaults |-> {}, known |-> {"jwt.secret"},
    required |-> {"telemetry.service_name"}]
GatewayConfig == [defaults |-> {}, known |-> {},
    required |-> {"telemetry.service_name"}]

Config(p) == CASE p = "collector" -> CollectorConfig
               [] p = "preprocessor" -> PreprocessorConfig
               [] p = "analytics-api" -> AnalyticsConfig
               [] p = "query-service" -> QueryConfig
               [] p = "auth" -> AuthConfig
               [] p = "api-gateway" -> GatewayConfig

\* The environment counts only for keys viper knows from elsewhere, because
\* the structure is decoded from AllSettings.
Loaded(p, file, env) ==
    LET settings == Config(p).defaults \cup Config(p).known \cup file
    IN  Config(p).defaults \cup file \cup (env \cap settings)

\* The pauses between attempts: the configuration is passed on as it is,
\* without the defaults of backoff.Config, so a missing figure is zero.
\* Mutant: the first pause does not come from the configuration.
FirstPauseIgnoresConfig(conf) == 0
FirstPause(conf) == IF "intervals" \in conf THEN 1 ELSE 0

NextPause(conf, pause) == IF "multiplier" \in conf THEN 2 * pause ELSE 0

-----------------------------------------------------------------------------
(* Programs: the steps of Run that can fail or leave something open, in     *)
(* their order, and the goroutines of the errgroup.                         *)

CollectorApp ==
    [opens |-> <<"telemetry", "ws-connector", "ws-manager", "producer">>,
     tasks |-> {"http", "ws"}]
\* Mutant: the aggregator is set up before what it flushes to.
PreprocessorAppAggregatorFirst ==
    [opens |-> <<"telemetry", "redis", "aggregator", "migrations", "database",
                 "producer", "consumer">>,
     tasks |-> {"http", "consume"}]
PreprocessorApp ==
    [opens |-> <<"telemetry", "redis", "migrations", "database", "producer",
                 "aggregator", "consumer">>,
     tasks |-> {"http", "consume"}]
AnalyticsApp ==
    [opens |-> <<"telemetry", "database", "consumer", "listener">>,
     tasks |-> {"http", "grpc"}]
QueryApp ==
    [opens |-> <<"telemetry", "database", "listener">>,
     tasks |-> {"http", "grpc"}]
AuthApp ==
    [opens |-> <<"telemetry", "migrations", "database", "signer", "listener">>,
     tasks |-> {"http", "grpc"}]
GatewayApp ==
    [opens |-> <<"telemetry", "clients">>, tasks |-> {"http"}]

App(p) == CASE p = "collector" -> CollectorApp
            [] p = "preprocessor" -> PreprocessorApp
            [] p = "analytics-api" -> AnalyticsApp
            [] p = "query-service" -> QueryApp
            [] p = "auth" -> AuthApp
            [] p = "api-gateway" -> GatewayApp

Step == UNION {Range(App(p).opens) : p \in Program}

\* How a step ends: it may fail at once, it connects inside backoff.Execute,
\* a defer closes what it opened, and what that close works with.
TelemetryStep == [fails |-> TRUE, retries |-> FALSE, deferred |-> TRUE, uses |-> {}]
RedisStep == [fails |-> TRUE, retries |-> FALSE, deferred |-> TRUE, uses |-> {}]
MigrationsStep == [fails |-> TRUE, retries |-> FALSE, deferred |-> FALSE, uses |-> {}]
DatabaseStep == [fails |-> TRUE, retries |-> FALSE, deferred |-> TRUE, uses |-> {}]
ProducerStep == [fails |-> TRUE, retries |-> TRUE, deferred |-> TRUE, uses |-> {}]
ConsumerStep == [fails |-> TRUE, retries |-> TRUE, deferred |-> TRUE, uses |-> {}]
AggregatorStep == [fails |-> TRUE, retries |-> FALSE, deferred |-> TRUE,
                   uses |-> {"redis", "database", "producer"}]
ConnectorStep == [fails |-> TRUE, retries |-> FALSE, deferred |-> TRUE, uses |-> {}]
ManagerStep == [fails |-> FALSE, retries |-> FALSE, deferred |-> TRUE,
                uses |-> {"ws-connector"}]
ClientsStep == [fails |-> TRUE, retries |-> FALSE, deferred |-> TRUE, uses |-> {}]
SignerStep == [fails |-> FALSE, retries |-> FALSE, deferred |-> FALSE, uses |-> {}]
ListenerStep == [fails |-> TRUE, retries |-> FALSE, deferred |-> FALSE, uses |-> {}]

Kind(s) == CASE s = "telemetry" -> TelemetryStep
             [] s = "redis" -> RedisStep
             [] s = "migrations" -> MigrationsStep
             [] s = "database" -> DatabaseStep
             [] s = "producer" -> ProducerStep
             [] s = "consumer" -> ConsumerStep
             [] s = "aggregator" -> AggregatorStep
             [] s = "ws-connector" -> ConnectorStep
             [] s = "ws-manager" -> ManagerStep
             [] s = "clients" -> ClientsStep
             [] s = "signer" -> SignerStep
             [] s = "listener" -> ListenerStep

Deferred == {s \in Step : Kind(s).deferred}

\* What a task works with; /readyz asks the store or service it depends on.
TaskUses(t) == CASE t = "ws" -> {"ws-manager", "producer"}
                 [] t = "consume" -> {"consumer", "aggregator"}
                 [] t = "grpc" -> {"database", "consumer"}
                 [] t = "http" -> {"database", "producer", "clients"}

VARIABLES
    program,    \* which of the programs the process runs
    conf,       \* the keys its configuration has a value for
    phase,      \* where main is
    next,       \* the step of Run that comes next
    opened,     \* what the defers will close, in the order it was opened
    attempts,   \* failed attempts of the step under way
    pause,      \* the pause before the next attempt
    signalled,  \* SIGINT or SIGTERM has cancelled the context
    tasks,      \* the goroutines of the errgroup
    request,    \* a request on the HTTP server
    timedOut,   \* the graceful stop of the HTTP server ran out of time
    result,     \* the error the errgroup, then Run, returns
    exitCode

vars == <<program, conf, phase, next, opened, attempts, pause, signalled,
          tasks, request, timedOut, result, exitCode>>

starting == <<next, opened, attempts, pause>>
serving == <<tasks, request, timedOut>>

Error == {"nil", "canceled", "deadline", "failure"}

TypeOK ==
    /\ program \in Program /\ conf \subseteq Key
    /\ phase \in {"config", "starting", "running", "closing", "exited"}
    /\ next \in 1 .. Len(App(program).opens) + 1
    /\ Range(opened) \subseteq Deferred /\ Len(opened) <= next - 1
    /\ attempts \in 0 .. MaxAttempts /\ pause \in Nat
    /\ signalled \in BOOLEAN /\ timedOut \in BOOLEAN
    /\ tasks \in [App(program).tasks ->
                    {"off", "running", "draining", "ended"}]
    /\ request \in {"none", "serving", "answered", "cut"}
    /\ result \in Error /\ exitCode \in {0, 1}

Init ==
    /\ program \in Program
    /\ \E file, env \in SUBSET Key : conf = Loaded(program, file, env)
    /\ phase = "config" /\ next = 1 /\ opened = <<>>
    /\ attempts = 0 /\ pause = 0
    /\ signalled = FALSE /\ timedOut = FALSE
    /\ tasks = [t \in App(program).tasks |-> "off"]
    /\ request = "none" /\ result = "nil" /\ exitCode = 0

-----------------------------------------------------------------------------
(* main and the start-up half of Run.                                       *)

\* main: os.Exit(1) when Load or the logger fails; the context of the signals
\* is made after both.
LoadConfig ==
    /\ phase = "config"
    /\ \/ /\ Config(program).required \subseteq conf
          /\ phase' = "starting" /\ UNCHANGED exitCode
       \/ phase' = "exited" /\ exitCode' = 1
    /\ UNCHANGED <<program, conf, starting, signalled, serving, result>>

Current == App(program).opens[next]

Starting == phase = "starting" /\ next <= Len(App(program).opens)

\* auth's signer needs a secret; the producer is idempotent, which needs all
\* acknowledgements.
SignerBuilt == "jwt.secret" \in conf
SaramaConfigBuilt == "weak_acks" \notin conf

\* What a step opened gets its deferred close.
\* Mutant: every attempt to connect leaves one.
OpenedPerAttempt == opened \o [i \in 1 .. attempts + 1 |-> Current]
OpenedWith == IF Current \in Deferred THEN Append(opened, Current) ELSE opened

\* The step under way succeeds.
Open ==
    /\ Starting
    /\ Current = "signer" => SignerBuilt
    /\ Current = "producer" => SaramaConfigBuilt
    /\ next' = next + 1 /\ attempts' = 0 /\ pause' = 0
    /\ opened' = OpenedWith
    /\ UNCHANGED <<program, conf, phase, signalled, serving, result, exitCode>>

\* The step fails at once and Run returns: the defers close what is open.
OpenFails ==
    /\ Starting
    /\ \/ Kind(Current).fails
       \/ Current = "signer" /\ ~SignerBuilt
    /\ phase' = "closing" /\ result' = "failure"
    /\ UNCHANGED <<program, conf, starting, signalled, serving, exitCode>>

\* An attempt to connect fails; RetryNotify asks for the next pause.
AttemptFails ==
    /\ Starting /\ Kind(Current).retries /\ attempts < MaxAttempts
    /\ Current = "producer" => SaramaConfigBuilt
    /\ attempts' = attempts + 1
    /\ pause' = IF attempts = 0 THEN FirstPause(conf) ELSE NextPause(conf, pause)
    /\ UNCHANGED <<program, conf, phase, next, opened, signalled, serving,
                   result, exitCode>>

\* After a failed attempt: the time for retries is over, or the context ended.
GiveUp ==
    /\ Starting /\ Kind(Current).retries /\ attempts > 0
    /\ phase' = "closing"
    /\ result' = IF signalled THEN "canceled" ELSE "failure"
    /\ UNCHANGED <<program, conf, starting, signalled, serving, exitCode>>

\* signal.NotifyContext; nothing reads a second signal.
Signal ==
    /\ phase \in {"starting", "running"} /\ ~signalled
    /\ signalled' = TRUE
    /\ UNCHANGED <<program, conf, phase, starting, serving, result, exitCode>>

-----------------------------------------------------------------------------
(* The errgroup.  Its context ends with the signal and with the first error. *)

StartTasks ==
    /\ phase = "starting" /\ next > Len(App(program).opens)
    /\ phase' = "running"
    /\ tasks' = [t \in DOMAIN tasks |-> "running"]
    /\ UNCHANGED <<program, conf, starting, signalled, request, timedOut,
                   result, exitCode>>

ContextDone == signalled \/ result # "nil"

\* A task returns err; g.Wait returns the first one.
Return(t, err) ==
    /\ tasks' = [tasks EXCEPT ![t] = "ended"]
    /\ result' = IF result = "nil" THEN err ELSE result
    /\ UNCHANGED <<program, conf, phase, starting, signalled, exitCode>>

Running(t) == phase = "running" /\ t \in DOMAIN tasks /\ tasks[t] = "running"

\* ListenAndServe fails: the address is taken.
ListenFails ==
    /\ Running("http") /\ request = "none"
    /\ Return("http", "failure")
    /\ UNCHANGED <<request, timedOut>>

RequestArrives ==
    /\ Running("http") /\ request = "none"
    /\ request' = "serving"
    /\ UNCHANGED <<program, conf, phase, starting, signalled, tasks, timedOut,
                   result, exitCode>>

\* The handler ends; its context is the server's, so it may end early.  If it
\* panics, RecoverMiddleware answers in its place.
RequestEnds ==
    /\ request = "serving" /\ phase # "exited"
    /\ request' = "answered"
    /\ UNCHANGED <<program, conf, phase, starting, signalled, tasks, timedOut,
                   result, exitCode>>

\* The context is done: no new connection, and Shutdown waits.
Drain ==
    /\ Running("http") /\ ContextDone
    /\ tasks' = [tasks EXCEPT !["http"] = "draining"]
    /\ UNCHANGED <<program, conf, phase, starting, signalled, request,
                   timedOut, result, exitCode>>

Draining == phase = "running" /\ tasks["http"] = "draining"

\* Shutdown returns when no request is being served ...
\* Mutant: Run returns without waiting for Shutdown.
DrainedAtOnce ==
    /\ Draining
    /\ Return("http", "canceled") /\ UNCHANGED <<request, timedOut>>
Drained ==
    /\ Draining /\ request # "serving"
    /\ Return("http", "canceled") /\ UNCHANGED <<request, timedOut>>

\* ... or when the time is over, with an error and the request still running.
\* Mutant: Shutdown gets a context without a deadline.
DrainNeverTimesOut == FALSE /\ UNCHANGED vars
DrainTimesOut ==
    /\ Draining /\ request = "serving"
    /\ timedOut' = TRUE /\ Return("http", "deadline") /\ UNCHANGED request

\* The loops of the collector and of the preprocessor watch the context ...
LoopStops ==
    /\ \E t \in {"ws", "consume"} :
          Running(t) /\ ContextDone /\ Return(t, "canceled")
    /\ UNCHANGED <<request, timedOut>>

\* ... and end by themselves when their retries are over; gRPC's Serve ends
\* only by an error of its listener: nobody stops the server.
TaskFails ==
    /\ \E t \in {"ws", "consume", "grpc"} : Running(t) /\ Return(t, "failure")
    /\ UNCHANGED <<request, timedOut>>

\* g.Wait returns.  All programs but the collector look at the group's own
\* context, which the first error has cancelled, and return nil.
RunResult(p, err) == IF p = "collector" /\ err # "canceled" THEN err ELSE "nil"

WaitReturns ==
    /\ phase = "running" /\ \A t \in DOMAIN tasks : tasks[t] = "ended"
    /\ phase' = "closing" /\ result' = RunResult(program, result)
    /\ UNCHANGED <<program, conf, starting, signalled, serving, exitCode>>

-----------------------------------------------------------------------------
(* The deferred closes, last opened first, and the exit.                    *)

Close ==
    /\ phase = "closing" /\ opened # <<>>
    /\ opened' = Front(opened)
    /\ UNCHANGED <<program, conf, phase, next, attempts, pause, signalled,
                   serving, result, exitCode>>

Exit ==
    /\ phase = "closing" /\ opened = <<>>
    /\ phase' = "exited"
    /\ exitCode' = IF result \in {"nil", "canceled"} THEN 0 ELSE 1
    /\ request' = IF request = "serving" THEN "cut" ELSE request
    /\ UNCHANGED <<program, conf, starting, signalled, tasks, timedOut, result>>

Progress == LoadConfig \/ Open \/ OpenFails \/ GiveUp \/ StartTasks \/ Drain
            \/ Drained \/ DrainTimesOut \/ LoopStops \/ WaitReturns \/ Close \/ Exit

Next == Progress \/ AttemptFails \/ Signal \/ ListenFails \/ RequestArrives
        \/ RequestEnds \/ TaskFails

Spec == Init /\ [][Next]_vars

\* Go runs a goroutine that can run, a connection attempt returns, and a
\* timer fires; whether a handler ends, a task fails or a signal comes is open.
FairSpec == Spec /\ WF_vars(Progress)

-----------------------------------------------------------------------------

\* Nothing is closed under something that still works with it: neither under
\* a resource whose own close needs it (the aggregator flushes to the sinks),
\* nor under a running task, nor under a request, unless the graceful stop of
\* the HTTP server gave up on it.
DependentsClosedFirst ==
    LET mine == Range(App(program).opens) \cap Deferred
        users == {t \in DOMAIN tasks : tasks[t] \in {"running", "draining"}}
                   \cup (IF request = "serving" /\ ~timedOut THEN {"http"} ELSE {})
    IN  /\ \A s \in Range(opened) : Kind(s).uses \subseteq Range(opened)
        /\ \A t \in users : TaskUses(t) \cap mine \subseteq Range(opened)

\* A request the server has taken is answered before the process exits; only
\* one that outlasts the graceful stop is cut.
RequestAnswered == request = "cut" => timedOut

\* A failed attempt to connect is followed by a pause when the configuration
\* gives both figures; backoff's own defaults are never applied, so nothing
\* else may be relied on.
PausesWhenConfigured ==
    attempts > 0 /\ {"intervals", "multiplier"} \subseteq conf => pause > 0

\* A signal ends every program whose tasks watch the context.
SignalEnds ==
    signalled /\ "grpc" \notin App(program).tasks ~> phase = "exited"
=============================================================================

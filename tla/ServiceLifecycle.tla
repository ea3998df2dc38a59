--------------------------- MODULE ServiceLifecycle ---------------------------
(***************************************************************************)
(* The life of the process (app.Run): configuration, logger, plug-in       *)
(* resources, gRPC server, background tasks and HTTP server are started in *)
(* this order; a signal stops them in another one, and the deferred calls  *)
(* of Run close what is left.  Next to the main goroutine run the HTTP and *)
(* gRPC servers' goroutines, one per request, some of which produce to     *)
(* Kafka through writers made on demand, and the merge worker, which       *)
(* nothing stops and which logs until the end.                             *)
(***************************************************************************)
EXTENDS Integers, FiniteSets, Sequences

CONSTANTS
    Handlers,      \* bound: requests in progress
    MaxRequests,   \* bound: requests served
    Worlds         \* sets of circumstances that the process may start in

Circumstances == {"no config", "no mysql", "mysql leaves", "no redis", "no rustfs settings",
    "no user service", "user service leaves", "no grpc port", "grpc port taken",
    "http port taken", "log to file", "log file unwritable", "tracing"}

ASSUME LifecycleAssumption ==
    /\ MaxRequests \in Nat
    /\ Worlds \subseteq SUBSET Circumstances

Resources == {"mysql", "redis", "rustfs", "kafka", "logger"}   \* registered plug-ins
Closable  == Resources \cup {"tracer", "database"}

VARIABLES
    world,      \* the circumstances of this process
    main,       \* where Run is
    exit,       \* how the process ended, or "no"
    opened,     \* what has been opened
    closed,     \* what has been closed
    signalled,  \* SIGINT or SIGTERM has been sent
    grpc, http, \* the servers
    handler,    \* where the goroutine of a request is
    served,     \* requests accepted
    topicWriter,\* c.writers[topic]: a Kafka writer, or 0
    mine,       \* the writer that a handler holds
    made,       \* writers made, numbered from 1
    dialled,    \* writers that wrote a message and have connections
    shut,       \* writers closed
    worker,     \* the merge worker: off, working, or inside writeLog
    target,     \* where the line of writeLog goes
    logFile,    \* the log file: none, open, closed
    logHandle,  \* l.file # nil
    lost        \* history: a line was written to a closed file

servers == <<grpc, http>>
kafka   == <<topicWriter, mine, made, dialled, shut>>
log     == <<worker, target, logFile, logHandle, lost>>
vars    == <<world, main, exit, opened, closed, signalled, servers, handler,
             served, kafka, log>>

Startup  == {"config", "log", "tracer", "resources", "database", "user_client",
             "grpc", "tasks", "routes", "listen", "notify"}
Stopping == {"graceful_stop", "shutdown", "drain", "log_close", "defers", "stop_tracer"}
InRequest == {"rpc", "http", "load", "store", "write", "reply"}

TypeOK ==
    /\ world \in Worlds
    /\ main \in Startup \cup {"serve"} \cup Stopping
    /\ exit \in {"no", "clean", "fatal", "panic", "killed"}
    /\ opened \subseteq Closable /\ closed \subseteq opened
    /\ signalled \in BOOLEAN
    /\ grpc \in {"off", "serving", "draining", "stopped"}
    /\ http \in {"off", "launching", "serving", "closed"}
    /\ handler \in [Handlers -> {"idle"} \cup InRequest]
    /\ served \in 0 .. MaxRequests
    /\ made \in Nat /\ topicWriter \in 0 .. made
    /\ mine \in [Handlers -> 0 .. made]
    /\ dialled \subseteq 1 .. made /\ shut \subseteq 1 .. made
    /\ worker \in {"off", "working", "writing"}
    /\ target \in {"stdout", "file"}
    /\ logFile \in {"none", "open", "closed"}
    /\ logHandle \in BOOLEAN /\ lost \in BOOLEAN

Init ==
    /\ world \in Worlds
    /\ main = "config" /\ exit = "no"
    /\ opened = {} /\ closed = {} /\ signalled = FALSE
    /\ grpc = "off" /\ http = "off"
    /\ handler = [h \in Handlers |-> "idle"] /\ served = 0
    /\ topicWriter = 0 /\ mine = [h \in Handlers |-> 0]
    /\ made = 0 /\ dialled = {} /\ shut = {}
    /\ worker = "off" /\ target = "stdout" /\ logFile = "none"
    /\ logHandle = FALSE /\ lost = FALSE

Alive == exit = "no"
Open(r) == r \in opened \ closed

-----------------------------------------------------------------------------
(* The main goroutine, one step per phase of Run.                          *)

At(l)   == Alive /\ main = l
Then(l) == main' = l

\* os.Exit, in whichever goroutine: no deferred call runs.
Exits(how) == exit' = how /\ UNCHANGED main

LoadConfig ==
    /\ At("config")
    /\ IF "no config" \in world THEN Exits("fatal") ELSE Then("log") /\ UNCHANGED exit
    /\ UNCHANGED <<world, opened, closed, signalled, servers, handler, served, kafka, log>>

\* NewLogger: a file that cannot be opened makes the logger write to stdout.
NewLogger ==
    /\ At("log")
    /\ IF "log to file" \in world /\ "log file unwritable" \notin world
         THEN logFile' = "open" /\ logHandle' = TRUE
         ELSE UNCHANGED <<logFile, logHandle>>
    /\ Then("tracer")
    /\ UNCHANGED <<world, exit, opened, closed, signalled, servers, handler, served,
                   kafka, worker, target, lost>>

\* Without an endpoint there is nothing to shut down later.
InitTracer ==
    /\ At("tracer")
    /\ opened' = IF "tracing" \in world THEN opened \cup {"tracer"} ELSE opened
    /\ Then("resources")
    /\ UNCHANGED <<world, exit, closed, signalled, servers, handler, served, kafka, log>>

\* What makes MustOpen of a resource panic: a database that does not answer, a
\* Redis that does not answer the ping, RustFS without settings.
MysqlFails  == "no mysql" \in world
RedisFails  == "no redis" \in world
RustFSFails == "no rustfs settings" \in world

\* Kafka and the logger always open: the brokers are not dialled, but for a
\* topic creation whose error is dropped.
CannotOpen(r) ==
    \/ r = "mysql"  /\ MysqlFails
    \/ r = "redis"  /\ RedisFails
    \/ r = "rustfs" /\ RustFSFails

\* MustInitResources ranges over a map: any order.  A panic unwinds Run, of
\* whose deferred calls only the one of the tracer is there yet.
MustInitResources ==
    /\ At("resources")
    /\ \/ \E r \in Resources \ opened :
            /\ ~CannotOpen(r)
            /\ opened' = opened \cup {r}
            /\ UNCHANGED <<main, exit, closed>>
       \/ \E r \in Resources \ opened :
            /\ CannotOpen(r) /\ Exits("panic")
            /\ closed' = closed \cup (opened \cap {"tracer"})
            /\ UNCHANGED opened
       \/ Resources \subseteq opened /\ Then("database") /\ UNCHANGED <<exit, opened, closed>>
    /\ UNCHANGED <<world, signalled, servers, handler, served, kafka, log>>

\* A second connection pool, that of the dependency container.
NewDatabase ==
    /\ At("database")
    /\ IF "mysql leaves" \in world
         THEN Exits("fatal") /\ UNCHANGED opened
         ELSE Then("user_client") /\ opened' = opened \cup {"database"} /\ UNCHANGED exit
    /\ UNCHANGED <<world, closed, signalled, servers, handler, served, kafka, log>>

NewUserServiceClient ==
    /\ At("user_client")
    /\ IF "no user service" \in world THEN Exits("fatal") ELSE Then("grpc") /\ UNCHANGED exit
    /\ UNCHANGED <<world, opened, closed, signalled, servers, handler, served, kafka, log>>

\* The gRPC server serves from here on, before the rest has started.
StartGrpcServer ==
    /\ At("grpc")
    /\ \/ "no grpc port" \in world /\ Then("tasks") /\ UNCHANGED <<exit, grpc>>
       \/ /\ "no grpc port" \notin world
          /\ IF "grpc port taken" \in world
               THEN Exits("fatal") /\ UNCHANGED grpc
               ELSE Then("tasks") /\ grpc' = "serving" /\ UNCHANGED exit
    /\ UNCHANGED <<world, opened, closed, signalled, http, handler, served, kafka, log>>

StartTasks ==
    /\ At("tasks")
    /\ worker' = "working"
    /\ Then("routes")
    /\ UNCHANGED <<world, exit, opened, closed, signalled, servers, handler, served,
                   kafka, target, logFile, logHandle, lost>>

\* The controllers make the singletons of the application; the one of the user
\* service dials it a second time.
RegisterAllRoutes ==
    /\ At("routes")
    /\ IF "user service leaves" \in world THEN Exits("fatal") ELSE Then("listen") /\ UNCHANGED exit
    /\ UNCHANGED <<world, opened, closed, signalled, servers, handler, served, kafka, log>>

StartHttpServer ==
    /\ At("listen")
    /\ http' = "launching"
    /\ Then("notify")
    /\ UNCHANGED <<world, exit, opened, closed, signalled, grpc, handler, served, kafka, log>>

\* signal.Notify: from here on a signal is received by Run.
Notify ==
    /\ At("notify")
    /\ Then("serve")
    /\ UNCHANGED <<world, exit, opened, closed, signalled, servers, handler, served, kafka, log>>

ReceiveSignal ==
    /\ At("serve") /\ signalled
    /\ Then("graceful_stop")
    /\ grpc' = IF grpc = "serving" THEN "draining" ELSE grpc
    /\ UNCHANGED <<world, exit, opened, closed, signalled, http, handler, served, kafka, log>>

\* Mutant: the gRPC server is stopped without waiting for its calls.
StopGrpcServer ==
    /\ At("graceful_stop")
    /\ grpc' = IF grpc = "draining" THEN "stopped" ELSE grpc
    /\ Then("shutdown")
    /\ UNCHANGED <<world, exit, opened, closed, signalled, http, handler, served, kafka, log>>

\* GracefulStop waits for every call, without a limit; HTTP still serves.
GracefulStop ==
    /\ At("graceful_stop")
    /\ \A h \in Handlers : handler[h] # "rpc"
    /\ grpc' = IF grpc = "draining" THEN "stopped" ELSE grpc
    /\ Then("shutdown")
    /\ UNCHANGED <<world, exit, opened, closed, signalled, http, handler, served, kafka, log>>

\* server.Shutdown closes the listener and then waits for the requests.
Shutdown ==
    /\ At("shutdown")
    /\ http' = "closed"
    /\ Then("drain")
    /\ UNCHANGED <<world, exit, opened, closed, signalled, grpc, handler, served, kafka, log>>

\* Only HTTP requests are waited for: the gRPC server has been.
Drained == \A h \in Handlers : handler[h] \in {"idle", "rpc"}

ShutdownReturns ==
    /\ At("drain") /\ Drained
    /\ Then("log_close")
    /\ UNCHANGED <<world, exit, opened, closed, signalled, servers, handler, served, kafka, log>>

\* Mutant: requests that are still running after 5 s are only logged.
ShutdownGivesUp ==
    /\ At("drain") /\ ~Drained
    /\ Then("log_close")
    /\ UNCHANGED <<world, exit, opened, closed, signalled, servers, handler, served, kafka, log>>

\* Mutant: Shutdown has no deadline.
ShutdownWaits == FALSE

\* After 5 s it gives up: Fatal.
ShutdownTimesOut ==
    /\ At("drain") /\ ~Drained
    /\ Exits("fatal")
    /\ UNCHANGED <<world, opened, closed, signalled, servers, handler, served, kafka, log>>

\* Mutant: the logger is closed without its mutex.
CloseLoggerUnlocked ==
    /\ At("log_close")
    /\ logFile' = IF logHandle THEN "closed" ELSE logFile
    /\ logHandle' = FALSE
    /\ Then("defers")
    /\ UNCHANGED <<world, exit, opened, closed, signalled, servers, handler, served,
                   kafka, worker, target, lost>>

\* logService.Close, under the mutex of the logger.
CloseLogger ==
    /\ At("log_close")
    /\ worker # "writing"
    /\ logFile' = IF logHandle THEN "closed" ELSE logFile
    /\ logHandle' = FALSE
    /\ Then("defers")
    /\ UNCHANGED <<world, exit, opened, closed, signalled, servers, handler, served,
                   kafka, worker, target, lost>>

\* The deferred db.Close and CloseResources; the Kafka client closes the writer
\* of each topic.
CloseResources ==
    /\ At("defers")
    /\ closed' = closed \cup Resources \cup {"database"}
    /\ shut' = shut \cup ({topicWriter} \ {0})
    /\ Then("stop_tracer")
    /\ UNCHANGED <<world, exit, opened, signalled, servers, handler, served,
                   topicWriter, mine, made, dialled, log>>

\* Mutant: the tracer is shut down even when there is none.
ShutdownTracerAlways ==
    /\ At("stop_tracer")
    /\ closed' = closed \cup {"tracer"}
    /\ Exits("clean")
    /\ UNCHANGED <<world, opened, signalled, servers, handler, served, kafka, log>>

ShutdownTracer ==
    /\ At("stop_tracer")
    /\ closed' = closed \cup (opened \cap {"tracer"})
    /\ Exits("clean")
    /\ UNCHANGED <<world, opened, signalled, servers, handler, served, kafka, log>>

MainStep ==
    \/ LoadConfig \/ NewLogger \/ InitTracer \/ MustInitResources \/ NewDatabase
    \/ NewUserServiceClient \/ StartGrpcServer \/ StartTasks \/ RegisterAllRoutes
    \/ StartHttpServer \/ Notify \/ ReceiveSignal \/ GracefulStop \/ Shutdown
    \/ ShutdownReturns \/ ShutdownTimesOut \/ CloseLogger \/ CloseResources
    \/ ShutdownTracer

-----------------------------------------------------------------------------
(* The goroutine of the HTTP server, the requests, the signal.             *)

ListenAndServe ==
    /\ Alive /\ http = "launching"
    /\ IF "http port taken" \in world
         THEN exit' = "fatal" /\ UNCHANGED http
         ELSE http' = "serving" /\ UNCHANGED exit
    /\ UNCHANGED <<world, main, opened, closed, signalled, grpc, handler, served, kafka, log>>

\* A signal sent before Notify kills the process at once.
Signal ==
    /\ Alive /\ ~signalled
    /\ signalled' = TRUE
    /\ exit' = IF main \in Startup THEN "killed" ELSE exit
    /\ UNCHANGED <<world, main, opened, closed, servers, handler, served, kafka, log>>

HandlerGoto(h, l) == handler' = [handler EXCEPT ![h] = l]
Request == <<world, main, exit, opened, closed, signalled, servers, log>>

Accept(h) ==
    /\ Alive /\ handler[h] = "idle" /\ served < MaxRequests
    /\ \/ grpc = "serving" /\ HandlerGoto(h, "rpc")
       \/ http = "serving" /\ HandlerGoto(h, "http")
       \/ http = "serving" /\ HandlerGoto(h, "load")
    /\ served' = served + 1
    /\ UNCHANGED <<Request, kafka>>

RpcReturns(h) ==
    /\ Alive /\ handler[h] = "rpc"
    /\ HandlerGoto(h, "idle")
    /\ UNCHANGED <<Request, served, kafka>>

HttpReturns(h) ==
    /\ Alive /\ handler[h] \in {"http", "reply"}
    /\ HandlerGoto(h, "idle")
    /\ mine' = [mine EXCEPT ![h] = 0]
    /\ UNCHANGED <<Request, served, topicWriter, made, dialled, shut>>

\* Client.Writer: Load; a handler that finds no writer for the topic makes one.
LoadWriter(h) ==
    /\ Alive /\ handler[h] = "load"
    /\ \/ /\ topicWriter # 0
          /\ mine' = [mine EXCEPT ![h] = topicWriter]
          /\ HandlerGoto(h, "write")
          /\ UNCHANGED made
       \/ /\ topicWriter = 0
          /\ made' = made + 1
          /\ mine' = [mine EXCEPT ![h] = made + 1]
          /\ HandlerGoto(h, "store")
    /\ UNCHANGED <<Request, served, topicWriter, dialled, shut>>

\* Mutant: Store instead of LoadOrStore.
StoreWriter(h) ==
    /\ Alive /\ handler[h] = "store"
    /\ topicWriter' = mine[h]
    /\ HandlerGoto(h, "write")
    /\ UNCHANGED <<Request, served, mine, made, dialled, shut>>

\* LoadOrStore: the writer that was stored first is the one used.
LoadOrStoreWriter(h) ==
    /\ Alive /\ handler[h] = "store"
    /\ topicWriter' = IF topicWriter = 0 THEN mine[h] ELSE topicWriter
    /\ mine' = [mine EXCEPT ![h] = topicWriter']
    /\ HandlerGoto(h, "write")
    /\ UNCHANGED <<Request, served, made, dialled, shut>>

WriteMessages(h) ==
    /\ Alive /\ handler[h] = "write"
    /\ dialled' = dialled \cup {mine[h]}
    /\ HandlerGoto(h, "reply")
    /\ UNCHANGED <<Request, served, topicWriter, mine, made, shut>>

-----------------------------------------------------------------------------
(* The merge worker works to the end of the process and logs.  writeLog    *)
(* holds the mutex from its look at l.file to the write.                   *)

WorkerLogs ==
    /\ Alive /\ worker = "working"
    /\ target' = IF logHandle THEN "file" ELSE "stdout"
    /\ worker' = "writing"
    /\ UNCHANGED <<world, main, exit, opened, closed, signalled, servers, handler,
                   served, kafka, logFile, logHandle, lost>>

WriteLog ==
    /\ Alive /\ worker = "writing"
    /\ lost' = (lost \/ (target = "file" /\ logFile # "open"))
    /\ worker' = "working" /\ target' = "stdout"
    /\ UNCHANGED <<world, main, exit, opened, closed, signalled, servers, handler,
                   served, kafka, logFile, logHandle>>

Next ==
    \/ MainStep \/ ListenAndServe \/ Signal
    \/ \E h \in Handlers :
         \/ Accept(h) \/ RpcReturns(h) \/ HttpReturns(h)
         \/ LoadWriter(h) \/ LoadOrStoreWriter(h) \/ WriteMessages(h)
    \/ WorkerLogs \/ WriteLog

Spec == Init /\ [][Next]_vars

\* Run keeps running, the calls of the gRPC server and the writes of the log
\* end; a Go mutex goes to the goroutine that has waited for it, however often
\* the others lock it (strong fairness); nothing is assumed of HTTP requests,
\* whose bodies clients send.
FairSpec ==
    /\ Spec
    /\ WF_vars(MainStep) /\ SF_vars(CloseLogger) /\ WF_vars(WriteLog)
    /\ \A h \in Handlers : WF_vars(RpcReturns(h))

-----------------------------------------------------------------------------
\* A request in progress, gRPC or HTTP, finds every resource open: the servers
\* start after the resources and are drained before the deferred calls close
\* them, even though gRPC serves while Run is still starting; HTTP requests,
\* which enqueue merges, find the merge worker (app.go:95-106, 148-194, 238-256).
RequestsHaveResources ==
    Alive => \A h \in Handlers :
        /\ handler[h] # "idle" => \A r \in Resources \cup {"database"} : Open(r)
        /\ handler[h] \in InRequest \ {"rpc"} => worker # "off"

\* A process that ends by returning from Run has answered every request it
\* accepted; only a fatal error, a panic or an early signal cut one off
\* (app.go:238-257).
CleanExitAnswersAll == exit = "clean" => \A h \in Handlers : handler[h] = "idle"

\* It has also closed what it opened: the resources, both database pools, the
\* tracer, the log file, and every Kafka writer that has connections, however
\* many requests asked for the topic's writer at once (client.go:48-69).
CleanExitClosesAll ==
    exit = "clean" =>
        closed = opened /\ dialled \subseteq shut /\ logFile # "open"

\* No log line goes to the closed log file: a line of the worker after Close
\* goes to stdout (logger.go:209-223, 298-308).
NoLineLost == ~lost

\* Once a signal has been sent the process ends, however long its HTTP
\* requests take (app.go:233-257).
SignalEndsProcess == signalled ~> ~Alive
=============================================================================

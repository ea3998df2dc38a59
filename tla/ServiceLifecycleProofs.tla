------------------------ MODULE ServiceLifecycleProofs ------------------------
(***************************************************************************)
(* Proofs about ServiceLifecycle, for any number of requests, of handlers  *)
(* and any circumstances: types, and what the order of start and stop      *)
(* guarantees.                                                             *)
(***************************************************************************)
EXTENDS ServiceLifecycle, TLAPS

HandlerStep(h) ==
    \/ Accept(h) \/ RpcReturns(h) \/ HttpReturns(h)
    \/ LoadWriter(h) \/ LoadOrStoreWriter(h) \/ WriteMessages(h)

-----------------------------------------------------------------------------
(* Types.                                                                  *)

MainTypes ==
    /\ main \in Startup \cup {"serve"} \cup Stopping
    /\ exit \in {"no", "clean", "fatal", "panic", "killed"}
    /\ signalled \in BOOLEAN
    /\ grpc \in {"off", "serving", "draining", "stopped"}
    /\ http \in {"off", "launching", "serving", "closed"}

GrpcUp   == {"tasks", "routes", "listen", "notify", "serve"}
HttpUp   == {"notify", "serve", "graceful_stop", "shutdown"}
Prepared == GrpcUp \cup {"user_client", "grpc"} \cup Stopping

\* What CloseResources closes has been opened.
OpenTypes ==
    /\ opened \subseteq Closable /\ closed \subseteq opened
    /\ main \in Prepared \cup {"database"} => Resources \subseteq opened
    /\ main \in Prepared => "database" \in opened

HandlerTypes ==
    /\ handler \in [Handlers -> {"idle"} \cup InRequest]
    /\ served \in 0 .. MaxRequests

\* A handler that is about to store or to use a writer holds one.
KafkaTypes ==
    /\ made \in Nat /\ topicWriter \in 0 .. made
    /\ mine \in [Handlers -> 0 .. made]
    /\ dialled \subseteq 1 .. made /\ shut \subseteq 1 .. made
    /\ \A h \in Handlers : handler[h] \in {"store", "write"} => mine[h] # 0

LogTypes ==
    /\ worker \in {"off", "working", "writing"}
    /\ target \in {"stdout", "file"}
    /\ logFile \in {"none", "open", "closed"}
    /\ logHandle \in BOOLEAN /\ lost \in BOOLEAN

WorldTypes == world \in Worlds

Types == WorldTypes /\ MainTypes /\ OpenTypes /\ HandlerTypes /\ KafkaTypes /\ LogTypes

LEMMA TypesInit == Init => Types
<1> SUFFICES ASSUME Init PROVE Types OBVIOUS
<1>1. WorldTypes /\ MainTypes BY DEF Init, WorldTypes, MainTypes, Startup
<1>2. OpenTypes BY DEF Init, OpenTypes, Prepared, GrpcUp, Stopping
<1>3. HandlerTypes BY LifecycleAssumption DEF Init, HandlerTypes
<1>4. KafkaTypes BY DEF Init, KafkaTypes
<1>5. LogTypes BY DEF Init, LogTypes
<1> QED BY <1>1, <1>2, <1>3, <1>4, <1>5 DEF Types

LEMMA TypesImply == Types => TypeOK
  BY DEF Types, WorldTypes, MainTypes, OpenTypes, HandlerTypes, KafkaTypes, LogTypes, TypeOK

LEMMA WorldTypesNext ==
    ASSUME WorldTypes, [Next]_vars PROVE WorldTypes'
<1> USE DEF WorldTypes, At, Then, Exits, Alive, servers, kafka, log, Request, HandlerGoto
<1>1. CASE LoadConfig BY <1>1 DEF LoadConfig
<1>2. CASE NewLogger BY <1>2 DEF NewLogger
<1>3. CASE InitTracer BY <1>3 DEF InitTracer
<1>4. CASE MustInitResources BY <1>4 DEF MustInitResources, CannotOpen
<1>5. CASE NewDatabase BY <1>5 DEF NewDatabase
<1>6. CASE NewUserServiceClient BY <1>6 DEF NewUserServiceClient
<1>7. CASE StartGrpcServer BY <1>7 DEF StartGrpcServer
<1>8. CASE StartTasks BY <1>8 DEF StartTasks
<1>9. CASE RegisterAllRoutes BY <1>9 DEF RegisterAllRoutes
<1>10. CASE StartHttpServer BY <1>10 DEF StartHttpServer
<1>11. CASE Notify BY <1>11 DEF Notify
<1>12. CASE ReceiveSignal BY <1>12 DEF ReceiveSignal
<1>13. CASE GracefulStop BY <1>13 DEF GracefulStop
<1>14. CASE Shutdown BY <1>14 DEF Shutdown
<1>15. CASE ShutdownReturns BY <1>15 DEF ShutdownReturns, Drained
<1>16. CASE ShutdownTimesOut BY <1>16 DEF ShutdownTimesOut, Drained
<1>17. CASE CloseLogger BY <1>17 DEF CloseLogger
<1>18. CASE CloseResources BY <1>18 DEF CloseResources
<1>19. CASE ShutdownTracer BY <1>19 DEF ShutdownTracer
<1>20. CASE ListenAndServe BY <1>20 DEF ListenAndServe
<1>21. CASE Signal BY <1>21 DEF Signal
<1>22. CASE WorkerLogs BY <1>22 DEF WorkerLogs
<1>23. CASE WriteLog BY <1>23 DEF WriteLog
<1>24. ASSUME NEW h \in Handlers, HandlerStep(h)
     PROVE  WorldTypes'
  <2>1. CASE Accept(h) BY <2>1 DEF Accept
  <2>2. CASE RpcReturns(h) BY <2>2 DEF RpcReturns
  <2>3. CASE HttpReturns(h) BY <2>3 DEF HttpReturns
  <2>4. CASE LoadWriter(h) BY <2>4 DEF LoadWriter
  <2>5. CASE LoadOrStoreWriter(h) BY <2>5 DEF LoadOrStoreWriter
  <2>6. CASE WriteMessages(h) BY <2>6 DEF WriteMessages
  <2> QED BY <1>24, <2>1, <2>2, <2>3, <2>4, <2>5, <2>6 DEF HandlerStep
<1>25. CASE UNCHANGED vars BY <1>25 DEF vars
<1> QED BY <1>1, <1>2, <1>3, <1>4, <1>5, <1>6, <1>7, <1>8, <1>9, <1>10, <1>11, <1>12,
    <1>13, <1>14, <1>15, <1>16, <1>17, <1>18, <1>19, <1>20, <1>21, <1>22, <1>23, <1>24,
    <1>25 DEF Next, MainStep, HandlerStep

LEMMA MainTypesNext ==
    ASSUME MainTypes, [Next]_vars PROVE MainTypes'
<1> USE DEF MainTypes, Startup, Stopping, At, Then, Exits, Alive, servers, kafka, log,
    Request, HandlerGoto
<1>1. CASE LoadConfig BY <1>1 DEF LoadConfig
<1>2. CASE NewLogger BY <1>2 DEF NewLogger
<1>3. CASE InitTracer BY <1>3 DEF InitTracer
<1>4. CASE MustInitResources BY <1>4 DEF MustInitResources, CannotOpen
<1>5. CASE NewDatabase BY <1>5 DEF NewDatabase
<1>6. CASE NewUserServiceClient BY <1>6 DEF NewUserServiceClient
<1>7. CASE StartGrpcServer BY <1>7 DEF StartGrpcServer
<1>8. CASE StartTasks BY <1>8 DEF StartTasks
<1>9. CASE RegisterAllRoutes BY <1>9 DEF RegisterAllRoutes
<1>10. CASE StartHttpServer BY <1>10 DEF StartHttpServer
<1>11. CASE Notify BY <1>11 DEF Notify
<1>12. CASE ReceiveSignal BY <1>12 DEF ReceiveSignal
<1>13. CASE GracefulStop BY <1>13 DEF GracefulStop
<1>14. CASE Shutdown BY <1>14 DEF Shutdown
<1>15. CASE ShutdownReturns BY <1>15 DEF ShutdownReturns, Drained
<1>16. CASE ShutdownTimesOut BY <1>16 DEF ShutdownTimesOut, Drained
<1>17. CASE CloseLogger BY <1>17 DEF CloseLogger
<1>18. CASE CloseResources BY <1>18 DEF CloseResources
<1>19. CASE ShutdownTracer BY <1>19 DEF ShutdownTracer
<1>20. CASE ListenAndServe BY <1>20 DEF ListenAndServe
<1>21. CASE Signal BY <1>21 DEF Signal
<1>22. CASE WorkerLogs BY <1>22 DEF WorkerLogs
<1>23. CASE WriteLog BY <1>23 DEF WriteLog
<1>24. ASSUME NEW h \in Handlers, HandlerStep(h)
     PROVE  MainTypes'
  <2>1. CASE Accept(h) BY <2>1 DEF Accept
  <2>2. CASE RpcReturns(h) BY <2>2 DEF RpcReturns
  <2>3. CASE HttpReturns(h) BY <2>3 DEF HttpReturns
  <2>4. CASE LoadWriter(h) BY <2>4 DEF LoadWriter
  <2>5. CASE LoadOrStoreWriter(h) BY <2>5 DEF LoadOrStoreWriter
  <2>6. CASE WriteMessages(h) BY <2>6 DEF WriteMessages
  <2> QED BY <1>24, <2>1, <2>2, <2>3, <2>4, <2>5, <2>6 DEF HandlerStep
<1>25. CASE UNCHANGED vars BY <1>25 DEF vars
<1> QED BY <1>1, <1>2, <1>3, <1>4, <1>5, <1>6, <1>7, <1>8, <1>9, <1>10, <1>11, <1>12,
    <1>13, <1>14, <1>15, <1>16, <1>17, <1>18, <1>19, <1>20, <1>21, <1>22, <1>23, <1>24,
    <1>25 DEF Next, MainStep, HandlerStep

LEMMA OpenTypesNext ==
    ASSUME OpenTypes, [Next]_vars PROVE OpenTypes'
<1> USE DEF OpenTypes, Closable, Resources, GrpcUp, Prepared, Stopping, At, Then, Exits,
    Alive, servers, kafka, log, Request, HandlerGoto
<1>1. CASE LoadConfig BY <1>1 DEF LoadConfig
<1>2. CASE NewLogger BY <1>2 DEF NewLogger
<1>3. CASE InitTracer BY <1>3 DEF InitTracer
<1>4. CASE MustInitResources BY <1>4 DEF MustInitResources, CannotOpen
<1>5. CASE NewDatabase BY <1>5 DEF NewDatabase
<1>6. CASE NewUserServiceClient BY <1>6 DEF NewUserServiceClient
<1>7. CASE StartGrpcServer BY <1>7 DEF StartGrpcServer
<1>8. CASE StartTasks BY <1>8 DEF StartTasks
<1>9. CASE RegisterAllRoutes BY <1>9 DEF RegisterAllRoutes
<1>10. CASE StartHttpServer BY <1>10 DEF StartHttpServer
<1>11. CASE Notify BY <1>11 DEF Notify
<1>12. CASE ReceiveSignal BY <1>12 DEF ReceiveSignal
<1>13. CASE GracefulStop BY <1>13 DEF GracefulStop
<1>14. CASE Shutdown BY <1>14 DEF Shutdown
<1>15. CASE ShutdownReturns BY <1>15 DEF ShutdownReturns, Drained
<1>16. CASE ShutdownTimesOut BY <1>16 DEF ShutdownTimesOut, Drained
<1>17. CASE CloseLogger BY <1>17 DEF CloseLogger
<1>18. CASE CloseResources BY <1>18 DEF CloseResources
<1>19. CASE ShutdownTracer BY <1>19 DEF ShutdownTracer
<1>20. CASE ListenAndServe BY <1>20 DEF ListenAndServe
<1>21. CASE Signal BY <1>21 DEF Signal
<1>22. CASE WorkerLogs BY <1>22 DEF WorkerLogs
<1>23. CASE WriteLog BY <1>23 DEF WriteLog
<1>24. ASSUME NEW h \in Handlers, HandlerStep(h)
     PROVE  OpenTypes'
  <2>1. CASE Accept(h) BY <2>1 DEF Accept
  <2>2. CASE RpcReturns(h) BY <2>2 DEF RpcReturns
  <2>3. CASE HttpReturns(h) BY <2>3 DEF HttpReturns
  <2>4. CASE LoadWriter(h) BY <2>4 DEF LoadWriter
  <2>5. CASE LoadOrStoreWriter(h) BY <2>5 DEF LoadOrStoreWriter
  <2>6. CASE WriteMessages(h) BY <2>6 DEF WriteMessages
  <2> QED BY <1>24, <2>1, <2>2, <2>3, <2>4, <2>5, <2>6 DEF HandlerStep
<1>25. CASE UNCHANGED vars BY <1>25 DEF vars
<1> QED BY <1>1, <1>2, <1>3, <1>4, <1>5, <1>6, <1>7, <1>8, <1>9, <1>10, <1>11, <1>12,
    <1>13, <1>14, <1>15, <1>16, <1>17, <1>18, <1>19, <1>20, <1>21, <1>22, <1>23, <1>24,
    <1>25 DEF Next, MainStep, HandlerStep

LEMMA HandlerTypesNext ==
    ASSUME HandlerTypes, [Next]_vars PROVE HandlerTypes'
<1> USE DEF HandlerTypes, InRequest, At, Then, Exits, Alive, servers, kafka, log, Request,
    HandlerGoto
<1>1. CASE LoadConfig BY <1>1 DEF LoadConfig
<1>2. CASE NewLogger BY <1>2 DEF NewLogger
<1>3. CASE InitTracer BY <1>3 DEF InitTracer
<1>4. CASE MustInitResources BY <1>4 DEF MustInitResources, CannotOpen
<1>5. CASE NewDatabase BY <1>5 DEF NewDatabase
<1>6. CASE NewUserServiceClient BY <1>6 DEF NewUserServiceClient
<1>7. CASE StartGrpcServer BY <1>7 DEF StartGrpcServer
<1>8. CASE StartTasks BY <1>8 DEF StartTasks
<1>9. CASE RegisterAllRoutes BY <1>9 DEF RegisterAllRoutes
<1>10. CASE StartHttpServer BY <1>10 DEF StartHttpServer
<1>11. CASE Notify BY <1>11 DEF Notify
<1>12. CASE ReceiveSignal BY <1>12 DEF ReceiveSignal
<1>13. CASE GracefulStop BY <1>13 DEF GracefulStop
<1>14. CASE Shutdown BY <1>14 DEF Shutdown
<1>15. CASE ShutdownReturns BY <1>15 DEF ShutdownReturns, Drained
<1>16. CASE ShutdownTimesOut BY <1>16 DEF ShutdownTimesOut, Drained
<1>17. CASE CloseLogger BY <1>17 DEF CloseLogger
<1>18. CASE CloseResources BY <1>18 DEF CloseResources
<1>19. CASE ShutdownTracer BY <1>19 DEF ShutdownTracer
<1>20. CASE ListenAndServe BY <1>20 DEF ListenAndServe
<1>21. CASE Signal BY <1>21 DEF Signal
<1>22. CASE WorkerLogs BY <1>22 DEF WorkerLogs
<1>23. CASE WriteLog BY <1>23 DEF WriteLog
<1>24. ASSUME NEW h \in Handlers, HandlerStep(h)
     PROVE  HandlerTypes'
  <2>1. CASE Accept(h)
    <3>1. served' \in 0 .. MaxRequests BY <2>1, LifecycleAssumption DEF Accept
    <3>2. handler' \in [Handlers -> {"idle"} \cup InRequest] BY <2>1 DEF Accept
    <3> QED BY <3>1, <3>2
  <2>2. CASE RpcReturns(h) BY <2>2 DEF RpcReturns
  <2>3. CASE HttpReturns(h) BY <2>3 DEF HttpReturns
  <2>4. CASE LoadWriter(h) BY <2>4 DEF LoadWriter
  <2>5. CASE LoadOrStoreWriter(h) BY <2>5 DEF LoadOrStoreWriter
  <2>6. CASE WriteMessages(h) BY <2>6 DEF WriteMessages
  <2> QED BY <1>24, <2>1, <2>2, <2>3, <2>4, <2>5, <2>6 DEF HandlerStep
<1>25. CASE UNCHANGED vars BY <1>25 DEF vars
<1> QED BY <1>1, <1>2, <1>3, <1>4, <1>5, <1>6, <1>7, <1>8, <1>9, <1>10, <1>11, <1>12,
    <1>13, <1>14, <1>15, <1>16, <1>17, <1>18, <1>19, <1>20, <1>21, <1>22, <1>23, <1>24,
    <1>25 DEF Next, MainStep, HandlerStep

LEMMA KafkaTypesNext ==
    ASSUME HandlerTypes, KafkaTypes, [Next]_vars PROVE KafkaTypes'
<1> USE DEF KafkaTypes, HandlerTypes, InRequest, At, Then, Exits, Alive, servers, kafka,
    log, Request, HandlerGoto
<1>1. CASE LoadConfig BY <1>1 DEF LoadConfig
<1>2. CASE NewLogger BY <1>2 DEF NewLogger
<1>3. CASE InitTracer BY <1>3 DEF InitTracer
<1>4. CASE MustInitResources BY <1>4 DEF MustInitResources, CannotOpen
<1>5. CASE NewDatabase BY <1>5 DEF NewDatabase
<1>6. CASE NewUserServiceClient BY <1>6 DEF NewUserServiceClient
<1>7. CASE StartGrpcServer BY <1>7 DEF StartGrpcServer
<1>8. CASE StartTasks BY <1>8 DEF StartTasks
<1>9. CASE RegisterAllRoutes BY <1>9 DEF RegisterAllRoutes
<1>10. CASE StartHttpServer BY <1>10 DEF StartHttpServer
<1>11. CASE Notify BY <1>11 DEF Notify
<1>12. CASE ReceiveSignal BY <1>12 DEF ReceiveSignal
<1>13. CASE GracefulStop BY <1>13 DEF GracefulStop
<1>14. CASE Shutdown BY <1>14 DEF Shutdown
<1>15. CASE ShutdownReturns BY <1>15 DEF ShutdownReturns, Drained
<1>16. CASE ShutdownTimesOut BY <1>16 DEF ShutdownTimesOut, Drained
<1>17. CASE CloseLogger BY <1>17 DEF CloseLogger
<1>18. CASE CloseResources BY <1>18 DEF CloseResources
<1>19. CASE ShutdownTracer BY <1>19 DEF ShutdownTracer
<1>20. CASE ListenAndServe BY <1>20 DEF ListenAndServe
<1>21. CASE Signal BY <1>21 DEF Signal
<1>22. CASE WorkerLogs BY <1>22 DEF WorkerLogs
<1>23. CASE WriteLog BY <1>23 DEF WriteLog
<1>24. ASSUME NEW h \in Handlers, HandlerStep(h)
     PROVE  KafkaTypes'
  <2>1. CASE Accept(h)
    <3>1. \A g \in Handlers : handler'[g] \in {"store", "write"} => handler[g] = handler'[g]
      BY <2>1 DEF Accept
    <3> QED BY <3>1, <2>1 DEF Accept
  <2>2. CASE RpcReturns(h) BY <2>2 DEF RpcReturns
  <2>3. CASE HttpReturns(h) BY <2>3 DEF HttpReturns
  <2>4. CASE LoadWriter(h) BY <2>4 DEF LoadWriter
  <2>5. CASE LoadOrStoreWriter(h) BY <2>5 DEF LoadOrStoreWriter
  <2>6. CASE WriteMessages(h)
    <3>1. mine[h] \in 1 .. made BY <2>6 DEF WriteMessages
    <3>2. dialled' \subseteq 1 .. made BY <3>1, <2>6 DEF WriteMessages
    <3>3. \A g \in Handlers : handler'[g] \in {"store", "write"} => handler[g] = handler'[g]
      BY <2>6 DEF WriteMessages
    <3> QED BY <3>2, <3>3, <2>6 DEF WriteMessages
  <2> QED BY <1>24, <2>1, <2>2, <2>3, <2>4, <2>5, <2>6 DEF HandlerStep
<1>25. CASE UNCHANGED vars BY <1>25 DEF vars
<1> QED BY <1>1, <1>2, <1>3, <1>4, <1>5, <1>6, <1>7, <1>8, <1>9, <1>10, <1>11, <1>12,
    <1>13, <1>14, <1>15, <1>16, <1>17, <1>18, <1>19, <1>20, <1>21, <1>22, <1>23, <1>24,
    <1>25 DEF Next, MainStep, HandlerStep

LEMMA LogTypesNext ==
    ASSUME LogTypes, [Next]_vars PROVE LogTypes'
<1> USE DEF LogTypes, At, Then, Exits, Alive, servers, kafka, log, Request, HandlerGoto
<1>1. CASE LoadConfig BY <1>1 DEF LoadConfig
<1>2. CASE NewLogger BY <1>2 DEF NewLogger
<1>3. CASE InitTracer BY <1>3 DEF InitTracer
<1>4. CASE MustInitResources BY <1>4 DEF MustInitResources, CannotOpen
<1>5. CASE NewDatabase BY <1>5 DEF NewDatabase
<1>6. CASE NewUserServiceClient BY <1>6 DEF NewUserServiceClient
<1>7. CASE StartGrpcServer BY <1>7 DEF StartGrpcServer
<1>8. CASE StartTasks BY <1>8 DEF StartTasks
<1>9. CASE RegisterAllRoutes BY <1>9 DEF RegisterAllRoutes
<1>10. CASE StartHttpServer BY <1>10 DEF StartHttpServer
<1>11. CASE Notify BY <1>11 DEF Notify
<1>12. CASE ReceiveSignal BY <1>12 DEF ReceiveSignal
<1>13. CASE GracefulStop BY <1>13 DEF GracefulStop
<1>14. CASE Shutdown BY <1>14 DEF Shutdown
<1>15. CASE ShutdownReturns BY <1>15 DEF ShutdownReturns, Drained
<1>16. CASE ShutdownTimesOut BY <1>16 DEF ShutdownTimesOut, Drained
<1>17. CASE CloseLogger BY <1>17 DEF CloseLogger
<1>18. CASE CloseResources BY <1>18 DEF CloseResources
<1>19. CASE ShutdownTracer BY <1>19 DEF ShutdownTracer
<1>20. CASE ListenAndServe BY <1>20 DEF ListenAndServe
<1>21. CASE Signal BY <1>21 DEF Signal
<1>22. CASE WorkerLogs BY <1>22 DEF WorkerLogs
<1>23. CASE WriteLog BY <1>23 DEF WriteLog
<1>24. ASSUME NEW h \in Handlers, HandlerStep(h)
     PROVE  LogTypes'
  <2>1. CASE Accept(h) BY <2>1 DEF Accept
  <2>2. CASE RpcReturns(h) BY <2>2 DEF RpcReturns
  <2>3. CASE HttpReturns(h) BY <2>3 DEF HttpReturns
  <2>4. CASE LoadWriter(h) BY <2>4 DEF LoadWriter
  <2>5. CASE LoadOrStoreWriter(h) BY <2>5 DEF LoadOrStoreWriter
  <2>6. CASE WriteMessages(h) BY <2>6 DEF WriteMessages
  <2> QED BY <1>24, <2>1, <2>2, <2>3, <2>4, <2>5, <2>6 DEF HandlerStep
<1>25. CASE UNCHANGED vars BY <1>25 DEF vars
<1> QED BY <1>1, <1>2, <1>3, <1>4, <1>5, <1>6, <1>7, <1>8, <1>9, <1>10, <1>11, <1>12,
    <1>13, <1>14, <1>15, <1>16, <1>17, <1>18, <1>19, <1>20, <1>21, <1>22, <1>23, <1>24,
    <1>25 DEF Next, MainStep, HandlerStep

LEMMA TypesNext == Types /\ [Next]_vars => Types'
  BY WorldTypesNext, MainTypesNext, OpenTypesNext, HandlerTypesNext, KafkaTypesNext,
     LogTypesNext DEF Types

\* Every variable keeps its type; in particular nothing is closed that was
\* not opened.
THEOREM TypeCorrect == Spec => []TypeOK
<1>1. Init => Types BY TypesInit
<1>2. Types /\ [Next]_vars => Types' BY TypesNext
<1> QED BY <1>1, <1>2, TypesImply, PTL DEF Spec

-----------------------------------------------------------------------------
(* Phases.  What is open, which servers accept and where requests may be,  *)
(* for each place of the main goroutine.                                   *)

OpenInv == Alive /\ main # "stop_tracer" => closed = {}

ServeInv ==
    Alive =>
        /\ grpc = "serving" => main \in GrpcUp
        /\ grpc = "draining" => main = "graceful_stop"
        /\ http \in {"launching", "serving"} => main \in HttpUp
        /\ worker = "off" => main \notin {"routes", "listen", "drain"} \cup HttpUp

HandlerInv ==
    /\ Alive => \A h \in Handlers :
          /\ handler[h] = "rpc" => main \in GrpcUp \cup {"graceful_stop"}
          /\ handler[h] \in InRequest \ {"rpc"} => main \in HttpUp \cup {"drain"}
    /\ exit = "clean" => \A h \in Handlers : handler[h] = "idle"

Phases == OpenInv /\ ServeInv /\ HandlerInv

LEMMA PhasesInit == Init => Phases
  BY DEF Init, Phases, OpenInv, ServeInv, HandlerInv, Alive, InRequest,
         Prepared, GrpcUp, HttpUp, Stopping

LEMMA OpenNext ==
    ASSUME Types, OpenInv, [Next]_vars PROVE OpenInv'
<1> USE DEF OpenInv, GrpcUp, HttpUp, Prepared, Stopping, Types, WorldTypes, MainTypes,
    OpenTypes, HandlerTypes, KafkaTypes, LogTypes, Startup, InRequest, Closable,
    Resources, At, Then, Exits, Alive, servers, kafka, log, Request, HandlerGoto
<1>1. CASE LoadConfig BY <1>1 DEF LoadConfig
<1>2. CASE NewLogger BY <1>2 DEF NewLogger
<1>3. CASE InitTracer BY <1>3 DEF InitTracer
<1>4. CASE MustInitResources BY <1>4 DEF MustInitResources, CannotOpen
<1>5. CASE NewDatabase BY <1>5 DEF NewDatabase
<1>6. CASE NewUserServiceClient BY <1>6 DEF NewUserServiceClient
<1>7. CASE StartGrpcServer BY <1>7 DEF StartGrpcServer
<1>8. CASE StartTasks BY <1>8 DEF StartTasks
<1>9. CASE RegisterAllRoutes BY <1>9 DEF RegisterAllRoutes
<1>10. CASE StartHttpServer BY <1>10 DEF StartHttpServer
<1>11. CASE Notify BY <1>11 DEF Notify
<1>12. CASE ReceiveSignal BY <1>12 DEF ReceiveSignal
<1>13. CASE GracefulStop BY <1>13 DEF GracefulStop
<1>14. CASE Shutdown BY <1>14 DEF Shutdown
<1>15. CASE ShutdownReturns BY <1>15 DEF ShutdownReturns, Drained
<1>16. CASE ShutdownTimesOut BY <1>16 DEF ShutdownTimesOut, Drained
<1>17. CASE CloseLogger BY <1>17 DEF CloseLogger
<1>18. CASE CloseResources BY <1>18 DEF CloseResources
<1>19. CASE ShutdownTracer BY <1>19 DEF ShutdownTracer
<1>20. CASE ListenAndServe BY <1>20 DEF ListenAndServe
<1>21. CASE Signal BY <1>21 DEF Signal
<1>22. CASE WorkerLogs BY <1>22 DEF WorkerLogs
<1>23. CASE WriteLog BY <1>23 DEF WriteLog
<1>24. ASSUME NEW h \in Handlers, HandlerStep(h)
     PROVE  OpenInv'
  <2>1. CASE Accept(h) BY <2>1 DEF Accept
  <2>2. CASE RpcReturns(h) BY <2>2 DEF RpcReturns
  <2>3. CASE HttpReturns(h) BY <2>3 DEF HttpReturns
  <2>4. CASE LoadWriter(h) BY <2>4 DEF LoadWriter
  <2>5. CASE LoadOrStoreWriter(h) BY <2>5 DEF LoadOrStoreWriter
  <2>6. CASE WriteMessages(h) BY <2>6 DEF WriteMessages
  <2> QED BY <1>24, <2>1, <2>2, <2>3, <2>4, <2>5, <2>6 DEF HandlerStep
<1>25. CASE UNCHANGED vars BY <1>25 DEF vars
<1> QED BY <1>1, <1>2, <1>3, <1>4, <1>5, <1>6, <1>7, <1>8, <1>9, <1>10, <1>11, <1>12,
    <1>13, <1>14, <1>15, <1>16, <1>17, <1>18, <1>19, <1>20, <1>21, <1>22, <1>23, <1>24,
    <1>25 DEF Next, MainStep, HandlerStep

LEMMA ServeNext ==
    ASSUME Types, ServeInv, [Next]_vars PROVE ServeInv'
<1> USE DEF ServeInv, GrpcUp, HttpUp, Prepared, Stopping, Types, WorldTypes, MainTypes,
    OpenTypes, HandlerTypes, KafkaTypes, LogTypes, Startup, InRequest, Closable,
    Resources, At, Then, Exits, Alive, servers, kafka, log, Request, HandlerGoto
<1>1. CASE LoadConfig BY <1>1 DEF LoadConfig
<1>2. CASE NewLogger BY <1>2 DEF NewLogger
<1>3. CASE InitTracer BY <1>3 DEF InitTracer
<1>4. CASE MustInitResources BY <1>4 DEF MustInitResources, CannotOpen
<1>5. CASE NewDatabase BY <1>5 DEF NewDatabase
<1>6. CASE NewUserServiceClient BY <1>6 DEF NewUserServiceClient
<1>7. CASE StartGrpcServer BY <1>7 DEF StartGrpcServer
<1>8. CASE StartTasks BY <1>8 DEF StartTasks
<1>9. CASE RegisterAllRoutes BY <1>9 DEF RegisterAllRoutes
<1>10. CASE StartHttpServer BY <1>10 DEF StartHttpServer
<1>11. CASE Notify BY <1>11 DEF Notify
<1>12. CASE ReceiveSignal BY <1>12 DEF ReceiveSignal
<1>13. CASE GracefulStop BY <1>13 DEF GracefulStop
<1>14. CASE Shutdown BY <1>14 DEF Shutdown
<1>15. CASE ShutdownReturns BY <1>15 DEF ShutdownReturns, Drained
<1>16. CASE ShutdownTimesOut BY <1>16 DEF ShutdownTimesOut, Drained
<1>17. CASE CloseLogger BY <1>17 DEF CloseLogger
<1>18. CASE CloseResources BY <1>18 DEF CloseResources
<1>19. CASE ShutdownTracer BY <1>19 DEF ShutdownTracer
<1>20. CASE ListenAndServe BY <1>20 DEF ListenAndServe
<1>21. CASE Signal BY <1>21 DEF Signal
<1>22. CASE WorkerLogs BY <1>22 DEF WorkerLogs
<1>23. CASE WriteLog BY <1>23 DEF WriteLog
<1>24. ASSUME NEW h \in Handlers, HandlerStep(h)
     PROVE  ServeInv'
  <2>1. CASE Accept(h) BY <2>1 DEF Accept
  <2>2. CASE RpcReturns(h) BY <2>2 DEF RpcReturns
  <2>3. CASE HttpReturns(h) BY <2>3 DEF HttpReturns
  <2>4. CASE LoadWriter(h) BY <2>4 DEF LoadWriter
  <2>5. CASE LoadOrStoreWriter(h) BY <2>5 DEF LoadOrStoreWriter
  <2>6. CASE WriteMessages(h) BY <2>6 DEF WriteMessages
  <2> QED BY <1>24, <2>1, <2>2, <2>3, <2>4, <2>5, <2>6 DEF HandlerStep
<1>25. CASE UNCHANGED vars BY <1>25 DEF vars
<1> QED BY <1>1, <1>2, <1>3, <1>4, <1>5, <1>6, <1>7, <1>8, <1>9, <1>10, <1>11, <1>12,
    <1>13, <1>14, <1>15, <1>16, <1>17, <1>18, <1>19, <1>20, <1>21, <1>22, <1>23, <1>24,
    <1>25 DEF Next, MainStep, HandlerStep

LEMMA HandlerNext ==
    ASSUME Types, ServeInv, HandlerInv, [Next]_vars PROVE HandlerInv'
<1> USE DEF HandlerInv, ServeInv, GrpcUp, HttpUp, Prepared, Stopping, Types, WorldTypes,
    MainTypes, OpenTypes, HandlerTypes, KafkaTypes, LogTypes, Startup, InRequest,
    Closable, Resources, At, Then, Exits, Alive, servers, kafka, log, Request, HandlerGoto
<1>1. CASE LoadConfig BY <1>1 DEF LoadConfig
<1>2. CASE NewLogger BY <1>2 DEF NewLogger
<1>3. CASE InitTracer BY <1>3 DEF InitTracer
<1>4. CASE MustInitResources BY <1>4 DEF MustInitResources, CannotOpen
<1>5. CASE NewDatabase BY <1>5 DEF NewDatabase
<1>6. CASE NewUserServiceClient BY <1>6 DEF NewUserServiceClient
<1>7. CASE StartGrpcServer BY <1>7 DEF StartGrpcServer
<1>8. CASE StartTasks BY <1>8 DEF StartTasks
<1>9. CASE RegisterAllRoutes BY <1>9 DEF RegisterAllRoutes
<1>10. CASE StartHttpServer BY <1>10 DEF StartHttpServer
<1>11. CASE Notify BY <1>11 DEF Notify
<1>12. CASE ReceiveSignal BY <1>12 DEF ReceiveSignal
<1>13. CASE GracefulStop BY <1>13 DEF GracefulStop
<1>14. CASE Shutdown BY <1>14 DEF Shutdown
<1>15. CASE ShutdownReturns BY <1>15 DEF ShutdownReturns, Drained
<1>16. CASE ShutdownTimesOut BY <1>16 DEF ShutdownTimesOut, Drained
<1>17. CASE CloseLogger BY <1>17 DEF CloseLogger
<1>18. CASE CloseResources BY <1>18 DEF CloseResources
<1>19. CASE ShutdownTracer BY <1>19 DEF ShutdownTracer
<1>20. CASE ListenAndServe BY <1>20 DEF ListenAndServe
<1>21. CASE Signal BY <1>21 DEF Signal
<1>22. CASE WorkerLogs BY <1>22 DEF WorkerLogs
<1>23. CASE WriteLog BY <1>23 DEF WriteLog
<1>24. ASSUME NEW h \in Handlers, HandlerStep(h)
     PROVE  HandlerInv'
  <2>1. CASE Accept(h) BY <2>1 DEF Accept
  <2>2. CASE RpcReturns(h) BY <2>2 DEF RpcReturns
  <2>3. CASE HttpReturns(h) BY <2>3 DEF HttpReturns
  <2>4. CASE LoadWriter(h) BY <2>4 DEF LoadWriter
  <2>5. CASE LoadOrStoreWriter(h) BY <2>5 DEF LoadOrStoreWriter
  <2>6. CASE WriteMessages(h) BY <2>6 DEF WriteMessages
  <2> QED BY <1>24, <2>1, <2>2, <2>3, <2>4, <2>5, <2>6 DEF HandlerStep
<1>25. CASE UNCHANGED vars BY <1>25 DEF vars
<1> QED BY <1>1, <1>2, <1>3, <1>4, <1>5, <1>6, <1>7, <1>8, <1>9, <1>10, <1>11, <1>12,
    <1>13, <1>14, <1>15, <1>16, <1>17, <1>18, <1>19, <1>20, <1>21, <1>22, <1>23, <1>24,
    <1>25 DEF Next, MainStep, HandlerStep

LEMMA PhasesAlways == Spec => [](Types /\ Phases)
<1>1. Init => Types /\ Phases BY TypesInit, PhasesInit
<1>2. (Types /\ Phases) /\ [Next]_vars => (Types /\ Phases)'
  BY TypesNext, OpenNext, ServeNext, HandlerNext DEF Phases
<1> QED BY <1>1, <1>2, PTL DEF Spec

\* Requests never meet a resource that is not open yet or closed already, and
\* HTTP requests have a merge worker.
THEOREM ResourcesOutliveRequests == Spec => []RequestsHaveResources
<1>1. Types /\ Phases => RequestsHaveResources
  <2> SUFFICES ASSUME Types, Phases, Alive, NEW h \in Handlers
        PROVE /\ handler[h] # "idle" => \A r \in Resources \cup {"database"} : Open(r)
              /\ handler[h] \in InRequest \ {"rpc"} => worker # "off"
    BY DEF RequestsHaveResources
  <2>1. handler[h] # "idle" => main \in GrpcUp \cup HttpUp \cup {"graceful_stop", "drain"}
    BY DEF Types, HandlerTypes, Phases, HandlerInv, InRequest
  <2>2. handler[h] # "idle" => closed = {} /\ Resources \cup {"database"} \subseteq opened
    BY <2>1 DEF Phases, OpenInv, Types, OpenTypes, Prepared, GrpcUp, HttpUp, Stopping
  <2>3. handler[h] \in InRequest \ {"rpc"} => worker # "off"
    BY DEF Phases, HandlerInv, ServeInv
  <2> QED BY <2>2, <2>3 DEF Open
<1> QED BY <1>1, PhasesAlways, PTL

\* Run returns only after every request that was accepted has been answered.
THEOREM CleanExitIsDrained == Spec => []CleanExitAnswersAll
<1>1. Phases => CleanExitAnswersAll BY DEF Phases, HandlerInv, CleanExitAnswersAll
<1> QED BY <1>1, PhasesAlways, PTL

-----------------------------------------------------------------------------
(* The log.  l.file is nil exactly when no file is open, and a writer that *)
(* has looked at it keeps the mutex, so that it cannot be closed.          *)

LogInv ==
    /\ (logFile = "open") <=> (logHandle = TRUE)
    /\ Alive /\ worker = "writing" /\ target = "file" => logFile = "open"
    /\ lost = FALSE

LEMMA LogInit == Init => LogInv
  BY DEF Init, LogInv

LEMMA LogNext ==
    ASSUME Types, LogInv, [Next]_vars PROVE LogInv'
<1> USE DEF LogInv, Types, WorldTypes, MainTypes, OpenTypes, HandlerTypes, KafkaTypes,
    LogTypes, Startup, InRequest, Closable, Resources, At, Then, Exits, Alive, servers,
    kafka, log, Request, HandlerGoto
<1>1. CASE LoadConfig BY <1>1 DEF LoadConfig
<1>2. CASE NewLogger BY <1>2 DEF NewLogger
<1>3. CASE InitTracer BY <1>3 DEF InitTracer
<1>4. CASE MustInitResources BY <1>4 DEF MustInitResources, CannotOpen
<1>5. CASE NewDatabase BY <1>5 DEF NewDatabase
<1>6. CASE NewUserServiceClient BY <1>6 DEF NewUserServiceClient
<1>7. CASE StartGrpcServer BY <1>7 DEF StartGrpcServer
<1>8. CASE StartTasks BY <1>8 DEF StartTasks
<1>9. CASE RegisterAllRoutes BY <1>9 DEF RegisterAllRoutes
<1>10. CASE StartHttpServer BY <1>10 DEF StartHttpServer
<1>11. CASE Notify BY <1>11 DEF Notify
<1>12. CASE ReceiveSignal BY <1>12 DEF ReceiveSignal
<1>13. CASE GracefulStop BY <1>13 DEF GracefulStop
<1>14. CASE Shutdown BY <1>14 DEF Shutdown
<1>15. CASE ShutdownReturns BY <1>15 DEF ShutdownReturns, Drained
<1>16. CASE ShutdownTimesOut BY <1>16 DEF ShutdownTimesOut, Drained
<1>17. CASE CloseLogger BY <1>17 DEF CloseLogger
<1>18. CASE CloseResources BY <1>18 DEF CloseResources
<1>19. CASE ShutdownTracer BY <1>19 DEF ShutdownTracer
<1>20. CASE ListenAndServe BY <1>20 DEF ListenAndServe
<1>21. CASE Signal BY <1>21 DEF Signal
<1>22. CASE WorkerLogs BY <1>22 DEF WorkerLogs
<1>23. CASE WriteLog BY <1>23 DEF WriteLog
<1>24. ASSUME NEW h \in Handlers, HandlerStep(h)
     PROVE  LogInv'
  <2>1. CASE Accept(h) BY <2>1 DEF Accept
  <2>2. CASE RpcReturns(h) BY <2>2 DEF RpcReturns
  <2>3. CASE HttpReturns(h) BY <2>3 DEF HttpReturns
  <2>4. CASE LoadWriter(h) BY <2>4 DEF LoadWriter
  <2>5. CASE LoadOrStoreWriter(h) BY <2>5 DEF LoadOrStoreWriter
  <2>6. CASE WriteMessages(h) BY <2>6 DEF WriteMessages
  <2> QED BY <1>24, <2>1, <2>2, <2>3, <2>4, <2>5, <2>6 DEF HandlerStep
<1>25. CASE UNCHANGED vars BY <1>25 DEF vars
<1> QED BY <1>1, <1>2, <1>3, <1>4, <1>5, <1>6, <1>7, <1>8, <1>9, <1>10, <1>11, <1>12,
    <1>13, <1>14, <1>15, <1>16, <1>17, <1>18, <1>19, <1>20, <1>21, <1>22, <1>23, <1>24,
    <1>25 DEF Next, MainStep, HandlerStep

\* Whenever the logger is closed, no line of the merge worker is written to
\* the closed file.
THEOREM LogIsComplete == Spec => []NoLineLost
<1>1. Init => Types /\ LogInv BY TypesInit, LogInit
<1>2. (Types /\ LogInv) /\ [Next]_vars => (Types /\ LogInv)' BY TypesNext, LogNext
<1>3. LogInv => NoLineLost BY DEF LogInv, NoLineLost
<1> QED BY <1>1, <1>2, <1>3, PTL DEF Spec

-----------------------------------------------------------------------------
(* Closing.  Every handler that writes uses the writer in the map, the one *)
(* that the Kafka client closes.                                           *)

WriterInv ==
    /\ dialled \subseteq {topicWriter} \ {0}
    /\ \A h \in Handlers :
          /\ handler[h] \in {"store", "write"} => mine[h] # 0
          /\ handler[h] = "write" => mine[h] = topicWriter

Ended == exit = "clean" \/ (Alive /\ main = "stop_tracer")

CloseInv ==
    /\ Alive /\ main \in {"defers", "stop_tracer"} => logFile # "open"
    /\ Ended => /\ opened \subseteq closed \cup {"tracer"}
                /\ dialled \subseteq shut
    /\ exit = "clean" => opened \subseteq closed /\ logFile # "open"

LEMMA CloseInit == Init => WriterInv /\ CloseInv
  BY DEF Init, WriterInv, CloseInv, Ended, Alive

LEMMA WriterNext ==
    ASSUME Types, WriterInv, [Next]_vars PROVE WriterInv'
<1> USE DEF WriterInv, Types, WorldTypes, MainTypes, OpenTypes, HandlerTypes, KafkaTypes,
    LogTypes, Startup, InRequest, Closable, Resources, At, Then, Exits, Alive, servers,
    kafka, log, Request, HandlerGoto
<1>1. CASE LoadConfig BY <1>1 DEF LoadConfig
<1>2. CASE NewLogger BY <1>2 DEF NewLogger
<1>3. CASE InitTracer BY <1>3 DEF InitTracer
<1>4. CASE MustInitResources BY <1>4 DEF MustInitResources, CannotOpen
<1>5. CASE NewDatabase BY <1>5 DEF NewDatabase
<1>6. CASE NewUserServiceClient BY <1>6 DEF NewUserServiceClient
<1>7. CASE StartGrpcServer BY <1>7 DEF StartGrpcServer
<1>8. CASE StartTasks BY <1>8 DEF StartTasks
<1>9. CASE RegisterAllRoutes BY <1>9 DEF RegisterAllRoutes
<1>10. CASE StartHttpServer BY <1>10 DEF StartHttpServer
<1>11. CASE Notify BY <1>11 DEF Notify
<1>12. CASE ReceiveSignal BY <1>12 DEF ReceiveSignal
<1>13. CASE GracefulStop BY <1>13 DEF GracefulStop
<1>14. CASE Shutdown BY <1>14 DEF Shutdown
<1>15. CASE ShutdownReturns BY <1>15 DEF ShutdownReturns, Drained
<1>16. CASE ShutdownTimesOut BY <1>16 DEF ShutdownTimesOut, Drained
<1>17. CASE CloseLogger BY <1>17 DEF CloseLogger
<1>18. CASE CloseResources BY <1>18 DEF CloseResources
<1>19. CASE ShutdownTracer BY <1>19 DEF ShutdownTracer
<1>20. CASE ListenAndServe BY <1>20 DEF ListenAndServe
<1>21. CASE Signal BY <1>21 DEF Signal
<1>22. CASE WorkerLogs BY <1>22 DEF WorkerLogs
<1>23. CASE WriteLog BY <1>23 DEF WriteLog
<1>24. ASSUME NEW h \in Handlers, HandlerStep(h)
     PROVE  WriterInv'
  <2>1. CASE Accept(h) BY <2>1 DEF Accept
  <2>2. CASE RpcReturns(h) BY <2>2 DEF RpcReturns
  <2>3. CASE HttpReturns(h) BY <2>3 DEF HttpReturns
  <2>4. CASE LoadWriter(h) BY <2>4 DEF LoadWriter
  <2>5. CASE LoadOrStoreWriter(h) BY <2>5 DEF LoadOrStoreWriter
  <2>6. CASE WriteMessages(h) BY <2>6 DEF WriteMessages
  <2> QED BY <1>24, <2>1, <2>2, <2>3, <2>4, <2>5, <2>6 DEF HandlerStep
<1>25. CASE UNCHANGED vars BY <1>25 DEF vars
<1> QED BY <1>1, <1>2, <1>3, <1>4, <1>5, <1>6, <1>7, <1>8, <1>9, <1>10, <1>11, <1>12,
    <1>13, <1>14, <1>15, <1>16, <1>17, <1>18, <1>19, <1>20, <1>21, <1>22, <1>23, <1>24,
    <1>25 DEF Next, MainStep, HandlerStep

LEMMA CloseNext ==
    ASSUME Types, HandlerInv, LogInv, WriterInv, CloseInv, [Next]_vars PROVE CloseInv'
<1> USE DEF CloseInv, Ended, LogInv, WriterInv, HandlerInv, GrpcUp, HttpUp, Prepared,
    Stopping, Types, WorldTypes, MainTypes, OpenTypes, HandlerTypes, KafkaTypes, LogTypes,
    Startup, InRequest, Closable, Resources, At, Then, Exits, Alive, servers, kafka, log,
    Request, HandlerGoto
<1>1. CASE LoadConfig BY <1>1 DEF LoadConfig
<1>2. CASE NewLogger BY <1>2 DEF NewLogger
<1>3. CASE InitTracer BY <1>3 DEF InitTracer
<1>4. CASE MustInitResources BY <1>4 DEF MustInitResources, CannotOpen
<1>5. CASE NewDatabase BY <1>5 DEF NewDatabase
<1>6. CASE NewUserServiceClient BY <1>6 DEF NewUserServiceClient
<1>7. CASE StartGrpcServer BY <1>7 DEF StartGrpcServer
<1>8. CASE StartTasks BY <1>8 DEF StartTasks
<1>9. CASE RegisterAllRoutes BY <1>9 DEF RegisterAllRoutes
<1>10. CASE StartHttpServer BY <1>10 DEF StartHttpServer
<1>11. CASE Notify BY <1>11 DEF Notify
<1>12. CASE ReceiveSignal BY <1>12 DEF ReceiveSignal
<1>13. CASE GracefulStop BY <1>13 DEF GracefulStop
<1>14. CASE Shutdown BY <1>14 DEF Shutdown
<1>15. CASE ShutdownReturns BY <1>15 DEF ShutdownReturns, Drained
<1>16. CASE ShutdownTimesOut BY <1>16 DEF ShutdownTimesOut, Drained
<1>17. CASE CloseLogger BY <1>17 DEF CloseLogger
<1>18. CASE CloseResources BY <1>18 DEF CloseResources
<1>19. CASE ShutdownTracer BY <1>19 DEF ShutdownTracer
<1>20. CASE ListenAndServe BY <1>20 DEF ListenAndServe
<1>21. CASE Signal BY <1>21 DEF Signal
<1>22. CASE WorkerLogs BY <1>22 DEF WorkerLogs
<1>23. CASE WriteLog BY <1>23 DEF WriteLog
<1>24. ASSUME NEW h \in Handlers, HandlerStep(h)
     PROVE  CloseInv'
  <2>1. CASE Accept(h) BY <2>1 DEF Accept
  <2>2. CASE RpcReturns(h) BY <2>2 DEF RpcReturns
  <2>3. CASE HttpReturns(h) BY <2>3 DEF HttpReturns
  <2>4. CASE LoadWriter(h) BY <2>4 DEF LoadWriter
  <2>5. CASE LoadOrStoreWriter(h) BY <2>5 DEF LoadOrStoreWriter
  <2>6. CASE WriteMessages(h) BY <2>6 DEF WriteMessages
  <2> QED BY <1>24, <2>1, <2>2, <2>3, <2>4, <2>5, <2>6 DEF HandlerStep
<1>25. CASE UNCHANGED vars BY <1>25 DEF vars
<1> QED BY <1>1, <1>2, <1>3, <1>4, <1>5, <1>6, <1>7, <1>8, <1>9, <1>10, <1>11, <1>12,
    <1>13, <1>14, <1>15, <1>16, <1>17, <1>18, <1>19, <1>20, <1>21, <1>22, <1>23, <1>24,
    <1>25 DEF Next, MainStep, HandlerStep

\* A process that returns from Run leaves nothing open behind it.
THEOREM CleanExitIsClosed == Spec => []CleanExitClosesAll
<1> DEFINE Inv == Types /\ Phases /\ LogInv /\ WriterInv /\ CloseInv
<1>1. Init => Inv BY TypesInit, PhasesInit, LogInit, CloseInit
<1>2. Inv /\ [Next]_vars => Inv'
  BY TypesNext, OpenNext, ServeNext, HandlerNext, LogNext, WriterNext, CloseNext DEF Phases
<1>3. Inv => CleanExitClosesAll
  BY DEF Types, OpenTypes, CloseInv, Ended, CleanExitClosesAll
<1> QED BY <1>1, <1>2, <1>3, PTL DEF Spec
=============================================================================

----------------------------- MODULE RemoteClient -----------------------------
(***************************************************************************)
(* The gRPC clients of ddd/infrastructure/grpc: one struct per service,    *)
(* shared by every request handler of the process.  Its two fields, conn   *)
(* and client, are read and written without a lock: a handler that finds   *)
(* no client dials, and (user and transcode clients) a handler whose call  *)
(* failed closes the connection it finds in the struct, dials another one  *)
(* and tries once more.  A step is one access to a shared field or one     *)
(* outcome of the network.                                                 *)
(***************************************************************************)
EXTENDS Naturals, FiniteSets

CONSTANTS Handlers,     \* goroutines that serve requests
          Kinds,        \* which of the clients the process may hold
          MaxCalls,     \* bound: calls made by the handlers together
          MaxOutages    \* bound: times the remote service goes down

ASSUME HandlersAssumption == IsFiniteSet(Handlers)
ASSUME KindsAssumption == Kinds \subseteq {"user", "transcode", "video"}
ASSUME BoundsAssumption == MaxCalls \in Nat /\ MaxOutages \in Nat

VARIABLES
    kind,        \* the client of this process
    up,          \* the remote service answers
    outages,     \* how often it went down
    conn,        \* c.conn: a connection, or 0 for nil
    typed,       \* the type word of the interface value c.client is set
    stub,        \* its data word: the connection the stub was made from, or 0
    dialed,      \* connections made so far, numbered from 1
    open,        \* those no one has closed
    broken,      \* those whose transport an outage took down
    pc,          \* where a handler is
    attempt,     \* 1: first try, 2: after an error of the first
    fresh,       \* connection a handler has dialled and not stored yet
    target,      \* connection a handler's call is sent on
    alive,       \* the context of a handler's call has not expired
    calls,       \* calls begun so far
    calm,        \* history: nothing disturbed the call of this handler
    overlapped   \* history: two handlers were connecting at the same time

remote == <<up, outages>>
struct == <<conn, typed, stub>>
conns  == <<dialed, open, broken>>
locals == <<attempt, fresh, target, alive>>
ghosts == <<calm, overlapped>>
vars   == <<kind, remote, struct, conns, pc, locals, calls, ghosts>>

Connecting == {"close", "dial", "set_conn", "set_type", "set_stub"}
Active     == {"check", "send", "await"} \cup Connecting
Returned   == {"answered", "error", "panic"}
Locations  == {"idle"} \cup Active \cup Returned

\* Mutant: a user-service client that could not connect is kept as well.
EagerDropped(k) == FALSE

-----------------------------------------------------------------------------
\* The user-service client of the process exists only once it has connected:
\* a constructor whose connect fails ends the process.  The two others are
\* kept unconnected and dial on the first call.
Eager(k) == k = "user"

\* The video-service client has no second attempt.
Reconnects(k) == k # "video"

TypeOK ==
    /\ kind \in Kinds
    /\ up \in BOOLEAN /\ outages \in Nat
    /\ conn \in Nat /\ typed \in BOOLEAN /\ stub \in Nat
    /\ dialed \in Nat /\ open \subseteq 1..dialed /\ broken \subseteq 1..dialed
    /\ pc \in [Handlers -> Locations]
    /\ attempt \in [Handlers -> {1, 2}]
    /\ fresh \in [Handlers -> Nat]
    /\ target \in [Handlers -> Nat]
    /\ alive \in [Handlers -> BOOLEAN]
    /\ calls \in 0..MaxCalls
    /\ calm \in [Handlers -> BOOLEAN] /\ overlapped \in BOOLEAN

Connected == conn = 1 /\ typed = TRUE /\ stub = 1 /\ dialed = 1 /\ open = {1}
Nil       == conn = 0 /\ typed = FALSE /\ stub = 0 /\ dialed = 0 /\ open = {}

\* The singletons as their constructors leave them.
Init ==
    /\ kind \in Kinds
    /\ Connected \/ (~Eager(kind) /\ Nil)
    /\ up \in BOOLEAN /\ outages = 0 /\ broken = {}
    /\ pc = [h \in Handlers |-> "idle"]
    /\ attempt = [h \in Handlers |-> 1]
    /\ fresh = [h \in Handlers |-> 0]
    /\ target = [h \in Handlers |-> 0]
    /\ alive = [h \in Handlers |-> TRUE]
    /\ calls = 0
    /\ calm = [h \in Handlers |-> FALSE] /\ overlapped = FALSE

-----------------------------------------------------------------------------
Goto(h, l) == pc' = [pc EXCEPT ![h] = l]

\* A handler that starts to connect while another one does.
EnterConnect(h, l) ==
    /\ Goto(h, l)
    /\ overlapped' = (overlapped \/ \E g \in Handlers \ {h} : pc[g] \in Connecting)

\* A call begins with a context that expires after c.timeout.
Begin(h) ==
    /\ pc[h] = "idle" /\ calls < MaxCalls
    /\ Goto(h, "check")
    /\ calls' = calls + 1
    /\ calm' = [g \in Handlers |-> g = h /\ up /\ \A f \in Handlers : pc[f] \notin Active]
    /\ UNCHANGED <<kind, remote, struct, conns, locals, overlapped>>

\* if c.client == nil: connect first.
CheckClient(h) ==
    /\ pc[h] = "check"
    /\ \/ typed /\ Goto(h, "send") /\ UNCHANGED overlapped
       \/ ~typed /\ EnterConnect(h, "dial")
    /\ UNCHANGED <<kind, remote, struct, conns, locals, calls, calm>>

\* Mutant: the old connection is left open.
CloseNothing(h) ==
    /\ pc[h] = "close"
    /\ Goto(h, "dial")
    /\ UNCHANGED <<kind, remote, struct, conns, locals, calls, ghosts>>

\* reconnect: the connection found in the struct is closed.
CloseConn(h) ==
    /\ pc[h] = "close"
    /\ open' = open \ {conn}
    /\ Goto(h, "dial")
    /\ UNCHANGED <<kind, remote, struct, dialed, broken, locals, calls, ghosts>>

\* A blocking dial that reaches the service.
Dial(h) ==
    /\ pc[h] = "dial" /\ up
    /\ dialed' = dialed + 1
    /\ open' = open \cup {dialed + 1}
    /\ fresh' = [fresh EXCEPT ![h] = dialed + 1]
    /\ Goto(h, "set_conn")
    /\ UNCHANGED <<kind, remote, struct, broken, attempt, target, alive, calls, ghosts>>

\* Mutant: the dial has no timeout.
DialNeverFails(h) == FALSE

\* A blocking dial that times out: the call returns an error.
DialFails(h) ==
    /\ pc[h] = "dial" /\ ~up
    /\ Goto(h, "error")
    /\ UNCHANGED <<kind, remote, struct, conns, locals, calls, ghosts>>

\* c.conn = conn
SetConn(h) ==
    /\ pc[h] = "set_conn"
    /\ conn' = fresh[h]
    /\ Goto(h, IF typed THEN "set_stub" ELSE "set_type")
    /\ UNCHANGED <<kind, remote, typed, stub, conns, locals, calls, ghosts>>

\* c.client = pb.NewXxxServiceClient(conn) stores an interface value, two
\* words that another goroutine may read in between; the first of them is
\* the same for every connection.
SetType(h) ==
    /\ pc[h] = "set_type"
    /\ typed' = TRUE
    /\ Goto(h, "set_stub")
    /\ UNCHANGED <<kind, remote, conn, stub, conns, locals, calls, ghosts>>

\* Mutant: the stub of the first connection is kept.
SetStubOnce(h) ==
    /\ pc[h] = "set_stub"
    /\ stub' = IF stub = 0 THEN fresh[h] ELSE stub
    /\ fresh' = [fresh EXCEPT ![h] = 0]
    /\ Goto(h, "send")
    /\ UNCHANGED <<kind, remote, conn, typed, conns, attempt, target, alive, calls, ghosts>>

SetStub(h) ==
    /\ pc[h] = "set_stub"
    /\ stub' = fresh[h]
    /\ fresh' = [fresh EXCEPT ![h] = 0]
    /\ Goto(h, "send")
    /\ UNCHANGED <<kind, remote, conn, typed, conns, attempt, target, alive, calls, ghosts>>

\* c.client.Method(ctx, req): a torn value is a nil dereference.
Send(h) ==
    /\ pc[h] = "send"
    /\ \/ stub = 0 /\ Goto(h, "panic") /\ UNCHANGED target
       \/ stub # 0 /\ Goto(h, "await") /\ target' = [target EXCEPT ![h] = stub]
    /\ UNCHANGED <<kind, remote, struct, conns, attempt, fresh, alive, calls, ghosts>>

Reply(h) ==
    /\ pc[h] = "await" /\ up /\ alive[h] /\ target[h] \in open
    /\ Goto(h, "answered")
    /\ target' = [target EXCEPT ![h] = 0]
    /\ UNCHANGED <<kind, remote, struct, conns, attempt, fresh, alive, calls, ghosts>>

\* Mutant: every failed call reconnects and tries again.
CallFailsForever(h) ==
    /\ pc[h] = "await" /\ (~up \/ ~alive[h] \/ target[h] \notin open \ broken)
    /\ attempt' = [attempt EXCEPT ![h] = attempt[h] + 1]
    /\ EnterConnect(h, "close")
    /\ target' = [target EXCEPT ![h] = 0]
    /\ UNCHANGED <<kind, remote, struct, conns, fresh, alive, calls, calm>>

\* The service is down or has been and the transport still backs off, the
\* context has expired, or someone closed the connection under the call.
CallFails(h) ==
    /\ pc[h] = "await" /\ (~up \/ ~alive[h] \/ target[h] \notin open \ broken)
    /\ \/ /\ attempt[h] = 1 /\ Reconnects(kind)
          /\ attempt' = [attempt EXCEPT ![h] = 2]
          /\ EnterConnect(h, "close")
       \/ /\ attempt[h] = 2 \/ ~Reconnects(kind)
          /\ Goto(h, "error")
          /\ UNCHANGED <<attempt, overlapped>>
    /\ target' = [target EXCEPT ![h] = 0]
    /\ UNCHANGED <<kind, remote, struct, conns, fresh, alive, calls, calm>>

\* The answer is used and the locals of the call are gone.
Return(h) ==
    /\ pc[h] \in Returned
    /\ Goto(h, "idle")
    /\ attempt' = [attempt EXCEPT ![h] = 1]
    /\ alive' = [alive EXCEPT ![h] = TRUE]
    /\ calm' = [calm EXCEPT ![h] = FALSE]
    /\ UNCHANGED <<kind, remote, struct, conns, fresh, target, calls, overlapped>>

\* The context of a call expires; only the call itself looks at it.
Expire(h) ==
    /\ pc[h] = "await" /\ alive[h]
    /\ alive' = [alive EXCEPT ![h] = FALSE]
    /\ calm' = [calm EXCEPT ![h] = FALSE]
    /\ UNCHANGED <<kind, remote, struct, conns, pc, attempt, fresh, target, calls, overlapped>>

ServiceDown ==
    /\ up /\ outages < MaxOutages
    /\ up' = FALSE /\ outages' = outages + 1
    /\ calm' = [h \in Handlers |-> FALSE]
    /\ broken' = open
    /\ UNCHANGED <<kind, struct, dialed, open, pc, locals, calls, overlapped>>

ServiceUp ==
    /\ ~up
    /\ up' = TRUE
    /\ UNCHANGED <<kind, outages, struct, conns, pc, locals, calls, ghosts>>

\* A step of the code that serves a call.
Step(h) ==
    \/ CheckClient(h) \/ CloseConn(h) \/ Dial(h) \/ DialFails(h)
    \/ SetConn(h) \/ SetType(h) \/ SetStub(h) \/ Send(h)
    \/ Reply(h) \/ CallFails(h) \/ Return(h)

Next ==
    \/ \E h \in Handlers : Begin(h) \/ Step(h) \/ Expire(h)
    \/ ServiceDown \/ ServiceUp

Spec == Init /\ [][Next]_vars

\* The scheduler runs every handler; nothing makes the service come back.
FairSpec == Spec /\ \A h \in Handlers : WF_vars(Step(h))

-----------------------------------------------------------------------------
\* A call of a client with a second attempt that no other call overlapped,
\* made while the service was up and its context alive, is answered: the
\* second attempt repairs whatever the calls and outages before left in the
\* struct, a closed connection or one that still backs off included
\* (user_service_client.go:190-199, transcode_service_client.go:150-156).
CalmCallSucceeds ==
    Reconnects(kind) =>
        \A h \in Handlers : pc[h] \in {"error", "panic"} => ~calm[h]

\* A connection that is open and that nothing refers to any more is never
\* closed.  It takes two handlers that connect at the same time to lose one
\* (user_service_client.go:121-146, 238-245).
LeakNeedsOverlap ==
    (open \subseteq {conn, stub} \cup {fresh[h] : h \in Handlers}) \/ overlapped

\* Reading c.client while another handler stores the first one is the only
\* way to a nil dereference, and the user-service client, on which every
\* upload request depends, is published already connected
\* (user_service_client.go:69-74, 113-117).
UserClientNeverPanics ==
    kind = "user" => \A h \in Handlers : pc[h] # "panic"

\* Every call returns, whatever the service does: the dial and the call are
\* bounded by a timeout and there is one second attempt.
EveryCallReturns ==
    \A h \in Handlers : pc[h] = "check" ~> pc[h] \in Returned
=============================================================================

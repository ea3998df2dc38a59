-------------------------- MODULE RemoteClientProofs --------------------------
(***************************************************************************)
(* Proofs about RemoteClient, for any number of handlers, calls and        *)
(* outages: types, and what a client promises although its fields are      *)
(* shared without a lock.                                                  *)
(***************************************************************************)
EXTENDS RemoteClient, TLAPS

LocalStep(h) == Begin(h) \/ Step(h) \/ Expire(h)

-----------------------------------------------------------------------------
(* Types.                                                                  *)

LEMMA TypeInit == Init => TypeOK
<1> SUFFICES ASSUME Init PROVE TypeOK OBVIOUS
<1>1. /\ conn \in Nat /\ stub \in Nat /\ dialed \in Nat /\ typed \in BOOLEAN
      /\ open \subseteq 1..dialed
  <2>1. CASE Connected BY <2>1 DEF Connected
  <2>2. CASE Nil BY <2>2 DEF Nil
  <2> QED BY <2>1, <2>2 DEF Init
<1>2. calls \in 0..MaxCalls BY BoundsAssumption DEF Init
<1>3. calm \in [Handlers -> BOOLEAN] /\ alive \in [Handlers -> BOOLEAN]
  BY Zenon DEF Init
<1>4. pc \in [Handlers -> Locations] BY DEF Init, Locations
<1> QED BY <1>1, <1>2, <1>3, <1>4 DEF Init, TypeOK

LEMMA TypeNext ==
    ASSUME TypeOK, [Next]_vars PROVE TypeOK'
<1>1. ASSUME NEW h \in Handlers, LocalStep(h) PROVE TypeOK'
  <2> USE DEF TypeOK, Goto, remote, struct, conns, locals, ghosts, Locations, Active,
      Connecting, Returned
  <2>1. CASE Begin(h)
    <3>1. calls' \in 0..MaxCalls BY <2>1, BoundsAssumption DEF Begin
    <3>2. calm' \in [Handlers -> BOOLEAN] BY <2>1, Zenon DEF Begin
    <3> QED BY <2>1, <3>1, <3>2 DEF Begin
  <2>2. CASE CheckClient(h) BY <2>2 DEF CheckClient, EnterConnect
  <2>3. CASE CloseConn(h) BY <2>3 DEF CloseConn
  <2>4. CASE Dial(h) BY <2>4 DEF Dial
  <2>5. CASE DialFails(h) BY <2>5 DEF DialFails
  <2>6. CASE SetConn(h) BY <2>6 DEF SetConn
  <2>7. CASE SetType(h) BY <2>7 DEF SetType
  <2>8. CASE SetStub(h) BY <2>8 DEF SetStub
  <2>9. CASE Send(h) BY <2>9 DEF Send
  <2>10. CASE Reply(h) BY <2>10 DEF Reply
  <2>11. CASE CallFails(h) BY <2>11 DEF CallFails, EnterConnect
  <2>12. CASE Return(h) BY <2>12 DEF Return
  <2>13. CASE Expire(h) BY <2>13 DEF Expire
  <2> QED BY <1>1, <2>1, <2>2, <2>3, <2>4, <2>5, <2>6, <2>7, <2>8, <2>9, <2>10, <2>11,
      <2>12, <2>13 DEF LocalStep, Step
<1>2. CASE ServiceDown
  <2>1. calm' \in [Handlers -> BOOLEAN] BY <1>2, Zenon DEF ServiceDown
  <2>2. broken' \subseteq 1..dialed' BY <1>2 DEF ServiceDown, TypeOK
  <2>3. up' \in BOOLEAN /\ outages' \in Nat
    <3>1. up' = FALSE /\ outages' = outages + 1 BY <1>2 DEF ServiceDown
    <3>2. outages \in Nat BY DEF TypeOK
    <3>3. outages' \in Nat BY <3>1, <3>2
    <3> QED BY <3>1, <3>3, Zenon
  <2>4. UNCHANGED <<kind, conn, typed, stub, dialed, open, pc, attempt, fresh, target,
      alive, calls, overlapped>>
    BY <1>2 DEF ServiceDown, struct, locals
  <2> QED BY <2>1, <2>2, <2>3, <2>4 DEF TypeOK
<1>3. CASE ServiceUp BY <1>3 DEF ServiceUp, TypeOK, Goto, remote, struct, conns, locals,
    ghosts, Locations, Active, Connecting, Returned
<1>4. CASE UNCHANGED vars BY <1>4 DEF vars, TypeOK, Goto, remote, struct, conns, locals,
    ghosts, Locations, Active, Connecting, Returned
<1> QED BY <1>1, <1>2, <1>3, <1>4 DEF Next, LocalStep

\* Every variable keeps its type: connections are numbered as they are made,
\* and only connections that were made are open or broken.
THEOREM TypeCorrect == Spec => []TypeOK
<1>1. Init => TypeOK BY TypeInit
<1>2. TypeOK /\ [Next]_vars => TypeOK' BY TypeNext
<1> QED BY <1>1, <1>2, PTL DEF Spec

-----------------------------------------------------------------------------
(* The stub.  A handler that publishes a connection has dialled it; a stub *)
(* is nil until some handler has published one, and the one whose type     *)
(* word is set without its data word is being published right now.         *)

StubInv ==
    /\ conn \in 0..dialed /\ \A h \in Handlers : fresh[h] \in 0..dialed
    /\ \A h \in Handlers : pc[h] \in {"set_conn", "set_type", "set_stub"} => fresh[h] # 0
    /\ \A h \in Handlers : pc[h] \in {"set_stub", "send"} => typed
    /\ ~typed => stub = 0
    /\ typed /\ stub = 0 => \E h \in Handlers : pc[h] = "set_stub"
    /\ kind = "user" => typed /\ stub # 0
    /\ kind = "user" => \A h \in Handlers : pc[h] # "panic"

LEMMA StubInit == Init => StubInv
  BY DEF Init, StubInv, Connected, Nil, Eager

LEMMA StubNext ==
    ASSUME TypeOK, StubInv, [Next]_vars PROVE StubInv'
<1>1. ASSUME NEW h \in Handlers, LocalStep(h) PROVE StubInv'
  <2> USE DEF TypeOK, StubInv, Goto, remote, struct, conns, locals, ghosts, Locations,
      Active, Connecting, Returned
  <2>1. CASE Begin(h) BY <2>1 DEF Begin
  <2>2. CASE CheckClient(h) BY <2>2 DEF CheckClient, EnterConnect
  <2>3. CASE CloseConn(h) BY <2>3 DEF CloseConn
  <2>4. CASE Dial(h) BY <2>4 DEF Dial
  <2>5. CASE DialFails(h) BY <2>5 DEF DialFails
  <2>6. CASE SetConn(h) BY <2>6 DEF SetConn
  <2>7. CASE SetType(h) BY <2>7 DEF SetType
  <2>8. CASE SetStub(h) BY <2>8 DEF SetStub
  <2>9. CASE Send(h) BY <2>9 DEF Send
  <2>10. CASE Reply(h) BY <2>10 DEF Reply
  <2>11. CASE CallFails(h) BY <2>11 DEF CallFails, EnterConnect
  <2>12. CASE Return(h) BY <2>12 DEF Return
  <2>13. CASE Expire(h) BY <2>13 DEF Expire
  <2> QED BY <1>1, <2>1, <2>2, <2>3, <2>4, <2>5, <2>6, <2>7, <2>8, <2>9, <2>10, <2>11,
      <2>12, <2>13 DEF LocalStep, Step
<1>2. CASE ServiceDown BY <1>2 DEF ServiceDown, TypeOK, StubInv, Goto, remote, struct,
    conns, locals, ghosts, Locations, Active, Connecting, Returned
<1>3. CASE ServiceUp BY <1>3 DEF ServiceUp, TypeOK, StubInv, Goto, remote, struct, conns,
    locals, ghosts, Locations, Active, Connecting, Returned
<1>4. CASE UNCHANGED vars BY <1>4 DEF vars, TypeOK, StubInv, Goto, remote, struct, conns,
    locals, ghosts, Locations, Active, Connecting, Returned
<1> QED BY <1>1, <1>2, <1>3, <1>4 DEF Next, LocalStep

\* No call of the user-service client dereferences a nil stub: whatever the
\* interleaving, the stub that a handler finds was made from a connection.
THEOREM UserClientIsConnected == Spec => []UserClientNeverPanics
<1>1. Init => TypeOK /\ StubInv BY TypeInit, StubInit
<1>2. (TypeOK /\ StubInv) /\ [Next]_vars => (TypeOK /\ StubInv)' BY TypeNext, StubNext
<1>3. StubInv => UserClientNeverPanics BY DEF StubInv, UserClientNeverPanics
<1> QED BY <1>1, <1>2, <1>3, PTL DEF Spec

-----------------------------------------------------------------------------
(* Connections.  While connecting handlers have never overlapped, at most  *)
(* one handler connects, and the connection it replaces is closed before   *)
(* the struct forgets it.                                                  *)

OneConnects ==
    \A g, h \in Handlers : pc[g] \in Connecting /\ pc[h] \in Connecting => g = h

Publishing(h) == pc[h] \in {"set_type", "set_stub"}

ConnInv ==
    ~overlapped =>
        /\ OneConnects
        /\ (\A h \in Handlers : ~Publishing(h)) => conn = stub
        /\ \A h \in Handlers : pc[h] \in {"dial", "set_conn"} => conn \notin open
        /\ \A h \in Handlers : Publishing(h) => conn = fresh[h] /\ stub \notin open
        /\ \A c \in open : c = conn \/ \E h \in Handlers : pc[h] = "set_conn" /\ c = fresh[h]

LEMMA ConnInit == Init => ConnInv
  BY DEF Init, ConnInv, OneConnects, Publishing, Connected, Nil, Connecting

LEMMA ConnNext ==
    ASSUME TypeOK, StubInv, ConnInv, [Next]_vars PROVE ConnInv'
<1>1. ASSUME NEW h \in Handlers, LocalStep(h) PROVE ConnInv'
  <2> USE DEF TypeOK, StubInv, ConnInv, OneConnects, Publishing, Goto, remote, struct,
      conns, locals, ghosts, Locations, Active, Connecting, Returned
  <2>1. CASE Begin(h) BY <2>1 DEF Begin
  <2>2. CASE CheckClient(h)
    <3>1. CASE typed BY <3>1, <2>2 DEF CheckClient, EnterConnect
    <3>2. CASE ~typed /\ ~overlapped'
      <4>1. /\ ~overlapped /\ \A g \in Handlers : pc[g] \notin Connecting
            /\ pc' = [pc EXCEPT ![h] = "dial"] /\ UNCHANGED <<conn, stub, open, fresh>>
        BY <3>2, <2>2 DEF CheckClient, EnterConnect
      <4>2. conn = 0 /\ 0 \notin open BY <3>2, <4>1
      <4>3. \A g \in Handlers : pc'[g] \in Connecting => g = h BY <4>1
      <4> QED BY <4>1, <4>2, <4>3
    <3> QED BY <3>1, <3>2, <2>2 DEF CheckClient, EnterConnect
  <2>3. CASE CloseConn(h) BY <2>3 DEF CloseConn
  <2>4. CASE Dial(h)
    <3>1. /\ pc[h] = "dial" /\ pc' = [pc EXCEPT ![h] = "set_conn"] /\ open' = open \cup {dialed + 1}
          /\ fresh' = [fresh EXCEPT ![h] = dialed + 1]
          /\ UNCHANGED <<conn, stub, typed, overlapped, kind>>
      BY <2>4 DEF Dial
    <3> SUFFICES ASSUME ~overlapped PROVE ConnInv' BY <3>1
    <3>2. OneConnects' BY <3>1
    <3>3. \A g \in Handlers : ~Publishing(g)' /\ ~Publishing(g) BY <3>1
    <3>4. conn = stub /\ conn \notin open BY <3>1, <3>3
    <3>8. \A g \in Handlers : pc'[g] \in {"dial", "set_conn"} => conn \notin open'
      <4>1. conn \in Nat /\ conn # dialed + 1 OBVIOUS
      <4> QED BY <3>1, <3>4, <4>1
    <3>6. \A c \in open' : c = conn' \/ \E g \in Handlers : pc'[g] = "set_conn" /\ c = fresh'[g]
      BY <3>1
    <3> QED BY <3>1, <3>2, <3>3, <3>4, <3>6, <3>8
  <2>5. CASE DialFails(h) BY <2>5 DEF DialFails
  <2>6. CASE SetConn(h) BY <2>6 DEF SetConn
  <2>7. CASE SetType(h) BY <2>7 DEF SetType
  <2>8. CASE SetStub(h) BY <2>8 DEF SetStub
  <2>9. CASE Send(h) BY <2>9 DEF Send
  <2>10. CASE Reply(h) BY <2>10 DEF Reply
  <2>11. CASE CallFails(h)
    <3>1. CASE Goto(h, "error") /\ UNCHANGED overlapped BY <3>1, <2>11 DEF CallFails
    <3>2. CASE EnterConnect(h, "close") /\ ~overlapped'
      <4>1. /\ ~overlapped /\ \A g \in Handlers : pc[g] \notin Connecting
            /\ pc' = [pc EXCEPT ![h] = "close"] /\ UNCHANGED <<conn, stub, open, fresh>>
        BY <3>2, <2>11 DEF CallFails, EnterConnect
      <4>3. \A g \in Handlers : pc'[g] \in Connecting => g = h BY <4>1
      <4> QED BY <4>1, <4>3
    <3> QED BY <3>1, <3>2, <2>11 DEF CallFails, EnterConnect
  <2>12. CASE Return(h) BY <2>12 DEF Return
  <2>13. CASE Expire(h) BY <2>13 DEF Expire
  <2> QED BY <1>1, <2>1, <2>2, <2>3, <2>4, <2>5, <2>6, <2>7, <2>8, <2>9, <2>10, <2>11,
      <2>12, <2>13 DEF LocalStep, Step
<1>2. CASE ServiceDown BY <1>2 DEF ServiceDown, TypeOK, StubInv, ConnInv, OneConnects,
    Publishing, Goto, remote, struct, conns, locals, ghosts, Locations, Active,
    Connecting, Returned
<1>3. CASE ServiceUp BY <1>3 DEF ServiceUp, TypeOK, StubInv, ConnInv, OneConnects,
    Publishing, Goto, remote, struct, conns, locals, ghosts, Locations, Active,
    Connecting, Returned
<1>4. CASE UNCHANGED vars BY <1>4 DEF vars, TypeOK, StubInv, ConnInv, OneConnects,
    Publishing, Goto, remote, struct, conns, locals, ghosts, Locations, Active,
    Connecting, Returned
<1> QED BY <1>1, <1>2, <1>3, <1>4 DEF Next, LocalStep

\* An open connection that nothing refers to any more is the work of two
\* handlers that connected at the same time.
THEOREM LeaksNeedOverlap == Spec => []LeakNeedsOverlap
<1> DEFINE Inv == TypeOK /\ StubInv /\ ConnInv
<1>1. Init => Inv BY TypeInit, StubInit, ConnInit
<1>2. Inv /\ [Next]_vars => Inv' BY TypeNext, StubNext, ConnNext
<1>3. Inv => LeakNeedsOverlap BY DEF ConnInv, LeakNeedsOverlap
<1> QED BY <1>1, <1>2, <1>3, PTL DEF Spec

-----------------------------------------------------------------------------
(* A calm call.  No other handler is active, so that the connection of its *)
(* second attempt, dialled while the service is up, stays as it is.        *)

Good(c) == c \in open \ broken

CalmInv ==
    \A h \in Handlers :
        /\ pc[h] = "idle" => alive[h] /\ attempt[h] = 1
        /\ calm[h] =>
             /\ up /\ alive[h]
             /\ \A g \in Handlers \ {h} : pc[g] \notin Active
             /\ Reconnects(kind) => pc[h] \notin {"error", "panic"}
             /\ attempt[h] = 2 /\ pc[h] \in {"set_conn", "set_type",
                 "set_stub"} => Good(fresh[h])
             /\ attempt[h] = 2 /\ pc[h] = "send" => Good(stub)
             /\ attempt[h] = 2 /\ pc[h] = "await" => Good(target[h])
             /\ attempt[h] = 2 => pc[h] # "check"

LEMMA CalmInit == Init => CalmInv
  BY DEF Init, CalmInv

LEMMA CalmNext ==
    ASSUME TypeOK, StubInv, CalmInv, [Next]_vars PROVE CalmInv'
<1>1. ASSUME NEW h \in Handlers, LocalStep(h) PROVE CalmInv'
  <2> USE DEF TypeOK, StubInv, CalmInv, Good, Goto, remote, struct, conns, locals, ghosts,
      Locations, Active, Connecting, Returned
  <2>1. CASE Begin(h)
    <3>1. /\ pc[h] = "idle" /\ pc' = [pc EXCEPT ![h] = "check"]
          /\ UNCHANGED <<kind, up, open, broken, stub, attempt, fresh, target, alive>>
      BY <2>1 DEF Begin
    <3>2. \A g \in Handlers : calm'[g] => g = h /\ up /\ \A f \in Handlers : pc[f] \notin Active
      BY <2>1, Zenon DEF Begin
    <3> HIDE DEF Active
    <3>3. \A g \in Handlers \ {h} : pc'[g] = pc[g] BY <3>1
    <3>4. pc'[h] = "check" /\ alive[h] /\ attempt[h] = 1 BY <3>1
    <3> QED BY <3>1, <3>2, <3>3, <3>4
  <2>2. CASE CheckClient(h) BY <2>2 DEF CheckClient, EnterConnect
  <2>3. CASE CloseConn(h) BY <2>3 DEF CloseConn
  <2>4. CASE Dial(h) BY <2>4 DEF Dial
  <2>5. CASE DialFails(h) BY <2>5 DEF DialFails
  <2>6. CASE SetConn(h) BY <2>6 DEF SetConn
  <2>7. CASE SetType(h) BY <2>7 DEF SetType
  <2>8. CASE SetStub(h) BY <2>8 DEF SetStub
  <2>9. CASE Send(h)
    <3>1. pc[h] = "send" /\ typed BY <2>9 DEF Send
    <3>2. UNCHANGED <<kind, up, open, broken, stub, attempt, fresh, alive, calm>>
        BY <2>9 DEF Send
    <3>3. CASE stub # 0 BY <3>1, <3>2, <3>3, <2>9 DEF Send
    <3>4. CASE stub = 0
      <4>1. PICK g \in Handlers : pc[g] = "set_stub" BY <3>1, <3>4
      <4>2. g # h BY <3>1, <4>1
      <4>3. ~calm[h] BY <4>1, <4>2
      <4> QED BY <4>3, <3>2, <3>4, <2>9 DEF Send
    <3> QED BY <3>3, <3>4
  <2>10. CASE Reply(h) BY <2>10 DEF Reply
  <2>11. CASE CallFails(h) BY <2>11 DEF CallFails, EnterConnect
  <2>12. CASE Return(h) BY <2>12 DEF Return
  <2>13. CASE Expire(h) BY <2>13 DEF Expire
  <2> QED BY <1>1, <2>1, <2>2, <2>3, <2>4, <2>5, <2>6, <2>7, <2>8, <2>9, <2>10, <2>11,
      <2>12, <2>13 DEF LocalStep, Step
<1>2. CASE ServiceDown BY <1>2 DEF ServiceDown, TypeOK, StubInv, CalmInv, Good, Goto,
    remote, struct, conns, locals, ghosts, Locations, Active, Connecting, Returned
<1>3. CASE ServiceUp BY <1>3 DEF ServiceUp, TypeOK, StubInv, CalmInv, Good, Goto, remote,
    struct, conns, locals, ghosts, Locations, Active, Connecting, Returned
<1>4. CASE UNCHANGED vars BY <1>4 DEF vars, TypeOK, StubInv, CalmInv, Good, Goto, remote,
    struct, conns, locals, ghosts, Locations, Active, Connecting, Returned
<1> QED BY <1>1, <1>2, <1>3, <1>4 DEF Next, LocalStep

\* A call that nothing disturbs is answered, whatever state of the struct the
\* calls and outages before it have left.
THEOREM CalmCallsSucceed == Spec => []CalmCallSucceeds
<1> DEFINE Inv == TypeOK /\ StubInv /\ CalmInv
<1>1. Init => Inv BY TypeInit, StubInit, CalmInit
<1>2. Inv /\ [Next]_vars => Inv' BY TypeNext, StubNext, CalmNext
<1>3. Inv => CalmCallSucceeds BY DEF CalmInv, CalmCallSucceeds
<1> QED BY <1>1, <1>2, <1>3, PTL DEF Spec
=============================================================================

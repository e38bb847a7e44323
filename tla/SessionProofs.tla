---------------------------- MODULE SessionProofs ----------------------------
(* Two kinds of session with a service.  The connection: whatever the order of
   verdicts, timeouts, messages and closings, a host keeps no stranger
   connected, serves only clients it allowed, and agrees with the clients that
   believe to be authed.  The session key: one that was announced is usable
   until it expires.  Both for any connections, calls, keys, actors, requests
   and announcements. *)

EXTENDS PeerSession, SessionKeys, TLAPS

-----------------------------------------------------------------------------
(* The connection: PeerSession *)

\* How far the auth operation is says what the host decided, and the reverse.
AuthOrder ==
  \A c \in Conn :
     /\ op[c] \in {"unused", "sealing", "sent", "arrived", "judged"}
          => verdict[c] = "none" /\ state[c] = "AUTH_REQUIRED"
     /\ op[c] = "working" => verdict[c] = "allow"
     /\ state[c] = "AUTHED" => verdict[c] = "allow"
     /\ verdict[c] = "allow" /\ op[c] \in {"replying", "answered", "opening", "settled"}
          => state[c] = "AUTHED"
     /\ c \in authed => op[c] = "settled"

\* A call is judged, and served, on a connection that was allowed.
CallOrder ==
  \A k \in Call : op[k] = "judged" \/ k \in served => verdict[Target[k]] = "allow"

IInv == TypeOK /\ UnauthedIsTimed /\ AuthOrder /\ CallOrder

\* An operation moves, and the others stay.
LEMMA GoesMoves ==
  ASSUME TypeOK, NEW o \in Op, NEW from, NEW to \in Stage, Goes(o, from, to)
  PROVE  /\ op' \in [Op -> Stage] /\ op[o] = from /\ op'[o] = to
         /\ \A p \in Op : p # o => op'[p] = op[p]
  BY DEF TypeOK, Goes

\* An operation ends without an answer, and the others stay.
LEMMA ThrowMoves ==
  ASSUME TypeOK, NEW o \in Op, Throw(o)
  PROVE  /\ op' \in [Op -> Stage] /\ op'[o] = "dropped"
         /\ \A p \in Op : p # o => op'[p] = op[p]
  BY DEF TypeOK, Throw, Stage

\* The end of a socket does nothing to operations but to drop some.
LEMMA ShutDrops ==
  ASSUME TypeOK, NEW c \in Conn, NEW inflight \in Stage \ {"settled"},
         op' = [o \in Op |-> IF ConnOf(o) = c /\ op[o] = inflight
                             THEN "dropped" ELSE op[o]]
  PROVE  /\ op' \in [Op -> Stage]
         /\ \A p \in Op : op'[p] = op[p] \/ (op'[p] = "dropped" /\ op[p] # "settled")
  BY DEF TypeOK, Stage

\* Each kind of step, with what it does to the operations.
LEMMA TypeNext == TypeOK /\ [Next]_vars => TypeOK'
<1> SUFFICES ASSUME TypeOK, [Next]_vars PROVE TypeOK'
  OBVIOUS
<1> USE DEF TypeOK, hostVars, clientVars
<1>1. ASSUME NEW c \in Conn, Start(c) \/ Socket(c) \/ Break(c) PROVE TypeOK'
  <2>1. CASE Start(c)    BY <2>1 DEF Start
  <2>2. CASE Accept(c)   BY <2>2 DEF Accept
  <2>3. CASE Refuse(c)   BY <2>3 DEF Refuse
  <2>4. CASE Listen(c)   BY <2>4 DEF Listen
  <2>5. CASE ListenLate(c) BY <2>5 DEF ListenLate
  <2>6. CASE Break(c)    BY <2>6 DEF Break
  <2>7. QED BY <1>1, <2>1, <2>2, <2>3, <2>4, <2>5, <2>6 DEF Socket
<1>2. ASSUME NEW c \in Conn, ClientStop(c) \/ ClientHears(c) PROVE TypeOK'
  <2>1. op' \in [Op -> Stage]
    BY <1>2, ShutDrops DEF ClientStop, ClientHears, Shut, Stage
  <2>2. QED BY <1>2, <2>1 DEF ClientStop, ClientHears, Shut, ClientOnclose
<1>3. ASSUME NEW c \in Conn, HostClose(c) \/ HostHears(c) PROVE TypeOK'
  <2>1. op' \in [Op -> Stage]
    BY <1>3, ShutDrops DEF HostClose, HostHears, Shut, Stage
  <2>2. QED BY <1>3, <2>1 DEF HostClose, HostHears, Shut
<1>4. ASSUME NEW c \in Conn, HandleClientConnection(c) \/ HandleAuthTimeout(c)
      PROVE TypeOK'
  BY <1>4 DEF HandleClientConnection, HandleAuthTimeout
<1>5. ASSUME NEW c \in Conn, Onopen(c) \/ Deny(c) \/ Allow(c) \/ Authorize(c) \/ AuthReply(c)
      PROVE TypeOK'
  <2>1. c \in Op BY DEF Op
  <2>2. op' \in [Op -> Stage]
    BY <1>5, <2>1 DEF Onopen, Deny, Allow, Authorize, AuthReply, Goes, Stage
  <2>3. QED BY <1>5, <2>2 DEF Onopen, Deny, Allow, Authorize, AuthReply
<1>6. ASSUME NEW k \in Call, Begin(k) \/ Serve(k) \/ Return(k) \/ CallReply(k)
      PROVE TypeOK'
  <2>1. k \in Op BY DEF Op
  <2>2. op' \in [Op -> Stage]
    BY <1>6, <2>1 DEF Begin, Serve, Return, CallReply, Goes, Stage
  <2>3. QED BY <1>6, <2>2 DEF Begin, Serve, Return, CallReply
<1>7. ASSUME NEW o \in Op, \/ Send(o) \/ Arrive(o) \/ HandleClientCall(o) \/ Throw(o)
                           \/ Reply(o) \/ Receive(o)
      PROVE TypeOK'
  <2>1. op' \in [Op -> Stage]
    BY <1>7 DEF Send, Arrive, HandleClientCall, AuthorizeOperation, Throw, Reply, Receive, Goes, Stage
  <2>2. QED BY <1>7, <2>1 DEF Send, Arrive, HandleClientCall, AuthorizeOperation, Throw, Reply, Receive
<1>8. CASE UNCHANGED vars BY <1>8 DEF vars
<1>9. QED BY <1>1, <1>2, <1>3, <1>4, <1>5, <1>6, <1>7, <1>8 DEF Next, Progress, Op

\* Only the end of the connection takes a host from authed, timed or closing
\* to none of them.
LEMMA TimedNext == TypeOK /\ UnauthedIsTimed /\ [Next]_vars => UnauthedIsTimed'
<1> SUFFICES ASSUME TypeOK, UnauthedIsTimed, [Next]_vars PROVE UnauthedIsTimed'
  OBVIOUS
<1> USE DEF TypeOK, UnauthedIsTimed, hostVars, clientVars
<1>1. ASSUME NEW c \in Conn, Start(c) \/ Socket(c) \/ Break(c) PROVE UnauthedIsTimed'
  <2>1. CASE Start(c)    BY <2>1 DEF Start
  <2>2. CASE Accept(c)   BY <2>2 DEF Accept
  <2>3. CASE Refuse(c)   BY <2>3 DEF Refuse
  <2>4. CASE Listen(c)   BY <2>4 DEF Listen
  <2>5. CASE ListenLate(c) BY <2>5 DEF ListenLate
  <2>6. CASE Break(c)    BY <2>6 DEF Break
  <2>7. QED BY <1>1, <2>1, <2>2, <2>3, <2>4, <2>5, <2>6 DEF Socket
<1>2. ASSUME NEW c \in Conn, ClientStop(c) \/ ClientHears(c) PROVE UnauthedIsTimed'
  BY <1>2 DEF ClientStop, ClientHears, Shut
<1>3. ASSUME NEW c \in Conn, HostClose(c) \/ HostHears(c) PROVE UnauthedIsTimed'
  BY <1>3 DEF HostClose, HostHears, Shut
<1>4. ASSUME NEW c \in Conn, HandleClientConnection(c) \/ HandleAuthTimeout(c)
      PROVE UnauthedIsTimed'
  BY <1>4 DEF HandleClientConnection, HandleAuthTimeout
<1>5. ASSUME NEW c \in Conn, Onopen(c) \/ Deny(c) \/ Allow(c) \/ Authorize(c) \/ AuthReply(c)
      PROVE UnauthedIsTimed'
  BY <1>5 DEF Onopen, Deny, Allow, Authorize, AuthReply
<1>6. ASSUME NEW k \in Call, Begin(k) \/ Serve(k) \/ Return(k) \/ CallReply(k)
      PROVE UnauthedIsTimed'
  BY <1>6 DEF Begin, Serve, Return, CallReply
<1>7. ASSUME NEW o \in Op, \/ Send(o) \/ Arrive(o) \/ HandleClientCall(o) \/ Throw(o)
                           \/ Reply(o) \/ Receive(o)
      PROVE UnauthedIsTimed'
  BY <1>7 DEF Send, Arrive, HandleClientCall, AuthorizeOperation, Throw, Reply, Receive
<1>8. CASE UNCHANGED vars BY <1>8 DEF vars
<1>9. QED BY <1>1, <1>2, <1>3, <1>4, <1>5, <1>6, <1>7, <1>8 DEF Next, Progress, Op

\* The auth operation goes one way: offer, verdict, state, reply, client.
LEMMA AuthOrderNext == TypeOK /\ AuthOrder /\ [Next]_vars => AuthOrder'
<1> SUFFICES ASSUME TypeOK, AuthOrder, [Next]_vars PROVE AuthOrder'
  OBVIOUS
<1> USE DEF AuthOrder, hostVars, clientVars, Stage
<1>1. ASSUME NEW c \in Conn, Start(c) \/ Socket(c) \/ Break(c) PROVE AuthOrder'
  BY <1>1 DEF Start, Socket, Accept, Refuse, Listen, ListenLate, Break
<1>2. ASSUME NEW c \in Conn, ClientStop(c) \/ ClientHears(c) PROVE AuthOrder'
  <2>1. \A p \in Op : op'[p] = op[p] \/ (op'[p] = "dropped" /\ op[p] # "settled")
    BY <1>2, ShutDrops DEF ClientStop, ClientHears, Shut
  <2>2. QED BY <1>2, <2>1 DEF ClientStop, ClientHears, ClientOnclose, Op
<1>3. ASSUME NEW c \in Conn, HostClose(c) \/ HostHears(c) PROVE AuthOrder'
  <2>1. \A p \in Op : op'[p] = op[p] \/ (op'[p] = "dropped" /\ op[p] # "settled")
    BY <1>3, ShutDrops DEF HostClose, HostHears, Shut
  <2>2. QED BY <1>3, <2>1 DEF HostClose, HostHears, Op
<1>4. ASSUME NEW c \in Conn, HandleClientConnection(c) \/ HandleAuthTimeout(c)
      PROVE AuthOrder'
  BY <1>4 DEF HandleClientConnection, HandleAuthTimeout
<1>5. ASSUME NEW c \in Conn, Onopen(c) \/ Deny(c) \/ Allow(c) \/ Authorize(c) \/ AuthReply(c)
      PROVE AuthOrder'
  <2>1. c \in Op BY DEF Op
  <2>2. \A p \in Op : p # c => op'[p] = op[p]
    BY <1>5, <2>1, GoesMoves DEF Onopen, Deny, Allow, Authorize, AuthReply
  <2>3. \A d \in Conn : d # c => op'[d] = op[d]
    BY <2>2 DEF Op
  <2>4. CASE Onopen(c)
    <3>1. op[c] = "unused" /\ op'[c] = "sealing"
      BY <2>4, <2>1, GoesMoves DEF Onopen
    <3>2. QED BY <2>4, <3>1, <2>3 DEF Onopen
  <2>5. CASE Deny(c)
    <3>1. op[c] = "judged" /\ op'[c] = "replying"
      BY <2>5, <2>1, GoesMoves DEF Deny
    <3>2. QED BY <2>5, <3>1, <2>3 DEF Deny, TypeOK
  <2>6. CASE Allow(c)
    <3>1. op[c] = "judged" /\ op'[c] = "working"
      BY <2>6, <2>1, GoesMoves DEF Allow
    <3>2. QED BY <2>6, <3>1, <2>3 DEF Allow, TypeOK
  <2>7. CASE Authorize(c)
    <3>1. op[c] = "working" /\ op'[c] = "replying"
      BY <2>7, <2>1, GoesMoves DEF Authorize
    <3>2. QED BY <2>7, <3>1, <2>3 DEF Authorize, TypeOK
  <2>8. CASE AuthReply(c)
    <3>1. op[c] = "opening" /\ op'[c] = "settled"
      BY <2>8, <2>1, GoesMoves DEF AuthReply
    <3>2. QED BY <2>8, <3>1, <2>3 DEF AuthReply
  <2>9. QED BY <1>5, <2>4, <2>5, <2>6, <2>7, <2>8
<1>6. ASSUME NEW k \in Call, Begin(k) \/ Serve(k) \/ Return(k) \/ CallReply(k)
      PROVE AuthOrder'
  <2>1. k \in Op /\ k \notin Conn BY PeerSessionAssumption DEF Op
  <2>2. \A d \in Conn : op'[d] = op[d]
    BY <1>6, <2>1, GoesMoves DEF Begin, Serve, Return, CallReply, Op
  <2>3. QED BY <1>6, <2>2 DEF Begin, Serve, Return, CallReply
<1>7. ASSUME NEW o \in Op, \/ Send(o) \/ Arrive(o) \/ HandleClientCall(o) \/ Throw(o)
                           \/ Reply(o) \/ Receive(o)
      PROVE AuthOrder'
  <2> USE DEF Op
  <2>1. UNCHANGED <<verdict, state, authed>>
    BY <1>7 DEF Send, Arrive, HandleClientCall, AuthorizeOperation, Throw, Reply, Receive
  <2>2. CASE Send(o)
    <3>1. op[o] = "sealing" /\ op'[o] \in {"sent", "dropped"}
      BY <2>2, GoesMoves DEF Send
    <3>2. QED BY <2>1, <2>2, <3>1, GoesMoves DEF Send
  <2>3. CASE Arrive(o)
    <3>1. op[o] = "sent" /\ op'[o] \in {"arrived", "dropped"}
      BY <2>3, GoesMoves DEF Arrive
    <3>2. QED BY <2>1, <2>3, <3>1, GoesMoves DEF Arrive
  <2>4. CASE HandleClientCall(o)
    <3>1. op[o] = "arrived" /\ op'[o] \in {"judged", "dropped"}
      BY <2>4, GoesMoves DEF HandleClientCall, AuthorizeOperation
    <3>2. QED BY <2>1, <2>4, <3>1, GoesMoves DEF HandleClientCall, AuthorizeOperation
  <2>5. CASE Throw(o)
    BY <2>1, <2>5, ThrowMoves DEF Throw
  <2>6. CASE Reply(o)
    <3>1. op[o] = "replying" /\ op'[o] \in {"answered", "dropped"}
      BY <2>6, GoesMoves DEF Reply
    <3>2. QED BY <2>1, <2>6, <3>1, GoesMoves DEF Reply
  <2>7. CASE Receive(o)
    <3>1. op[o] = "answered" /\ op'[o] = "opening"
      BY <2>7, GoesMoves DEF Receive
    <3>2. QED BY <2>1, <2>7, <3>1, GoesMoves DEF Receive
  <2>8. QED BY <1>7, <2>2, <2>3, <2>4, <2>5, <2>6, <2>7
<1>8. CASE UNCHANGED vars BY <1>8 DEF vars
<1>9. QED BY <1>1, <1>2, <1>3, <1>4, <1>5, <1>6, <1>7, <1>8 DEF Next, Progress, Op

\* A call passes handleClientCall on an AUTHED connection, and the verdict that
\* made it so is the last one.
LEMMA CallOrderNext == TypeOK /\ AuthOrder /\ CallOrder /\ [Next]_vars => CallOrder'
<1> SUFFICES ASSUME TypeOK, AuthOrder, CallOrder, [Next]_vars PROVE CallOrder'
  OBVIOUS
<1> USE DEF CallOrder, hostVars, clientVars, Stage
<1>0. \A k \in Call : k \in Op /\ k \notin Conn /\ Target[k] \in Conn
  BY PeerSessionAssumption DEF Op
<1>1. ASSUME NEW c \in Conn, Start(c) \/ Socket(c) \/ Break(c) PROVE CallOrder'
  BY <1>1 DEF Start, Socket, Accept, Refuse, Listen, ListenLate, Break
<1>2. ASSUME NEW c \in Conn, ClientStop(c) \/ ClientHears(c) PROVE CallOrder'
  <2>1. \A p \in Op : op'[p] = op[p] \/ op'[p] = "dropped"
    BY <1>2, ShutDrops DEF ClientStop, ClientHears, Shut
  <2>2. QED BY <1>0, <1>2, <2>1 DEF ClientStop, ClientHears
<1>3. ASSUME NEW c \in Conn, HostClose(c) \/ HostHears(c) PROVE CallOrder'
  <2>1. \A p \in Op : op'[p] = op[p] \/ op'[p] = "dropped"
    BY <1>3, ShutDrops DEF HostClose, HostHears, Shut
  <2>2. QED BY <1>0, <1>3, <2>1 DEF HostClose, HostHears
<1>4. ASSUME NEW c \in Conn, HandleClientConnection(c) \/ HandleAuthTimeout(c)
      PROVE CallOrder'
  BY <1>4 DEF HandleClientConnection, HandleAuthTimeout
<1>5. ASSUME NEW c \in Conn, Onopen(c) \/ Deny(c) \/ Allow(c) \/ Authorize(c) \/ AuthReply(c)
      PROVE CallOrder'
  <2>1. c \in Op BY DEF Op
  <2>2. \A k \in Call : op'[k] = op[k]
    BY <1>0, <1>5, <2>1, GoesMoves DEF Onopen, Deny, Allow, Authorize, AuthReply
  <2>3. CASE Deny(c) \/ Allow(c)
    <3>1. op[c] = "judged"
      BY <2>1, <2>3, GoesMoves DEF Deny, Allow
    <3>2. verdict[c] = "none"
      BY <3>1 DEF AuthOrder
    <3>3. served' = served /\ \A d \in Conn : d # c => verdict'[d] = verdict[d]
      BY <2>3 DEF Deny, Allow, TypeOK
    <3>4. QED BY <1>0, <2>2, <3>2, <3>3
  <2>4. CASE Onopen(c) \/ Authorize(c) \/ AuthReply(c)
    BY <1>0, <2>2, <2>4 DEF Onopen, Authorize, AuthReply
  <2>5. QED BY <1>5, <2>3, <2>4
<1>6. ASSUME NEW k \in Call, Begin(k) \/ Serve(k) \/ Return(k) \/ CallReply(k)
      PROVE CallOrder'
  <2>1. /\ op'[k] # "judged" /\ verdict' = verdict
        /\ \A j \in Call : j # k => op'[j] = op[j]
    BY <1>0, <1>6, GoesMoves DEF Begin, Serve, Return, CallReply
  <2>2. k \in served' => k \in served \/ op[k] = "judged"
    BY <1>0, <1>6, GoesMoves DEF Begin, Serve, Return, CallReply
  <2>3. \A j \in Call : j # k /\ j \in served' => j \in served
    BY <1>6 DEF Begin, Serve, Return, CallReply
  <2>4. QED BY <2>1, <2>2, <2>3
<1>7. ASSUME NEW o \in Op, \/ Send(o) \/ Arrive(o) \/ HandleClientCall(o) \/ Throw(o)
                           \/ Reply(o) \/ Receive(o)
      PROVE CallOrder'
  <2>1. UNCHANGED <<verdict, served>>
    BY <1>7 DEF Send, Arrive, HandleClientCall, AuthorizeOperation, Throw, Reply, Receive
  <2>2. CASE HandleClientCall(o)
    <3>1. \A p \in Op : p # o => op'[p] = op[p]
      BY <2>2, GoesMoves DEF HandleClientCall, AuthorizeOperation
    <3>2. CASE o \in Call
      <4>1. op'[o] = "judged" => state[Target[o]] = "AUTHED"
        BY <2>2, <3>2, <1>0, GoesMoves DEF HandleClientCall, AuthorizeOperation, ConnOf
      <4>2. op'[o] = "judged" => verdict[Target[o]] = "allow"
        BY <4>1, <3>2, <1>0 DEF AuthOrder
      <4>3. QED BY <1>0, <2>1, <3>1, <4>2
    <3>3. CASE o \notin Call
      BY <1>0, <2>1, <3>1, <3>3
    <3>4. QED BY <3>2, <3>3
  <2>3. CASE Throw(o)
    BY <1>0, <2>1, <2>3, ThrowMoves
  <2>4. CASE Send(o) \/ Arrive(o) \/ Reply(o) \/ Receive(o)
    <3>1. op'[o] # "judged" /\ \A p \in Op : p # o => op'[p] = op[p]
      BY <2>4, GoesMoves DEF Send, Arrive, Reply, Receive
    <3>2. QED BY <1>0, <2>1, <3>1
  <2>5. QED BY <1>7, <2>2, <2>3, <2>4
<1>8. CASE UNCHANGED vars BY <1>8 DEF vars
<1>9. QED BY <1>1, <1>2, <1>3, <1>4, <1>5, <1>6, <1>7, <1>8 DEF Next, Progress, Op

LEMMA InitIInv == Init => IInv
  BY PeerSessionAssumption
     DEF Init, IInv, TypeOK, Stage, Op, UnauthedIsTimed, AuthOrder, CallOrder

\* The inductive invariant of a connection holds in every state.
THEOREM PeerSessionInvariant == Spec => []IInv
<1>1. IInv /\ [Next]_vars => IInv'
  BY TypeNext, TimedNext, AuthOrderNext, CallOrderNext DEF IInv
<1>2. QED BY InitIInv, <1>1, PTL DEF Spec

\* An open connection that is not authed is on the auth timer or being closed.
THEOREM PeerSessionUnauthedIsTimed == Spec => []UnauthedIsTimed
<1>1. IInv => UnauthedIsTimed BY DEF IInv
<1>2. QED BY PeerSessionInvariant, <1>1, PTL

\* Endpoints run only for clients that the service allowed.
THEOREM PeerSessionServedWereAllowed == Spec => []ServedWereAllowed
<1>1. IInv => ServedWereAllowed
  BY DEF IInv, TypeOK, CallOrder, ServedWereAllowed
<1>2. QED BY PeerSessionInvariant, <1>1, PTL

\* A client that believes to be authed, and was not denied, meets a host that
\* is AUTHED.
THEOREM PeerSessionHandshakeAgrees == Spec => []HandshakeAgrees
<1>1. IInv => HandshakeAgrees
  BY DEF IInv, TypeOK, AuthOrder, HandshakeAgrees
<1>2. QED BY PeerSessionInvariant, <1>1, PTL

-----------------------------------------------------------------------------
(* The session keys: SessionKeys *)

\* An announcement that goes on to its actor has stored its session, which only
\* the clean-up takes away.
SessionIsStored ==
  \A r \in Request : In(r, "actor") \/ In(r, "creatingActor") =>
    Of(request[r].key) # {} \/ AnnoucementOf(r).expiry < now

\* What the clean-up looked up has expired, and stays so while it waits.
OnlyExpiredAreLookedUp ==
  \A d \in expired : Annoucement[d[1]].expiry < now

KeysIInv ==
  /\ KeysTypeOK
  /\ SessionIsStored
  /\ OnlyExpiredAreLookedUp
  /\ AnnouncedIsUsable

LEMMA InitKeysIInv == KeysInit => KeysIInv
  BY SessionKeysAssumption DEF KeysInit, KeysIInv, KeysTypeOK, RequestStage, SessionIsStored,
     OnlyExpiredAreLookedUp, AnnouncedIsUsable, In

\* A request that changes its stage keeps its key, and leaves the others alone.
LEMMA KeyGoesKeeps ==
  ASSUME KeysTypeOK, NEW r \in Request, NEW stage \in RequestStage, KeyGoes(r, stage)
  PROVE  /\ request' \in [Request -> [key : Key, stage : RequestStage]]
         /\ request'[r].key = request[r].key /\ request'[r].stage = stage
         /\ \A q \in Request : q # r => request'[q] = request[q]
  BY DEF KeysTypeOK, KeyGoes

\* A step of a request that stores nothing and is not the last of an
\* announcement keeps the invariant.
LEMMA RequestStep ==
  ASSUME KeysIInv, NEW r \in Request, NEW stage \in RequestStage, KeyGoes(r, stage),
         stage \notin {"actor", "creatingActor", "done"},
         UNCHANGED <<now, sessions, actors, cleanup, expired>>
  PROVE  KeysIInv'
<1>1. KeysTypeOK'
  BY KeyGoesKeeps DEF KeysIInv, KeysTypeOK
<1>2. SessionIsStored'
  BY KeyGoesKeeps DEF KeysIInv, SessionIsStored, In, Of, AnnoucementOf
<1>3. OnlyExpiredAreLookedUp'
  BY DEF KeysIInv, OnlyExpiredAreLookedUp
<1>4. AnnouncedIsUsable'
  BY KeyGoesKeeps DEF KeysIInv, AnnouncedIsUsable, In, Of, AnnoucementOf
<1>5. QED BY <1>1, <1>2, <1>3, <1>4 DEF KeysIInv

LEMMA ReceiveKeyKeeps ==
  ASSUME KeysIInv, NEW r \in Request, NEW k \in Key, ReceiveKey(r, k)
  PROVE  KeysIInv'
<1>1. PICK s \in {"verifying", "session"} : request' = [request EXCEPT ![r] = [key |-> k, stage |-> s]]
  BY DEF ReceiveKey
<1>2. /\ request' \in [Request -> [key : Key, stage : RequestStage]]
      /\ request'[r].stage = s
      /\ \A q \in Request : q # r => request'[q] = request[q]
  BY <1>1 DEF KeysIInv, KeysTypeOK, RequestStage
<1>3. UNCHANGED <<now, sessions, actors, cleanup, expired>>
  BY DEF ReceiveKey
<1>4. KeysTypeOK'
  BY <1>2, <1>3 DEF KeysIInv, KeysTypeOK
<1>5. SessionIsStored' /\ AnnouncedIsUsable'
  BY <1>2, <1>3 DEF KeysIInv, SessionIsStored, AnnouncedIsUsable, In, Of, AnnoucementOf
<1>6. OnlyExpiredAreLookedUp'
  BY <1>3 DEF KeysIInv, OnlyExpiredAreLookedUp
<1>7. QED BY <1>4, <1>5, <1>6 DEF KeysIInv

LEMMA CreateSessionKeeps ==
  ASSUME KeysIInv, NEW r \in Request, CreateSession(r)
  PROVE  KeysIInv'
<1>1. CASE Of(request[r].key) # {}
  <2>1. KeyGoes(r, "error") /\ UNCHANGED <<now, sessions, actors, cleanup, expired>>
    BY <1>1 DEF CreateSession
  <2>2. QED BY <2>1, RequestStep DEF RequestStage
<1>2. CASE Of(request[r].key) = {}
  <2>1. /\ KeyGoes(r, "actor") /\ sessions' = sessions \cup {<<request[r].key, r>>}
        /\ UNCHANGED <<now, actors, cleanup, expired>>
    BY <1>2 DEF CreateSession
  <2>2. /\ request' \in [Request -> [key : Key, stage : RequestStage]]
        /\ request'[r].key = request[r].key /\ request'[r].stage = "actor"
        /\ \A q \in Request : q # r => request'[q] = request[q]
    BY <2>1, KeyGoesKeeps DEF KeysIInv, RequestStage
  <2>3. KeysTypeOK'
    BY <2>1, <2>2 DEF KeysIInv, KeysTypeOK
  <2>4. Of(request[r].key)' # {} /\ \A k \in Key : Of(k) # {} => Of(k)' # {}
    <3>1. <<request[r].key, r>> \in sessions' /\ request'[r].key = request[r].key
      BY <2>1, <2>2
    <3>2. <<request[r].key, r>> \in Of(request[r].key)'
      BY <3>1 DEF Of
    <3>3. \A k \in Key : Of(k) \subseteq Of(k)'
      BY <2>1 DEF Of
    <3>4. QED BY <3>2, <3>3
  <2>5. ASSUME NEW q \in Request, q # r,
               Of(request[q].key) # {} \/ AnnoucementOf(q).expiry < now
        PROVE  Of(request[q].key)' # {} \/ AnnoucementOf(q)'.expiry < now'
    <3>1. request'[q] = request[q] /\ request[q].key \in Key /\ now' = now
      BY <2>1, <2>2, <2>5 DEF KeysIInv, KeysTypeOK
    <3>2. Of(request[q].key) # {} => Of(request[q].key)' # {}
      BY <2>4, <3>1 DEF Of
    <3>3. AnnoucementOf(q)' = AnnoucementOf(q)
      BY <3>1 DEF AnnoucementOf
    <3>4. QED BY <2>5, <3>1, <3>2, <3>3
  <2>6. SessionIsStored'
    BY <2>2, <2>4, <2>5 DEF KeysIInv, SessionIsStored, In
  <2>7. AnnouncedIsUsable'
    BY <2>1, <2>2, <2>5 DEF KeysIInv, AnnouncedIsUsable, In, AnnoucementOf
  <2>8. OnlyExpiredAreLookedUp'
    BY <2>1 DEF KeysIInv, OnlyExpiredAreLookedUp
  <2>9. QED BY <2>3, <2>6, <2>7, <2>8 DEF KeysIInv
<1>3. QED BY <1>1, <1>2

\* The actor of an announcement is found, or has to be created.
LEMMA FindActorKeeps ==
  ASSUME KeysIInv, NEW r \in Request, FindActor(r)
  PROVE  KeysIInv'
<1>1. PICK stage \in {"done", "creatingActor"} :
        KeyGoes(r, stage) /\ (stage = "done" => AnnoucementOf(r).actor \in actors)
  BY DEF FindActor
<1>2. UNCHANGED <<now, sessions, actors, cleanup, expired>> /\ In(r, "actor")
  BY DEF FindActor
<1>3. /\ request' \in [Request -> [key : Key, stage : RequestStage]]
      /\ request'[r].key = request[r].key /\ request'[r].stage = stage
      /\ \A q \in Request : q # r => request'[q] = request[q]
  BY <1>1, KeyGoesKeeps DEF KeysIInv, RequestStage
<1>4. KeysTypeOK'
  BY <1>2, <1>3 DEF KeysIInv, KeysTypeOK
<1>5. SessionIsStored' /\ AnnouncedIsUsable'
  BY <1>1, <1>2, <1>3 DEF KeysIInv, SessionIsStored, AnnouncedIsUsable, In, Of, AnnoucementOf
<1>6. OnlyExpiredAreLookedUp'
  BY <1>2 DEF KeysIInv, OnlyExpiredAreLookedUp
<1>7. QED BY <1>4, <1>5, <1>6 DEF KeysIInv

LEMMA CreateActorKeeps ==
  ASSUME KeysIInv, NEW r \in Request, CreateActor(r)
  PROVE  KeysIInv'
<1>1. CASE AnnoucementOf(r).actor \in actors
  <2>1. KeyGoes(r, "error") /\ UNCHANGED <<now, sessions, actors, cleanup, expired>>
    BY <1>1 DEF CreateActor
  <2>2. QED BY <2>1, RequestStep DEF RequestStage
<1>2. CASE AnnoucementOf(r).actor \notin actors
  <2>1. /\ KeyGoes(r, "done") /\ actors' = actors \cup {AnnoucementOf(r).actor}
        /\ In(r, "creatingActor") /\ UNCHANGED <<now, sessions, cleanup, expired>>
    BY <1>2 DEF CreateActor
  <2>2. /\ request' \in [Request -> [key : Key, stage : RequestStage]]
        /\ request'[r].key = request[r].key /\ request'[r].stage = "done"
        /\ \A q \in Request : q # r => request'[q] = request[q]
    BY <2>1, KeyGoesKeeps DEF KeysIInv, RequestStage
  <2>3. AnnoucementOf(r).actor \in Actor
    BY SessionKeysAssumption DEF KeysIInv, KeysTypeOK, AnnoucementOf
  <2>4. KeysTypeOK'
    BY <2>1, <2>2, <2>3 DEF KeysIInv, KeysTypeOK
  <2>5. SessionIsStored' /\ AnnouncedIsUsable'
    BY <2>1, <2>2 DEF KeysIInv, SessionIsStored, AnnouncedIsUsable, In, Of, AnnoucementOf
  <2>6. OnlyExpiredAreLookedUp'
    BY <2>1 DEF KeysIInv, OnlyExpiredAreLookedUp
  <2>7. QED BY <2>4, <2>5, <2>6 DEF KeysIInv
<1>3. QED BY <1>1, <1>2

\* Sessions go only after they have expired.
LEMMA RemoveKeeps ==
  ASSUME KeysIInv, Remove
  PROVE  KeysIInv'
<1>1. sessions' = sessions \ expired /\ expired' = {} /\ UNCHANGED <<now, request, actors>>
  BY DEF Remove
<1>2. ASSUME NEW r \in Request, Of(request[r].key) # {} \/ AnnoucementOf(r).expiry < now
      PROVE  Of(request[r].key)' # {} \/ AnnoucementOf(r).expiry < now
  BY <1>1, <1>2 DEF KeysIInv, OnlyExpiredAreLookedUp, Of, AnnoucementOf
<1>3. KeysTypeOK'
  BY <1>1 DEF Remove, KeysIInv, KeysTypeOK
<1>4. SessionIsStored' /\ AnnouncedIsUsable'
  BY <1>1, <1>2 DEF KeysIInv, SessionIsStored, AnnouncedIsUsable, In, AnnoucementOf, Of
<1>5. OnlyExpiredAreLookedUp'
  BY <1>1 DEF OnlyExpiredAreLookedUp
<1>6. QED BY <1>3, <1>4, <1>5 DEF KeysIInv

\* The other steps of the clean-up.
LEMMA CleanupKeeps ==
  ASSUME KeysIInv, OnTimeout \/ LookupSessions \/ CleanupFails \/ Stop
  PROVE  KeysIInv'
<1>1. UNCHANGED <<now, request, sessions, actors>>
  BY DEF OnTimeout, LookupSessions, CleanupFails, Stop
<1>2. KeysTypeOK' /\ OnlyExpiredAreLookedUp'
  BY <1>1 DEF KeysIInv, KeysTypeOK, OnlyExpiredAreLookedUp, OnTimeout, LookupSessions, CleanupFails, Stop
<1>3. SessionIsStored' /\ AnnouncedIsUsable'
  BY <1>1 DEF KeysIInv, SessionIsStored, AnnouncedIsUsable, In, AnnoucementOf, Of
<1>4. QED BY <1>2, <1>3 DEF KeysIInv

\* What has expired stays expired.
LEMMA TickKeeps ==
  ASSUME KeysIInv, Tick
  PROVE  KeysIInv'
<1>1. /\ UNCHANGED <<request, sessions, actors, cleanup, expired>>
      /\ now \in Nat /\ now' = now + 1 /\ now' \in 0 .. MaxTime
  BY SessionKeysAssumption DEF KeysIInv, KeysTypeOK, Tick
<1>2. \A k \in Key : Annoucement[k].expiry < now => Annoucement[k].expiry < now'
  BY <1>1, SessionKeysAssumption
<1>3. KeysTypeOK'
  BY <1>1 DEF KeysIInv, KeysTypeOK
<1>4. SessionIsStored' /\ AnnouncedIsUsable'
  BY <1>1, <1>2 DEF KeysIInv, KeysTypeOK, SessionIsStored, AnnouncedIsUsable, In, AnnoucementOf, Of
<1>5. OnlyExpiredAreLookedUp'
  BY <1>1, <1>2 DEF KeysIInv, KeysTypeOK, OnlyExpiredAreLookedUp
<1>6. QED BY <1>3, <1>4, <1>5 DEF KeysIInv

LEMMA NextKeysIInv == KeysIInv /\ [KeysNext]_keysVars => KeysIInv'
<1> SUFFICES ASSUME KeysIInv, [KeysNext]_keysVars PROVE KeysIInv'
  OBVIOUS
<1>1. CASE OnTimeout \/ LookupSessions \/ CleanupFails \/ Stop
  BY <1>1, CleanupKeeps
<1>2. CASE Remove
  BY <1>2, RemoveKeeps
<1>3. CASE Tick
  BY <1>3, TickKeeps
<1>4. ASSUME NEW r \in Request, NEW k \in Key, ReceiveKey(r, k)
      PROVE  KeysIInv'
  BY <1>4, ReceiveKeyKeeps
<1>5. ASSUME NEW r \in Request, Rejected(r) \/ CreateFails(r) \/ UseSession(r) \/ UseActor(r)
      PROVE  KeysIInv'
  <2>1. PICK stage \in {"refused", "error", "identity", "served"} : KeyGoes(r, stage)
    BY <1>5 DEF Rejected, CreateFails, UseSession, UseActor
  <2>2. UNCHANGED <<now, sessions, actors, cleanup, expired>>
    BY <1>5 DEF Rejected, CreateFails, UseSession, UseActor
  <2>3. QED BY <2>1, <2>2, RequestStep DEF RequestStage
<1>6. ASSUME NEW r \in Request, FindSession(r)
      PROVE  KeysIInv'
  <2>1. PICK stage \in {"refused", "creating"} : KeyGoes(r, stage)
    BY <1>6 DEF FindSession
  <2>2. UNCHANGED <<now, sessions, actors, cleanup, expired>>
    BY <1>6 DEF FindSession
  <2>3. QED BY <2>1, <2>2, RequestStep DEF RequestStage
<1>7. ASSUME NEW r \in Request, CreateSession(r) \/ FindActor(r) \/ CreateActor(r)
      PROVE  KeysIInv'
  BY <1>7, CreateSessionKeeps, FindActorKeeps, CreateActorKeeps
<1>8. CASE UNCHANGED keysVars
  BY <1>8 DEF keysVars, KeysIInv, KeysTypeOK, SessionIsStored, OnlyExpiredAreLookedUp, AnnouncedIsUsable,
     In, Of, AnnoucementOf
<1>9. QED BY <1>1, <1>2, <1>3, <1>4, <1>5, <1>6, <1>7, <1>8 DEF KeysNext

\* The inductive invariant of key/announce, the middleware and the clean-up task
\* holds in every state, for all announcements and any bound on the clock.
THEOREM SessionKeysInvariant == KeysSpec => []KeysIInv
  BY InitKeysIInv, NextKeysIInv, PTL DEF KeysSpec

\* Every variable keeps its type (key-announce.js, ephemeral-session.js,
\* cleanup-ephemeral-sessions.js).
THEOREM SessionKeysTypeOK == KeysSpec => []KeysTypeOK
<1>1. KeysIInv => KeysTypeOK BY DEF KeysIInv
<1>2. QED BY <1>1, SessionKeysInvariant, PTL

\* A session announced with success is usable, with its actor, until it expires
\* (key-announce.js:142-211, cleanup-ephemeral-sessions.js:56-61).
THEOREM SessionKeysAnnouncedIsUsable == KeysSpec => []AnnouncedIsUsable
<1>1. KeysIInv => AnnouncedIsUsable BY DEF KeysIInv
<1>2. QED BY <1>1, SessionKeysInvariant, PTL
=============================================================================

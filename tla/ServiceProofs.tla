---------------------------- MODULE ServiceProofs ----------------------------
(* A service and the host it is reached through.  A ServiceHost that stopped is
   gone, and its watchdog ends only connections that owe a pong, for any number
   of peers, stops and restart timers.  A ServiceRunner routes only what was
   loaded, for any endpoints, pipelines, calls of start and requests. *)

EXTENDS ServiceHost, ServiceRunner, TLAPS

-----------------------------------------------------------------------------
(* The host *)

\* A host listens once in its life; until then no stop has anything to close.
\* What a stop has closed stays closed.
ListensOnce ==
  /\ ~started => apiServer = "none" /\ \A s \in StopCall : stopping[s] \notin {"closing", "closed"}
  /\ \A s \in StopCall : /\ stopping[s] = "closing" => apiServer \in {"closing", "none"}
                         /\ stopping[s] = "closed" => apiServer = "none"

\* The service is published only while the server listens.
PublishedIsListening == mdns => apiServer = "listening"

\* No forward that a stop could see is open after it.
ForwardIsClosed == Stopped => i2p # "open"

\* Connections are open only while there is a server to wait for them.
OpenHasServer ==
  \A c \in Conn : Open(c) => apiServer \in {"listening", "closing"}

\* A connection that was not heard of since the last tick owes a pong.
SilentOwesPong ==
  \A c \in Conn : Open(c) /\ ~conn[c].isAlive => c \in pinged

IInv ==
  /\ TypeOK
  /\ ListensOnce
  /\ PublishedIsListening
  /\ ForwardIsClosed
  /\ OpenHasServer
  /\ SilentOwesPong
  /\ TerminatedOwesPong

HostInv == TypeOK /\ ListensOnce /\ PublishedIsListening /\ ForwardIsClosed

LEMMA InitIInv == Init => IInv
<1> SUFFICES ASSUME Init PROVE IInv
  OBVIOUS
<1>1. TypeOK
  <2>1. orphans \in 0 .. MaxTimer
    BY ServiceHostAssumption DEF Init
  <2>2. conn \in [Conn -> [stage : {"new", "open", "ended", "terminated"},
                         isAlive : BOOLEAN, answers : BOOLEAN]]
    BY DEF Init
  <2>3. stopping \in [StopCall -> {"idle", "mdns", "closing", "closed", "nothing", "failed"}]
    BY DEF Init
  <2>4. QED BY <2>1, <2>2, <2>3 DEF Init, TypeOK
<1>2. ListensOnce /\ PublishedIsListening /\ ForwardIsClosed
  BY DEF Init, ListensOnce, PublishedIsListening, ForwardIsClosed, Stopped
<1>3. OpenHasServer /\ SilentOwesPong /\ TerminatedOwesPong
  BY DEF Init, OpenHasServer, SilentOwesPong, TerminatedOwesPong, Open
<1>4. QED BY <1>1, <1>2, <1>3 DEF IInv

\* What a step that leaves the connections alone has to show.
LEMMA HostStep ==
  ASSUME IInv, UNCHANGED connVars, HostInv',
         apiServer \in {"listening", "closing"} =>
           apiServer' \in {"listening", "closing"} \/ \A c \in Conn : ~Open(c)
  PROVE  IInv'
<1>1. OpenHasServer'
  BY DEF IInv, OpenHasServer, Open, connVars
<1>2. SilentOwesPong' /\ TerminatedOwesPong'
  BY DEF IInv, SilentOwesPong, TerminatedOwesPong, Open, connVars
<1>3. QED BY <1>1, <1>2 DEF IInv, HostInv

\* A stop by whoever called it.
LEMMA DoStopKeeps ==
  ASSUME IInv, NEW s \in StopCall, NEW armed \in BOOLEAN, DoStop(s, armed),
         orphans' \in 0 .. MaxTimer, UNCHANGED connVars
  PROVE  IInv'
<1>1. TypeOK'
  BY DEF IInv, TypeOK, DoStop, connVars
<1>2. ListensOnce' /\ PublishedIsListening'
  BY DEF DoStop, IInv, TypeOK, ListensOnce, PublishedIsListening
<1>3. ForwardIsClosed'
  BY DEF DoStop, IInv, TypeOK, ForwardIsClosed, Stopped
<1>4. apiServer \in {"listening", "closing"} => apiServer' \in {"listening", "closing"}
  BY DEF DoStop
<1>5. QED BY <1>1, <1>2, <1>3, <1>4, HostStep DEF HostInv

\* The steps of start.
LEMMA StartKeeps ==
  ASSUME IInv, Start \/ Listening \/ ListenFails \/ I2pOpens
  PROVE  IInv'
<1>1. UNCHANGED connVars
  BY DEF Start, Listening, ListenFails, I2pOpens
<1>2. apiServer \in {"listening", "closing"} => apiServer' = apiServer
  BY DEF Start, Listening, ListenFails, I2pOpens, IInv, ListensOnce
<1>3. TypeOK'
  BY DEF Start, Listening, ListenFails, I2pOpens, IInv, TypeOK, connVars
<1>4. ListensOnce' /\ PublishedIsListening'
  BY DEF Start, Listening, ListenFails, I2pOpens, IInv, TypeOK, ListensOnce, PublishedIsListening
<1>5. ForwardIsClosed'
  BY DEF Start, Listening, ListenFails, I2pOpens, IInv, TypeOK, ForwardIsClosed, Stopped
<1>6. QED BY <1>1, <1>2, <1>3, <1>4, <1>5, HostStep DEF HostInv

\* The steps of a stop after its first await.
LEMMA StopGoesOn ==
  ASSUME IInv, NEW s \in StopCall, Unpublished(s) \/ Closed(s)
  PROVE  IInv'
<1>1. UNCHANGED connVars
  BY DEF Unpublished, Closed
<1>2. apiServer \in {"listening", "closing"} =>
        apiServer' \in {"listening", "closing"} \/ \A c \in Conn : ~Open(c)
  BY DEF Unpublished, Closed
<1>3. TypeOK'
  BY DEF Unpublished, Closed, IInv, TypeOK, connVars
<1>4. ForwardIsClosed'
  BY DEF Unpublished, Closed, IInv, TypeOK, ForwardIsClosed, Stopped
<1>5. CASE Unpublished(s)
  <2>1. ListensOnce' /\ PublishedIsListening'
    BY <1>5 DEF Unpublished, IInv, TypeOK, ListensOnce, PublishedIsListening
  <2>2. QED BY <1>1, <1>2, <1>3, <1>4, <2>1, HostStep DEF HostInv
<1>6. CASE Closed(s)
  <2>1. ListensOnce' /\ PublishedIsListening'
    BY <1>6 DEF Closed, IInv, TypeOK, ListensOnce, PublishedIsListening
  <2>2. QED BY <1>1, <1>2, <1>3, <1>4, <2>1, HostStep DEF HostInv
<1>7. QED BY <1>5, <1>6

\* A timer that fires is one of those that were armed.
LEMMA FiresType ==
  ASSUME TypeOK, NEW orphan \in BOOLEAN, Fires(orphan)
  PROVE  orphans' \in 0 .. MaxTimer
  BY ServiceHostAssumption DEF TypeOK, Fires

\* Server errors, and the timers they arm.
LEMMA ErrorsKeep ==
  ASSUME IInv, HandleServerError \/ \E orphan \in BOOLEAN : TimerFiresLate(orphan)
  PROVE  IInv'
<1>1. UNCHANGED <<started, apiServer, stopping, mdns, i2p, connVars>>
  BY DEF HandleServerError, TimerFiresLate
<1>2. timer' \in BOOLEAN /\ orphans' \in 0 .. MaxTimer
  <2>1. CASE HandleServerError
    <3>1. timer' = TRUE /\ orphans < MaxTimer
      BY <2>1 DEF HandleServerError
    <3>2. orphans \in 0 .. MaxTimer
      BY DEF IInv, TypeOK
    <3>3. orphans' = orphans + 1 \/ orphans' = orphans + 0
      BY <2>1 DEF HandleServerError
    <3>4. QED BY <3>1, <3>2, <3>3, ServiceHostAssumption
  <2>2. ASSUME NEW orphan \in BOOLEAN, TimerFiresLate(orphan)
        PROVE  timer' \in BOOLEAN /\ orphans' \in 0 .. MaxTimer
    <3>1. Fires(orphan)
      BY <2>2 DEF TimerFiresLate
    <3>2. orphans' \in 0 .. MaxTimer
      BY <3>1, FiresType DEF IInv
    <3>3. timer' \in BOOLEAN
      BY <2>2 DEF TimerFiresLate
    <3>4. QED BY <3>2, <3>3
  <2>3. QED BY <2>1, <2>2
<1>3. HostInv'
  BY <1>1, <1>2 DEF HostInv, IInv, TypeOK, ListensOnce, PublishedIsListening, ForwardIsClosed,
     Stopped, connVars
<1>4. QED BY <1>1, <1>3, HostStep

\* A connection begins, answers, falls silent or ends.
LEMMA ConnStep ==
  ASSUME IInv, NEW c \in Conn, Connect(c) \/ Pong(c) \/ Vanish(c) \/ EndConn(c)
  PROVE  IInv'
<1>1. UNCHANGED hostVars
  BY DEF Connect, Pong, Vanish, EndConn
<1>2. TypeOK'
  <2>1. \E x \in [stage : {"new", "open", "ended", "terminated"}, isAlive : BOOLEAN, answers : BOOLEAN] :
          conn' = [conn EXCEPT ![c] = x]
    <3>1. conn[c] \in [stage : {"new", "open", "ended", "terminated"}, isAlive : BOOLEAN, answers : BOOLEAN]
      BY DEF IInv, TypeOK
    <3>2. CASE Connect(c)
      BY <3>1, <3>2 DEF Connect, IInv, TypeOK
    <3>3. CASE Pong(c)
      BY <3>1, <3>3 DEF Pong, IInv, TypeOK
    <3>4. CASE Vanish(c)
      BY <3>1, <3>4 DEF Vanish, IInv, TypeOK
    <3>5. CASE EndConn(c)
      BY <3>1, <3>5 DEF EndConn, IInv, TypeOK
    <3>6. QED BY <3>2, <3>3, <3>4, <3>5
  <2>2. conn' \in [Conn -> [stage : {"new", "open", "ended", "terminated"},
                          isAlive : BOOLEAN, answers : BOOLEAN]]
    BY <2>1 DEF IInv, TypeOK
  <2>3. pinged' \subseteq Conn
    BY DEF Connect, Pong, Vanish, EndConn, IInv, TypeOK
  <2>4. QED BY <1>1, <2>2, <2>3 DEF IInv, TypeOK, hostVars
<1>3. ListensOnce' /\ PublishedIsListening' /\ ForwardIsClosed'
  BY <1>1 DEF IInv, ListensOnce, PublishedIsListening, ForwardIsClosed, Stopped, hostVars
<1>4. OpenHasServer'
  BY <1>1 DEF Connect, Pong, Vanish, EndConn, IInv, TypeOK, OpenHasServer, Open, hostVars
<1>5. SilentOwesPong' /\ TerminatedOwesPong'
  BY DEF Connect, Pong, Vanish, EndConn, IInv, TypeOK, SilentOwesPong, TerminatedOwesPong, Open
<1>6. QED BY <1>2, <1>3, <1>4, <1>5 DEF IInv

\* A tick of the watchdog: who is terminated was silent, who is silent from now
\* on was pinged.
LEMMA CheckClientsKeeps ==
  ASSUME IInv, CheckClients
  PROVE  IInv'
<1> DEFINE silent == {c \in Conn : Open(c) /\ ~conn[c].isAlive}
<1>1. /\ conn' = [c \in Conn |-> IF c \in silent THEN [conn[c] EXCEPT !.stage = "terminated"]
                                 ELSE [conn[c] EXCEPT !.isAlive = FALSE]]
      /\ pinged' = pinged \cup {c \in Conn : Open(c) /\ c \notin silent}
      /\ UNCHANGED hostVars
  BY DEF CheckClients
<1>2. \A c \in Conn : /\ c \in silent => conn'[c].stage = "terminated"
                      /\ c \notin silent => conn'[c].stage = conn[c].stage
  BY <1>1 DEF IInv, TypeOK
<1>3. TypeOK'
  BY <1>1 DEF IInv, TypeOK, hostVars
<1>4. ListensOnce' /\ PublishedIsListening' /\ ForwardIsClosed'
  BY <1>1 DEF IInv, ListensOnce, PublishedIsListening, ForwardIsClosed, Stopped, hostVars
<1>5. OpenHasServer'
  BY <1>1, <1>2 DEF IInv, OpenHasServer, Open, hostVars
<1>6. SilentOwesPong' /\ TerminatedOwesPong'
  BY <1>1, <1>2 DEF IInv, SilentOwesPong, TerminatedOwesPong, Open
<1>7. QED BY <1>3, <1>4, <1>5, <1>6 DEF IInv

LEMMA NextIInv == IInv /\ [Next]_vars => IInv'
<1> SUFFICES ASSUME IInv, [Next]_vars PROVE IInv'
  OBVIOUS
<1>1. CASE Start \/ Listening \/ ListenFails \/ I2pOpens
  BY <1>1, StartKeeps
<1>2. ASSUME NEW s \in StopCall, Stop(s)
      PROVE  IInv'
  BY <1>2, DoStopKeeps DEF Stop, IInv, TypeOK
<1>3. ASSUME NEW s \in StopCall, Unpublished(s) \/ Closed(s)
      PROVE  IInv'
  BY <1>3, StopGoesOn
<1>4. CASE HandleServerError \/ \E orphan \in BOOLEAN : TimerFiresLate(orphan)
  BY <1>4, ErrorsKeep
<1>5. ASSUME NEW orphan \in BOOLEAN, NEW s \in StopCall, TimerFires(s, orphan)
      PROVE  IInv'
  BY <1>5, DoStopKeeps, FiresType DEF TimerFires, IInv, TypeOK
<1>6. ASSUME NEW c \in Conn, Connect(c) \/ Pong(c) \/ Vanish(c) \/ EndConn(c)
      PROVE  IInv'
  BY <1>6, ConnStep
<1>7. CASE CheckClients
  BY <1>7, CheckClientsKeeps
<1>8. CASE UNCHANGED vars
  BY <1>8 DEF vars, hostVars, connVars, IInv, TypeOK, ListensOnce, PublishedIsListening, ForwardIsClosed,
     Stopped, OpenHasServer, SilentOwesPong, TerminatedOwesPong, Open
<1>9. QED BY <1>1, <1>2, <1>3, <1>4, <1>5, <1>6, <1>7, <1>8 DEF Next

\* The inductive invariant of ServiceHost and its websockets holds in every
\* state, for any number of peers, stops and timers.
THEOREM ServiceHostInvariant == Spec => []IInv
  BY InitIInv, NextIInv, PTL DEF Spec

\* Every variable keeps its type (service-host.js, service-host-websocket.js).
THEOREM ServiceHostTypeOK == Spec => []TypeOK
<1>1. IInv => TypeOK BY DEF IInv
<1>2. QED BY <1>1, ServiceHostInvariant, PTL

\* A host that took its server down has none again, whatever timers, stops and
\* starts follow; it has no peer left, publishes nothing and has closed the I2P
\* forward that was there (service-host.js:345-401).
THEOREM ServiceHostStoppedIsGone == Spec => []StoppedIsGone
<1>1. IInv => StoppedIsGone
  BY DEF IInv, ListensOnce, PublishedIsListening, ForwardIsClosed, Stopped, OpenHasServer, StoppedIsGone
<1>2. QED BY <1>1, ServiceHostInvariant, PTL

\* The watchdog ends only connections it has pinged and whose peers owe the pong
\* (service-host-websocket.js:131-142).
THEOREM ServiceHostTerminatedOwesPong == Spec => []TerminatedOwesPong
<1>1. IInv => TerminatedOwesPong BY DEF IInv
<1>2. QED BY <1>1, ServiceHostInvariant, PTL
-----------------------------------------------------------------------------
(* The runner *)

\* An endpoint is being loaded; Head(todo) is the one.
InEndpoint == {"endpoint info", "middleware", "middleware info", "mounting", "starting"}

IsLoading(l) == loader[l].stage \notin {"idle", "loaded", "early", "failed"}

\* The middleware of the endpoint that is being loaded is there, or still to be
\* loaded before the endpoint is started.
InOrder(l) ==
  /\ loader[l].stage \in InEndpoint =>
       /\ loader[l].todo # <<>>
       /\ LET e == Head(loader[l].todo) IN
            Range(Pre[e] \o Post[e]) \subseteq middleware \cup Range(loader[l].mid)
  /\ loader[l].stage \in {"middleware info", "mounting"} => loader[l].mid # <<>>
  /\ loader[l].stage = "starting" => loader[l].mid = <<>>

\* The endpoint that is being loaded is not there yet.
Fresh(l) == loader[l].stage \in InEndpoint => Head(loader[l].todo) \notin endpoint

\* Until a stop interrupts a load, one call loads at a time, and holds started.
OneLoads ==
  ~interrupted =>
    \A l \in Call : /\ IsLoading(l) => runnerStarted /\ \A k \in Call : IsLoading(k) => k = l
                    /\ Fresh(l)

RunnerInv ==
  /\ RunnerTypeOK
  /\ \A l \in Call : InOrder(l)
  /\ OneLoads
  /\ RoutedIsReady
  /\ LoadedOnce

\* A sequence that is not empty is its head and its tail.
LEMMA HeadAndTail ==
  ASSUME NEW S, NEW s \in Seq(S), s # <<>>
  PROVE  /\ Head(s) \in S /\ Tail(s) \in Seq(S)
         /\ Range(s) = {Head(s)} \cup Range(Tail(s))
<1>1. Head(s) \in S /\ Tail(s) \in Seq(S) /\ Len(s) \in Nat \ {0}
  OBVIOUS
<1>2. /\ DOMAIN s = 1 .. Len(s) /\ DOMAIN Tail(s) = 1 .. Len(s) - 1
      /\ Head(s) = s[1] /\ \A i \in 1 .. Len(s) - 1 : Tail(s)[i] = s[i + 1]
  BY <1>1
<1>3. Range(s) \subseteq {Head(s)} \cup Range(Tail(s))
  <2> SUFFICES ASSUME NEW i \in 1 .. Len(s), i # 1
               PROVE  s[i] \in Range(Tail(s))
    BY <1>2 DEF Range
  <2>1. i - 1 \in DOMAIN Tail(s) /\ Tail(s)[i - 1] = s[i]
    BY <1>1, <1>2
  <2>2. QED BY <2>1 DEF Range
<1>4. {Head(s)} \cup Range(Tail(s)) \subseteq Range(s)
  <2>1. Head(s) \in Range(s)
    BY <1>1, <1>2 DEF Range
  <2>2. ASSUME NEW i \in 1 .. Len(s) - 1
        PROVE  Tail(s)[i] \in Range(s)
    BY <1>1, <1>2, i + 1 \in 1 .. Len(s) DEF Range
  <2>3. QED BY <1>2, <2>1, <2>2 DEF Range
<1>5. QED BY <1>1, <1>3, <1>4

RequestRecord ==
  [stage : RequestStage, rest : Seq(Middleware \cup {"run"}), awaited : BOOLEAN]

LEMMA InitRunnerInv ==
  ASSUME RunnerInit
  PROVE  RunnerInv
<1>1. /\ loader \in [Call -> [stage : LoaderStage, todo : Seq(Endpoint),
                              mid : Seq(Middleware)]]
      /\ \A l \in Call : loader[l].stage = "idle"
  BY ServiceRunnerAssumption DEF RunnerInit, LoaderStage
<1>2. RunnerTypeOK
  <2>1. routes \in [Endpoint -> Nat]
    BY DEF RunnerInit
  <2>2. request \in [Request -> RequestRecord]
    BY DEF RunnerInit, RequestRecord, RequestStage
  <2>3. QED BY <1>1, <2>1, <2>2 DEF RunnerInit, RunnerTypeOK, RequestRecord
<1>3. (\A l \in Call : InOrder(l)) /\ OneLoads
  BY <1>1 DEF InOrder, OneLoads, Fresh, IsLoading, InEndpoint
<1>4. RoutedIsReady /\ LoadedOnce
  BY DEF RunnerInit, RoutedIsReady, LoadedOnce
<1>5. QED BY <1>2, <1>3, <1>4 DEF RunnerInv

\* What a step shows of the call that is loading, when it routes nothing.
LEMMA LoaderStep ==
  ASSUME RunnerInv, NEW l \in Call, IsLoading(l), RunnerTypeOK',
         \A k \in Call \ {l} : loader'[k] = loader[k],
         middleware \subseteq middleware', endpoint' = endpoint, routes' = routes,
         runnerStarted' = runnerStarted, interrupted' = interrupted,
         InOrder(l)', Fresh(l) => Fresh(l)'
  PROVE  RunnerInv'
<1>1. ASSUME NEW k \in Call
      PROVE  InOrder(k)'
  <2>1. CASE k = l
    BY <2>1
  <2>2. CASE k # l
    BY <2>2 DEF RunnerInv, InOrder
  <2>3. QED BY <2>1, <2>2
<1>2. OneLoads'
  BY DEF RunnerInv, OneLoads, Fresh, IsLoading
<1>3. RoutedIsReady' /\ LoadedOnce'
  BY DEF RunnerInv, RoutedIsReady, LoadedOnce
<1>4. QED BY <1>1, <1>2, <1>3 DEF RunnerInv

\* A step that leaves everything alone that is loaded.
LEMMA NothingLoaded ==
  ASSUME RunnerInv, RunnerTypeOK',
         UNCHANGED <<runnerStarted, middleware, endpoint, routes, loader, interrupted>>
  PROVE  RunnerInv'
  BY DEF RunnerInv, InOrder, OneLoads, Fresh, IsLoading, RoutedIsReady, LoadedOnce

\* A call that changes its stage only.
LEMMA GoesType ==
  ASSUME RunnerTypeOK, NEW l \in Call, NEW at \in LoaderStage, Goes(l, at)
  PROVE  /\ loader' \in [Call -> [stage : LoaderStage, todo : Seq(Endpoint),
                                  mid : Seq(Middleware)]]
         /\ loader'[l].stage = at /\ loader'[l].todo = loader[l].todo /\ loader'[l].mid = loader[l].mid
         /\ \A k \in Call \ {l} : loader'[k] = loader[k]
  BY DEF RunnerTypeOK, Goes

\* A call of start: it loads if no other call is.
LEMMA StartKeepsRunner ==
  ASSUME RunnerInv, NEW l \in Call, StartNode(l) \/ StartSandboxed(l)
  PROVE  RunnerInv'
<1>1. PICK at \in {"early", "tasks", "next"} :
        Goes(l, at) /\ (runnerStarted => at = "early")
  BY DEF StartNode, StartSandboxed
<1>2. /\ loader' \in [Call -> [stage : LoaderStage, todo : Seq(Endpoint),
                               mid : Seq(Middleware)]]
      /\ loader'[l].stage = at /\ loader'[l].todo = loader[l].todo /\ loader'[l].mid = loader[l].mid
      /\ \A k \in Call \ {l} : loader'[k] = loader[k]
  BY <1>1, GoesType DEF RunnerInv, LoaderStage
<1>3. /\ loader[l].stage = "idle" /\ runnerStarted' = TRUE
      /\ UNCHANGED <<sandboxed, tasks, running, middleware, endpoint, routes, topics, request,
                     interrupted>>
  BY DEF StartNode, StartSandboxed, At
<1>4. RunnerTypeOK'
  BY <1>2, <1>3 DEF RunnerInv, RunnerTypeOK
<1>5. ASSUME NEW k \in Call
      PROVE  InOrder(k)' /\ (Fresh(k) => Fresh(k)')
  <2>1. CASE k = l
    <3>1. loader'[l].stage \notin InEndpoint
      BY <1>2 DEF InEndpoint
    <3>2. QED BY <2>1, <3>1 DEF InOrder, Fresh, InEndpoint
  <2>2. CASE k # l
    BY <1>2, <1>3, <2>2 DEF RunnerInv, InOrder, Fresh
  <2>3. QED BY <2>1, <2>2
<1>6. OneLoads'
  <2>1. CASE runnerStarted
    <3>1. \A k \in Call : IsLoading(k)' => IsLoading(k)
      BY <1>1, <1>2, <2>1 DEF IsLoading
    <3>2. QED BY <1>3, <1>5, <3>1 DEF RunnerInv, OneLoads
  <2>2. CASE ~runnerStarted
    <3>1. ~interrupted => \A k \in Call : IsLoading(k)' => k = l
      BY <1>2, <2>2 DEF RunnerInv, OneLoads, IsLoading
    <3>2. QED BY <1>3, <1>5, <3>1 DEF RunnerInv, OneLoads
  <2>3. QED BY <2>1, <2>2
<1>7. RoutedIsReady' /\ LoadedOnce'
  BY <1>3 DEF RunnerInv, RoutedIsReady, LoadedOnce
<1>8. QED BY <1>4, <1>5, <1>6, <1>7 DEF RunnerInv

\* A call that goes on to a stage outside the loading of an endpoint.
LEMMA LeavesEndpoint ==
  ASSUME RunnerInv, NEW l \in Call, IsLoading(l),
         NEW at \in LoaderStage \ InEndpoint, Goes(l, at),
         tasks' \subseteq Task, running' \subseteq Task, topics' \subseteq Topic,
         UNCHANGED <<sandboxed, runnerStarted, middleware, endpoint, routes, request, interrupted>>
  PROVE  RunnerInv'
<1>1. /\ loader' \in [Call -> [stage : LoaderStage, todo : Seq(Endpoint),
                               mid : Seq(Middleware)]]
      /\ loader'[l].stage = at
      /\ \A k \in Call \ {l} : loader'[k] = loader[k]
  <2>1. RunnerTypeOK /\ at \in LoaderStage
    BY DEF RunnerInv
  <2>2. QED BY <2>1, GoesType
<1>2. RunnerTypeOK'
  BY <1>1 DEF RunnerInv, RunnerTypeOK
<1>3. InOrder(l)' /\ Fresh(l)'
  BY <1>1 DEF InOrder, Fresh, InEndpoint
<1>4. QED BY <1>1, <1>2, <1>3, LoaderStep

\* The tasks, the topics, the end of a load and its failure.
LEMMA LoadKeeps ==
  ASSUME RunnerInv, NEW l \in Call,
         \/ LoadTasks(l) \/ LoadTopics(l) \/ Loaded(l) \/ LoadFails(l)
  PROVE  RunnerInv'
<1>1. IsLoading(l)
  BY DEF IsLoading, LoadTasks, LoadTopics, Loaded, LoadFails, At
<1>2. PICK at \in {"next", "loaded", "failed"} : Goes(l, at)
  BY DEF LoadTasks, LoadTopics, Loaded, LoadFails
<1>3. /\ tasks' \subseteq Task /\ running' \subseteq Task /\ topics' \subseteq Topic
      /\ UNCHANGED <<sandboxed, runnerStarted, middleware, endpoint, routes, request, interrupted>>
  BY DEF RunnerInv, RunnerTypeOK, LoadTasks, LoadTopics, Loaded,
     LoadFails
<1>4. at \in LoaderStage \ InEndpoint
  BY DEF LoaderStage, InEndpoint
<1>5. QED BY <1>1, <1>2, <1>3, <1>4, LeavesEndpoint

\* An endpoint begins with all its middleware to load.
LEMMA LoadEndpointKeeps ==
  ASSUME RunnerInv, NEW l \in Call, LoadEndpoint(l)
  PROVE  RunnerInv'
<1> DEFINE e == Head(loader[l].todo)
<1>1. /\ loader[l].stage = "next" /\ loader[l].todo # <<>>
      /\ loader[l] \in [stage : LoaderStage, todo : Seq(Endpoint),
                        mid : Seq(Middleware)]
      /\ UNCHANGED <<sandboxed, runnerStarted, tasks, running, middleware, endpoint, routes, topics,
                     request, interrupted>>
  BY DEF RunnerInv, RunnerTypeOK, LoadEndpoint, At
<1>2. /\ e \in Endpoint /\ Tail(loader[l].todo) \in Seq(Endpoint)
      /\ Pre[e] \o Post[e] \in Seq(Middleware)
  BY <1>1, HeadAndTail, ServiceRunnerAssumption
<1>3. PICK new \in [stage : LoaderStage, todo : Seq(Endpoint),
                    mid : Seq(Middleware)] :
        /\ loader' = [loader EXCEPT ![l] = new]
        /\ \/ e \in endpoint /\ new.stage = "next"
           \/ /\ e \notin endpoint /\ new.stage \in {"endpoint info", "middleware"}
              /\ new.todo = loader[l].todo /\ new.mid = Pre[e] \o Post[e]
  <2>1. CASE e \in endpoint
    <3>1. loader' = [loader EXCEPT ![l] = [loader[l] EXCEPT !.todo = Tail(loader[l].todo)]]
      BY <2>1 DEF LoadEndpoint
    <3>2. [loader[l] EXCEPT !.todo = Tail(loader[l].todo)]
            \in [stage : LoaderStage, todo : Seq(Endpoint), mid : Seq(Middleware)]
      BY <1>1, <1>2
    <3>3. [loader[l] EXCEPT !.todo = Tail(loader[l].todo)].stage = "next"
      BY <1>1
    <3>4. QED BY <2>1, <3>1, <3>2, <3>3
  <2>2. CASE e \notin endpoint
    <3> DEFINE at == IF sandboxed THEN "endpoint info" ELSE "middleware"
               new == [loader[l] EXCEPT !.stage = at, !.mid = Pre[e] \o Post[e]]
    <3>1. loader' = [loader EXCEPT ![l] = new]
      BY <2>2 DEF LoadEndpoint, LoadsCode
    <3>2. at \in {"endpoint info", "middleware"}
      OBVIOUS
    <3>3. /\ new \in [stage : LoaderStage, todo : Seq(Endpoint), mid : Seq(Middleware)]
          /\ new.stage = at /\ new.todo = loader[l].todo /\ new.mid = Pre[e] \o Post[e]
      BY <1>1, <1>2, <3>2 DEF LoaderStage
    <3>4. QED BY <2>2, <3>1, <3>2, <3>3
  <2>3. QED BY <2>1, <2>2
<1>4. /\ loader' \in [Call -> [stage : LoaderStage, todo : Seq(Endpoint),
                               mid : Seq(Middleware)]]
      /\ loader'[l] = new /\ \A k \in Call \ {l} : loader'[k] = loader[k]
  BY <1>3 DEF RunnerInv, RunnerTypeOK
<1>5. RunnerTypeOK'
  BY <1>1, <1>4 DEF RunnerInv, RunnerTypeOK
<1>6. InOrder(l)'
  BY <1>1, <1>3, <1>4 DEF InOrder, InEndpoint
<1>7. Fresh(l)'
  BY <1>1, <1>3, <1>4 DEF Fresh, InEndpoint
<1>8. IsLoading(l)
  BY <1>1 DEF IsLoading
<1>9. QED BY <1>1, <1>4, <1>5, <1>6, <1>7, <1>8, LoaderStep

\* A middleware that is there is passed over, another one is started.
LEMMA LoadMiddlewareKeeps ==
  ASSUME RunnerInv, NEW l \in Call, LoadMiddleware(l)
  PROVE  RunnerInv'
<1>1. /\ loader[l].stage = "middleware" /\ InOrder(l)
      /\ loader[l] \in [stage : LoaderStage, todo : Seq(Endpoint),
                        mid : Seq(Middleware)]
      /\ UNCHANGED <<sandboxed, runnerStarted, tasks, running, middleware, endpoint, routes, topics,
                     request, interrupted>>
  BY DEF RunnerInv, RunnerTypeOK, LoadMiddleware, At
<1>2. IsLoading(l)
  BY <1>1 DEF IsLoading
<1>3. CASE loader[l].mid = <<>>
  <2>1. Goes(l, "starting")
    BY <1>3 DEF LoadMiddleware, Goes
  <2>2. /\ loader' \in [Call -> [stage : LoaderStage, todo : Seq(Endpoint),
                                 mid : Seq(Middleware)]]
        /\ loader'[l].stage = "starting" /\ loader'[l].todo = loader[l].todo /\ loader'[l].mid = loader[l].mid
        /\ \A k \in Call \ {l} : loader'[k] = loader[k]
    BY <2>1, GoesType DEF RunnerInv, LoaderStage
  <2>3. RunnerTypeOK'
    BY <1>1, <2>2 DEF RunnerInv, RunnerTypeOK
  <2>4. InOrder(l)' /\ (Fresh(l) => Fresh(l)')
    BY <1>1, <1>3, <2>2 DEF InOrder, Fresh, InEndpoint
  <2>5. QED BY <1>1, <1>2, <2>2, <2>3, <2>4, LoaderStep
<1>4. CASE loader[l].mid # <<>> /\ Head(loader[l].mid) \in middleware
  <2>1. loader' = [loader EXCEPT ![l] = [loader[l] EXCEPT !.mid = Tail(loader[l].mid)]]
    BY <1>4 DEF LoadMiddleware
  <2>2. /\ Tail(loader[l].mid) \in Seq(Middleware)
        /\ Range(loader[l].mid)
             = {Head(loader[l].mid)} \cup Range(Tail(loader[l].mid))
    BY <1>1, <1>4, HeadAndTail
  <2>3. /\ loader' \in [Call -> [stage : LoaderStage, todo : Seq(Endpoint),
                                 mid : Seq(Middleware)]]
        /\ loader'[l].stage = "middleware" /\ loader'[l].todo = loader[l].todo
        /\ loader'[l].mid = Tail(loader[l].mid)
        /\ \A k \in Call \ {l} : loader'[k] = loader[k]
    BY <1>1, <2>1, <2>2 DEF RunnerInv, RunnerTypeOK
  <2>4. RunnerTypeOK'
    BY <1>1, <2>3 DEF RunnerInv, RunnerTypeOK
  <2>5. InOrder(l)' /\ (Fresh(l) => Fresh(l)')
    BY <1>1, <1>4, <2>2, <2>3 DEF InOrder, Fresh, InEndpoint
  <2>6. QED BY <1>1, <1>2, <2>3, <2>4, <2>5, LoaderStep
<1>5. CASE loader[l].mid # <<>> /\ Head(loader[l].mid) \notin middleware
  <2>1. PICK at \in {"middleware info", "mounting"} : Goes(l, at)
    BY <1>5 DEF LoadMiddleware, Goes, LoadsCode
  <2>2. /\ loader' \in [Call -> [stage : LoaderStage, todo : Seq(Endpoint),
                                 mid : Seq(Middleware)]]
        /\ loader'[l].stage = at /\ loader'[l].todo = loader[l].todo /\ loader'[l].mid = loader[l].mid
        /\ \A k \in Call \ {l} : loader'[k] = loader[k]
    BY <2>1, GoesType DEF RunnerInv, LoaderStage
  <2>3. RunnerTypeOK'
    BY <1>1, <2>2 DEF RunnerInv, RunnerTypeOK
  <2>4. loader'[l].stage = at /\ loader'[l].todo = loader[l].todo /\ loader'[l].mid = loader[l].mid
    BY <2>2
  <2>5. InOrder(l)'
    BY <1>1, <1>5, <2>4 DEF InOrder, InEndpoint
  <2>6. Fresh(l) => Fresh(l)'
    BY <1>1, <2>4 DEF Fresh, InEndpoint
  <2>7. QED BY <1>1, <1>2, <2>2, <2>3, <2>5, <2>6, LoaderStep
<1>6. QED BY <1>3, <1>4, <1>5

\* What the code says of itself was read.
LEMMA GetInfoKeeps ==
  ASSUME RunnerInv, NEW l \in Call, GetEndpointInfo(l) \/ GetMiddlewareInfo(l)
  PROVE  RunnerInv'
<1>1. /\ \/ loader[l].stage = "endpoint info" /\ Goes(l, "middleware")
         \/ loader[l].stage = "middleware info" /\ Goes(l, "mounting")
      /\ UNCHANGED <<sandboxed, runnerStarted, tasks, running, middleware, endpoint, routes, topics,
                     request, interrupted>>
  BY DEF GetEndpointInfo, GetMiddlewareInfo, At
<1>2. PICK at \in {"middleware", "mounting"} :
        /\ Goes(l, at)
        /\ loader[l].stage = IF at = "middleware" THEN "endpoint info" ELSE "middleware info"
  BY <1>1
<1>3. /\ loader' \in [Call -> [stage : LoaderStage, todo : Seq(Endpoint),
                               mid : Seq(Middleware)]]
      /\ loader'[l].stage = at /\ loader'[l].todo = loader[l].todo /\ loader'[l].mid = loader[l].mid
      /\ \A k \in Call \ {l} : loader'[k] = loader[k]
  BY <1>2, GoesType DEF RunnerInv, LoaderStage
<1>4. RunnerTypeOK'
  BY <1>1, <1>3 DEF RunnerInv, RunnerTypeOK
<1>5. /\ loader[l].stage \in {"endpoint info", "middleware info"} /\ InOrder(l)
      /\ loader'[l].stage = at /\ loader'[l].todo = loader[l].todo /\ loader'[l].mid = loader[l].mid
  BY <1>2, <1>3 DEF RunnerInv
<1>6. InOrder(l)'
  BY <1>1, <1>2, <1>5 DEF InOrder, InEndpoint
<1>7. Fresh(l) => Fresh(l)'
  BY <1>1, <1>5 DEF Fresh, InEndpoint
<1>8. IsLoading(l)
  BY <1>1 DEF IsLoading
<1>9. QED BY <1>1, <1>3, <1>4, <1>6, <1>7, <1>8, LoaderStep

\* A middleware that was started is there.
LEMMA MiddlewareStartedKeeps ==
  ASSUME RunnerInv, NEW l \in Call, MiddlewareStarted(l)
  PROVE  RunnerInv'
<1>1. /\ loader[l].stage = "mounting" /\ InOrder(l) /\ loader[l].mid # <<>>
      /\ loader[l] \in [stage : LoaderStage, todo : Seq(Endpoint),
                        mid : Seq(Middleware)]
      /\ middleware' = middleware \cup {Head(loader[l].mid)}
      /\ UNCHANGED <<sandboxed, runnerStarted, tasks, running, endpoint, routes, topics, request,
                     interrupted>>
  BY DEF RunnerInv, InOrder, RunnerTypeOK, MiddlewareStarted, At
<1>2. /\ Head(loader[l].mid) \in Middleware
      /\ Tail(loader[l].mid) \in Seq(Middleware)
      /\ Range(loader[l].mid) = {Head(loader[l].mid)} \cup Range(Tail(loader[l].mid))
  BY <1>1, HeadAndTail
<1>3. /\ loader' \in [Call -> [stage : LoaderStage, todo : Seq(Endpoint),
                               mid : Seq(Middleware)]]
      /\ loader'[l].stage = "middleware" /\ loader'[l].todo = loader[l].todo
      /\ loader'[l].mid = Tail(loader[l].mid)
      /\ \A k \in Call \ {l} : loader'[k] = loader[k]
  BY <1>1, <1>2 DEF RunnerInv, RunnerTypeOK, MiddlewareStarted, LoaderStage
<1>4. RunnerTypeOK'
  BY <1>1, <1>2, <1>3 DEF RunnerInv, RunnerTypeOK
<1>5. InOrder(l)' /\ (Fresh(l) => Fresh(l)')
  BY <1>1, <1>2, <1>3 DEF InOrder, Fresh, InEndpoint
<1>6. IsLoading(l)
  BY <1>1 DEF IsLoading
<1>7. QED BY <1>1, <1>3, <1>4, <1>5, <1>6, LoaderStep

\* An endpoint is routed when all its middleware is there, and, unless a stop
\* let another call load it too, for the first time.
LEMMA EndpointStartedKeeps ==
  ASSUME RunnerInv, NEW l \in Call, EndpointStarted(l)
  PROVE  RunnerInv'
<1> DEFINE e == Head(loader[l].todo)
<1>1. /\ loader[l].stage = "starting" /\ InOrder(l) /\ loader[l].todo # <<>>
      /\ loader[l] \in [stage : LoaderStage, todo : Seq(Endpoint),
                        mid : Seq(Middleware)]
      /\ endpoint' = endpoint \cup {e} /\ routes' = [routes EXCEPT ![e] = @ + 1]
      /\ UNCHANGED <<sandboxed, runnerStarted, tasks, running, middleware, topics, request,
                     interrupted>>
  BY DEF RunnerInv, InOrder, InEndpoint, RunnerTypeOK, EndpointStarted, At
<1>2. e \in Endpoint /\ Tail(loader[l].todo) \in Seq(Endpoint)
  BY <1>1, HeadAndTail
<1>3. /\ loader' \in [Call -> [stage : LoaderStage, todo : Seq(Endpoint),
                               mid : Seq(Middleware)]]
      /\ loader'[l].stage = "next"
      /\ \A k \in Call \ {l} : loader'[k] = loader[k]
  BY <1>1, <1>2 DEF RunnerInv, RunnerTypeOK, EndpointStarted, LoaderStage
<1>4. /\ routes' \in [Endpoint -> Nat] /\ routes'[e] = routes[e] + 1
      /\ \A f \in Endpoint \ {e} : routes'[f] = routes[f]
  BY <1>1, <1>2 DEF RunnerInv, RunnerTypeOK
<1>5. RunnerTypeOK'
  BY <1>1, <1>2, <1>3, <1>4 DEF RunnerInv, RunnerTypeOK
<1>6. \A k \in Call : InOrder(k)'
  BY <1>1, <1>3 DEF RunnerInv, InOrder, InEndpoint
<1>7. Range(Pre[e] \o Post[e]) \subseteq middleware
  <2>1. Range(<<>>) = {}
    BY DEF Range
  <2>2. QED BY <1>1, <2>1 DEF InOrder, InEndpoint
<1>8. RoutedIsReady'
  BY <1>1, <1>4, <1>7 DEF RunnerInv, RoutedIsReady
<1>9. OneLoads' /\ LoadedOnce'
  <2>1. CASE interrupted
    BY <1>1, <2>1 DEF OneLoads, LoadedOnce
  <2>2. CASE ~interrupted
    <3>1. /\ runnerStarted /\ \A k \in Call : IsLoading(k) => k = l
          /\ e \notin endpoint
      BY <1>1, <2>2 DEF RunnerInv, OneLoads, Fresh, IsLoading, InEndpoint
    <3>2. \A k \in Call : IsLoading(k)' => k = l
      BY <1>3, <3>1 DEF IsLoading
    <3>3. \A k \in Call : Fresh(k)'
      BY <1>3, <3>2 DEF Fresh, IsLoading, InEndpoint
    <3>4. routes[e] = 0
      BY <1>2, <3>1 DEF RunnerInv, RunnerTypeOK, RoutedIsReady
    <3>5. LoadedOnce'
      BY <1>1, <1>4, <2>2, <3>4 DEF RunnerInv, LoadedOnce
    <3>6. QED BY <1>1, <3>1, <3>2, <3>3, <3>5 DEF OneLoads
  <2>3. QED BY <2>1, <2>2
<1>10. QED BY <1>5, <1>6, <1>8, <1>9 DEF RunnerInv

\* A stop that cuts a load short is remembered.
LEMMA StopKeepsRunner ==
  ASSUME RunnerInv, StopRunner
  PROVE  RunnerInv'
<1>1. /\ runnerStarted' = FALSE /\ running' = {}
      /\ interrupted' = (interrupted \/ \E l \in Call : IsLoading(l))
      /\ UNCHANGED <<sandboxed, tasks, middleware, endpoint, routes, topics, loader, request>>
  BY DEF StopRunner, Loading, IsLoading
<1>2. RunnerTypeOK'
  <2>1. interrupted' \in BOOLEAN
    BY <1>1 DEF RunnerInv, RunnerTypeOK
  <2>2. QED BY <1>1, <2>1 DEF RunnerInv, RunnerTypeOK
<1>3. \A l \in Call : InOrder(l)'
  BY <1>1 DEF RunnerInv, InOrder
<1>4. OneLoads'
  BY <1>1 DEF RunnerInv, OneLoads, Fresh, IsLoading
<1>5. RoutedIsReady' /\ LoadedOnce'
  BY <1>1 DEF RunnerInv, RoutedIsReady, LoadedOnce
<1>6. QED BY <1>2, <1>3, <1>4, <1>5 DEF RunnerInv

\* A task that is loaded may be run.
LEMMA RunTaskKeepsRunner ==
  ASSUME RunnerInv, NEW t \in Task, RunTask(t)
  PROVE  RunnerInv'
<1>1. RunnerTypeOK'
  BY DEF RunnerInv, RunnerTypeOK, RunTask
<1>2. QED BY <1>1, NothingLoaded DEF RunTask

\* What a step of a request shows.
LEMMA RequestStep ==
  ASSUME RunnerInv, UNCHANGED loadVars,
         request' \in [Request -> RequestRecord]
  PROVE  RunnerInv'
<1>1. RunnerTypeOK'
  BY DEF RunnerInv, RunnerTypeOK, RequestRecord, loadVars
<1>2. QED BY <1>1, NothingLoaded DEF loadVars

\* A request that ends is one still.
LEMMA EndsKeeps ==
  ASSUME RunnerInv, NEW r \in Request, NEW stage \in RequestStage, Ends(r, stage)
  PROVE  request' \in [Request -> RequestRecord]
<1>1. request \in [Request -> RequestRecord]
  BY DEF RunnerInv, RunnerTypeOK, RequestRecord
<1>2. <<>> \in Seq(Middleware \cup {"run"})
  OBVIOUS
<1>3. QED BY <1>1, <1>2 DEF Ends, RequestRecord

\* A request comes in.
LEMMA HandleKeeps ==
  ASSUME RunnerInv, NEW r \in Request, NEW e \in Endpoint,
         OnRequest(r, e) \/ OnRequestSandboxed(r, e) \/ InternalRequest(r, e)
  PROVE  RunnerInv'
<1>1. PICK otherwise \in {"unrouted", "error"}, awaited \in BOOLEAN :
        Handle(r, e, otherwise, awaited)
  BY DEF OnRequest, OnRequestSandboxed, InternalRequest
<1>2. Pipeline(e) \in Seq(Middleware \cup {"run"})
  <2>1. /\ Pre[e] \in Seq(Middleware \cup {"run"})
        /\ Post[e] \in Seq(Middleware \cup {"run"})
        /\ <<"run">> \in Seq(Middleware \cup {"run"})
    BY ServiceRunnerAssumption
  <2>2. QED BY <2>1 DEF Pipeline
<1>3. request' \in [Request -> RequestRecord]
  BY <1>1, <1>2 DEF RunnerInv, RunnerTypeOK, Handle, EndpointContext, RequestRecord, RequestStage
<1>4. QED BY <1>1, <1>3, RequestStep DEF Handle

\* A request goes through its pipeline.
LEMMA PipelineKeeps ==
  ASSUME RunnerInv, NEW r \in Request,
         \/ RunMiddleware(r) \/ RunSandboxed(r) \/ Send(r) \/ Throws(r)
         \/ SandboxCatches(r) \/ SandboxThrows(r) \/ NoContext(r) \/ ThrowsNothing(r)
  PROVE  RunnerInv'
<1>1. CASE RunMiddleware(r) \/ RunSandboxed(r)
  <2>1. RunNext(r)
    BY <1>1 DEF RunMiddleware, RunSandboxed
  <2>2. request[r].rest # <<>> /\ request[r].rest \in Seq(Middleware \cup {"run"})
    BY <2>1 DEF RunnerInv, RunnerTypeOK, RunNext
  <2>3. Tail(request[r].rest) \in Seq(Middleware \cup {"run"})
    BY <2>2
  <2>4. CASE request' = [request EXCEPT ![r].rest = Tail(request[r].rest)]
    <3>1. request' \in [Request -> RequestRecord]
      BY <2>3, <2>4 DEF RunnerInv, RunnerTypeOK, RequestRecord
    <3>2. QED BY <2>1, <3>1, RequestStep DEF RunNext
  <2>5. CASE Ends(r, "error")
    BY <2>1, <2>5, EndsKeeps, RequestStep DEF RunNext, RequestStage
  <2>6. QED BY <2>1, <2>4, <2>5 DEF RunNext
<1>2. CASE \/ Send(r) \/ Throws(r) \/ SandboxCatches(r) \/ SandboxThrows(r)
           \/ NoContext(r) \/ ThrowsNothing(r)
  <2>1. UNCHANGED loadVars /\ \E stage \in RequestStage : Ends(r, stage)
    BY <1>2 DEF Send, Throws, SandboxCatches, SandboxThrows, NoContext, ThrowsNothing,
       RequestStage
  <2>2. QED BY <2>1, EndsKeeps, RequestStep
<1>3. QED BY <1>1, <1>2

LEMMA NextRunnerInv ==
  ASSUME RunnerInv, [RunnerNext]_runnerVars
  PROVE  RunnerInv'
<1>1. CASE StopRunner
  BY <1>1, StopKeepsRunner
<1>2. ASSUME NEW t \in Task, RunTask(t)
      PROVE  RunnerInv'
  BY <1>2, RunTaskKeepsRunner
<1>3. ASSUME NEW l \in Call,
             \/ StartNode(l) \/ StartSandboxed(l) \/ LoadTasks(l)
             \/ LoadEndpoint(l) \/ LoadMiddleware(l) \/ GetEndpointInfo(l)
             \/ GetMiddlewareInfo(l) \/ Loaded(l) \/ MiddlewareStarted(l)
             \/ EndpointStarted(l) \/ LoadTopics(l) \/ LoadFails(l)
      PROVE  RunnerInv'
  BY <1>3, StartKeepsRunner, LoadKeeps, LoadEndpointKeeps, LoadMiddlewareKeeps, GetInfoKeeps,
     MiddlewareStartedKeeps, EndpointStartedKeeps
<1>4. ASSUME NEW r \in Request, NEW e \in Endpoint,
             OnRequest(r, e) \/ OnRequestSandboxed(r, e) \/ InternalRequest(r, e)
      PROVE  RunnerInv'
  BY <1>4, HandleKeeps
<1>5. ASSUME NEW r \in Request,
             \/ RunMiddleware(r) \/ RunSandboxed(r) \/ Send(r)
             \/ Throws(r) \/ SandboxCatches(r) \/ SandboxThrows(r)
             \/ NoContext(r) \/ ThrowsNothing(r)
      PROVE  RunnerInv'
  BY <1>5, PipelineKeeps
<1>6. CASE UNCHANGED runnerVars
  <2>1. UNCHANGED loadVars /\ UNCHANGED request
    BY <1>6 DEF runnerVars
  <2>2. QED BY <2>1, RequestStep DEF RunnerInv, RunnerTypeOK, RequestRecord
<1>7. QED BY <1>1, <1>2, <1>3, <1>4, <1>5, <1>6 DEF RunnerNext

\* The inductive invariant of a runner, for any endpoints whose pipelines are
\* sequences of middleware, and any calls, tasks, topics and requests.
THEOREM ServiceRunnerInvariant == RunnerSpec => []RunnerInv
<1>1. RunnerInit => RunnerInv
  BY InitRunnerInv
<1>2. RunnerInv /\ [RunnerNext]_runnerVars => RunnerInv'
  BY NextRunnerInv
<1>3. QED BY <1>1, <1>2, PTL DEF RunnerSpec

\* Every variable keeps its type (service-runner-node.js, service-runner.js).
THEOREM ServiceRunnerTypeOK == RunnerSpec => []RunnerTypeOK
<1>1. RunnerInv => RunnerTypeOK
  BY DEF RunnerInv
<1>2. QED BY <1>1, ServiceRunnerInvariant, PTL

\* An endpoint that is routed is complete, whatever loads fail, overlap or are cut
\* short by a stop (service-runner-node.js:310-349).
THEOREM ServiceRunnerRoutedIsReady == RunnerSpec => []RoutedIsReady
<1>1. RunnerInv => RoutedIsReady
  BY DEF RunnerInv
<1>2. QED BY <1>1, ServiceRunnerInvariant, PTL

\* However many calls of start overlap, an endpoint is loaded and routed once,
\* unless a stop interrupts a load (service-runner-node.js:60, 310).
THEOREM ServiceRunnerLoadedOnce == RunnerSpec => []LoadedOnce
<1>1. RunnerInv => LoadedOnce
  BY DEF RunnerInv
<1>2. QED BY <1>1, ServiceRunnerInvariant, PTL
=============================================================================

----------------------------- MODULE ServiceHost -----------------------------
(* The server a service is reached through: its start and stop, the restart
   after a server error, and the watchdog over the websockets it accepts
   (service/service-host.js, service/service-host-websocket.js).

   The HTTP server, the websocket library, mDNS and I2P are external: a listen
   succeeds or fails, a server may report an error at any time while it listens,
   and it is closed when its last connection has ended.  mDNS and I2P are on or
   off as the host's options say. *)
EXTENDS Naturals

CONSTANTS
  Conn,          \* websocket connections of peers
  StopCall,      \* calls of stop, those of the error handler included
  MaxTimer       \* bound: armed restart timers that a newer one replaced

ASSUME ServiceHostAssumption == MaxTimer \in Nat

VARIABLES
  started,
  apiServer,     \* none, binding, unbound (listen failed), listening, closing
  stopping,      \* where each call of stop is
  mdns,          \* whether mdnsInstance publishes the service
  i2p,           \* off, opening, open, or stray: opened behind a stop's back
  timer,         \* whether the timer errorHandlerTimer refers to is armed
  orphans,       \* armed timers it no longer refers to
  conn,          \* [stage, isAlive, answers]; answers: the peer answers pings
  pinged         \* connections with a ping their peer has not answered

hostVars == <<started, apiServer, stopping, mdns, i2p, timer, orphans>>
connVars == <<conn, pinged>>
vars == <<hostVars, connVars>>

TypeOK ==
  /\ started \in BOOLEAN /\ mdns \in BOOLEAN /\ timer \in BOOLEAN
  /\ apiServer \in {"none", "binding", "unbound", "listening", "closing"}
  /\ stopping \in [StopCall -> {"idle", "mdns", "closing", "closed", "nothing", "failed"}]
  /\ i2p \in {"off", "opening", "open", "stray"}
  /\ orphans \in 0..MaxTimer
  /\ conn \in [Conn -> [stage : {"new", "open", "ended", "terminated"},
                        isAlive : BOOLEAN, answers : BOOLEAN]]
  /\ pinged \subseteq Conn

Open(c) == conn[c].stage = "open"

\* A stop found the server listening, and has closed what forward there was.
Stopped == \E s \in StopCall : stopping[s] \notin {"idle", "nothing"}

Init ==
  /\ started = FALSE /\ apiServer = "none" /\ mdns = FALSE /\ i2p = "off"
  /\ stopping = [s \in StopCall |-> "idle"]
  /\ timer = FALSE /\ orphans = 0
  /\ conn = [c \in Conn |-> [stage |-> "new", isAlive |-> FALSE, answers |-> TRUE]]
  /\ pinged = {}

-----------------------------------------------------------------------------
(* start *)

\* started is set once and never reset: every later start returns at once.
Start ==
  /\ ~started
  /\ started' = TRUE /\ apiServer' = "binding"
  /\ UNCHANGED <<stopping, mdns, i2p, timer, orphans, connVars>>

\* The server listens: the restart timer is cleared, websockets are accepted,
\* I2P is set up in the background and the service is published, if enabled.
Listening ==
  /\ apiServer = "binding"
  /\ apiServer' = "listening"
  /\ timer' = FALSE
  /\ mdns' \in BOOLEAN
  /\ i2p' \in {"off", "opening"}
  /\ UNCHANGED <<started, stopping, orphans, connVars>>

\* The error event comes before its listener is attached: start never settles.
ListenFails ==
  /\ apiServer = "binding"
  /\ apiServer' = "unbound"
  /\ UNCHANGED <<started, stopping, mdns, i2p, timer, orphans, connVars>>

\* The forward is ready, whether or not the host was stopped meanwhile.
I2pOpens ==
  /\ i2p = "opening"
  /\ i2p' = IF Stopped THEN "stray" ELSE "open"
  /\ UNCHANGED <<started, apiServer, stopping, mdns, timer, orphans, connVars>>

-----------------------------------------------------------------------------
(* stop *)

\* Nothing to do unless the server listens.  A forward that is still being set
\* up is not seen.  The answer of unpublishAll is awaited.
DoStop(s, armed) ==
  /\ stopping[s] = "idle"
  /\ stopping' = [stopping EXCEPT ![s] = IF apiServer # "listening" THEN "nothing"
                                         ELSE IF mdns THEN "mdns" ELSE "closing"]
  /\ apiServer' = IF apiServer = "listening" /\ ~mdns THEN "closing" ELSE apiServer
  /\ timer' = (armed /\ apiServer # "listening")
  /\ i2p' = IF apiServer = "listening" /\ i2p \in {"open", "stray"} THEN "off" ELSE i2p
  /\ UNCHANGED <<started, mdns>>

Stop(s) == DoStop(s, timer) /\ UNCHANGED <<orphans, connVars>>

\* mdnsInstance is destroyed and the server closed.  A second stop that waited
\* here finds no instance and throws.
Unpublished(s) ==
  /\ stopping[s] = "mdns"
  /\ stopping' = [stopping EXCEPT ![s] = IF mdns THEN "closing" ELSE "failed"]
  /\ mdns' = FALSE
  /\ apiServer' = IF mdns THEN "closing" ELSE apiServer
  /\ UNCHANGED <<started, i2p, timer, orphans, connVars>>

\* The websockets are not ended (wsEnabled is never set): the server is closed
\* once the peers have ended all of them.
MClosed(s) ==     \* mutant: started is reset, so that a later start restarts
  /\ stopping[s] = "closing"
  /\ \A c \in Conn : ~Open(c)
  /\ stopping' = [stopping EXCEPT ![s] = "closed"]
  /\ apiServer' = "none" /\ started' = FALSE
  /\ UNCHANGED <<mdns, i2p, timer, orphans, connVars>>
Closed(s) ==
  /\ stopping[s] = "closing"
  /\ \A c \in Conn : ~Open(c)
  /\ stopping' = [stopping EXCEPT ![s] = "closed"]
  /\ apiServer' = "none"
  /\ UNCHANGED <<started, mdns, i2p, timer, orphans, connVars>>

-----------------------------------------------------------------------------
(* Errors of the server *)

\* A new timer takes the place of an older one, which stays armed.
HandleServerError ==
  /\ apiServer \in {"listening", "closing"}
  /\ orphans < MaxTimer
  /\ timer' = TRUE
  /\ orphans' = orphans + (IF timer THEN 1 ELSE 0)
  /\ UNCHANGED <<started, apiServer, stopping, mdns, i2p, connVars>>

\* A timer fires, the newest one (orphan is false) or one it replaced.
Fires(orphan) ==
  IF orphan THEN orphans > 0 /\ orphans' = orphans - 1
            ELSE timer /\ UNCHANGED orphans

\* The host is stopped and then started, which returns at once: started is set.
TimerFires(s, orphan) ==
  /\ Fires(orphan)
  /\ apiServer # "none"
  /\ DoStop(s, timer /\ orphan)
  /\ UNCHANGED connVars

\* The host was stopped meanwhile: nothing is done.
TimerFiresLate(orphan) ==
  /\ Fires(orphan)
  /\ apiServer = "none"
  /\ timer' = (timer /\ orphan)
  /\ UNCHANGED <<started, apiServer, stopping, mdns, i2p, connVars>>

-----------------------------------------------------------------------------
(* Websockets *)

\* handleUpgrade and handleConnection: a closing server accepts no connection.
MConnect(c) ==    \* mutant: isAlive is left for the first pong to set
  /\ apiServer = "listening" /\ conn[c].stage = "new"
  /\ conn' = [conn EXCEPT ![c].stage = "open"]
  /\ UNCHANGED <<hostVars, pinged>>
Connect(c) ==
  /\ apiServer = "listening" /\ conn[c].stage = "new"
  /\ conn' = [conn EXCEPT ![c].stage = "open", ![c].isAlive = TRUE]
  /\ UNCHANGED <<hostVars, pinged>>

\* The peer's pong arrives.
Pong(c) ==
  /\ Open(c) /\ conn[c].answers /\ c \in pinged
  /\ conn' = [conn EXCEPT ![c].isAlive = TRUE]
  /\ pinged' = pinged \ {c}
  /\ UNCHANGED hostVars

\* The peer vanishes without a word, or ends the connection.
Vanish(c) ==
  /\ Open(c) /\ conn[c].answers
  /\ conn' = [conn EXCEPT ![c].answers = FALSE]
  /\ UNCHANGED <<hostVars, pinged>>

EndConn(c) ==
  /\ Open(c) /\ conn[c].answers
  /\ conn' = [conn EXCEPT ![c].stage = "ended", ![c].isAlive = FALSE]
  /\ UNCHANGED <<hostVars, pinged>>

\* The watchdog: who has not answered since the last tick is terminated, the
\* others are pinged.  Its interval outlives the server.
MCheckClients ==      \* mutant: isAlive is not reset before the ping
  LET silent == {c \in Conn : Open(c) /\ ~conn[c].isAlive} IN
  /\ \E c \in Conn : Open(c)
  /\ conn' = [c \in Conn |-> IF c \in silent THEN [conn[c] EXCEPT !.stage = "terminated"]
                             ELSE conn[c]]
  /\ pinged' = pinged \cup {c \in Conn : Open(c) /\ c \notin silent}
  /\ UNCHANGED hostVars
CheckClients ==
  LET silent == {c \in Conn : Open(c) /\ ~conn[c].isAlive} IN
  /\ \E c \in Conn : Open(c)
  /\ conn' = [c \in Conn |-> IF c \in silent THEN [conn[c] EXCEPT !.stage = "terminated"]
                             ELSE [conn[c] EXCEPT !.isAlive = FALSE]]
  /\ pinged' = pinged \cup {c \in Conn : Open(c) /\ c \notin silent}
  /\ UNCHANGED hostVars

-----------------------------------------------------------------------------
Next ==
  \/ Start \/ Listening \/ ListenFails \/ I2pOpens
  \/ \E s \in StopCall : Stop(s) \/ Unpublished(s) \/ Closed(s)
  \/ HandleServerError
  \/ \E o \in BOOLEAN : TimerFiresLate(o) \/ \E s \in StopCall : TimerFires(s, o)
  \/ \E c \in Conn : Connect(c) \/ Pong(c) \/ Vanish(c) \/ EndConn(c)
  \/ CheckClients

\* The watchdog's interval keeps ticking, the libraries answer, and a server
\* whose connections have ended is closed.
Fairness ==
  /\ WF_vars(CheckClients)
  /\ \A s \in StopCall : WF_vars(Unpublished(s)) /\ WF_vars(Closed(s))

Spec == Init /\ [][Next]_vars /\ Fairness

-----------------------------------------------------------------------------
(* Properties *)

\* A stopped host is gone: once a stop has taken the server down there is no
\* server again, whatever other stops, restart timers and starts follow; no peer
\* is still connected, nothing is published and the I2P forward is closed.  A
\* forward that was still being set up when the stop passed is the exception: it
\* opens later and stays open (service-host.js:266, 356).
StoppedIsGone ==
  (\E s \in StopCall : stopping[s] = "closed") =>
    apiServer = "none" /\ ~mdns /\ i2p # "open" /\ \A c \in Conn : ~Open(c)

\* The watchdog only terminates a connection that it has pinged and whose peer
\* owes the pong: never one that just connected, or that answered in between.
TerminatedOwesPong == \A c \in Conn : conn[c].stage = "terminated" => c \in pinged

\* A peer that vanished does not keep its connection: the watchdog ends it, be
\* the host running, stopping, or waiting for this very connection to end.
VanishedIsDropped == \A c \in Conn : (Open(c) /\ ~conn[c].answers) ~> ~Open(c)
=============================================================================

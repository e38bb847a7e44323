--------------------------- MODULE EphemeralClient ---------------------------
(* The client of a service: a session key that is announced over REST and
   rolled before it expires, and the websocket opened under it, which is opened
   again whenever it closes (party/peer/ephemeral-client.js, with the REST calls
   of comms/rest-comms.js and the socket events of WebsocketComms).

   A start takes seconds, a session hours: the clock stands still while one is
   under way.  The application calls start when no start is under way, after a
   failure too, and stop at any time, and may give the client a REST party of its
   own, for whose keys it does not call announcePublicKeys.  An exception nobody
   catches ends the handler it is thrown in and nothing else. *)
EXTENDS Naturals

CONSTANTS
  Conn,             \* websockets, used again once nothing is left of them
  NoConn,
  MaxKeys,          \* bound: session keys made
  MaxTime,          \* bound: the clock
  MAX_SESSION_AGE,
  SESSION_ROLL_AGE

ASSUME EphemeralClientAssumption ==
  /\ NoConn \notin Conn /\ MaxKeys \in Nat /\ MaxTime \in Nat
  /\ SESSION_ROLL_AGE \in Nat \ {0}
  /\ MAX_SESSION_AGE \in Nat /\ MAX_SESSION_AGE > SESSION_ROLL_AGE

VARIABLES
  now,
  made,             \* the number of keys made: a key is a number, 0 is none
  sessionKey,
  restParty,        \* the key the REST party was made with; 0 is none
  sessionExpiry,    \* of each key that was going to be announced
  sessionTimers,    \* when the timers are due that roll the key; none is cleared
  starting,         \* where the start under way is
  known,            \* keys the service stored
  wsParty,          \* the connection that is wsParty.comms
  conn,             \* its stage, its session, and whether doReconnect waits for it
  events,           \* socket events that are due
  stopped,          \* connections whose comms.stopped is set
  reconnectTimer    \* "stale": it fired and was never reset to null

keyVars == <<made, sessionKey, restParty, sessionExpiry, sessionTimers, starting, known>>
wsVars  == <<wsParty, conn, events, stopped, reconnectTimer>>
clientVars == <<now, keyVars, wsVars>>

Key == 1 .. MaxKeys
Given == MaxKeys + 1   \* a REST party that the application gave
Stage == {"unused", "opening", "open", "authed", "down"}

ClientTypeOK ==
  /\ now \in 0 .. MaxTime /\ made \in 0 .. MaxKeys
  /\ sessionKey \in 0 .. MaxKeys /\ restParty \in 0 .. Given
  /\ sessionExpiry \in [Key -> 0 .. MaxTime + MAX_SESSION_AGE]
  /\ sessionTimers \subseteq 0 .. MaxTime + SESSION_ROLL_AGE
  /\ starting \in {"no", "seeding", "resting", "asking", "announcing", "connecting"}
  /\ known \subseteq Key
  /\ wsParty \in Conn \cup {NoConn}
  /\ conn \in [Conn -> [stage : Stage, session : 0 .. MaxKeys, retry : BOOLEAN]]
  /\ events \subseteq Conn \X {"error", "close"} /\ stopped \subseteq Conn
  /\ reconnectTimer \in {"none", "armed", "stale"}

Unused == [stage |-> "unused", session |-> 0, retry |-> FALSE]

\* urlOrParty is the URL of the service, or a party.
ClientInit ==
  /\ now = 0 /\ made = 0 /\ sessionKey = 0 /\ restParty \in {0, Given}
  /\ sessionExpiry = [k \in Key |-> 0] /\ sessionTimers = {}
  /\ starting = "no" /\ known = {}
  /\ wsParty = NoConn /\ conn = [c \in Conn |-> Unused]
  /\ events = {} /\ stopped = {} /\ reconnectTimer = "none"

Spare == {c \in Conn : /\ c # wsParty /\ conn[c].stage \in {"unused", "down"}
                       /\ \A e \in {"error", "close"} : <<c, e>> \notin events}

Becomes(c, stage) == conn' = [conn EXCEPT ![c].stage = stage]

\* new WebsocketComms with the session of the current key, and its start
Opens(c, retry) ==
  /\ c \in Spare
  /\ wsParty' = c
  /\ conn' = [conn EXCEPT ![c] = [stage |-> "opening", session |-> sessionKey, retry |-> retry]]
  /\ stopped' = stopped \ {c}

\* handleWsClose asks wsParty.comms, whichever connection the event is of; it
\* throws when there is no wsParty.
MHandleWsClose ==   \* mutant: the test of stopped is inverted
  reconnectTimer' = IF wsParty \in stopped /\ reconnectTimer = "none"
                    THEN "armed" ELSE reconnectTimer
HandleWsClose ==
  reconnectTimer' = IF wsParty \in Conn \ stopped /\ reconnectTimer = "none"
                    THEN "armed" ELSE reconnectTimer

\* stop of the connection: the socket is terminated, which its close event will
\* tell; the handleWsClose called at once sees it stopped and returns.
Terminates(c) ==
  /\ stopped' = stopped \cup {c}
  /\ Becomes(c, "down")
  /\ events' = IF conn[c].stage = "down" THEN events ELSE events \cup {<<c, "close">>}

-----------------------------------------------------------------------------
(* start *)

\* Returns at once while there is a session key, announced or not.
Start ==
  /\ starting = "no" /\ made < MaxKeys
  /\ sessionKey = 0
  /\ starting' = "seeding"
  /\ UNCHANGED <<now, made, sessionKey, restParty, sessionExpiry, sessionTimers, known, wsVars>>

\* The websocket is opened when there is no wsParty yet.
OpenWs == \E c \in Conn : Opens(c, FALSE) /\ UNCHANGED <<events, reconnectTimer>>

\* fromRandomSeed returns: the key is set, and a REST party is made for it and
\* the key announced, unless there is one.
Seeded ==
  /\ starting = "seeding"
  /\ made' = made + 1 /\ sessionKey' = made + 1
  /\ IF restParty = 0 THEN restParty' = made + 1 /\ starting' = "resting"
                      ELSE starting' = "connecting" /\ UNCHANGED restParty
  /\ UNCHANGED <<now, sessionExpiry, sessionTimers, known, wsVars>>

\* The REST party is up: its comms are made, and createSessionAnnoucement arms
\* the timer that rolls the key, whatever becomes of the announcement.
CreateSessionAnnoucement ==
  /\ starting = "resting"
  /\ sessionExpiry' = [sessionExpiry EXCEPT ![sessionKey] = now + MAX_SESSION_AGE]
  /\ sessionTimers' = sessionTimers \cup {now + SESSION_ROLL_AGE}
  /\ starting' = "asking"
  /\ UNCHANGED <<now, made, sessionKey, restParty, known, wsVars>>

\* RestComms.call asks who the service is first, or start is rejected.
GetServiceIdentity ==
  /\ starting = "asking"
  /\ starting' \in {"announcing", "no"}
  /\ UNCHANGED <<now, made, sessionKey, restParty, sessionExpiry, sessionTimers, known, wsVars>>

\* The POST reaches the service, which stores the key.
Stored ==
  /\ starting = "announcing" /\ sessionKey \notin known
  /\ known' = known \cup {sessionKey}
  /\ UNCHANGED <<now, made, sessionKey, restParty, sessionExpiry, sessionTimers, starting, wsVars>>

\* What comes back: of the service, of another key, or sealed by nobody; only
\* a service that stored the key says done.
Reply == {r \in [sealedBy : {"service", "other", "nobody"}, content : {"done", "refused", "error"}] :
            r.sealedBy = "service" /\ r.content = "done" => sessionKey \in known}

\* IParty.decrypt returns the content of the reply.
MDecrypted(r) == r.sealedBy # "nobody" /\ r.content # "error"   \* mutant: any key will do
Decrypted(r) == r.sealedBy = "service" /\ r.content # "error"

\* The call returns, and the service has done it.
Announced(r) ==
  /\ starting = "announcing"
  /\ Decrypted(r) /\ r.content = "done"
  /\ starting' = "connecting"
  /\ UNCHANGED <<now, made, sessionKey, restParty, sessionExpiry, sessionTimers, known, wsVars>>

\* It did not, its reply is not trusted, or none comes: start is rejected.  The
\* service may store the key after that.
AnnounceFails ==
  /\ starting = "announcing"
  /\ known' \in {known, known \cup {sessionKey}}
  /\ starting' = "no"
  /\ UNCHANGED <<now, made, sessionKey, restParty, sessionExpiry, sessionTimers, wsVars>>

\* The rest of start, up to the promise of authorized().  A party that was given
\* may not know who the service is, and fail to find out.
Connect ==
  /\ starting = "connecting"
  /\ starting' = "no"
  /\ IF wsParty = NoConn THEN OpenWs \/ (restParty = Given /\ UNCHANGED wsVars)
                         ELSE UNCHANGED wsVars
  /\ UNCHANGED <<now, made, sessionKey, restParty, sessionExpiry, sessionTimers, known>>

-----------------------------------------------------------------------------
(* stop and roll *)

\* Only the connection is stopped: key and timers stay.
Stop ==
  /\ wsParty # NoConn
  /\ Terminates(wsParty)
  /\ UNCHANGED <<now, keyVars, wsParty, reconnectTimer>>

\* A session timer fires: everything is dropped and start called.
RollSessionKey ==
  /\ now \in sessionTimers /\ starting = "no"
  /\ sessionTimers' = sessionTimers \ {now}
  /\ sessionKey' = 0 /\ restParty' = 0 /\ wsParty' = NoConn
  /\ starting' = IF made < MaxKeys THEN "seeding" ELSE "no"
  /\ IF wsParty = NoConn THEN UNCHANGED <<conn, events, stopped>> ELSE Terminates(wsParty)
  /\ UNCHANGED <<now, made, sessionExpiry, known, reconnectTimer>>

\* An hour passes.  Timers fire when they are due.
Tick ==
  /\ now < MaxTime /\ starting = "no" /\ now \notin sessionTimers
  /\ now' = now + 1
  /\ UNCHANGED <<keyVars, wsVars>>

-----------------------------------------------------------------------------
(* The socket *)

Opened(c) ==
  /\ conn[c].stage = "opening"
  /\ Becomes(c, "open")
  /\ UNCHANGED <<now, keyVars, wsParty, events, stopped, reconnectTimer>>

\* Refused, or ended by the network: the socket reports an error and its end, or its end.
Breaks(c) ==
  /\ conn[c].stage \in {"opening", "open", "authed"}
  /\ Becomes(c, "down")
  /\ events' \in {events \cup {<<c, "error">>, <<c, "close">>}, events \cup {<<c, "close">>}}
  /\ UNCHANGED <<now, keyVars, wsParty, stopped, reconnectTimer>>

\* The timer of socketInit closes a socket that does not open, and tells.
TimesOut(c) ==
  /\ conn[c].stage = "opening"
  /\ Becomes(c, "down")
  /\ events' = events \cup {<<c, "close">>}
  /\ HandleWsClose
  /\ UNCHANGED <<now, keyVars, wsParty, stopped>>

\* The auth operation succeeds: authorized() resolves.
Authorized(c) ==
  /\ conn[c].stage = "open"
  /\ Becomes(c, "authed")
  /\ UNCHANGED <<now, keyVars, wsParty, events, stopped, reconnectTimer>>

\* It fails: authorized() is rejected while the socket stays open.  doReconnect
\* takes it for a loss, start tells its caller.
AuthFails(c) ==
  /\ conn[c].stage = "open"
  /\ conn' = [conn EXCEPT ![c].retry = FALSE]
  /\ IF conn[c].retry THEN HandleWsClose ELSE UNCHANGED reconnectTimer
  /\ UNCHANGED <<now, keyVars, wsParty, events, stopped>>

ErrorEvent(c) ==
  /\ <<c, "error">> \in events
  /\ events' = events \ {<<c, "error">>}
  /\ HandleWsClose
  /\ UNCHANGED <<now, keyVars, wsParty, conn, stopped>>

\* close and server-close; a doReconnect that waits calls handleWsClose again,
\* to no effect.
CloseEvent(c) ==
  /\ <<c, "close">> \in events /\ <<c, "error">> \notin events
  /\ events' = events \ {<<c, "close">>}
  /\ HandleWsClose
  /\ UNCHANGED <<now, keyVars, wsParty, conn, stopped>>

\* The timer fires.  Without a wsParty it throws before the timer is forgotten.
DoReconnect ==
  /\ reconnectTimer = "armed"
  /\ reconnectTimer' = IF wsParty = NoConn THEN "stale" ELSE "none"
  /\ IF wsParty \in Conn \ stopped THEN \E c \in Conn : Opens(c, TRUE)
                                   ELSE UNCHANGED <<wsParty, conn, stopped>>
  /\ UNCHANGED <<now, keyVars, events>>

-----------------------------------------------------------------------------
ClientNext ==
  \/ Start \/ Seeded \/ CreateSessionAnnoucement
  \/ GetServiceIdentity \/ Stored \/ AnnounceFails \/ \E r \in Reply : Announced(r)
  \/ Connect \/ Stop \/ RollSessionKey \/ Tick \/ DoReconnect
  \/ \E c \in Conn : \/ Opened(c) \/ Breaks(c) \/ TimesOut(c) \/ Authorized(c)
                     \/ AuthFails(c) \/ ErrorEvent(c) \/ CloseEvent(c)

ClientSpec == ClientInit /\ [][ClientNext]_clientVars

\* The runtime tells of the end of a socket, and fires the timer.
ClientFairSpec ==
  /\ ClientSpec /\ WF_clientVars(DoReconnect)
  /\ \A c \in Conn : WF_clientVars(ErrorEvent(c)) /\ WF_clientVars(CloseEvent(c))

-----------------------------------------------------------------------------
(* Properties *)

\* A client that makes its REST party opens a websocket only under a session the
\* service knows: a start that is tried again after its announcement failed must
\* not go on to the websocket (ephemeral-client.js:72, 104), nor may a
\* reconnection under a new key.  A client that was given a party announces
\* nothing (75), and its websocket is opened all the same.
AnnouncedFirst ==
  \A c \in Conn : conn[c].session \notin known \cup {0} => restParty = Given

\* A connection that is lost and was not stopped is replaced, unless a timer
\* that fired in the middle of a roll has used up reconnectTimer
\* (ephemeral-client.js:178, 192); or no socket is left in the model.
LostIsRetried ==
  \A c \in Conn :
    (wsParty = c /\ conn[c].stage = "down" /\ c \notin stopped)
      ~> (wsParty # c \/ c \in stopped \/ reconnectTimer = "stale" \/ Spare = {})
=============================================================================

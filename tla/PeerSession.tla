----------------------------- MODULE PeerSession -----------------------------
(* A connection between two PeerComms, from the client's start to the end of
   the socket: the websocket of WebsocketComms, the auth operation that begins
   it, the host's auth timer, the peer calls, and closing from either side
   (src/comms, with PeerParty and ServiceHostWebsocket.handleConnection).

   Every message is decrypted, and every reply encrypted, by a promise: a
   message that arrived is handled at any later time, in any order, and also
   after its socket closed.  What the service's own code answers (may this
   client connect, what does this endpoint do) is left open. *)

CONSTANTS
  Conn,        \* connections, each of a client of its own
  Call,        \* ISocketComms.call, each used once
  Target       \* the connection of a call

ASSUME PeerSessionAssumption ==
  Conn \cap Call = {} /\ Target \in [Call -> Conn]

VARIABLES
  link,        \* the socket
  host,        \* the host's PeerComms: not there, being made, listening
  connecting,  \* host sockets whose connect event is due
  heard,       \* <<side, c>>: the side was told that the socket closed
  closing,     \* hosts that close: destroyNode, then socket.destroy
  timer,       \* hosts whose _host_auth_timeout is set
  state,       \* PeerComms.state of the host
  hostAuthed,  \* hosts whose PeerComms.authed is true
  authed,      \* clients whose PeerComms.authed is true
  waiter,      \* what became of the promise of the client's authorized()
  op,          \* SocketOps: a connection is its own auth operation
  verdict,     \* what isSocketConnectionAllowed said
  served       \* calls an endpoint ran for

hostVars == <<host, connecting, closing, timer, state, hostAuthed, verdict, served>>
clientVars == <<authed, waiter>>
vars == <<link, heard, hostVars, clientVars, op>>

Op == Conn \cup Call
ConnOf(o) == IF o \in Call THEN Target[o] ELSE o

\* What a SocketOp is in: unused; encrypted and sent; arrived, being decrypted;
\* judged by the service; working (the stream is recovered, the endpoint runs);
\* the reply encrypted; on the wire; being decrypted; settled.  A dropped
\* operation is one nobody answers any more.
Stage == {"unused", "sealing", "sent", "arrived", "judged", "working",
          "replying", "answered", "opening", "settled", "dropped"}

TypeOK ==
  /\ link       \in [Conn -> {"none", "opening", "up", "down"}]
  /\ host       \in [Conn -> {"none", "making", "listening"}]
  /\ heard      \subseteq {"client", "host"} \X Conn
  /\ connecting \subseteq Conn /\ closing \subseteq Conn /\ timer \subseteq Conn
  /\ state      \in [Conn -> {"AUTH_REQUIRED", "AUTHED", "SERVER_CLOSED"}]
  /\ hostAuthed \subseteq Conn /\ authed \subseteq Conn
  /\ waiter     \in [Conn -> {"none", "waiting", "open", "close"}]
  /\ op         \in [Op -> Stage]
  /\ verdict    \in [Conn -> {"none", "allow", "deny"}]
  /\ served     \subseteq Call

Init ==
  /\ link = [c \in Conn |-> "none"] /\ host = [c \in Conn |-> "none"]
  /\ heard = {} /\ connecting = {} /\ closing = {} /\ timer = {}
  /\ state = [c \in Conn |-> "AUTH_REQUIRED"]
  /\ hostAuthed = {} /\ authed = {}
  /\ waiter  = [c \in Conn |-> "none"]
  /\ op      = [o \in Op |-> "unused"]
  /\ verdict = [c \in Conn |-> "none"]
  /\ served  = {}

Goes(o, from, to) == op[o] = from /\ op' = [op EXCEPT ![o] = to]

\* The socket ends.  What was on its way to the side that ends it is lost, and
\* the close event of both sides is due.
Shut(c, inflight) ==
  /\ link' = [link EXCEPT ![c] = "down"]
  /\ op' = [o \in Op |-> IF ConnOf(o) = c /\ op[o] = inflight THEN "dropped" ELSE op[o]]

\* ISocketComms.onclose at the client: authorized() is rejected.
ClientOnclose(c) ==
  /\ authed' = authed \ {c}
  /\ waiter' = [waiter EXCEPT ![c] = IF @ = "waiting" THEN "close" ELSE @]

-----------------------------------------------------------------------------
(* The socket *)

\* PeerParty.start, and authorized() before any event of the socket.
Start(c) ==
  /\ link[c] = "none"
  /\ link'   = [link EXCEPT ![c] = "opening"]
  /\ waiter' = [waiter EXCEPT ![c] = "waiting"]
  /\ UNCHANGED <<heard, hostVars, authed, op>>

\* The server accepts: handleConnection makes a PeerParty and starts it, and
\* the client's connect event is due.
Accept(c) ==
  /\ link[c] = "opening"
  /\ link' = [link EXCEPT ![c] = "up"]
  /\ host' = [host EXCEPT ![c] = "making"]
  /\ UNCHANGED <<heard, connecting, closing, timer, state, hostAuthed, verdict,
                 served, clientVars, op>>

\* Nobody listens there, or the timeout of socketInit ends the attempt.
Refuse(c) ==
  /\ link[c] = "opening"
  /\ link' = [link EXCEPT ![c] = "down"]
  /\ UNCHANGED <<heard, hostVars, clientVars, op>>

\* The host's PeerComms.start puts its listeners on the socket, which looks open
\* until its close event comes: the connect event is due.
Listen(c) ==
  /\ host[c] = "making"
  /\ host' = [host EXCEPT ![c] = "listening"]
  /\ connecting' = connecting \cup {c}
  /\ UNCHANGED <<link, heard, closing, timer, state, hostAuthed, verdict, served,
                 clientVars, op>>

\* It is too late: the close event went by before, and no connect event comes.
ListenLate(c) ==
  /\ host[c] = "making" /\ link[c] = "down"
  /\ host'  = [host EXCEPT ![c] = "listening"]
  /\ heard' = heard \cup {<<"host", c>>}
  /\ UNCHANGED <<link, connecting, closing, timer, state, hostAuthed, verdict,
                 served, clientVars, op>>

\* The network ends the socket.
Break(c) ==
  /\ link[c] = "up"
  /\ link' = [link EXCEPT ![c] = "down"]
  /\ UNCHANGED <<heard, hostVars, clientVars, op>>

-----------------------------------------------------------------------------
(* The client *)

\* onopen: the auth operation makes its offer and sends it.
Onopen(c) ==
  /\ host[c] # "none"
  /\ Goes(c, "unused", "sealing")
  /\ authed' = authed \ {c}
  /\ UNCHANGED <<link, heard, hostVars, waiter>>

\* call throws unless the client is authed.
Begin(k) ==
  /\ Target[k] \in authed
  /\ Goes(k, "unused", "sealing")
  /\ UNCHANGED <<link, heard, hostVars, clientVars>>

\* A socket that closed takes what it is given and drops it.
Send(o) ==
  /\ Goes(o, "sealing", IF link[ConnOf(o)] = "up" THEN "sent" ELSE "dropped")
  /\ UNCHANGED <<link, heard, hostVars, clientVars>>

Receive(o) ==
  /\ <<"client", ConnOf(o)>> \notin heard
  /\ Goes(o, "answered", "opening")
  /\ UNCHANGED <<link, heard, hostVars, clientVars>>

\* The reply of the auth operation says success, whatever the host decided.
AuthReply(c) ==
  /\ Goes(c, "opening", "settled")
  /\ authed' = authed \cup {c}
  /\ waiter' = [waiter EXCEPT ![c] = IF @ = "waiting" THEN "open" ELSE @]
  /\ UNCHANGED <<link, heard, hostVars>>

CallReply(k) ==
  /\ Goes(k, "opening", "settled")
  /\ UNCHANGED <<link, heard, hostVars, clientVars>>

ClientStop(c) ==
  /\ link[c] \in {"opening", "up"}
  /\ Shut(c, "answered")
  /\ ClientOnclose(c)
  /\ UNCHANGED <<heard, hostVars>>

MClientHears(c) ==   \* mutant: nobody is told
  /\ link[c] = "down" /\ <<"client", c>> \notin heard
  /\ heard' = heard \cup {<<"client", c>>}
  /\ Shut(c, "answered")
  /\ authed' = authed \ {c}
  /\ UNCHANGED <<waiter, hostVars>>

\* The close event at the client: socketStop, close, onclose.
ClientHears(c) ==
  /\ link[c] = "down" /\ <<"client", c>> \notin heard
  /\ heard' = heard \cup {<<"client", c>>}
  /\ Shut(c, "answered")
  /\ ClientOnclose(c)
  /\ UNCHANGED hostVars

-----------------------------------------------------------------------------
(* The host *)

\* handleClientConnection.
HandleClientConnection(c) ==
  /\ c \in connecting
  /\ connecting' = connecting \ {c}
  /\ timer' = timer \cup {c}
  /\ UNCHANGED <<link, heard, host, closing, state, hostAuthed, verdict, served,
                 clientVars, op>>

MHandleAuthTimeout(c) ==   \* mutant: the connection is left open
  /\ c \in timer
  /\ timer' = timer \ {c}
  /\ UNCHANGED <<link, heard, host, connecting, closing, state, hostAuthed, verdict,
                 served, clientVars, op>>

HandleAuthTimeout(c) ==
  /\ c \in timer
  /\ timer'   = timer \ {c}
  /\ closing' = IF c \in hostAuthed THEN closing ELSE closing \cup {c}
  /\ UNCHANGED <<link, heard, host, connecting, state, hostAuthed, verdict, served,
                 clientVars, op>>

\* A message comes before the host listens: it is lost.
Arrive(o) ==
  LET c == ConnOf(o) IN
  /\ <<"host", c>> \notin heard
  /\ Goes(o, "sent", IF host[c] = "listening" THEN "arrived" ELSE "dropped")
  /\ UNCHANGED <<link, heard, hostVars, clientVars>>

\* An auth operation only before the client is known, a call only when AUTHED.
AuthorizeOperation(o) ==
  state[ConnOf(o)] = IF o \in Conn THEN "AUTH_REQUIRED" ELSE "AUTHED"

MHandleClientCall(o) ==   \* mutant: the state is not looked at
  /\ Goes(o, "arrived", "judged")
  /\ UNCHANGED <<link, heard, hostVars, clientVars>>

\* What authorizeOperation throws is logged and not answered.
HandleClientCall(o) ==
  /\ Goes(o, "arrived", IF AuthorizeOperation(o) THEN "judged" ELSE "dropped")
  /\ UNCHANGED <<link, heard, hostVars, clientVars>>

\* A signature does not verify, the service's code throws, an endpoint is not
\* there: no answer, and the auth timer goes on.
Throw(o) ==
  /\ op[o] \in {"judged", "working"}
  /\ op' = [op EXCEPT ![o] = "dropped"]
  /\ UNCHANGED <<link, heard, hostVars, clientVars>>

\* isSocketConnectionAllowed said no.  The operation ends in success, and its
\* reply is encrypted while the connection closes.
Deny(c) ==
  /\ Goes(c, "judged", "replying")
  /\ verdict' = [verdict EXCEPT ![c] = "deny"]
  /\ timer'   = timer \ {c}
  /\ state'   = [state EXCEPT ![c] = "SERVER_CLOSED"]
  /\ hostAuthed' = hostAuthed \ {c}
  /\ closing' = closing \cup {c}
  /\ UNCHANGED <<link, heard, host, connecting, served, clientVars>>

Allow(c) ==
  /\ Goes(c, "judged", "working")
  /\ verdict' = [verdict EXCEPT ![c] = "allow"]
  /\ UNCHANGED <<link, heard, host, connecting, closing, timer, state, hostAuthed,
                 served, clientVars>>

MAuthorize(c) ==   \* mutant: the reply goes out before the state is set
  /\ Goes(c, "working", "replying")
  /\ timer' = timer \ {c}
  /\ hostAuthed' = hostAuthed \cup {c}
  /\ UNCHANGED <<link, heard, host, connecting, closing, state, verdict, served,
                 clientVars>>

\* recoverStream returns, and nothing asks whether the socket is open still.
Authorize(c) ==
  /\ Goes(c, "working", "replying")
  /\ timer' = timer \ {c}
  /\ hostAuthed' = hostAuthed \cup {c}
  /\ state' = [state EXCEPT ![c] = "AUTHED"]
  /\ UNCHANGED <<link, heard, host, connecting, closing, verdict, served, clientVars>>

\* handleCallOp: the identity is looked up, and the endpoint runs.
Serve(k) ==
  /\ Goes(k, "judged", "working")
  /\ served' = served \cup {k}
  /\ UNCHANGED <<link, heard, host, connecting, closing, timer, state, hostAuthed,
                 verdict, clientVars>>

Return(k) ==
  /\ Goes(k, "working", "replying")
  /\ UNCHANGED <<link, heard, hostVars, clientVars>>

Reply(o) ==
  /\ Goes(o, "replying", IF link[ConnOf(o)] = "up" THEN "answered" ELSE "dropped")
  /\ UNCHANGED <<link, heard, hostVars, clientVars>>

\* close, once destroyNode returned: the socket is destroyed, and onclose.  The
\* state stays what it is.
HostClose(c) ==
  /\ c \in closing
  /\ closing' = closing \ {c}
  /\ Shut(c, "sent")
  /\ hostAuthed' = hostAuthed \ {c}
  /\ UNCHANGED <<heard, host, connecting, timer, state, verdict, served, clientVars>>

\* The close event at the host: socketStop closes, once more if the host did.
HostHears(c) ==
  /\ host[c] = "listening" /\ link[c] = "down" /\ <<"host", c>> \notin heard
  /\ heard'   = heard \cup {<<"host", c>>}
  /\ closing' = closing \cup {c}
  /\ op' = [o \in Op |-> IF ConnOf(o) = c /\ op[o] = "sent" THEN "dropped" ELSE op[o]]
  /\ UNCHANGED <<link, host, connecting, timer, state, hostAuthed, verdict, served,
                 clientVars>>

-----------------------------------------------------------------------------
Socket(c) == Accept(c) \/ Refuse(c) \/ Listen(c) \/ ListenLate(c)

\* What handleClientCall, encryption and decryption do next with an operation.
Progress(o) ==
  \/ Send(o) \/ Arrive(o) \/ HandleClientCall(o) \/ Throw(o)
  \/ Reply(o) \/ Receive(o)
  \/ o \in Conn /\ (Deny(o) \/ Allow(o) \/ Authorize(o) \/ AuthReply(o))
  \/ o \in Call /\ (Serve(o) \/ Return(o) \/ CallReply(o))

Next ==
  \/ \E c \in Conn :
       \/ Start(c) \/ Socket(c) \/ Break(c)
       \/ Onopen(c) \/ ClientStop(c) \/ ClientHears(c)
       \/ HandleClientConnection(c) \/ HandleAuthTimeout(c)
       \/ HostClose(c) \/ HostHears(c)
  \/ \E k \in Call : Begin(k)
  \/ \E o \in Op : Progress(o)

\* Sockets open or fail within their timeout and report their end; timers fire;
\* promises of the crypto library and of the topic host settle.
Fairness ==
  /\ \A c \in Conn :
       /\ WF_vars(Socket(c)) /\ WF_vars(ClientHears(c))
       /\ WF_vars(HandleClientConnection(c)) /\ WF_vars(HandleAuthTimeout(c))
       /\ WF_vars(HostClose(c))
  /\ \A o \in Op : WF_vars(Progress(o))

Spec == Init /\ [][Next]_vars /\ Fairness

-----------------------------------------------------------------------------
(* Properties *)

\* An open connection that is not authed is on the auth timer, or is being
\* closed: no order of timeout, verdict, late recovery and socket events leaves
\* a stranger connected for good.
UnauthedIsTimed ==
  \A c \in Conn :
     host[c] = "listening" /\ c \notin connecting /\ link[c] = "up"
       => c \in hostAuthed \cup timer \cup closing

\* An endpoint runs only for a client the service allowed, also while a denied
\* client that was told of success still has its socket.
ServedWereAllowed == \A k \in served : verdict[Target[k]] = "allow"

\* A client that believes to be authed meets a host that agrees, unless it was
\* denied: from then on the host takes its calls and its stream.
HandshakeAgrees ==
  \A c \in authed : verdict[c] = "allow" => state[c] = "AUTHED"

\* authorized() is settled in the end: the offer may be lost, thrown away or
\* never answered, and the connection refused, broken, timed out or stopped.
AuthorizedSettles == \A c \in Conn : waiter[c] = "waiting" ~> waiter[c] # "waiting"
=============================================================================

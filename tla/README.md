# dataparty-api in TLA+

dataparty-api is a JavaScript framework for applications whose data lives in a
*party*: a client side with a query builder, a document cache and a transport,
and a host side with a database, topics and services.  This directory holds its
formal model: TLA+ modules translated from `src/`, TLC configurations that check
them on small instances, and proofs that TLAPS checks for every instance.

Contents: [inventory](#inventory) · [the modules](#the-modules) ·
[the runs](#the-runs) · [fairness](#fairness) · [what is proved](#what-is-proved) ·
[divergences](#divergences-between-code-and-documents) ·
[what is not modelled](#what-is-not-modelled) · [plan](#plan)

## How to run it

    tlc -config MCQueryBackend_queued.cfg MCQueryBackend.tla    # any row of the table of runs
    tlapm ClientProofs.tla                                       # and the other proof modules

`PROJECT.json` lists the components, runs, mutants (one plausible bug for every
property of every passing run, which TLC must find), the source lines each
definition stands for, the hazards and the theorems.

## Inventory

Paths are relative to `src/src/`.  JavaScript has one thread: what runs between
two `await`s, or until a callback returns, cannot be interrupted.  All the
concurrency is in what happens *between*: replies, timers, socket events and
other callers.

### Party (client side), `party/`

| component | state | operations | interacts with |
|---|---|---|---|
| Qb, Crufl (`qb.js`, `crufl.js`) | `crufls`, `find_map`, `send_queue`, `send_timer`; per crufl a result and a timer | find, lookup, create, modify; onReply, onTimeout, send timer | the cache (populate, insert), `party.call` (a transport or a local Db) |
| LokiCache (`loki-cache.js`) | collections of documents; listeners | insert, populate, findById, remove | written by Crufl, read by Qb, heard by IDocument |
| Query, IDocument, DocumentFactory (`query.js`, `idocument.js`, `document-factory.js`, `clerk.js`) | the data of one document, its watch state | exec, create, save, pull, remove, watch, autopull | Qb; the events of the cache; topics through the PeerParty |
| IParty and its subclasses (`iparty.js`, `local/`, `cloud/`, `mongo/`, `peer/peer-party.js`) | hosts, started | start, call | config, Qb, comms |
| party start and identity (`iparty.js`, `local/local-party.js`) | identity, config, db, started | start, setIdentity, resetIdentity, loadIdentity | JsonFileConfig, a Db |
| EphemeralClient (`peer/ephemeral-client.js`) | `sessionKey`, `sessionExpiry`, `sessionTimer`, `restParty`, `wsParty`, `reconnectTimer` | start, stop, rollSessionKey, handleWsClose, doReconnect | RestComms (announce), WebsocketComms (auth) |
| MatchMakerClient, PeerInvite (`peer/`) | invites and their state | invite, accept, reject, establish | WebRTC |

*Hard:* replies that are late, partial, duplicated or out of order; finds that
share one request; caches shared by several callers; objects shared between the
cache and documents; edits that race replies; session keys that expire in use.
*Correct when:* every promise settles, once, with the answer to its own request;
what a find answers is complete and no older than the backend was when it was
made; with one writer, a revision names one content.

### Bouncer (data side), `bouncer/`

| component | state | operations | interacts with |
|---|---|---|---|
| AdminCrufler (`crufler-admin.js`) | none | evaluates find, lookup, create, update, remove | a Db |
| LokiDb, TingoDb, ZangoDb, MongoDb (`db/`, `idb.js`) | documents with `$meta.revision` | find, insertMany, update, remove; change events | the topic host hears the events |
| mongo-query, models, validation | none | translate, validate | Db |

*Hard:* requests of several messages that fail half way; revisions under
concurrent writers; nothing compares the revision of an update with the stored one.
*Correct when:* each stored update has the next revision; an answer carries what
was stored; an error is told to whoever asked.

### Comms and topics, `comms/`, `topics/`

| component | state | operations | interacts with |
|---|---|---|---|
| PeerComms, ISocketComms, SocketOp, AuthOp, HostOp | host state AUTH_REQUIRED, AUTHED, SERVER_CLOSED, CLIENT_CLOSED; ops by id | handshake, auth time-out, call, advertise, subscribe, publish, close | socket, host runner, topic host |
| Loopback, websocket, WebRTC, BLE, I2P transports | connection state | open, send, close | libraries; Loopback is in-process |
| LocalTopicHost, HostTopic, PeerNode | topics, subscribers and advertisers, nodes of peers | advertise, subscribe, unsubscribe, publish, destroyNode, handleDocChange | PeerComms authorises; ServiceRunnerNode routes; Db feeds documents |

*Hard:* operations of one peer overtake each other while they wait for a verdict;
connections close in the middle; one of several sends fails; the auth time-out
races the handshake.
*Correct when:* topics and nodes agree; nothing is delivered without leave;
hanging up leaves nothing behind; an answer means what it says.

### Config, `config/`

| component | state | operations |
|---|---|---|
| SecureConfig | `content`, `identity`, `timer`, `blocked` | setPassword, setIdentity, read, write, clear, writeAll, save, unlock, lock, time-out |
| JsonFileConfig, MemoryConfig, LocalStorageConfig, NconfConfig | a map and its file | read, write, save, reload on change |

*Hard:* reads and writes suspended in key derivation or a cipher while the timer
locks the config under them; several waiters for one event; overlapping unlocks.
*Correct when:* an unlocked config is going to be locked; whoever waits has been
announced; memory and storage agree when nothing is going on.

### Service, `service/`

| component | state | operations | interacts with |
|---|---|---|---|
| ServiceRunnerNode, ServiceRunner (`service-runner-node.js`, `service-runner.js`), endpoint contexts, `sandbox/` | `started`, loaded endpoints, middleware, tasks, topics; the routes of its router | start, stop, loadEndpoint, loadMiddleware, loadTopic, the pipeline of a request (pre, endpoint, post, send), getTopic | hears the requests ServiceHost accepts; answers the topics of LocalTopicHost |
| ServiceHost, ServiceHostWebsocket | `started`, `apiServer`, `errorHandlerTimer`, mDNS and I2P handles; per websocket `isAlive` | start, stop, handleServerError, connect, checkClients | makes a PeerParty of each websocket; hands HTTP requests to a runner or a router |
| session keys (`endpoints/key-announce.js`, `middleware/pre/ephemeral-session.js`, `tasks/cleanup-ephemeral-sessions.js`) | documents `session_key` and `public_key` | announce, use, expire, clean up | EphemeralClient announces; every endpoint behind the middleware uses |
| RunnerRouter (`runner-router.js`) | runners by domain and by party | addRunner, removeRunnerByDomain, route | Venue fills it |
| ServiceBuilder | files | build | |

*Hard:* a load that is suspended while another start, a stop or a request comes;
announcements of one key that overlap each other and the clean-up; server
errors, restart timers and stops that overlap; peers that vanish without closing.
*Correct when:* a routed endpoint is complete; every request is answered; an
announced key is usable until it expires and is then removed; a host that
stopped serves nobody; only a peer that owes a pong is cut off.

### Venue, `venue/`

| component | state | operations |
|---|---|---|
| create-package, create-project (`venue/endpoints/`) | documents `venue_pkg` and `venue_project`, workspaces, `projects.*` in `config.json` | check, store the document, write the files, write the config |
| venued-host (`venue/bin/commands/venued-host.js`) | `active_projects`, `active_projects_by_name`, `handlingChange` | run, loadProject, unloadProject, handleConfigChange |
| JsonFileConfig (`config/json-file.js`) | the content and the file, which it polls | read, write, reload and the change event |

*Hard:* an upload has three stores and the process may die between any two;
changes of the config come while a change is handled; projects share a domain.
*Correct when:* what is configured can be loaded; one version of a project runs;
what is routed runs.

### Utilities and errors, `utils/`, `errors/`

Schema translation and exceptions, without state.

## The modules

      client side                                        data and service side

    QueryLanguage   what a chain of calls asks of the Db
         |
    QueryBackend    when a call is settled ------->  PartyStore   with what: caches, documents, revisions
         |  implements Requests                          |
         |                                           LocalParty   the waits inside the Db, its files, the identity
         |
    EphemeralClient --- its announcement is a request of ---> SessionKeys   an endpoint, a middleware, a task of
         |                                           ServiceRunner   loads them, answers the requests accepted by
         | its websocket is a connection of               |
    PeerSession     handshake and calls  <---------  ServiceHost   server, watchdog, restart
         | an AUTHED host is a peer of               Venue   which ServiceRunner a domain leads to
    TopicHost       topics and their peers: implements PubSub
                                                     SecureConfig   where a party keeps its keys

The modules meet at the boundaries drawn above and share no variables: each one
takes what another promises as the assumption of an action.  `EphemeralClient`
has an `Authorized` and an `AuthFails` where `PeerSession` follows the
handshake; its `Stored` is the `CreateSession` of `SessionKeys`; `TopicHost`
starts where `PeerSession` has authed a connection, and `ServiceHost.Connect`
is where a connection of `PeerSession` begins.  What `PartyStore` does in one
step of the backend, `LocalParty` splits into the waits of each Db.

| module | models | state and actions |
|---|---|---|
| `Requests` | abstract: the promise a query returns is settled once, together with all that share its request | `outcome`, `awaits` |
| `PubSub` | abstract: members of a topic were granted it, a message is for those in its topic, a publication is confirmed when all of them who are still there have it | `present`, `subscribed`, `advertised`, `publication`, `addressed`, `delivered` |
| `QueryBackend` | Qb and Crufl | the fields of Qb and Crufl under their own names, and `asks`, the requests whose `call()` has not returned. `Find`, `JoinFind`, `Lookup`, `LookupHit`, `Modify` are the entry points up to their first real wait; `OnSendTimer`, `OnReply`, `CallThrows`, `OnTimeout` the callbacks |
| `PartyStore` | a Db behind an AdminCrufler, one LokiCache per client, the documents that tasks hold | `Find` ... `Remove` are the calls, `Serve...` the backend's handling, `Get...` the processing of a reply, `HandleWatchMsg` a change event that reaches a watched document (autopull, flushcache). `alias` records which documents *are* the object in the cache, `stuck` which cached objects lost their `$loki` |
| `LocalParty` | start and identity of a LocalParty over a JsonFileConfig; LokiDb, TingoDb and ZangoDb; death of the process | `party`, `changing`, `identity`, `kept` are the start and the config file; `store` and `saved` the collection in memory and in the file; a call goes document by document, with one action for each wait of each Db (`LokiUpdate`, `ZangoRead`, `ZangoUpdate`, ...); `Crash` at any time |
| `QueryLanguage` | Query: the chain, `exec`, and MongoQuery | the tree in `spec.match` as a sequence of `nodes`, with `currentMatch`, `currentWhere` and the three stacks under their own names; one action per method; `Exec` hands over the spec, `Send` reads it |
| `TopicHost` | LocalTopicHost, HostTopic, PeerNode, under PeerComms.authorizeOperation | an operation is received, routed, asked about, allowed or denied, and answered; sends and hang-ups happen between |
| `PeerSession` | a websocket between two PeerComms: handshake, auth timer, peer calls, closing | `link` is the socket and `heard` who was told of its end; `op` follows each SocketOp, the auth operation included, through encryption, the wire, decryption, the host's handling, and back; `timer`, `closing`, `state`, `hostAuthed`, `authed` are the fields of the two sides, `waiter` the promise of `authorized()` |
| `EphemeralClient` | EphemeralClient and the calls of RestComms it makes | `starting` is how far `start` or a roll is (`Start`, `Seeded`, `CreateSessionAnnoucement`, `GetServiceIdentity`, `Stored`, `Announced`, `AnnounceFails`, `Connect`); a websocket goes through `Opened`, `Authorized` and `Breaks`, and its `ErrorEvent` and `CloseEvent` come later; `RollSessionKey`, `DoReconnect`, `Tick` are the timers |
| `SessionKeys` | the endpoint, the middleware and the task about session keys | a request is received, checks, finds, creates or fails, one step per query; the task's timer, look-up and removal (`OnTimeout`, `LookupSessions`, `Remove`, `CleanupFails`, `Stop`) |
| `ServiceRunner` | ServiceRunnerNode and its sandboxed twin | `loader` is each call of `start` with what it has left to load, one step per await; `request` is a request with what is left of its pipeline (`RunMiddleware`, `RunSandboxed`, `Send`, `Throws`, `ThrowsNothing`, `NoContext`, `SandboxCatches`, `SandboxThrows`); `awaited` says whether a caller awaits the handler (`InternalRequest`) or the router does not |
| `ServiceHost` | ServiceHost and ServiceHostWebsocket | `apiServer`, `mdns`, `i2p`, `timer` are its fields, `orphans` timers that nothing refers to any more; `Stop`, `Unpublished`, `Closed` are the awaits of stop, `Stopped` says that one found the server listening; mDNS and I2P are on or off from `Listening` on; `CheckClients`, `Pong`, `Vanish` the watchdog |
| `Venue` | uploads, venued-host in cloud mode, RunnerRouter, the poll of config.json | `CreatePackage`, and for a project `CreateProject`, `CreateDocument`, `WriteFiles`, `WriteConfig`; `Setup`, `RunStarts` and the workers `run` and handlers with `Compare`, `UnloadProject`, `LoadProject`, `StartRunners`, `AddRunner`; `StepFails`, `Crash` |
| `SecureConfig` | SecureConfig over another config | tasks that set up, read, write, clear or unlock, one step per await; `Lock` and the time-outs between any two steps |
| `ClientProofs` | theorems about QueryBackend and EphemeralClient, the refinement of `Requests` among them | |
| `PartyHostProofs` | theorems about TopicHost and LocalParty, the refinement of `PubSub` among them | |
| `ServiceProofs` | theorems about ServiceHost and ServiceRunner | |
| `SessionProofs` | theorems about PeerSession and SessionKeys | |
| `PartyStoreProofs`, `SecureConfigProofs`, `VenueProofs` | theorems about the module of that name | |
| `QueryProofs` | theorems about QueryLanguage | |
| `MC...` | model values and sets for TLC | |

Definitions whose name starts with `M` and that are marked *mutant* are not part
of any specification: each is a plausible bug of the definition after it, and a
run must notice when it is put in its place.

So that one module of proofs can extend two components, EphemeralClient,
LocalParty, ServiceRunner and SessionKeys have a prefix where others say `Init`,
`Next`, `Spec`, `TypeOK` and `vars` (`ClientInit`, `PartyInit`, `RunnerInit`,
`KeysInit`, ...), as `QbSpec` has; `start`, `stop` and `started` of the runner are `StartNode`,
`StopRunner` and `runnerStarted`.  `QueryBackend` instantiates `Requests` with its
own `outcome` and `awaits`; `TopicHost` instantiates `PubSub` with its members,
`addressed` and `got`, and the stages of its publishing operations.

### Abstractions

- **QueryBackend.** Equal specs have equal hashes.  A result holds messages,
  nothing, an error, or is invalid; which documents it holds is PartyStore's
  question.  Promises between two real waits resolve in microtasks, which no timer
  can cut, so a handler is one step up to the next timer or network wait.  A
  lookup that hits the cache in part goes on with the crufl of the misses; the
  one it was made with is never registered and settles nobody.
- **PartyStore.** A document is a revision and a value that no other write has.
  The backend serves a request in one step, the client processes a reply in one
  step, and replies come in any order.  An IDocument's data may be the cached
  object itself, so an edit reaches the cache before any save.  A task that
  watches hears of a change while it makes no call of its own.  LokiCache behaves
  as lokijs 1.5.12 does with a copy that lost its `$loki`: it cannot be removed, so
  a flush leaves it and the autopull is answered by it.
- **LocalParty.** A document is one field per task; a task writes its own field.  A
  write of JsonFileConfig is one step, as its synchronous file write is.  Validation
  rejects or not.  LokiJS saves its file when its autosave timer fires; TingoDB and
  Zango keep what they acknowledge.  A caller may give a create an `_id` that is
  there: Tingo and Zango refuse it, LokiDb stores a second document with it.  The
  model follows the one of the two that findOne finds, either of them, and a remove
  takes both.  A find reads its collection in one step and is PartyStore's.
- **QueryLanguage.** A field of a document is absent, a plain value or a list;
  what a single condition means is the Db's, external, in `LeafHolds`.  Ids are
  well formed.
- **TopicHost.** A peer is one authenticated connection.  What the service's
  topic code decides is the constant `Granted`; it does not change its mind.
- **PeerSession.** A client is the one of this repository: it offers once, calls
  only when authed, and does not forge.  What the service's code answers
  (`isSocketConnectionAllowed`, an endpoint, a throw) is open at every step.  A
  message in flight and one being decrypted differ in one thing: when the socket
  ends at the receiver, the first is lost and the second is still handled.  A link
  that goes silent without closing is the watchdog's, in ServiceHost.
- **SecureConfig.** A password is right or wrong.  The value a write stores is
  the writing task.  The underlying config writes at once, as JsonFileConfig and
  MemoryConfig do.  The ciphers are a library's: each may take time, so timers may
  fire during them.  No timer fires between the `unlocked` event and the
  microtasks it starts.  One set-up is under way at a time.  An application either
  locks and unlocks when it likes, or, as `venue/bin/venue.js` does, only unlocks a
  locked config; either with any password.
- **EphemeralClient.** The client is constructed with the URL of the service or with a
  REST party of the application's (`Given`), for whose keys the application does not
  call `announcePublicKeys` itself.  `wsUrlOrParty` is a URL.  A key is a number, in the order the keys are made.  A start takes
  seconds and a session hours, so the clock stands still during a start.  The
  application does not call `start` while a start is under way.  An exception that
  nobody catches ends its handler and nothing else.  A socket of which nothing is
  left (no event due, nobody refers to it) is used again for a new one.
- **SessionKeys.** An announcement is signed by its key, so its content is a
  function of the key; signatures are right or wrong.  A find that fails reads as
  one that found nothing, as the code has it.  The unique indexes are those of
  Tingo and Mongo, which follow a path; LokiJS's do not.
- **ServiceRunner.** What middleware and endpoints do is open: each returns, throws an
  error, or throws nothing (`null`, `undefined`).  Tasks and topics are lists of
  names, and a task ends when it likes.
- **ServiceHost.** The HTTP server, the websocket library, mDNS and I2P are
  external: each answers or fails, later; mDNS and I2P are on or off.  A peer that
  vanished never answers again and does not close.
- **Venue.** Cloud mode.  A version is its hash, a number, and `Genuine` is the
  set of definitions that their owner signed for this venue.  A version names one
  domain (`Domain`); a project without one is left out.  `System` are the versions
  whose first route is on the SYSTEM party: the router knows them under the venue's
  identity.  `CreatePackage` writes the document and the files in one step, though the
  code waits between them: nothing but the document is read again.  A write to the config file
  sets `changed`, and the poll finds it later, once for any number of writes.

## The runs

| run | instance | checks | shows |
|---|---|---|---|
| `queued` | QueryBackend, 3 calls, 1 spec, debounced, every fault | `TimerCovered FindMapSound NoLeak ResolvedOnAnswer ImplementsRequests EveryCallSettles` | no order of calls, replies, time-outs and exceptions strands a promise, leaks a crufl or splits the callers of one request; timers alone settle every promise |
| `readers` | PartyStore, LokiDb, 2 documents, 2 writes; a task alone on a client without IDocuments writes one document and removes; on another client, with IDocuments, a task writes the second one, finds and watches, and a task finds and removes | `RevisionNamesContent AliasIsCached FindComplete FindIsCurrent` | what a find answers is complete and current, a revision names one content, and documents that took the cached object stay in step with the cache |
| `party` | LocalParty, 2 tasks, 2 documents, each of 3 Dbs, 5 calls, 1 crash | `AckedStands OnlyCreatesBringBack IdentityComesBack` | acknowledged writes stand, no overlapping update brings a removed document back, and the identity survives a death in any step |
| `query` | QueryLanguage, every chain of up to 5 calls over 2 params and 2 conditions, sample documents | `TreeIsParse AskedIsMeant` | the tree is the one the chain spells, and the Db is asked for the documents the chain describes |
| `topics` | TopicHost, 2 peers, 2 topics, 4 operations, a document change | `NodesAgree OnlyGranted AnsweredIsWritten ImplementsPubSub` | topics and nodes agree, hanging up is complete, no message goes astray; every step is one of the abstract topics or does not show in them |
| `session` | PeerSession, 1 connection, 2 calls | `UnauthedIsTimed ServedWereAllowed HandshakeAgrees AuthorizedSettles` | no order of messages, decryptions, verdicts, time-outs and closings leaves a stranger connected, serves a client that was denied, or strands a promise of `authorized()` |
| `client` | EphemeralClient, 2 sockets, 3 keys, clock 0 to 6, sessions of 3, roll at 2 | `AnnouncedFirst LostIsRetried` | a client that makes its own REST party opens a websocket only under a session the service knows, and a lost connection is tried again |
| `keys` | SessionKeys, 2 keys of 1 actor, 3 requests, clock 0 to 4 | `AnnouncedIsUsable ExpiredIsRemoved` | overlapping announcements of one actor, uses and clean-ups: announced is usable, expired goes |
| `runner` | ServiceRunner, 2 calls of start, 2 requests, 2 endpoints that share a middleware, a topic and a task; sandboxed and not | `RoutedIsReady LoadedOnce RequestsAreAnswered` | what is routed is complete and loaded once, and every routed request is answered, but for one from outside a phase of which throws nothing |
| `host` | ServiceHost, 2 peers, 2 calls of stop, a restart timer and one it replaced | `StoppedIsGone TerminatedOwesPong VanishedIsDropped` | a host that stopped never listens again, has no peer left and no forward but one set up behind its back; the watchdog ends the connections of vanished peers and no others |
| `venue` | Venue, 2 projects, 3 versions, one forged, 2 domains that versions of both projects name, versions on the SYSTEM party, 3 uploads, 2 handlers, 1 crash | `RoutedIsRunning OneVersionActive ConfiguredIsStored` | a domain leads to a running version only, a project's party also to one a handler is stopping or failed to stop; one version of a project is active, what is configured can be loaded |
| `config` | SecureConfig, 5 tasks, 2 keys, new or set up with a password or a key; both kinds of application | `OnlyAFailedUnlockDisarms BlockedIsWaiting MemoryIsStored UnlockUnlocks` | what has an identity keeps a timer or an unlock that will set one, unless an unlock fails; every waiter is announced, and no write that races a time-out leaves memory and storage apart |

### Bounds, and why they are enough

- *QueryBackend*: a call is used once.  Three calls are one that owns a request,
  one that joins it and one that comes after it ended, or three requests in one
  queue; a call has two crufls, so six crufls and their timers overlap.  The
  proofs need no bound.
- *PartyStore*: two tasks share a cache, a Qb and IDocuments, so that one joins
  the other's finds, reads what the other inserted and is told of its events; the
  third has a cache of its own, which goes stale.  `Writer` gives each document its
  writers, since what holds of it depends on who writes it: the writer of the first
  is alone and without IDocuments (`OneWriter`), the writer of the second is not, and
  edits the very object in the cache.  The second client reads and removes both.
  Two documents make partial hits, which a single one cannot; two writes
  (`MaxWrites`) make an old, a new and a missing version.  With three, a writer with
  IDocuments gives one revision to two contents, which is why
  `RevisionNamesContent` asks for `OneWriter`.  The roles only choose who does what:
  any task may be in all of them, and the proofs need neither them nor a bound.
- *LocalParty*: five calls are made in all (`MaxCalls`): two tasks overlap two
  each, an update of both documents among them, and one comes after a crash; a second
  crash starts from a state the first one has reached.  Identities count as calls.
- *QueryLanguage*: five calls open a scope, put a condition in it, close it, and
  go on outside; or nest two scopes.  Deeper nesting repeats the stack.
- *TopicHost*: four operations let a peer advertise, another subscribe, and two
  more overlap with both; the proofs need no bound.  Operations are
  interchangeable, and so are a symmetry set (the run has no liveness property).
- *PeerSession*: connections share nothing but the topic host, so one connection
  shows what one does; two calls overtake each other and the auth reply.  The
  proofs need no bound.
- *SecureConfig*: five tasks are two unlocks and three reads or writes, or any
  other mix; tasks and keys are interchangeable.  The proofs need no bound.
- *EphemeralClient*: three keys are a first one, its roll and one after a failed
  start; two sockets are an old one with events due and the new one.  When both are
  in use a third cannot be opened: `LostIsRetried` says so.
- *SessionKeys*: two keys of one actor meet in the creation of the actor, three
  requests are two announcements and a use, or a late announcement; the clock runs
  from before the acceptance of a key to after its expiry.
- *ServiceRunner*: two calls of start are a start and one that overlaps it or
  follows a stop; two endpoints share a middleware, which only one of them may load.
- *ServiceHost*: two overlapping stops, one of which may be the error handler's; two
  server errors with their timers (`MaxTimer`); two peers, one vanished, one not.
- *Venue*: three uploads are two versions of one project and one of another, or
  three of one; two handlers are one that works and one that comes meanwhile; a crash
  finds every step of both.

Deadlock is not checked where the system may stop: calls, operations and tasks
are used once, and when all are over nothing is left to do.

## Fairness

Six modules state liveness, each under its own assumptions.

`PeerSession`: a socket opens or fails within the time-out that `socketInit` sets,
the host puts its listeners on it (`PeerParty.start` returns), the runtime emits
the events of a socket and fires timers, and promises of the crypto library, of
the service and of `destroyNode` settle one way or the other (`Progress`, of which
throwing is a part).  Nothing is assumed of the network but that the end of a
socket is reported to both sides: a message may be lost by coming early or late.

`QueryBackend`: `TimersFire`: the event loop fires every
armed timer.  `CallsReturn`: the transport ends every `call()` with a reply or an
exception.  With requests queued, the first suffices: `EveryCallSettles` holds
under `TimedSpec` though `call()` may never return.  Without the queue, the second
is needed too (`FairSpec`): a caller waits for `call()` before it waits for its
crufl, and no timer can settle it.  Neither assumes anything about the order of
events, nor that applications go on calling.

`EphemeralClient` (`ClientFairSpec`): the runtime emits the events of a socket that
ended and fires the reconnect timer.  Nothing is assumed of starts, which may fail
each time, nor of the network.

`SessionKeys` (`FairKeysSpec`): the task's timer fires and the clock goes on (weakly),
and the database does not fail for ever: a look-up and a removal that are tried
again and again succeed at last (strongly, for each try may fail in between).

`ServiceRunner` (`RunnerFairSpec`): a middleware, an endpoint and the sandbox's look-up
of where code threw each return or throw, something or nothing; a request that has nothing left to run
is sent.  Starts and stops may never come, or never end.

`ServiceHost`: the watchdog's interval ticks while there are connections, mDNS
unpublishes, and the HTTP server reports that it closed once its last connection
has ended.  No peer is assumed to answer or to leave.

## What is proved

For any sets of calls, specs, clients, documents, tasks, keys, peers, topics and
operations, any options and any faults, under the named assumptions on the
constants (`ConstantsAssumption`, `StoreAssumption`, `SecureConfigAssumption`,
`TopicHostAssumption`, `PeerSessionAssumption`, `SessionKeysAssumption`,
`ServiceHostAssumption`, `VenueAssumption`, `EphemeralClientAssumption`,
`ServiceRunnerAssumption`, `PartyAssumption`, `QueryAssumption`), which say only
that sets do not overlap, that `None` and `Nil` are no members of them, no set of
ids and no documents, that pipelines are sequences of middleware, that no
condition is called `and`, `or` or `elem`, that a session outlives its roll, and
that options, versions and bounds are of their kind. The runs evaluate them.

- **ClientProofs**, of the query backend: `QbInvariant`, hence `QbTypeOK`,
  `QbWatched`, `QbTimerCovered` and `QbFindMapSound`. The inductive invariant
  adds to the properties that an idle call has made nothing (`Fresh`) and that
  only finds have a spec (`SpecOfFind`). They need each other: `TimerCovered`
  needs `FindMapSound` to know that a find that ends leaves the map, and a
  pending promise is `Watched` because joining goes through a sound map. With
  debouncing, `QbImplementsRequests` (`outcome` and `awaits` map to themselves)
  and `QbJoinersAgree`. The argument is that a registered crufl is the one its
  own call waits for (`OwnersWait`) and that a caller always fares like the
  owner of the request it joined (`SharedFate`): one step settles them all. With
  the order in which a call's two crufls come and go (`Trail`: each is sent at
  most once, what was not sent is untouched, the nested crufl begins when the
  root one is over) follow `QbNoLeak`, and `QbResolvedOnAnswer` from
  `OwnersAnswered`: an owner resolves only on an answer, and who joined it fares
  alike. `NoLeak` is false without debouncing, when `call()` throws; the theorem
  says so in its hypothesis.
- **ClientProofs**, of the connection: `EphemeralClientInvariant`, hence
  `EphemeralClientTypeOK` and `EphemeralClientAnnouncedFirst`. A websocket is
  opened by a start, which comes to it only from an answered announcement
  (`StartInOrder`), or by a reconnection, which does not ask: what saves it is
  that it needs a `wsParty`, and that there is one only under an announced key
  (`WsPartyHasKey`), because a roll drops `wsParty` and key together. A start
  skips the announcement of the key it makes when it finds a REST party, so none
  may outlive its key (`RestPartyHasKey`).  All of it is about a client that makes its
  REST party: one that was given a party announces nothing and opens its websocket
  under a key the service has not heard of, which the property says.
- **PartyStoreProofs**: `PartyStoreTypeOK`, `PartyStoreAliasIsCached` and the
  action property `PartyStoreFindComplete` for any writers and any Db, from the
  first half of the invariant, `SInv`: an idle task has no remains of a call
  (`CallsFit`), a document that is not born was never anywhere (`Births`), and a
  find under way has seen, in its headers, its hits or its lookup, each document
  that was there all along (`FindsSee`). `PartyStoreRevisionNamesContent` and
  `PartyStoreFindIsCurrent` for each document with one writer (`OneWriter`),
  whoever writes the others, from the second half, `RInv`: all copies of the
  document, wherever they are, are in one order (`InOrder`), the backend's is
  the newest, and the writer writes over the newest (`WritesNewest`). Most steps
  only hand copies on from one place to another (`HandsOn`), which keeps `RInv`
  (`HandingOnKeeps`, once for all of them); the steps of the writer make a copy
  newer than all others (`NewCopyKeeps`).
- **PartyHostProofs**, of the topics: `TopicHostInvariant`, hence
  `TopicHostNodesAgree`, `TopicHostOnlyGranted`, `TopicHostAnsweredIsWritten`
  and the action property `TopicHostHangUpLeaves`. `OnlyGranted` needs that
  every member was granted its membership and every message on its way was sent
  by who may, to who may (`MembersGranted`, `MessagesGranted`); `HangUpLeaves`
  needs `NodesAgree`, since `destroyNode` asks the node, not the topics
  (no run lists it: `ImplementsPubSub`, which `topics` checks, implies it). On the
  same invariant, with what is on its way being for whom it goes to
  (`SendsInOrder`), rests the refinement `TopicHostImplementsPubSub`, one lemma
  per action: by `NodesAgree` the audience that publish asks the nodes for is the
  subscribers (`AudienceIsSubscribers`) and a hang-up empties every topic; by
  `NobodyForgotten` an answer is a `Confirm`; a send that throws is a `GiveUp`, one
  to a socket that dropped it is not seen.
- **PartyHostProofs**, of the party and its Db: `LocalPartyInvariant`, hence
  `LocalPartyTypeOK`, `LocalPartyAckedStands`, `LocalPartyIdentityComesBack` and the
  action property `LocalPartyOnlyCreatesBringBack`. `AckedStands` needs to know before the
  acknowledgement that the write will stand: while nobody changes the documents
  of a call, no other call has one of them left to replace (`CleanIsAlone`), so
  what it wrote is there, and the id it will create is free (`CleanHasWritten`:
  otherwise LokiDb would acknowledge a document that findOne may miss), and from the acknowledgement on
  nobody is about to undo it (`Standing`), also while the party is down.
  `IdentityComesBack` is part of `OwnInv`: what start has read at each of its
  steps, and that nobody counts on an identity that is being changed.
- **ServiceProofs**, of the host: `ServiceHostInvariant`, hence
  `ServiceHostTypeOK`, `ServiceHostStoppedIsGone` and
  `ServiceHostTerminatedOwesPong`. A host listens once in its life
  (`ListensOnce`), so a stop that closes never closes a later server; it is
  published only while it listens (`PublishedIsListening`); a forward that a stop
  found, or finds, open is closed (`ForwardIsClosed`); and a connection
  is silent only after a ping (`SilentOwesPong`).
- **ServiceProofs**, of the runner: `ServiceRunnerInvariant`, hence
  `ServiceRunnerTypeOK`, `ServiceRunnerRoutedIsReady` and
  `ServiceRunnerLoadedOnce`. `RoutedIsReady` needs, of each load and for each of
  the steps of an endpoint, that its middleware is loaded or still to come
  (`InOrder`): the loads of a start that a stop overtook, too. `LoadedOnce`
  needs that until a stop interrupts a load one call loads at a time, with
  `started` set, and that the endpoint it is at is not loaded yet (`OneLoads`).
- **VenueProofs**: `VenueInvariant`, hence `VenueTypeOK`,
  `VenueConfiguredIsStored`, `VenueOneVersionActive` and `VenueRoutedIsRunning`.
  An upload has stored what its stage says and nobody removes it
  (`UploadsAreStored`), so what reaches config.json is stored whatever crashed
  before. For the host, `OneWorker` is the heart: `run` works only while the
  venue starts, a handler only under `handlingChange`, so no two work at once;
  each worker knows what its earlier steps did (`Knows`: what it is to stop is
  no longer running, what it is to load is not active); an active version is the
  one its project's name leads to (`ActiveIsNamed`); the router's domains lead to
  what runs, each to a version that names it (`RoutesRun`); and a project's party
  leads to one of its versions that is active (`PartiesLead`), which does not run
  only in the hands of a handler that is stopping it, or failed to.
- **SecureConfigProofs**: `SecureConfigInvariant`, hence `SecureConfigTypeOK`,
  `SecureConfigBlockedIsWaiting`, `SecureConfigMemoryIsStored` and the action
  properties `SecureConfigUnlockUnlocks` and `SecureConfigOnlyAFailedUnlockDisarms`:
  every step but a failed unlock keeps the timer, or leaves an unlock under way
  that will set one (`StillLocks`, `WorkStillLocks`, `UnlockStillLocks`). The
  invariant knows that at most one set-up runs and nothing is stored before it
  (`SetUpOnce`). `MemoryIsStored` is about an application that only unlocks a
  locked config: then an unlock meets no identity and nobody who was woken, so
  that what it fetched is still what is stored unless a write that waits in its
  save is going to store it (`Calm`); and such an application has a timer for
  every unlocked config (`SecureConfigVenueRelocks`).
- **SessionProofs**, of the connection: `PeerSessionInvariant`, hence
  `PeerSessionUnauthedIsTimed`, `PeerSessionServedWereAllowed` and
  `PeerSessionHandshakeAgrees`. `UnauthedIsTimed` is inductive by itself; the
  other two need that the stage of the auth operation, the verdict and the state
  go together (`AuthOrder`): a verdict is given once, before it nothing is
  AUTHED, and after the verdict yes no reply leaves before the state is set.
- **SessionProofs**, of the session keys: `SessionKeysInvariant`, hence `SessionKeysTypeOK` and
  `SessionKeysAnnouncedIsUsable`. The session is stored some steps before the
  answer, so the invariant follows an announcement from there on
  (`SessionIsStored`), and the clean-up removes later what it looked up, so what
  it holds must have expired (`OnlyExpiredAreLookedUp`).
- **QueryProofs**: `QueryInvariant`, hence `QueryTypeOK`, `QueryTreeIsParse` and
  `QueryAskedIsMeant`, for chains of any length and nesting. What a chain means is
  defined by looking back along it: a call belongs to the innermost scope that
  is still open (`Parent`), its path is the last `where` in the same element
  (`WhereOf`), the last `ids` and `owner` count. The invariant says that the
  fields hold what such a look finds at the next call (`ScopeStacks`,
  `WhereStack`, `Headers`), and that what `exec` left behind is of the chain as
  it stands (`Executed`). Its heart are the lemmas on a chain and one call more
  (`OpenStep`, `PlainStep`, `CloseStep`, `ElementClosed`): once a scope is
  closed, everything reads as it did at the call that opened it, which is what
  a pop restores. `AskedIsMeant` then compares two recursive functions, what
  MongoQuery makes of the tree and what the chain says. Nodes are numbered in the
  order of the calls that make them (`NodeOf`, one to one and in order), and
  children come after their parents, so the induction is over numbers: a least
  counterexample, or a greatest, contradicts itself (`LeastNumber`, from the
  well-foundedness of `<`). A recursive function is unfolded once it is known
  that its equation has a solution (`MatchSolvable`, `ConditionsUnfold`).

The run `queued` has `Debounce = TRUE`; for `Debounce = FALSE` the branches of
`QueryBackend` are covered by the theorems of ClientProofs, of which only
`QbImplementsRequests`, `QbJoinersAgree`, `QbNoLeak` and `QbResolvedOnAnswer`
ask for debouncing.

Only model-checked: liveness (`EveryCallSettles`, `AuthorizedSettles`,
`LostIsRetried`, `ExpiredIsRemoved`, `RequestsAreAnswered`,
`VanishedIsDropped`), which the prover cannot treat with fairness. Every safety
property a run checks, each action property included, is a theorem, and so is the
type invariant of every module but `Requests` and `PubSub`, which have none. No
module defines a recursive operator; the recursive functions of QueryLanguage are
treated in QueryProofs.

## Divergences between code and documents

Where code and words, or code and its evident intent, part.  The models have the
code's side of those in modelled parts; no run lists them as findings.  A property
that one of them breaks excepts it, and its comment names it.

**Queries and caches.**  A failed operation resolves with no msgs
(`party/crufl.js:98`), though `party/qb.js:31` says `reject` is called on errors.
A reply that leaves results out is not sent again, though `party/qb.js:57` makes
it Qb's duty.  With `debounce < 1` a query's time-out does not settle its promise
while `call()` has not returned.  A lookup reply that an update overtook puts the
old document back into the cache (`party/loki-cache.js:147`), and a watched
IDocument follows it.  `LokiCache.findById` deletes `$loki` from the object in the
collection, so a later insert leaves the old copy in front of the new one
(`party/loki-cache.js:78`), though "cache should follow backend" (147); the old one
survives a flush, answers an autopull and every find of its own revision, and is
what the next save writes over, with a revision that may then have been given
before.  The
event of a watched field throws (`party/idocument.js:439`, `doc` is not defined), and
`unwatch` unsubscribes a function that never subscribed (305).

**Query language.**  "All other query ops ignored" when ids are given
(`party/query.js:142`) is Qb's doing, which makes a lookup of such a spec, not the
translation's.  `.ids()` without ids throws in Crufl.  A chain that goes on while
its exec is queued changes what is sent, but not the hash finds are joined by;
`AskedIsMeant` is about chains left alone.  `select` is never applied, and a sort does not
survive the lookup after the find, except with limit 1.  `$elemMatch` is given an
array.

**Dbs.**  `ZangoDb.update` stores `old.meta.revision++`, the value before the
increment (`bouncer/db/zango-db.js:206`).  `saveDatabase` is promisified and never called
(`bouncer/db/loki-db.js:339`), so LokiDb loses, in a crash, acknowledged writes
since its last autosave.  The unique index of LokiDb on `$meta.id` does not follow
the path (101), so a create with an `_id` that is there is stored and acknowledged
beside the old document (283); `AckedStands` claims nothing of it.  LokiDb and ZangoDb
limit before they sort, and LokiDb ignores the direction.  An update without `$meta.created` makes the document created now; Tingo
acknowledges the update, and the removal, of a document that is not there; what
was stored before an exception half way stays, and the exception is answered as a
result with an error, which resolves.  Two Zango updates that overlap lose one.

**Topics and sessions.**  A document's topic is connected to the Db only if a
subscribe made it (`topics/local-topic-host.js:79`), while an advertise or an
unsubscribe may make it first.  `authorizeOperation` does not know 'unadvertise'.
`PeerNode.unsubscribe` and `unadvertise` never delete.  An operation that waits
while its connection closes puts the node of a dead peer back
(`comms/peer-comms.js:325`), and a publish that overtakes its advertise is dropped
without an answer (360).  `handleAuthOp` ends a denied client's operation in
`Finished_Success` (419).  A host whose `recoverStream` returns after the close
becomes AUTHED (453).  A SocketOp has no time-out (`comms/op/socket-op.js:33`).

**SecureConfig.**  A wrong password given to an *unlocked* config stops its timer
for good (`config/secure-config.js:328`), though the options say it locks after a
time (31); `OnlyAFailedUnlockDisarms` says that nothing else does.  Unlocking an
unlocked config while a write is under way brings older content back
(`MemoryIsStored` is about applications that do not); of two overlapping writes one
is lost, as is a write that a time-out catches before its save (516), though both are
acknowledged.  A key given by `setIdentity` can never be unlocked again.

**EphemeralClient.**  A client that is given a party makes new keys but neither announces
them nor makes a REST party for them (`party/peer/ephemeral-client.js:75`), and opens
its websocket under them (104); `AnnouncedFirst` excepts it.  The close event of an old socket is taken for the
current one's and may replace a healthy connection
(`party/peer/ephemeral-client.js:171`).  A reconnect timer that fires during a roll
throws and leaves `reconnectTimer` set: no later loss is tried again (190);
`LostIsRetried` excepts it by name.  `stop` does not clear the session timer.  A
failed announcement leaves `sessionKey` set.  `checkSessionExpiry` is called by
nobody.

**Service.**  A start that fails half way leaves `started` set, so a second does
nothing; stop leaves endpoints routed; tasks are not added again by a restart; the
clean-up task arms its timer again if stop comes during its queries.  An
endpoint that returns undefined is answered with 500; a request from outside is
never answered if a phase throws null or undefined in ServiceRunnerNode, whose
catch reads `err.message` (`service/service-runner-node.js:613`);
`RequestsAreAnswered` excepts it.  A forward over I2P that is still being set up when
the host stops is opened later and stays (`service/service-host.js:266`);
`StoppedIsGone` excepts it.  ServiceHost never sets `wsEnabled`,
so that stop does not end the websockets and waits for them; never resets
`started`, so that the restart after an error only stops; has no error listener
while it begins to listen; forgets its first restart timer at a second error.

**Venue.**  The first upload of a project while the host runs makes
`handleConfigChange` throw (`venue/bin/commands/venued-host.js:489`) and leaves
`handlingChange` set: from then on every change is ignored.  A change that comes
during another is dropped.  If `run` throws, no change is listened to at all.
`removeRunnerByDomain` drops whoever holds the domain, and a runner of the SYSTEM party is
registered as the venue and never removed (744): requests to the venue's identity go
on to a version that stopped.  `RoutedIsRunning` says nothing of that entry.  The venue's `lookupIdentity` ignores the expiry of sessions.

## What is not modelled

- *Loopback transport*: the four-message handshake of two in-process sockets;
  ISocketComms on top of them is PeerSession's.
- *Other transports* (BLE, WebRTC, I2P, ros): adapters of libraries and devices.
  BLE numbers its packets by bytes and never empties its `rxBuffer`; what a device
  makes of it is not in the repository.
- *MemoryConfig, LocalStorageConfig, NconfConfig*: maps without a protocol.
- *Match making and invites*: cannot work as written (`this.this` at
  `party/peer/peer-invite.js:213`, a global `matchMaker` at 101, a time-out without
  delay at 70, and an invite without a role that `service/service-host-peer.js:27`
  always rejects); a model would be one of exceptions.
- *PeerClient*: cannot be constructed, since it declares `restParty` a getter and
  its base class assigns it.
- *CloudParty, MongoParty, MongoDb*: thin wrappers; what is particular to them is a
  service's.
- *Venue in iot mode* and the older `venue-host.js`: a ServiceHost per project
  without routing.
- *Service builder, command line, utilities*: they read and write files, translate
  schemas and print.
- Of modelled parts: overlapping calls of one `start`, overlapping set-ups of a
  SecureConfig, overlapping changes of an identity, `watchField` and `unwatch`,
  `unadvertise` and the internal topics, which nothing calls, short codes, sort,
  limit and select, a websocket party given to EphemeralClient, and projects of the
  venue without a domain.

## Plan

Done: every module above; proofs of all safety properties and type invariants,
and of the refinements of `Requests` by QueryBackend and of `PubSub` by TopicHost.

To prove next: that a party's write is found again by the client behind it, which
relates PartyStore's backend to LocalParty's Dbs, is a refinement nobody has stated
yet.

To model next: the handshake of two LoopbackSockets, and the iot mode of the venue.

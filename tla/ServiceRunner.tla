---------------------------- MODULE ServiceRunner ----------------------------
(* A service at work: loading its tasks, endpoints, middleware and topics, the
   pipeline a request goes through, stop and start again: ServiceRunnerNode
   (service/service-runner-node.js), and ServiceRunner (service-runner.js), which
   runs the code of endpoints and middleware in sandboxes, knows no tasks and no
   topics, and whose sandboxes look up where the code threw before they throw.

   Every start of a middleware or an endpoint, and every phase of a request, is
   awaited: requests, other calls of start, and stop come in between.  What a
   middleware or an endpoint does is left open; each may throw, an error or
   nothing (null, undefined). *)
EXTENDS Naturals, Sequences, Functions

CONSTANTS
  Call,          \* calls of start
  Request,
  Endpoints,     \* compiled.endpoints, in their order
  Topic,
  Task,          \* tasks with autostart
  Pre, Post      \* per endpoint, its middleware in the order they run

Endpoint == Range(Endpoints)
Middleware == UNION {Range(Pre[e]) \cup Range(Post[e]) : e \in Endpoint}

ASSUME ServiceRunnerAssumption ==
  /\ Endpoints \in Seq(Endpoint)
  /\ Pre \in [Endpoint -> Seq(Middleware)] /\ Post \in [Endpoint -> Seq(Middleware)]

VARIABLES
  sandboxed,     \* this is a ServiceRunner, not a ServiceRunnerNode
  runnerStarted, \* the field started
  tasks,         \* tasks that are loaded
  running,       \* tasks the task runner runs
  middleware,    \* middleware that is loaded
  endpoint,      \* this.endpoint: endpoints that are loaded
  routes,        \* how often the router was given each endpoint
  topics,        \* topics that are loaded
  loader,        \* where each call of start is, and what it has left to load
  request,       \* where each request is, and what is left of its pipeline
  interrupted    \* a stop came while something was loading

loadVars == <<sandboxed, runnerStarted, tasks, running, middleware, endpoint, routes, topics, loader, interrupted>>
runnerVars == <<loadVars, request>>

LoaderStage == {"idle", "tasks", "next", "endpoint info", "middleware",
                "middleware info", "mounting", "starting",
                "loaded", "early", "failed"}

RequestStage == {"new", "running", "locating", "answered", "error", "unrouted", "threw nothing"}

RunnerTypeOK ==
  /\ sandboxed \in BOOLEAN /\ runnerStarted \in BOOLEAN /\ interrupted \in BOOLEAN
  /\ tasks \subseteq Task /\ running \subseteq Task /\ topics \subseteq Topic
  /\ middleware \subseteq Middleware /\ endpoint \subseteq Endpoint
  /\ routes \in [Endpoint -> Nat]
  /\ loader \in [Call -> [stage : LoaderStage, todo : Seq(Endpoint), mid : Seq(Middleware)]]
  /\ request \in [Request -> [stage : RequestStage, rest : Seq(Middleware \cup {"run"}),
                              awaited : BOOLEAN]]

RunnerInit ==
  /\ sandboxed \in BOOLEAN
  /\ runnerStarted = FALSE /\ tasks = {} /\ running = {} /\ topics = {}
  /\ middleware = {} /\ endpoint = {} /\ routes = [e \in Endpoint |-> 0]
  /\ loader  = [l \in Call |-> [stage |-> "idle", todo |-> Endpoints, mid |-> <<>>]]
  /\ request = [r \in Request |-> [stage |-> "new", rest |-> <<>>, awaited |-> FALSE]]
  /\ interrupted = FALSE

At(l, stage) == loader[l].stage = stage
Goes(l, stage) == loader' = [loader EXCEPT ![l].stage = stage]
Loading == \E l \in Call : loader[l].stage \notin {"idle", "loaded", "early", "failed"}

-----------------------------------------------------------------------------
(* start and stop *)

\* started is set before anything is loaded; a second start returns at once.
MStartNode(l) ==      \* mutant: started is set at the end
  /\ ~sandboxed /\ At(l, "idle")
  /\ Goes(l, IF runnerStarted THEN "early" ELSE "tasks")
  /\ runnerStarted' = (runnerStarted \/ \E k \in Call : At(k, "loaded"))
  /\ UNCHANGED <<sandboxed, tasks, running, middleware, endpoint, routes, topics, request, interrupted>>
StartNode(l) ==
  /\ ~sandboxed /\ At(l, "idle")
  /\ Goes(l, IF runnerStarted THEN "early" ELSE "tasks")
  /\ runnerStarted' = TRUE
  /\ UNCHANGED <<sandboxed, tasks, running, middleware, endpoint, routes, topics, request, interrupted>>

\* ServiceRunner.start has no tasks to load.
StartSandboxed(l) ==
  /\ sandboxed /\ At(l, "idle")
  /\ Goes(l, IF runnerStarted THEN "early" ELSE "next")
  /\ runnerStarted' = TRUE
  /\ UNCHANGED <<sandboxed, tasks, running, middleware, endpoint, routes, topics, request, interrupted>>

\* loadAuth, loadTask for each task, and the start of the task runner.  A task
\* that was loaded by an earlier start is not added again.
LoadTasks(l) ==
  /\ At(l, "tasks")
  /\ Goes(l, "next")
  /\ tasks' = Task /\ running' = running \cup (Task \ tasks)
  /\ UNCHANGED <<sandboxed, runnerStarted, middleware, endpoint, routes, topics, request, interrupted>>

\* A sandbox is asked what the code in it says of itself.
LoadsCode(info, next) == IF sandboxed THEN info ELSE next

\* loadEndpoint begins: one that is loaded is passed over.
MLoadEndpoint(l) ==   \* mutant: only the pre middleware is loaded
  /\ At(l, "next") /\ loader[l].todo # <<>>
  /\ LET todo == loader[l].todo
         e == Head(todo)
     IN loader' = [loader EXCEPT ![l] =
         IF e \in endpoint THEN [@ EXCEPT !.todo = Tail(todo)]
                           ELSE [@ EXCEPT !.stage = LoadsCode("endpoint info", "middleware"),
                                          !.mid = Pre[e]]]
  /\ UNCHANGED <<sandboxed, runnerStarted, tasks, running, middleware, endpoint, routes, topics, request, interrupted>>
LoadEndpoint(l) ==
  /\ At(l, "next") /\ loader[l].todo # <<>>
  /\ LET todo == loader[l].todo
         e == Head(todo)
     IN loader' = [loader EXCEPT ![l] =
         IF e \in endpoint THEN [@ EXCEPT !.todo = Tail(todo)]
                           ELSE [@ EXCEPT !.stage = LoadsCode("endpoint info", "middleware"),
                                          !.mid = Pre[e] \o Post[e]]]
  /\ UNCHANGED <<sandboxed, runnerStarted, tasks, running, middleware, endpoint, routes, topics, request, interrupted>>

\* loadMiddleware: one that is loaded is not started again.  When all are
\* there, the endpoint's own start is called.
LoadMiddleware(l) ==
  /\ At(l, "middleware")
  /\ LET mid == loader[l].mid IN
       loader' = [loader EXCEPT ![l] =
         IF mid = <<>> THEN [@ EXCEPT !.stage = "starting"]
         ELSE IF Head(mid) \in middleware THEN [@ EXCEPT !.mid = Tail(mid)]
         ELSE [@ EXCEPT !.stage = LoadsCode("middleware info", "mounting")]]
  /\ UNCHANGED <<sandboxed, runnerStarted, tasks, running, middleware, endpoint, routes, topics, request, interrupted>>

\* getInfo: the sandbox has run, the configuration is checked.
GetEndpointInfo(l) ==
  /\ At(l, "endpoint info")
  /\ Goes(l, "middleware")
  /\ UNCHANGED <<sandboxed, runnerStarted, tasks, running, middleware, endpoint, routes, topics, request, interrupted>>

GetMiddlewareInfo(l) ==
  /\ At(l, "middleware info")
  /\ Goes(l, "mounting")
  /\ UNCHANGED <<sandboxed, runnerStarted, tasks, running, middleware, endpoint, routes, topics, request, interrupted>>

\* Its start returns: it is remembered, and its configuration checked.
MiddlewareStarted(l) ==
  /\ At(l, "mounting")
  /\ middleware' = middleware \cup {Head(loader[l].mid)}
  /\ loader' = [loader EXCEPT ![l].stage = "middleware", ![l].mid = Tail(@)]
  /\ UNCHANGED <<sandboxed, runnerStarted, tasks, running, endpoint, routes, topics, request, interrupted>>

\* The endpoint's start returns: it is remembered and routed.
EndpointStarted(l) ==
  /\ At(l, "starting")
  /\ LET e == Head(loader[l].todo) IN
       /\ endpoint' = endpoint \cup {e}
       /\ routes' = [routes EXCEPT ![e] = @ + 1]
  /\ loader' = [loader EXCEPT ![l].stage = "next", ![l].todo = Tail(@)]
  /\ UNCHANGED <<sandboxed, runnerStarted, tasks, running, middleware, topics, request, interrupted>>

\* The topics come last.
LoadTopics(l) ==
  /\ ~sandboxed /\ At(l, "next") /\ loader[l].todo = <<>>
  /\ topics' = Topic
  /\ Goes(l, "loaded")
  /\ UNCHANGED <<sandboxed, runnerStarted, tasks, running, middleware, endpoint, routes, request, interrupted>>

\* ServiceRunner has loaded its endpoints.
Loaded(l) ==
  /\ sandboxed /\ At(l, "next") /\ loader[l].todo = <<>>
  /\ Goes(l, "loaded")
  /\ UNCHANGED <<sandboxed, runnerStarted, tasks, running, middleware, endpoint, routes, topics, request, interrupted>>

\* A middleware does not exist, a configuration is invalid, a start throws: the
\* runner stays started with what it has.
LoadFails(l) ==
  /\ loader[l].stage \in {"tasks", "endpoint info", "middleware", "middleware info",
                         "mounting", "starting"}
  /\ Goes(l, "failed")
  /\ UNCHANGED <<sandboxed, runnerStarted, tasks, running, middleware, endpoint, routes, topics, request, interrupted>>

\* Only the tasks are stopped: endpoints stay loaded and routed.
StopRunner ==
  /\ runnerStarted
  /\ running' = {} /\ runnerStarted' = FALSE
  /\ interrupted' = (interrupted \/ Loading)
  /\ UNCHANGED <<sandboxed, tasks, middleware, endpoint, routes, topics, loader, request>>

\* spawnTask and runTask give the task runner a task that is loaded.
RunTask(t) ==
  /\ t \in tasks
  /\ running' = running \cup {t}
  /\ UNCHANGED <<sandboxed, runnerStarted, tasks, middleware, endpoint, routes, topics, loader, request, interrupted>>

-----------------------------------------------------------------------------
(* Requests *)

\* What the handler of an endpoint runs, one after the other.
Pipeline(e) == Pre[e] \o <<"run">> \o Post[e]

\* The context made for it.  The router leaves the handler to itself; a caller of
\* internalRequest, and a peer's call, await it.
EndpointContext(e, awaited) ==
  [stage |-> "running", rest |-> Pipeline(e), awaited |-> awaited]

Handle(r, e, otherwise, awaited) ==
  /\ request[r].stage = "new"
  /\ request' = [request EXCEPT ![r] =
       IF routes[e] = 0 THEN [@ EXCEPT !.stage = otherwise]
       ELSE EndpointContext(e, awaited)]
  /\ UNCHANGED loadVars

\* Nothing of the pipeline is left to run.
Ends(r, stage) == request' = [request EXCEPT ![r] = [@ EXCEPT !.stage = stage, !.rest = <<>>]]

\* The router knows the endpoint, or the request is passed on; ServiceRunner
\* answers it with status 404.
OnRequest(r, e) == ~sandboxed /\ Handle(r, e, "unrouted", FALSE)
OnRequestSandboxed(r, e) == sandboxed /\ Handle(r, e, "error", FALSE)

\* A peer's call, or one of the service itself: without a route it throws.
InternalRequest(r, e) == ~sandboxed /\ Handle(r, e, "error", TRUE)

\* The context counts the bytes of the body's JSON.  Data of an internal request
\* that has none throws at its caller; a request from outside has a body.
NoContext(r) ==
  /\ ~sandboxed /\ request[r].stage = "new" /\ \E e \in Endpoint : routes[e] > 0
  /\ Ends(r, "error")
  /\ UNCHANGED loadVars

\* A middleware or the endpoint returns, and the next one is called.
RunNext(r) ==
  /\ request[r].stage = "running" /\ request[r].rest # <<>>
  /\ LET rest == request[r].rest
         step == Head(rest)
     IN IF step = "run" \/ step \in middleware
        THEN request' = [request EXCEPT ![r].rest = Tail(rest)]
        ELSE Ends(r, "error")
  /\ UNCHANGED loadVars

RunMiddleware(r) == ~sandboxed /\ RunNext(r)

\* Each runs in a sandbox of its own.
RunSandboxed(r) == sandboxed /\ RunNext(r)

\* The output is sent.
Send(r) ==
  /\ request[r].stage = "running" /\ request[r].rest = <<>>
  /\ Ends(r, "answered")
  /\ UNCHANGED loadVars

\* A phase throws an error: the answer is status 500 and the name of the phase.
MThrows(r) ==     \* mutant: the error is not sent
  /\ ~sandboxed /\ request[r].stage = "running"
  /\ Ends(r, "lost")
  /\ UNCHANGED loadVars
Throws(r) ==
  /\ ~sandboxed /\ request[r].stage = "running"
  /\ Ends(r, "error")
  /\ UNCHANGED loadVars

\* A phase throws nothing: the catch reads its message and code, and throws too.
\* Who awaits the handler gets that exception; nobody answers a request that came
\* through the router.
ThrowsNothing(r) ==
  /\ ~sandboxed /\ request[r].stage = "running"
  /\ Ends(r, IF request[r].awaited THEN "error" ELSE "threw nothing")
  /\ UNCHANGED loadVars

\* A sandbox catches it, makes an Error of what is none, and looks the place up in the source map.
SandboxCatches(r) ==
  /\ sandboxed /\ request[r].stage = "running"
  /\ Ends(r, "locating")
  /\ UNCHANGED loadVars

\* It throws the error with its place, or the one of the look-up; ServiceRunner
\* answers with status 500.
SandboxThrows(r) ==
  /\ request[r].stage = "locating"
  /\ Ends(r, "error")
  /\ UNCHANGED loadVars

-----------------------------------------------------------------------------
RunnerNext ==
  \/ StopRunner \/ \E t \in Task : RunTask(t)
  \/ \E l \in Call : \/ StartNode(l) \/ StartSandboxed(l) \/ LoadTasks(l) \/ LoadEndpoint(l) \/ LoadMiddleware(l)
                     \/ GetEndpointInfo(l) \/ GetMiddlewareInfo(l) \/ Loaded(l)
                     \/ MiddlewareStarted(l) \/ EndpointStarted(l) \/ LoadTopics(l) \/ LoadFails(l)
  \/ \E r \in Request : \/ \E e \in Endpoint : OnRequest(r, e) \/ OnRequestSandboxed(r, e)
                                            \/ InternalRequest(r, e)
                        \/ NoContext(r) \/ ThrowsNothing(r)
                        \/ RunMiddleware(r) \/ RunSandboxed(r) \/ Send(r) \/ Throws(r)
                        \/ SandboxCatches(r) \/ SandboxThrows(r)

RunnerSpec == RunnerInit /\ [][RunnerNext]_runnerVars

\* Middleware, endpoints and the look-up return or throw.
RunnerFairSpec == RunnerSpec /\ \A r \in Request : WF_runnerVars(RunNext(r) \/ Send(r) \/ SandboxThrows(r))

-----------------------------------------------------------------------------
(* Properties *)

\* An endpoint that is routed is complete: it and all the middleware of its
\* pipeline were started, whatever loads fail, overlap or are cut short by a stop
\* (service-runner-node.js:338-349).
RoutedIsReady ==
  \A e \in Endpoint : routes[e] > 0 =>
    e \in endpoint /\ Range(Pre[e] \o Post[e]) \subseteq middleware

\* Overlapping calls of start load an endpoint once (service-runner-node.js:60,
\* 310): only a stop in the middle of a load, and a start after it, make two
\* loads pass each other's checks.
LoadedOnce ==
  interrupted \/ \A e \in Endpoint : routes[e] <= 1

\* Every request that is routed is answered, with its output or with an error,
\* also while the service is stopped and loaded again (service-runner-node.js:575-629).
\* The one exception: with ServiceRunnerNode, a request from outside a phase of
\* which throws null or undefined is never answered (lines 613, 622).
RequestsAreAnswered ==
  \A r \in Request :
    request[r].stage = "running" ~>
      \/ request[r].stage \in {"answered", "error"}
      \/ request[r].stage = "threw nothing" /\ ~sandboxed /\ ~request[r].awaited
=============================================================================

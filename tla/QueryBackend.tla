---------------------------- MODULE QueryBackend ----------------------------
(* Qb and Crufl (src/party/qb.js, src/party/crufl.js): the life of every query
   of a party, from the call of find, lookup, create or modify to the
   settlement of the promise it returned.

   A call c makes at most two crufls: Root(c), its own request, and Nested(c),
   the lookup of the headers a find returned.  A lookup that hits the cache for
   some of its msgs goes on with the crufl of the misses; the crufl it was made
   with is never registered and its timer settles nobody, so Root(c) stands for
   the one that is sent.

   A handler runs to its next real wait (a timer or the network) in one step:
   the promises in between resume in microtasks, which no timer can cut. *)

EXTENDS Naturals, FiniteSets

CONSTANTS
  Call,        \* calls the party's clients make, each used once
  Spec,        \* the specs finds are made with (equal specs have equal hashes)
  None,        \* no call, no spec
  Debounce,    \* TRUE: requests are queued; FALSE: options.debounce < 1
  FindDedup,   \* options.find_dedup
  TimeoutSet,  \* options.timeout is not 0
  Faults       \* what may go wrong outside this code

ASSUME ConstantsAssumption ==
  /\ None \notin Call \cup Spec
  /\ {Debounce, FindDedup, TimeoutSet} \subseteq BOOLEAN
  /\ Faults \subseteq {"error", "invalid", "missing", "throw"}

VARIABLES
  op,          \* what each call asks for
  spec,        \* the spec of each find
  outcome,     \* the state of the promise each call returned
  awaits,      \* the call whose Root crufl settles that promise
  crufls,      \* Qb.crufls: the crufls replies are matched with
  result,      \* Crufl.result of each crufl
  timers,      \* crufls whose timeoutTimer is armed
  send_queue,  \* Qb.send_queue
  send_timer,  \* Qb.send_timer is armed
  find_map,    \* Qb.find_map: the call whose Root crufl is pending for a spec
  asks         \* requests whose call() has not returned: sets of crufls

vars == <<op, spec, outcome, awaits, crufls, result, timers, send_queue,
          send_timer, find_map, asks>>

Uuid == Call \X {0, 1}
Root(c) == <<c, 0>>
Nested(c) == <<c, 1>>

Op == {"none", "find", "lookup", "modify"}
Outcome == {"idle", "pending", "resolved", "rejected"}

\* What a result may hold: msgs, no msgs, no msgs and result.error (what
\* AdminCrufler makes of an exception), or an op that does not match or a msg
\* that carries $meta.error.
Answer == {"msgs", "empty"} \cup (Faults \cap {"error", "invalid"})

TypeOK ==
  /\ op         \in [Call -> Op]
  /\ spec       \in [Call -> Spec \cup {None}]
  /\ outcome    \in [Call -> Outcome]
  /\ awaits     \in [Call -> Call \cup {None}]
  /\ crufls     \subseteq Uuid
  /\ result     \in [Uuid -> Answer \cup {"null"}]
  /\ timers     \subseteq Uuid
  /\ send_queue \subseteq Uuid
  /\ send_timer \in BOOLEAN
  /\ find_map   \in [Spec -> Call \cup {None}]
  /\ asks       \subseteq SUBSET Uuid

Init ==
  /\ op         = [c \in Call |-> "none"]
  /\ spec       = [c \in Call |-> None]
  /\ outcome    = [c \in Call |-> "idle"]
  /\ awaits     = [c \in Call |-> None]
  /\ crufls     = {}
  /\ result     = [u \in Uuid |-> "null"]
  /\ timers     = {}
  /\ send_queue = {}
  /\ send_timer = FALSE
  /\ find_map   = [s \in Spec |-> None]
  /\ asks       = {}

-----------------------------------------------------------------------------
(* Building blocks *)

IsFind(u) == u[2] = 0 /\ op[u[1]] = "find"

\* The promise of u is settled, but whoever called queueRequest still waits
\* for sendRequests, which waits for call() to return.
Sending(u) == ~Debounce /\ {u} \in asks

\* The part of queueRequest that hands new crufls to the backend; open is the
\* set of asks that are left in flight.
Send(new, open) ==
  IF Debounce
  THEN /\ send_queue' = send_queue \cup new
       /\ send_timer' = (send_timer \/ new # {})
       /\ asks' = open
  ELSE /\ asks' = open \cup {{u} : u \in new}
       /\ UNCHANGED <<send_queue, send_timer>>

MArm(new) == {}   \* mutant: the timeout option gets lost

Arm(new) == IF TimeoutSet THEN new ELSE {}

MUnmap(done) == UNCHANGED find_map   \* mutant: the entry is not deleted

\* The complete event of the Root crufls of the calls in done, in find_map.
Unmap(done) ==
  find_map' = [s \in Spec |->
                 IF \E c \in done : Root(c) \in crufls /\ spec[c] = s
                 THEN None ELSE find_map[s]]

MSettleErrors(good, bad) ==   \* mutant: crufl.errors is not looked at
  outcome' = [c \in Call |->
                IF outcome[c] = "pending" /\ awaits[c] \in good \cup bad
                THEN "resolved" ELSE outcome[c]]

MSettleOwner(good, bad) ==   \* mutant: only the first caller hears of an error
  outcome' = [c \in Call |->
                CASE outcome[c] # "pending" -> outcome[c]
                  [] outcome[c] = "pending" /\ awaits[c] \in bad ->
                       IF awaits[c] = c THEN "rejected" ELSE outcome[c]
                  [] outcome[c] = "pending" /\ awaits[c] \in good \ bad -> "resolved"
                  [] OTHER -> outcome[c]]

\* Everyone who waits for a call in good or bad learns how it ended.
Settle(good, bad) ==
  outcome' = [c \in Call |->
                CASE outcome[c] # "pending" -> outcome[c]
                  [] outcome[c] = "pending" /\ awaits[c] \in bad -> "rejected"
                  [] outcome[c] = "pending" /\ awaits[c] \in good \ bad -> "resolved"
                  [] OTHER -> outcome[c]]

MRegister(c) ==   \* mutant: the crufl is sent but not registered
  /\ outcome' = [outcome EXCEPT ![c] = "pending"]
  /\ awaits'  = [awaits EXCEPT ![c] = c]
  /\ timers'  = timers \cup Arm({Root(c)})
  /\ Send({Root(c)}, asks)
  /\ UNCHANGED <<crufls, result>>

\* queueRequest for the first crufl of a call that is not answered by the
\* cache and joins no other call.
Register(c) ==
  /\ outcome' = [outcome EXCEPT ![c] = "pending"]
  /\ awaits'  = [awaits EXCEPT ![c] = c]
  /\ crufls'  = crufls \cup {Root(c)}
  /\ timers'  = timers \cup Arm({Root(c)})
  /\ Send({Root(c)}, asks)
  /\ UNCHANGED result

-----------------------------------------------------------------------------
(* Calls of the party's clients *)

MJoinFind(c, s) ==   \* mutant: the timer of the dropped crufl is not cleared
  /\ outcome[c] = "idle"
  /\ FindDedup /\ find_map[s] # None
  /\ op'      = [op EXCEPT ![c] = "find"]
  /\ spec'    = [spec EXCEPT ![c] = s]
  /\ outcome' = [outcome EXCEPT ![c] = "pending"]
  /\ awaits'  = [awaits EXCEPT ![c] = find_map[s]]
  /\ timers'  = timers \cup Arm({Root(c)})
  /\ UNCHANGED <<crufls, result, send_queue, send_timer, find_map, asks>>

\* Qb.find without ids, when a find of the same spec is pending: the new crufl
\* is dropped and the call waits for the pending one.
JoinFind(c, s) ==
  /\ outcome[c] = "idle"
  /\ FindDedup /\ find_map[s] # None
  /\ op'      = [op EXCEPT ![c] = "find"]
  /\ spec'    = [spec EXCEPT ![c] = s]
  /\ outcome' = [outcome EXCEPT ![c] = "pending"]
  /\ awaits'  = [awaits EXCEPT ![c] = find_map[s]]
  /\ UNCHANGED <<crufls, result, timers, send_queue, send_timer, find_map, asks>>

\* Qb.find without ids, otherwise.
Find(c, s) ==
  /\ outcome[c] = "idle"
  /\ FindDedup => find_map[s] = None
  /\ op'       = [op EXCEPT ![c] = "find"]
  /\ spec'     = [spec EXCEPT ![c] = s]
  /\ find_map' = IF FindDedup THEN [find_map EXCEPT ![s] = c] ELSE find_map
  /\ Register(c)

\* Qb.find with ids, or Qb.lookup, when the cache has every msg (or there are
\* no msgs to look up).
LookupHit(c) ==
  /\ outcome[c] = "idle"
  /\ op'      = [op EXCEPT ![c] = "lookup"]
  /\ outcome' = [outcome EXCEPT ![c] = "resolved"]
  /\ UNCHANGED <<spec, awaits, crufls, result, timers, send_queue, send_timer,
                 find_map, asks>>

\* Qb.find with ids, or Qb.lookup, when the cache misses some msgs.
Lookup(c) ==
  /\ outcome[c] = "idle"
  /\ op' = [op EXCEPT ![c] = "lookup"]
  /\ Register(c)
  /\ UNCHANGED <<spec, find_map>>

\* Qb.create and Qb.modify.
Modify(c) ==
  /\ outcome[c] = "idle"
  /\ op' = [op EXCEPT ![c] = "modify"]
  /\ Register(c)
  /\ UNCHANGED <<spec, find_map>>

-----------------------------------------------------------------------------
(* Timers and replies *)

OnSendTimer ==
  /\ send_timer
  /\ send_timer' = FALSE
  /\ send_queue' = {}
  /\ asks' = asks \cup {send_queue}
  /\ UNCHANGED <<op, spec, outcome, awaits, crufls, result, timers, find_map>>

\* The crufls of a whose result Qb.onResult does not ignore.
Expected(a) == a \cap crufls

\* The finds of got that found msgs.
Found(got, answer) == {u \in got : IsFind(u) /\ answer[u] = "msgs"}

\* The results of one reply, processed: answer[u] is the result of u, for each
\* u in got; the msgs of the finds in cached are all in the cache, the others
\* that found msgs look them up.  A result whose crufl is not registered any
\* more is ignored; when requests are not debounced, the caller of such a late
\* crufl was still waiting for call(), and only now learns of the timeout.
Deliver(a, got, answer, cached) ==
  LET late   == IF Debounce THEN {} ELSE a \ crufls
      deeper == Found(got, answer) \ cached
      new    == {Nested(u[1]) : u \in deeper}
      over   == got \ deeper
      bad    == {u[1] : u \in {v \in over : answer[v] = "invalid"} \cup late}
      good   == {u[1] : u \in over}
  IN /\ result' = [u \in Uuid |-> IF u \in got THEN answer[u] ELSE result[u]]
     /\ timers' = (timers \ got) \cup Arm(new)
     /\ crufls' = (crufls \ (over \cup {Root(c) : c \in good \cup bad})) \cup new
     /\ Settle(good, bad)
     /\ Unmap(good \cup bad)
     /\ Send(new, asks \ {a})
     /\ UNCHANGED <<op, spec, awaits>>

\* call() returns for ask a, with a result for each crufl, unless the reply is
\* incomplete.
OnReply(a) ==
  /\ a \in asks
  /\ \E got \in SUBSET Expected(a) :
       /\ "missing" \in Faults \/ got = Expected(a)
       /\ \E answer \in [got -> Answer] :
            \E cached \in SUBSET Found(got, answer) : Deliver(a, got, answer, cached)

\* call() throws for ask a.  From the send timer the exception is nobody's:
\* the crufls of a wait for their timers.  Without debouncing it rejects the
\* call that sent a, or the find whose lookup sent a, but leaves the crufl
\* of a registered.
CallThrows(a) ==
  /\ "throw" \in Faults
  /\ a \in asks
  /\ asks' = asks \ {a}
  /\ IF Debounce
     THEN UNCHANGED <<outcome, crufls, find_map>>
     ELSE \E u \in a :
          LET c == u[1]
          IN IF u = Root(c)
             THEN /\ outcome' = [outcome EXCEPT ![c] = "rejected"]
                  /\ UNCHANGED <<crufls, find_map>>
             ELSE /\ Settle({}, {c})
                  /\ crufls' = crufls \ {Root(c)}
                  /\ Unmap({c})
  /\ UNCHANGED <<op, spec, awaits, result, timers, send_queue, send_timer>>

\* Crufl.onTimeout: the crufl completes with an error.  Those who wait for the
\* complete event of a Root crufl learn it at once; the caller of a crufl that
\* is Sending has not come to waiting for it yet.
OnTimeout(u) ==
  /\ u \in timers
  /\ LET c == u[1]
         done == IF u = Nested(c) /\ Sending(u) THEN {} ELSE {c}
     IN /\ outcome' = [d \in Call |->
                         IF /\ outcome[d] = "pending" /\ awaits[d] \in done
                            /\ ~(d = c /\ Sending(u))
                         THEN "rejected" ELSE outcome[d]]
        /\ crufls' = crufls \ ({u} \cup {Root(d) : d \in done})
        /\ Unmap(done)
  /\ timers' = timers \ {u}
  /\ UNCHANGED <<op, spec, awaits, result, send_queue, send_timer, asks>>

-----------------------------------------------------------------------------

Next ==
  \/ \E c \in Call : \/ LookupHit(c) \/ Lookup(c) \/ Modify(c)
                     \/ \E s \in Spec : Find(c, s) \/ JoinFind(c, s)
  \/ OnSendTimer
  \/ \E a \in asks : OnReply(a) \/ CallThrows(a)
  \/ \E u \in Uuid : OnTimeout(u)

QbSpec == Init /\ [][Next]_vars

\* The event loop fires every armed timer.
TimersFire == WF_vars(OnSendTimer) /\ \A u \in Uuid : WF_vars(OnTimeout(u))

\* The transport ends every call, with a reply or with an exception.
CallsReturn == WF_vars(\E a \in asks : OnReply(a) \/ CallThrows(a))

TimedSpec == QbSpec /\ TimersFire
ReturningSpec == QbSpec /\ WF_vars(OnSendTimer) /\ CallsReturn
FairSpec == QbSpec /\ TimersFire /\ CallsReturn

-----------------------------------------------------------------------------
(* Properties *)

Settled(c) == outcome[c] \in {"resolved", "rejected"}

\* A promise that is not settled has something that still may settle it: the
\* crufl it waits for is registered, or its own call() has not returned.
Watched ==
  \A c \in Call : outcome[c] = "pending" =>
     \/ Root(awaits[c]) \in crufls
     \/ awaits[c] = c /\ Sending(Root(c))

\* With a timeout, a registered crufl is about to end: its timer is armed, or
\* it is a find whose nested lookup is about to end or has not returned from
\* call().  No order of replies, timeouts and exceptions leaves one behind that
\* nothing will ever complete.
TimerCovered ==
  TimeoutSet => \A u \in crufls :
     \/ u \in timers
     \/ IsFind(u) /\ (Nested(u[1]) \in timers \/ Sending(Nested(u[1])))

\* A find may join the pending find of its spec without waiting for something
\* that is over: an entry of find_map is a registered find of that spec, and
\* with deduplication no registered find is left out of find_map.
FindMapSound ==
  /\ \A s \in Spec : find_map[s] # None =>
        /\ op[find_map[s]] = "find" /\ spec[find_map[s]] = s
        /\ Root(find_map[s]) \in crufls
  /\ FindDedup => \A c \in Call :
        IsFind(Root(c)) /\ Root(c) \in crufls => find_map[spec[c]] = c

\* Calls that wait for one crufl never end differently.
JoinersAgree ==
  \A c, d \in Call :
     Settled(c) /\ Settled(d) /\ awaits[c] = awaits[d] /\ awaits[c] # None
     => outcome[c] = outcome[d]

\* Nothing outlives the calls it was made for: a crufl that is registered, a
\* timer or an entry of find_map belongs to a call that somebody waits for.
\* (Not so without debouncing, when call() throws.)
NoLeak ==
  /\ \A u \in crufls \cup timers :
        \E c \in Call : outcome[c] = "pending" /\ awaits[c] = u[1]
  /\ timers \subseteq crufls

\* A call that made a request resolves only on an answer from the backend that
\* is not invalid, to its last request: a find whose lookup timed out does not
\* pass the headers off as msgs.
ResolvedOnAnswer ==
  \A c \in Call : outcome[c] = "resolved" /\ awaits[c] # None =>
     /\ result[Root(awaits[c])] \notin {"null", "invalid"}
     /\ result[Nested(awaits[c])] # "invalid"

\* Every promise is settled in the end.
EveryCallSettles ==
  \A c \in Call : outcome[c] = "pending" ~> Settled(c)

-----------------------------------------------------------------------------
(* The refinement: Requests keeps the promises and whom each waits for; the
   crufls, timers, queue and maps are how Qb gets there. *)

R == INSTANCE Requests WITH outcome <- outcome, awaits <- awaits

\* With debouncing, every step of Qb and Crufl is a step of the abstract
\* request table or does not show in it: a promise is settled once, and with
\* everyone who joined its crufl.
ImplementsRequests == R!RequestsSpec

=============================================================================

----------------------------- MODULE SessionKeys -----------------------------
(* The session keys of a service: announced by clients, used by the requests
   they make, removed once they expired (service/endpoints/key-announce.js,
   service/middleware/pre/ephemeral-session.js,
   service/tasks/cleanup-ephemeral-sessions.js).

   An announcement is signed by the session key and by its actor, so its content
   is a function of the key; the same announcement may come any number of times.
   Every find and every createDocument is a step of its own.  A find that fails
   or times out reads as one that found nothing; a createDocument that fails throws. *)
EXTENDS Naturals, FiniteSets

CONSTANTS
  Key, Actor, Request,
  MaxTime,        \* bound: the clock
  Annoucement,    \* per key: actor, created, expiry
  Tolerance,      \* the five minutes by which the clocks may differ
  MaxAge          \* the 24 hours a session may last

ASSUME SessionKeysAssumption ==
  /\ Key # {} /\ MaxTime \in Nat /\ Tolerance \in Nat /\ MaxAge \in Nat
  /\ Annoucement \in [Key -> [actor : Actor, created : Nat, expiry : Nat]]

VARIABLES
  now,
  request,     \* what a request asks, how far it is, and how it ended
  sessions,    \* session_key documents: the key and the request that made it
  actors,      \* public_key documents, by hash
  cleanup,     \* the task: its timer is armed, it looks up, removes, or it was stopped
  expired      \* what it looked up

keysVars == <<now, request, sessions, actors, cleanup, expired>>

RequestStage == {"unused", "verifying", "creating", "actor", "creatingActor",  \* key/announce
          "session", "identity",                                        \* ephemeral_session
          "done", "refused", "error", "served"}

KeysTypeOK ==
  /\ now \in 0 .. MaxTime
  /\ request \in [Request -> [key : Key, stage : RequestStage]]
  /\ sessions \subseteq Key \X Request /\ expired \subseteq Key \X Request
  /\ actors \subseteq Actor
  /\ cleanup \in {"armed", "looking", "removing", "stopped"}

KeysInit ==
  /\ now = 0
  /\ request = [r \in Request |-> [key |-> CHOOSE k \in Key : TRUE, stage |-> "unused"]]
  /\ sessions = {} /\ actors = {}
  /\ cleanup = "armed" /\ expired = {}

Of(k) == {d \in sessions : d[1] = k}
In(r, stage) == request[r].stage = stage
KeyGoes(r, stage) == request' = [request EXCEPT ![r].stage = stage]
AnnoucementOf(r) == Annoucement[request[r].key]

-----------------------------------------------------------------------------
(* key/announce *)

\* A message about a key comes, for one endpoint or for the other.
ReceiveKey(r, k) ==
  /\ In(r, "unused")
  /\ \E s \in {"verifying", "session"} : request' = [request EXCEPT ![r] = [key |-> k, stage |-> s]]
  /\ UNCHANGED <<now, sessions, actors, cleanup, expired>>

\* The hashes, the sender or a signature is wrong (false or an exception), or
\* auth does not allow the actor.
Rejected(r) ==
  /\ In(r, "verifying")
  /\ \E end \in {"refused", "error"} : KeyGoes(r, end)
  /\ UNCHANGED <<now, sessions, actors, cleanup, expired>>

InTime(a) ==
  /\ a.created + Tolerance >= now /\ a.created <= now + Tolerance
  /\ a.expiry >= now /\ a.expiry <= now + MaxAge + Tolerance

\* The session is looked up: one that is known is refused, and so is one whose
\* times are wrong.
FindSession(r) ==
  /\ In(r, "verifying")
  /\ \/ Of(request[r].key) # {} /\ KeyGoes(r, "refused")
     \/ KeyGoes(r, IF InTime(AnnoucementOf(r)) THEN "creating" ELSE "refused")
  /\ UNCHANGED <<now, sessions, actors, cleanup, expired>>

\* createDocument: the index on annoucement.sessionKey.hash is unique.
CreateSession(r) ==
  /\ In(r, "creating")
  /\ IF Of(request[r].key) = {}
     THEN KeyGoes(r, "actor") /\ sessions' = sessions \cup {<<request[r].key, r>>}
     ELSE KeyGoes(r, "error") /\ UNCHANGED sessions
  /\ UNCHANGED <<now, actors, cleanup, expired>>

\* The actor is looked up, after its session was stored.
FindActor(r) ==
  /\ In(r, "actor")
  /\ \/ AnnoucementOf(r).actor \in actors /\ KeyGoes(r, "done")
     \/ KeyGoes(r, "creatingActor")
  /\ UNCHANGED <<now, sessions, actors, cleanup, expired>>

CreateActor(r) ==
  /\ In(r, "creatingActor")
  /\ IF AnnoucementOf(r).actor \in actors
     THEN KeyGoes(r, "error") /\ UNCHANGED actors
     ELSE KeyGoes(r, "done") /\ actors' = actors \cup {AnnoucementOf(r).actor}
  /\ UNCHANGED <<now, sessions, cleanup, expired>>

CreateFails(r) ==
  /\ In(r, "creating") \/ In(r, "creatingActor")
  /\ KeyGoes(r, "error")
  /\ UNCHANGED <<now, sessions, actors, cleanup, expired>>

-----------------------------------------------------------------------------
(* ephemeral_session *)

\* The session of a request is looked up; the first one found is it.
UseSession(r) ==
  /\ In(r, "session")
  /\ \/ Of(request[r].key) # {} /\ AnnoucementOf(r).expiry >= now /\ KeyGoes(r, "identity")
     \/ KeyGoes(r, "error")
  /\ UNCHANGED <<now, sessions, actors, cleanup, expired>>

\* Its actor is looked up, and the request goes on to its endpoint.
UseActor(r) ==
  /\ In(r, "identity")
  /\ \/ AnnoucementOf(r).actor \in actors /\ KeyGoes(r, "served")
     \/ KeyGoes(r, "error")
  /\ UNCHANGED <<now, sessions, actors, cleanup, expired>>

-----------------------------------------------------------------------------
(* cleanup-ephemeral-sessions *)

OnTimeout ==
  /\ cleanup = "armed"
  /\ cleanup' = "looking"
  /\ UNCHANGED <<now, request, sessions, actors, expired>>

MLookupSessions ==       \* mutant: asks when sessions were created
  /\ cleanup = "looking"
  /\ expired' = {d \in sessions : Annoucement[d[1]].created < now}
  /\ cleanup' = "removing"
  /\ UNCHANGED <<now, request, sessions, actors>>
LookupSessions ==
  /\ cleanup = "looking"
  /\ expired' = {d \in sessions : Annoucement[d[1]].expiry < now}
  /\ cleanup' = "removing"
  /\ UNCHANGED <<now, request, sessions, actors>>

Remove ==
  /\ cleanup = "removing"
  /\ sessions' = sessions \ expired
  /\ expired' = {} /\ cleanup' = "armed"
  /\ UNCHANGED <<now, request, actors>>

\* An exception is caught, and the timer armed again.
MCleanupFails ==         \* mutant: setTimer is inside the try
  /\ cleanup \in {"looking", "removing"}
  /\ cleanup' = "dead" /\ expired' = {}
  /\ UNCHANGED <<now, request, sessions, actors>>
CleanupFails ==
  /\ cleanup \in {"looking", "removing"}
  /\ cleanup' = "armed" /\ expired' = {}
  /\ UNCHANGED <<now, request, sessions, actors>>

\* stop clears the timer; a clean-up under way arms it again.
Stop ==
  /\ cleanup = "armed"
  /\ cleanup' = "stopped"
  /\ UNCHANGED <<now, request, sessions, actors, expired>>

Tick ==
  /\ now < MaxTime
  /\ now' = now + 1
  /\ UNCHANGED <<request, sessions, actors, cleanup, expired>>

-----------------------------------------------------------------------------
KeysNext ==
  \/ OnTimeout \/ LookupSessions \/ Remove \/ CleanupFails \/ Stop \/ Tick
  \/ \E r \in Request :
       \/ \E k \in Key : ReceiveKey(r, k)
       \/ Rejected(r) \/ FindSession(r) \/ CreateSession(r) \/ FindActor(r)
       \/ CreateActor(r) \/ CreateFails(r) \/ UseSession(r) \/ UseActor(r)

KeysSpec == KeysInit /\ [][KeysNext]_keysVars

\* The timer fires, the clock goes on, and the database does not fail for ever.
FairKeysSpec ==
  /\ KeysSpec /\ WF_keysVars(OnTimeout) /\ WF_keysVars(Tick)
  /\ SF_keysVars(LookupSessions) /\ SF_keysVars(Remove)

-----------------------------------------------------------------------------
(* Properties *)

\* A session that was announced with success can be used until it expires: the
\* session and its actor are there, whatever announcements of the same key or
\* actor overlap with it, and whatever the clean-up looked up before
\* (key-announce.js:142-211, cleanup-ephemeral-sessions.js:56-61).
AnnouncedIsUsable ==
  \A r \in Request : In(r, "done") =>
    /\ AnnoucementOf(r).actor \in actors
    /\ Of(request[r].key) # {} \/ AnnoucementOf(r).expiry < now

\* A session that expired is removed, though the clean-up may fail now and then,
\* unless the task was stopped
\* (cleanup-ephemeral-sessions.js:50-68).
ExpiredIsRemoved ==
  \A k \in Key : (Of(k) # {} /\ Annoucement[k].expiry < now) ~> (Of(k) = {} \/ cleanup = "stopped")
=============================================================================

----------------------------- MODULE PartyStore -----------------------------
(* Documents on their way between a backend and the caches of its clients:
   Query and IDocument over Qb and Crufl (src/party), LokiCache, and the
   AdminCrufler over a Db (src/bouncer).  QueryBackend says when a call is
   settled; this module says with what.

   A client is a party with one cache.  A task is a piece of client code that
   makes one call at a time; the tasks of a client share its Qb and its cache.
   A request is served by the backend in one step and its reply is processed
   by the client in one step; replies come in any order.

   A document is a revision and a value; every create and every update makes a
   value no other has. *)

EXTENDS Naturals, FiniteSets

CONSTANTS
  Client, Task, Doc,
  None,
  Party,         \* the client of each task
  Backend,       \* the Db behind the parties: "loki", "tingo" or "zango"
  Hydrated,      \* clients whose tasks call exec(), which makes IDocuments; the
                 \* others call exec(false)
  FindDedup,     \* options.find_dedup of Qb
  Reader,        \* tasks that find documents and fetch them by id
  Writer,        \* of each document, the tasks that create or update it
  Remover,       \* tasks that remove them
  Watcher,       \* tasks that watch their IDocuments, with autopull and flushcache
  MaxWrites      \* bound: creates and updates in one behaviour

ASSUME StoreAssumption ==
  /\ Party \in [Task -> Client]
  /\ Writer \in [Doc -> SUBSET Task] /\ Reader \subseteq Task /\ Remover \subseteq Task /\ Watcher \subseteq Task
  /\ None \notin Client \cup Task \cup Doc /\ None \notin [rev : Nat, val : Nat]
  /\ Backend \in {"loki", "tingo", "zango"}
  /\ Hydrated \subseteq Client /\ FindDedup \in BOOLEAN
  /\ MaxWrites \in Nat

VARIABLES
  db,      \* the documents of the backend
  born,    \* ids that were ever created
  writes,  \* how many values were made
  cache,   \* for each client, what LokiCache finds first for each id
  stuck,   \* ids whose first copy lost its $loki: collection.remove throws
  live,    \* ids of which a client made an IDocument: its listener stays
  held,    \* the documents each task has
  alias,   \* <<t, d>>: held[t][d] is the very object in the cache
  call     \* the call each task is making

vars == <<db, born, writes, cache, stuck, live, held, alias, call>>

Record == [rev : Nat, val : Nat]
Docs == [Doc -> Record \cup {None}]     \* documents by id
NoDocs == [d \in Doc |-> None]

Phase == {"idle", "find", "nested", "join", "lookup", "pull", "create", "update", "remove"}

Call ==
  [ phase  : Phase,                     \* "nested": the lookup of a find
    wire   : {"none", "asked", "served"},
    want   : SUBSET Doc,                \* ids asked for, or modified
    arg    : Record \cup {None},        \* the document sent
    hits   : Docs,                      \* what populate already had
    reply  : Docs,                      \* what the backend answers
    gone   : BOOLEAN,                   \* ... with $meta.removed
    leader : Task \cup {None},          \* whose find it joined
    floor  : [Doc -> Nat] ]             \* values when the find was made

NoCall ==
  [ phase |-> "idle", wire |-> "none", want |-> {}, arg |-> None, hits |-> NoDocs,
    reply |-> NoDocs, gone |-> FALSE, leader |-> None, floor |-> [d \in Doc |-> 0] ]

TypeOK ==
  /\ db     \in Docs
  /\ born   \in SUBSET Doc
  /\ writes \in Nat
  /\ cache  \in [Client -> Docs]
  /\ stuck  \in [Client -> SUBSET Doc]
  /\ live   \in [Client -> SUBSET Doc]
  /\ held   \in [Task -> Docs]
  /\ alias  \in SUBSET (Task \X Doc)
  /\ call   \in [Task -> Call]

Init ==
  /\ db     = NoDocs
  /\ born   = {}
  /\ writes = 0
  /\ cache  = [c \in Client |-> NoDocs]
  /\ stuck  = [c \in Client |-> {}]
  /\ live   = [c \in Client |-> {}]
  /\ held   = [t \in Task |-> NoDocs]
  /\ alias  = {}
  /\ call   = [t \in Task |-> NoCall]

-----------------------------------------------------------------------------
(* LokiCache *)

\* What findOne returns for d once the documents in msgs were inserted: the new
\* copy, unless the old one could not be removed and still comes first.
First(c, msgs, d) ==
  IF msgs[d] = None \/ d \in stuck[c] THEN cache[c][d] ELSE msgs[d]

MHitAny(c, d, rev) == cache[c][d] # None   \* mutant: the revision is not compared

\* LokiCache.populate: does the cached copy of d answer a msg that carries
\* revision rev (0: none, so that any copy will do)?
Hit(c, d, rev) ==
  cache[c][d] # None /\ (rev > 0 => cache[c][d].rev = rev)

MAfterRemove(c, d) == None   \* mutant: the copy goes, its IDocuments are not told

\* What findOne returns for d after the insert of a msg with $meta.removed.
AfterRemove(c, d) == IF d \in stuck[c] THEN cache[c][d] ELSE None

\* LokiCache.remove, which cannot remove such a copy either.
Removed(c, d) == [cache EXCEPT ![c][d] = AfterRemove(c, d)]

\* findById deletes $loki from the object it returns, which is the cache's own.
FindById(c, ids) == stuck[c] \cup ids

\* Does the IDocument that t has of d hear the event of c's cache?
Hears(c, t, d) == Party[t] = c /\ d \in live[c] /\ held[t][d] # None

\* The constructor of IDocument listens to the events of each id, for good.
Listens(c, ids) == live[c] \cup ids

\* DocumentFactory.hydrate makes an IDocument of each document of an answer.
Hydrate(c, answer) ==
  IF c \in Hydrated THEN Listens(c, {d \in DOMAIN answer : answer[d] # None}) ELSE live[c]

\* LokiCache.insert of the documents in msgs, with the events it emits, and then
\* an answer handed to the tasks in T.  The event makes every IDocument of the
\* id call findById and take the object it returns for its data; the answer
\* makes new IDocuments.
InsertAndAnswer(c, msgs, T, answer) ==
  LET follows(t, d) == msgs[d] # None /\ Hears(c, t, d)
      given(t, d)   == t \in T /\ d \in DOMAIN answer
  IN /\ cache' = [cache EXCEPT ![c] = [d \in Doc |-> First(c, msgs, d)]]
     /\ stuck' = [stuck EXCEPT ![c] = FindById(c, {d \in live[c] : msgs[d] # None})]
     /\ live'  = [live EXCEPT ![c] = Hydrate(c, answer)]
     /\ held'  = [t \in Task |-> [d \in Doc |->
                    CASE given(t, d)                     -> answer[d]
                      [] ~given(t, d) /\ follows(t, d)   -> First(c, msgs, d)
                      [] OTHER                           -> held[t][d]]]
     /\ alias' = {x \in Task \X Doc : /\ ~given(x[1], x[2])
                                      /\ x \in alias \/ follows(x[1], x[2])}

-----------------------------------------------------------------------------
(* The backend: AdminCrufler over a Db *)

MUpdatedSame(d, sent) ==   \* mutant: the revision is not counted up
  [stored |-> IF db[d] = None THEN None ELSE sent, answer |-> sent]

\* Db.update of document d as the client sent it: what the Db holds after it,
\* and what it answers.  Only the revision the client sent counts, except that
\* ZangoDb keeps the old one (old.meta.revision++ is read before it counts).
Updated(d, sent) ==
  CASE Backend = "zango" /\ db[d] # None -> [stored |-> [sent EXCEPT !.rev = db[d].rev],
                                             answer |-> [sent EXCEPT !.rev = db[d].rev]]
    [] Backend = "loki" /\ db[d] # None  -> [stored |-> [sent EXCEPT !.rev = @ + 1],
                                             answer |-> [sent EXCEPT !.rev = @ + 1]]
    [] Backend = "tingo"                 -> [stored |-> IF db[d] = None THEN None
                                                        ELSE [sent EXCEPT !.rev = @ + 1],
                                             answer |-> [sent EXCEPT !.rev = @ + 1]]
    [] OTHER                             -> [stored |-> None, answer |-> None]

\* The reply to t's request, with the given documents.
Answered(t, docs, gone) ==
  call' = [call EXCEPT ![t].wire = "served", ![t].reply = docs, ![t].gone = gone]

\* applyFind: the headers, or the documents, that the backend has now.
ServeFind(t) ==
  /\ call[t].wire = "asked"
  /\ call[t].phase \in {"find", "nested", "lookup", "pull"}
  /\ Answered(t, [d \in Doc |-> IF call[t].phase = "find" \/ d \in call[t].want
                                THEN db[d] ELSE None], FALSE)
  /\ UNCHANGED <<db, born, writes, cache, stuck, live, held, alias>>

\* applyCreate and Db.insertMany.
ServeCreate(t) ==
  /\ call[t].wire = "asked" /\ call[t].phase = "create"
  /\ \E d \in call[t].want :
       LET docs == [NoDocs EXCEPT ![d] = call[t].arg]
       IN /\ db' = [db EXCEPT ![d] = call[t].arg]
          /\ Answered(t, docs, FALSE)
  /\ UNCHANGED <<born, writes, cache, stuck, live, held, alias>>

\* applyUpdate and Db.update.  An exception is a result with no msgs.
ServeUpdate(t) ==
  /\ call[t].wire = "asked" /\ call[t].phase = "update"
  /\ \E d \in call[t].want :
       LET u == Updated(d, call[t].arg)
       IN /\ db' = [db EXCEPT ![d] = u.stored]
          /\ Answered(t, [NoDocs EXCEPT ![d] = u.answer], FALSE)
  /\ UNCHANGED <<born, writes, cache, stuck, live, held, alias>>

\* applyRemove and Db.findAndRemove.  Of a document that is not there, only
\* LokiDb answers with the id that was asked for.
ServeRemove(t) ==
  /\ call[t].wire = "asked" /\ call[t].phase = "remove"
  /\ \E d \in call[t].want :
       /\ db' = [db EXCEPT ![d] = None]
       /\ Answered(t, NoDocs, Backend = "loki" \/ db[d] # None)
  /\ UNCHANGED <<born, writes, cache, stuck, live, held, alias>>

-----------------------------------------------------------------------------
(* Calls of a task *)

Idle(t) == call[t].phase = "idle"

Present == [d \in Doc |-> IF db[d] = None THEN 0 ELSE db[d].val]

\* The tasks that get the answer of t's find: t and those that joined it.
Sharers(t) == {t} \cup {j \in Task : call[j].leader = t}

Done(T) == [t \in Task |-> IF t \in T THEN NoCall ELSE call[t]]

\* Query.exec without ids: Qb.find.
Find(t) ==
  /\ Idle(t) /\ t \in Reader
  /\ LET pending == {l \in Task : Party[l] = Party[t] /\ call[l].phase \in {"find", "nested"}}
     IN IF FindDedup /\ pending # {}
        THEN \E l \in pending :
               call' = [call EXCEPT ![t].phase = "join", ![t].leader = l,
                                    ![t].floor = call[l].floor]
        ELSE call' = [call EXCEPT ![t].phase = "find", ![t].wire = "asked",
                                  ![t].floor = Present]
  /\ UNCHANGED <<db, born, writes, cache, stuck, live, held, alias>>

\* The documents in want are asked for.
Asks(t, phase, want, hits) ==
  call' = [call EXCEPT ![t].phase = phase, ![t].wire = "asked", ![t].want = want,
                       ![t].hits = hits, ![t].reply = NoDocs, ![t].arg = None]

\* Qb.queueRequest of a lookup of ids whose msgs carry revisions revs: the
\* cache answers the tasks in T, or the misses are asked for.
LookUp(t, phase, ids, revs, T) ==
  LET c == Party[t]
      hit == {d \in ids : Hit(c, d, revs[d])}
      found == [d \in Doc |-> IF d \in hit THEN cache[c][d] ELSE None]
      scope == IF phase = "nested" THEN Doc ELSE ids
  IN IF hit = ids
     THEN /\ InsertAndAnswer(c, NoDocs, T, [d \in scope |-> found[d]])
          /\ call' = Done(T)
     ELSE /\ Asks(t, phase, ids \ hit, found)
          /\ UNCHANGED <<cache, stuck, live, held, alias>>

\* Query.exec with the id of d.
Fetch(t, d) ==
  /\ Idle(t) /\ t \in Reader
  /\ LookUp(t, "lookup", {d}, [e \in Doc |-> 0], {t})
  /\ UNCHANGED <<db, born, writes>>

\* IDocument.pull, for which any copy in the cache will do.
Pull(t, d) ==
  /\ Idle(t) /\ Party[t] \in Hydrated /\ held[t][d] # None
  /\ LookUp(t, "pull", {d}, [e \in Doc |-> 0], {t})
  /\ UNCHANGED <<db, born, writes>>

\* watch subscribes, once, to the topic of the document.
Watches(t, d) == t \in Watcher /\ Party[t] \in Hydrated /\ held[t][d] # None

\* A change of the document is told, at any time after it: autopull drops the
\* cached copy and pulls.  A copy that stays answers the pull.
\* Bound: while the task makes no call of its own.
HandleWatchMsg(t, d) ==
  /\ Idle(t) /\ Watches(t, d)
  /\ IF AfterRemove(Party[t], d) # None
     THEN LookUp(t, "pull", {d}, [e \in Doc |-> 0], {t})
     ELSE /\ cache' = Removed(Party[t], d)
          /\ Asks(t, "pull", {d}, NoDocs)
          /\ UNCHANGED <<stuck, live, held, alias>>
  /\ UNCHANGED <<db, born, writes>>

\* Party.create, IDocument.create.
Create(t, d) ==
  /\ Idle(t) /\ t \in Writer[d]
  /\ d \notin born /\ writes < MaxWrites
  /\ born' = born \cup {d}
  /\ writes' = writes + 1
  /\ call' = [call EXCEPT ![t].phase = "create", ![t].wire = "asked", ![t].want = {d},
                          ![t].arg = [rev |-> 1, val |-> writes']]
  /\ UNCHANGED <<db, cache, stuck, live, held, alias>>

\* setData gives an IDocument its new data.
Edited(r) == IF r = None THEN None ELSE [r EXCEPT !.val = writes']

\* Party.update of a document the task has, changed; for an IDocument, an edit
\* of its data and save().  When its data is the object in the cache, the edit
\* is in the cache too, and in every IDocument that has the same object.
Update(t, d) ==
  /\ Idle(t) /\ t \in Writer[d]
  /\ held[t][d] # None /\ writes < MaxWrites
  /\ writes' = writes + 1
  /\ call' = [call EXCEPT ![t].phase = "update", ![t].wire = "asked", ![t].want = {d},
                          ![t].arg = [held[t][d] EXCEPT !.val = writes']]
  /\ LET same == {x \in alias : x[2] = d /\ Party[x[1]] = Party[t]}
     IN IF <<t, d>> \in alias
        THEN /\ cache' = [cache EXCEPT ![Party[t]][d] = Edited(@)]
             /\ held' = [s \in Task |-> IF <<s, d>> \in same
                                        THEN [held[s] EXCEPT ![d] = Edited(@)]
                                        ELSE held[s]]
        ELSE /\ held' = IF Party[t] \in Hydrated THEN [held EXCEPT ![t][d] = Edited(@)] ELSE held
             /\ UNCHANGED cache
  /\ alias' = alias \ {<<t, d>>}
  /\ UNCHANGED <<db, born, stuck, live>>

\* Party.remove, IDocument.remove.
Remove(t, d) ==
  /\ Idle(t) /\ t \in Remover
  /\ held[t][d] # None
  /\ call' = [call EXCEPT ![t].phase = "remove", ![t].wire = "asked", ![t].want = {d}]
  /\ UNCHANGED <<db, born, writes, cache, stuck, live, held, alias>>

-----------------------------------------------------------------------------
(* Crufl.onResult, and what the call that waits for it does next *)

\* A find: its headers are looked up; no headers, no documents.
GetHeaders(t) ==
  /\ call[t].wire = "served" /\ call[t].phase = "find"
  /\ LET headers == {d \in Doc : call[t].reply[d] # None}
     IN LookUp(t, "nested", headers,
               [d \in Doc |-> IF d \in headers THEN call[t].reply[d].rev ELSE 0], Sharers(t))
  /\ UNCHANGED <<db, born, writes>>

MGetDocs(t) ==   \* mutant: the hits of a partial answer are dropped
  /\ call[t].wire = "served" /\ call[t].phase \in {"nested", "lookup", "pull"}
  /\ LET msgs == call[t].reply
         scope == CASE call[t].phase = "nested" -> Doc
                    [] call[t].phase = "lookup" -> call[t].want
                    [] call[t].phase = "pull"   -> {d \in call[t].want : msgs[d] # None}
     IN InsertAndAnswer(Party[t], msgs, Sharers(t), [d \in scope |-> msgs[d]])
  /\ call' = Done(Sharers(t))
  /\ UNCHANGED <<db, born, writes>>

\* A lookup: its documents join the hits.  A pull that found nothing leaves the
\* document as it is.
GetDocs(t) ==
  /\ call[t].wire = "served" /\ call[t].phase \in {"nested", "lookup", "pull"}
  /\ LET msgs == call[t].reply
         scope == CASE call[t].phase = "nested" -> Doc
                    [] call[t].phase = "lookup" -> call[t].want
                    [] call[t].phase = "pull"   -> {d \in call[t].want : msgs[d] # None}
     IN InsertAndAnswer(Party[t], msgs, Sharers(t),
          [d \in scope |-> IF msgs[d] # None THEN msgs[d] ELSE call[t].hits[d]])
  /\ call' = Done(Sharers(t))
  /\ UNCHANGED <<db, born, writes>>

GetCreated(t) ==
  /\ call[t].wire = "served" /\ call[t].phase = "create"
  /\ InsertAndAnswer(Party[t], call[t].reply, {t}, [d \in call[t].want |-> call[t].reply[d]])
  /\ call' = Done({t})
  /\ UNCHANGED <<db, born, writes>>

\* An update: IDocument.save pulls when the revision is not the one it expects,
\* and that pull is a call of its own, made before anything else happens to t.
GetUpdated(t) ==
  /\ call[t].wire = "served" /\ call[t].phase = "update"
  /\ \E d \in call[t].want :
       LET new == call[t].reply[d]
           hydrated == Party[t] \in Hydrated
           expected == new # None /\ new.rev = call[t].arg.rev + 1
           kept == IF hydrated \/ new = None THEN {} ELSE {d}
       IN /\ InsertAndAnswer(Party[t], call[t].reply, {t}, [e \in kept |-> new])
          /\ call' = IF ~hydrated \/ expected THEN Done({t})
                     ELSE [call EXCEPT ![t] = [NoCall EXCEPT !.phase = "update",
                                                             !.want = {d}]]
  /\ UNCHANGED <<db, born, writes>>

\* The pull in IDocument.save.
PullSaved(t) ==
  /\ call[t].phase = "update" /\ call[t].wire = "none"
  /\ LookUp(t, "pull", call[t].want, [d \in Doc |-> 0], {t})
  /\ UNCHANGED <<db, born, writes>>

\* A removal: LokiCache.insert of a msg with $meta.removed.  The task lets go of
\* the document.
GetRemoved(t) ==
  /\ call[t].wire = "served" /\ call[t].phase = "remove"
  /\ \E d \in call[t].want :
       /\ cache' = IF call[t].gone
                   THEN [cache EXCEPT ![Party[t]][d] = AfterRemove(Party[t], d)] ELSE cache
       /\ held' = [held EXCEPT ![t][d] = None]
       /\ alias' = alias \ {<<t, d>>}
  /\ call' = Done({t})
  /\ UNCHANGED <<db, born, writes, stuck, live>>

-----------------------------------------------------------------------------

Next ==
  \E t \in Task :
     \/ Find(t) \/ GetHeaders(t) \/ GetDocs(t)
     \/ GetCreated(t) \/ GetUpdated(t) \/ PullSaved(t) \/ GetRemoved(t)
     \/ ServeFind(t) \/ ServeCreate(t) \/ ServeUpdate(t) \/ ServeRemove(t)
     \/ \E d \in Doc : Fetch(t, d) \/ Pull(t, d) \/ HandleWatchMsg(t, d) \/ Create(t, d) \/ Update(t, d) \/ Remove(t, d)

Spec == Init /\ [][Next]_vars

-----------------------------------------------------------------------------
(* Properties *)

\* One task writes document d, alone in its party and without IDocuments, and the
\* Db counts revisions up.
OneWriter(d) ==
  /\ Backend # "zango"
  /\ \A w \in Writer[d] : /\ Party[w] \notin Hydrated
                          /\ \A t \in Task \ {w} : t \notin Writer[d] /\ Party[t] # Party[w]

\* Every copy of document d: the backend's, in caches, in tasks, on the wire.
Copies(d) ==
  ( {db[d]} \cup {cache[c][d] : c \in Client} \cup {held[t][d] : t \in Task}
    \cup {call[t].reply[d] : t \in Task} \cup {call[t].hits[d] : t \in Task} ) \ {None}

\* A revision number names one content, if one task writes the document as OneWriter
\* says:
\* populate takes an equal revision for an equal document, which is only right as
\* long as this holds.  (No Db compares the revision of an update with its own.)
RevisionNamesContent ==
  \A d \in Doc : OneWriter(d) =>
    \A r, s \in Copies(d) : r.rev = s.rev => r.val = s.val

\* A find is over when its task stops waiting for it.
FindEnds(t) == call[t].phase \in {"find", "nested", "join"} /\ call'[t].phase = "idle"

\* A find leaves out no document that the backend had all along: no eviction,
\* miss or partial hit of the cache makes one disappear.
FindComplete ==
  [][\A t \in Task, d \in Doc :
       FindEnds(t) /\ call[t].floor[d] > 0 /\ db[d] # None => held'[t][d] # None]_vars

\* A find answers with documents at least as new as the backend's were when it
\* (or the find it joined) was made, whatever the caches held and whatever replies
\* overtook each other, as long as revisions can be trusted.
FindIsCurrent ==
  [][\A t \in Task, d \in Doc :
       OneWriter(d) /\ FindEnds(t) /\ held'[t][d] # None
         => held'[t][d].val >= call[t].floor[d]]_vars

\* An IDocument that took the object in the cache for its data shows what the
\* cache answers, however edits, saves, removals and other calls interleave.
AliasIsCached ==
  \A x \in alias : /\ held[x[1]][x[2]] = cache[Party[x[1]]][x[2]]
                   /\ x[2] \in stuck[Party[x[1]]]

=============================================================================

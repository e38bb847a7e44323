----------------------------- MODULE LocalParty -----------------------------
(* A party with its own Db (party/iparty.js, party/local) and the three Dbs
   behind AdminCrufler (bouncer): how the party starts, where its identity is
   kept, what overlapping calls do to the documents, and what is left after the
   process died.

   Each task makes one call at a time; a call goes through its documents one by
   one, and waits between the steps named here.  A document is a field for each
   task; a task writes its own.  A find reads the collection in one step and is
   left out, as are two start calls at once, and two that change the identity. *)

EXTENDS Naturals, Sequences, FiniteSets

CONSTANTS
  Task, Doc, Nil,
  Backends,   \* a subset of {"loki", "tingo", "zango"}
  MaxCalls,   \* bound: calls, and identities made
  MaxCrashes  \* bound

Record == [Task -> Nat \cup {Nil}]
Docs == [Doc -> Record \cup {Nil}]

ASSUME PartyAssumption ==
  /\ Backends \subseteq {"loki", "tingo", "zango"}
  /\ MaxCalls \in Nat /\ MaxCrashes \in Nat
  /\ Nil \notin Nat \cup Record

VARIABLES
  backend,
  party,      \* how far start is: "down", "dir", "config", "identity", "db", "up"
  changing,   \* the step of resetIdentity or setIdentity in progress
  identity,   \* _identity, a number, or Nil
  kept,       \* 'identity' in the config file
  owned,      \* history: the identity of the party, Nil while it is changed
  store,      \* the collection
  saved,      \* what LokiJS saved last
  call,
  stands,     \* history: the value of task t's field in d that must be there
  made,       \* calls and identities made
  crashes

own == <<party, changing, identity, kept, owned>>
docs == <<store, saved, call, stands>>
partyVars == <<backend, own, docs, made, crashes>>

Call == [ phase : {"idle", "asked", "read", "written"},
          op    : {"none", "create", "update", "remove"},
          todo  : Seq(Doc),           \* documents still to do
          done  : SUBSET Doc,         \* documents stored
          val   : 0..MaxCalls,        \* what it writes
          old   : Record \cup {Nil}, \* the document Zango read
          clean : BOOLEAN ]           \* history: nobody else changes its documents

NoDocs == [d \in Doc |-> Nil]
NoCall == [phase |-> "idle", op |-> "none", todo |-> <<>>, done |-> {}, val |-> 0,
           old |-> Nil, clean |-> FALSE]

PartyTypeOK ==
  /\ backend \in Backends
  /\ party \in {"down", "dir", "config", "identity", "db", "up"}
  /\ changing \in {"no", "reset", "made", "written"}
  /\ {identity, kept, owned} \subseteq 0..MaxCalls \cup {Nil}
  /\ {store, saved} \subseteq Docs
  /\ call \in [Task -> Call]
  /\ stands \in [Task -> [Doc -> 0..MaxCalls \cup {Nil}]]
  /\ made \in 0..MaxCalls /\ crashes \in 0..MaxCrashes

PartyInit ==
  /\ backend \in Backends
  /\ party = "down" /\ changing = "no"
  /\ identity = Nil /\ kept = Nil /\ owned = Nil
  /\ store = NoDocs /\ saved = NoDocs
  /\ call = [t \in Task |-> NoCall]
  /\ stands = [t \in Task |-> [d \in Doc |-> Nil]]
  /\ made = 0 /\ crashes = 0

Make == made < MaxCalls /\ made' = made + 1

\* The class of the party, LokiParty, TingoParty or ZangoParty, makes the Db.
IsLoki  == backend = "loki"
IsTingo == backend = "tingo"
IsZango == backend = "zango"

\* JsonFileConfig.write: content and file in one step.
Keep(value) == kept' = value

-----------------------------------------------------------------------------
(* The party *)

\* start calls config.start, which makes the directory, ...
Start ==
  /\ party = "down" /\ changing = "no"
  /\ party' = "dir"
  /\ UNCHANGED <<backend, changing, identity, kept, owned, docs, made, crashes>>

\* ... and reads the file; then loadIdentity.
StartConfig ==
  /\ party = "dir"
  /\ party' = "config"
  /\ UNCHANGED <<backend, changing, identity, kept, owned, docs, made, crashes>>

\* The directory cannot be made: start is rejected, and may be called again.
TouchDirFails ==
  /\ party = "dir"
  /\ party' = "down"
  /\ UNCHANGED <<backend, changing, identity, kept, owned, docs, made, crashes>>

MLoadIdentity ==   \* mutant: the identity is always made anew
  /\ party = "config" /\ changing = "no"
  /\ changing' = "reset" /\ Keep(Nil)
  /\ UNCHANGED <<backend, party, identity, owned, docs, made, crashes>>

\* loadIdentity: the one in the config, else resetIdentity writes null first.
LoadIdentity ==
  /\ party = "config" /\ changing = "no"
  /\ IF kept # Nil
     THEN /\ identity' = kept /\ party' = "identity"
          /\ UNCHANGED <<changing, kept>>
     ELSE /\ changing' = "reset" /\ Keep(Nil)
          /\ UNCHANGED <<identity, party>>
  /\ UNCHANGED <<backend, owned, docs, made, crashes>>

\* resetIdentity of a running party.
ResetIdentity ==
  /\ party = "up" /\ changing = "no"
  /\ changing' = "reset" /\ Keep(Nil) /\ owned' = Nil
  /\ UNCHANGED <<backend, party, identity, docs, made, crashes>>

\* ... the new identity, once its keys are made, and the write of it.
MakeIdentity ==
  /\ changing = "reset"
  /\ Make
  /\ identity' = made' /\ Keep(made') /\ changing' = "made"
  /\ UNCHANGED <<backend, party, owned, docs, crashes>>

\* ... which ends with loadIdentity.
ReloadIdentity ==
  /\ changing = "made"
  /\ identity' = kept /\ changing' = "no"
  /\ party' = IF party = "config" THEN "identity" ELSE party
  /\ owned' = IF party = "config" THEN owned ELSE kept
  /\ UNCHANGED <<backend, kept, docs, made, crashes>>

\* setIdentity, before start or later: memory and the file.
SetIdentity ==
  /\ party \in {"down", "up"} /\ changing = "no"
  /\ Make
  /\ identity' = made' /\ Keep(made') /\ owned' = Nil /\ changing' = "written"
  /\ UNCHANGED <<backend, party, docs, crashes>>

IdentityIsSet ==
  /\ changing = "written"
  /\ changing' = "no"
  /\ owned' = identity
  /\ UNCHANGED <<backend, party, identity, kept, docs, made, crashes>>

\* The start of the subclass: db.start opens the files.
StartDb ==
  /\ party = "identity"
  /\ party' = "db"
  /\ UNCHANGED <<backend, changing, identity, kept, owned, docs, made, crashes>>

LokiStart  == IsLoki /\ StartDb
TingoStart == IsTingo /\ StartDb
ZangoStart == IsZango /\ StartDb

\* IDb.start made a collection and its indices for each model.
DbStarted ==
  /\ party = "db"
  /\ party' = "up"
  /\ owned' = IF owned = Nil THEN identity ELSE owned
  /\ UNCHANGED <<backend, changing, identity, kept, docs, made, crashes>>

LokiStarted  == IsLoki /\ DbStarted
TingoStarted == IsTingo /\ DbStarted
ZangoStarted == IsZango /\ DbStarted

\* The autosave of LokiJS, when lokiOptions ask for one.
AutoSave ==
  /\ party = "up" /\ IsLoki /\ saved # store
  /\ saved' = store
  /\ UNCHANGED <<backend, own, store, call, stands, made, crashes>>

\* The process dies.  The files are left; of a LokiJS collection what was saved:
\* no write saves it before it is acknowledged.
Crash ==
  /\ party # "down" \/ changing # "no"
  /\ crashes < MaxCrashes
  /\ crashes' = crashes + 1
  /\ party' = "down" /\ changing' = "no" /\ identity' = Nil
  /\ store' = IF backend = "loki" THEN saved ELSE store
  /\ stands' = IF backend = "loki" THEN [t \in Task |-> [d \in Doc |-> Nil]] ELSE stands
  /\ call' = [t \in Task |-> NoCall]
  /\ UNCHANGED <<backend, kept, owned, saved, made>>

-----------------------------------------------------------------------------
(* Calls *)

Writes(op) == op \in {"create", "update", "remove"}

\* Does a call with op on d undo what another task wrote to d?  LokiDb merges
\* an update into the document in one step; the others replace the document.
Undoes(op) == op \in {"create", "remove"} \/ (op = "update" /\ backend # "loki")

Busy(t, d) == call[t].phase # "idle" /\ Undoes(call[t].op)
              /\ \E i \in DOMAIN call[t].todo : call[t].todo[i] = d

\* AdminCrufler.handleCall with one crufl.
Ask(t, op, todo) ==
  /\ party = "up" /\ call[t].phase = "idle"
  /\ Make
  /\ LET hit == {todo[i] : i \in DOMAIN todo}
     IN /\ stands' = [u \in Task |-> [d \in Doc |->
                        IF d \in hit /\ (u = t \/ Undoes(op)) THEN Nil ELSE stands[u][d]]]
        /\ call' = [u \in Task |->
             IF u = t THEN [NoCall EXCEPT
                 !.phase = "asked", !.op = op, !.todo = todo, !.val = made',
                 !.clean = /\ op = "update" => \A d \in hit : store[d] # Nil
                           /\ op = "create" => \A d \in hit : store[d] = Nil
                           /\ ~\E w \in Task \ {t}, d \in hit : Busy(w, d)]
             ELSE [call[u] EXCEPT !.clean = @ /\ ~(Undoes(op) /\ \E d \in hit :
                                      d \in call[u].done \cup {call[u].todo[i] : i \in DOMAIN call[u].todo})]]
  /\ UNCHANGED <<backend, own, store, saved, crashes>>

Doc1(t) == Head(call[t].todo)

\* documentFromObject: the document of the caller, with its field only.
FromObject(t) == [u \in Task |-> IF u = t THEN call[t].val ELSE Nil]

\* LokiDb and ZangoDb merge it into the old document, TingoDb replaces that.
Merged(old, t) == [old EXCEPT ![t] = FromObject(t)[t]]
Replaced(t) == FromObject(t)

\* The call has stored, and goes on with its next document.
Stored(t, d, new) ==
  /\ store' = [store EXCEPT ![d] = new]
  /\ call' = [call EXCEPT ![t].phase = "written", ![t].todo = Tail(@), ![t].done = @ \cup {d}]

\* An exception: AdminCrufler answers with an error and no msgs.  What was
\* stored before stays.
Fail(t) ==
  /\ call' = [call EXCEPT ![t] = NoCall]
  /\ UNCHANGED <<store>>

NowAt(t, op) == call[t].phase = "asked" /\ call[t].op = op
Rest == UNCHANGED <<backend, own, saved, stands, made, crashes>>

\* factory.validate rejects the document, or there is no such model.
Reject(t) ==
  /\ call[t].phase = "asked" /\ call[t].op \in {"create", "update"}
  /\ Fail(t)
  /\ Rest

\* insertMany.  Without an _id the document gets a new one, and is not there yet;
\* the _id a caller gives it may be.
Insert(t) ==
  /\ NowAt(t, "create") /\ store[Doc1(t)] = Nil
  /\ Stored(t, Doc1(t), FromObject(t))
  /\ Rest

\* TingoDb and ZangoDb have _id as the key: one that is there makes them throw.
Refuse(t) ==
  /\ NowAt(t, "create") /\ store[Doc1(t)] # Nil
  /\ Fail(t)
  /\ Rest

\* LokiDb stores and acknowledges a second document with the id, as the unique
\* index on '$meta.id' does not follow the path.  Which of the two findOne finds
\* from then on is up to LokiJS; findAndRemove removes both.
Double(t) ==
  /\ NowAt(t, "create") /\ store[Doc1(t)] # Nil
  /\ \E found \in {store[Doc1(t)], FromObject(t)} : Stored(t, Doc1(t), found)
  /\ Rest

LokiInsert(t)  == IsLoki /\ (Insert(t) \/ Double(t))
TingoInsert(t) == IsTingo /\ (Insert(t) \/ Refuse(t))
ZangoInsert(t) == IsZango /\ (Insert(t) \/ Refuse(t))

MLokiUpdate(t) ==   \* mutant: the document replaces the old one
  /\ IsLoki /\ NowAt(t, "update")
  /\ LET d == Doc1(t)
     IN IF store[d] = Nil THEN Fail(t) ELSE Stored(t, d, Replaced(t))
  /\ Rest

\* LokiDb.update: findOne, merge and update in one step; of a document that is
\* not there the merge has no $loki, and collection.update throws.
LokiUpdate(t) ==
  /\ IsLoki /\ NowAt(t, "update")
  /\ LET d == Doc1(t)
     IN IF store[d] = Nil THEN Fail(t) ELSE Stored(t, d, Merged(store[d], t))
  /\ Rest

\* TingoDb.update: nothing happens to a document that is not there.
TingoUpdate(t) ==
  /\ IsTingo /\ NowAt(t, "update")
  /\ LET d == Doc1(t)
     IN Stored(t, d, IF store[d] = Nil THEN Nil ELSE Replaced(t))
  /\ Rest

\* ZangoDb.update reads the old document (null throws) and waits, ...
ZangoRead(t) ==
  /\ IsZango /\ call[t].phase = "asked" /\ call[t].op \in {"update", "remove"}
  /\ LET d == Doc1(t)
     IN IF store[d] = Nil /\ call[t].op = "update" THEN Fail(t)
        ELSE /\ call' = [call EXCEPT ![t].phase = "read", ![t].old = store[d]]
             /\ UNCHANGED store
  /\ Rest

MZangoUpdate(t) ==   \* mutant: the merge is stored even if the document is gone
  /\ IsZango /\ call[t].phase = "read" /\ call[t].op = "update"
  /\ Stored(t, Doc1(t), Merged(call[t].old, t))
  /\ Rest

\* ... and stores the merge with what it read, if the document is still there.
ZangoUpdate(t) ==
  /\ IsZango /\ call[t].phase = "read" /\ call[t].op = "update"
  /\ LET d == Doc1(t)
     IN Stored(t, d, IF store[d] = Nil THEN Nil ELSE Merged(call[t].old, t))
  /\ Rest

LokiRemove(t) ==
  /\ IsLoki /\ NowAt(t, "remove")
  /\ Stored(t, Doc1(t), Nil)
  /\ Rest

TingoRemove(t) ==
  /\ IsTingo /\ NowAt(t, "remove")
  /\ Stored(t, Doc1(t), Nil)
  /\ Rest

ZangoRemove(t) ==
  /\ IsZango /\ call[t].phase = "read" /\ call[t].op = "remove"
  /\ Stored(t, Doc1(t), Nil)
  /\ Rest

\* The change event is out; the next document, or the answer.
Answer(t) ==
  /\ call[t].phase = "written"
  /\ IF call[t].todo # <<>>
     THEN call' = [call EXCEPT ![t].phase = "asked"] /\ UNCHANGED stands
     ELSE /\ call' = [call EXCEPT ![t] = NoCall]
          /\ stands' = IF call[t].clean /\ call[t].op # "remove"
                       THEN [stands EXCEPT ![t] = [d \in Doc |->
                               IF d \in call[t].done THEN call[t].val ELSE @[d]]]
                       ELSE stands
  /\ UNCHANGED <<backend, own, store, saved, made, crashes>>

-----------------------------------------------------------------------------
(* What a party offers its clients *)

Create(t) == \E d \in Doc : Ask(t, "create", <<d>>)
Remove(t) == \E d \in Doc : Ask(t, "remove", <<d>>)
Update(t) == \/ \E d \in Doc : Ask(t, "update", <<d>>)
             \/ \E d, e \in Doc : d # e /\ Ask(t, "update", <<d, e>>)

TaskNext(t) ==
  \/ Create(t) \/ Remove(t) \/ Update(t)
  \/ Reject(t) \/ LokiInsert(t) \/ TingoInsert(t) \/ ZangoInsert(t)
  \/ LokiUpdate(t) \/ TingoUpdate(t) \/ ZangoRead(t) \/ ZangoUpdate(t)
  \/ LokiRemove(t) \/ TingoRemove(t) \/ ZangoRemove(t)
  \/ Answer(t)

PartyNext ==
  \/ Start \/ StartConfig \/ TouchDirFails \/ LoadIdentity \/ ResetIdentity \/ MakeIdentity \/ ReloadIdentity
  \/ SetIdentity \/ IdentityIsSet
  \/ LokiStart \/ LokiStarted \/ TingoStart \/ TingoStarted \/ ZangoStart \/ ZangoStarted
  \/ AutoSave \/ Crash
  \/ \E t \in Task : TaskNext(t)

PartySpec == PartyInit /\ [][PartyNext]_partyVars

-----------------------------------------------------------------------------
(* Properties *)

\* A write that was acknowledged stands: an update of a document that was there,
\* a create of one that was not.  Nothing but a later call of the same task, a
\* removal or a create of the document, and, except in LokiDb, an update of the
\* document that overlapped or came later, takes it away.  So LokiDb never loses
\* an update of one field to one of another, and TingoDb and ZangoDb keep what they
\* acknowledged when the process dies.  Of a create with an id that was there,
\* which LokiDb acknowledges, nothing is claimed: findOne may miss it.
AckedStands ==
  \A t \in Task, d \in Doc :
    stands[t][d] # Nil /\ party = "up" => store[d] # Nil /\ store[d][t] = stands[t][d]

\* Only a create brings a document back: an update does not that overlaps the
\* removal, not even one that read the document before, nor does a restart, except
\* that a LokiDb comes back as it was last saved.
OnlyCreatesBringBack ==
  [][\A d \in Doc :
       store[d] = Nil /\ store'[d] # Nil =>
         \/ \E t \in Task : NowAt(t, "create") /\ Doc1(t) = d
         \/ IsLoki /\ Crash]_partyVars

\* A party that was up and was not told to change its identity has the same
\* one whenever it is up again, whatever step it died in; and the file has it.
IdentityComesBack ==
  party = "up" /\ changing = "no" =>
    /\ identity # Nil /\ identity = kept
    /\ owned = identity
=============================================================================

--------------------------- MODULE PartyStoreProofs ---------------------------
(* What holds of the documents of a party for any clients, tasks and documents:
   an IDocument that took the object in the cache shows what the cache answers,
   no find leaves out what was there all along and, of a document that one task
   writes as OneWriter says, a revision names one content and finds are current. *)

EXTENDS PartyStore, TLAPS

Asking(t, phase) == call[t].phase = phase /\ call[t].wire = "asked"
Served(t, phase) == call[t].phase = phase /\ call[t].wire = "served"

\* What goes with the phase of a call.
CallsFit ==
  \A t \in Task :
     /\ Idle(t) => call[t] = NoCall
     /\ call[t].phase = "join" =>
          /\ call[t].leader \in Task /\ call[call[t].leader].phase \in {"find", "nested"}
          /\ Party[call[t].leader] = Party[t] /\ call[t].floor = call[call[t].leader].floor
     /\ call[t].phase # "join" => call[t].leader = None
     /\ call[t].phase \in {"create", "update"} => \E d \in Doc : t \in Writer[d] /\ call[t].want = {d}
     /\ Asking(t, "create") \/ Asking(t, "update") =>
          call[t].arg \in Record /\ call[t].reply = NoDocs /\ call[t].hits = NoDocs

\* A document that is not born, or is on its way to the Db, was never there.
NeverThere(d) == db[d] = None /\ \A t \in Task : call[t].floor[d] = 0

Births ==
  /\ \A d \in Doc \ born : NeverThere(d)
  /\ \A t \in Task : Asking(t, "create") => call[t].want \subseteq born /\ \A d \in call[t].want : NeverThere(d)
  /\ \A t, u \in Task : Asking(t, "create") /\ Asking(u, "create") /\ t # u
       => call[t].want \cap call[u].want = {}

\* What a find has seen of a document that was there all along.
FindsSee ==
  \A t \in Task, d \in Doc : call[t].floor[d] > 0 /\ db[d] # None =>
     /\ Served(t, "find") => call[t].reply[d] # None
     /\ call[t].phase = "nested" => d \in call[t].want \/ call[t].hits[d] # None
     /\ Served(t, "nested") /\ d \in call[t].want => call[t].reply[d] # None

\* Without IDocuments nobody takes an object out of the cache.
PlainApart ==
  /\ \A c \in Client \ Hydrated : live[c] = {} /\ stuck[c] = {}
  /\ \A x \in alias : Party[x[1]] \in Hydrated

SInv == TypeOK /\ CallsFit /\ Births /\ FindsSee /\ PlainApart /\ AliasIsCached

\* No copy of d is ahead of r.
Newest(r, d) == \A s \in Copies(d) : s.rev <= r.rev /\ s.val <= r.val

\* The copies the task of a party without others works with.
Known(w, d) == {cache[Party[w]][d], held[w][d], call[w].reply[d], call[w].hits[d]} \ {None}

\* Copies differ in their revisions, and the later the newer.
InOrder(d) ==
  /\ \A r \in Copies(d) : r.rev > 0 /\ r.val <= writes
  /\ \A r, s \in Copies(d) : r.rev <= s.rev => r.val <= s.val

\* The writer, which writes over the newest revision.
WritesNewest(d) ==
  \A w \in Writer[d] :
     /\ d \in call[w].want /\ (Asking(w, "create") \/ Asking(w, "update")) =>
          d \in born /\ call[w].arg.rev > 0 /\ call[w].arg.val <= writes
     /\ d \in call[w].want /\ Asking(w, "create") => Copies(d) = {}
     /\ d \in call[w].want /\ Asking(w, "update") => Newest(call[w].arg, d)
     /\ Served(w, "update") /\ call[w].reply[d] # None =>
          d \in call[w].want /\ Newest(call[w].reply[d], d)
     /\ ~Served(w, "update") \/ call[w].reply[d] = None => \A r \in Known(w, d) : Newest(r, d)

\* What a find gets is as new as what was there when it was made; base is the Db.
CurrentCall(k, base, d) ==
  /\ base[d] # None => k.floor[d] <= base[d].val
  /\ k.phase \in {"find", "nested"} /\ k.wire = "served" =>
       k.reply[d] = None \/ k.floor[d] <= k.reply[d].val
  /\ k.phase = "nested" => k.hits[d] = None \/ k.floor[d] <= k.hits[d].val

FindsAreCurrent(d) == \A t \in Task : CurrentCall(call[t], db, d)

\* What holds of a document with one writer.
RInv(d) ==
  /\ InOrder(d) /\ WritesNewest(d) /\ FindsAreCurrent(d)
  /\ db[d] # None => Newest(db[d], d)
  /\ d \notin born => Copies(d) = {}

PInv == SInv /\ \A d \in Doc : OneWriter(d) => RInv(d)

-----------------------------------------------------------------------------
(* Records, calls and copies *)

LEMMA NoDocsIsDocs ==
  /\ NoDocs \in Docs /\ \A d \in Doc : NoDocs[d] = None
  /\ None \notin Record
  /\ NoCall \in Call /\ NoCall.phase = "idle" /\ NoCall.wire = "none" /\ NoCall.leader = None
  /\ NoCall.reply = NoDocs /\ NoCall.hits = NoDocs /\ NoCall.want = {} /\ NoCall.arg = None
  /\ \A d \in Doc : NoCall.floor[d] = 0
<1>1. NoDocs \in Docs /\ \A d \in Doc : NoDocs[d] = None
  BY DEF NoDocs, Docs
<1>2. [d \in Doc |-> 0] \in [Doc -> Nat] /\ \A d \in Doc : [e \in Doc |-> 0][d] = 0
  OBVIOUS
<1>3. None \notin Record
  BY StoreAssumption DEF Record
<1> QED
  BY <1>1, <1>2, <1>3 DEF NoCall, Call, Phase

LEMMA OneCall ==
  ASSUME TypeOK, NEW t \in Task, NEW rec \in Call, call' = [call EXCEPT ![t] = rec]
  PROVE  /\ call' \in [Task -> Call]
         /\ call'[t] = rec /\ \A u \in Task : u # t => call'[u] = call[u]
  BY DEF TypeOK

LEMMA ManyDone ==
  ASSUME TypeOK, NEW T \in SUBSET Task, call' = Done(T)
  PROVE  /\ call' \in [Task -> Call]
         /\ \A u \in T : call'[u] = NoCall
         /\ \A u \in Task \ T : call'[u] = call[u]
  BY NoDocsIsDocs DEF TypeOK, Done

\* The answer to the tasks in T, of which D are the documents asked for, arrives
\* with the insert of msgs.
LEMMA InsertKeeps ==
  ASSUME TypeOK, PlainApart, AliasIsCached,
         NEW c \in Client, NEW msgs \in Docs, NEW T \in SUBSET Task, NEW D \in SUBSET Doc,
         NEW answer \in [D -> Record \cup {None}], InsertAndAnswer(c, msgs, T, answer)
  PROVE  /\ cache' \in [Client -> Docs] /\ stuck' \in [Client -> SUBSET Doc]
         /\ live' \in [Client -> SUBSET Doc] /\ held' \in [Task -> Docs] /\ alias' \in SUBSET (Task \X Doc)
         /\ AliasIsCached'
         /\ PlainApart'
         /\ \A e \in Client : e # c => cache'[e] = cache[e]
         /\ \A d \in Doc : /\ cache'[c][d] \in {cache[c][d], msgs[d]}
                           /\ msgs[d] = None => cache'[c][d] = cache[c][d]
                           /\ msgs[d] # None /\ c \notin Hydrated => cache'[c][d] = msgs[d]
         /\ \A u \in T, d \in D : held'[u][d] = answer[d]
         /\ \A u \in Task, d \in Doc :
              u \notin T \/ d \notin D =>
                \/ held'[u][d] = held[u][d]
                \/ /\ Party[u] = c /\ c \in Hydrated /\ msgs[d] # None
                   /\ held'[u][d] \in {cache[c][d], msgs[d]}
<1> DEFINE follows(u, d) == msgs[d] # None /\ Party[u] = c /\ d \in live[c] /\ held[u][d] # None
           given(u, d) == u \in T /\ d \in D
           first(d) == IF msgs[d] = None \/ d \in stuck[c] THEN cache[c][d] ELSE msgs[d]
<1>1. /\ DOMAIN answer = D
      /\ \A d \in D : answer[d] \in Record \cup {None}
      /\ \A d \in Doc : first(d) \in Record \cup {None} /\ first(d) \in {cache[c][d], msgs[d]}
      /\ \A d \in Doc : msgs[d] = None => first(d) = cache[c][d]
      /\ \A d \in Doc : d \in stuck[c] => first(d) = cache[c][d]
      /\ \A d \in Doc : msgs[d] # None /\ d \notin stuck[c] => first(d) = msgs[d]
  BY DEF TypeOK, Docs
<1>2. cache' = [cache EXCEPT ![c] = [d \in Doc |-> first(d)]]
  BY DEF InsertAndAnswer, First
<1>3. stuck' = [stuck EXCEPT ![c] = stuck[c] \cup {d \in live[c] : msgs[d] # None}]
  BY DEF InsertAndAnswer, FindById
<1>4. live' = [live EXCEPT ![c] = IF c \in Hydrated THEN live[c] \cup {d \in D : answer[d] # None} ELSE live[c]]
  BY <1>1 DEF InsertAndAnswer, Hydrate, Listens
<1>5. held' = [u \in Task |-> [d \in Doc |-> IF given(u, d) THEN answer[d]
                                             ELSE IF follows(u, d) THEN first(d) ELSE held[u][d]]]
  BY <1>1 DEF InsertAndAnswer, Hears, First
<1>6. alias' = {x \in Task \X Doc : ~given(x[1], x[2]) /\ (x \in alias \/ follows(x[1], x[2]))}
  BY <1>1 DEF InsertAndAnswer, Hears
<1> HIDE DEF first
<1>7. cache' \in [Client -> Docs] /\ (\A e \in Client : e # c => cache'[e] = cache[e])
      /\ \A d \in Doc : cache'[c][d] = first(d)
  BY <1>1, <1>2 DEF TypeOK, Docs
<1>8. stuck' \in [Client -> SUBSET Doc] /\ (\A e \in Client : e # c => stuck'[e] = stuck[e])
      /\ stuck'[c] = stuck[c] \cup {d \in live[c] : msgs[d] # None}
  BY <1>3 DEF TypeOK
<1>9. live' \in [Client -> SUBSET Doc] /\ (\A e \in Client : e # c => live'[e] = live[e])
      /\ (c \notin Hydrated => live'[c] = live[c])
  BY <1>4 DEF TypeOK
<1>10. \A u \in Task, d \in Doc :
          held'[u][d] = IF given(u, d) THEN answer[d]
                        ELSE IF follows(u, d) THEN first(d) ELSE held[u][d]
  BY <1>5
<1>11. held' \in [Task -> Docs] /\ alias' \in SUBSET (Task \X Doc)
  BY <1>1, <1>5, <1>6 DEF TypeOK, Docs
<1>12. c \notin Hydrated => live[c] = {} /\ stuck[c] = {}
  BY DEF PlainApart
<1>13. PlainApart'
  <2>1. \A e \in Client \ Hydrated : live'[e] = {} /\ stuck'[e] = {}
    BY <1>8, <1>9, <1>12 DEF PlainApart
  <2>2. ASSUME NEW x \in alias' PROVE Party[x[1]] \in Hydrated
    <3>1. CASE x \in alias
      BY <3>1 DEF PlainApart
    <3>2. CASE follows(x[1], x[2])
      BY <1>12, <3>2
    <3> QED
      BY <1>6, <3>1, <3>2
  <2> QED
    BY <2>1, <2>2 DEF PlainApart
<1>14. AliasIsCached'
  <2> SUFFICES ASSUME NEW x \in alias'
               PROVE  /\ held'[x[1]][x[2]] = cache'[Party[x[1]]][x[2]]
                      /\ x[2] \in stuck'[Party[x[1]]]
    BY DEF AliasIsCached
  <2>1. /\ x \in Task \X Doc /\ x[1] \in Task /\ x[2] \in Doc /\ Party[x[1]] \in Client
        /\ ~given(x[1], x[2]) /\ (x \in alias \/ follows(x[1], x[2]))
    BY <1>6, StoreAssumption
  <2>2. CASE follows(x[1], x[2])
    BY <1>7, <1>8, <1>10, <2>1, <2>2
  <2>3. CASE x \in alias /\ ~follows(x[1], x[2])
    <3>1. held[x[1]][x[2]] = cache[Party[x[1]]][x[2]] /\ x[2] \in stuck[Party[x[1]]]
      BY <2>3 DEF AliasIsCached
    <3>2. held'[x[1]][x[2]] = held[x[1]][x[2]]
      BY <1>10, <2>1, <2>3
    <3>3. CASE Party[x[1]] = c
      BY <1>1, <1>7, <1>8, <2>1, <3>1, <3>2, <3>3
    <3>4. CASE Party[x[1]] # c
      BY <1>7, <1>8, <2>1, <3>1, <3>2, <3>4
    <3> QED
      BY <3>3, <3>4
  <2> QED
    BY <2>1, <2>2, <2>3
<1>15. \A d \in Doc : /\ cache'[c][d] \in {cache[c][d], msgs[d]}
                      /\ msgs[d] = None => cache'[c][d] = cache[c][d]
                      /\ msgs[d] # None /\ c \notin Hydrated => cache'[c][d] = msgs[d]
  BY <1>1, <1>7, <1>12
<1>16. ASSUME NEW u \in Task, NEW d \in Doc, u \notin T \/ d \notin D
       PROVE  \/ held'[u][d] = held[u][d]
              \/ /\ Party[u] = c /\ c \in Hydrated /\ msgs[d] # None
                 /\ held'[u][d] \in {cache[c][d], msgs[d]}
  BY <1>1, <1>10, <1>12, <1>16
<1>17. \A u \in T, d \in D : held'[u][d] = answer[d]
  BY <1>10
<1> QED
  BY <1>7, <1>8, <1>9, <1>11, <1>13, <1>14, <1>15, <1>16, <1>17

-----------------------------------------------------------------------------
(* Steps of one call *)

\* The rest of the state has its types, aliases and IDocuments are as they should.
RestFits ==
  /\ cache \in [Client -> Docs] /\ stuck \in [Client -> SUBSET Doc] /\ live \in [Client -> SUBSET Doc]
  /\ held \in [Task -> Docs] /\ alias \in SUBSET (Task \X Doc)
  /\ PlainApart /\ AliasIsCached

LEMMA SInvRestFits == SInv => RestFits
  BY DEF SInv, TypeOK, RestFits

\* The call of t becomes rec, in a step that brings no document into the Db.
LEMMA StepKeeps ==
  ASSUME SInv, NEW t \in Task, NEW rec \in Call, call' = [call EXCEPT ![t] = rec],
         db' \in Docs, born' = born, writes' \in Nat, RestFits',
         \A d \in Doc : db'[d] # None => db[d] # None,
         rec.phase = "idle" => rec = NoCall,
         rec.phase = "join" =>
           /\ rec.leader \in Task /\ rec.leader # t /\ call[rec.leader].phase \in {"find", "nested"}
           /\ Party[rec.leader] = Party[t] /\ rec.floor = call[rec.leader].floor,
         rec.phase # "join" => rec.leader = None,
         rec.phase \in {"create", "update"} => \E d \in Doc : t \in Writer[d] /\ rec.want = {d},
         rec.wire = "asked" => rec.phase # "create",
         rec.wire = "asked" /\ rec.phase = "update" =>
           rec.arg \in Record /\ rec.reply = NoDocs /\ rec.hits = NoDocs,
         call[t].phase \in {"find", "nested"} =>
           rec.phase \in {"find", "nested"} /\ rec.floor = call[t].floor,
         \A d \in Doc : NeverThere(d) => rec.floor[d] = 0,
         \A d \in Doc : rec.floor[d] > 0 /\ db'[d] # None =>
           /\ rec.phase = "find" /\ rec.wire = "served" => rec.reply[d] # None
           /\ rec.phase = "nested" => d \in rec.want \/ rec.hits[d] # None
           /\ rec.phase = "nested" /\ rec.wire = "served" /\ d \in rec.want => rec.reply[d] # None
  PROVE  SInv'
<1>1. /\ call' \in [Task -> Call]
      /\ call'[t] = rec /\ \A u \in Task : u # t => call'[u] = call[u]
  BY OneCall DEF SInv
<1>2. TypeOK'
  BY <1>1 DEF SInv, TypeOK, RestFits
<1>3. CallsFit'
  <2> SUFFICES ASSUME NEW u \in Task
               PROVE  /\ call'[u].phase = "idle" => call'[u] = NoCall
                      /\ call'[u].phase = "join" =>
                           /\ call'[u].leader \in Task
                           /\ call'[call'[u].leader].phase \in {"find", "nested"}
                           /\ Party[call'[u].leader] = Party[u]
                           /\ call'[u].floor = call'[call'[u].leader].floor
                      /\ call'[u].phase # "join" => call'[u].leader = None
                      /\ call'[u].phase \in {"create", "update"} =>
                           \E d \in Doc : u \in Writer[d] /\ call'[u].want = {d}
                      /\ Asking(u, "create")' \/ Asking(u, "update")' =>
                           call'[u].arg \in Record /\ call'[u].reply = NoDocs /\ call'[u].hits = NoDocs
    BY DEF CallsFit, Idle
  <2>1. CASE u = t
    BY <1>1, <2>1 DEF Asking
  <2>2. CASE u # t
    BY <1>1, <2>2 DEF SInv, CallsFit, Idle, Asking
  <2> QED
    BY <2>1, <2>2
<1>4. Births'
  <2>1. \A d \in Doc : NeverThere(d) => NeverThere(d)'
    BY <1>1 DEF NeverThere
  <2>2. \A u \in Task : Asking(u, "create")' => u # t /\ Asking(u, "create") /\ call'[u] = call[u]
    BY <1>1 DEF Asking
  <2> HIDE DEF NeverThere, Asking
  <2>3. \A u \in Task : call[u].want \subseteq Doc
    BY DEF SInv, TypeOK, Call
  <2> QED
    BY <2>1, <2>2, <2>3 DEF SInv, Births
<1>5. FindsSee'
  BY <1>1 DEF SInv, FindsSee, Served
<1> QED
  BY <1>2, <1>3, <1>4, <1>5 DEF SInv, RestFits

LEMMA LoneSharer ==
  ASSUME CallsFit, NEW t \in Task, call[t].phase \notin {"find", "nested"}
  PROVE  Sharers(t) = {t}
  BY StoreAssumption DEF CallsFit, Sharers

\* A call is over, for all that share it.
LEMMA DoneKeeps ==
  ASSUME SInv, NEW t \in Task, call' = Done(Sharers(t)), UNCHANGED <<db, born, writes>>, RestFits'
  PROVE  SInv'
<1>1. /\ call' \in [Task -> Call]
      /\ \A u \in Sharers(t) : call'[u] = NoCall
      /\ \A u \in Task \ Sharers(t) : call'[u] = call[u]
  BY ManyDone DEF SInv, Sharers
<1>2. TypeOK'
  BY <1>1 DEF SInv, TypeOK, RestFits
<1>3. \A u \in Task : call'[u] = NoCall \/ (u \notin Sharers(t) /\ call'[u] = call[u])
  BY <1>1
<1>4. CallsFit'
  <2>1. ASSUME NEW u \in Task \ Sharers(t), call[u].phase = "join"
        PROVE  call'[call[u].leader] = call[call[u].leader]
    <3>1. call[u].leader \in Task /\ call[call[u].leader].phase # "join" /\ call[u].leader # t
      BY <2>1 DEF SInv, CallsFit, Sharers
    <3>2. call[u].leader \notin Sharers(t)
      BY <3>1, StoreAssumption DEF SInv, CallsFit, Sharers
    <3> QED
      BY <1>1, <3>1, <3>2
  <2> SUFFICES ASSUME NEW u \in Task
               PROVE  /\ call'[u].phase = "idle" => call'[u] = NoCall
                      /\ call'[u].phase = "join" =>
                           /\ call'[u].leader \in Task
                           /\ call'[call'[u].leader].phase \in {"find", "nested"}
                           /\ Party[call'[u].leader] = Party[u]
                           /\ call'[u].floor = call'[call'[u].leader].floor
                      /\ call'[u].phase # "join" => call'[u].leader = None
                      /\ call'[u].phase \in {"create", "update"} =>
                           \E d \in Doc : u \in Writer[d] /\ call'[u].want = {d}
                      /\ Asking(u, "create")' \/ Asking(u, "update")' =>
                           call'[u].arg \in Record /\ call'[u].reply = NoDocs /\ call'[u].hits = NoDocs
    BY DEF CallsFit, Idle
  <2>2. CASE call'[u] = NoCall
    BY <2>2, NoDocsIsDocs DEF Asking
  <2>3. CASE u \notin Sharers(t) /\ call'[u] = call[u]
    BY <2>1, <2>3 DEF SInv, CallsFit, Idle, Asking
  <2> QED
    BY <1>3, <2>2, <2>3
<1>5. Births'
  <2>1. \A d \in Doc : NeverThere(d) => NeverThere(d)'
    BY <1>3, NoDocsIsDocs DEF NeverThere
  <2>2. \A u \in Task : Asking(u, "create")' => Asking(u, "create") /\ call'[u] = call[u]
    BY <1>3, NoDocsIsDocs DEF Asking
  <2>3. \A u \in Task : call[u].want \subseteq Doc
    BY DEF SInv, TypeOK, Call
  <2> HIDE DEF NeverThere, Asking
  <2> QED
    BY <2>1, <2>2, <2>3 DEF SInv, Births
<1>6. FindsSee'
  BY <1>3, NoDocsIsDocs DEF SInv, FindsSee, Served
<1> QED
  BY <1>2, <1>4, <1>5, <1>6 DEF SInv, RestFits

\* The backend answers t.
AnsweredWith(t, docs, gone) == [call[t] EXCEPT !.wire = "served", !.reply = docs, !.gone = gone]

LEMMA AnsweredCall ==
  ASSUME SInv, NEW t \in Task, NEW docs \in Docs, NEW gone \in BOOLEAN, Answered(t, docs, gone),
         NEW rec, rec = AnsweredWith(t, docs, gone)
  PROVE    /\ call' = [call EXCEPT ![t] = rec] /\ rec \in Call
           /\ rec.wire = "served" /\ rec.reply = docs
           /\ rec.phase = call[t].phase /\ rec.want = call[t].want /\ rec.arg = call[t].arg
           /\ rec.hits = call[t].hits /\ rec.leader = call[t].leader /\ rec.floor = call[t].floor
<1> USE DEF AnsweredWith
<1>1. call \in [Task -> Call] /\ call[t] \in Call
  BY DEF SInv, TypeOK
<1>2. /\ rec \in Call /\ rec.wire = "served" /\ rec.reply = docs
      /\ rec.phase = call[t].phase /\ rec.want = call[t].want /\ rec.arg = call[t].arg
      /\ rec.hits = call[t].hits /\ rec.leader = call[t].leader /\ rec.floor = call[t].floor
  BY <1>1 DEF Call
<1>3. call' = [call EXCEPT ![t] = rec]
  <2>1. call' = [call EXCEPT ![t].wire = "served", ![t].reply = docs, ![t].gone = gone]
    BY DEF Answered
  <2> QED
    BY <1>1, <2>1
<1> QED
  BY <1>2, <1>3

LEMMA AnsweredKeeps ==
  ASSUME SInv, NEW t \in Task, call[t].wire = "asked",
         NEW docs \in Docs, NEW gone \in BOOLEAN, Answered(t, docs, gone),
         db' \in Docs, \A d \in Doc : db'[d] # None => db[d] # None,
         UNCHANGED <<born, writes, cache, stuck, live, held, alias>>,
         call[t].phase = "find" => docs = db',
         call[t].phase = "nested" => \A d \in call[t].want : docs[d] = db'[d]
  PROVE  SInv'
<1> DEFINE rec == AnsweredWith(t, docs, gone)
<1> HIDE DEF rec
<1>1. /\ call' = [call EXCEPT ![t] = rec] /\ rec \in Call
        /\ rec.wire = "served" /\ rec.reply = docs
        /\ rec.phase = call[t].phase /\ rec.want = call[t].want /\ rec.arg = call[t].arg
        /\ rec.hits = call[t].hits /\ rec.leader = call[t].leader /\ rec.floor = call[t].floor
  BY AnsweredCall DEF rec
<1>2. RestFits' /\ writes' \in Nat
  BY DEF RestFits, SInv, TypeOK, PlainApart, AliasIsCached
<1>3. call[t].phase # "idle"
  BY NoDocsIsDocs DEF SInv, CallsFit, Idle
<1>4. /\ rec.phase = "join" =>
           /\ rec.leader \in Task /\ rec.leader # t
           /\ call[rec.leader].phase \in {"find", "nested"}
           /\ Party[rec.leader] = Party[t] /\ rec.floor = call[rec.leader].floor
      /\ rec.phase # "join" => rec.leader = None
      /\ rec.phase \in {"create", "update"} => \E d \in Doc : t \in Writer[d] /\ rec.want = {d}
  BY <1>1 DEF SInv, CallsFit
<1>5. \A d \in Doc : NeverThere(d) => rec.floor[d] = 0
  BY <1>1 DEF NeverThere
<1>6. \A d \in Doc : rec.floor[d] > 0 /\ db'[d] # None =>
        /\ rec.phase = "find" => rec.reply[d] # None
        /\ rec.phase = "nested" => d \in rec.want \/ rec.hits[d] # None
        /\ rec.phase = "nested" /\ d \in rec.want => rec.reply[d] # None
  BY <1>1 DEF SInv, FindsSee
<1>7. /\ rec.wire = "asked" => rec.phase # "create"
      /\ rec.wire = "asked" /\ rec.phase = "update" =>
           rec.arg \in Record /\ rec.reply = NoDocs /\ rec.hits = NoDocs
      /\ rec.phase = "idle" => rec = NoCall
      /\ call[t].phase \in {"find", "nested"} =>
           rec.phase \in {"find", "nested"} /\ rec.floor = call[t].floor
  BY <1>1, <1>3
<1> HIDE DEF NeverThere
<1> QED
  BY <1>1, <1>2, <1>4, <1>5, <1>6, <1>7, StepKeeps

\* t asks for the documents in want.
AskedFor(t, phase, want, hits) ==
  [call[t] EXCEPT !.phase = phase, !.wire = "asked", !.want = want, !.hits = hits,
                  !.reply = NoDocs, !.arg = None]

LEMMA AsksCall ==
  ASSUME SInv, NEW t \in Task, NEW phase \in {"nested", "lookup", "pull"},
         NEW want \in SUBSET Doc, NEW hits \in Docs, Asks(t, phase, want, hits),
         NEW rec, rec = AskedFor(t, phase, want, hits)
  PROVE    /\ call' = [call EXCEPT ![t] = rec] /\ rec \in Call
           /\ rec.phase = phase /\ rec.wire = "asked" /\ rec.want = want
           /\ rec.hits = hits /\ rec.reply = NoDocs
           /\ rec.leader = call[t].leader /\ rec.floor = call[t].floor
<1> USE DEF AskedFor
<1>1. call \in [Task -> Call] /\ call[t] \in Call
  BY DEF SInv, TypeOK
<1>2. /\ rec \in Call /\ rec.phase = phase /\ rec.wire = "asked" /\ rec.want = want
      /\ rec.hits = hits /\ rec.reply = NoDocs
      /\ rec.leader = call[t].leader /\ rec.floor = call[t].floor
  BY <1>1, NoDocsIsDocs DEF Call, Phase
<1>3. call' = [call EXCEPT ![t] = rec]
  <2>1. call' = [call EXCEPT ![t].phase = phase, ![t].wire = "asked", ![t].want = want,
                             ![t].hits = hits, ![t].reply = NoDocs, ![t].arg = None]
    BY DEF Asks
  <2> QED
    BY <1>1, <2>1
<1> QED
  BY <1>2, <1>3

LEMMA AsksKeeps ==
  ASSUME SInv, NEW t \in Task, NEW phase \in {"nested", "lookup", "pull"},
         NEW want \in SUBSET Doc, NEW hits \in Docs, Asks(t, phase, want, hits),
         phase = "nested" <=> call[t].phase \in {"find", "nested"},
         call[t].phase # "join",
         UNCHANGED <<db, born, writes>>, RestFits',
         phase = "nested" => \A d \in Doc : call[t].floor[d] > 0 /\ db[d] # None =>
                                               d \in want \/ hits[d] # None
  PROVE  SInv'
<1> DEFINE rec == AskedFor(t, phase, want, hits)
<1> HIDE DEF rec
<1>1. /\ call' = [call EXCEPT ![t] = rec] /\ rec \in Call
      /\ rec.phase = phase /\ rec.wire = "asked" /\ rec.want = want
      /\ rec.hits = hits /\ rec.reply = NoDocs
      /\ rec.leader = call[t].leader /\ rec.floor = call[t].floor
  <2>1. call' = [call EXCEPT ![t] = rec] /\ rec \in Call
    BY AsksCall DEF rec
  <2>2. rec.phase = phase /\ rec.wire = "asked" /\ rec.want = want
    BY AsksCall DEF rec
  <2>3. rec.hits = hits /\ rec.reply = NoDocs
    BY AsksCall DEF rec
  <2>4. rec.leader = call[t].leader /\ rec.floor = call[t].floor
    BY AsksCall DEF rec
  <2> QED
    BY <2>1, <2>2, <2>3, <2>4
<1>2. db' \in Docs /\ writes' \in Nat
  BY DEF SInv, TypeOK
<1>3. call[t].leader = None
  BY DEF SInv, CallsFit
<1>4. \A d \in Doc : NeverThere(d) => rec.floor[d] = 0
  BY <1>1 DEF NeverThere
<1> QED
  BY <1>1, <1>2, <1>3, <1>4, StepKeeps

\* The cache answers t and those who joined it, or t asks for the misses.
LEMMA LookUpKeeps ==
  ASSUME SInv, NEW t \in Task, NEW phase \in {"nested", "lookup", "pull"},
         NEW ids \in SUBSET Doc, NEW revs \in [Doc -> Nat],
         LookUp(t, phase, ids, revs, Sharers(t)),
         phase = "nested" <=> call[t].phase \in {"find", "nested"},
         call[t].phase # "join",
         UNCHANGED <<db, born, writes>>,
         phase = "nested" => \A d \in Doc : call[t].floor[d] > 0 /\ db[d] # None => d \in ids
  PROVE  SInv'
<1> DEFINE c == Party[t]
           hit == {d \in ids : Hit(c, d, revs[d])}
           found == [d \in Doc |-> IF d \in hit THEN cache[c][d] ELSE None]
           scope == IF phase = "nested" THEN Doc ELSE ids
           answer == [d \in scope |-> found[d]]
<1>1. c \in Client /\ TypeOK /\ PlainApart /\ AliasIsCached /\ cache[c] \in Docs
  BY StoreAssumption DEF SInv, TypeOK
<1>2. hit \in SUBSET Doc /\ found \in Docs /\ scope \in SUBSET Doc
      /\ answer \in [scope -> Record \cup {None}]
  BY <1>1 DEF Docs
<1>3. \A d \in hit : found[d] # None
  BY DEF Hit
<1>4. /\ hit = ids => InsertAndAnswer(c, NoDocs, Sharers(t), answer) /\ call' = Done(Sharers(t))
      /\ hit # ids => Asks(t, phase, ids \ hit, found) /\ UNCHANGED <<cache, stuck, live, held, alias>>
  BY DEF LookUp
<1>5. Sharers(t) \in SUBSET Task
  BY DEF Sharers
<1>6. CASE hit = ids
  <2> HIDE DEF c, hit, found, scope, answer
  <2>1. RestFits'
    BY <1>1, <1>2, <1>4, <1>5, <1>6, InsertKeeps, NoDocsIsDocs DEF RestFits
  <2> QED
    BY <1>4, <1>6, <2>1, DoneKeeps
<1>7. CASE hit # ids
  <2>1. \A d \in ids : d \in ids \ hit \/ found[d] # None
    BY <1>3
  <2> HIDE DEF c, hit, found, scope, answer
  <2>2. RestFits'
    BY <1>4, <1>7 DEF RestFits, SInv, TypeOK, PlainApart, AliasIsCached
  <2> QED
    BY <1>2, <1>4, <1>7, <2>1, <2>2, AsksKeeps
<1> QED
  BY <1>6, <1>7

-----------------------------------------------------------------------------
(* The calls of a task *)

LEMMA UnchangedRestFits ==
  ASSUME SInv, UNCHANGED <<cache, stuck, live, held, alias>>
  PROVE  RestFits'
  BY DEF RestFits, SInv, TypeOK, PlainApart, AliasIsCached

\* A copy that can be removed goes, and some aliases with it.
LEMMA RemovedRestFits ==
  ASSUME SInv, NEW c \in Client, NEW d \in Doc,
         cache' = [cache EXCEPT ![c][d] = AfterRemove(c, d)],
         UNCHANGED <<stuck, live>>, held' \in [Task -> Docs], alias' \subseteq alias,
         \A x \in alias' : held'[x[1]][x[2]] = held[x[1]][x[2]]
  PROVE  RestFits'
<1>1. /\ cache' \in [Client -> Docs] /\ (\A e \in Client : e # c => cache'[e] = cache[e])
      /\ \A f \in Doc : f \in stuck[c] \/ f # d => cache'[c][f] = cache[c][f]
  BY DEF SInv, TypeOK, Docs, AfterRemove
<1>2. PlainApart' /\ alias' \in SUBSET (Task \X Doc)
  BY DEF SInv, TypeOK, PlainApart
<1>3. AliasIsCached'
  <2> SUFFICES ASSUME NEW x \in alias'
               PROVE  /\ held'[x[1]][x[2]] = cache'[Party[x[1]]][x[2]]
                      /\ x[2] \in stuck'[Party[x[1]]]
    BY DEF AliasIsCached
  <2>1. x \in alias /\ x[1] \in Task /\ x[2] \in Doc /\ Party[x[1]] \in Client
    BY <1>2, StoreAssumption
  <2>2. held[x[1]][x[2]] = cache[Party[x[1]]][x[2]] /\ x[2] \in stuck[Party[x[1]]]
    BY <2>1 DEF SInv, AliasIsCached
  <2> QED
    BY <1>1, <2>1, <2>2
<1> QED
  BY <1>1, <1>2, <1>3 DEF RestFits, SInv, TypeOK

LEMMA PresentType ==
  ASSUME SInv
  PROVE  /\ Present \in [Doc -> Nat]
         /\ \A d \in Doc : db[d] = None => Present[d] = 0
         /\ \A d \in Doc : db[d] # None => Present[d] = db[d].val
  BY DEF Present, SInv, TypeOK, Docs, Record

\* The find of t is asked for, or joins that of l.
LEMMA FindCall ==
  ASSUME SInv, NEW t \in Task, Find(t)
  PROVE  /\ call[t] = NoCall /\ UNCHANGED <<db, born, writes, cache, stuck, live, held, alias>>
         /\ \/ \E l \in Task :
                 /\ Party[l] = Party[t] /\ call[l].phase \in {"find", "nested"} /\ l # t
                 /\ call' = [call EXCEPT ![t] = [NoCall EXCEPT !.phase = "join", !.leader = l,
                                                              !.floor = call[l].floor]]
            \/ call' = [call EXCEPT ![t] = [NoCall EXCEPT !.phase = "find", !.wire = "asked",
                                                         !.floor = Present]]
<1>1. call[t] = NoCall /\ call \in [Task -> Call]
  BY DEF Find, SInv, TypeOK, CallsFit
<1>2. NoCall.phase = "idle"
  BY NoDocsIsDocs
<1> HIDE DEF NoCall
<1> QED
  BY <1>1, <1>2 DEF Find

LEMMA FindKeeps ==
  ASSUME SInv, NEW t \in Task, Find(t)
  PROVE  SInv'
<1>1. /\ call[t] = NoCall /\ UNCHANGED <<db, born, writes, cache, stuck, live, held, alias>>
      /\ db' \in Docs /\ writes' \in Nat
  BY FindCall DEF SInv, TypeOK
<1>2. RestFits'
  BY <1>1, UnchangedRestFits
<1>3. ASSUME NEW l \in Task, Party[l] = Party[t], call[l].phase \in {"find", "nested"}, l # t,
             call' = [call EXCEPT ![t] = [NoCall EXCEPT !.phase = "join", !.leader = l,
                                                       !.floor = call[l].floor]]
      PROVE  SInv'
  <2> DEFINE rec == [NoCall EXCEPT !.phase = "join", !.leader = l, !.floor = call[l].floor]
  <2>1. call[l].floor \in [Doc -> Nat]
    BY DEF SInv, TypeOK, Call
  <2>2. rec \in Call /\ rec.phase = "join" /\ rec.leader = l /\ rec.floor = call[l].floor /\ rec.wire = "none"
    BY <2>1, NoDocsIsDocs DEF Call, Phase
  <2>3. \A d \in Doc : NeverThere(d) => rec.floor[d] = 0
    BY <2>2 DEF NeverThere
  <2>4. call' = [call EXCEPT ![t] = rec]
    BY <1>3
  <2> HIDE DEF rec, NeverThere
  <2> QED
    BY <1>1, <1>2, <1>3, <2>2, <2>3, <2>4, NoDocsIsDocs, StepKeeps
<1>4. ASSUME call' = [call EXCEPT ![t] = [NoCall EXCEPT !.phase = "find", !.wire = "asked",
                                                       !.floor = Present]]
      PROVE  SInv'
  <2> DEFINE rec == [NoCall EXCEPT !.phase = "find", !.wire = "asked", !.floor = Present]
  <2>1. rec \in Call /\ rec.phase = "find" /\ rec.leader = None /\ rec.floor = Present /\ rec.wire = "asked"
    BY PresentType, NoDocsIsDocs DEF Call, Phase
  <2>2. \A d \in Doc : NeverThere(d) => rec.floor[d] = 0
    BY <2>1, PresentType DEF NeverThere
  <2>3. call' = [call EXCEPT ![t] = rec]
    BY <1>4
  <2> HIDE DEF rec, NeverThere
  <2> QED
    BY <1>1, <1>2, <2>1, <2>2, <2>3, NoDocsIsDocs, StepKeeps
<1> QED
  BY <1>3, <1>4, FindCall

LEMMA FetchKeeps ==
  ASSUME SInv, NEW t \in Task, NEW d \in Doc, Fetch(t, d) \/ Pull(t, d)
  PROVE  SInv'
<1>1. PICK phase \in {"lookup", "pull"} : LookUp(t, phase, {d}, [e \in Doc |-> 0], {t})
  BY DEF Fetch, Pull
<1>2. call[t].phase = "idle" /\ UNCHANGED <<db, born, writes>>
  BY DEF Fetch, Pull, Idle
<1>3. Sharers(t) = {t} /\ {d} \in SUBSET Doc /\ [e \in Doc |-> 0] \in [Doc -> Nat]
  BY <1>2, LoneSharer DEF SInv
<1> QED
  BY <1>1, <1>2, <1>3, LookUpKeeps

LEMMA HandleWatchMsgKeeps ==
  ASSUME SInv, NEW t \in Task, NEW d \in Doc, HandleWatchMsg(t, d)
  PROVE  SInv'
<1>1. call[t].phase = "idle" /\ UNCHANGED <<db, born, writes>> /\ Party[t] \in Client
  BY StoreAssumption DEF HandleWatchMsg, Idle
<1>2. CASE AfterRemove(Party[t], d) # None
  <2>1. Sharers(t) = {t} /\ {d} \in SUBSET Doc /\ [e \in Doc |-> 0] \in [Doc -> Nat]
    BY <1>1, LoneSharer DEF SInv
  <2>2. LookUp(t, "pull", {d}, [e \in Doc |-> 0], {t})
    BY <1>2 DEF HandleWatchMsg
  <2> QED
    BY <1>1, <2>1, <2>2, LookUpKeeps
<1>3. CASE AfterRemove(Party[t], d) = None
  <2>1. /\ cache' = [cache EXCEPT ![Party[t]][d] = AfterRemove(Party[t], d)]
        /\ Asks(t, "pull", {d}, NoDocs) /\ UNCHANGED <<stuck, live, held, alias>>
    BY <1>3 DEF HandleWatchMsg, Removed
  <2>2. RestFits'
    BY <1>1, <2>1, RemovedRestFits DEF SInv, TypeOK
  <2> QED
    BY <1>1, <2>1, <2>2, AsksKeeps, NoDocsIsDocs
<1> QED
  BY <1>2, <1>3

LEMMA RemoveKeeps ==
  ASSUME SInv, NEW t \in Task, NEW d \in Doc, Remove(t, d)
  PROVE  SInv'
<1> DEFINE rec == [NoCall EXCEPT !.phase = "remove", !.wire = "asked", !.want = {d}]
<1>1. call[t] = NoCall /\ call \in [Task -> Call]
  BY DEF Remove, SInv, TypeOK, CallsFit
<1>2. /\ rec \in Call /\ rec.phase = "remove" /\ rec.leader = None /\ rec.floor = NoCall.floor
      /\ rec.wire = "asked"
  BY NoDocsIsDocs DEF Call, Phase
<1>3. call' = [call EXCEPT ![t] = rec]
  <2> HIDE DEF NoCall
  <2>1. call' = [call EXCEPT ![t].phase = "remove", ![t].wire = "asked", ![t].want = {d}]
    BY DEF Remove
  <2> QED
    BY <1>1, <2>1
<1>4. /\ UNCHANGED <<db, born, writes, cache, stuck, live, held, alias>>
      /\ db' \in Docs /\ writes' \in Nat
  BY DEF Remove, SInv, TypeOK
<1>5. RestFits'
  BY <1>4, UnchangedRestFits
<1> HIDE DEF rec, NeverThere
<1> QED
  BY <1>1, <1>2, <1>3, <1>4, <1>5, NoDocsIsDocs, StepKeeps

\* A document is born: its id had no copy in the Db, nor had any find seen one.
CreatedWith(d, n) ==
  [NoCall EXCEPT !.phase = "create", !.wire = "asked", !.want = {d}, !.arg = [rev |-> 1, val |-> n]]

LEMMA CreateCall ==
  ASSUME SInv, NEW t \in Task, NEW d \in Doc, Create(t, d),
         NEW rec, rec = CreatedWith(d, writes + 1)
  PROVE  /\ call[t] = NoCall /\ call' = [call EXCEPT ![t] = rec] /\ rec \in Call
         /\ rec.phase = "create" /\ rec.wire = "asked" /\ rec.want = {d} /\ rec.arg \in Record
         /\ rec.reply = NoDocs /\ rec.hits = NoDocs /\ rec.leader = None /\ rec.floor = NoCall.floor
         /\ writes' = writes + 1 /\ writes' \in Nat /\ writes \in Nat
         /\ rec.arg = [rev |-> 1, val |-> writes']
<1> USE DEF CreatedWith
<1>1. call[t] = NoCall /\ call \in [Task -> Call]
  BY DEF Create, Idle, SInv, TypeOK, CallsFit
<1>2. writes' = writes + 1 /\ writes' \in Nat /\ writes \in Nat
  BY DEF Create, SInv, TypeOK
<1>3. [rev |-> 1, val |-> writes'] \in Record
  BY <1>2 DEF Record
<1>4. /\ rec \in Call /\ rec.phase = "create" /\ rec.wire = "asked" /\ rec.want = {d} /\ rec.arg \in Record
      /\ rec.reply = NoDocs /\ rec.hits = NoDocs /\ rec.leader = None /\ rec.floor = NoCall.floor
      /\ rec.arg = [rev |-> 1, val |-> writes']
  BY <1>2, <1>3, NoDocsIsDocs DEF Call, Phase
<1>5. call' = [call EXCEPT ![t] = rec]
  <2> HIDE DEF NoCall
  <2>1. call' = [call EXCEPT ![t].phase = "create", ![t].wire = "asked", ![t].want = {d},
                             ![t].arg = [rev |-> 1, val |-> writes']]
    BY DEF Create
  <2> QED
    BY <1>1, <1>2, <2>1
<1> QED
  BY <1>1, <1>2, <1>4, <1>5

LEMMA CreateKeeps ==
  ASSUME SInv, NEW t \in Task, NEW d \in Doc, Create(t, d)
  PROVE  SInv'
<1> DEFINE rec == CreatedWith(d, writes + 1)
<1> HIDE DEF rec
<1>1. /\ call[t] = NoCall /\ call' = [call EXCEPT ![t] = rec] /\ rec \in Call
      /\ rec.phase = "create" /\ rec.wire = "asked" /\ rec.want = {d} /\ rec.arg \in Record
      /\ rec.reply = NoDocs /\ rec.hits = NoDocs /\ rec.leader = None /\ rec.floor = NoCall.floor
      /\ writes' \in Nat
  BY CreateCall DEF rec
<1>2. /\ call' \in [Task -> Call]
      /\ call'[t] = rec /\ \A u \in Task : u # t => call'[u] = call[u]
  BY <1>1, OneCall DEF SInv
<1>3. /\ t \in Writer[d] /\ d \notin born /\ born' = born \cup {d}
      /\ UNCHANGED <<db, cache, stuck, live, held, alias>>
  BY DEF Create
<1>4. TypeOK' /\ RestFits'
  BY <1>1, <1>2, <1>3, UnchangedRestFits DEF SInv, TypeOK
<1>5. CallsFit'
  <2> SUFFICES ASSUME NEW u \in Task
               PROVE  /\ call'[u].phase = "idle" => call'[u] = NoCall
                      /\ call'[u].phase = "join" =>
                           /\ call'[u].leader \in Task
                           /\ call'[call'[u].leader].phase \in {"find", "nested"}
                           /\ Party[call'[u].leader] = Party[u]
                           /\ call'[u].floor = call'[call'[u].leader].floor
                      /\ call'[u].phase # "join" => call'[u].leader = None
                      /\ call'[u].phase \in {"create", "update"} =>
                           \E e \in Doc : u \in Writer[e] /\ call'[u].want = {e}
                      /\ Asking(u, "create")' \/ Asking(u, "update")' =>
                           call'[u].arg \in Record /\ call'[u].reply = NoDocs /\ call'[u].hits = NoDocs
    BY DEF CallsFit, Idle
  <2>1. CASE u = t
    BY <1>1, <1>2, <1>3, <2>1
  <2>2. CASE u # t
    <3>1. call[t].phase = "idle"
      BY <1>1, NoDocsIsDocs
    <3> QED
      BY <1>2, <2>2, <3>1 DEF SInv, CallsFit, Idle, Asking
  <2> QED
    BY <2>1, <2>2
<1>6. Births'
  <2>1. \A e \in Doc : NeverThere(e) => NeverThere(e)'
    BY <1>1, <1>2, <1>3, NoDocsIsDocs DEF NeverThere
  <2>2. NeverThere(d)'
    BY <1>3, <2>1 DEF SInv, Births
  <2>3. \A u \in Task : u # t /\ Asking(u, "create")' => Asking(u, "create") /\ call'[u] = call[u]
    BY <1>2 DEF Asking
  <2>4. \A u \in Task : call[u].want \subseteq Doc
    BY DEF SInv, TypeOK, Call
  <2>5. \A u \in Task : u # t /\ Asking(u, "create")' => call'[u].want \subseteq born
    BY <2>3 DEF SInv, Births
  <2> HIDE DEF NeverThere, Asking
  <2>6. \A u, v \in Task : Asking(u, "create")' /\ Asking(v, "create")' /\ u # v
          => call'[u].want \cap call'[v].want = {}
    <3> SUFFICES ASSUME NEW u \in Task, NEW v \in Task,
                        Asking(u, "create")', Asking(v, "create")', u # v
                 PROVE  call'[u].want \cap call'[v].want = {}
      OBVIOUS
    <3>1. CASE u # t /\ v # t
      BY <2>3, <3>1 DEF SInv, Births
    <3>2. CASE u = t
      BY <1>1, <1>2, <1>3, <2>5, <3>2
    <3>3. CASE v = t
      BY <1>1, <1>2, <1>3, <2>5, <3>3
    <3> QED
      BY <3>1, <3>2, <3>3
  <2>7. \A u \in Task : Asking(u, "create")' => call'[u].want \subseteq born'
    BY <1>1, <1>2, <1>3, <2>5
  <2>8. \A u \in Task : Asking(u, "create")' => \A e \in call'[u].want : NeverThere(e)'
    BY <1>1, <1>2, <2>1, <2>2, <2>3, <2>4 DEF SInv, Births
  <2>9. \A e \in Doc \ born' : NeverThere(e)'
    BY <1>3, <2>1 DEF SInv, Births
  <2> QED
    BY <2>6, <2>7, <2>8, <2>9 DEF Births
<1>7. FindsSee'
  BY <1>1, <1>2, <1>3, NoDocsIsDocs DEF SInv, FindsSee, Served
<1> QED
  BY <1>4, <1>5, <1>6, <1>7 DEF SInv, RestFits

\* A document is edited and sent.
UpdatedWith(t, d, n) ==
  [NoCall EXCEPT !.phase = "update", !.wire = "asked", !.want = {d}, !.arg = [held[t][d] EXCEPT !.val = n]]

LEMMA UpdateCall ==
  ASSUME SInv, NEW t \in Task, NEW d \in Doc, Update(t, d),
         NEW rec, rec = UpdatedWith(t, d, writes + 1)
  PROVE  /\ call[t] = NoCall /\ call' = [call EXCEPT ![t] = rec] /\ rec \in Call
         /\ rec.phase = "update" /\ rec.wire = "asked" /\ rec.want = {d} /\ rec.arg \in Record
         /\ rec.reply = NoDocs /\ rec.hits = NoDocs /\ rec.leader = None /\ rec.floor = NoCall.floor
         /\ writes' = writes + 1 /\ writes' \in Nat /\ writes \in Nat
         /\ held[t][d] \in Record /\ rec.arg.rev = held[t][d].rev /\ rec.arg.val = writes'
<1> USE DEF UpdatedWith
<1>1. call[t] = NoCall /\ call \in [Task -> Call]
  BY DEF Update, Idle, SInv, TypeOK, CallsFit
<1>2. writes' = writes + 1 /\ writes' \in Nat /\ writes \in Nat
  BY DEF Update, SInv, TypeOK
<1>3. held[t][d] \in Record
  BY DEF Update, SInv, TypeOK, Docs
<1>4. [held[t][d] EXCEPT !.val = writes + 1] \in Record
      /\ [held[t][d] EXCEPT !.val = writes + 1].rev = held[t][d].rev
      /\ [held[t][d] EXCEPT !.val = writes + 1].val = writes + 1
  BY <1>2, <1>3 DEF Record
<1>5. /\ rec \in Call /\ rec.phase = "update" /\ rec.wire = "asked" /\ rec.want = {d}
      /\ rec.reply = NoDocs /\ rec.hits = NoDocs /\ rec.leader = None /\ rec.floor = NoCall.floor
      /\ rec.arg = [held[t][d] EXCEPT !.val = writes + 1]
  BY <1>4, NoDocsIsDocs DEF Call, Phase
<1>6. call' = [call EXCEPT ![t] = rec]
  <2> HIDE DEF NoCall
  <2>1. call' = [call EXCEPT ![t].phase = "update", ![t].wire = "asked", ![t].want = {d},
                             ![t].arg = [held[t][d] EXCEPT !.val = writes + 1]]
    BY <1>2 DEF Update
  <2> QED
    BY <1>1, <2>1
<1> QED
  BY <1>1, <1>2, <1>3, <1>4, <1>5, <1>6

\* An edit of the object in the cache is an edit of all that have it.
LEMMA UpdateRestFits ==
  ASSUME SInv, NEW t \in Task, NEW d \in Doc, Update(t, d)
  PROVE  RestFits'
<1> DEFINE p == Party[t]
           same(s) == <<s, d>> \in alias /\ Party[s] = p
<1>1. /\ alias' = alias \ {<<t, d>>} /\ UNCHANGED <<stuck, live>> /\ alias \in SUBSET (Task \X Doc)
      /\ cache \in [Client -> Docs] /\ held \in [Task -> Docs] /\ p \in Client
  BY StoreAssumption DEF Update, SInv, TypeOK
<1>2. /\ \A r \in Record \cup {None} : Edited(r) \in Record \cup {None}
  BY DEF Edited, Record, Update, SInv, TypeOK
<1>3. PlainApart' /\ alias' \in SUBSET (Task \X Doc)
      /\ stuck' \in [Client -> SUBSET Doc] /\ live' \in [Client -> SUBSET Doc]
  BY <1>1 DEF SInv, TypeOK, PlainApart
<1>4. \A x \in alias : /\ x[1] \in Task /\ x[2] \in Doc /\ x = <<x[1], x[2]>> /\ Party[x[1]] \in Client
                       /\ held[x[1]][x[2]] = cache[Party[x[1]]][x[2]] /\ x[2] \in stuck[Party[x[1]]]
  BY <1>1, StoreAssumption DEF SInv, AliasIsCached
<1>5. CASE <<t, d>> \in alias
  <2>1. /\ cache' = [cache EXCEPT ![p][d] = Edited(@)]
        /\ held' = [s \in Task |-> IF <<s, d>> \in {x \in alias : x[2] = d /\ Party[x[1]] = p}
                                   THEN [held[s] EXCEPT ![d] = Edited(@)] ELSE held[s]]
    BY <1>5 DEF Update
  <2> HIDE DEF p
  <2>2. \A s \in Task : <<s, d>> \in {x \in alias : x[2] = d /\ Party[x[1]] = p} <=> same(s)
    OBVIOUS
  <2>3. held' = [s \in Task |-> IF same(s) THEN [held[s] EXCEPT ![d] = Edited(@)] ELSE held[s]]
    BY <2>1, <2>2
  <2>4. /\ cache' \in [Client -> Docs]
        /\ cache'[p][d] = Edited(cache[p][d])
        /\ \A c \in Client, e \in Doc : c # p \/ e # d => cache'[c][e] = cache[c][e]
    BY <1>1, <1>2, <2>1 DEF Docs
  <2>5. /\ held' \in [Task -> Docs]
        /\ \A s \in Task : same(s) => held'[s][d] = Edited(held[s][d])
        /\ \A s \in Task, e \in Doc : ~same(s) \/ e # d => held'[s][e] = held[s][e]
    BY <1>1, <1>2, <2>3 DEF Docs
  <2>6. AliasIsCached'
    <3> SUFFICES ASSUME NEW x \in alias'
                 PROVE  /\ held'[x[1]][x[2]] = cache'[Party[x[1]]][x[2]]
                        /\ x[2] \in stuck'[Party[x[1]]]
      BY DEF AliasIsCached
    <3> HIDE DEF same
    <3>1. x \in alias
      BY <1>1
    <3>2. CASE x[2] = d /\ Party[x[1]] = p
      <4>1. same(x[1])
        BY <1>4, <3>1, <3>2 DEF same
      <4> QED
        BY <1>1, <1>4, <2>4, <2>5, <3>1, <3>2, <4>1
    <3>3. CASE ~(x[2] = d /\ Party[x[1]] = p)
      <4>1. ~same(x[1]) \/ x[2] # d
        BY <3>3 DEF same
      <4> QED
        BY <1>1, <1>4, <2>4, <2>5, <3>1, <3>3, <4>1
    <3> QED
      BY <3>2, <3>3
  <2> QED
    BY <1>3, <2>4, <2>5, <2>6 DEF RestFits
<1>6. CASE <<t, d>> \notin alias
  <2>1. /\ held' = (IF p \in Hydrated THEN [held EXCEPT ![t][d] = Edited(@)] ELSE held)
        /\ cache' = cache
    BY <1>6 DEF Update
  <2>2. /\ held' \in [Task -> Docs]
        /\ \A s \in Task, e \in Doc : s # t \/ e # d => held'[s][e] = held[s][e]
    BY <1>1, <1>2, <2>1 DEF Docs
  <2>3. AliasIsCached'
    BY <1>1, <1>4, <1>6, <2>1, <2>2 DEF AliasIsCached
  <2> QED
    BY <1>1, <1>3, <2>1, <2>2, <2>3 DEF RestFits
<1> QED
  BY <1>5, <1>6

LEMMA UpdateKeeps ==
  ASSUME SInv, NEW t \in Task, NEW d \in Doc, Update(t, d)
  PROVE  SInv'
<1> DEFINE rec == UpdatedWith(t, d, writes + 1)
<1> HIDE DEF rec
<1>1. /\ call[t] = NoCall /\ call' = [call EXCEPT ![t] = rec] /\ rec \in Call
      /\ rec.phase = "update" /\ rec.wire = "asked" /\ rec.want = {d} /\ rec.arg \in Record
      /\ rec.reply = NoDocs /\ rec.hits = NoDocs /\ rec.leader = None /\ rec.floor = NoCall.floor
      /\ writes' \in Nat
  BY UpdateCall DEF rec
<1>2. t \in Writer[d] /\ UNCHANGED <<db, born>> /\ db' \in Docs
  BY DEF Update, SInv, TypeOK
<1>3. RestFits'
  BY UpdateRestFits
<1> HIDE DEF NeverThere
<1> QED
  BY <1>1, <1>2, <1>3, NoDocsIsDocs, StepKeeps

-----------------------------------------------------------------------------
(* Replies *)

LEMMA GetHeadersKeeps ==
  ASSUME SInv, NEW t \in Task, GetHeaders(t)
  PROVE  SInv'
<1> DEFINE headers == {d \in Doc : call[t].reply[d] # None}
           revs == [d \in Doc |-> IF d \in headers THEN call[t].reply[d].rev ELSE 0]
<1>1. Served(t, "find") /\ UNCHANGED <<db, born, writes>> /\ LookUp(t, "nested", headers, revs, Sharers(t))
  BY DEF GetHeaders, Served
<1>2. headers \in SUBSET Doc /\ revs \in [Doc -> Nat]
  BY DEF SInv, TypeOK, Call, Docs, Record
<1>3. \A d \in Doc : call[t].floor[d] > 0 /\ db[d] # None => d \in headers
  BY <1>1 DEF SInv, FindsSee
<1>4. call[t].phase = "find"
  BY <1>1 DEF Served
<1> HIDE DEF headers, revs
<1> QED
  BY <1>1, <1>2, <1>3, <1>4, LookUpKeeps

\* What the tasks that share t's call get.
Scope(t) == CASE call[t].phase = "nested" -> Doc
              [] call[t].phase = "lookup" -> call[t].want
              [] call[t].phase = "pull"   -> {d \in call[t].want : call[t].reply[d] # None}

Answer(t) == [d \in Scope(t) |-> IF call[t].reply[d] # None THEN call[t].reply[d] ELSE call[t].hits[d]]

LEMMA GetDocsAnswer ==
  ASSUME SInv, NEW t \in Task, GetDocs(t)
  PROVE  /\ Party[t] \in Client /\ Sharers(t) \in SUBSET Task
         /\ call[t].reply \in Docs /\ call[t].hits \in Docs /\ call[t].want \in SUBSET Doc
         /\ Scope(t) \in SUBSET Doc /\ (call[t].phase = "nested" => Scope(t) = Doc)
         /\ Answer(t) \in [Scope(t) -> Record \cup {None}]
         /\ InsertAndAnswer(Party[t], call[t].reply, Sharers(t), Answer(t))
         /\ call' = Done(Sharers(t)) /\ UNCHANGED <<db, born, writes>>
<1>1. /\ Party[t] \in Client /\ Sharers(t) \in SUBSET Task
      /\ call[t].reply \in Docs /\ call[t].hits \in Docs /\ call[t].want \in SUBSET Doc
  BY StoreAssumption DEF SInv, TypeOK, Call, Sharers
<1>2. call[t].phase \in {"nested", "lookup", "pull"}
  BY DEF GetDocs
<1>3. Scope(t) \in SUBSET Doc /\ (call[t].phase = "nested" => Scope(t) = Doc)
  BY <1>1, <1>2 DEF Scope
<1>4. Answer(t) \in [Scope(t) -> Record \cup {None}]
  BY <1>1, <1>3 DEF Answer, Docs
<1>5. InsertAndAnswer(Party[t], call[t].reply, Sharers(t), Answer(t))
      /\ call' = Done(Sharers(t)) /\ UNCHANGED <<db, born, writes>>
  BY DEF GetDocs, Answer, Scope
<1> QED
  BY <1>1, <1>3, <1>4, <1>5

LEMMA GetDocsKeeps ==
  ASSUME SInv, NEW t \in Task, GetDocs(t)
  PROVE  SInv'
<1>1. RestFits'
  BY GetDocsAnswer, InsertKeeps DEF SInv, RestFits
<1> QED
  BY <1>1, GetDocsAnswer, DoneKeeps

LEMMA GetCreatedKeeps ==
  ASSUME SInv, NEW t \in Task, GetCreated(t)
  PROVE  SInv'
<1> DEFINE answer == [d \in call[t].want |-> call[t].reply[d]]
<1>1. /\ Party[t] \in Client /\ {t} \in SUBSET Task
      /\ call[t].reply \in Docs /\ call[t].want \in SUBSET Doc
      /\ answer \in [call[t].want -> Record \cup {None}]
  BY StoreAssumption DEF SInv, TypeOK, Call, Docs
<1>2. InsertAndAnswer(Party[t], call[t].reply, {t}, answer) /\ call' = Done({t})
      /\ UNCHANGED <<db, born, writes>> /\ call[t].phase = "create"
  BY DEF GetCreated
<1> HIDE DEF answer
<1>3. Sharers(t) = {t}
  BY <1>2, LoneSharer DEF SInv
<1>4. RestFits'
  BY <1>1, <1>2, InsertKeeps DEF SInv, RestFits
<1> QED
  BY <1>2, <1>3, <1>4, DoneKeeps

\* The answer to an update of d goes to the cache, and to a task without IDocuments.
Kept(t, d) == IF Party[t] \in Hydrated \/ call[t].reply[d] = None THEN {} ELSE {d}

LEMMA GetUpdatedAnswer ==
  ASSUME SInv, NEW t \in Task, GetUpdated(t), NEW d \in Doc, call[t].want = {d}
  PROVE  /\ Party[t] \in Client /\ {t} \in SUBSET Task /\ Sharers(t) = {t} /\ t \in Writer[d]
         /\ call[t].reply \in Docs /\ Kept(t, d) \in SUBSET Doc
         /\ [e \in Kept(t, d) |-> call[t].reply[d]] \in [Kept(t, d) -> Record \cup {None}]
         /\ InsertAndAnswer(Party[t], call[t].reply, {t}, [e \in Kept(t, d) |-> call[t].reply[d]])
         /\ Served(t, "update") /\ UNCHANGED <<db, born, writes>>
         /\ \/ call' = Done({t})
            \/ /\ Party[t] \in Hydrated
               /\ call' = [call EXCEPT ![t] = [NoCall EXCEPT !.phase = "update", !.want = {d}]]
<1>1. Served(t, "update") /\ UNCHANGED <<db, born, writes>>
  BY DEF GetUpdated, Served
<1>2. Sharers(t) = {t} /\ t \in Writer[d]
  BY <1>1, LoneSharer DEF SInv, CallsFit, Served
<1>3. /\ Party[t] \in Client /\ {t} \in SUBSET Task
      /\ call[t].reply \in Docs /\ Kept(t, d) \in SUBSET Doc
      /\ [e \in Kept(t, d) |-> call[t].reply[d]] \in [Kept(t, d) -> Record \cup {None}]
  BY StoreAssumption DEF SInv, TypeOK, Call, Docs, Kept
<1> DEFINE ends == \/ call' = Done({t})
                   \/ /\ Party[t] \in Hydrated
                      /\ call' = [call EXCEPT ![t] = [NoCall EXCEPT !.phase = "update", !.want = {d}]]
<1>4. InsertAndAnswer(Party[t], call[t].reply, {t}, [e \in Kept(t, d) |-> call[t].reply[d]]) /\ ends
  <2> HIDE DEF NoCall, InsertAndAnswer, Done
  <2> QED
    BY DEF GetUpdated, Kept
<1> QED
  BY <1>1, <1>2, <1>3, <1>4

LEMMA GetUpdatedKeeps ==
  ASSUME SInv, NEW t \in Task, GetUpdated(t)
  PROVE  SInv'
<1>1. PICK d \in Doc : call[t].want = {d}
  BY DEF GetUpdated, SInv, CallsFit
<1>2. /\ Sharers(t) = {t} /\ t \in Writer[d] /\ UNCHANGED <<db, born, writes>> /\ Served(t, "update")
      /\ \/ call' = Done({t})
         \/ call' = [call EXCEPT ![t] = [NoCall EXCEPT !.phase = "update", !.want = {d}]]
  BY <1>1, GetUpdatedAnswer
<1>3. RestFits'
  <2> DEFINE answer == [e \in Kept(t, d) |-> call[t].reply[d]]
  <2>1. /\ Party[t] \in Client /\ {t} \in SUBSET Task
        /\ call[t].reply \in Docs /\ Kept(t, d) \in SUBSET Doc
        /\ answer \in [Kept(t, d) -> Record \cup {None}]
        /\ InsertAndAnswer(Party[t], call[t].reply, {t}, answer)
    BY <1>1, GetUpdatedAnswer
  <2> HIDE DEF answer
  <2> QED
    BY <2>1, InsertKeeps DEF SInv, RestFits
<1>4. CASE call' = Done({t})
  BY <1>2, <1>3, <1>4, DoneKeeps
<1>5. CASE call' = [call EXCEPT ![t] = [NoCall EXCEPT !.phase = "update", !.want = {d}]]
  <2> DEFINE rec == [NoCall EXCEPT !.phase = "update", !.want = {d}]
  <2>1. /\ rec \in Call /\ rec.phase = "update" /\ rec.leader = None /\ rec.floor = NoCall.floor
        /\ rec.wire = "none" /\ rec.want = {d}
    BY NoDocsIsDocs DEF Call, Phase
  <2>2. db' \in Docs /\ writes' \in Nat /\ call[t].phase = "update"
    BY <1>2 DEF SInv, TypeOK, Served
  <2>3. call' = [call EXCEPT ![t] = rec]
    BY <1>5
  <2>4. rec.phase \in {"create", "update"} => \E e \in Doc : t \in Writer[e] /\ rec.want = {e}
    BY <1>2, <2>1
  <2>5. \A e \in Doc : rec.floor[e] = 0
    BY <2>1, NoDocsIsDocs
  <2> HIDE DEF rec, NeverThere
  <2> QED
    BY <1>2, <1>3, <2>1, <2>2, <2>3, <2>4, <2>5, StepKeeps
<1> QED
  BY <1>2, <1>4, <1>5

LEMMA PullSavedKeeps ==
  ASSUME SInv, NEW t \in Task, PullSaved(t)
  PROVE  SInv'
<1>1. call[t].phase = "update" /\ UNCHANGED <<db, born, writes>>
      /\ LookUp(t, "pull", call[t].want, [d \in Doc |-> 0], {t})
  BY DEF PullSaved
<1>2. Sharers(t) = {t} /\ call[t].want \in SUBSET Doc /\ [e \in Doc |-> 0] \in [Doc -> Nat]
  BY <1>1, LoneSharer DEF SInv, TypeOK, Call
<1> QED
  BY <1>1, <1>2, LookUpKeeps

\* The copy in the cache goes when the backend says so, the task's copy always.
LEMMA GetRemovedRestFits ==
  ASSUME SInv, NEW t \in Task, GetRemoved(t)
  PROVE  /\ RestFits' /\ Party[t] \in Client
         /\ \A s \in Task, d \in Doc : held'[s][d] = held[s][d] \/ (s = t /\ held'[s][d] = None)
         /\ \A c \in Client, d \in Doc : /\ cache'[c][d] \in {cache[c][d], None}
                                         /\ c # Party[t] => cache'[c][d] = cache[c][d]
<1>1. PICK d \in call[t].want :
        /\ cache' = IF call[t].gone
                    THEN [cache EXCEPT ![Party[t]][d] = AfterRemove(Party[t], d)] ELSE cache
        /\ held' = [held EXCEPT ![t][d] = None]
        /\ alias' = alias \ {<<t, d>>}
  BY DEF GetRemoved
<1>2. d \in Doc /\ UNCHANGED <<stuck, live>> /\ Party[t] \in Client
  BY StoreAssumption DEF GetRemoved, SInv, TypeOK, Call
<1>3. held' \in [Task -> Docs]
      /\ \A s \in Task, e \in Doc : /\ held'[s][e] = held[s][e] \/ (s = t /\ held'[s][e] = None)
                                    /\ s # t \/ e # d => held'[s][e] = held[s][e]
  BY <1>1, <1>2 DEF SInv, TypeOK, Docs
<1>4. alias' \subseteq alias /\ \A x \in alias' : held'[x[1]][x[2]] = held[x[1]][x[2]]
  <2>1. \A x \in alias' : x[1] \in Task /\ x[2] \in Doc /\ (x[1] # t \/ x[2] # d)
    BY <1>1 DEF SInv, TypeOK
  <2> QED
    BY <1>1, <1>3, <2>1
<1>5. RestFits'
  <2>1. CASE call[t].gone
    BY <1>1, <1>2, <1>3, <1>4, <2>1, RemovedRestFits
  <2>2. CASE ~call[t].gone
    <3>1. cache' = cache /\ cache' \in [Client -> Docs] /\ alias' \in SUBSET (Task \X Doc)
      BY <1>1, <1>4, <2>2 DEF SInv, TypeOK
    <3>2. PlainApart' /\ AliasIsCached'
      BY <1>2, <1>4, <3>1 DEF SInv, PlainApart, AliasIsCached
    <3> QED
      BY <1>2, <1>3, <3>1, <3>2 DEF SInv, TypeOK, RestFits
  <2> QED
    BY <2>1, <2>2
<1>6. \A c \in Client, e \in Doc : /\ cache'[c][e] \in {cache[c][e], None}
                                   /\ c # Party[t] => cache'[c][e] = cache[c][e]
  BY <1>1, <1>2 DEF SInv, TypeOK, Docs, AfterRemove
<1> QED
  BY <1>2, <1>3, <1>5, <1>6

LEMMA GetRemovedKeeps ==
  ASSUME SInv, NEW t \in Task, GetRemoved(t)
  PROVE  SInv'
<1>1. call[t].phase = "remove" /\ UNCHANGED <<db, born, writes>> /\ call' = Done({t})
  BY DEF GetRemoved
<1>2. Sharers(t) = {t}
  BY <1>1, LoneSharer DEF SInv
<1> QED
  BY <1>1, <1>2, GetRemovedRestFits, DoneKeeps

-----------------------------------------------------------------------------
(* The backend *)

LEMMA ServeFindAnswer ==
  ASSUME SInv, NEW t \in Task, ServeFind(t)
  PROVE  \E docs \in Docs :
           /\ Answered(t, docs, FALSE) /\ call[t].wire = "asked"
           /\ call[t].phase \in {"find", "nested", "lookup", "pull"}
           /\ UNCHANGED <<db, born, writes, cache, stuck, live, held, alias>>
           /\ \A d \in Doc : docs[d] \in {db[d], None}
           /\ call[t].phase = "find" => docs = db
           /\ call[t].phase = "nested" => \A d \in call[t].want : docs[d] = db[d]
<1> DEFINE docs == [d \in Doc |-> IF call[t].phase = "find" \/ d \in call[t].want THEN db[d] ELSE None]
<1>1. /\ Answered(t, docs, FALSE) /\ call[t].wire = "asked"
      /\ call[t].phase \in {"find", "nested", "lookup", "pull"}
      /\ UNCHANGED <<db, born, writes, cache, stuck, live, held, alias>>
  BY DEF ServeFind
<1>2. db \in Docs /\ call[t].want \subseteq Doc
  BY DEF SInv, TypeOK, Call
<1>3. docs \in Docs /\ \A d \in Doc : docs[d] \in {db[d], None}
  BY <1>2 DEF Docs
<1>4. call[t].phase = "find" => docs = db
  BY <1>2 DEF Docs
<1>5. call[t].phase = "nested" => \A d \in call[t].want : docs[d] = db[d]
  BY <1>2
<1> HIDE DEF docs
<1> QED
  BY <1>1, <1>3, <1>4, <1>5

LEMMA ServeFindKeeps ==
  ASSUME SInv, NEW t \in Task, ServeFind(t)
  PROVE  SInv'
<1>1. PICK docs \in Docs :
        /\ Answered(t, docs, FALSE) /\ call[t].wire = "asked"
        /\ call[t].phase \in {"find", "nested", "lookup", "pull"}
        /\ UNCHANGED <<db, born, writes, cache, stuck, live, held, alias>>
        /\ \A d \in Doc : docs[d] \in {db[d], None}
        /\ call[t].phase = "find" => docs = db
        /\ call[t].phase = "nested" => \A d \in call[t].want : docs[d] = db[d]
  BY ServeFindAnswer
<1>2. db' \in Docs /\ db' = db /\ FALSE \in BOOLEAN
  BY <1>1 DEF SInv, TypeOK
<1> QED
  BY <1>1, <1>2, AnsweredKeeps

\* What an update leaves in the Db it also answers, and only of what was there.
LEMMA UpdatedIs ==
  ASSUME db \in Docs, NEW d \in Doc, NEW sent \in Record
  PROVE  /\ Updated(d, sent).stored \in Record \cup {None}
         /\ Updated(d, sent).answer \in Record \cup {None}
         /\ Updated(d, sent).stored # None => db[d] # None /\ Updated(d, sent).answer = Updated(d, sent).stored
         /\ Backend # "zango" /\ Updated(d, sent).answer # None =>
              Updated(d, sent).answer.rev = sent.rev + 1 /\ Updated(d, sent).answer.val = sent.val
<1> DEFINE next == [sent EXCEPT !.rev = @ + 1]
           same == [sent EXCEPT !.rev = db[d].rev]
<1>1. next \in Record /\ next.rev = sent.rev + 1 /\ next.val = sent.val /\ next # None
  BY StoreAssumption DEF Record
<1>2. db[d] # None => same \in Record
  BY DEF Docs, Record
<1>3. Backend = "zango" /\ db[d] # None => Updated(d, sent) = [stored |-> same, answer |-> same]
  BY DEF Updated
<1>4. Backend = "loki" /\ db[d] # None => Updated(d, sent) = [stored |-> next, answer |-> next]
  BY DEF Updated
<1>5. Backend = "tingo" => Updated(d, sent) = [stored |-> IF db[d] = None THEN None ELSE next, answer |-> next]
  BY DEF Updated
<1>6. Backend # "tingo" /\ db[d] = None => Updated(d, sent) = [stored |-> None, answer |-> None]
  BY StoreAssumption DEF Updated
<1> HIDE DEF next, same
<1>7. CASE Backend = "zango" /\ db[d] # None
  BY <1>2, <1>3, <1>7
<1>8. CASE Backend = "loki" /\ db[d] # None
  BY <1>1, <1>4, <1>8
<1>9. CASE Backend = "tingo"
  BY <1>1, <1>5, <1>9
<1>10. CASE Backend # "tingo" /\ db[d] = None
  BY <1>6, <1>10
<1> QED
  BY <1>7, <1>8, <1>9, <1>10, StoreAssumption

LEMMA ServeUpdateAnswer ==
  ASSUME SInv, NEW t \in Task, ServeUpdate(t), NEW d \in Doc, call[t].want = {d}
  PROVE  /\ Asking(t, "update") /\ t \in Writer[d] /\ call[t].arg \in Record
         /\ UNCHANGED <<born, writes, cache, stuck, live, held, alias>>
         /\ db' = [db EXCEPT ![d] = Updated(d, call[t].arg).stored] /\ db' \in Docs
         /\ [NoDocs EXCEPT ![d] = Updated(d, call[t].arg).answer] \in Docs
         /\ Answered(t, [NoDocs EXCEPT ![d] = Updated(d, call[t].arg).answer], FALSE)
<1>1. Asking(t, "update") /\ t \in Writer[d] /\ call[t].arg \in Record
      /\ UNCHANGED <<born, writes, cache, stuck, live, held, alias>>
  BY DEF ServeUpdate, Asking, SInv, CallsFit
<1>2. /\ db' = [db EXCEPT ![d] = Updated(d, call[t].arg).stored]
      /\ Answered(t, [NoDocs EXCEPT ![d] = Updated(d, call[t].arg).answer], FALSE)
  BY DEF ServeUpdate
<1>3. db' \in Docs /\ [NoDocs EXCEPT ![d] = Updated(d, call[t].arg).answer] \in Docs
  <2>1. db \in Docs /\ NoDocs \in Docs
    BY NoDocsIsDocs DEF SInv, TypeOK
  <2>2. Updated(d, call[t].arg).stored \in Record \cup {None} /\ Updated(d, call[t].arg).answer \in Record \cup {None}
    BY <1>1, <2>1, UpdatedIs
  <2> QED
    BY <1>2, <2>1, <2>2 DEF Docs
<1> QED
  BY <1>1, <1>2, <1>3

LEMMA ServeUpdateKeeps ==
  ASSUME SInv, NEW t \in Task, ServeUpdate(t)
  PROVE  SInv'
<1>1. PICK d \in Doc : call[t].want = {d}
  BY DEF ServeUpdate, SInv, CallsFit
<1> DEFINE docs == [NoDocs EXCEPT ![d] = Updated(d, call[t].arg).answer]
<1>2. /\ Asking(t, "update") /\ call[t].arg \in Record
      /\ UNCHANGED <<born, writes, cache, stuck, live, held, alias>>
      /\ db' = [db EXCEPT ![d] = Updated(d, call[t].arg).stored] /\ db' \in Docs
      /\ docs \in Docs /\ Answered(t, docs, FALSE) /\ db \in Docs
  BY <1>1, ServeUpdateAnswer DEF SInv, TypeOK
<1>3. \A e \in Doc : db'[e] # None => db[e] # None
  BY <1>2, UpdatedIs DEF Docs
<1>4. FALSE \in BOOLEAN /\ call[t].wire = "asked" /\ call[t].phase = "update"
  BY <1>2 DEF Asking
<1> HIDE DEF docs
<1> QED
  BY <1>2, <1>3, <1>4, AnsweredKeeps

LEMMA ServeRemoveAnswer ==
  ASSUME SInv, NEW t \in Task, ServeRemove(t)
  PROVE  \E d \in Doc, gone \in BOOLEAN :
           /\ Asking(t, "remove") /\ UNCHANGED <<born, writes, cache, stuck, live, held, alias>>
           /\ db' = [db EXCEPT ![d] = None] /\ db' \in Docs /\ Answered(t, NoDocs, gone)
<1>1. PICK d \in call[t].want : db' = [db EXCEPT ![d] = None]
                                /\ Answered(t, NoDocs, Backend = "loki" \/ db[d] # None)
  BY DEF ServeRemove
<1>2. d \in Doc /\ db \in Docs /\ (Backend = "loki" \/ db[d] # None) \in BOOLEAN
  BY DEF SInv, TypeOK, Call
<1>3. db' \in Docs
  BY <1>1, <1>2 DEF Docs
<1>4. Asking(t, "remove") /\ UNCHANGED <<born, writes, cache, stuck, live, held, alias>>
  BY DEF ServeRemove, Asking
<1> QED
  BY <1>1, <1>2, <1>3, <1>4

LEMMA ServeRemoveKeeps ==
  ASSUME SInv, NEW t \in Task, ServeRemove(t)
  PROVE  SInv'
<1>1. PICK d \in Doc, gone \in BOOLEAN :
        /\ Asking(t, "remove") /\ UNCHANGED <<born, writes, cache, stuck, live, held, alias>>
        /\ db' = [db EXCEPT ![d] = None] /\ db' \in Docs /\ Answered(t, NoDocs, gone)
  BY ServeRemoveAnswer
<1>2. \A e \in Doc : db'[e] # None => db[e] # None
  BY <1>1 DEF SInv, TypeOK, Docs
<1>3. call[t].wire = "asked" /\ call[t].phase = "remove" /\ NoDocs \in Docs
  BY <1>1, NoDocsIsDocs DEF Asking
<1> QED
  BY <1>1, <1>2, <1>3, AnsweredKeeps

LEMMA ServeCreateAnswer ==
  ASSUME SInv, NEW t \in Task, ServeCreate(t), NEW d \in Doc, call[t].want = {d}
  PROVE  /\ Asking(t, "create") /\ t \in Writer[d] /\ call[t].arg \in Record /\ d \in born
         /\ UNCHANGED <<born, writes, cache, stuck, live, held, alias>>
         /\ db' = [db EXCEPT ![d] = call[t].arg] /\ db' \in Docs /\ NeverThere(d)
         /\ [NoDocs EXCEPT ![d] = call[t].arg] \in Docs
         /\ Answered(t, [NoDocs EXCEPT ![d] = call[t].arg], FALSE)
<1>1. Asking(t, "create") /\ t \in Writer[d] /\ call[t].arg \in Record
      /\ UNCHANGED <<born, writes, cache, stuck, live, held, alias>>
  BY DEF ServeCreate, Asking, SInv, CallsFit
<1>2. /\ db' = [db EXCEPT ![d] = call[t].arg]
      /\ Answered(t, [NoDocs EXCEPT ![d] = call[t].arg], FALSE)
  BY DEF ServeCreate
<1>3. db' \in Docs /\ [NoDocs EXCEPT ![d] = call[t].arg] \in Docs
  BY <1>1, <1>2, NoDocsIsDocs DEF SInv, TypeOK, Docs
<1>4. d \in born /\ NeverThere(d)
  <2> HIDE DEF NeverThere
  <2> QED
    BY <1>1 DEF SInv, Births
<1> QED
  BY <1>1, <1>2, <1>3, <1>4

LEMMA ServeCreateKeeps ==
  ASSUME SInv, NEW t \in Task, ServeCreate(t)
  PROVE  SInv'
<1>1. PICK d \in Doc : call[t].want = {d}
  BY DEF ServeCreate, SInv, CallsFit
<1> DEFINE docs == [NoDocs EXCEPT ![d] = call[t].arg]
<1>2. /\ Asking(t, "create") /\ call[t].arg \in Record /\ d \in born
      /\ UNCHANGED <<born, writes, cache, stuck, live, held, alias>>
      /\ db' = [db EXCEPT ![d] = call[t].arg] /\ db' \in Docs /\ NeverThere(d)
      /\ docs \in Docs /\ Answered(t, docs, FALSE) /\ FALSE \in BOOLEAN
  BY <1>1, ServeCreateAnswer
<1> HIDE DEF docs
<1>3. PICK gone \in BOOLEAN : Answered(t, docs, gone)
  BY <1>2, Zenon
<1> DEFINE rec == AnsweredWith(t, docs, gone)
<1> HIDE DEF rec
<1>4. /\ call' = [call EXCEPT ![t] = rec] /\ rec \in Call
      /\ rec.wire = "served" /\ rec.reply = docs
      /\ rec.phase = call[t].phase /\ rec.want = call[t].want /\ rec.arg = call[t].arg
      /\ rec.hits = call[t].hits /\ rec.leader = call[t].leader /\ rec.floor = call[t].floor
  BY <1>2, <1>3, AnsweredCall DEF rec
<1>5. /\ call' \in [Task -> Call]
      /\ call'[t] = rec /\ \A u \in Task : u # t => call'[u] = call[u]
  BY <1>4, OneCall DEF SInv
<1>6. \A u \in Task : /\ call'[u].phase = call[u].phase /\ call'[u].leader = call[u].leader
                      /\ call'[u].floor = call[u].floor /\ call'[u].want = call[u].want
  BY <1>4, <1>5
<1>7. TypeOK' /\ RestFits'
  BY <1>2, <1>5, UnchangedRestFits DEF SInv, TypeOK
<1>8. call[t].phase = "create" /\ call[t].wire = "asked"
  BY <1>2 DEF Asking
<1>9. CallsFit'
  <2> SUFFICES ASSUME NEW u \in Task
               PROVE  /\ call'[u].phase = "idle" => call'[u] = NoCall
                      /\ call'[u].phase = "join" =>
                           /\ call'[u].leader \in Task
                           /\ call'[call'[u].leader].phase \in {"find", "nested"}
                           /\ Party[call'[u].leader] = Party[u]
                           /\ call'[u].floor = call'[call'[u].leader].floor
                      /\ call'[u].phase # "join" => call'[u].leader = None
                      /\ call'[u].phase \in {"create", "update"} =>
                           \E e \in Doc : u \in Writer[e] /\ call'[u].want = {e}
                      /\ Asking(u, "create")' \/ Asking(u, "update")' =>
                           call'[u].arg \in Record /\ call'[u].reply = NoDocs /\ call'[u].hits = NoDocs
    BY DEF CallsFit, Idle
  <2>1. CASE u = t
    BY <1>4, <1>5, <1>8, <2>1 DEF SInv, CallsFit, Asking
  <2>2. CASE u # t
    BY <1>5, <1>6, <2>2 DEF SInv, CallsFit, Idle, Asking
  <2> QED
    BY <2>1, <2>2
<1>10. Births'
  <2>1. \A e \in Doc : e # d /\ NeverThere(e) => NeverThere(e)'
    BY <1>2, <1>6 DEF NeverThere, SInv, TypeOK, Docs
  <2>2. \A u \in Task : Asking(u, "create")' => u # t /\ Asking(u, "create") /\ call'[u] = call[u]
    BY <1>4, <1>5 DEF Asking
  <2> HIDE DEF NeverThere, Asking
  <2>3. \A u \in Task : call[u].want \subseteq Doc
    BY DEF SInv, TypeOK, Call
  <2>4. \A u \in Task : Asking(u, "create")' => d \notin call[u].want
    BY <1>1, <1>2, <2>2 DEF SInv, Births
  <2> QED
    BY <1>2, <2>1, <2>2, <2>3, <2>4 DEF SInv, Births
<1>11. FindsSee'
  <2>1. \A u \in Task : call[u].floor[d] = 0
    BY <1>2 DEF NeverThere
  <2>2. \A e \in Doc : e # d => db'[e] = db[e]
    BY <1>2 DEF SInv, TypeOK, Docs
  <2>3. \A u \in Task : u = t \/ call'[u] = call[u]
    BY <1>5
  <2> SUFFICES ASSUME NEW u \in Task, NEW e \in Doc, call'[u].floor[e] > 0, db'[e] # None
               PROVE  /\ Served(u, "find")' => call'[u].reply[e] # None
                      /\ call'[u].phase = "nested" => e \in call'[u].want \/ call'[u].hits[e] # None
                      /\ Served(u, "nested")' /\ e \in call'[u].want => call'[u].reply[e] # None
    BY DEF FindsSee
  <2>4. e # d
    BY <1>6, <2>1
  <2>5. CASE u = t
    BY <1>6, <1>8, <2>5 DEF Served
  <2>6. CASE u # t
    BY <1>5, <2>2, <2>4, <2>6 DEF SInv, FindsSee, Served
  <2> QED
    BY <2>5, <2>6
<1> QED
  BY <1>7, <1>9, <1>10, <1>11 DEF SInv, RestFits

-----------------------------------------------------------------------------
(* Every client, task and document *)

LEMMA InitSInv == Init => SInv
<1> SUFFICES ASSUME Init PROVE SInv
  OBVIOUS
<1>1. /\ db = NoDocs /\ born = {} /\ writes = 0 /\ alias = {}
      /\ \A t \in Task : call[t] = NoCall
      /\ \A c \in Client : live[c] = {} /\ stuck[c] = {}
  BY DEF Init
<1>2. TypeOK
  BY NoDocsIsDocs DEF Init, TypeOK
<1>3. CallsFit
  BY <1>1, NoDocsIsDocs DEF CallsFit, Asking
<1>4. Births
  BY <1>1, NoDocsIsDocs DEF Births, NeverThere, Asking
<1>5. FindsSee
  BY <1>1, NoDocsIsDocs DEF FindsSee
<1>6. PlainApart /\ AliasIsCached
  BY <1>1 DEF PlainApart, AliasIsCached
<1> QED
  BY <1>2, <1>3, <1>4, <1>5, <1>6 DEF SInv

LEMMA StutterSInv == SInv /\ UNCHANGED vars => SInv'
<1> SUFFICES ASSUME SInv, UNCHANGED vars PROVE SInv'
  OBVIOUS
<1>1. UNCHANGED <<db, born, writes, cache, stuck, live, held, alias, call>>
  BY DEF vars
<1>2. TypeOK'
  BY <1>1 DEF SInv, TypeOK
<1>3. CallsFit'
  BY <1>1 DEF SInv, CallsFit, Idle, Asking
<1>4. Births' /\ FindsSee'
  BY <1>1 DEF SInv, Births, NeverThere, FindsSee, Served, Asking
<1>5. PlainApart' /\ AliasIsCached'
  BY <1>1 DEF SInv, PlainApart, AliasIsCached
<1> QED
  BY <1>2, <1>3, <1>4, <1>5 DEF SInv

LEMMA NextSInv == SInv /\ [Next]_vars => SInv'
<1> SUFFICES ASSUME SInv, [Next]_vars PROVE SInv'
  OBVIOUS
<1>1. CASE UNCHANGED vars
  BY <1>1, StutterSInv
<1>2. ASSUME NEW t \in Task, Find(t) \/ GetHeaders(t) \/ GetDocs(t) PROVE SInv'
  BY <1>2, FindKeeps, GetHeadersKeeps, GetDocsKeeps
<1>3. ASSUME NEW t \in Task, GetCreated(t) \/ GetUpdated(t) \/ PullSaved(t) \/ GetRemoved(t) PROVE SInv'
  BY <1>3, GetCreatedKeeps, GetUpdatedKeeps, PullSavedKeeps, GetRemovedKeeps
<1>4. ASSUME NEW t \in Task, ServeFind(t) \/ ServeCreate(t) \/ ServeUpdate(t) \/ ServeRemove(t) PROVE SInv'
  BY <1>4, ServeFindKeeps, ServeCreateKeeps, ServeUpdateKeeps, ServeRemoveKeeps
<1>5. ASSUME NEW t \in Task, NEW d \in Doc,
             Fetch(t, d) \/ Pull(t, d) \/ HandleWatchMsg(t, d) \/ Create(t, d) \/ Update(t, d) \/ Remove(t, d)
      PROVE  SInv'
  BY <1>5, FetchKeeps, HandleWatchMsgKeeps, CreateKeeps, UpdateKeeps, RemoveKeeps
<1> QED
  BY <1>1, <1>2, <1>3, <1>4, <1>5 DEF Next

-----------------------------------------------------------------------------
(* What a find answers with *)

\* What the cache has of the headers of t's find.
Found(t) ==
  [d \in Doc |-> IF call[t].reply[d] # None /\ Hit(Party[t], d, call[t].reply[d].rev)
                 THEN cache[Party[t]][d] ELSE None]

LEMMA HeadersLookedUp ==
  ASSUME SInv, NEW t \in Task, GetHeaders(t)
  PROVE  /\ Served(t, "find") /\ UNCHANGED <<db, born, writes>> /\ Found(t) \in Docs
         /\ \/ /\ InsertAndAnswer(Party[t], NoDocs, Sharers(t), Found(t)) /\ call' = Done(Sharers(t))
               /\ \A d \in Doc : call[t].reply[d] # None => Found(t)[d] # None
            \/ \E want \in SUBSET Doc :
                 Asks(t, "nested", want, Found(t)) /\ UNCHANGED <<cache, stuck, live, held, alias>>
<1> DEFINE headers == {d \in Doc : call[t].reply[d] # None}
           revs == [d \in Doc |-> IF d \in headers THEN call[t].reply[d].rev ELSE 0]
           hit == {d \in headers : Hit(Party[t], d, revs[d])}
           found == [d \in Doc |-> IF d \in hit THEN cache[Party[t]][d] ELSE None]
<1>1. Served(t, "find") /\ UNCHANGED <<db, born, writes>>
  BY DEF GetHeaders, Served
<1>2. \A d \in Doc : d \in hit <=> call[t].reply[d] # None /\ Hit(Party[t], d, call[t].reply[d].rev)
  OBVIOUS
<1>3. /\ hit = headers => InsertAndAnswer(Party[t], NoDocs, Sharers(t), [d \in Doc |-> found[d]])
                          /\ call' = Done(Sharers(t))
      /\ hit # headers => Asks(t, "nested", headers \ hit, found) /\ UNCHANGED <<cache, stuck, live, held, alias>>
  BY DEF GetHeaders, LookUp
<1>4. \A d \in hit : cache[Party[t]][d] # None
  BY DEF Hit
<1>5. \A d \in Doc : call[t].reply[d] # None <=> d \in headers
  OBVIOUS
<1>6. headers \in SUBSET Doc /\ hit \in SUBSET headers
  OBVIOUS
<1> HIDE DEF hit, headers
<1>7. found = Found(t) /\ [d \in Doc |-> found[d]] = found
  BY <1>2 DEF Found
<1>8. found \in Docs /\ \A d \in hit : found[d] # None
  BY <1>2, <1>4, <1>5, <1>6, StoreAssumption DEF SInv, TypeOK, Docs
<1> HIDE DEF found
<1>9. CASE hit = headers
  BY <1>1, <1>3, <1>5, <1>7, <1>8, <1>9
<1>10. CASE hit # headers
  <2>1. headers \ hit \in SUBSET Doc
    BY <1>6
  <2> QED
    BY <1>1, <1>3, <1>7, <1>8, <1>10, <2>1
<1> QED
  BY <1>9, <1>10

\* A find that t's step ends is t's, or one that joined it; it gets what the
\* cache had of the headers, or what was asked for with the hits.
Answers(t, u, d) ==
  \/ /\ Served(t, "find") /\ held'[u][d] = Found(t)[d]
     /\ call[t].reply[d] # None => Found(t)[d] # None
  \/ /\ Served(t, "nested")
     /\ held'[u][d] = IF call[t].reply[d] # None THEN call[t].reply[d] ELSE call[t].hits[d]

LEMMA SharersOf ==
  ASSUME SInv, NEW t \in Task, NEW u \in Sharers(t)
  PROVE  u \in Task /\ Party[u] = Party[t] /\ call[u].floor = call[t].floor
  BY StoreAssumption DEF SInv, CallsFit, Sharers, TypeOK

LEMMA InsertGives ==
  ASSUME NEW c, NEW msgs, NEW T \in SUBSET Task, NEW D \in SUBSET Doc,
         NEW answer \in [D -> Record \cup {None}], InsertAndAnswer(c, msgs, T, answer)
  PROVE  \A u \in T, d \in D : held'[u][d] = answer[d]
<1>1. DOMAIN answer = D
  OBVIOUS
<1> QED
  BY <1>1 DEF InsertAndAnswer

LEMMA HeadersEnd ==
  ASSUME SInv, NEW t \in Task, GetHeaders(t), NEW u \in Task, FindEnds(u), NEW d \in Doc
  PROVE  u \in Sharers(t) /\ Answers(t, u, d)
<1>1. CASE InsertAndAnswer(Party[t], NoDocs, Sharers(t), Found(t)) /\ call' = Done(Sharers(t))
           /\ \A e \in Doc : call[t].reply[e] # None => Found(t)[e] # None
  <2>1. /\ TypeOK /\ PlainApart /\ AliasIsCached /\ Party[t] \in Client /\ NoDocs \in Docs
        /\ Sharers(t) \in SUBSET Task /\ Found(t) \in [Doc -> Record \cup {None}] /\ Doc \in SUBSET Doc
    BY NoDocsIsDocs, HeadersLookedUp, StoreAssumption DEF SInv, Sharers, Docs
  <2>2. \A v \in Sharers(t), e \in Doc : held'[v][e] = Found(t)[e]
    BY <1>1, <2>1, InsertGives
  <2>3. \A v \in Task \ Sharers(t) : call'[v] = call[v]
    BY <1>1, <2>1, ManyDone
  <2>4. u \in Sharers(t)
    BY <2>3 DEF FindEnds
  <2> QED
    BY <1>1, <2>2, <2>4, HeadersLookedUp DEF Answers
<1>2. ASSUME NEW want \in SUBSET Doc, Asks(t, "nested", want, Found(t))
      PROVE  FALSE
  <2> DEFINE rec == AskedFor(t, "nested", want, Found(t))
  <2> HIDE DEF rec
  <2>1. call' = [call EXCEPT ![t] = rec] /\ rec \in Call /\ rec.phase = "nested"
    BY <1>2, HeadersLookedUp, AsksCall DEF rec
  <2>2. call'[u] = call[u] \/ call'[u].phase = "nested"
    BY <2>1, OneCall DEF SInv
  <2> QED
    BY <2>2 DEF FindEnds
<1> QED
  BY <1>1, <1>2, HeadersLookedUp

LEMMA GetDocsEnd ==
  ASSUME SInv, NEW t \in Task, GetDocs(t), NEW u \in Task, FindEnds(u), NEW d \in Doc
  PROVE  u \in Sharers(t) /\ Answers(t, u, d)
<1>1. \A v \in Task \ Sharers(t) : call'[v] = call[v]
  BY GetDocsAnswer, ManyDone DEF SInv
<1>2. u \in Sharers(t)
  BY <1>1 DEF FindEnds
<1>3. call[t].phase = "nested" /\ Served(t, "nested")
  <2>1. u = t \/ call[u].leader = t
    BY <1>2 DEF Sharers
  <2>2. call[u].phase \in {"find", "nested", "join"} /\ call[t].phase \in {"nested", "lookup", "pull"}
        /\ call[t].wire = "served"
    BY DEF FindEnds, GetDocs
  <2>3. call[u].phase # "join" => u = t
    BY <2>1, StoreAssumption DEF SInv, CallsFit
  <2>4. call[u].phase = "join" => call[t].phase \in {"find", "nested"}
    BY <2>1, <2>2, StoreAssumption DEF SInv, CallsFit
  <2> QED
    BY <2>2, <2>3, <2>4 DEF Served
<1>4. /\ Party[t] \in Client /\ Sharers(t) \in SUBSET Task /\ call[t].reply \in Docs
      /\ Scope(t) \in SUBSET Doc /\ Scope(t) = Doc /\ Answer(t) \in [Scope(t) -> Record \cup {None}]
      /\ InsertAndAnswer(Party[t], call[t].reply, Sharers(t), Answer(t))
  BY <1>3, GetDocsAnswer
<1>5. \A v \in Sharers(t), e \in Scope(t) : held'[v][e] = Answer(t)[e]
  BY <1>4, InsertGives
<1>6. Answer(t)[d] = IF call[t].reply[d] # None THEN call[t].reply[d] ELSE call[t].hits[d]
  BY <1>4 DEF Answer
<1> QED
  BY <1>2, <1>3, <1>4, <1>5, <1>6 DEF Answers

\* All other steps are steps of one call, which is no find or goes on.
LEMMA LookUpAlone ==
  ASSUME SInv, NEW t \in Task, NEW phase, NEW ids, NEW revs, LookUp(t, phase, ids, revs, {t})
  PROVE  \A u \in Task \ {t} : call'[u] = call[u]
<1>1. call' = Done({t}) \/ \E want, hits : Asks(t, phase, want, hits)
  <2> HIDE DEF Asks, Done
  <2> QED
    BY DEF LookUp
<1>2. CASE call' = Done({t})
  BY <1>2 DEF Done
<1>3. ASSUME NEW want, NEW hits, Asks(t, phase, want, hits)
      PROVE  \A u \in Task \ {t} : call'[u] = call[u]
  BY <1>3 DEF Asks, SInv, TypeOK
<1> QED
  BY <1>1, <1>2, <1>3

LEMMA TaskAlone ==
  ASSUME SInv, NEW t \in Task,
         \/ Find(t) \/ GetCreated(t) \/ GetUpdated(t) \/ PullSaved(t) \/ GetRemoved(t)
         \/ \E d \in Doc : Fetch(t, d) \/ Pull(t, d) \/ HandleWatchMsg(t, d)
                           \/ Create(t, d) \/ Update(t, d) \/ Remove(t, d)
  PROVE  call[t].phase \notin {"find", "nested", "join"} /\ \A u \in Task \ {t} : call'[u] = call[u]
<1>1. CASE Find(t)
  BY <1>1, NoDocsIsDocs, FindCall DEF SInv, TypeOK
<1>2. CASE GetCreated(t) \/ GetRemoved(t)
  BY <1>2 DEF GetCreated, GetRemoved, Done
<1>3. CASE GetUpdated(t)
  <2>1. PICK d \in Doc : call[t].want = {d}
    BY <1>3 DEF GetUpdated, SInv, CallsFit
  <2>2. \/ call' = Done({t})
        \/ call' = [call EXCEPT ![t] = [NoCall EXCEPT !.phase = "update", !.want = {d}]]
    BY <1>3, <2>1, GetUpdatedAnswer
  <2>3. call[t].phase = "update"
    BY <1>3 DEF GetUpdated
  <2> QED
    BY <2>2, <2>3 DEF Done, SInv, TypeOK
<1>4. CASE PullSaved(t)
  BY <1>4, LookUpAlone DEF PullSaved
<1>5. ASSUME NEW d \in Doc, Fetch(t, d) \/ Pull(t, d)
      PROVE  call[t].phase \notin {"find", "nested", "join"} /\ \A u \in Task \ {t} : call'[u] = call[u]
  BY <1>5, LookUpAlone DEF Fetch, Pull, Idle
<1>6. ASSUME NEW d \in Doc, HandleWatchMsg(t, d)
      PROVE  call[t].phase \notin {"find", "nested", "join"} /\ \A u \in Task \ {t} : call'[u] = call[u]
  <2>1. CASE AfterRemove(Party[t], d) # None
    BY <1>6, <2>1, LookUpAlone DEF HandleWatchMsg, Idle
  <2>2. CASE AfterRemove(Party[t], d) = None
    BY <1>6, <2>2 DEF HandleWatchMsg, Idle, Asks, SInv, TypeOK
  <2> QED
    BY <2>1, <2>2
<1>7. ASSUME NEW d \in Doc, Create(t, d)
      PROVE  call[t].phase \notin {"find", "nested", "join"} /\ \A u \in Task \ {t} : call'[u] = call[u]
  BY <1>7, NoDocsIsDocs, CreateCall DEF Create, Idle, SInv, TypeOK
<1>8. ASSUME NEW d \in Doc, Update(t, d)
      PROVE  call[t].phase \notin {"find", "nested", "join"} /\ \A u \in Task \ {t} : call'[u] = call[u]
  BY <1>8, NoDocsIsDocs, UpdateCall DEF SInv, TypeOK
<1>9. ASSUME NEW d \in Doc, Remove(t, d)
      PROVE  call[t].phase \notin {"find", "nested", "join"} /\ \A u \in Task \ {t} : call'[u] = call[u]
  BY <1>9 DEF Remove, Idle, SInv, TypeOK
<1> QED
  BY <1>1, <1>2, <1>3, <1>4, <1>5, <1>6, <1>7, <1>8, <1>9

\* A reply on its way changes nothing else of a call.
LEMMA ServedAlone ==
  ASSUME SInv, NEW t \in Task, ServeFind(t) \/ ServeCreate(t) \/ ServeUpdate(t) \/ ServeRemove(t)
  PROVE  call'[t].phase = call[t].phase /\ \A u \in Task \ {t} : call'[u] = call[u]
<1>1. \E docs, gone : Answered(t, docs, gone)
  BY DEF ServeFind, ServeCreate, ServeUpdate, ServeRemove
<1>2. call \in [Task -> Call] /\ call[t] \in Call
  BY DEF SInv, TypeOK
<1> QED
  BY <1>1, <1>2 DEF Answered, Call

LEMMA StepFindEnds ==
  ASSUME SInv, [Next]_vars, NEW u \in Task, FindEnds(u), NEW d \in Doc
  PROVE  \E t \in Task : u \in Sharers(t) /\ Answers(t, u, d)
<1>1. CASE UNCHANGED vars
  BY <1>1 DEF vars, FindEnds
<1>2. ASSUME NEW t \in Task, GetHeaders(t) \/ GetDocs(t)
      PROVE  u \in Sharers(t) /\ Answers(t, u, d)
  BY <1>2, HeadersEnd, GetDocsEnd
<1>3. ASSUME NEW t \in Task,
             \/ Find(t) \/ GetCreated(t) \/ GetUpdated(t) \/ PullSaved(t) \/ GetRemoved(t)
             \/ \E e \in Doc : Fetch(t, e) \/ Pull(t, e) \/ HandleWatchMsg(t, e)
                               \/ Create(t, e) \/ Update(t, e) \/ Remove(t, e)
      PROVE  FALSE
  <2>1. call[t].phase \notin {"find", "nested", "join"} /\ \A v \in Task \ {t} : call'[v] = call[v]
    BY <1>3, TaskAlone
  <2> QED
    BY <2>1 DEF FindEnds
<1>4. ASSUME NEW t \in Task, ServeFind(t) \/ ServeCreate(t) \/ ServeUpdate(t) \/ ServeRemove(t)
      PROVE  FALSE
  <2>1. call'[t].phase = call[t].phase /\ \A v \in Task \ {t} : call'[v] = call[v]
    BY <1>4, ServedAlone
  <2> QED
    BY <2>1 DEF FindEnds
<1> QED
  BY <1>1, <1>2, <1>3, <1>4 DEF Next

-----------------------------------------------------------------------------
(* Theorems that need no conditions *)

\* Every value of the state has its type, whatever the interleaving of calls,
\* replies and edits.
THEOREM PartyStoreTypeOK == Spec => []TypeOK
<1>1. SInv => TypeOK
  BY DEF SInv
<1> QED
  BY <1>1, InitSInv, NextSInv, PTL DEF Spec

\* An IDocument that took the object of the cache shows what the cache answers,
\* through edits, saves, removals, evictions and the replies of other tasks.
THEOREM PartyStoreAliasIsCached == Spec => []AliasIsCached
<1>1. SInv => AliasIsCached
  BY DEF SInv
<1> QED
  BY <1>1, InitSInv, NextSInv, PTL DEF Spec

\* No document that the backend had all along is missing from the answer of a
\* find, its own or one it joined.
THEOREM PartyStoreFindComplete == Spec => FindComplete
<1>1. ASSUME SInv, [Next]_vars, NEW u \in Task, NEW d \in Doc,
             FindEnds(u), call[u].floor[d] > 0, db[d] # None
      PROVE  held'[u][d] # None
  <2>1. PICK t \in Task : u \in Sharers(t) /\ Answers(t, u, d)
    BY <1>1, StepFindEnds
  <2>2. call[t].floor = call[u].floor
    BY <1>1, <2>1, SharersOf
  <2>3. /\ Served(t, "find") => call[t].reply[d] # None
        /\ Served(t, "nested") => call[t].hits[d] # None \/ call[t].reply[d] # None
    BY <1>1, <2>2 DEF SInv, FindsSee, Served
  <2> QED
    BY <2>1, <2>3 DEF Answers
<1>2. SInv /\ [Next]_vars =>
        [\A t \in Task, d \in Doc :
           FindEnds(t) /\ call[t].floor[d] > 0 /\ db[d] # None => held'[t][d] # None]_vars
  BY <1>1
<1> QED
  BY <1>2, InitSInv, NextSInv, PTL DEF Spec, FindComplete

-----------------------------------------------------------------------------
(* A document with one writer: steps that only hand its copies on *)

\* What a step of t can hand on of document d.
Pool(t, d) == Known(t, d) \cup {db[d], None}

DataHandedOn(t, d) ==
  /\ \A c \in Client : cache'[c][d] = cache[c][d] \/ (c = Party[t] /\ cache'[c][d] \in Pool(t, d))
  /\ \A u \in Task : held'[u][d] = held[u][d] \/ (Party[u] = Party[t] /\ held'[u][d] \in Pool(t, d))

CallsHandedOn(t, d) ==
  /\ \A u \in Task \ {t} : call'[u] = call[u] \/ (Party[u] = Party[t] /\ call'[u] = NoCall)
  /\ call'[t].reply[d] \in Pool(t, d) /\ call'[t].hits[d] \in Pool(t, d)
  /\ CurrentCall(call'[t], db, d)

\* The step brings no new copy of d, and gives t no others than it knows or the Db has.
HandsOn(t, d) ==
  /\ db'[d] \in {db[d], None} /\ born \subseteq born' /\ writes' \in Nat /\ writes <= writes'
  /\ DataHandedOn(t, d) /\ CallsHandedOn(t, d)

\* The task asks for d to be written, or has the answer to an update of it.
Writes(t, d) == d \in call[t].want /\ (Asking(t, "create") \/ Asking(t, "update"))
Saved(t, d) == Served(t, "update") /\ call[t].reply[d] # None

LEMMA CopiesAreRecords ==
  ASSUME SInv, NEW d \in Doc
  PROVE  /\ Copies(d) \subseteq Record /\ None \notin Copies(d)
         /\ \A r \in Copies(d) : r.rev \in Nat /\ r.val \in Nat
         /\ db[d] \in Copies(d) \cup {None}
         /\ \A c \in Client : cache[c][d] \in Copies(d) \cup {None}
         /\ \A t \in Task : /\ held[t][d] \in Copies(d) \cup {None}
                            /\ call[t].reply[d] \in Copies(d) \cup {None}
                            /\ call[t].hits[d] \in Copies(d) \cup {None}
                            /\ Pool(t, d) \subseteq Copies(d) \cup {None}
<1>1. /\ db[d] \in Record \cup {None} /\ \A c \in Client : cache[c][d] \in Record \cup {None}
      /\ \A t \in Task : /\ held[t][d] \in Record \cup {None}
                         /\ call[t].reply[d] \in Record \cup {None} /\ call[t].hits[d] \in Record \cup {None}
  BY DEF SInv, TypeOK, Docs, Call
<1>2. Copies(d) \subseteq Record
  BY <1>1 DEF Copies
<1>3. \A r \in Record : r.rev \in Nat /\ r.val \in Nat
  BY DEF Record
<1>4. /\ db[d] \in Copies(d) \cup {None} /\ None \notin Copies(d)
      /\ \A c \in Client : cache[c][d] \in Copies(d) \cup {None}
      /\ \A t \in Task : /\ held[t][d] \in Copies(d) \cup {None}
                         /\ call[t].reply[d] \in Copies(d) \cup {None}
                         /\ call[t].hits[d] \in Copies(d) \cup {None}
  BY DEF Copies
<1>5. \A t \in Task : Pool(t, d) \subseteq Copies(d) \cup {None}
  BY <1>4, StoreAssumption DEF Pool, Known
<1> QED
  BY <1>2, <1>3, <1>4, <1>5

LEMMA CopiesAfter ==
  ASSUME NEW d \in Doc, NEW S, db'[d] \in S, \A c \in Client : cache'[c][d] \in S,
         \A t \in Task : held'[t][d] \in S /\ call'[t].reply[d] \in S /\ call'[t].hits[d] \in S
  PROVE  Copies(d)' \subseteq S \ {None}
  BY DEF Copies

LEMMA CurrentWithLess ==
  ASSUME NEW d \in Doc, NEW k, NEW base, NEW less, CurrentCall(k, base, d), less[d] \in {base[d], None}
  PROVE  CurrentCall(k, less, d)
  BY DEF CurrentCall

LEMMA NoCallIsCurrent ==
  ASSUME SInv, NEW d \in Doc
  PROVE  CurrentCall(NoCall, db, d)
  BY NoDocsIsDocs DEF CurrentCall, SInv, TypeOK, Docs, Record

\* A step that brings no new copy leaves the copies and the finds in order.
LEMMA HandingOnOrders ==
  ASSUME SInv, NEW d \in Doc, RInv(d), NEW t \in Task, HandsOn(t, d)
  PROVE  /\ Copies(d)' \subseteq Copies(d)
         /\ InOrder(d)' /\ FindsAreCurrent(d)'
         /\ db'[d] # None => Newest(db[d], d)'
         /\ d \notin born' => Copies(d)' = {}
<1> USE DEF HandsOn, DataHandedOn, CallsHandedOn
<1>1. Copies(d)' \subseteq Copies(d)
  <2>1. /\ db'[d] \in Copies(d) \cup {None}
        /\ \A c \in Client : cache'[c][d] \in Copies(d) \cup {None}
        /\ \A u \in Task : held'[u][d] \in Copies(d) \cup {None}
    BY CopiesAreRecords
  <2>2. \A u \in Task : call'[u].reply[d] \in Copies(d) \cup {None} /\ call'[u].hits[d] \in Copies(d) \cup {None}
    BY CopiesAreRecords, NoDocsIsDocs
  <2> DEFINE S == Copies(d) \cup {None}
  <2>3. db'[d] \in S /\ (\A c \in Client : cache'[c][d] \in S)
        /\ \A u \in Task : held'[u][d] \in S /\ call'[u].reply[d] \in S /\ call'[u].hits[d] \in S
    BY <2>1, <2>2
  <2> HIDE DEF S
  <2>4. Copies(d)' \subseteq S \ {None}
    BY <2>3, CopiesAfter
  <2> QED
    BY <2>4 DEF S
<1>2. Newest(db[d], d) \/ db[d] = None
  BY DEF RInv
<1>3. InOrder(d)'
  <2>1. \A r \in Copies(d)' : r.rev > 0 /\ r.val <= writes'
    <3>1. \A r \in Copies(d) : r.val \in Nat /\ r.rev > 0 /\ r.val <= writes
      BY CopiesAreRecords DEF RInv, InOrder
    <3>2. writes \in Nat
      BY DEF SInv, TypeOK
    <3> QED
      BY <1>1, <3>1, <3>2
  <2> QED
    BY <1>1, <2>1 DEF RInv, InOrder
<1>4. db'[d] # None => Newest(db[d], d)'
  BY <1>1, <1>2 DEF Newest
<1>5. d \notin born' => Copies(d)' = {}
  BY <1>1 DEF RInv
<1>6. FindsAreCurrent(d)'
  <2>1. \A u \in Task : CurrentCall(call'[u], db, d)
    BY NoCallIsCurrent DEF RInv, FindsAreCurrent
  <2>2. \A u \in Task : CurrentCall(call'[u], db', d)
    BY <2>1, CurrentWithLess
  <2> QED
    BY <2>2 DEF FindsAreCurrent
<1> QED
  BY <1>1, <1>3, <1>4, <1>5, <1>6

\* What a step of another party does to the writer of d.
LEMMA WriterApart ==
  ASSUME SInv, NEW d \in Doc, OneWriter(d), NEW t \in Task, HandsOn(t, d), NEW w \in Writer[d], w # t
  PROVE  /\ w \in Task /\ call'[w] = call[w] /\ Known(w, d)' = Known(w, d)
         /\ Asking(w, "create")' = Asking(w, "create") /\ Asking(w, "update")' = Asking(w, "update")
         /\ Served(w, "update")' = Served(w, "update")
<1>1. w \in Task /\ Party[w] \in Client /\ Party[w] # Party[t]
  BY StoreAssumption DEF OneWriter
<1>2. call'[w] = call[w] /\ held'[w][d] = held[w][d] /\ cache'[Party[w]][d] = cache[Party[w]][d]
  BY <1>1 DEF HandsOn, DataHandedOn, CallsHandedOn
<1>3. Known(w, d)' = Known(w, d)
  BY <1>2 DEF Known
<1> QED
  BY <1>1, <1>2, <1>3 DEF Asking, Served

\* A step that hands on keeps everything, if t neither asks for d to be written
\* nor has the answer to that.
LEMMA HandingOnKeeps ==
  ASSUME SInv, NEW d \in Doc, OneWriter(d), RInv(d), NEW t \in Task, HandsOn(t, d),
         t \in Writer[d] => ~Saved(t, d), ~Writes(t, d)', ~Saved(t, d)'
  PROVE  RInv(d)'
<1>1. /\ Copies(d)' \subseteq Copies(d)
      /\ InOrder(d)' /\ FindsAreCurrent(d)'
      /\ db'[d] # None => Newest(db[d], d)'
      /\ d \notin born' => Copies(d)' = {}
  BY HandingOnOrders
<1>2. Newest(db[d], d) \/ db[d] = None
  BY DEF RInv
<1>3. \A r : Newest(r, d) => \A s \in Copies(d)' : s.rev <= r.rev /\ s.val <= r.val
  BY <1>1 DEF Newest
<1>4. WritesNewest(d)'
  <2> SUFFICES ASSUME NEW w \in Writer[d]
               PROVE  /\ d \in call'[w].want /\ (Asking(w, "create")' \/ Asking(w, "update")') =>
                           d \in born' /\ call'[w].arg.rev > 0 /\ call'[w].arg.val <= writes'
                      /\ d \in call'[w].want /\ Asking(w, "create")' => Copies(d)' = {}
                      /\ d \in call'[w].want /\ Asking(w, "update")' => Newest(call[w].arg, d)'
                      /\ Served(w, "update")' /\ call'[w].reply[d] # None =>
                           d \in call'[w].want /\ Newest(call[w].reply[d], d)'
                      /\ ~Served(w, "update")' \/ call'[w].reply[d] = None =>
                           \A r \in Known(w, d)' : Newest(r, d)'
    BY DEF WritesNewest
  <2>1. w \in Task /\ Party[w] \in Client
    BY StoreAssumption
  <2>2. CASE w = t
    <3>1. \A r \in Pool(t, d) \ {None} : Newest(r, d)
      BY <1>2, <2>2 DEF Pool, RInv, WritesNewest, Saved
    <3>2. Known(t, d)' \subseteq Pool(t, d) \ {None}
      <4>1. cache[Party[t]][d] \in Pool(t, d) /\ held[t][d] \in Pool(t, d)
        BY DEF Pool, Known
      <4>2. cache'[Party[t]][d] \in Pool(t, d) /\ held'[t][d] \in Pool(t, d)
            /\ call'[t].reply[d] \in Pool(t, d) /\ call'[t].hits[d] \in Pool(t, d)
        BY <2>1, <2>2, <4>1 DEF HandsOn, DataHandedOn, CallsHandedOn
      <4> QED
        BY <4>2 DEF Known
    <3>3. \A r \in Known(t, d)' : Newest(r, d)'
      BY <1>1, <3>1, <3>2 DEF Newest
    <3> QED
      BY <2>2, <3>3 DEF Writes, Saved
  <2>3. CASE w # t
    <3>1. /\ call'[w] = call[w] /\ Known(w, d)' = Known(w, d)
          /\ Asking(w, "create")' = Asking(w, "create") /\ Asking(w, "update")' = Asking(w, "update")
          /\ Served(w, "update")' = Served(w, "update")
      BY <2>3, WriterApart
    <3>2. \A r \in Known(w, d) : Newest(r, d) => Newest(r, d)'
      BY <1>1 DEF Newest
    <3>3. d \in call[w].want /\ (Asking(w, "create") \/ Asking(w, "update")) =>
            d \in born' /\ call[w].arg.rev > 0 /\ call[w].arg.val <= writes'
      <4>1. Asking(w, "create") \/ Asking(w, "update") => call[w].arg.val \in Nat
        BY <2>1 DEF SInv, CallsFit, Record
      <4>2. writes \in Nat /\ writes' \in Nat /\ writes <= writes' /\ born \subseteq born'
        BY DEF SInv, TypeOK, HandsOn
      <4> QED
        BY <4>1, <4>2 DEF RInv, WritesNewest
    <3>4. d \in call[w].want /\ Asking(w, "create") => Copies(d)' = {}
      BY <1>1 DEF RInv, WritesNewest
    <3>5. d \in call[w].want /\ Asking(w, "update") => Newest(call[w].arg, d)'
      <4>1. d \in call[w].want /\ Asking(w, "update") => Newest(call[w].arg, d)
        BY DEF RInv, WritesNewest
      <4> QED
        BY <1>3, <3>1, <4>1 DEF Newest
    <3>6. Served(w, "update") /\ call[w].reply[d] # None => d \in call[w].want /\ Newest(call[w].reply[d], d)'
      <4>1. Served(w, "update") /\ call[w].reply[d] # None => d \in call[w].want /\ Newest(call[w].reply[d], d)
        BY DEF RInv, WritesNewest
      <4> QED
        BY <1>3, <3>1, <4>1 DEF Newest
    <3>7. ~Served(w, "update") \/ call[w].reply[d] = None => \A r \in Known(w, d) : Newest(r, d)'
      BY <3>2 DEF RInv, WritesNewest
    <3> QED
      BY <3>1, <3>3, <3>4, <3>5, <3>6, <3>7
  <2> QED
    BY <2>2, <2>3
<1> QED
  BY <1>1, <1>4 DEF RInv

LEMMA InsertHandsOn ==
  ASSUME SInv, NEW t \in Task, NEW msgs \in Docs, NEW T \in SUBSET Task, NEW D \in SUBSET Doc,
         NEW answer \in [D -> Record \cup {None}], InsertAndAnswer(Party[t], msgs, T, answer),
         NEW d \in Doc, msgs[d] \in Pool(t, d), d \in D => answer[d] \in Pool(t, d),
         \A u \in T : Party[u] = Party[t]
  PROVE  DataHandedOn(t, d)
<1> DEFINE c == Party[t]
<1>1. TypeOK /\ PlainApart /\ AliasIsCached /\ c \in Client
  BY StoreAssumption DEF SInv
<1>2. cache[c][d] \in Pool(t, d)
  BY DEF Pool, Known
<1> HIDE DEF c
<1>3. /\ \A e \in Client : e # c => cache'[e] = cache[e]
      /\ \A e \in Doc : cache'[c][e] \in {cache[c][e], msgs[e]}
      /\ \A u \in T, e \in D : held'[u][e] = answer[e]
      /\ \A u \in Task, e \in Doc :
           u \notin T \/ e \notin D =>
             \/ held'[u][e] = held[u][e]
             \/ /\ Party[u] = c /\ c \in Hydrated /\ msgs[e] # None
                /\ held'[u][e] \in {cache[c][e], msgs[e]}
  <2>1. InsertAndAnswer(c, msgs, T, answer)
    BY DEF c
  <2>2. \A e \in Client : e # c => cache'[e] = cache[e]
    BY <1>1, <2>1, InsertKeeps
  <2>3. \A e \in Doc : cache'[c][e] \in {cache[c][e], msgs[e]}
    BY <1>1, <2>1, InsertKeeps
  <2>4. \A u \in T, e \in D : held'[u][e] = answer[e]
    BY <2>1, InsertGives
  <2>5. \A u \in Task, e \in Doc :
          u \notin T \/ e \notin D =>
            \/ held'[u][e] = held[u][e]
            \/ /\ Party[u] = c /\ c \in Hydrated /\ msgs[e] # None
               /\ held'[u][e] \in {cache[c][e], msgs[e]}
    BY <1>1, <2>1, InsertKeeps
  <2> QED
    BY <2>2, <2>3, <2>4, <2>5
<1>4. \A u \in T : Party[u] = c
  BY DEF c
<1>5. \A u \in Task : held'[u][d] = held[u][d] \/ (Party[u] = c /\ held'[u][d] \in Pool(t, d))
  BY <1>2, <1>3, <1>4
<1>6. \A e \in Client : cache'[e][d] = cache[e][d] \/ (e = c /\ cache'[e][d] \in Pool(t, d))
  BY <1>2, <1>3
<1> QED
  BY <1>5, <1>6 DEF c, DataHandedOn

LEMMA InsertLeaves ==
  ASSUME TypeOK, NEW c \in Client, NEW msgs, NEW T, NEW answer, InsertAndAnswer(c, msgs, T, answer)
  PROVE  \A d \in Doc : msgs[d] = None => cache'[c][d] = cache[c][d]
<1>1. cache' = [cache EXCEPT ![c] = [d \in Doc |-> First(c, msgs, d)]]
  BY DEF InsertAndAnswer
<1> QED
  BY <1>1 DEF First, TypeOK

LEMMA InsertReplaces ==
  ASSUME TypeOK, PlainApart, NEW c \in Client \ Hydrated, NEW msgs, NEW T, NEW answer,
         InsertAndAnswer(c, msgs, T, answer)
  PROVE  \A d \in Doc : msgs[d] # None => cache'[c][d] = msgs[d]
<1>1. cache' = [cache EXCEPT ![c] = [d \in Doc |-> First(c, msgs, d)]] /\ stuck[c] = {}
  BY DEF InsertAndAnswer, PlainApart
<1> QED
  BY <1>1 DEF First, TypeOK

\* A call that is over, with those that share it, hands nothing on.
LEMMA DoneHandsOn ==
  ASSUME SInv, NEW t \in Task, call' = Done(Sharers(t)), NEW d \in Doc
  PROVE  /\ CallsHandedOn(t, d) /\ call'[t] = NoCall
         /\ ~Writes(t, d)' /\ ~Saved(t, d)' /\ ~Served(t, "update")'
         /\ ~Asking(t, "create")' /\ ~Asking(t, "update")'
<1>1. Sharers(t) \in SUBSET Task /\ t \in Sharers(t)
  BY DEF Sharers
<1>2. /\ \A u \in Sharers(t) : call'[u] = NoCall
      /\ \A u \in Task \ Sharers(t) : call'[u] = call[u]
  BY <1>1, ManyDone DEF SInv
<1>3. \A u \in Sharers(t) : Party[u] = Party[t]
  BY SharersOf
<1>4. \A u \in Task \ {t} : call'[u] = call[u] \/ (Party[u] = Party[t] /\ call'[u] = NoCall)
  BY <1>2, <1>3
<1>5. call'[t] = NoCall /\ CurrentCall(call'[t], db, d)
  BY <1>1, <1>2, NoCallIsCurrent
<1>6. call'[t].reply[d] \in Pool(t, d) /\ call'[t].hits[d] \in Pool(t, d)
  BY <1>5, NoDocsIsDocs DEF Pool
<1>7. ~Asking(t, "create")' /\ ~Asking(t, "update")' /\ ~Served(t, "update")'
  BY <1>5, NoDocsIsDocs DEF Asking, Served
<1> QED
  BY <1>4, <1>5, <1>6, <1>7 DEF CallsHandedOn, Writes, Saved

\* A step that changes only t's call.
LEMMA CallHandsOn ==
  ASSUME SInv, NEW t \in Task, NEW rec \in Call, call' = [call EXCEPT ![t] = rec], NEW d \in Doc,
         rec.reply[d] \in Pool(t, d), rec.hits[d] \in Pool(t, d), CurrentCall(rec, db, d),
         d \in rec.want /\ rec.phase \in {"create", "update"} => rec.wire # "asked",
         rec.phase = "update" /\ rec.wire = "served" => rec.reply[d] = None
  PROVE  CallsHandedOn(t, d) /\ ~Writes(t, d)' /\ ~Saved(t, d)'
<1>1. call'[t] = rec /\ \A u \in Task \ {t} : call'[u] = call[u]
  BY OneCall DEF SInv
<1> QED
  BY <1>1 DEF CallsHandedOn, Writes, Saved, Asking, Served

LEMMA AsksHandsOn ==
  ASSUME SInv, NEW d \in Doc, RInv(d), NEW t \in Task, NEW phase \in {"nested", "lookup", "pull"},
         NEW want \in SUBSET Doc, NEW hits \in Docs, Asks(t, phase, want, hits),
         hits[d] \in Pool(t, d),
         phase = "nested" => hits[d] = None \/ call[t].floor[d] <= hits[d].val
  PROVE  CallsHandedOn(t, d) /\ ~Writes(t, d)' /\ ~Saved(t, d)'
<1> DEFINE rec == AskedFor(t, phase, want, hits)
<1> HIDE DEF rec
<1>1. /\ call' = [call EXCEPT ![t] = rec] /\ rec \in Call
      /\ rec.phase = phase /\ rec.wire = "asked" /\ rec.hits = hits /\ rec.reply = NoDocs
      /\ rec.floor = call[t].floor
  BY AsksCall DEF rec
<1>2. rec.reply[d] \in Pool(t, d) /\ rec.hits[d] \in Pool(t, d)
  BY <1>1, NoDocsIsDocs DEF Pool
<1>3. db[d] # None => call[t].floor[d] <= db[d].val
  BY DEF RInv, FindsAreCurrent, CurrentCall
<1>4. CurrentCall(rec, db, d)
  BY <1>1, <1>3 DEF CurrentCall
<1>5. /\ d \in rec.want /\ rec.phase \in {"create", "update"} => rec.wire # "asked"
      /\ rec.phase = "update" /\ rec.wire = "served" => rec.reply[d] = None
  BY <1>1
<1> QED
  BY <1>1, <1>2, <1>4, <1>5, CallHandsOn

\* A step of the client of t.
LEMMA ClientHandsOn ==
  ASSUME SInv, NEW d \in Doc, OneWriter(d), RInv(d), NEW t \in Task, UNCHANGED <<db, born, writes>>,
         DataHandedOn(t, d), CallsHandedOn(t, d), t \in Writer[d] => ~Saved(t, d),
         ~Writes(t, d)', ~Saved(t, d)'
  PROVE  RInv(d)'
<1>1. HandsOn(t, d)
  BY DEF HandsOn, SInv, TypeOK
<1> QED
  BY <1>1, HandingOnKeeps

LEMMA LookUpHandsOn ==
  ASSUME SInv, NEW d \in Doc, OneWriter(d), RInv(d),
         NEW t \in Task, NEW phase \in {"nested", "lookup", "pull"},
         NEW ids \in SUBSET Doc, NEW revs \in [Doc -> Nat],
         LookUp(t, phase, ids, revs, Sharers(t)), ~Served(t, "update"),
         UNCHANGED <<db, born, writes>>,
         phase = "nested" /\ d \in ids =>
           (Hit(Party[t], d, revs[d]) => call[t].floor[d] <= cache[Party[t]][d].val)
  PROVE  RInv(d)'
<1> DEFINE c == Party[t]
           hit == {e \in ids : Hit(c, e, revs[e])}
           found == [e \in Doc |-> IF e \in hit THEN cache[c][e] ELSE None]
           scope == IF phase = "nested" THEN Doc ELSE ids
           answer == [e \in scope |-> found[e]]
<1>1. c \in Client /\ cache[c] \in Docs /\ cache[c][d] \in Pool(t, d) /\ None \in Pool(t, d)
  BY StoreAssumption DEF SInv, TypeOK, Pool, Known
<1>2. found \in Docs /\ scope \in SUBSET Doc
      /\ answer \in [scope -> Record \cup {None}]
  BY <1>1 DEF Docs
<1>3. /\ hit = ids => InsertAndAnswer(c, NoDocs, Sharers(t), answer) /\ call' = Done(Sharers(t))
      /\ hit # ids => Asks(t, phase, ids \ hit, found) /\ UNCHANGED <<cache, stuck, live, held, alias>>
  BY DEF LookUp
<1>4. found[d] \in Pool(t, d) /\ NoDocs[d] \in Pool(t, d)
  BY <1>1, NoDocsIsDocs
<1>5. d \in scope => answer[d] \in Pool(t, d)
  BY <1>2, <1>4
<1>6. phase = "nested" => found[d] = None \/ call[t].floor[d] <= found[d].val
  OBVIOUS
<1>7. ~Saved(t, d)
  BY DEF Saved
<1>8. CASE hit = ids
  <2>1. Sharers(t) \in SUBSET Task /\ NoDocs \in Docs /\ \A u \in Sharers(t) : Party[u] = Party[t]
    BY NoDocsIsDocs, SharersOf DEF Sharers
  <2>2. InsertAndAnswer(Party[t], NoDocs, Sharers(t), answer) /\ call' = Done(Sharers(t))
    BY <1>3, <1>8
  <2> DEFINE T == Sharers(t)
  <2> HIDE DEF c, hit, found, scope, answer
  <2>3. /\ NoDocs \in Docs /\ T \in SUBSET Task /\ scope \in SUBSET Doc
        /\ answer \in [scope -> Record \cup {None}] /\ InsertAndAnswer(Party[t], NoDocs, T, answer)
        /\ NoDocs[d] \in Pool(t, d) /\ (d \in scope => answer[d] \in Pool(t, d))
        /\ \A u \in T : Party[u] = Party[t]
    BY <1>2, <1>4, <1>5, <2>1, <2>2
  <2> HIDE DEF T
  <2>4. DataHandedOn(t, d)
    BY <2>3, InsertHandsOn
  <2>5. CallsHandedOn(t, d) /\ ~Writes(t, d)' /\ ~Saved(t, d)'
    BY <2>2, DoneHandsOn
  <2> QED
    BY <1>7, <2>4, <2>5, ClientHandsOn
<1>9. CASE hit # ids
  <2>1. Asks(t, phase, ids \ hit, found) /\ UNCHANGED <<cache, held>> /\ ids \ hit \in SUBSET Doc
    BY <1>3, <1>9
  <2> HIDE DEF c, hit, found, scope, answer
  <2>2. CallsHandedOn(t, d) /\ ~Writes(t, d)' /\ ~Saved(t, d)'
    BY <1>2, <1>4, <1>6, <2>1, AsksHandsOn
  <2>3. DataHandedOn(t, d)
    BY <2>1 DEF DataHandedOn
  <2> QED
    BY <1>7, <2>2, <2>3, ClientHandsOn
<1> QED
  BY <1>8, <1>9

LEMMA OneCallHandsOn ==
  ASSUME SInv, NEW d \in Doc, OneWriter(d), RInv(d), NEW t \in Task, ~Served(t, "update"),
         NEW rec \in Call, call' = [call EXCEPT ![t] = rec],
         rec.reply[d] \in Pool(t, d), rec.hits[d] \in Pool(t, d),
         rec.phase \notin {"create", "update"}, CurrentCall(rec, db, d),
         db'[d] \in {db[d], None}, UNCHANGED <<born, writes, cache, held>>
  PROVE  RInv(d)'
<1>1. CallsHandedOn(t, d) /\ ~Writes(t, d)' /\ ~Saved(t, d)'
  BY CallHandsOn
<1>2. DataHandedOn(t, d)
  BY DEF DataHandedOn
<1>3. HandsOn(t, d)
  BY <1>1, <1>2 DEF HandsOn, SInv, TypeOK
<1> QED
  BY <1>1, <1>3, HandingOnKeeps DEF Saved

\* What the backend has goes to a task that only reads, or removes.
LEMMA AnsweredHandsOn ==
  ASSUME SInv, NEW d \in Doc, OneWriter(d), RInv(d), NEW t \in Task, call[t].wire = "asked",
         call[t].phase \notin {"create", "update"},
         NEW docs \in Docs, NEW gone \in BOOLEAN, Answered(t, docs, gone),
         docs[d] \in {db[d], None}, db'[d] \in {db[d], None}, UNCHANGED <<born, writes, cache, held>>
  PROVE  RInv(d)'
<1> DEFINE rec == AnsweredWith(t, docs, gone)
<1> HIDE DEF rec
<1>1. /\ call' = [call EXCEPT ![t] = rec] /\ rec \in Call
      /\ rec.wire = "served" /\ rec.reply = docs
      /\ rec.phase = call[t].phase
      /\ rec.hits = call[t].hits /\ rec.floor = call[t].floor
  BY AnsweredCall DEF rec
<1>2. rec.reply[d] \in Pool(t, d) /\ rec.hits[d] \in Pool(t, d)
  BY <1>1 DEF Pool, Known
<1>3. CurrentCall(call[t], db, d)
  BY DEF RInv, FindsAreCurrent
<1>4. CurrentCall(rec, db, d)
  BY <1>1, <1>3 DEF CurrentCall
<1>5. ~Served(t, "update") /\ rec.phase \notin {"create", "update"}
  BY <1>1 DEF Served
<1> QED
  BY <1>1, <1>2, <1>4, <1>5, OneCallHandsOn

LEMMA FindHandsOn ==
  ASSUME SInv, NEW d \in Doc, OneWriter(d), RInv(d), NEW t \in Task, Find(t)
  PROVE  RInv(d)'
<1>1. /\ call[t] = NoCall /\ UNCHANGED <<db, born, writes, cache, held>> /\ ~Served(t, "update")
      /\ db'[d] \in {db[d], None}
  BY FindCall, NoDocsIsDocs DEF Served
<1>2. NoDocs[d] \in Pool(t, d)
  BY NoDocsIsDocs DEF Pool
<1>3. ASSUME NEW l \in Task,
             call' = [call EXCEPT ![t] = [NoCall EXCEPT !.phase = "join", !.leader = l,
                                                       !.floor = call[l].floor]]
      PROVE  RInv(d)'
  <2> DEFINE rec == [NoCall EXCEPT !.phase = "join", !.leader = l, !.floor = call[l].floor]
  <2>1. call[l].floor \in [Doc -> Nat]
    BY DEF SInv, TypeOK, Call
  <2>2. rec \in Call /\ rec.phase = "join" /\ rec.floor = call[l].floor
        /\ rec.reply = NoDocs /\ rec.hits = NoDocs
    BY <2>1, NoDocsIsDocs DEF Call, Phase
  <2>3. CurrentCall(call[l], db, d)
    BY DEF RInv, FindsAreCurrent
  <2>4. CurrentCall(rec, db, d)
    BY <2>2, <2>3 DEF CurrentCall
  <2>5. call' = [call EXCEPT ![t] = rec]
    BY <1>3
  <2> HIDE DEF rec
  <2> QED
    BY <1>1, <1>2, <2>2, <2>4, <2>5, OneCallHandsOn
<1>4. ASSUME call' = [call EXCEPT ![t] = [NoCall EXCEPT !.phase = "find", !.wire = "asked",
                                                       !.floor = Present]]
      PROVE  RInv(d)'
  <2> DEFINE rec == [NoCall EXCEPT !.phase = "find", !.wire = "asked", !.floor = Present]
  <2>1. rec \in Call /\ rec.phase = "find" /\ rec.floor = Present /\ rec.wire = "asked"
        /\ rec.reply = NoDocs /\ rec.hits = NoDocs
    BY PresentType, NoDocsIsDocs DEF Call, Phase
  <2>2. db[d] # None => Present[d] <= db[d].val
    BY PresentType
  <2>3. CurrentCall(rec, db, d)
    BY <2>1, <2>2 DEF CurrentCall
  <2>4. call' = [call EXCEPT ![t] = rec]
    BY <1>4
  <2> HIDE DEF rec
  <2> QED
    BY <1>1, <1>2, <2>1, <2>3, <2>4, OneCallHandsOn
<1> QED
  BY <1>3, <1>4, FindCall

LEMMA RemoveHandsOn ==
  ASSUME SInv, NEW d \in Doc, OneWriter(d), RInv(d), NEW t \in Task, NEW e \in Doc, Remove(t, e)
  PROVE  RInv(d)'
<1> DEFINE rec == [NoCall EXCEPT !.phase = "remove", !.wire = "asked", !.want = {e}]
<1>1. call[t] = NoCall /\ call \in [Task -> Call]
  BY DEF Remove, SInv, TypeOK, CallsFit
<1>2. /\ rec \in Call /\ rec.phase = "remove" /\ rec.floor = NoCall.floor
      /\ rec.wire = "asked" /\ rec.reply = NoDocs /\ rec.hits = NoDocs
  BY NoDocsIsDocs DEF Call, Phase
<1>3. call' = [call EXCEPT ![t] = rec]
  <2> HIDE DEF NoCall
  <2>1. call' = [call EXCEPT ![t].phase = "remove", ![t].wire = "asked", ![t].want = {e}]
    BY DEF Remove
  <2> QED
    BY <1>1, <2>1
<1>4. /\ UNCHANGED <<db, born, writes, cache, held>> /\ ~Served(t, "update")
      /\ db'[d] \in {db[d], None}
  BY <1>1, NoDocsIsDocs DEF Remove, Served
<1>5. CurrentCall(rec, db, d)
  BY <1>2, NoCallIsCurrent DEF CurrentCall
<1>6. rec.reply[d] \in Pool(t, d) /\ rec.hits[d] \in Pool(t, d)
  BY <1>2, NoDocsIsDocs DEF Pool
<1> HIDE DEF rec
<1> QED
  BY <1>2, <1>3, <1>4, <1>5, <1>6, OneCallHandsOn

LEMMA ServeHandsOn ==
  ASSUME SInv, NEW d \in Doc, OneWriter(d), RInv(d), NEW t \in Task, ServeFind(t) \/ ServeRemove(t)
  PROVE  RInv(d)'
<1>1. CASE ServeFind(t)
  <2>1. PICK docs \in Docs :
          /\ Answered(t, docs, FALSE) /\ call[t].wire = "asked"
          /\ call[t].phase \in {"find", "nested", "lookup", "pull"}
          /\ UNCHANGED <<db, born, writes, cache, stuck, live, held, alias>>
          /\ \A e \in Doc : docs[e] \in {db[e], None}
    BY <1>1, ServeFindAnswer
  <2>2. /\ FALSE \in BOOLEAN /\ docs[d] \in {db[d], None} /\ db'[d] \in {db[d], None}
        /\ UNCHANGED <<born, writes, cache, held>> /\ call[t].phase \notin {"create", "update"}
    BY <2>1
  <2> QED
    BY <2>1, <2>2, AnsweredHandsOn
<1>2. CASE ServeRemove(t)
  <2>1. PICK e \in Doc, gone \in BOOLEAN :
          /\ Asking(t, "remove") /\ UNCHANGED <<born, writes, cache, stuck, live, held, alias>>
          /\ db' = [db EXCEPT ![e] = None] /\ db' \in Docs /\ Answered(t, NoDocs, gone)
    BY <1>2, ServeRemoveAnswer
  <2>2. db'[d] \in {db[d], None}
    BY <2>1 DEF SInv, TypeOK, Docs
  <2>3. /\ call[t].wire = "asked" /\ call[t].phase \notin {"create", "update"}
        /\ NoDocs \in Docs /\ NoDocs[d] \in {db[d], None}
        /\ UNCHANGED <<born, writes, cache, held>>
    BY <2>1, NoDocsIsDocs DEF Asking
  <2> QED
    BY <2>1, <2>2, <2>3, AnsweredHandsOn
<1> QED
  BY <1>1, <1>2

LEMMA FetchHandsOn ==
  ASSUME SInv, NEW d \in Doc, OneWriter(d), RInv(d), NEW t \in Task, NEW e \in Doc,
         Fetch(t, e) \/ Pull(t, e)
  PROVE  RInv(d)'
<1>1. PICK phase \in {"lookup", "pull"} : LookUp(t, phase, {e}, [f \in Doc |-> 0], {t})
  BY DEF Fetch, Pull
<1>2. call[t].phase = "idle" /\ UNCHANGED <<db, born, writes>> /\ ~Served(t, "update")
  BY DEF Fetch, Pull, Idle, Served
<1>3. Sharers(t) = {t} /\ {e} \in SUBSET Doc /\ [f \in Doc |-> 0] \in [Doc -> Nat]
  BY <1>2, LoneSharer DEF SInv
<1> QED
  BY <1>1, <1>2, <1>3, LookUpHandsOn

LEMMA HandleWatchMsgHandsOn ==
  ASSUME SInv, NEW d \in Doc, OneWriter(d), RInv(d), NEW t \in Task, NEW e \in Doc, HandleWatchMsg(t, e)
  PROVE  RInv(d)'
<1>1. call[t].phase = "idle" /\ UNCHANGED <<db, born, writes>> /\ Party[t] \in Client
      /\ ~Served(t, "update") /\ ~Saved(t, d)
  BY StoreAssumption DEF HandleWatchMsg, Idle, Served, Saved
<1>2. CASE AfterRemove(Party[t], e) # None
  <2>1. Sharers(t) = {t} /\ {e} \in SUBSET Doc /\ [f \in Doc |-> 0] \in [Doc -> Nat]
    BY <1>1, LoneSharer DEF SInv
  <2>2. LookUp(t, "pull", {e}, [f \in Doc |-> 0], {t})
    BY <1>2 DEF HandleWatchMsg
  <2> QED
    BY <1>1, <2>1, <2>2, LookUpHandsOn
<1>3. CASE AfterRemove(Party[t], e) = None
  <2>1. /\ cache' = [cache EXCEPT ![Party[t]][e] = None]
        /\ Asks(t, "pull", {e}, NoDocs) /\ held' = held
    BY <1>3 DEF HandleWatchMsg, Removed
  <2>2. {e} \in SUBSET Doc /\ NoDocs \in Docs /\ NoDocs[d] \in Pool(t, d)
    BY NoDocsIsDocs DEF Pool
  <2>3. CallsHandedOn(t, d) /\ ~Writes(t, d)' /\ ~Saved(t, d)'
    BY <2>1, <2>2, AsksHandsOn
  <2>4. None \in Pool(t, d)
    BY DEF Pool
  <2>5. \A c \in Client : cache'[c][d] = cache[c][d] \/ (c = Party[t] /\ cache'[c][d] = None)
    BY <1>1, <2>1 DEF SInv, TypeOK, Docs
  <2>6. DataHandedOn(t, d)
    BY <2>1, <2>4, <2>5 DEF DataHandedOn
  <2> QED
    BY <1>1, <2>3, <2>6, ClientHandsOn
<1> QED
  BY <1>2, <1>3

\* The cache has, under the revision of a header, what the header is of: it is as
\* new as the find must know.
LEMMA HitIsCurrent ==
  ASSUME SInv, NEW d \in Doc, RInv(d), NEW t \in Task, Served(t, "find"),
         call[t].reply[d] # None, Hit(Party[t], d, call[t].reply[d].rev)
  PROVE  call[t].floor[d] <= cache[Party[t]][d].val
<1>1. Party[t] \in Client
  BY StoreAssumption
<1>2. call[t].reply[d] \in Copies(d) /\ call[t].reply[d].rev > 0
  BY CopiesAreRecords DEF RInv, InOrder
<1>3. cache[Party[t]][d] \in Copies(d) /\ cache[Party[t]][d].rev = call[t].reply[d].rev
  BY <1>1, <1>2, CopiesAreRecords DEF Hit
<1>4. call[t].floor[d] \in Nat /\ call[t].reply[d].val \in Nat /\ cache[Party[t]][d].val \in Nat
      /\ call[t].reply[d].rev \in Nat
  BY <1>2, <1>3, CopiesAreRecords DEF SInv, TypeOK, Call
<1>5. call[t].reply[d].val <= cache[Party[t]][d].val
  BY <1>2, <1>3, <1>4 DEF RInv, InOrder
<1>6. call[t].floor[d] <= call[t].reply[d].val
  BY DEF RInv, FindsAreCurrent, CurrentCall, Served
<1> QED
  BY <1>4, <1>5, <1>6

LEMMA GetHeadersHandsOn ==
  ASSUME SInv, NEW d \in Doc, OneWriter(d), RInv(d), NEW t \in Task, GetHeaders(t)
  PROVE  RInv(d)'
<1> DEFINE headers == {e \in Doc : call[t].reply[e] # None}
           revs == [e \in Doc |-> IF e \in headers THEN call[t].reply[e].rev ELSE 0]
<1>1. Served(t, "find") /\ UNCHANGED <<db, born, writes>> /\ LookUp(t, "nested", headers, revs, Sharers(t))
  BY DEF GetHeaders, Served
<1>2. headers \in SUBSET Doc /\ revs \in [Doc -> Nat]
  BY DEF SInv, TypeOK, Call, Docs, Record
<1>3. d \in headers /\ Hit(Party[t], d, revs[d]) => call[t].floor[d] <= cache[Party[t]][d].val
  BY <1>1, HitIsCurrent
<1>4. ~Served(t, "update")
  BY <1>1 DEF Served
<1> HIDE DEF headers, revs
<1> QED
  BY <1>1, <1>2, <1>3, <1>4, LookUpHandsOn

LEMMA GetDocsHandsOn ==
  ASSUME SInv, NEW d \in Doc, OneWriter(d), RInv(d), NEW t \in Task, GetDocs(t)
  PROVE  RInv(d)'
<1> DEFINE msgs == call[t].reply
           answer == Answer(t)
           D == Scope(t)
           T == Sharers(t)
<1>1. /\ T \in SUBSET Task /\ msgs \in Docs /\ D \in SUBSET Doc
      /\ answer \in [D -> Record \cup {None}] /\ InsertAndAnswer(Party[t], msgs, T, answer)
      /\ call' = Done(Sharers(t)) /\ UNCHANGED <<db, born, writes>>
  BY GetDocsAnswer
<1>2. call[t].reply[d] \in Pool(t, d) /\ call[t].hits[d] \in Pool(t, d)
  BY DEF Pool, Known
<1>3. d \in D => answer[d] \in Pool(t, d)
  BY <1>2 DEF Answer
<1>4. \A u \in T : Party[u] = Party[t]
  BY SharersOf
<1>5. ~Saved(t, d)
  BY DEF GetDocs, Saved, Served
<1>6. msgs[d] \in Pool(t, d)
  BY <1>2
<1>7. CallsHandedOn(t, d) /\ ~Writes(t, d)' /\ ~Saved(t, d)'
  BY <1>1, DoneHandsOn
<1> HIDE DEF msgs, answer, D, T
<1>8. DataHandedOn(t, d)
  BY <1>1, <1>3, <1>4, <1>6, InsertHandsOn
<1> QED
  BY <1>1, <1>5, <1>7, <1>8, ClientHandsOn

LEMMA GetCreatedHandsOn ==
  ASSUME SInv, NEW d \in Doc, OneWriter(d), RInv(d), NEW t \in Task, GetCreated(t)
  PROVE  RInv(d)'
<1> DEFINE msgs == call[t].reply
           D == call[t].want
           answer == [e \in D |-> msgs[e]]
           T == {t}
<1>1. /\ T \in SUBSET Task /\ msgs \in Docs /\ D \in SUBSET Doc
      /\ answer \in [D -> Record \cup {None}]
  BY DEF SInv, TypeOK, Call, Docs
<1>2. InsertAndAnswer(Party[t], msgs, T, answer) /\ call' = Done({t})
      /\ UNCHANGED <<db, born, writes>> /\ call[t].phase = "create"
  BY DEF GetCreated
<1>3. msgs[d] \in Pool(t, d) /\ (d \in D => answer[d] \in Pool(t, d)) /\ \A u \in T : Party[u] = Party[t]
  BY DEF Pool, Known
<1>4. Sharers(t) = {t} /\ ~Saved(t, d)
  BY <1>2, LoneSharer DEF SInv, Saved, Served
<1>5. CallsHandedOn(t, d) /\ ~Writes(t, d)' /\ ~Saved(t, d)'
  BY <1>2, <1>4, DoneHandsOn
<1> HIDE DEF msgs, answer, D, T
<1>6. DataHandedOn(t, d)
  BY <1>1, <1>2, <1>3, InsertHandsOn
<1> QED
  BY <1>2, <1>4, <1>5, <1>6, ClientHandsOn

LEMMA PullSavedHandsOn ==
  ASSUME SInv, NEW d \in Doc, OneWriter(d), RInv(d), NEW t \in Task, PullSaved(t)
  PROVE  RInv(d)'
<1>1. call[t].phase = "update" /\ UNCHANGED <<db, born, writes>> /\ ~Served(t, "update")
      /\ LookUp(t, "pull", call[t].want, [e \in Doc |-> 0], {t})
  BY DEF PullSaved, Served
<1>2. Sharers(t) = {t} /\ call[t].want \in SUBSET Doc /\ [e \in Doc |-> 0] \in [Doc -> Nat]
  BY <1>1, LoneSharer DEF SInv, TypeOK, Call
<1> QED
  BY <1>1, <1>2, LookUpHandsOn

LEMMA GetRemovedHandsOn ==
  ASSUME SInv, NEW d \in Doc, OneWriter(d), RInv(d), NEW t \in Task, GetRemoved(t)
  PROVE  RInv(d)'
<1>1. call[t].phase = "remove" /\ UNCHANGED <<db, born, writes>> /\ call' = Done({t})
  BY DEF GetRemoved
<1>2. Sharers(t) = {t} /\ ~Saved(t, d)
  BY <1>1, LoneSharer DEF SInv, Saved, Served
<1>3. None \in Pool(t, d)
  BY DEF Pool
<1>4. \A c \in Client : cache'[c][d] = cache[c][d] \/ (c = Party[t] /\ cache'[c][d] = None)
  BY GetRemovedRestFits
<1>5. \A u \in Task : held'[u][d] = held[u][d] \/ (u = t /\ held'[u][d] = None)
  BY GetRemovedRestFits
<1>6. DataHandedOn(t, d)
  BY <1>3, <1>4, <1>5 DEF DataHandedOn
<1>7. CallsHandedOn(t, d) /\ ~Writes(t, d)' /\ ~Saved(t, d)'
  BY <1>1, <1>2, DoneHandsOn
<1> QED
  BY <1>1, <1>2, <1>6, <1>7, ClientHandsOn

-----------------------------------------------------------------------------
(* A document with one writer: the steps of writers *)

LEMMA LoneWriter ==
  ASSUME NEW d \in Doc, OneWriter(d), NEW t \in Writer[d]
  PROVE  Writer[d] = {t} /\ t \in Task /\ Party[t] \in Client /\ Party[t] \notin Hydrated /\ Backend # "zango"
  BY StoreAssumption DEF OneWriter

\* The writer of d asks, in call k, for d to be what is newer than all copies.
LEMMA WritingKeeps ==
  ASSUME SInv, NEW d \in Doc, OneWriter(d), RInv(d), NEW t \in Writer[d], NEW k \in Call,
         call[t] = NoCall, call' = [call EXCEPT ![t] = k],
         k.wire = "asked", k.want = {d}, k.reply = NoDocs, k.hits = NoDocs, k.floor = NoCall.floor,
         k.phase \in {"create", "update"}, k.arg \in Record, k.arg.rev > 0, k.arg.val = writes',
         writes' = writes + 1, born \subseteq born', d \in born', UNCHANGED <<db, cache, held>>,
         k.phase = "create" => Copies(d) = {},
         k.phase = "update" => \A s \in Copies(d) : s.rev <= k.arg.rev
  PROVE  RInv(d)'
<1>1. t \in Task /\ Writer[d] = {t}
  BY LoneWriter
<1>2. /\ call'[t] = k /\ \A u \in Task \ {t} : call'[u] = call[u]
  BY <1>1, OneCall DEF SInv
<1>3. writes \in Nat /\ writes' \in Nat /\ writes <= writes'
  BY DEF SInv, TypeOK
<1>4. CurrentCall(call'[t], db, d)
  BY <1>2, NoCallIsCurrent DEF CurrentCall
<1>5. call'[t].reply[d] = None /\ call'[t].hits[d] = None
  BY <1>2, NoDocsIsDocs
<1>6. HandsOn(t, d)
  BY <1>2, <1>3, <1>4, <1>5 DEF Pool, HandsOn, DataHandedOn, CallsHandedOn
<1>7. /\ Copies(d)' \subseteq Copies(d)
      /\ InOrder(d)' /\ FindsAreCurrent(d)'
      /\ db'[d] # None => Newest(db[d], d)'
      /\ d \notin born' => Copies(d)' = {}
  BY <1>1, <1>6, HandingOnOrders
<1>8. ~Served(t, "update") /\ ~Served(t, "update")'
  BY <1>2, NoDocsIsDocs DEF Served
<1>9. \A r \in Known(t, d) : Newest(r, d)
  BY <1>8 DEF RInv, WritesNewest
<1>10. Known(t, d)' \subseteq Known(t, d)
  BY <1>5 DEF Known
<1>11. \A r \in Known(t, d)' : Newest(r, d)'
  BY <1>7, <1>9, <1>10 DEF Newest
<1>12. k.phase = "update" => \A s \in Copies(d)' : s.rev <= k.arg.rev /\ s.val <= k.arg.val
  BY <1>7 DEF InOrder
<1>13. WritesNewest(d)'
  <2> SUFFICES
        /\ d \in call'[t].want /\ (Asking(t, "create")' \/ Asking(t, "update")') =>
             d \in born' /\ call'[t].arg.rev > 0 /\ call'[t].arg.val <= writes'
        /\ d \in call'[t].want /\ Asking(t, "create")' => Copies(d)' = {}
        /\ d \in call'[t].want /\ Asking(t, "update")' => Newest(call[t].arg, d)'
        /\ Served(t, "update")' /\ call'[t].reply[d] # None =>
             d \in call'[t].want /\ Newest(call[t].reply[d], d)'
        /\ ~Served(t, "update")' \/ call'[t].reply[d] = None =>
             \A r \in Known(t, d)' : Newest(r, d)'
    BY <1>1 DEF WritesNewest
  <2>1. d \in born' /\ call'[t].arg.rev > 0 /\ call'[t].arg.val <= writes'
    BY <1>2, <1>3
  <2>2. Asking(t, "create")' => Copies(d)' = {}
    BY <1>2, <1>7 DEF Asking
  <2>3. Asking(t, "update")' => Newest(call[t].arg, d)'
    BY <1>2, <1>12 DEF Asking, Newest
  <2> QED
    BY <1>8, <1>11, <2>1, <2>2, <2>3
<1> QED
  BY <1>7, <1>13 DEF RInv

\* A task asks, in call k, for another document to be written.
LEMMA OtherWriteHandsOn ==
  ASSUME SInv, NEW d \in Doc, OneWriter(d), RInv(d), NEW t \in Task, NEW k \in Call,
         call[t] = NoCall, call' = [call EXCEPT ![t] = k],
         k.wire = "asked", d \notin k.want, k.reply = NoDocs, k.hits = NoDocs, k.floor = NoCall.floor,
         k.phase \in {"create", "update"}, writes' = writes + 1, born \subseteq born', db' = db,
         \A c \in Client : cache'[c][d] = cache[c][d], \A u \in Task : held'[u][d] = held[u][d]
  PROVE  RInv(d)'
<1>1. k.reply[d] \in Pool(t, d) /\ k.hits[d] \in Pool(t, d)
  BY NoDocsIsDocs DEF Pool
<1>2. CurrentCall(k, db, d)
  BY NoCallIsCurrent DEF CurrentCall
<1>3. CallsHandedOn(t, d) /\ ~Writes(t, d)' /\ ~Saved(t, d)'
  BY <1>1, <1>2, CallHandsOn
<1>4. writes' \in Nat /\ writes <= writes'
  BY DEF SInv, TypeOK
<1>5. HandsOn(t, d) /\ ~Saved(t, d)
  BY <1>3, <1>4, NoDocsIsDocs DEF HandsOn, DataHandedOn, Saved, Served
<1> QED
  BY <1>3, <1>5, HandingOnKeeps

LEMMA CreateWrites ==
  ASSUME SInv, NEW d \in Doc, OneWriter(d), RInv(d), NEW t \in Task, NEW e \in Doc, Create(t, e)
  PROVE  RInv(d)'
<1> DEFINE rec == CreatedWith(e, writes + 1)
<1> HIDE DEF rec
<1>1. /\ call[t] = NoCall /\ call' = [call EXCEPT ![t] = rec] /\ rec \in Call
      /\ rec.phase = "create" /\ rec.wire = "asked" /\ rec.want = {e} /\ rec.arg \in Record
      /\ rec.reply = NoDocs /\ rec.hits = NoDocs /\ rec.floor = NoCall.floor
      /\ writes' = writes + 1
      /\ rec.arg = [rev |-> 1, val |-> writes']
  BY CreateCall DEF rec
<1>2. t \in Writer[e] /\ e \notin born /\ born \subseteq born' /\ e \in born' /\ UNCHANGED <<db, cache, held>>
  BY DEF Create
<1>3. CASE e = d
  <2>1. Copies(d) = {} /\ rec.arg.rev > 0 /\ rec.arg.val = writes'
    BY <1>1, <1>2, <1>3 DEF RInv
  <2> QED
    BY <1>1, <1>2, <1>3, <2>1, WritingKeeps
<1>4. CASE e # d
  BY <1>1, <1>2, <1>4, OtherWriteHandsOn
<1> QED
  BY <1>3, <1>4

\* An edit is of the object in the cache too, but of no other document, and of
\* none whose writer has no IDocuments.
LEMMA UpdateEdits ==
  ASSUME SInv, NEW t \in Task, NEW e \in Doc, Update(t, e)
  PROVE  /\ db' = db /\ born' = born
         /\ \A d \in Doc : e # d => /\ \A c \in Client : cache'[c][d] = cache[c][d]
                                    /\ \A u \in Task : held'[u][d] = held[u][d]
         /\ Party[t] \notin Hydrated => UNCHANGED <<cache, held>>
<1>1. db' = db /\ born' = born
  BY DEF Update
<1>2. Party[t] \in Client /\ cache \in [Client -> Docs] /\ held \in [Task -> Docs]
  BY StoreAssumption DEF SInv, TypeOK
<1>3. CASE <<t, e>> \in alias
  <2> DEFINE same == {x \in alias : x[2] = e /\ Party[x[1]] = Party[t]}
  <2>1. /\ cache' = [cache EXCEPT ![Party[t]][e] = Edited(@)]
        /\ held' = [s \in Task |-> IF <<s, e>> \in same THEN [held[s] EXCEPT ![e] = Edited(@)] ELSE held[s]]
    BY <1>3 DEF Update
  <2>2. Party[t] \in Hydrated
    BY <1>3 DEF SInv, PlainApart
  <2> HIDE DEF same
  <2>3. ASSUME NEW d \in Doc, e # d PROVE \A c \in Client : cache'[c][d] = cache[c][d]
    BY <1>2, <2>1, <2>3 DEF Docs
  <2>4. ASSUME NEW d \in Doc, e # d, NEW u \in Task PROVE held'[u][d] = held[u][d]
    BY <1>2, <2>1, <2>4 DEF Docs
  <2> QED
    BY <1>1, <2>2, <2>3, <2>4
<1>4. CASE <<t, e>> \notin alias
  <2>1. /\ cache' = cache
        /\ held' = IF Party[t] \in Hydrated THEN [held EXCEPT ![t][e] = Edited(@)] ELSE held
    BY <1>4 DEF Update
  <2>2. ASSUME NEW d \in Doc, e # d, NEW u \in Task PROVE held'[u][d] = held[u][d]
    BY <1>2, <2>1, <2>2 DEF Docs
  <2> QED
    BY <1>1, <2>1, <2>2
<1> QED
  BY <1>3, <1>4

LEMMA UpdateWrites ==
  ASSUME SInv, NEW d \in Doc, OneWriter(d), RInv(d), NEW t \in Task, NEW e \in Doc, Update(t, e)
  PROVE  RInv(d)'
<1> DEFINE rec == UpdatedWith(t, e, writes + 1)
<1> HIDE DEF rec
<1>1. /\ call[t] = NoCall /\ call' = [call EXCEPT ![t] = rec] /\ rec \in Call
      /\ rec.phase = "update" /\ rec.wire = "asked" /\ rec.want = {e} /\ rec.arg \in Record
      /\ rec.reply = NoDocs /\ rec.hits = NoDocs /\ rec.floor = NoCall.floor
      /\ writes' = writes + 1
      /\ held[t][e] \in Record /\ rec.arg.rev = held[t][e].rev /\ rec.arg.val = writes'
  BY UpdateCall DEF rec
<1>2. t \in Writer[e] /\ db' = db /\ born' = born
  BY UpdateEdits DEF Update
<1>3. CASE e = d
  <2>1. UNCHANGED <<cache, held>>
    BY <1>2, <1>3, LoneWriter, UpdateEdits
  <2>2. ~Served(t, "update") /\ held[t][d] # None
    BY <1>1, <1>3, NoDocsIsDocs DEF Served
  <2>3. Newest(held[t][d], d) /\ held[t][d] \in Copies(d)
    BY <1>2, <1>3, <2>2, CopiesAreRecords DEF Known, RInv, WritesNewest
  <2>4. \A s \in Copies(d) : s.rev <= rec.arg.rev
    BY <1>1, <1>3, <2>3 DEF Newest
  <2>5. rec.arg.rev > 0
    BY <1>1, <1>3, <2>3 DEF RInv, InOrder
  <2>6. d \in born'
    BY <1>2, <2>3 DEF RInv
  <2> QED
    BY <1>1, <1>2, <1>3, <2>1, <2>4, <2>5, <2>6, WritingKeeps
<1>4. CASE e # d
  <2>1. /\ \A c \in Client : cache'[c][d] = cache[c][d]
        /\ \A u \in Task : held'[u][d] = held[u][d]
    BY <1>4, UpdateEdits
  <2> QED
    BY <1>1, <1>2, <1>4, <2>1, OtherWriteHandsOn
<1> QED
  BY <1>3, <1>4

\* The backend makes n the newest copy of d, for its writer t in call k.
LEMMA NewCopyKeeps ==
  ASSUME SInv, NEW d \in Doc, OneWriter(d), RInv(d), NEW t \in Writer[d], NEW k \in Call, NEW n \in Record,
         call' = [call EXCEPT ![t] = k],
         k.phase \in {"create", "update"}, k.wire = "served", k.want = {d}, k.hits = NoDocs,
         k.reply[d] = n, k.floor = call[t].floor, db'[d] \in {n, None},
         UNCHANGED <<born, writes, cache, held>>, d \in born,
         n.val <= writes, n.rev > 0, \A s \in Copies(d) : s.rev < n.rev /\ s.val <= n.val,
         k.phase = "create" => Copies(d) = {},
         \A u \in Task : db'[d] # None => call[u].floor[d] <= n.val
  PROVE  RInv(d)'
<1>1. t \in Task /\ Writer[d] = {t} /\ Party[t] \in Client /\ n # None /\ n.rev \in Nat /\ n.val \in Nat
  BY LoneWriter, NoDocsIsDocs DEF Record
<1>2. /\ call'[t] = k /\ \A u \in Task \ {t} : call'[u] = call[u]
  BY <1>1, OneCall DEF SInv
<1>3. k.hits[d] = None
  BY NoDocsIsDocs
<1>4. Copies(d)' \subseteq Copies(d) \cup {n}
  <2> DEFINE S == Copies(d) \cup {n, None}
  <2>1. db'[d] \in S /\ (\A c \in Client : cache'[c][d] \in S)
        /\ \A u \in Task : held'[u][d] \in S /\ call'[u].reply[d] \in S /\ call'[u].hits[d] \in S
    BY <1>2, <1>3, CopiesAreRecords
  <2> HIDE DEF S
  <2>2. Copies(d)' \subseteq S \ {None}
    BY <2>1, CopiesAfter
  <2> QED
    BY <2>2 DEF S
<1>5. \A s \in Copies(d)' : s.rev <= n.rev /\ s.val <= n.val
  BY <1>1, <1>4, CopiesAreRecords
<1>6. InOrder(d)'
  <2>1. \A r \in Copies(d)' : r.rev > 0 /\ r.val <= writes'
    BY <1>4 DEF RInv, InOrder
  <2>2. ASSUME NEW r \in Copies(d)', NEW s \in Copies(d)', r.rev <= s.rev
        PROVE  r.val <= s.val
    <3>1. CASE s = n
      BY <1>5, <3>1
    <3>2. CASE s # n
      <4>1. s \in Copies(d) /\ s.rev \in Nat /\ s.rev < n.rev
        BY <1>4, <3>2, CopiesAreRecords
      <4>2. r # n
        BY <1>1, <2>2, <4>1
      <4> QED
        BY <1>4, <2>2, <4>1, <4>2 DEF RInv, InOrder
    <3> QED
      BY <3>1, <3>2
  <2> QED
    BY <2>1, <2>2 DEF InOrder
<1>7. db'[d] # None => Newest(db[d], d)'
  BY <1>5 DEF Newest
<1>8. FindsAreCurrent(d)'
  <2> SUFFICES ASSUME NEW u \in Task PROVE CurrentCall(call'[u], db', d)
    BY DEF FindsAreCurrent
  <2>1. CurrentCall(call[u], db, d)
    BY DEF RInv, FindsAreCurrent
  <2>2. call'[u].floor = call[u].floor
    BY <1>2
  <2>3. db'[d] # None => call'[u].floor[d] <= db'[d].val
    BY <2>2
  <2>4. CASE u = t
    BY <1>2, <2>3, <2>4 DEF CurrentCall
  <2>5. CASE u # t
    BY <1>2, <2>1, <2>3, <2>5 DEF CurrentCall
  <2> QED
    BY <2>4, <2>5
<1>9. WritesNewest(d)'
  <2> SUFFICES
        /\ d \in call'[t].want /\ (Asking(t, "create")' \/ Asking(t, "update")') =>
             d \in born' /\ call'[t].arg.rev > 0 /\ call'[t].arg.val <= writes'
        /\ d \in call'[t].want /\ Asking(t, "create")' => Copies(d)' = {}
        /\ d \in call'[t].want /\ Asking(t, "update")' => Newest(call[t].arg, d)'
        /\ Served(t, "update")' /\ call'[t].reply[d] # None =>
             d \in call'[t].want /\ Newest(call[t].reply[d], d)'
        /\ ~Served(t, "update")' \/ call'[t].reply[d] = None =>
             \A r \in Known(t, d)' : Newest(r, d)'
    BY <1>1 DEF WritesNewest
  <2>1. ~Asking(t, "create")' /\ ~Asking(t, "update")'
    BY <1>2 DEF Asking
  <2>2. call'[t].reply[d] # None /\ d \in call'[t].want /\ Newest(call[t].reply[d], d)'
    BY <1>1, <1>2, <1>5 DEF Newest
  <2>3. ASSUME ~Served(t, "update")' PROVE \A r \in Known(t, d)' : Newest(r, d)'
    <3>1. Copies(d) = {}
      BY <1>2, <2>3 DEF Served
    <3>2. cache[Party[t]][d] = None /\ held[t][d] = None
      BY <1>1, <3>1, CopiesAreRecords
    <3>3. Known(t, d)' \subseteq {n}
      BY <1>1, <1>2, <1>3, <3>2 DEF Known
    <3> QED
      BY <1>5, <3>3 DEF Newest
  <2> QED
    BY <2>1, <2>2, <2>3
<1> QED
  BY <1>6, <1>7, <1>8, <1>9 DEF RInv

\* The backend answers a create or an update with no copy of d.
LEMMA OtherAnswerHandsOn ==
  ASSUME SInv, NEW d \in Doc, OneWriter(d), RInv(d), NEW t \in Task,
         Asking(t, "create") \/ Asking(t, "update"),
         NEW docs \in Docs, NEW gone \in BOOLEAN, Answered(t, docs, gone),
         docs[d] = None, db'[d] \in {db[d], None}, UNCHANGED <<born, writes, cache, held>>
  PROVE  RInv(d)'
<1> DEFINE rec == AnsweredWith(t, docs, gone)
<1> HIDE DEF rec
<1>1. /\ call' = [call EXCEPT ![t] = rec] /\ rec \in Call
      /\ rec.wire = "served" /\ rec.reply = docs
      /\ rec.phase = call[t].phase /\ rec.hits = call[t].hits /\ rec.floor = call[t].floor
  BY AnsweredCall DEF rec
<1>2. call[t].phase \in {"create", "update"} /\ call[t].hits = NoDocs /\ ~Saved(t, d)
  BY DEF Asking, SInv, CallsFit, Saved, Served
<1>3. CurrentCall(rec, db, d)
  BY <1>1, <1>2 DEF RInv, FindsAreCurrent, CurrentCall
<1>4. rec.reply[d] \in Pool(t, d) /\ rec.hits[d] \in Pool(t, d)
  BY <1>1, <1>2, NoDocsIsDocs DEF Pool
<1>5. CallsHandedOn(t, d) /\ ~Writes(t, d)' /\ ~Saved(t, d)'
  BY <1>1, <1>3, <1>4, CallHandsOn
<1>6. HandsOn(t, d)
  BY <1>5 DEF HandsOn, DataHandedOn, SInv, TypeOK
<1> QED
  BY <1>2, <1>5, <1>6, HandingOnKeeps

LEMMA ServeCreateWrites ==
  ASSUME SInv, NEW d \in Doc, OneWriter(d), RInv(d), NEW t \in Task, ServeCreate(t)
  PROVE  RInv(d)'
<1>1. PICK e \in Doc : call[t].want = {e}
  BY DEF ServeCreate, SInv, CallsFit
<1> DEFINE n == call[t].arg
           docs == [NoDocs EXCEPT ![e] = n]
<1>2. /\ Asking(t, "create") /\ t \in Writer[e] /\ n \in Record /\ e \in born
      /\ UNCHANGED <<born, writes, cache, stuck, live, held, alias>>
      /\ db' = [db EXCEPT ![e] = n] /\ db' \in Docs /\ NeverThere(e)
      /\ docs \in Docs /\ Answered(t, docs, FALSE)
  BY <1>1, ServeCreateAnswer
<1>3. docs[e] = n /\ (e # d => docs[d] = None) /\ db'[e] = n /\ (e # d => db'[d] = db[d])
  BY <1>2, NoDocsIsDocs DEF SInv, TypeOK, Docs
<1> HIDE DEF docs, n
<1>4. PICK gone \in BOOLEAN : Answered(t, docs, gone)
  BY <1>2, Zenon
<1> DEFINE rec == AnsweredWith(t, docs, gone)
<1> HIDE DEF rec
<1>5. /\ call' = [call EXCEPT ![t] = rec] /\ rec \in Call
      /\ rec.wire = "served" /\ rec.reply = docs
      /\ rec.phase = call[t].phase /\ rec.want = call[t].want
      /\ rec.hits = call[t].hits /\ rec.floor = call[t].floor
  BY <1>2, <1>4, AnsweredCall DEF rec
<1>6. call[t].phase = "create" /\ call[t].hits = NoDocs
  BY <1>2 DEF Asking, SInv, CallsFit
<1>7. CASE e = d
  <2>1. Copies(d) = {} /\ n.rev > 0 /\ n.val <= writes
    BY <1>1, <1>2, <1>7 DEF n, RInv, WritesNewest
  <2>2. \A u \in Task : call[u].floor[d] <= n.val
    BY <1>2, <1>7 DEF NeverThere, Record
  <2>3. /\ rec.phase = "create" /\ rec.want = {d} /\ rec.hits = NoDocs /\ rec.reply[d] = n
        /\ db'[d] \in {n, None}
    BY <1>1, <1>3, <1>5, <1>6, <1>7
  <2>4. \A s \in Copies(d) : s.rev < n.rev /\ s.val <= n.val
    BY <2>1
  <2> QED
    BY <1>2, <1>5, <1>7, <2>1, <2>2, <2>3, <2>4, NewCopyKeeps
<1>8. CASE e # d
  <2>1. docs[d] = None /\ db'[d] \in {db[d], None} /\ UNCHANGED <<born, writes, cache, held>>
    BY <1>2, <1>3, <1>8
  <2> QED
    BY <1>2, <1>4, <2>1, OtherAnswerHandsOn
<1> QED
  BY <1>7, <1>8

\* An update counts up the newest revision; what the Db answers to one of what it
\* does not have leaves all as it was.
LEMMA ServeUpdateWrites ==
  ASSUME SInv, NEW d \in Doc, OneWriter(d), RInv(d), NEW t \in Task, ServeUpdate(t)
  PROVE  RInv(d)'
<1>1. PICK e \in Doc : call[t].want = {e}
  BY DEF ServeUpdate, SInv, CallsFit
<1> DEFINE sent == call[t].arg
           n == Updated(e, sent).answer
           stored == Updated(e, sent).stored
           docs == [NoDocs EXCEPT ![e] = n]
<1>2. /\ Asking(t, "update") /\ t \in Writer[e] /\ sent \in Record
      /\ UNCHANGED <<born, writes, cache, held>>
      /\ db' = [db EXCEPT ![e] = stored]
      /\ docs \in Docs /\ Answered(t, docs, FALSE)
  BY <1>1, ServeUpdateAnswer
<1>3. docs[e] = n /\ (e # d => docs[d] = None) /\ db'[e] = stored /\ (e # d => db'[d] = db[d])
  BY <1>2, NoDocsIsDocs DEF SInv, TypeOK, Docs
<1>4. /\ n \in Record \cup {None} /\ stored \in {n, None} /\ (stored # None => db[e] # None)
      /\ Backend # "zango" /\ n # None => n.rev = sent.rev + 1 /\ n.val = sent.val
  <2>1. db \in Docs
    BY DEF SInv, TypeOK
  <2> QED
    BY <1>2, <2>1, UpdatedIs
<1>5. e = d => /\ sent.rev \in Nat /\ sent.val \in Nat /\ sent.rev > 0 /\ sent.val <= writes
               /\ \A s \in Copies(d) : s.rev <= sent.rev /\ s.val <= sent.val
  BY <1>1, <1>2 DEF RInv, WritesNewest, Newest, Record
<1> HIDE DEF docs, n, sent, stored
<1>6. PICK gone \in BOOLEAN : Answered(t, docs, gone)
  BY <1>2, Zenon
<1>7. CASE e # d \/ n = None
  <2>1. docs[d] = None /\ db'[d] \in {db[d], None} /\ UNCHANGED <<born, writes, cache, held>>
    BY <1>2, <1>3, <1>4, <1>7
  <2> QED
    BY <1>2, <1>6, <2>1, OtherAnswerHandsOn
<1>8. CASE e = d /\ n # None
  <2> DEFINE rec == AnsweredWith(t, docs, gone)
  <2> HIDE DEF rec
  <2>1. /\ call' = [call EXCEPT ![t] = rec] /\ rec \in Call
        /\ rec.wire = "served" /\ rec.reply = docs
        /\ rec.phase = call[t].phase /\ rec.want = call[t].want
        /\ rec.hits = call[t].hits /\ rec.floor = call[t].floor
    BY <1>2, <1>6, AnsweredCall DEF rec
  <2>2. /\ rec.phase = "update" /\ rec.want = {d} /\ rec.hits = NoDocs /\ rec.reply[d] = n
        /\ db'[d] \in {n, None} /\ t \in Writer[d]
    BY <1>1, <1>2, <1>3, <1>4, <1>8, <2>1 DEF Asking, SInv, CallsFit
  <2>3. n \in Record /\ n.rev = sent.rev + 1 /\ n.val = sent.val
    BY <1>4, <1>8, <2>2, LoneWriter
  <2>4. n.val <= writes /\ n.rev > 0
    BY <1>5, <1>8, <2>3
  <2>5. \A s \in Copies(d) : s.rev < n.rev /\ s.val <= n.val
    <3>1. \A s \in Copies(d) : s.rev \in Nat
      BY CopiesAreRecords
    <3> QED
      BY <1>5, <1>8, <2>3, <3>1
  <2>6. \A u \in Task : db'[d] # None => call[u].floor[d] <= n.val
    <3> SUFFICES ASSUME NEW u \in Task, db'[d] # None PROVE call[u].floor[d] <= n.val
      OBVIOUS
    <3>1. db[d] # None /\ db[d] \in Copies(d)
      BY <1>3, <1>4, <1>8, CopiesAreRecords
    <3>2. call[u].floor[d] <= db[d].val /\ db[d].val <= n.val
      BY <2>5, <3>1 DEF RInv, FindsAreCurrent, CurrentCall
    <3>3. call[u].floor[d] \in Nat /\ db[d].val \in Nat /\ n.val \in Nat
      BY <2>3, <3>1, CopiesAreRecords DEF SInv, TypeOK, Call, Record
    <3> QED
      BY <3>2, <3>3
  <2>7. d \in born
    BY <1>1, <1>2, <1>8, <2>2 DEF RInv, WritesNewest
  <2> QED
    BY <1>2, <2>1, <2>2, <2>3, <2>4, <2>5, <2>6, <2>7, NewCopyKeeps
<1> QED
  BY <1>7, <1>8

\* The answer replaces all that the writer knew of the document.
LEMMA GetUpdatedWrites ==
  ASSUME SInv, NEW d \in Doc, OneWriter(d), RInv(d), NEW t \in Task, GetUpdated(t)
  PROVE  RInv(d)'
<1>1. PICK e \in Doc : call[t].want = {e}
  BY DEF GetUpdated, SInv, CallsFit
<1> DEFINE c == Party[t]
           msgs == call[t].reply
           D == Kept(t, e)
           T == {t}
           answer == [f \in D |-> msgs[e]]
           rec == [NoCall EXCEPT !.phase = "update", !.want = {e}]
<1>2. /\ Sharers(t) = {t} /\ t \in Writer[e] /\ Served(t, "update") /\ UNCHANGED <<db, born, writes>>
      /\ c \in Client /\ T \in SUBSET Task /\ msgs \in Docs /\ D \in SUBSET Doc
      /\ answer \in [D -> Record \cup {None}]
      /\ InsertAndAnswer(c, msgs, T, answer)
  BY <1>1, GetUpdatedAnswer
<1>3. call' = Done(Sharers(t)) \/ (c \in Hydrated /\ call' = [call EXCEPT ![t] = rec])
  BY <1>1, <1>2, GetUpdatedAnswer
<1>4. /\ D = IF c \in Hydrated \/ msgs[e] = None THEN {} ELSE {e}
      /\ \A f \in D : answer[f] = msgs[e]
  BY DEF Kept
<1>5. msgs[d] \in Pool(t, d) /\ \A u \in T : Party[u] = Party[t]
  BY DEF Pool, Known
<1>6. d \in D => answer[d] \in Pool(t, d)
  BY <1>4, <1>5
<1>7. CallsHandedOn(t, d) /\ ~Writes(t, d)' /\ ~Saved(t, d)'
  <2>1. CASE call' = Done(Sharers(t))
    BY <2>1, DoneHandsOn
  <2>2. CASE call' = [call EXCEPT ![t] = rec]
    <3>1. /\ rec \in Call /\ rec.phase = "update" /\ rec.wire = "none" /\ rec.floor = NoCall.floor
          /\ rec.reply = NoDocs /\ rec.hits = NoDocs
      BY NoDocsIsDocs DEF Call, Phase
    <3> HIDE DEF rec
    <3>2. rec.reply[d] \in Pool(t, d) /\ rec.hits[d] \in Pool(t, d)
      BY <3>1, NoDocsIsDocs DEF Pool
    <3>3. CurrentCall(rec, db, d)
      BY <3>1, NoCallIsCurrent DEF CurrentCall
    <3>4. /\ d \in rec.want /\ rec.phase \in {"create", "update"} => rec.wire # "asked"
          /\ rec.phase = "update" /\ rec.wire = "served" => rec.reply[d] = None
      BY <3>1
    <3> QED
      BY <2>2, <3>1, <3>2, <3>3, <3>4, CallHandsOn
  <2> QED
    BY <1>3, <2>1, <2>2
<1>8. t \in Writer[d] /\ msgs[d] # None =>
        e = d /\ Newest(msgs[d], d) /\ c \notin Hydrated /\ call' = Done(Sharers(t))
  <2> SUFFICES ASSUME t \in Writer[d], msgs[d] # None
               PROVE  e = d /\ Newest(msgs[d], d) /\ c \notin Hydrated /\ call' = Done(Sharers(t))
    OBVIOUS
  <2>1. d \in call[t].want /\ Newest(call[t].reply[d], d)
    BY <1>2 DEF RInv, WritesNewest
  <2>2. c \notin Hydrated
    BY LoneWriter
  <2> QED
    BY <1>1, <1>3, <2>1, <2>2
<1>9. Saved(t, d) => msgs[d] # None
  BY DEF Saved
<1> HIDE DEF msgs, D, T, answer, rec
<1>10. DataHandedOn(t, d)
  BY <1>2, <1>5, <1>6, InsertHandsOn
<1>11. CASE t \in Writer[d] => msgs[d] = None
  BY <1>2, <1>7, <1>9, <1>10, <1>11, ClientHandsOn
<1>12. CASE t \in Writer[d] /\ msgs[d] # None
  <2>1. Writer[d] = {t} /\ e = d /\ Newest(msgs[d], d) /\ c \notin Hydrated /\ call' = Done(Sharers(t))
    BY <1>8, <1>12, LoneWriter
  <2>2. HandsOn(t, d)
    BY <1>2, <1>7, <1>10 DEF HandsOn, SInv, TypeOK
  <2>3. /\ Copies(d)' \subseteq Copies(d)
        /\ InOrder(d)' /\ FindsAreCurrent(d)'
        /\ db'[d] # None => Newest(db[d], d)'
        /\ d \notin born' => Copies(d)' = {}
    BY <2>2, HandingOnOrders
  <2>4. cache'[c][d] = msgs[d]
    <3>1. TypeOK /\ PlainApart
      BY DEF SInv
    <3>2. c \in Client \ Hydrated /\ InsertAndAnswer(c, msgs, T, answer)
      BY <1>2, <2>1
    <3> HIDE DEF c
    <3> QED
      BY <1>12, <3>1, <3>2, InsertReplaces
  <2>5. held'[t][d] = msgs[d]
    <3>1. \A u \in T, f \in D : held'[u][f] = answer[f]
      BY <1>2, InsertGives
    <3> QED
      BY <1>4, <1>12, <2>1, <3>1 DEF T
  <2>6. /\ call'[t] = NoCall
        /\ ~Asking(t, "create")' /\ ~Asking(t, "update")' /\ ~Served(t, "update")'
    BY <2>1, DoneHandsOn
  <2>7. Known(t, d)' \subseteq {msgs[d]}
    BY <2>4, <2>5, <2>6, NoDocsIsDocs DEF Known
  <2>8. \A r \in Known(t, d)' : Newest(r, d)'
    BY <2>1, <2>3, <2>7 DEF Newest
  <2>9. WritesNewest(d)'
    BY <2>1, <2>6, <2>8 DEF WritesNewest
  <2> QED
    BY <2>3, <2>9 DEF RInv
<1> QED
  BY <1>11, <1>12

-----------------------------------------------------------------------------
(* A document with one writer: every client and every task *)

LEMMA InitRInv == ASSUME Init, NEW d \in Doc PROVE RInv(d)
<1>1. /\ db[d] = None /\ \A c \in Client : cache[c][d] = None
      /\ \A t \in Task : held[t][d] = None /\ call[t] = NoCall
  BY NoDocsIsDocs DEF Init
<1>2. Copies(d) = {}
  BY <1>1, NoDocsIsDocs DEF Copies
<1>3. InOrder(d)
  BY <1>2 DEF InOrder
<1>4. WritesNewest(d)
  <2>1. \A w \in Writer[d] : call[w] = NoCall
    BY <1>1, StoreAssumption
  <2>2. \A w \in Writer[d] : ~Asking(w, "create") /\ ~Asking(w, "update") /\ ~Served(w, "update")
    BY <2>1, NoDocsIsDocs DEF Asking, Served
  <2>3. \A r : Newest(r, d)
    BY <1>2 DEF Newest
  <2> QED
    BY <2>2, <2>3 DEF WritesNewest
<1>5. FindsAreCurrent(d)
  BY <1>1, NoDocsIsDocs DEF FindsAreCurrent, CurrentCall
<1> QED
  BY <1>1, <1>2, <1>3, <1>4, <1>5 DEF RInv

LEMMA StutterRInv == ASSUME NEW d \in Doc, RInv(d), UNCHANGED vars PROVE RInv(d)'
<1>1. UNCHANGED <<db, born, writes, cache, stuck, live, held, alias, call>>
  BY DEF vars
<1>2. Copies(d)' = Copies(d)
  BY <1>1 DEF Copies
<1>3. \A w \in Writer[d] : Known(w, d)' = Known(w, d)
  BY <1>1 DEF Known
<1>4. InOrder(d)' /\ FindsAreCurrent(d)'
  BY <1>1, <1>2 DEF RInv, InOrder, FindsAreCurrent, CurrentCall
<1>5. WritesNewest(d)'
  BY <1>1, <1>2, <1>3 DEF RInv, WritesNewest, Newest, Asking, Served
<1> QED
  BY <1>1, <1>2, <1>4, <1>5 DEF RInv, Newest

LEMMA NextRInv == ASSUME SInv, [Next]_vars, NEW d \in Doc, OneWriter(d), RInv(d) PROVE RInv(d)'
<1>1. CASE UNCHANGED vars
  BY <1>1, StutterRInv
<1>2. ASSUME NEW t \in Task, Find(t) \/ GetHeaders(t) \/ GetDocs(t) PROVE RInv(d)'
  BY <1>2, FindHandsOn, GetHeadersHandsOn, GetDocsHandsOn
<1>3. ASSUME NEW t \in Task, GetCreated(t) \/ GetUpdated(t) \/ PullSaved(t) \/ GetRemoved(t) PROVE RInv(d)'
  BY <1>3, GetCreatedHandsOn, GetUpdatedWrites, PullSavedHandsOn, GetRemovedHandsOn
<1>4. ASSUME NEW t \in Task, ServeFind(t) \/ ServeCreate(t) \/ ServeUpdate(t) \/ ServeRemove(t) PROVE RInv(d)'
  BY <1>4, ServeHandsOn, ServeCreateWrites, ServeUpdateWrites
<1>5. ASSUME NEW t \in Task, NEW e \in Doc,
             Fetch(t, e) \/ Pull(t, e) \/ HandleWatchMsg(t, e) \/ Create(t, e) \/ Update(t, e) \/ Remove(t, e)
      PROVE  RInv(d)'
  BY <1>5, FetchHandsOn, HandleWatchMsgHandsOn, CreateWrites, UpdateWrites, RemoveHandsOn
<1> QED
  BY <1>1, <1>2, <1>3, <1>4, <1>5 DEF Next

LEMMA InitPInv == Init => PInv
  BY InitSInv, InitRInv DEF PInv

LEMMA NextPInv == PInv /\ [Next]_vars => PInv'
<1> SUFFICES ASSUME PInv, [Next]_vars PROVE PInv'
  OBVIOUS
<1>1. SInv'
  BY NextSInv DEF PInv
<1>2. ASSUME NEW d \in Doc, OneWriter(d)' PROVE RInv(d)'
  <2>1. OneWriter(d)
    BY <1>2 DEF OneWriter
  <2> QED
    BY <2>1, NextRInv DEF PInv
<1> QED
  BY <1>1, <1>2 DEF PInv

\* Wherever copies of a document with one writer are - in the backend, in caches, in
\* tasks or on the wire - those that carry the same revision are the same: populate
\* may take the one for the other.
THEOREM PartyStoreRevisionNamesContent == Spec => []RevisionNamesContent
<1>1. PInv => RevisionNamesContent
  <2> SUFFICES ASSUME PInv, NEW d \in Doc, OneWriter(d),
                      NEW r \in Copies(d), NEW s \in Copies(d), r.rev = s.rev
               PROVE  r.val = s.val
    BY DEF RevisionNamesContent
  <2>1. r.rev \in Nat /\ r.val \in Nat /\ s.rev \in Nat /\ s.val \in Nat
    BY CopiesAreRecords DEF PInv
  <2>2. r.val <= s.val /\ s.val <= r.val
    BY <2>1 DEF PInv, RInv, InOrder
  <2> QED
    BY <2>1, <2>2
<1> QED
  BY <1>1, InitPInv, NextPInv, PTL DEF Spec

\* Of a document with one writer, a find answers with a copy at least as new as the
\* backend's was when the find was made, whatever the caches held and replies overtook.
THEOREM PartyStoreFindIsCurrent == Spec => FindIsCurrent
<1>1. ASSUME PInv, [Next]_vars, NEW u \in Task, NEW d \in Doc,
             OneWriter(d), FindEnds(u), held'[u][d] # None
      PROVE  held'[u][d].val >= call[u].floor[d]
  <2>1. SInv /\ RInv(d)
    BY <1>1 DEF PInv
  <2>2. PICK t \in Task : u \in Sharers(t) /\ Answers(t, u, d)
    BY <1>1, <2>1, StepFindEnds
  <2>3. call[t].floor = call[u].floor
    BY <2>1, <2>2, SharersOf
  <2>4. /\ held'[u][d] \in Copies(d) /\ held'[u][d].val \in Nat /\ call[t].floor[d] \in Nat
        /\ call[t].floor[d] <= held'[u][d].val
    <3>1. call[t].floor[d] \in Nat /\ Party[t] \in Client
      BY <2>1, StoreAssumption DEF SInv, TypeOK, Call
    <3>2. CASE Served(t, "find") /\ held'[u][d] = Found(t)[d]
      <4>1. /\ call[t].reply[d] # None /\ Hit(Party[t], d, call[t].reply[d].rev)
            /\ held'[u][d] = cache[Party[t]][d]
        BY <1>1, <3>2 DEF Found
      <4>2. call[t].floor[d] <= held'[u][d].val
        BY <2>1, <3>2, <4>1, HitIsCurrent
      <4> QED
        BY <1>1, <2>1, <3>1, <4>1, <4>2, CopiesAreRecords
    <3>3. CASE Served(t, "nested")
               /\ held'[u][d] = IF call[t].reply[d] # None THEN call[t].reply[d] ELSE call[t].hits[d]
      <4>1. CurrentCall(call[t], db, d)
        BY <2>1 DEF RInv, FindsAreCurrent
      <4>2. held'[u][d] \in {call[t].reply[d], call[t].hits[d]} /\ call[t].floor[d] <= held'[u][d].val
        BY <1>1, <3>3, <4>1 DEF CurrentCall, Served
      <4> QED
        BY <1>1, <2>1, <3>1, <4>2, CopiesAreRecords
    <3> QED
      BY <2>2, <3>2, <3>3 DEF Answers
  <2> QED
    BY <2>3, <2>4
<1>2. PInv /\ [Next]_vars =>
        [\A t \in Task, d \in Doc :
           OneWriter(d) /\ FindEnds(t) /\ held'[t][d] # None
             => held'[t][d].val >= call[t].floor[d]]_vars
  BY <1>1
<1> QED
  BY <1>2, InitPInv, NextPInv, PTL DEF Spec, FindIsCurrent

=============================================================================

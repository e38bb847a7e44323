---------------------------- MODULE QueryLanguage ----------------------------
(* The query a caller chains together (party/query.js), what exec asks for, and
   what the backend makes of it (bouncer/mongo-query.js).

   A chain of calls builds spec.match, a tree, with one pointer to the list
   that takes the next node and three stacks.  The tree is kept as a sequence
   of nodes, each with its parent; 0 is the root list.  exec hands the spec to
   Qb by reference: it is read when the request is sent, and the chain may have
   gone on by then.

   A field of a document is absent, a plain value or a list, and the set of its
   values.  What a condition means to the Db is external: LeafHolds.  Ids are
   valid ones (checkOID throws on others).  sort(), limit() and select() are
   not here: what a Db does with the first two is in LocalParty, and nothing
   reads spec.select of a find. *)

EXTENDS Naturals, Sequences, FiniteSets, SequencesExt

CONSTANTS
  Param,      \* paths a where() may name
  Leaf,       \* the conditions in use: records [op, value]
  Id, Owner,  \* ids and owners
  IdList,     \* the arguments of id() and ids() in use: sets of ids
  Document,   \* sample documents: records [id, owner, field]
  None,
  MaxCalls    \* bound: calls in a chain

Scope == {"and", "or", "elem"}

ASSUME QueryAssumption ==
  /\ MaxCalls \in Nat
  /\ IdList \subseteq SUBSET Id
  /\ None \notin Param \cup Owner /\ \A S \in SUBSET Id : S # None
  /\ \A l \in Leaf : l = [op |-> l.op, value |-> l.value] /\ l.op \notin Scope
  /\ \A d \in Document : d.id \in Id /\ d.owner \in Owner \cup {None}

VARIABLES
  type,          \* spec.type or spec.types: "none", "type" or "types"
  ids,           \* spec.id or spec.ids, None or a set
  owner,         \* spec.owner
  nodes,         \* the tree under spec.match
  currentMatch,  \* the node whose list takes the next one
  matchStack,
  andOrElemStack,
  currentWhere,
  whereStack,
  calls,         \* the calls that did not throw
  pending,       \* an exec whose request is not sent: "none", "find" or "lookup",
                 \* ... with the ids of the lookup and the calls made so far
  asked          \* what the last request asked the Db for

chain == <<nodes, currentMatch, matchStack, andOrElemStack, currentWhere, whereStack>>
vars == <<type, ids, owner, chain, calls, pending, asked>>

NoQuery == [kind |-> "none", ids |-> {}, at |-> 0]
NoAsk == [kind |-> "none", ids |-> None, owner |-> None, nodes |-> <<>>, at |-> 0]

Path == {<<>>} \cup Param
Node == [op : Scope \cup {l.op : l \in Leaf}, param : Path,
         value : {None} \cup {l.value : l \in Leaf}, parent : Nat]

\* A call: its method, dna(), ro() and mele() as "end", conditions as "leaf".
Call ==
  [op : {"ids"}, arg : SUBSET Id] \cup [op : {"owner"}, arg : Owner]
  \cup [op : {"where"}, arg : Param] \cup [op : Scope, arg : {None}]
  \cup [op : {"end"}, arg : Scope] \cup [op : {"leaf"}, arg : Leaf]

TypeOK ==
  /\ type \in {"none", "type", "types"}
  /\ ids \in {None} \cup SUBSET Id
  /\ owner \in Owner \cup {None}
  /\ nodes \in Seq(Node)
  /\ \A n \in DOMAIN nodes : nodes[n].parent < n
  /\ currentMatch \in 0..Len(nodes)
  /\ matchStack \in Seq(0..Len(nodes))
  /\ andOrElemStack \in Seq(Scope)
  /\ currentWhere \in {None} \cup Path
  /\ whereStack \in Seq(Path)
  /\ calls \in Seq(Call)
  /\ pending \in [kind : {"none", "find", "lookup"}, ids : SUBSET Id, at : Nat]
  /\ asked \in [kind : {"none", "find", "lookup"}, ids : {None} \cup SUBSET Id,
                owner : Owner \cup {None}, nodes : Seq(Node), at : Nat]

Init ==
  /\ type = "none" /\ ids = None /\ owner = None
  /\ nodes = <<>> /\ currentMatch = 0 /\ matchStack = <<>> /\ andOrElemStack = <<>>
  /\ currentWhere = None /\ whereStack = <<>>
  /\ calls = <<>> /\ pending = NoQuery /\ asked = NoAsk

-----------------------------------------------------------------------------
(* The chain *)

Called(op, arg) ==
  /\ Len(calls) < MaxCalls
  /\ calls' = Append(calls, [op |-> op, arg |-> arg])
  /\ UNCHANGED <<pending, asked>>

\* type() and types(): each deletes what the other sets.
SetType(kind) ==
  /\ type # kind
  /\ type' = kind
  /\ UNCHANGED <<ids, owner, chain, calls, pending, asked>>

\* id() and ids(), likewise; spec.id is a list of one to every reader.
SetIds(S) ==
  /\ Called("ids", S)
  /\ ids' = S
  /\ UNCHANGED <<type, owner, chain>>

SetOwner(o) ==
  /\ Called("owner", o)
  /\ owner' = o
  /\ UNCHANGED <<type, ids, chain>>

Where(p) ==
  /\ Called("where", p)
  /\ currentWhere' = p
  /\ UNCHANGED <<type, ids, owner, nodes, currentMatch, matchStack, andOrElemStack, whereStack>>

\* Push a node onto the current list.
Push(op, param, value) ==
  nodes' = Append(nodes, [op |-> op, param |-> param, value |-> value, parent |-> currentMatch])

\* What and() and or() do.
Open(op) ==
  /\ Called(op, None)
  /\ Push(op, <<>>, None)
  /\ andOrElemStack' = Append(andOrElemStack, op)
  /\ matchStack' = Append(matchStack, currentMatch)
  /\ currentMatch' = Len(nodes')
  /\ UNCHANGED <<type, ids, owner, currentWhere, whereStack>>

And == Open("and")
Or  == Open("or")

\* cloneWhere throws, and the whole call with it, when no where() came before.
CanCloneWhere == currentWhere # None

Elem ==
  /\ CanCloneWhere
  /\ Called("elem", None)
  /\ Push("elem", currentWhere, None)
  /\ andOrElemStack' = Append(andOrElemStack, "elem")
  /\ matchStack' = Append(matchStack, currentMatch)
  /\ currentMatch' = Len(nodes')
  /\ whereStack' = Append(whereStack, currentWhere)
  /\ currentWhere' = <<>>
  /\ UNCHANGED <<type, ids, owner>>

MClose(op) ==   \* mutant: mele keeps the where of the element
  /\ andOrElemStack # <<>> /\ Last(andOrElemStack) = op
  /\ Called("end", op)
  /\ andOrElemStack' = Front(andOrElemStack)
  /\ currentMatch' = Last(matchStack) /\ matchStack' = Front(matchStack)
  /\ whereStack' = IF op = "elem" THEN Front(whereStack) ELSE whereStack
  /\ UNCHANGED <<type, ids, owner, nodes, currentWhere>>

\* dna(), ro() and mele() throw unless the innermost open scope is theirs.
Close(op) ==
  /\ andOrElemStack # <<>> /\ Last(andOrElemStack) = op
  /\ Called("end", op)
  /\ andOrElemStack' = Front(andOrElemStack)
  /\ currentMatch' = Last(matchStack) /\ matchStack' = Front(matchStack)
  /\ IF op = "elem"
     THEN currentWhere' = Last(whereStack) /\ whereStack' = Front(whereStack)
     ELSE UNCHANGED <<currentWhere, whereStack>>
  /\ UNCHANGED <<type, ids, owner, nodes>>

Dna  == Close("and")
Ro   == Close("or")
Mele == Close("elem")

AddLeaf(leaf) ==
  /\ CanCloneWhere
  /\ Called("leaf", leaf)
  /\ Push(leaf.op, currentWhere, leaf.value)
  /\ UNCHANGED <<type, ids, owner, currentMatch, matchStack, andOrElemStack, currentWhere,
                 whereStack>>

\* equals(), contains(), regex(), exists(), in(), gt(), lt()
FieldLeaf(leaf) == leaf.op \notin {"all", "size"} /\ AddLeaf(leaf)

\* all(), size()
ListLeaf(leaf) == leaf.op \in {"all", "size"} /\ AddLeaf(leaf)

-----------------------------------------------------------------------------
(* exec *)

\* exec throws without a type; Qb.find decides by ids in spec between a find and
\* a lookup.  Bound: one exec of a chain.  A lookup of no ids throws in Crufl, which finds no type in it.
Exec ==
  /\ type = "type" /\ pending.kind = "none" /\ asked.kind = "none"
  /\ ids # {}
  /\ pending' = IF ids = None THEN [kind |-> "find", ids |-> {}, at |-> Len(calls)]
                ELSE [kind |-> "lookup", ids |-> ids, at |-> Len(calls)]
  /\ UNCHANGED <<type, ids, owner, chain, calls, asked>>

\* Qb.sendRequests: the spec as it is now, or the ids of the lookup.
Send ==
  /\ pending.kind # "none"
  /\ asked' = IF pending.kind = "find"
              THEN [kind |-> "find", ids |-> ids, owner |-> owner, nodes |-> nodes,
                    at |-> pending.at]
              ELSE [NoAsk EXCEPT !.kind = "lookup", !.ids = pending.ids, !.at = pending.at]
  /\ pending' = NoQuery
  /\ UNCHANGED <<type, ids, owner, chain, calls>>

Next ==
  \/ \E kind \in {"type", "types"} : SetType(kind)
  \/ \E S \in IdList : SetIds(S)
  \/ \E o \in Owner : SetOwner(o)
  \/ \E p \in Param : Where(p)
  \/ And \/ Dna \/ Or \/ Ro \/ Elem \/ Mele
  \/ \E leaf \in Leaf : FieldLeaf(leaf) \/ ListLeaf(leaf)
  \/ Exec \/ Send

Spec == Init /\ [][Next]_vars

-----------------------------------------------------------------------------
(* MongoQuery and the Db *)

\* Does a field, as the Db evaluates it, satisfy a condition?
LeafHolds(field, op, value) ==
  LET plain == field.kind = "plain"
      list  == field.kind = "list"
  IN CASE op = "equals"   -> plain /\ field.val = {value}
       [] op = "in"       -> plain /\ field.val \subseteq value
       [] op = "regex"    -> plain /\ field.val \subseteq value
       [] op = "gt"       -> plain /\ \A v \in field.val : v > value
       [] op = "lt"       -> plain /\ \A v \in field.val : v < value
       [] op = "exists"   -> (field.kind # "absent") = value
       [] op = "contains" -> list /\ value \in field.val
       [] op = "size"     -> list /\ Cardinality(field.val) = value
       [] op = "all"      -> list /\ value \subseteq field.val

Children(q, n) == {m \in DOMAIN q.nodes : q.nodes[m].parent = n}

MMatchHolds(q, doc) ==   \* mutant: a scope is matched by each of its conditions
  LET holds[n \in DOMAIN q.nodes] ==
        IF q.nodes[n].op \in {"and", "or"}
        THEN \A m \in Children(q, n) : holds[m]
        ELSE LeafHolds(doc.field[q.nodes[n].param], q.nodes[n].op, q.nodes[n].value)
  IN \A m \in Children(q, 0) : holds[m]

\* buildQueryDoc, and the document it makes, applied to doc.
MatchHolds(q, doc) ==
  LET holds[n \in DOMAIN q.nodes] ==
        CASE q.nodes[n].op = "and" -> \A m \in Children(q, n) : holds[m]
          [] q.nodes[n].op = "or"  -> \E m \in Children(q, n) : holds[m]
          [] OTHER -> LeafHolds(doc.field[q.nodes[n].param], q.nodes[n].op, q.nodes[n].value)
  IN \A m \in Children(q, 0) : holds[m]

\* getQueryDoc: the owner and the ids are put before the root conditions.  An
\* empty list of ids restricts nothing.
Selects(q, doc) ==
  /\ q.owner # None => doc.owner = q.owner
  /\ q.ids \notin {None, {}} => doc.id \in q.ids
  /\ MatchHolds(q, doc)

-----------------------------------------------------------------------------
(* What a chain means, read off its calls alone *)

OpenCalls(c) == {i \in DOMAIN c : c[i].op \in Scope}
EndCalls(c)  == {i \in DOMAIN c : c[i].op = "end"}
Depth(c, i) == Cardinality({j \in OpenCalls(c) : j < i}) - Cardinality({j \in EndCalls(c) : j < i})

\* The calls whose scopes call i is in: it has been deeper ever since.
Scopes(c, i) == {j \in OpenCalls(c) : j < i /\ \A k \in (j + 1)..i : Depth(c, k) > Depth(c, j)}
Elements(c, i) == {j \in Scopes(c, i) : c[j].op = "elem"}

\* The innermost of them, and the innermost element; 0 for none.
Parent(c, i)  == Max({0} \cup Scopes(c, i))
Element(c, i) == Max({0} \cup Elements(c, i))

\* The nearest where() before call i in the same element.
Wheres(c, i) == {j \in DOMAIN c : j < i /\ c[j].op = "where" /\ Element(c, j) = Element(c, i)}
WhereOf(c, i) == IF Wheres(c, i) = {} THEN <<>> ELSE c[Max(Wheres(c, i))].arg

NodeCalls(c) == {i \in DOMAIN c : c[i].op \in Scope \cup {"leaf"}}

\* The node call i made is the one with as many before it; 0 is the root.
NodeOf(c, i) == Cardinality({j \in NodeCalls(c) : j <= i})

\* The node call i should have made.
Spelled(c, i) ==
  [op     |-> IF c[i].op = "leaf" THEN c[i].arg.op ELSE c[i].op,
   param  |-> IF c[i].op \in {"leaf", "elem"} THEN WhereOf(c, i) ELSE <<>>,
   value  |-> IF c[i].op = "leaf" THEN c[i].arg.value ELSE None,
   parent |-> NodeOf(c, Parent(c, i))]

LastCall(c, op) == Max({0} \cup {i \in DOMAIN c : c[i].op = op})

\* Which of the conditions a chain without elements spells does doc satisfy?
Conditions(c, doc) ==
  LET holds[i \in NodeCalls(c)] ==
        LET inside == {j \in NodeCalls(c) : Parent(c, j) = i}
        IN CASE c[i].op = "and" -> \A j \in inside : holds[j]
             [] c[i].op = "or"  -> \E j \in inside : holds[j]
             [] OTHER -> LeafHolds(doc.field[WhereOf(c, i)], c[i].arg.op, c[i].arg.value)
  IN holds

Meant(c, doc) ==
  IF LastCall(c, "ids") # 0 THEN doc.id \in c[LastCall(c, "ids")].arg
  ELSE /\ LastCall(c, "owner") # 0 => doc.owner = c[LastCall(c, "owner")].arg
       /\ \A i \in NodeCalls(c) : Parent(c, i) = 0 => Conditions(c, doc)[i]

(* Properties *)

\* The tree that the pointer and the stacks of Query build is the one the
\* brackets and the where() calls of the chain spell: one node per call that
\* makes one, in the scope that was open around its call, with the operation and
\* value of the call and the path of the nearest where() of its element, also
\* after scopes were closed.
TreeIsParse ==
  /\ Len(nodes) = Cardinality(NodeCalls(calls))
  /\ \A i \in NodeCalls(calls) : nodes[NodeOf(calls, i)] = Spelled(calls, i)

\* A request asks the Db for the documents the chain describes: by ids alone
\* when there are ids, else by owner and conditions.  It is so when the chain
\* was left alone between exec and Send, and has no element condition.
AskedIsMeant ==
  /\ asked.kind # "none" /\ asked.at = Len(calls)
  /\ \A i \in OpenCalls(calls) : calls[i].op # "elem"
  => \A doc \in Document : Selects(asked, doc) <=> Meant(calls, doc)
=============================================================================

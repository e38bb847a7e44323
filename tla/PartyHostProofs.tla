--------------------------- MODULE PartyHostProofs ---------------------------
(* What the host's side of a party promises.  TopicHost keeps its nodes and
   topics in step and never writes a message to a peer that was not granted it, for
   any number of peers, topics and operations: it implements PubSub.  Of a party
   and its Db, for any tasks, documents, calls and crashes: acknowledged writes
   stand, only a create brings a document back, and the identity comes back. *)

EXTENDS TopicHost, LocalParty, TLAPS

-----------------------------------------------------------------------------
(* The topics *)

\* Every membership was granted.
MembersGranted ==
  \A p \in Peer, t \in Topic :
     /\ p \in subscribers[t] => <<"subscribe", p, t>> \in Granted
     /\ p \in advertisers[t] => <<"advertise", p, t>> \in Granted

\* What is on its way to q, or was written to q, for operation o.
Reaches(o, q) == <<o, q>> \in outbox \/ q \in got[o]

\* A message on its way was published by an operation that had leave for it, to
\* a peer that had leave to subscribe.
MessagesGranted ==
  \A o \in Op, q \in Peer : Reaches(o, q) =>
     /\ ops[o].stage \in {"sending", "success", "lost"}
     /\ q # ops[o].peer
     /\ <<"subscribe", q, ops[o].topic>> \in Granted
     /\ <<"advertise", ops[o].peer, ops[o].topic>> \in Granted
     /\ <<"publish", ops[o].peer, ops[o].topic>> \in Granted

\* An operation that is not fresh has a peer and a path.
OpsNamed ==
  \A o \in Op : ops[o].stage # "unused" => ops[o].peer \in Peer /\ ops[o].topic \in Topic

\* Nobody that a publication was for is forgotten while it is sent.
NobodyForgotten ==
  \A o \in Op : ops[o].op = "publish" =>
     /\ ops[o].stage \in {"sending", "success"} =>
          \A q \in addressed[o] : Reaches(o, q) \/ q \notin open
     /\ ops[o].stage = "success" => \A q \in Peer : <<o, q>> \notin outbox

IInv ==
  /\ TypeOK
  /\ NodesAgree
  /\ MembersGranted
  /\ MessagesGranted
  /\ OpsNamed
  /\ NobodyForgotten

USE DEF Kind, Msg, Stage, GetTopic, GetNode

LEMMA InitIInv == Init => IInv
  BY TopicHostAssumption DEF Init, IInv, TypeOK, Operation, NodesAgree, MembersGranted,
     MessagesGranted, Reaches, OpsNamed, NobodyForgotten

\* An operation that ends, or waits for something else, keeps its type.
LEMMA EndsType ==
  ASSUME TypeOK, NEW o \in Op, NEW stage \in Stage, Ends(o, stage)
  PROVE  ops' \in [Op -> Operation]
<1>1. [ops[o] EXCEPT !.stage = stage] \in Operation
  BY DEF TypeOK, Operation
<1>2. QED BY <1>1 DEF TypeOK, Ends

\* ... and only its stage changes.
LEMMA EndsFields ==
  ASSUME TypeOK, NEW o \in Op, NEW stage \in Stage, Ends(o, stage), NEW r \in Op
  PROVE  /\ ops'[r].op = ops[r].op /\ ops'[r].peer = ops[r].peer
         /\ ops'[r].topic = ops[r].topic
         /\ ops'[r].stage = IF r = o THEN stage ELSE ops[r].stage
BY DEF TypeOK, Ends, Operation

\* A step that leaves the host alone and only moves one operation to another
\* stage.
LEMMA StageStep ==
  ASSUME IInv, NEW o \in Op, NEW stage \in Stage,
         Ends(o, stage), UNCHANGED <<open, hostVars, wireVars>>,
         ops[o].stage \in {"routing", "asking"},
         stage \in {"asking", "failed", "denied"}
  PROVE  IInv'
<1>0. ops' \in [Op -> Operation]
  BY EndsType DEF IInv
<1> USE DEF IInv, Ends, hostVars, wireVars
<1>1. TypeOK'
  BY <1>0 DEF TypeOK
<1>2. NodesAgree' /\ MembersGranted'
  BY DEF NodesAgree, MembersGranted
<1>3. MessagesGranted'
  BY DEF TypeOK, MessagesGranted, Reaches
<1>4. OpsNamed' /\ NobodyForgotten'
  BY DEF TypeOK, OpsNamed, NobodyForgotten, Reaches
<1>5. QED BY <1>1, <1>2, <1>3, <1>4

\* Membership operations that were granted, as far as they touch the topics.
LEMMA ReceiveStep ==
  ASSUME IInv, NEW o \in Op, NEW p \in Peer, NEW kind \in Kind, NEW t \in Topic,
         Receive(o, p, kind, t)
  PROVE  IInv'
<1> USE DEF IInv, Receive
<1>1. TypeOK'
  <2>1. [op |-> kind, peer |-> p, topic |-> t,
          stage |-> IF kind = "unsubscribe" THEN "success" ELSE "routing"] \in Operation
    BY DEF Operation
  <2>2. ops' \in [Op -> Operation]
    BY <2>1 DEF TypeOK
  <2>3. QED BY <2>2 DEF TypeOK, Unsubscribe, hostVars, wireVars
<1>2. NodesAgree' /\ MembersGranted'
  BY DEF TypeOK, NodesAgree, MembersGranted, Unsubscribe, hostVars
<1>3. MessagesGranted'
  BY DEF TypeOK, MessagesGranted, Reaches, wireVars
<1>4. OpsNamed'
  BY DEF TypeOK, OpsNamed
<1>5. NobodyForgotten'
  BY DEF TypeOK, NobodyForgotten, Reaches, wireVars
<1>6. QED BY <1>1, <1>2, <1>3, <1>4, <1>5

LEMMA AllowAdvertiseStep ==
  ASSUME IInv, NEW o \in Op, AllowAdvertise(o)
  PROVE  IInv'
<1> USE DEF IInv, AllowAdvertise, Advertise
<1>0. ops[o].peer \in Peer /\ ops[o].topic \in Topic
  BY DEF OpsNamed
<1>1. TypeOK'
  <2>1. ops' \in [Op -> Operation]
    BY EndsType
  <2>2. QED BY <1>0, <2>1 DEF TypeOK, wireVars
<1> USE DEF Ends
<1>2. NodesAgree' /\ MembersGranted'
  <2>1. <<ops[o].op, ops[o].peer, ops[o].topic>> \in Granted
    BY DEF May
  <2>2. NodesAgree'
    BY <1>0 DEF TypeOK, NodesAgree
  <2>3. MembersGranted'
    BY <1>0, <2>1 DEF TypeOK, MembersGranted
  <2>4. QED BY <2>2, <2>3
<1>3. MessagesGranted'
  BY DEF TypeOK, MessagesGranted, Reaches, wireVars
<1>4. OpsNamed' /\ NobodyForgotten'
  BY DEF TypeOK, OpsNamed, NobodyForgotten, Reaches, wireVars
<1>5. QED BY <1>1, <1>2, <1>3, <1>4

LEMMA AllowSubscribeStep ==
  ASSUME IInv, NEW o \in Op, AllowSubscribe(o)
  PROVE  IInv'
<1> USE DEF IInv, AllowSubscribe, Subscribe
<1>0. ops[o].peer \in Peer /\ ops[o].topic \in Topic
  BY DEF OpsNamed
<1>1. TypeOK'
  <2>1. ops' \in [Op -> Operation]
    BY EndsType
  <2>2. QED BY <1>0, <2>1 DEF TypeOK, wireVars
<1> USE DEF Ends
<1>2. NodesAgree' /\ MembersGranted'
  <2>1. <<ops[o].op, ops[o].peer, ops[o].topic>> \in Granted
    BY DEF May
  <2>2. NodesAgree'
    BY <1>0 DEF TypeOK, NodesAgree
  <2>3. MembersGranted'
    BY <1>0, <2>1 DEF TypeOK, MembersGranted
  <2>4. QED BY <2>2, <2>3
<1>3. MessagesGranted'
  BY DEF TypeOK, MessagesGranted, Reaches, wireVars
<1>4. OpsNamed' /\ NobodyForgotten'
  BY DEF TypeOK, OpsNamed, NobodyForgotten, Reaches, wireVars
<1>5. QED BY <1>1, <1>2, <1>3, <1>4

LEMMA AllowPublishStep ==
  ASSUME IInv, NEW o \in Op, AllowPublish(o)
  PROVE  IInv'
<1> USE DEF IInv, AllowPublish, Post
<1>0. ops[o].peer \in Peer /\ ops[o].topic \in Topic
  BY DEF OpsNamed
<1>1. TypeOK'
  <2>1. Audience(ops[o].topic, ops[o].peer) \in SUBSET Peer
    BY <1>0 DEF Audience, TypeOK
  <2>2. ops' \in [Op -> Operation]
    BY EndsType
  <2>3. QED BY <1>0, <2>1, <2>2 DEF TypeOK, wireVars
<1>a. \A r \in Op :
        /\ ops'[r].op = ops[r].op /\ ops'[r].peer = ops[r].peer
        /\ ops'[r].topic = ops[r].topic
        /\ IF r = o THEN ops'[r].stage \in {"sending", "lost"}
                    ELSE ops'[r].stage = ops[r].stage
  <2>1. PICK stage \in {"sending", "lost"} : Ends(o, stage)
    OBVIOUS
  <2>2. QED BY <2>1, EndsFields
<1> USE DEF Ends
<1>2. NodesAgree' /\ MembersGranted'
  BY <1>0 DEF TypeOK, NodesAgree, MembersGranted
<1>3. MessagesGranted'
  <2> SUFFICES ASSUME NEW r \in Op, NEW q \in Peer, Reaches(r, q)'
               PROVE  /\ ops'[r].stage \in {"sending", "success", "lost"}
                      /\ q # ops'[r].peer
                      /\ <<"subscribe", q, ops'[r].topic>> \in Granted
                      /\ <<"advertise", ops'[r].peer, ops'[r].topic>> \in Granted
                      /\ <<"publish", ops'[r].peer, ops'[r].topic>> \in Granted
    BY DEF MessagesGranted
  <2>1. /\ ops'[r].peer = ops[r].peer /\ ops'[r].topic = ops[r].topic
        /\ ops'[r].stage \in {ops[r].stage, "sending", "lost"}
        /\ r # o => ops'[r].stage = ops[r].stage
        /\ r = o => ops'[r].stage \in {"sending", "lost"}
    BY <1>a
  <2>2. CASE Reaches(r, q)
    BY <2>1, <2>2 DEF MessagesGranted
  <2>3. CASE ~Reaches(r, q)
    <3>1. /\ r = o /\ q \in Audience(ops[o].topic, ops[o].peer)
          /\ ops[o].peer \in advertisers[ops[o].topic]
      BY <2>3 DEF Reaches, wireVars
    <3>2. <<ops[o].op, ops[o].peer, ops[o].topic>> \in Granted
      BY DEF May
    <3>3. QED BY <1>0, <2>1, <3>1, <3>2 DEF Audience, MembersGranted
  <2>4. QED BY <2>2, <2>3
<1>4. OpsNamed'
  BY <1>0, <1>a DEF OpsNamed
<1>5. NobodyForgotten'
  <2> SUFFICES ASSUME NEW r \in Op, ops'[r].op = "publish"
               PROVE  /\ ops'[r].stage \in {"sending", "success"} =>
                           \A q \in addressed'[r] : Reaches(r, q)' \/ q \notin open'
                      /\ ops'[r].stage = "success" =>
                           \A q \in Peer : <<r, q>> \notin outbox'
    BY DEF NobodyForgotten
  <2>1. CASE r # o
    BY <2>1 DEF TypeOK, NobodyForgotten, Reaches, wireVars
  <2>2. CASE r = o /\ Ends(o, "lost")
    BY <2>2, EndsFields
  <2>3. CASE r = o /\ Post(o, ops[o].topic, ops[o].peer)
    <3>1. \A q \in addressed'[o] : <<o, q>> \in outbox'
      BY <2>3 DEF TypeOK
    <3>2. ops'[o].stage # "success"
      BY <1>a
    <3>3. QED BY <2>3, <3>1, <3>2 DEF Reaches
  <2>4. QED BY <2>1, <2>2, <2>3
<1>6. QED BY <1>1, <1>2, <1>3, <1>4, <1>5

LEMMA AnswerPublishStep ==
  ASSUME IInv, NEW o \in Op, AnswerPublish(o)
  PROVE  IInv'
<1>0. ops' \in [Op -> Operation]
  BY EndsType DEF IInv, AnswerPublish
<1> USE DEF IInv, AnswerPublish, Ends, hostVars, wireVars
<1>1. TypeOK'
  BY <1>0 DEF TypeOK
<1>2. NodesAgree' /\ MembersGranted'
  BY DEF NodesAgree, MembersGranted
<1>3. MessagesGranted'
  BY DEF TypeOK, MessagesGranted, Reaches
<1>4. OpsNamed' /\ NobodyForgotten'
  BY DEF TypeOK, OpsNamed, NobodyForgotten, Reaches, Sent
<1>5. QED BY <1>1, <1>2, <1>3, <1>4

LEMMA WriteStep ==
  ASSUME IInv, NEW m \in Msg, NEW q \in Peer, Write(m, q)
  PROVE  IInv'
<1> USE DEF IInv
<1>a. /\ <<m, q>> \in outbox /\ outbox' = outbox \ {<<m, q>>}
      /\ UNCHANGED <<open, hostVars, addressed>>
      /\ got' = IF q \in open THEN [got EXCEPT ![m] = @ \cup {q}] ELSE got
      /\ \/ m \in Op /\ ops[m].stage = "sending" /\ q \notin open /\ Ends(m, "lost")
         \/ UNCHANGED ops
  BY DEF Write
<1>1. TypeOK'
  <2>1. got' \in [Msg -> SUBSET Peer]
    <3>1. got[m] \cup {q} \in SUBSET Peer
      BY DEF TypeOK
    <3>2. CASE q \in open
      BY <1>a, <3>1, <3>2 DEF TypeOK
    <3>3. CASE q \notin open
      BY <1>a, <3>3 DEF TypeOK
    <3>4. QED BY <3>2, <3>3
  <2>2. ops' \in [Op -> Operation]
    <3>1. CASE UNCHANGED ops
      BY <3>1 DEF TypeOK
    <3>2. CASE m \in Op /\ Ends(m, "lost")
      BY <3>2, EndsType
    <3>3. QED BY <1>a, <3>1, <3>2
  <2>3. QED BY <1>a, <2>1, <2>2 DEF TypeOK, hostVars
<1>2. NodesAgree' /\ MembersGranted'
  BY <1>a DEF NodesAgree, MembersGranted, hostVars
<1>b. \A r \in Op :
        /\ ops'[r].op = ops[r].op /\ ops'[r].peer = ops[r].peer
        /\ ops'[r].topic = ops[r].topic
        /\ \/ ops'[r].stage = ops[r].stage
           \/ ops[r].stage = "sending" /\ ops'[r].stage = "lost"
  BY <1>a, EndsFields
<1>c. \A r \in Op, p \in Peer :
        p \in got'[r] <=> p \in got[r] \/ (r = m /\ p = q /\ q \in open)
  BY <1>a DEF TypeOK
<1>d. \A r \in Op, p \in Peer :
        <<r, p>> \in outbox' <=> <<r, p>> \in outbox /\ ~(r = m /\ p = q)
  BY <1>a
<1>e. \A r \in Op, p \in Peer :
        /\ Reaches(r, p)' => Reaches(r, p)
        /\ Reaches(r, p) => Reaches(r, p)' \/ (p = q /\ q \notin open)
  BY <1>a, <1>c, <1>d DEF Reaches
<1>3. MessagesGranted'
  BY <1>b, <1>e DEF MessagesGranted
<1>4. OpsNamed'
  BY <1>b DEF OpsNamed
<1>5. NobodyForgotten'
  BY <1>a, <1>b, <1>d, <1>e DEF TypeOK, NobodyForgotten
<1>6. QED BY <1>1, <1>2, <1>3, <1>4, <1>5

LEMMA CloseStep ==
  ASSUME IInv, NEW p \in Peer, Close(p)
  PROVE  IInv'
<1> USE DEF IInv, Close, DestroyNode, wireVars
<1>1. TypeOK'
  BY DEF TypeOK
<1>2. NodesAgree'
  BY DEF TypeOK, NodesAgree
<1>3. MembersGranted'
  BY DEF TypeOK, MembersGranted
<1>4. MessagesGranted' /\ OpsNamed' /\ NobodyForgotten'
  BY DEF TypeOK, MessagesGranted, OpsNamed, NobodyForgotten, Reaches
<1>5. QED BY <1>1, <1>2, <1>3, <1>4

LEMMA HandleDocChangeStep ==
  ASSUME IInv, NEW m \in Change, NEW t \in Document, HandleDocChange(m, t)
  PROVE  IInv'
<1> USE TopicHostAssumption DEF IInv, HandleDocChange, Post, hostVars
<1>0. m \notin Op /\ t \in Topic /\ Audience(t, None) \in SUBSET Peer
  BY DEF Audience, TypeOK
<1>1. TypeOK'
  BY <1>0 DEF TypeOK, wireVars
<1>2. NodesAgree' /\ MembersGranted' /\ OpsNamed'
  BY DEF NodesAgree, MembersGranted, OpsNamed
<1>3. MessagesGranted'
  BY <1>0 DEF TypeOK, MessagesGranted, Reaches
<1>4. NobodyForgotten'
  BY <1>0 DEF TypeOK, NobodyForgotten, Reaches
<1>5. QED BY <1>1, <1>2, <1>3, <1>4

LEMMA NextIInv == IInv /\ [Next]_vars => IInv'
<1> SUFFICES ASSUME IInv, [Next]_vars PROVE IInv'
  OBVIOUS
<1>1. ASSUME NEW o \in Op, NEW p \in Peer, NEW kind \in Kind, NEW t \in Topic,
             Receive(o, p, kind, t)
      PROVE  IInv'
  BY <1>1, ReceiveStep
<1>2. ASSUME NEW o \in Op, Route(o) PROVE IInv'
  BY <1>2, StageStep DEF Route
<1>3. ASSUME NEW o \in Op, Deny(o) PROVE IInv'
  BY <1>3, StageStep DEF Deny
<1>4. ASSUME NEW o \in Op, AllowAdvertise(o) PROVE IInv'
  BY <1>4, AllowAdvertiseStep
<1>5. ASSUME NEW o \in Op, AllowSubscribe(o) PROVE IInv'
  BY <1>5, AllowSubscribeStep
<1>6. ASSUME NEW o \in Op, AllowPublish(o) PROVE IInv'
  BY <1>6, AllowPublishStep
<1>7. ASSUME NEW o \in Op, AnswerPublish(o) PROVE IInv'
  BY <1>7, AnswerPublishStep
<1>8. ASSUME NEW m \in Msg, NEW q \in Peer, Write(m, q) PROVE IInv'
  BY <1>8, WriteStep
<1>9. ASSUME NEW p \in Peer, Close(p) PROVE IInv'
  BY <1>9, CloseStep
<1>10. ASSUME NEW m \in Change, NEW t \in Document, HandleDocChange(m, t) PROVE IInv'
  BY <1>10, HandleDocChangeStep
<1>11. CASE UNCHANGED vars
  BY <1>11 DEF vars, hostVars, wireVars, IInv, TypeOK, NodesAgree, MembersGranted,
     MessagesGranted, Reaches, OpsNamed, NobodyForgotten
<1>12. QED
  BY <1>1, <1>2, <1>3, <1>4, <1>5, <1>6, <1>7, <1>8, <1>9, <1>10, <1>11 DEF Next

\* The invariant holds in every state.
THEOREM TopicHostInvariant == Spec => []IInv
  BY InitIInv, NextIInv, PTL DEF Spec

\* What a topic knows of a peer, the peer's node knows of the topic
\* (PeerNode.destroy relies on it).
THEOREM TopicHostNodesAgree == Spec => []NodesAgree
<1>1. IInv => NodesAgree
  BY DEF IInv
<1>2. QED BY <1>1, TopicHostInvariant, PTL

\* No message is written to a peer, or for a peer, that lacked leave
\* (authorizeOperation and HostTopic.publish).
THEOREM TopicHostOnlyGranted == Spec => []OnlyGranted
<1>1. IInv => OnlyGranted
  BY DEF IInv, TypeOK, OnlyGranted, MessagesGranted, Reaches
<1>2. QED BY <1>1, TopicHostInvariant, PTL

\* A publication that was answered was written to everyone it was for that is
\* still connected (HostTopic.publish waits for all sends).
THEOREM TopicHostAnsweredIsWritten == Spec => []AnsweredIsWritten
<1>1. IInv => AnsweredIsWritten
  BY DEF IInv, TypeOK, AnsweredIsWritten, NobodyForgotten, Reaches
<1>2. QED BY <1>1, TopicHostInvariant, PTL

\* Hanging up takes a peer out of every topic (PeerComms.close, destroyNode).
THEOREM TopicHostHangUpLeaves == Spec => HangUpLeaves
<1>1. ASSUME IInv, [Next]_vars, NEW p \in Peer, p \in open, p \notin open', NEW t \in Topic
      PROVE  p \notin subscribers'[t] \cup advertisers'[t]
  <2>1. Close(p)
    BY <1>1 DEF Next, vars, Receive, Route, Deny, AllowAdvertise, AllowSubscribe,
       AllowPublish, AnswerPublish, Write, Close, HandleDocChange
  <2>2. QED BY <1>1, <2>1 DEF IInv, TypeOK, NodesAgree, Close, DestroyNode
<1>2. IInv /\ [Next]_vars =>
        [\A p \in Peer : p \in open /\ p \notin open' =>
            \A t \in Topic : p \notin subscribers'[t] \cup advertisers'[t]]_vars
  BY <1>1
<1>3. QED BY <1>2, TopicHostInvariant, PTL DEF Spec, HangUpLeaves
-----------------------------------------------------------------------------
(* The topics implement PubSub *)

\* What is being sent to q is for q, and only publications are sent.
SendsInOrder ==
  /\ \A m \in Msg, q \in Peer : <<m, q>> \in outbox => q \in addressed[m]
  /\ \A o \in Op : ops[o].stage = "sending" => ops[o].op = "publish"

\* The topic knows its audience: asking the node too leaves nobody out.
LEMMA AudienceIsSubscribers ==
  ASSUME NodesAgree, NEW t \in Topic, NEW sender
  PROVE  Audience(t, sender) = subscribers[t] \ {sender}
BY DEF NodesAgree, Audience

\* When an operation moves to another stage, PubSub sees it if it publishes.
LEMMA PublicationMoves ==
  ASSUME TypeOK, NEW o \in Op, NEW stage \in Stage, Ends(o, stage)
  PROVE  \A r \in Op : Publication(r)' =
           IF r = o
           THEN IF ops[o].op = "publish" /\ stage \in {"sending", "success", "lost"}
                THEN stage ELSE "new"
           ELSE Publication(r)
BY EndsFields DEF Publication

\* A step that PubSub does not see.
LEMMA HiddenStep ==
  ASSUME SendsInOrder, UNCHANGED <<open, subscribers, advertisers, addressed, got>>,
         outbox' \subseteq outbox,
         \A r \in Op : Publication(r)' = Publication(r) /\ ops'[r].op = ops[r].op,
         \A r \in Op : ops'[r].stage = "sending" => ops[r].stage = "sending"
  PROVE  SendsInOrder' /\ UNCHANGED P!vars
BY DEF SendsInOrder, P!vars, P!members

LEMMA ReceiveIsLeave ==
  ASSUME IInv, SendsInOrder, NEW o \in Op, NEW p \in Peer, NEW kind \in Kind, NEW t \in Topic,
         Receive(o, p, kind, t)
  PROVE  SendsInOrder' /\ [P!Next]_(P!vars)
<1>1. \A r \in Op : /\ Publication(r)' = Publication(r)
                    /\ r # o => ops'[r] = ops[r]
                    /\ ops'[o].stage # "sending"
  BY DEF Receive, Publication, IInv, TypeOK, Operation
<1>2. SendsInOrder'
  BY <1>1 DEF SendsInOrder, Receive, wireVars
<1>3. [r \in Op |-> Publication(r)]' = [r \in Op |-> Publication(r)]
  BY <1>1
<1>4. CASE kind = "unsubscribe"
  <2>1. P!Leave(p, t)
    BY <1>3, <1>4 DEF Receive, Unsubscribe, wireVars, P!Leave
  <2>2. QED BY <1>2, <2>1 DEF P!Next
<1>5. CASE kind # "unsubscribe"
  BY <1>2, <1>3, <1>5 DEF Receive, hostVars, wireVars, P!vars, P!members
<1>6. QED BY <1>4, <1>5

LEMMA WaitIsHidden ==
  ASSUME IInv, SendsInOrder, NEW o \in Op, Route(o) \/ Deny(o)
  PROVE  SendsInOrder' /\ [P!Next]_(P!vars)
<1>1. PICK stage \in {"asking", "failed", "denied"} :
        /\ ops[o].stage \in {"routing", "asking"}
        /\ Ends(o, stage) /\ UNCHANGED <<open, hostVars, wireVars>>
  BY DEF Route, Deny
<1>2. \A r \in Op : Publication(r)' = Publication(r) /\ ops'[r].op = ops[r].op
                    /\ (ops'[r].stage = "sending" => ops[r].stage = "sending")
  BY <1>1, EndsFields, PublicationMoves DEF IInv, Publication
<1>3. QED BY <1>1, <1>2, HiddenStep DEF hostVars, wireVars

LEMMA AllowAdvertiseIsOffer ==
  ASSUME IInv, SendsInOrder, NEW o \in Op, AllowAdvertise(o)
  PROVE  SendsInOrder' /\ [P!Next]_(P!vars)
<1> DEFINE p == ops[o].peer
           t == ops[o].topic
<1>1. /\ p \in Peer /\ t \in Topic /\ <<"advertise", p, t>> \in Granted
      /\ ops[o].op = "advertise" /\ Ends(o, "success")
  BY DEF IInv, OpsNamed, AllowAdvertise, May
<1>2. /\ \A r \in Op : Publication(r)' = Publication(r) /\ ops'[r].op = ops[r].op
      /\ \A r \in Op : ops'[r].stage = "sending" => ops[r].stage = "sending"
  BY <1>1, EndsFields, PublicationMoves DEF IInv, Publication
<1>3. SendsInOrder'
  BY <1>2 DEF SendsInOrder, AllowAdvertise, wireVars
<1>4. [r \in Op |-> Publication(r)]' = [r \in Op |-> Publication(r)]
  BY <1>2
<1>5. P!Offer(p, t)
  BY <1>1, <1>4 DEF AllowAdvertise, Advertise, wireVars, P!Offer
<1> HIDE DEF p, t
<1>6. QED BY <1>1, <1>3, <1>5 DEF P!Next

LEMMA AllowSubscribeIsListen ==
  ASSUME IInv, SendsInOrder, NEW o \in Op, AllowSubscribe(o)
  PROVE  SendsInOrder' /\ [P!Next]_(P!vars)
<1> DEFINE p == ops[o].peer
           t == ops[o].topic
<1>1. /\ p \in Peer /\ t \in Topic /\ <<"subscribe", p, t>> \in Granted
      /\ ops[o].op = "subscribe" /\ Ends(o, "success")
  BY DEF IInv, OpsNamed, AllowSubscribe, May
<1>2. /\ \A r \in Op : Publication(r)' = Publication(r) /\ ops'[r].op = ops[r].op
      /\ \A r \in Op : ops'[r].stage = "sending" => ops[r].stage = "sending"
  BY <1>1, EndsFields, PublicationMoves DEF IInv, Publication
<1>3. SendsInOrder'
  BY <1>2 DEF SendsInOrder, AllowSubscribe, wireVars
<1>4. [r \in Op |-> Publication(r)]' = [r \in Op |-> Publication(r)]
  BY <1>2
<1>5. P!Listen(p, t)
  BY <1>1, <1>4 DEF AllowSubscribe, Subscribe, wireVars, P!Listen
<1> HIDE DEF p, t
<1>6. QED BY <1>1, <1>3, <1>5 DEF P!Next

LEMMA AllowPublishIsPublish ==
  ASSUME IInv, SendsInOrder, NEW o \in Op, AllowPublish(o)
  PROVE  SendsInOrder' /\ [P!Next]_(P!vars)
<1> DEFINE p == ops[o].peer
           t == ops[o].topic
<1>1. /\ p \in Peer /\ t \in Topic /\ <<"publish", p, t>> \in Granted
      /\ ops[o].op = "publish" /\ ops[o].stage = "asking" /\ Publication(o) = "new"
      /\ UNCHANGED <<open, subscribers, advertisers>>
  BY DEF IInv, OpsNamed, AllowPublish, May, Publication
<1>2. \A q \in Peer : <<o, q>> \notin outbox
  BY <1>1 DEF IInv, MessagesGranted, Reaches
<1>3. CASE p \in advertisers[t] /\ Post(o, t, p) /\ Ends(o, "sending")
  <2>1. /\ \A r \in Op : Publication(r)' = IF r = o THEN "sending" ELSE Publication(r)
        /\ \A r \in Op : ops'[r].op = ops[r].op
                         /\ (r # o => ops'[r].stage = ops[r].stage)
    BY <1>1, <1>3, EndsFields, PublicationMoves DEF IInv
  <2>2. Audience(t, p) = subscribers[t] \ {p}
    BY <1>1, AudienceIsSubscribers DEF IInv
  <2>3. SendsInOrder'
    <3>1. \A m \in Msg : addressed'[m] = IF m = o THEN Audience(t, p) ELSE addressed[m]
      BY <1>3 DEF Post, IInv, TypeOK
    <3>2. \A m \in Msg, q \in Peer :
            <<m, q>> \in outbox' <=> <<m, q>> \in outbox \/ (m = o /\ q \in Audience(t, p))
      BY <1>3 DEF Post
    <3>3. QED BY <1>1, <1>2, <2>1, <3>1, <3>2 DEF SendsInOrder
  <2>4. [r \in Op |-> Publication(r)]' =
          [[r \in Op |-> Publication(r)] EXCEPT ![o] = "sending"]
    BY <2>1
  <2>5. P!Publish(o, p, t)
    BY <1>1, <1>3, <2>2, <2>4 DEF Post, P!Publish, P!members
  <2> HIDE DEF p, t
  <2>6. QED BY <1>1, <2>3, <2>5 DEF P!Next
<1>4. CASE p \notin advertisers[t] /\ Ends(o, "lost") /\ UNCHANGED wireVars
  <2>1. /\ \A r \in Op : Publication(r)' = IF r = o THEN "lost" ELSE Publication(r)
        /\ \A r \in Op : ops'[r].op = ops[r].op
        /\ \A r \in Op : ops'[r].stage = "sending" => ops[r].stage = "sending"
    BY <1>1, <1>4, EndsFields, PublicationMoves DEF IInv
  <2>2. SendsInOrder'
    BY <1>4, <2>1 DEF SendsInOrder, wireVars
  <2>3. [r \in Op |-> Publication(r)]' =
          [[r \in Op |-> Publication(r)] EXCEPT ![o] = "lost"]
    BY <2>1
  <2>4. P!Refuse(o, p, t)
    BY <1>1, <1>4, <2>3 DEF wireVars, P!Refuse, P!members
  <2> HIDE DEF p, t
  <2>5. QED BY <1>1, <2>2, <2>4 DEF P!Next
<1>5. p \in advertisers[t] => t \in topicsByPath
  BY <1>1 DEF IInv, NodesAgree
<1>6. QED BY <1>3, <1>4, <1>5 DEF AllowPublish

LEMMA AnswerPublishIsConfirm ==
  ASSUME IInv, SendsInOrder, NEW o \in Op, AnswerPublish(o)
  PROVE  SendsInOrder' /\ [P!Next]_(P!vars)
<1>1. /\ ops[o].op = "publish" /\ ops[o].stage = "sending" /\ Publication(o) = "sending"
      /\ Ends(o, "success") /\ UNCHANGED <<open, hostVars, wireVars>>
  BY DEF AnswerPublish, SendsInOrder, Publication
<1>2. /\ \A r \in Op : Publication(r)' = IF r = o THEN "success" ELSE Publication(r)
      /\ \A r \in Op : ops'[r].op = ops[r].op
      /\ \A r \in Op : ops'[r].stage = "sending" => ops[r].stage = "sending"
  BY <1>1, EndsFields, PublicationMoves DEF IInv
<1>3. SendsInOrder'
  BY <1>1, <1>2 DEF SendsInOrder, wireVars
<1>4. addressed[o] \cap open \subseteq got[o]
  BY <1>1 DEF AnswerPublish, Sent, IInv, TypeOK, NobodyForgotten, Reaches
<1>5. [r \in Op |-> Publication(r)]' =
        [[r \in Op |-> Publication(r)] EXCEPT ![o] = "success"]
  BY <1>2
<1>6. P!Confirm(o)
  BY <1>1, <1>4, <1>5 DEF hostVars, wireVars, P!Confirm, P!members
<1>7. QED BY <1>3, <1>6 DEF P!Next

\* A message that is written is delivered; one that finds the socket destroyed
\* may end its publication.
LEMMA WriteIsDeliver ==
  ASSUME IInv, SendsInOrder, NEW m \in Msg, NEW q \in Peer, Write(m, q)
  PROVE  SendsInOrder' /\ [P!Next]_(P!vars)
<1>1. /\ <<m, q>> \in outbox /\ q \in addressed[m] /\ outbox' \subseteq outbox
      /\ UNCHANGED <<open, hostVars, addressed>>
  BY DEF Write, SendsInOrder
<1>2. CASE UNCHANGED ops
  <2>1. SendsInOrder'
    BY <1>1, <1>2 DEF SendsInOrder
  <2>2. [r \in Op |-> Publication(r)]' = [r \in Op |-> Publication(r)]
    BY <1>2 DEF Publication
  <2>3. CASE q \in open
    <3>1. P!Deliver(m, q)
      BY <1>1, <2>2, <2>3 DEF Write, hostVars, P!Deliver, P!members
    <3>2. QED BY <2>1, <3>1 DEF P!Next
  <2>4. CASE q \notin open
    BY <1>1, <2>1, <2>2, <2>4 DEF Write, hostVars, P!vars, P!members
  <2>5. QED BY <2>3, <2>4
<1>3. CASE m \in Op /\ ops[m].stage = "sending" /\ q \notin open /\ Ends(m, "lost")
  <2>1. /\ \A r \in Op : Publication(r)' = IF r = m THEN "lost" ELSE Publication(r)
        /\ \A r \in Op : ops'[r].op = ops[r].op
        /\ \A r \in Op : ops'[r].stage = "sending" => ops[r].stage = "sending"
        /\ Publication(m) = "sending"
    BY <1>3, EndsFields, PublicationMoves DEF IInv, SendsInOrder, Publication
  <2>2. SendsInOrder'
    BY <1>1, <2>1 DEF SendsInOrder
  <2>3. [r \in Op |-> Publication(r)]' =
          [[r \in Op |-> Publication(r)] EXCEPT ![m] = "lost"]
    BY <1>3, <2>1
  <2>4. P!GiveUp(m)
    BY <1>1, <1>3, <2>1, <2>3 DEF Write, hostVars, P!GiveUp, P!members
  <2>5. QED BY <1>3, <2>2, <2>4 DEF P!Next
<1>4. QED BY <1>2, <1>3 DEF Write

LEMMA CloseIsHangUp ==
  ASSUME IInv, SendsInOrder, NEW p \in Peer, Close(p)
  PROVE  SendsInOrder' /\ [P!Next]_(P!vars)
<1>1. SendsInOrder'
  BY DEF SendsInOrder, Close, wireVars
<1>2. [r \in Op |-> Publication(r)]' = [r \in Op |-> Publication(r)]
  BY DEF Close, Publication
<1>3. /\ subscribers' = [t \in Topic |-> subscribers[t] \ {p}]
      /\ advertisers' = [t \in Topic |-> advertisers[t] \ {p}]
  BY DEF Close, DestroyNode, IInv, NodesAgree
<1>4. P!HangUp(p)
  BY <1>2, <1>3 DEF Close, wireVars, P!HangUp
<1>5. QED BY <1>1, <1>4 DEF P!Next

LEMMA HandleDocChangeIsAnnounce ==
  ASSUME IInv, SendsInOrder, NEW m \in Change, NEW t \in Document, HandleDocChange(m, t)
  PROVE  SendsInOrder' /\ [P!Next]_(P!vars)
<1>1. t \in Topic /\ Audience(t, None) = subscribers[t]
  <2>1. t \in Topic
    BY TopicHostAssumption
  <2>2. None \notin subscribers[t]
    BY <2>1, TopicHostAssumption DEF IInv, TypeOK
  <2>3. QED BY <2>1, <2>2, AudienceIsSubscribers DEF IInv
<1>2. SendsInOrder'
  BY DEF HandleDocChange, Post, IInv, TypeOK, SendsInOrder
<1>3. [r \in Op |-> Publication(r)]' = [r \in Op |-> Publication(r)]
  BY DEF HandleDocChange, Publication
<1>4. P!Announce(m, t)
  BY <1>1, <1>3 DEF HandleDocChange, Post, hostVars, P!Announce, P!members
<1>5. QED BY <1>1, <1>2, <1>4 DEF P!Next

LEMMA NextIsPubSub ==
  ASSUME IInv, SendsInOrder, [Next]_vars
  PROVE  SendsInOrder' /\ [P!Next]_(P!vars)
<1>1. ASSUME NEW o \in Op, NEW p \in Peer, NEW kind \in Kind, NEW t \in Topic,
             Receive(o, p, kind, t)
      PROVE  SendsInOrder' /\ [P!Next]_(P!vars)
  BY <1>1, ReceiveIsLeave
<1>2. ASSUME NEW o \in Op,
             \/ Route(o) \/ Deny(o)
             \/ AllowAdvertise(o) \/ AllowSubscribe(o) \/ AllowPublish(o)
             \/ AnswerPublish(o)
      PROVE  SendsInOrder' /\ [P!Next]_(P!vars)
  BY <1>2, WaitIsHidden, AllowAdvertiseIsOffer, AllowSubscribeIsListen,
     AllowPublishIsPublish, AnswerPublishIsConfirm
<1>3. ASSUME NEW m \in Msg, NEW q \in Peer, Write(m, q)
      PROVE  SendsInOrder' /\ [P!Next]_(P!vars)
  BY <1>3, WriteIsDeliver
<1>4. ASSUME NEW p \in Peer, Close(p)
      PROVE  SendsInOrder' /\ [P!Next]_(P!vars)
  BY <1>4, CloseIsHangUp
<1>5. ASSUME NEW m \in Change, NEW t \in Document, HandleDocChange(m, t)
      PROVE  SendsInOrder' /\ [P!Next]_(P!vars)
  BY <1>5, HandleDocChangeIsAnnounce
<1>6. CASE UNCHANGED vars
  <2>1. \A r \in Op : Publication(r)' = Publication(r)
    BY <1>6 DEF vars, Publication
  <2>2. QED BY <1>6, <2>1, HiddenStep DEF vars, hostVars, wireVars
<1> HIDE DEF Msg, Kind
<1>7. QED BY <1>1, <1>2, <1>3, <1>4, <1>5, <1>6 DEF Next

\* The topic host implements PubSub: whatever nodes remember and however
\* operations, sends and hang-ups overlap, members, audiences, deliveries and
\* answers are as the abstract topics have them (local-topic-host.js, host-topic.js).
THEOREM TopicHostImplementsPubSub == Spec => ImplementsPubSub
<1>1. Init => SendsInOrder /\ P!Init
  BY DEF Init, SendsInOrder, Publication, P!Init
<1>2. IInv /\ SendsInOrder /\ [Next]_vars => SendsInOrder' /\ [P!Next]_(P!vars)
  BY NextIsPubSub
<1>3. QED
  BY <1>1, <1>2, TopicHostInvariant, PTL DEF Spec, ImplementsPubSub, P!PubSubSpec
-----------------------------------------------------------------------------
(* The party and its Db *)

\* The documents a call has still to do.
Pending(t) == {call[t].todo[i] : i \in DOMAIN call[t].todo}

Creates(t) == call[t].op \in {"create", "update"}

\* It undoes what others wrote to them.
Replaces(t) == Undoes(call[t].op)

\* What a call has left at each of its steps.
CallInOrder(t) ==
  /\ call[t].phase = "idle" => call[t].op = "none" /\ call[t].todo = <<>>
  /\ call[t].phase \in {"asked", "read"} => call[t].todo # <<>>
  /\ call[t].op = "create" => Len(call[t].todo) <= 1
  /\ call[t].phase \in {"asked", "read", "written"} => call[t].op # "none"
  /\ call[t].phase = "read" => call[t].op \in {"update", "remove"}
  /\ call[t].phase = "read" /\ call[t].op = "update" => call[t].old # Nil

\* While nobody else changes the documents of a call, no other call has one of
\* them left to replace, ...
CleanIsAlone(t) ==
  call[t].clean /\ Creates(t) =>
    \A w \in Task \ {t} :
      Replaces(w) => \A d \in call[t].done \cup Pending(t) : d \notin Pending(w)

\* ... so that what it has written is there, and what it will update, and what it
\* will create is not.
CleanHasWritten(t) ==
  call[t].clean /\ Creates(t) =>
    /\ \A d \in call[t].done : store[d] # Nil /\ store[d][t] = call[t].val
    /\ call[t].op = "update" => \A d \in Pending(t) : store[d] # Nil
    /\ call[t].op = "create" => \A d \in Pending(t) : store[d] = Nil

\* A write that was acknowledged stands, whether the party is up or not, and no
\* call that would undo it has the document left.
Standing(t, d) ==
  stands[t][d] # Nil =>
    /\ store[d] # Nil /\ store[d][t] = stands[t][d]
    /\ \A u \in Task : u = t \/ Replaces(u) => d \notin Pending(u)

DocsInv ==
  /\ \A t \in Task : CallInOrder(t) /\ CleanIsAlone(t) /\ CleanHasWritten(t)
  /\ \A t \in Task, d \in Doc : Standing(t, d)

\* When the identity is changed, and what is known of it until the party is up.
OwnInv ==
  /\ party \in {"dir", "identity", "db"} => changing = "no"
  /\ party = "down" => changing \in {"no", "written"}
  /\ party = "config" => changing \in {"no", "reset", "made"}
  /\ changing # "no" => owned = Nil
  /\ changing \in {"made", "written"} => identity # Nil /\ identity = kept
  /\ party \in {"identity", "db"} => identity # Nil /\ identity = kept
  /\ owned # Nil => owned = kept
  /\ IdentityComesBack

PartyInv ==
  /\ PartyTypeOK
  /\ OwnInv
  /\ DocsInv

LEMMA InitPartyInv ==
  ASSUME PartyInit
  PROVE  PartyInv
<1>1. NoDocs \in Docs
  BY DEF NoDocs, Docs
<1>2. NoCall \in Call
  BY <1>1, PartyAssumption DEF NoCall, Call
<1>3. PartyTypeOK
  BY <1>1, <1>2, PartyAssumption DEF PartyInit, PartyTypeOK
<1>4. OwnInv
  BY DEF PartyInit, OwnInv, IdentityComesBack
<1>5. DocsInv
  BY DEF PartyInit, NoCall, DocsInv, CallInOrder, CleanIsAlone, CleanHasWritten, Standing,
     Creates, Pending
<1>6. QED BY <1>3, <1>4, <1>5 DEF PartyInv

\* A step that makes an identity or a call.
LEMMA MakeType ==
  ASSUME PartyTypeOK, Make
  PROVE  made' \in 0..MaxCalls /\ made' # Nil
  BY PartyAssumption DEF PartyTypeOK, Make

\* What is neither called nor stored changes nothing of the documents.
LEMMA DocsStay ==
  ASSUME DocsInv, UNCHANGED <<backend, store, call, stands>>
  PROVE  DocsInv'
<1>1. \A t \in Task :
        /\ Pending(t)' = Pending(t) /\ Creates(t)' = Creates(t) /\ Replaces(t)' = Replaces(t)
        /\ CallInOrder(t)' = CallInOrder(t)
  BY DEF CallInOrder, Creates, Pending, Replaces, Undoes
<1>2. \A t \in Task : CallInOrder(t)' /\ CleanIsAlone(t)' /\ CleanHasWritten(t)'
  BY <1>1 DEF DocsInv, CleanIsAlone, CleanHasWritten
<1>3. \A t \in Task, d \in Doc : Standing(t, d)'
  BY <1>1 DEF DocsInv, Standing
<1>4. QED BY <1>2, <1>3 DEF DocsInv

\* The steps of start and of a change of the identity leave the documents alone.
LEMMA OwnKeeps ==
  ASSUME PartyInv,
         \/ Start \/ StartConfig \/ TouchDirFails \/ LoadIdentity
         \/ ResetIdentity \/ MakeIdentity \/ ReloadIdentity \/ SetIdentity
         \/ IdentityIsSet \/ StartDb \/ DbStarted
  PROVE  PartyInv'
<1> USE DEF own, docs
<1>1. UNCHANGED <<backend, store, saved, call, stands, crashes>>
  BY DEF Start, StartConfig, TouchDirFails, LoadIdentity,
     ResetIdentity, MakeIdentity, ReloadIdentity, SetIdentity,
     IdentityIsSet, StartDb, DbStarted
<1>2. DocsInv'
  BY <1>1, DocsStay DEF PartyInv
<1>3. CASE \/ Start \/ StartConfig \/ TouchDirFails \/ LoadIdentity
           \/ ResetIdentity \/ ReloadIdentity \/ IdentityIsSet \/ StartDb
           \/ DbStarted
  <2>1. made' = made
    BY <1>3 DEF Start, StartConfig, TouchDirFails, LoadIdentity,
       ResetIdentity, ReloadIdentity, IdentityIsSet, StartDb,
       DbStarted
  <2>2. CASE Start \/ StartConfig \/ TouchDirFails \/ StartDb
    BY <1>1, <1>2, <2>1, <2>2 DEF PartyInv, PartyTypeOK, OwnInv, IdentityComesBack, Start,
       StartConfig, TouchDirFails, StartDb
  <2>3. CASE LoadIdentity \/ ResetIdentity
    BY <1>1, <1>2, <2>1, <2>3 DEF PartyInv, PartyTypeOK, OwnInv, IdentityComesBack,
       LoadIdentity, ResetIdentity, Keep
  <2>4. CASE ReloadIdentity
    BY <1>1, <1>2, <2>1, <2>4 DEF PartyInv, PartyTypeOK, OwnInv, IdentityComesBack,
       ReloadIdentity
  <2>5. CASE IdentityIsSet \/ DbStarted
    BY <1>1, <1>2, <2>1, <2>5 DEF PartyInv, PartyTypeOK, OwnInv, IdentityComesBack,
       IdentityIsSet, DbStarted
  <2>6. QED BY <1>3, <2>2, <2>3, <2>4, <2>5
<1>4. CASE MakeIdentity \/ SetIdentity
  <2>1. made' \in 0..MaxCalls /\ made' # Nil
    BY <1>4, MakeType DEF PartyInv, MakeIdentity, SetIdentity
  <2>2. QED
    BY <1>1, <1>2, <1>4, <2>1 DEF PartyInv, PartyTypeOK, OwnInv, IdentityComesBack,
       MakeIdentity, SetIdentity, Keep
<1>5. QED BY <1>3, <1>4

\* The three Dbs.
LEMMA DbKeeps ==
  ASSUME PartyInv,
         \/ LokiStart \/ LokiStarted \/ TingoStart \/ TingoStarted
         \/ ZangoStart \/ ZangoStarted
  PROVE  PartyInv'
<1>1. StartDb \/ DbStarted
  BY DEF LokiStart, LokiStarted, TingoStart, TingoStarted, ZangoStart,
     ZangoStarted
<1>2. QED BY <1>1, OwnKeeps

\* What is saved is what is stored.
LEMMA AutoSaveKeeps ==
  ASSUME PartyInv, AutoSave
  PROVE  PartyInv'
<1>1. saved' = store /\ UNCHANGED <<backend, own, store, call, stands, made, crashes>>
  BY DEF AutoSave
<1>2. PartyTypeOK'
  BY <1>1 DEF PartyInv, PartyTypeOK, own
<1>3. OwnInv' /\ DocsInv'
  BY <1>1, DocsStay DEF PartyInv, OwnInv, IdentityComesBack, own
<1>4. QED BY <1>2, <1>3 DEF PartyInv

\* After the end of the process no call is left, and no write of a LokiDb counts
\* as acknowledged.
LEMMA PartyCrashKeeps ==
  ASSUME PartyInv, Crash
  PROVE  PartyInv'
<1>1. NoCall \in Call
  BY PartyAssumption DEF NoCall, Call, NoDocs, Docs
<1>2. /\ call' = [t \in Task |-> NoCall]
      /\ party' = "down" /\ changing' = "no" /\ identity' = Nil
      /\ UNCHANGED <<backend, kept, owned, saved, made>>
  BY DEF Crash
<1>3. /\ store' \in Docs /\ stands' \in [Task -> [Doc -> 0..MaxCalls \cup {Nil}]]
      /\ crashes' \in 0..MaxCrashes
  BY PartyAssumption DEF PartyInv, PartyTypeOK, Crash
<1>4. PartyTypeOK'
  BY <1>1, <1>2, <1>3 DEF PartyInv, PartyTypeOK
<1>5. OwnInv'
  BY <1>2 DEF PartyInv, OwnInv, IdentityComesBack
<1>6. \A t \in Task :
        /\ call'[t].phase = "idle" /\ call'[t].op = "none" /\ call'[t].todo = <<>>
        /\ call'[t].done = {}
  BY <1>2 DEF NoCall
<1>7. ASSUME NEW t \in Task
      PROVE  CallInOrder(t)' /\ CleanIsAlone(t)' /\ CleanHasWritten(t)'
  BY <1>6 DEF CallInOrder, CleanIsAlone, CleanHasWritten, Creates
<1>8. ASSUME NEW t \in Task, NEW d \in Doc
      PROVE  Standing(t, d)'
  <2>1. \A u \in Task : Pending(u)' = {}
    BY <1>6 DEF Pending
  <2>2. CASE backend = "loki"
    <3>1. stands'[t][d] = Nil
      BY <2>2 DEF Crash
    <3>2. QED BY <3>1 DEF Standing
  <2>3. CASE backend # "loki"
    <3>1. store' = store /\ stands' = stands
      BY <2>3 DEF Crash
    <3>2. Standing(t, d)
      BY DEF PartyInv, DocsInv
    <3>3. QED BY <2>1, <3>1, <3>2 DEF Standing
  <2>4. QED BY <2>2, <2>3
<1>9. DocsInv'
  BY <1>7, <1>8 DEF DocsInv
<1>10. QED BY <1>4, <1>5, <1>9 DEF PartyInv

\* What the steps of a call show that store nothing and change no other call: what
\* it had left and written it still has, or it is over.
LEMMA NothingStored ==
  ASSUME DocsInv, NEW t \in Task, UNCHANGED <<backend, store, stands>>,
         \A u \in Task \ {t} : call'[u] = call[u],
         CallInOrder(t)', call'[t].op \in {call[t].op, "none"}, Pending(t)' \subseteq Pending(t),
         Creates(t)' => /\ call'[t].clean = call[t].clean /\ call'[t].op = call[t].op
                        /\ call'[t].done = call[t].done /\ call'[t].val = call[t].val
  PROVE  DocsInv'
<1>1. \A w \in Task :
        /\ Pending(w)' \subseteq Pending(w)
        /\ Replaces(w)' => Replaces(w)
  BY DEF Pending, Replaces, Undoes
<1>2. ASSUME NEW u \in Task
      PROVE  CallInOrder(u)' /\ CleanIsAlone(u)' /\ CleanHasWritten(u)'
  <2>1. CallInOrder(u)'
    BY DEF DocsInv, CallInOrder
  <2>2. Creates(u)' => /\ Creates(u) /\ call'[u].clean = call[u].clean /\ call'[u].op = call[u].op
                       /\ call'[u].done = call[u].done /\ call'[u].val = call[u].val
    BY DEF Creates
  <2>3. CleanIsAlone(u)'
    BY <1>1, <2>2 DEF DocsInv, CleanIsAlone
  <2>4. CleanHasWritten(u)'
    BY <1>1, <2>2 DEF DocsInv, CleanHasWritten
  <2>5. QED BY <2>1, <2>3, <2>4
<1>3. ASSUME NEW u \in Task, NEW d \in Doc
      PROVE  Standing(u, d)'
  BY <1>1 DEF DocsInv, Standing
<1>4. QED BY <1>2, <1>3 DEF DocsInv

\* A sequence that is not empty has its head, and what its tail has.
LEMMA HeadAndTail ==
  ASSUME NEW s \in Seq(Doc), s # <<>>
  PROVE  /\ Head(s) \in Doc /\ Tail(s) \in Seq(Doc)
         /\ \E i \in DOMAIN s : s[i] = Head(s)
         /\ \A i \in DOMAIN Tail(s) : \E j \in DOMAIN s : s[j] = Tail(s)[i]
<1>1. /\ Head(s) \in Doc /\ Tail(s) \in Seq(Doc) /\ Len(s) \in Nat \ {0}
      /\ DOMAIN s = 1 .. Len(s) /\ DOMAIN Tail(s) = 1 .. Len(s) - 1
  OBVIOUS
<1>2. Head(s) = s[1] /\ \A i \in 1 .. Len(s) - 1 : Tail(s)[i] = s[i + 1] /\ i + 1 \in 1 .. Len(s)
  BY <1>1
<1>3. QED BY <1>1, <1>2

\* What a step of a call shows that changes the documents and this call only.
LEMMA RestKeeps ==
  ASSUME PartyInv, Rest, call' \in [Task -> Call], store' \in Docs, DocsInv'
  PROVE  PartyInv'
<1>1. UNCHANGED <<backend, party, changing, identity, kept, owned, saved, stands, made, crashes>>
  BY DEF Rest, own
<1>2. PartyTypeOK'
  BY <1>1 DEF PartyInv, PartyTypeOK
<1>3. OwnInv'
  BY <1>1 DEF PartyInv, OwnInv, IdentityComesBack
<1>4. QED BY <1>2, <1>3 DEF PartyInv

\* A call that goes on in the way of NothingStored.
LEMMA GoesOn ==
  ASSUME PartyInv, NEW t \in Task, NEW c \in Call, call' = [call EXCEPT ![t] = c],
         store' = store, Rest,
         CallInOrder(t)', c.op \in {call[t].op, "none"}, Pending(t)' \subseteq Pending(t),
         Creates(t)' => /\ c.clean = call[t].clean /\ c.op = call[t].op
                        /\ c.done = call[t].done /\ c.val = call[t].val
  PROVE  PartyInv'
<1>1. /\ call' \in [Task -> Call] /\ call'[t] = c
      /\ \A u \in Task \ {t} : call'[u] = call[u]
  BY DEF PartyInv, PartyTypeOK
<1>2. UNCHANGED <<backend, store, stands>>
  BY DEF Rest
<1>3. DocsInv'
  BY <1>1, <1>2, NothingStored DEF PartyInv
<1>4. store' \in Docs
  BY DEF PartyInv, PartyTypeOK
<1>5. QED BY <1>1, <1>3, <1>4, RestKeeps

\* A call that is over, by an exception.
LEMMA OverKeeps ==
  ASSUME PartyInv, NEW t \in Task,
         call' = [call EXCEPT ![t] = NoCall], store' = store, Rest
  PROVE  PartyInv'
<1>1. NoCall \in Call
  BY PartyAssumption DEF NoCall, Call, NoDocs, Docs
<1>2. call'[t] = NoCall
  BY DEF PartyInv, PartyTypeOK
<1>3. /\ NoCall.op = "none" /\ NoCall.phase = "idle" /\ NoCall.todo = <<>>
  BY DEF NoCall
<1>4. CallInOrder(t)' /\ ~Creates(t)' /\ Pending(t)' = {}
  BY <1>2, <1>3 DEF CallInOrder, Creates, Pending
<1>5. QED BY <1>1, <1>3, <1>4, GoesOn

LEMMA FailKeeps ==
  ASSUME PartyInv, NEW t \in Task, Fail(t), Rest
  PROVE  PartyInv'
  BY OverKeeps DEF Fail

\* A call stores a document: either it replaces what was there, and nobody relies
\* on that, or it leaves the fields of the others as they are.
LEMMA StoredKeeps ==
  ASSUME PartyInv, NEW t \in Task, NEW d \in Doc, d = Doc1(t), call[t].todo # <<>>,
         Writes(call[t].op), NEW new \in Record \cup {Nil},
         Stored(t, d, new), Rest,
         \/ Replaces(t)
         \/ store[d] # Nil /\ new # Nil /\ \A u \in Task \ {t} : new[u] = store[d][u],
         Creates(t) /\ call[t].clean => new # Nil /\ new[t] = call[t].val
  PROVE  PartyInv'
<1>1. /\ backend' = backend /\ stands' = stands
      /\ call[t] \in Call /\ call[t].todo \in Seq(Doc)
  BY DEF PartyInv, PartyTypeOK, Rest, Call
<1>2. /\ store' \in Docs /\ store'[d] = new
      /\ \A e \in Doc \ {d} : store'[e] = store[e]
  BY DEF PartyInv, PartyTypeOK, Stored, Docs
<1>3. /\ Tail(call[t].todo) \in Seq(Doc) /\ d \in Pending(t)
      /\ \A i \in DOMAIN Tail(call[t].todo) : Tail(call[t].todo)[i] \in Pending(t)
  BY <1>1, HeadAndTail DEF Doc1, Pending
<1>4. /\ call' \in [Task -> Call]
      /\ call'[t].phase = "written" /\ call'[t].todo = Tail(call[t].todo)
      /\ call'[t].done = call[t].done \cup {d} /\ call'[t].op = call[t].op
      /\ call'[t].clean = call[t].clean /\ call'[t].val = call[t].val
      /\ \A u \in Task \ {t} : call'[u] = call[u]
  BY <1>1, <1>3 DEF PartyInv, PartyTypeOK, Stored, Call
<1>5. \A u \in Task :
        /\ Pending(u)' \subseteq Pending(u)
        /\ Creates(u)' = Creates(u) /\ Replaces(u)' = Replaces(u)
        /\ call'[u].clean = call[u].clean /\ call'[u].op = call[u].op /\ call'[u].val = call[u].val
  <2> TAKE u \in Task
  <2>1. CASE u = t
    <3>1. Pending(t)' = {Tail(call[t].todo)[i] : i \in DOMAIN Tail(call[t].todo)}
      BY <1>4 DEF Pending
    <3>2. Pending(t)' \subseteq Pending(t)
      BY <1>3, <3>1
    <3>3. QED BY <1>1, <1>4, <2>1, <3>2 DEF Creates, Replaces, Undoes
  <2>2. CASE u # t
    BY <1>1, <1>4, <2>2 DEF Pending, Creates, Replaces, Undoes
  <2>3. QED BY <2>1, <2>2
<1>6. ASSUME NEW u \in Task
      PROVE  CallInOrder(u)'
  <2>1. CASE u = t
    <3>1. Len(Tail(call[t].todo)) = Len(call[t].todo) - 1 /\ Len(call[t].todo) \in Nat
      BY <1>1
    <3>2. call[t].op = "create" => Len(call[t].todo) <= 1
      BY DEF PartyInv, DocsInv, CallInOrder
    <3>3. call'[t].op = "create" => Len(call'[t].todo) <= 1
      BY <1>4, <3>1, <3>2
    <3>4. call'[t].phase = "written" /\ call'[t].op # "none"
      BY <1>4 DEF Writes
    <3>5. QED BY <2>1, <3>3, <3>4 DEF CallInOrder
  <2>2. CASE u # t
    BY <1>4, <2>2 DEF PartyInv, DocsInv, CallInOrder
  <2>3. QED BY <2>1, <2>2
<1>7. ASSUME NEW u \in Task
      PROVE  CleanIsAlone(u)'
  <2>1. call'[u].done \cup Pending(u)' \subseteq call[u].done \cup Pending(u)
    BY <1>3, <1>4, <1>5
  <2>2. QED BY <1>5, <2>1 DEF PartyInv, DocsInv, CleanIsAlone
<1>8. ASSUME NEW u \in Task
      PROVE  CleanHasWritten(u)'
  <2> SUFFICES ASSUME call[u].clean, Creates(u)
               PROVE  /\ \A e \in call'[u].done : store'[e] # Nil /\ store'[e][u] = call'[u].val
                      /\ call'[u].op = "update" => \A e \in Pending(u)' : store'[e] # Nil
                      /\ call'[u].op = "create" => \A e \in Pending(u)' : store'[e] = Nil
    BY <1>5 DEF CleanHasWritten
  <2>1. /\ \A e \in call[u].done : store[e] # Nil /\ store[e][u] = call[u].val
        /\ call[u].op = "update" => \A e \in Pending(u) : store[e] # Nil
        /\ call[u].op = "create" => \A e \in Pending(u) : store[e] = Nil
        /\ call[u].done \subseteq Doc /\ Pending(u) \subseteq Doc
    <3>1. call[u].todo \in Seq(Doc) /\ call[u].done \subseteq Doc
      BY DEF PartyInv, PartyTypeOK, Call
    <3>2. Pending(u) \subseteq Doc
      BY <3>1 DEF Pending
    <3>3. CleanHasWritten(u)
      BY DEF PartyInv, DocsInv
    <3>4. QED BY <3>1, <3>2, <3>3 DEF CleanHasWritten
  <2>2. CASE u = t
    <3>1. call[t].op = "create" => Pending(t)' = {}
      <4>1. call[t].op = "create" => Len(call[t].todo) <= 1
        BY DEF PartyInv, DocsInv, CallInOrder
      <4>2. call[t].op = "create" => DOMAIN Tail(call[t].todo) = {}
        BY <1>1, <4>1
      <4>3. QED BY <1>4, <4>2 DEF Pending
    <3>2. QED BY <1>2, <1>4, <1>5, <2>1, <2>2, <3>1
  <2>3. CASE u # t
    <3>1. CASE d \notin call[u].done \cup Pending(u)
      BY <1>2, <1>4, <1>5, <2>1, <2>3, <3>1
    <3>2. CASE d \in call[u].done \cup Pending(u)
      <4>1. ~Replaces(t)
        BY <1>3, <2>3, <3>2 DEF PartyInv, DocsInv, CleanIsAlone
      <4>2. QED BY <1>2, <1>4, <1>5, <2>1, <2>3, <4>1
    <3>3. QED BY <3>1, <3>2
  <2>4. QED BY <2>2, <2>3
<1>9. ASSUME NEW u \in Task, NEW e \in Doc
      PROVE  Standing(u, e)'
  <2>1. Standing(u, e)
    BY DEF PartyInv, DocsInv
  <2>2. CASE e # d
    BY <1>1, <1>2, <1>5, <2>1, <2>2 DEF Standing
  <2>3. CASE e = d /\ stands[u][d] # Nil
    <3>1. u # t /\ ~Replaces(t)
      BY <1>3, <2>1, <2>3 DEF Standing
    <3>2. QED BY <1>1, <1>2, <1>5, <2>1, <2>3, <3>1 DEF Standing
  <2>4. QED BY <1>1, <2>2, <2>3 DEF Standing
<1>10. DocsInv'
  BY <1>6, <1>7, <1>8, <1>9 DEF DocsInv
<1>11. QED BY <1>2, <1>4, <1>10, RestKeeps

\* A document made from what a caller gave has its field.
LEMMA FromObjectType ==
  ASSUME PartyInv, NEW t \in Task
  PROVE  /\ FromObject(t) \in Record /\ FromObject(t)[t] = call[t].val
         /\ FromObject(t) # Nil
<1>1. call[t].val \in Nat
  BY DEF PartyInv, PartyTypeOK, Call
<1>2. QED BY <1>1, PartyAssumption DEF FromObject, Record

\* A merge has the field of the new document, and the others of the old one.
LEMMA MergedType ==
  ASSUME PartyInv, NEW t \in Task, NEW old \in Record
  PROVE  /\ Merged(old, t) \in Record /\ Merged(old, t)[t] = call[t].val
         /\ \A u \in Task \ {t} : Merged(old, t)[u] = old[u]
         /\ Merged(old, t) # Nil
<1>1. FromObject(t)[t] = call[t].val /\ call[t].val \in Nat
  BY FromObjectType DEF PartyInv, PartyTypeOK, Call
<1>2. QED BY <1>1, PartyAssumption DEF Merged, Record

\* What is known of a call that writes its next document.
LEMMA NowAtType ==
  ASSUME PartyInv, NEW t \in Task, call[t].phase \in {"asked", "read"},
         call[t].op \in {"create", "update", "remove"}
  PROVE  /\ call[t].todo # <<>> /\ Doc1(t) \in Doc /\ Writes(call[t].op)
         /\ Doc1(t) \in Pending(t)
         /\ store[Doc1(t)] \in Record \cup {Nil}
<1>1. call[t].todo # <<>> /\ call[t].todo \in Seq(Doc) /\ store \in Docs
  BY DEF PartyInv, DocsInv, CallInOrder, PartyTypeOK, Call
<1>2. Doc1(t) \in Doc /\ Doc1(t) \in Pending(t)
  BY <1>1, HeadAndTail DEF Doc1, Pending
<1>3. QED BY <1>1, <1>2 DEF Docs, Writes

\* What is stored under an id that was there already is not relied on: a create
\* is clean only while its id is free.
LEMMA InsertKeeps ==
  ASSUME PartyInv, NEW t \in Task,
         LokiInsert(t) \/ TingoInsert(t) \/ ZangoInsert(t)
  PROVE  PartyInv'
<1> DEFINE d == Doc1(t)
<1>1. Insert(t) \/ Refuse(t) \/ Double(t)
  BY DEF LokiInsert, TingoInsert, ZangoInsert
<1>2. call[t].phase = "asked" /\ call[t].op = "create" /\ Rest
  BY <1>1 DEF Insert, Refuse, Double, NowAt
<1>3. /\ call[t].todo # <<>> /\ d \in Doc /\ Writes(call[t].op) /\ d \in Pending(t)
      /\ store[d] \in Record \cup {Nil}
  BY <1>2, NowAtType
<1>4. Replaces(t) /\ Creates(t)
  BY <1>2 DEF Replaces, Undoes, Creates
<1>5. FromObject(t) \in Record /\ FromObject(t)[t] = call[t].val /\ FromObject(t) # Nil
  BY FromObjectType
<1>6. CASE Insert(t)
  <2>1. Stored(t, d, FromObject(t))
    BY <1>6 DEF Insert
  <2>2. QED BY <1>2, <1>3, <1>4, <1>5, <2>1, StoredKeeps
<1>7. CASE Refuse(t)
  BY <1>2, <1>7, FailKeeps DEF Refuse
<1>8. CASE Double(t)
  <2>1. PICK found \in {store[d], FromObject(t)} : Stored(t, d, found)
    BY <1>8 DEF Double
  <2>2. ~call[t].clean
    BY <1>2, <1>3, <1>4, <1>8 DEF PartyInv, DocsInv, CleanHasWritten, Double
  <2>3. QED BY <1>2, <1>3, <1>4, <1>5, <2>1, <2>2, StoredKeeps
<1>9. QED BY <1>1, <1>6, <1>7, <1>8

LEMMA LokiUpdateKeeps ==
  ASSUME PartyInv, NEW t \in Task, LokiUpdate(t)
  PROVE  PartyInv'
<1> DEFINE d == Doc1(t)
<1>1. call[t].phase = "asked" /\ call[t].op = "update" /\ Rest
  BY DEF LokiUpdate, NowAt
<1>2. /\ call[t].todo # <<>> /\ d \in Doc /\ Writes(call[t].op)
      /\ store[d] \in Record \cup {Nil}
  BY <1>1, NowAtType
<1>3. CASE store[d] = Nil
  BY <1>1, <1>3, FailKeeps DEF LokiUpdate
<1>4. CASE store[d] # Nil
  <2>1. Stored(t, d, Merged(store[d], t))
    BY <1>4 DEF LokiUpdate
  <2>2. /\ Merged(store[d], t) \in Record /\ Merged(store[d], t)[t] = call[t].val
        /\ \A u \in Task \ {t} : Merged(store[d], t)[u] = store[d][u]
        /\ Merged(store[d], t) # Nil
    BY <1>2, <1>4, MergedType
  <2>3. QED BY <1>1, <1>2, <1>4, <2>1, <2>2, StoredKeeps
<1>5. QED BY <1>3, <1>4

\* The updates of the other Dbs replace the document, if it is there.
LEMMA ReplacingUpdateKeeps ==
  ASSUME PartyInv, NEW t \in Task, TingoUpdate(t) \/ ZangoUpdate(t)
  PROVE  PartyInv'
<1> DEFINE d == Doc1(t)
<1>1. /\ call[t].phase \in {"asked", "read"} /\ call[t].op = "update" /\ Rest
      /\ backend # "loki"
  BY DEF TingoUpdate, ZangoUpdate, NowAt, IsTingo, IsZango
<1>2. /\ call[t].todo # <<>> /\ d \in Doc /\ Writes(call[t].op) /\ d \in Pending(t)
      /\ store[d] \in Record \cup {Nil}
  BY <1>1, NowAtType
<1>3. Replaces(t)
  BY <1>1 DEF Replaces, Undoes
<1>4. call[t].clean => store[d] # Nil
  BY <1>1, <1>2 DEF PartyInv, DocsInv, CleanHasWritten, Creates
<1>5. PICK new : /\ Stored(t, d, new)
                 /\ \/ store[d] = Nil /\ new = Nil
                    \/ store[d] # Nil /\ new \in Record /\ new[t] = call[t].val
  <2>1. CASE store[d] = Nil
    BY <2>1 DEF TingoUpdate, ZangoUpdate
  <2>2. CASE store[d] # Nil /\ TingoUpdate(t)
    BY <2>2, FromObjectType DEF TingoUpdate, Replaced
  <2>3. CASE store[d] # Nil /\ ZangoUpdate(t)
    <3>1. call[t].old \in Record
      BY <1>1, <2>3 DEF PartyInv, DocsInv, CallInOrder, PartyTypeOK, Call, ZangoUpdate
    <3>2. QED BY <2>3, <3>1, MergedType DEF ZangoUpdate
  <2>4. QED BY <2>1, <2>2, <2>3
<1>6. /\ new \in Record \cup {Nil}
      /\ Creates(t) /\ call[t].clean => new # Nil /\ new[t] = call[t].val
  BY <1>4, <1>5, PartyAssumption
<1>7. QED BY <1>1, <1>2, <1>3, <1>5, <1>6, StoredKeeps

LEMMA RemoveKeeps ==
  ASSUME PartyInv, NEW t \in Task,
         LokiRemove(t) \/ TingoRemove(t) \/ ZangoRemove(t)
  PROVE  PartyInv'
<1>1. /\ call[t].phase \in {"asked", "read"} /\ call[t].op = "remove" /\ Rest
      /\ Stored(t, Doc1(t), Nil)
  BY DEF LokiRemove, TingoRemove, ZangoRemove, NowAt
<1>2. call[t].todo # <<>> /\ Doc1(t) \in Doc /\ Writes(call[t].op)
  BY <1>1, NowAtType
<1>3. Replaces(t) /\ ~Creates(t)
  BY <1>1 DEF Replaces, Undoes, Creates
<1>4. QED BY <1>1, <1>2, <1>3, StoredKeeps

\* ZangoDb remembers the document before it waits.
LEMMA ZangoReadKeeps ==
  ASSUME PartyInv, NEW t \in Task, ZangoRead(t)
  PROVE  PartyInv'
<1> DEFINE d == Doc1(t)
<1>1. call[t].phase = "asked" /\ call[t].op \in {"update", "remove"} /\ Rest
  BY DEF ZangoRead
<1>2. CASE store[d] = Nil /\ call[t].op = "update"
  BY <1>1, <1>2, FailKeeps DEF ZangoRead
<1>3. CASE ~(store[d] = Nil /\ call[t].op = "update")
  <2> DEFINE c == [call[t] EXCEPT !.phase = "read", !.old = store[d]]
  <2>1. call' = [call EXCEPT ![t] = c] /\ store' = store
    <3>1. call' = [call EXCEPT ![t].phase = "read", ![t].old = store[d]] /\ store' = store
      BY <1>3 DEF ZangoRead
    <3>2. QED BY <3>1 DEF PartyInv, PartyTypeOK
  <2>2. call[t] \in Call /\ store[d] \in Record \cup {Nil} /\ call[t].todo # <<>>
    BY <1>1, NowAtType DEF PartyInv, PartyTypeOK
  <2>3. /\ c \in Call
        /\ c.phase = "read" /\ c.old = store[d] /\ c.op = call[t].op /\ c.todo = call[t].todo
        /\ c.clean = call[t].clean /\ c.done = call[t].done /\ c.val = call[t].val
    BY <2>2 DEF Call
  <2>4. call'[t] = c
    BY <2>1 DEF PartyInv, PartyTypeOK
  <2> HIDE DEF c
  <2>5. CallInOrder(t)' /\ Pending(t)' = Pending(t)
    BY <1>1, <1>3, <2>2, <2>3, <2>4 DEF CallInOrder, Pending
  <2>6. QED BY <1>1, <2>1, <2>3, <2>5, GoesOn
<1>4. QED BY <1>2, <1>3

\* A call that goes on with its next document, or is answered: what was clean and
\* has written all its documents is acknowledged, and stands.
LEMMA AnswerKeeps ==
  ASSUME PartyInv, NEW t \in Task, Answer(t)
  PROVE  PartyInv'
<1>1. /\ call[t].phase = "written" /\ call[t] \in Call /\ CallInOrder(t)
      /\ UNCHANGED <<backend, own, store, saved, made, crashes>>
  BY DEF PartyInv, DocsInv, PartyTypeOK, Answer
<1>2. CASE call[t].todo # <<>>
  <2> DEFINE c == [call[t] EXCEPT !.phase = "asked"]
  <2>1. call' = [call EXCEPT ![t] = c] /\ stands' = stands
    <3>1. call' = [call EXCEPT ![t].phase = "asked"] /\ stands' = stands
      BY <1>2 DEF Answer
    <3>2. QED BY <3>1 DEF PartyInv, PartyTypeOK
  <2>2. /\ c \in Call
        /\ c.phase = "asked" /\ c.op = call[t].op /\ c.todo = call[t].todo
        /\ c.clean = call[t].clean /\ c.done = call[t].done /\ c.val = call[t].val
    BY <1>1 DEF Call
  <2>3. call'[t] = c
    BY <2>1 DEF PartyInv, PartyTypeOK
  <2> HIDE DEF c
  <2>4. CallInOrder(t)' /\ Pending(t)' = Pending(t)
    BY <1>1, <1>2, <2>2, <2>3 DEF CallInOrder, Pending
  <2>5. Rest
    BY <1>1, <2>1 DEF Rest
  <2>6. QED BY <1>1, <2>1, <2>2, <2>4, <2>5, GoesOn
<1>3. CASE call[t].todo = <<>>
  <2>1. /\ call' = [call EXCEPT ![t] = NoCall]
        /\ stands' = IF call[t].clean /\ call[t].op # "remove"
                     THEN [stands EXCEPT ![t] = [d \in Doc |->
                             IF d \in call[t].done THEN call[t].val ELSE stands[t][d]]]
                     ELSE stands
    BY <1>3 DEF Answer
  <2>2. NoCall \in Call
    BY PartyAssumption DEF NoCall, Call, NoDocs, Docs
  <2>3. /\ call' \in [Task -> Call]
        /\ call'[t].phase = "idle" /\ call'[t].op = "none" /\ call'[t].todo = <<>>
        /\ \A u \in Task \ {t} : call'[u] = call[u]
    BY <2>1, <2>2 DEF PartyInv, PartyTypeOK, NoCall
  <2>4. /\ stands' \in [Task -> [Doc -> 0..MaxCalls \cup {Nil}]]
        /\ \A u \in Task, d \in Doc :
             stands'[u][d] = IF u = t /\ d \in call[t].done /\ call[t].clean /\ call[t].op # "remove"
                             THEN call[t].val ELSE stands[u][d]
    BY <1>1, <2>1 DEF PartyInv, PartyTypeOK, Call
  <2>5. PartyTypeOK'
    BY <1>1, <2>3, <2>4 DEF PartyInv, PartyTypeOK, own
  <2>6. OwnInv'
    BY <1>1 DEF PartyInv, OwnInv, IdentityComesBack, own
  <2>7. /\ Pending(t) = {} /\ Pending(t)' = {} /\ ~Replaces(t)' /\ ~Creates(t)'
        /\ \A u \in Task \ {t} : /\ Pending(u)' = Pending(u) /\ Creates(u)' = Creates(u)
                                      /\ Replaces(u)' = Replaces(u)
    BY <1>1, <1>3, <2>3 DEF Pending, Creates, Replaces, Undoes
  <2>8. ASSUME NEW u \in Task
        PROVE  CallInOrder(u)' /\ CleanIsAlone(u)' /\ CleanHasWritten(u)'
    <3>1. CASE u = t
      BY <2>3, <2>7, <3>1 DEF CallInOrder, CleanIsAlone, CleanHasWritten
    <3>2. CASE u # t
      <4>1. CallInOrder(u)'
        BY <2>3, <3>2 DEF PartyInv, DocsInv, CallInOrder
      <4>2. CleanIsAlone(u)'
        BY <2>3, <2>7, <3>2 DEF PartyInv, DocsInv, CleanIsAlone
      <4>3. CleanHasWritten(u)'
        BY <1>1, <2>3, <2>7, <3>2 DEF PartyInv, DocsInv, CleanHasWritten
      <4>4. QED BY <4>1, <4>2, <4>3
    <3>3. QED BY <3>1, <3>2
  <2>9. ASSUME NEW u \in Task, NEW d \in Doc
        PROVE  Standing(u, d)'
    <3>1. CASE u = t /\ d \in call[t].done /\ call[t].clean /\ call[t].op # "remove"
      <4>1. Creates(t)
        BY <1>1, <3>1 DEF CallInOrder, Creates, Call
      <4>2. store[d] # Nil /\ store[d][t] = call[t].val
        BY <3>1, <4>1 DEF PartyInv, DocsInv, CleanHasWritten
      <4>3. \A w \in Task \ {t} : Replaces(w) => d \notin Pending(w)
        BY <3>1, <4>1 DEF PartyInv, DocsInv, CleanIsAlone
      <4>4. QED BY <1>1, <2>4, <2>7, <3>1, <4>2, <4>3 DEF Standing
    <3>2. CASE ~(u = t /\ d \in call[t].done /\ call[t].clean /\ call[t].op # "remove")
      <4>1. stands'[u][d] = stands[u][d]
        BY <2>4, <3>2
      <4>2. QED BY <1>1, <2>7, <4>1 DEF PartyInv, DocsInv, Standing
    <3>3. QED BY <3>1, <3>2
  <2>10. QED BY <2>5, <2>6, <2>8, <2>9 DEF PartyInv, DocsInv
<1>4. QED BY <1>2, <1>3

LEMMA RejectKeeps ==
  ASSUME PartyInv, NEW t \in Task, Reject(t)
  PROVE  PartyInv'
  BY FailKeeps DEF Reject

\* A call is made: what it may undo no longer counts as acknowledged, and calls on
\* the same documents are no longer alone.
LEMMA AskKeeps ==
  ASSUME PartyInv, NEW t \in Task,
         NEW op \in {"create", "update", "remove"}, NEW todo \in Seq(Doc), todo # <<>>,
         op = "create" => Len(todo) <= 1,
         Ask(t, op, todo)
  PROVE  PartyInv'
<1> DEFINE hit == {todo[i] : i \in DOMAIN todo}
           Clean == /\ op = "update" => \A d \in hit : store[d] # Nil
                    /\ op = "create" => \A d \in hit : store[d] = Nil
                    /\ ~\E w \in Task \ {t}, d \in hit : Busy(w, d)
           Loses(u) == Undoes(op) /\ \E d \in hit :
                         d \in call[u].done \cup {call[u].todo[i] : i \in DOMAIN call[u].todo}
           new == [NoCall EXCEPT !.phase = "asked", !.op = op, !.todo = todo, !.val = made',
                                       !.clean = Clean]
<1>1. /\ party = "up" /\ call[t].phase = "idle" /\ Make
      /\ UNCHANGED <<backend, own, store, saved, crashes>>
      /\ stands' = [u \in Task |-> [d \in Doc |->
                      IF d \in hit /\ (u = t \/ Undoes(op)) THEN Nil ELSE stands[u][d]]]
      /\ call' = [u \in Task |->
                    IF u = t THEN new
                    ELSE [call[u] EXCEPT !.clean = call[u].clean /\ ~Loses(u)]]
  BY DEF Ask
<1>2. made' \in 0..MaxCalls
  BY <1>1, MakeType DEF PartyInv
<1>3. /\ new \in Call
      /\ new.phase = "asked" /\ new.op = op /\ new.todo = todo /\ new.val = made'
      /\ new.clean = Clean /\ new.done = {}
  <2>1. NoCall \in Call /\ NoCall.done = {}
    BY PartyAssumption DEF NoCall, Call, NoDocs, Docs
  <2>2. Clean \in BOOLEAN
    OBVIOUS
  <2> HIDE DEF Clean
  <2>3. QED BY <1>2, <2>1, <2>2 DEF Call
<1>4. ASSUME NEW u \in Task, u # t
      PROVE  /\ call'[u] \in Call
             /\ call'[u].phase = call[u].phase /\ call'[u].op = call[u].op
             /\ call'[u].todo = call[u].todo /\ call'[u].done = call[u].done
             /\ call'[u].val = call[u].val /\ call'[u].old = call[u].old
             /\ call'[u].clean = (call[u].clean /\ ~Loses(u))
  <2>1. call'[u] = [call[u] EXCEPT !.clean = call[u].clean /\ ~Loses(u)]
    BY <1>1, <1>4
  <2>2. (call[u].clean /\ ~Loses(u)) \in BOOLEAN /\ call[u] \in Call
    BY DEF PartyInv, PartyTypeOK
  <2> HIDE DEF Loses
  <2>3. QED BY <2>1, <2>2 DEF Call
<1>5. call'[t] = new
  BY <1>1
<1> HIDE DEF new
<1>6. call' \in [Task -> Call]
  <2>1. \A u \in Task : call'[u] \in Call
    BY <1>3, <1>4, <1>5
  <2>2. QED BY <1>1, <2>1
<1>7. /\ stands' \in [Task -> [Doc -> 0..MaxCalls \cup {Nil}]]
      /\ \A u \in Task, d \in Doc :
           stands'[u][d] = IF d \in hit /\ (u = t \/ Undoes(op)) THEN Nil ELSE stands[u][d]
  BY <1>1 DEF PartyInv, PartyTypeOK
<1>8. PartyTypeOK'
  BY <1>1, <1>2, <1>6, <1>7 DEF PartyInv, PartyTypeOK, own
<1>9. OwnInv'
  BY <1>1 DEF PartyInv, OwnInv, IdentityComesBack, own
<1>10. /\ Pending(t)' = hit /\ Pending(t) = {}
       /\ Creates(t)' <=> op \in {"create", "update"}
       /\ Replaces(t)' <=> Undoes(op)
       /\ \A u \in Task \ {t} : /\ Pending(u)' = Pending(u) /\ Creates(u)' = Creates(u)
                                     /\ Replaces(u)' = Replaces(u)
  <2>1. Pending(t) = {}
    BY <1>1 DEF PartyInv, DocsInv, CallInOrder, Pending
  <2>2. Pending(t)' = hit
    BY <1>3, <1>5 DEF Pending
  <2>3. /\ Creates(t)' <=> op \in {"create", "update"}
        /\ Replaces(t)' <=> Undoes(op)
    BY <1>1, <1>3, <1>5 DEF Creates, Replaces, Undoes
  <2>4. ASSUME NEW u \in Task \ {t}
        PROVE  /\ Pending(u)' = Pending(u) /\ Creates(u)' = Creates(u)
               /\ Replaces(u)' = Replaces(u)
    <3>1. call'[u].todo = call[u].todo /\ call'[u].op = call[u].op /\ backend' = backend
      BY <1>1, <1>4
    <3>2. Pending(u)' = Pending(u)
      BY <3>1 DEF Pending
    <3>3. Creates(u)' = Creates(u) /\ Replaces(u)' = Replaces(u)
      BY <3>1 DEF Creates, Replaces, Undoes
    <3>4. QED BY <3>2, <3>3
  <2>5. QED BY <2>1, <2>2, <2>3, <2>4
<1>11. ASSUME NEW w \in Task \ {t}, NEW d \in hit, Clean, Replaces(w)
       PROVE  d \notin Pending(w)
  <2>1. CASE call[w].phase = "idle"
    BY <2>1 DEF PartyInv, DocsInv, CallInOrder, Pending
  <2>2. CASE call[w].phase # "idle"
    BY <1>11, <2>2 DEF Busy, Replaces, Pending
  <2>3. QED BY <2>1, <2>2
<1>12. ASSUME NEW u \in Task \ {t}, call'[u].clean, Undoes(op)
       PROVE  call[u].clean /\ \A d \in call[u].done \cup Pending(u) : d \notin hit
  BY <1>4, <1>12 DEF Pending
<1> HIDE DEF Loses, Clean
<1>13. ASSUME NEW u \in Task
       PROVE  CallInOrder(u)' /\ CleanIsAlone(u)' /\ CleanHasWritten(u)'
  <2>1. CASE u = t
    <3>1. CallInOrder(t)'
      BY <1>3, <1>5 DEF CallInOrder
    <3>2. CleanIsAlone(t)'
      BY <1>3, <1>5, <1>10, <1>11 DEF CleanIsAlone
    <3>3. CleanHasWritten(t)'
      BY <1>1, <1>3, <1>5, <1>10 DEF CleanHasWritten, Clean
    <3>4. QED BY <2>1, <3>1, <3>2, <3>3
  <2>2. CASE u # t
    <3>1. CallInOrder(u)'
      BY <1>4, <2>2 DEF PartyInv, DocsInv, CallInOrder
    <3>2. CleanIsAlone(u)'
      <4> SUFFICES ASSUME call'[u].clean, Creates(u), NEW w \in Task \ {u}, Replaces(w)',
                          NEW d \in call[u].done \cup Pending(u)
                   PROVE  d \notin Pending(w)'
        BY <1>4, <1>10, <2>2 DEF CleanIsAlone
      <4>1. CASE w = t
        BY <1>10, <1>12, <2>2, <4>1
      <4>2. CASE w # t
        <5>1. CleanIsAlone(u) /\ call[u].clean /\ Replaces(w)
          BY <1>4, <1>10, <2>2, <4>2 DEF PartyInv, DocsInv
        <5>2. QED BY <1>10, <4>2, <5>1 DEF CleanIsAlone
      <4>3. QED BY <4>1, <4>2
    <3>3. CleanHasWritten(u)'
      <4>1. /\ CleanHasWritten(u) /\ (call'[u].clean => call[u].clean) /\ store' = store
            /\ call'[u].op = call[u].op /\ call'[u].done = call[u].done /\ call'[u].val = call[u].val
            /\ Pending(u)' = Pending(u) /\ Creates(u)' = Creates(u)
        BY <1>1, <1>4, <1>10, <2>2 DEF PartyInv, DocsInv
      <4>2. QED BY <4>1 DEF CleanHasWritten
    <3>4. QED BY <3>1, <3>2, <3>3
  <2>3. QED BY <2>1, <2>2
<1>14. ASSUME NEW u \in Task, NEW d \in Doc
       PROVE  Standing(u, d)'
  BY <1>1, <1>7, <1>10 DEF PartyInv, DocsInv, Standing
<1>15. QED BY <1>8, <1>9, <1>13, <1>14 DEF PartyInv, DocsInv

LEMMA CallKeepsParty ==
  ASSUME PartyInv, NEW t \in Task,
         Create(t) \/ Remove(t) \/ Update(t)
  PROVE  PartyInv'
<1>1. CASE Create(t) \/ Remove(t)
  <2>1. PICK d \in Doc : Ask(t, "create", <<d>>) \/ Ask(t, "remove", <<d>>)
    BY <1>1 DEF Create, Remove
  <2>2. <<d>> \in Seq(Doc) /\ <<d>> # <<>> /\ Len(<<d>>) <= 1
    OBVIOUS
  <2>3. CASE Ask(t, "create", <<d>>)
    BY <2>2, <2>3, AskKeeps
  <2>4. CASE Ask(t, "remove", <<d>>)
    BY <2>2, <2>4, AskKeeps
  <2>5. QED BY <2>1, <2>3, <2>4
<1>2. CASE Update(t)
  <2>1. PICK d \in Doc, e \in Doc :
          Ask(t, "update", <<d>>) \/ Ask(t, "update", <<d, e>>)
    BY <1>2 DEF Update
  <2>2. /\ <<d>> \in Seq(Doc) /\ <<d>> # <<>>
        /\ <<d, e>> \in Seq(Doc) /\ <<d, e>> # <<>>
    OBVIOUS
  <2>3. QED BY <2>1, <2>2, AskKeeps
<1>3. QED BY <1>1, <1>2

LEMMA NextPartyInv ==
  ASSUME PartyInv, [PartyNext]_partyVars
  PROVE  PartyInv'
<1>1. CASE \/ Start \/ StartConfig \/ TouchDirFails \/ LoadIdentity
           \/ ResetIdentity \/ MakeIdentity \/ ReloadIdentity \/ SetIdentity
           \/ IdentityIsSet
  BY <1>1, OwnKeeps
<1>2. CASE \/ LokiStart \/ LokiStarted \/ TingoStart \/ TingoStarted
           \/ ZangoStart \/ ZangoStarted
  BY <1>2, DbKeeps
<1>3. CASE AutoSave \/ Crash
  BY <1>3, AutoSaveKeeps, PartyCrashKeeps
<1>4. ASSUME NEW t \in Task, TaskNext(t)
      PROVE  PartyInv'
  <2>1. CASE Create(t) \/ Remove(t) \/ Update(t)
    BY <2>1, CallKeepsParty
  <2>2. CASE LokiInsert(t) \/ TingoInsert(t) \/ ZangoInsert(t)
    BY <2>2, InsertKeeps
  <2>3. CASE LokiUpdate(t) \/ TingoUpdate(t) \/ ZangoRead(t) \/ ZangoUpdate(t)
    BY <2>3, LokiUpdateKeeps, ReplacingUpdateKeeps, ZangoReadKeeps
  <2>4. CASE LokiRemove(t) \/ TingoRemove(t) \/ ZangoRemove(t)
    BY <2>4, RemoveKeeps
  <2>5. CASE Answer(t) \/ Reject(t)
    BY <2>5, AnswerKeeps, RejectKeeps
  <2>6. QED BY <1>4, <2>1, <2>2, <2>3, <2>4, <2>5 DEF TaskNext
<1>5. CASE UNCHANGED partyVars
  <2>1. UNCHANGED <<backend, party, changing, identity, kept, owned, store, saved, call, stands,
                    made, crashes>>
    BY <1>5 DEF partyVars, own, docs
  <2>2. PartyTypeOK' /\ OwnInv'
    BY <2>1 DEF PartyInv, PartyTypeOK, OwnInv, IdentityComesBack
  <2>3. QED BY <2>1, <2>2, DocsStay DEF PartyInv
<1>6. QED BY <1>1, <1>2, <1>3, <1>4, <1>5 DEF PartyNext

\* The inductive invariant of a party and its Db, for any of the three Dbs, and any
\* tasks, documents, and numbers of calls and crashes.
THEOREM LocalPartyInvariant == PartySpec => []PartyInv
<1>1. PartyInit => PartyInv
  BY InitPartyInv
<1>2. PartyInv /\ [PartyNext]_partyVars => PartyInv'
  BY NextPartyInv
<1>3. QED BY <1>1, <1>2, PTL DEF PartySpec

\* Every variable keeps its type (iparty.js, loki-db.js, tingo-db.js, zango-db.js).
THEOREM LocalPartyTypeOK == PartySpec => []PartyTypeOK
<1>1. PartyInv => PartyTypeOK
  BY DEF PartyInv
<1>2. QED BY <1>1, LocalPartyInvariant, PTL

\* A write that was acknowledged, of a document that was there, stands until a
\* later call that may undo it is made: LokiDb never loses an update of one field
\* to one of another, TingoDb and ZangoDb keep it when the process dies
\* (loki-db.js:321-341, tingo-db.js:258-303, zango-db.js:182-222).
THEOREM LocalPartyAckedStands == PartySpec => []AckedStands
<1>1. PartyInv => AckedStands
  BY DEF PartyInv, DocsInv, Standing, AckedStands
<1>2. QED BY <1>1, LocalPartyInvariant, PTL

\* Only a create brings a document back, or the restart of a LokiDb: no update that
\* read the document before it was removed (zango-db.js:200-214, loki-db.js:321-327,
\* tingo-db.js:280).
THEOREM LocalPartyOnlyCreatesBringBack == PartySpec => OnlyCreatesBringBack
<1> DEFINE Creating(d) == \E t \in Task : NowAt(t, "create") /\ Doc1(t) = d
           Back == \A d \in Doc :
                     store[d] = Nil /\ store'[d] # Nil =>
                       \/ \E t \in Task : NowAt(t, "create") /\ Doc1(t) = d
                       \/ IsLoki /\ Crash
<1>1. ASSUME PartyInv, [PartyNext]_partyVars
      PROVE  Back
  <2> SUFFICES ASSUME NEW d \in Doc, store[d] = Nil, store'[d] # Nil
               PROVE  Creating(d) \/ (IsLoki /\ Crash)
    OBVIOUS
  <2>1. store \in Docs /\ store' # store
    BY <1>1 DEF PartyInv, PartyTypeOK
  <2>2. CASE Crash
    BY <2>1, <2>2 DEF Crash, IsLoki
  <2>3. ASSUME NEW t \in Task, TaskNext(t)
        PROVE  Creating(d)
    <3>1. CASE LokiInsert(t) \/ TingoInsert(t) \/ ZangoInsert(t)
      <4>1. Insert(t) \/ Double(t)
        BY <2>1, <3>1 DEF LokiInsert, TingoInsert, ZangoInsert, Refuse, Fail
      <4>2. NowAt(t, "create") /\ \E new : store' = [store EXCEPT ![Doc1(t)] = new]
        BY <4>1 DEF Insert, Double, Stored
      <4>3. Doc1(t) = d
        BY <2>1, <4>2 DEF Docs
      <4>4. QED BY <4>2, <4>3
    <3>2. CASE LokiUpdate(t) \/ TingoUpdate(t) \/ ZangoUpdate(t)
      <4>1. \E new : /\ store' = [store EXCEPT ![Doc1(t)] = new]
                     /\ store[Doc1(t)] = Nil => new = Nil
        BY <2>1, <3>2 DEF LokiUpdate, TingoUpdate, ZangoUpdate, Stored, Fail
      <4>2. QED BY <2>1, <4>1 DEF Docs
    <3>3. CASE LokiRemove(t) \/ TingoRemove(t) \/ ZangoRemove(t)
      BY <2>1, <3>3 DEF LokiRemove, TingoRemove, ZangoRemove, Stored, Docs
    <3>4. CASE Create(t) \/ Remove(t) \/ Update(t)
      BY <2>1, <3>4 DEF Create, Remove, Update, Ask
    <3>5. CASE Reject(t) \/ ZangoRead(t) \/ Answer(t)
      BY <2>1, <3>5 DEF Reject, Fail, ZangoRead, Answer
    <3>6. QED BY <2>3, <3>1, <3>2, <3>3, <3>4, <3>5 DEF TaskNext
  <2>4. CASE \/ Start \/ StartConfig \/ TouchDirFails \/ LoadIdentity
             \/ ResetIdentity \/ MakeIdentity \/ ReloadIdentity \/ SetIdentity
             \/ IdentityIsSet \/ UNCHANGED partyVars
    BY <2>1, <2>4 DEF Start, StartConfig, TouchDirFails, LoadIdentity, ResetIdentity,
       MakeIdentity, ReloadIdentity, SetIdentity, IdentityIsSet, partyVars, docs
  <2>5. CASE \/ LokiStart \/ LokiStarted \/ TingoStart \/ TingoStarted
             \/ ZangoStart \/ ZangoStarted \/ AutoSave
    BY <2>1, <2>5 DEF LokiStart, LokiStarted, TingoStart, TingoStarted, ZangoStart,
       ZangoStarted, StartDb, DbStarted, AutoSave, docs
  <2>6. QED BY <1>1, <2>2, <2>3, <2>4, <2>5 DEF PartyNext
<1>2. PartyInv /\ [PartyNext]_partyVars => [Back]_partyVars
  BY <1>1
<1>3. QED BY <1>2, LocalPartyInvariant, PTL DEF PartySpec, OnlyCreatesBringBack

\* A party has the identity it was left with, in memory and in its file, whichever
\* step of start or of a change it died in (iparty.js:257-300).
THEOREM LocalPartyIdentityComesBack == PartySpec => []IdentityComesBack
<1>1. PartyInv => IdentityComesBack
  BY DEF PartyInv, OwnInv
<1>2. QED BY <1>1, LocalPartyInvariant, PTL
=============================================================================

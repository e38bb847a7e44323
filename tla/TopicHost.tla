------------------------------ MODULE TopicHost ------------------------------
(* Publish and subscribe: LocalTopicHost, HostTopic and PeerNode (src/topics),
   driven by the operations PeerComms.authorizeOperation takes from connected
   peers (src/comms/peer-comms.js) and by the changes a Db announces.

   The methods of the topic host run without a break; what may happen between
   is what authorizeOperation waits for: the route of the topic, the topic's
   own verdict, and the sends of a publication.  A peer is a PeerComms: it is
   used for one connection, and its state stays AUTHED when that closes. *)

EXTENDS FiniteSets

CONSTANTS
  Peer,          \* connections whose peer is AUTHED
  Topic,         \* normalized paths
  Document,      \* paths that hold /dataparty/document/
  Routed,        \* paths the service has a topic for
  Granted,       \* <<op, peer, path>>: what canAdvertise, canSubscribe and
                 \* canPublish say yes to
  Op, Change,    \* operations and document changes, each used once
  None,
  SendThrows     \* TRUE: a destroyed socket throws; FALSE: it drops what is sent

Kind == {"advertise", "subscribe", "unsubscribe", "publish"}

ASSUME TopicHostAssumption ==
  /\ Document \subseteq Topic /\ Routed \subseteq Topic
  /\ Granted \subseteq Kind \X Peer \X Topic
  /\ None \notin Peer \cup Topic /\ Op \cap Change = {}
  /\ SendThrows \in BOOLEAN

VARIABLES
  open,            \* peers whose socket is open
  topicsByPath,    \* LocalTopicHost.topicsByPath: the topics there are
  nodesByUuid,     \* LocalTopicHost.nodesByUuid: the peers that have a node
  subscribers,     \* HostTopic.subscribers
  advertisers,     \* HostTopic.advertisers
  subscriptions,   \* PeerNode.subscriptions, of the nodes there are
  advertisements,  \* PeerNode.advertisements
  watched,         \* documents whose changes the host listens to
  ops,             \* the operations the host received
  outbox,          \* <<msg, p>>: msg is being sent to p
  addressed,       \* the peers each message was for
  got              \* the peers each message was written to

hostVars == <<topicsByPath, nodesByUuid, subscribers, advertisers,
              subscriptions, advertisements, watched>>
wireVars == <<outbox, addressed, got>>
vars == <<open, hostVars, ops, wireVars>>

Msg == Op \cup Change
Stage == {"unused", "routing", "asking", "sending",
          "success", "failed", "denied", "lost"}
Operation == [op : Kind \cup {None}, peer : Peer \cup {None},
              topic : Topic \cup {None}, stage : Stage]

TypeOK ==
  /\ open           \subseteq Peer
  /\ topicsByPath   \subseteq Topic
  /\ nodesByUuid    \subseteq Peer
  /\ subscribers    \in [Topic -> SUBSET Peer]
  /\ advertisers    \in [Topic -> SUBSET Peer]
  /\ subscriptions  \in [Peer -> SUBSET Topic]
  /\ advertisements \in [Peer -> SUBSET Topic]
  /\ watched        \subseteq Document
  /\ ops            \in [Op -> Operation]
  /\ outbox         \subseteq Msg \X Peer
  /\ addressed      \in [Msg -> SUBSET Peer]
  /\ got            \in [Msg -> SUBSET Peer]

Init ==
  /\ open           = Peer
  /\ topicsByPath   = {}
  /\ nodesByUuid    = {}
  /\ subscribers    = [t \in Topic |-> {}]
  /\ advertisers    = [t \in Topic |-> {}]
  /\ subscriptions  = [p \in Peer |-> {}]
  /\ advertisements = [p \in Peer |-> {}]
  /\ watched        = {}
  /\ ops            = [o \in Op |-> [op |-> None, peer |-> None, topic |-> None,
                                     stage |-> "unused"]]
  /\ outbox         = {}
  /\ addressed      = [m \in Msg |-> {}]
  /\ got            = [m \in Msg |-> {}]

-----------------------------------------------------------------------------
(* The methods of LocalTopicHost *)

\* getTopic makes the topic of a path when there is none, ...
GetTopic(t) == topicsByPath' = topicsByPath \cup {t}

\* ... and getNodeByUuid the node of a peer: PeerComms.uuid names the peer.
GetNode(p) == nodesByUuid' = nodesByUuid \cup {p}

Advertise(p, t) ==
  /\ GetTopic(t) /\ GetNode(p)
  /\ advertisers'    = [advertisers EXCEPT ![t] = @ \cup {p}]
  /\ advertisements' = [advertisements EXCEPT ![p] = @ \cup {t}]
  /\ UNCHANGED <<subscribers, subscriptions, watched>>

MSubscribe(p, t) ==   \* mutant: the node is not told
  /\ GetTopic(t) /\ GetNode(p)
  /\ subscribers'   = [subscribers EXCEPT ![t] = @ \cup {p}]
  /\ UNCHANGED <<advertisers, advertisements, subscriptions, watched>>

\* The Db's changes of a document are listened to from the first subscription
\* on, if that is what makes the topic.
Subscribe(p, t) ==
  /\ GetTopic(t) /\ GetNode(p)
  /\ subscribers'   = [subscribers EXCEPT ![t] = @ \cup {p}]
  /\ subscriptions' = [subscriptions EXCEPT ![p] = @ \cup {t}]
  /\ watched' = IF t \in Document \ topicsByPath THEN watched \cup {t} ELSE watched
  /\ UNCHANGED <<advertisers, advertisements>>

\* PeerNode.unsubscribe deletes a subscription only when there is none, so the
\* node keeps it.
Unsubscribe(p, t) ==
  /\ GetTopic(t) /\ GetNode(p)
  /\ subscribers'  = [subscribers EXCEPT ![t] = @ \ {p}]
  /\ UNCHANGED <<advertisers, advertisements, subscriptions, watched>>

\* The node leaves the topics it knows of, and is forgotten.
DestroyNode(p) ==
  /\ subscribers'    = [t \in Topic |-> IF t \in subscriptions[p]
                                        THEN subscribers[t] \ {p} ELSE subscribers[t]]
  /\ advertisers'    = [t \in Topic |-> IF t \in advertisements[p]
                                        THEN advertisers[t] \ {p} ELSE advertisers[t]]
  /\ nodesByUuid'    = nodesByUuid \ {p}
  /\ subscriptions'  = [subscriptions EXCEPT ![p] = {}]
  /\ advertisements' = [advertisements EXCEPT ![p] = {}]
  /\ UNCHANGED <<topicsByPath, watched>>

MAudience(t, sender) ==   \* mutant: only the node is asked, which forgets nothing
  {q \in Peer : q # sender /\ t \in subscriptions[q]}

\* The peers that HostTopic.publish sends to.
Audience(t, sender) ==
  {q \in subscribers[t] : q # sender /\ t \in subscriptions[q]}

Post(m, t, sender) ==
  LET to == Audience(t, sender)
  IN /\ outbox'    = outbox \cup ({m} \X to)
     /\ addressed' = [addressed EXCEPT ![m] = to]
     /\ UNCHANGED got

-----------------------------------------------------------------------------
(* The operations of a peer *)

Ends(o, stage) == ops' = [ops EXCEPT ![o].stage = stage]

\* An operation arrives.  An unsubscribe is done at once and needs no leave.
Receive(o, p, kind, t) ==
  /\ ops[o].stage = "unused" /\ p \in open
  /\ ops' = [ops EXCEPT ![o] = [op |-> kind, peer |-> p, topic |-> t,
               stage |-> IF kind = "unsubscribe" THEN "success" ELSE "routing"]]
  /\ IF kind = "unsubscribe" THEN Unsubscribe(p, t) ELSE UNCHANGED hostVars
  /\ UNCHANGED <<open, wireVars>>

\* hostRunner.getTopic returns.
Route(o) ==
  /\ ops[o].stage = "routing"
  /\ Ends(o, IF ops[o].topic \in Routed THEN "asking" ELSE "failed")
  /\ UNCHANGED <<open, hostVars, wireVars>>

MMay(o) == TRUE   \* mutant: the topic's verdict is not looked at

\* The topic's own canAdvertise, canSubscribe or canPublish said yes.
May(o) == <<ops[o].op, ops[o].peer, ops[o].topic>> \in Granted

Deny(o) ==
  /\ ops[o].stage = "asking" /\ ~May(o)
  /\ Ends(o, "denied")
  /\ UNCHANGED <<open, hostVars, wireVars>>

AllowAdvertise(o) ==
  /\ ops[o].stage = "asking" /\ ops[o].op = "advertise" /\ May(o)
  /\ Advertise(ops[o].peer, ops[o].topic)
  /\ Ends(o, "success")
  /\ UNCHANGED <<open, wireVars>>

AllowSubscribe(o) ==
  /\ ops[o].stage = "asking" /\ ops[o].op = "subscribe" /\ May(o)
  /\ Subscribe(ops[o].peer, ops[o].topic)
  /\ Ends(o, "success")
  /\ UNCHANGED <<open, wireVars>>

\* HostTopic.publish throws unless the sender advertised; without a topic there
\* is nothing to call.  Either way nobody answers the peer.
AllowPublish(o) ==
  LET p == ops[o].peer
      t == ops[o].topic
  IN /\ ops[o].stage = "asking" /\ ops[o].op = "publish" /\ May(o)
     /\ GetNode(p)
     /\ IF t \in topicsByPath /\ p \in advertisers[t]
        THEN Post(o, t, p) /\ Ends(o, "sending")
        ELSE Ends(o, "lost") /\ UNCHANGED wireVars
     /\ UNCHANGED <<open, topicsByPath, subscribers, advertisers, subscriptions,
                    advertisements, watched>>

MSent(o) == TRUE   \* mutant: the sends are not waited for

\* Every send of publication o ended.
Sent(o) == \A q \in Peer : <<o, q>> \notin outbox

AnswerPublish(o) ==
  /\ ops[o].stage = "sending" /\ Sent(o)
  /\ Ends(o, "success")
  /\ UNCHANGED <<open, hostVars, wireVars>>

\* A message is encrypted and written to the socket of q.  When that throws,
\* so does the publication, and nobody answers its peer.
Write(m, q) ==
  /\ <<m, q>> \in outbox
  /\ outbox' = outbox \ {<<m, q>>}
  /\ got' = IF q \in open THEN [got EXCEPT ![m] = @ \cup {q}] ELSE got
  /\ IF SendThrows /\ q \notin open /\ m \in Op /\ ops[m].stage = "sending"
     THEN Ends(m, "lost") ELSE UNCHANGED ops
  /\ UNCHANGED <<open, hostVars, addressed>>

\* PeerComms.close, from the socket's close event.
Close(p) ==
  /\ p \in open
  /\ open' = open \ {p}
  /\ DestroyNode(p)
  /\ UNCHANGED <<ops, wireVars>>

\* The Db announces a change of the document of t, and handleDocChange hears it.
HandleDocChange(m, t) ==
  /\ addressed[m] = {} /\ t \in watched
  /\ Post(m, t, None)
  /\ UNCHANGED <<open, hostVars, ops>>

Next ==
  \/ \E o \in Op :
       \/ \E p \in Peer, kind \in Kind, t \in Topic : Receive(o, p, kind, t)
       \/ Route(o) \/ Deny(o)
       \/ AllowAdvertise(o) \/ AllowSubscribe(o) \/ AllowPublish(o)
       \/ AnswerPublish(o)
  \/ \E m \in Msg, q \in Peer : Write(m, q)
  \/ \E p \in Peer : Close(p)
  \/ \E m \in Change, t \in Document : HandleDocChange(m, t)

Spec == Init /\ [][Next]_vars

-----------------------------------------------------------------------------
(* Properties *)

\* What a topic knows of a peer, the peer's node knows of the topic, so that
\* destroyNode, which asks the node, leaves nothing of the peer in any topic.
\* The node may know more: it forgets no subscription.
NodesAgree ==
  \A t \in Topic :
     /\ \A p \in subscribers[t] : p \in nodesByUuid /\ t \in subscriptions[p]
     /\ \A p \in advertisers[t] : p \in nodesByUuid /\ t \in advertisements[p]
     /\ t \in topicsByPath \/ subscribers[t] \cup advertisers[t] = {}

\* However operations of several peers overlap, a peer is written a message
\* only of a topic it may subscribe to, of a peer that may both advertise and
\* publish there, and never its own.
OnlyGranted ==
  \A o \in Op : \A q \in got[o] :
     /\ q # ops[o].peer
     /\ <<"subscribe", q, ops[o].topic>> \in Granted
     /\ {<<"advertise", ops[o].peer, ops[o].topic>>, 
         <<"publish", ops[o].peer, ops[o].topic>>} \subseteq Granted

\* A publication that was answered was written to all it was for, except those
\* that hung up.
AnsweredIsWritten ==
  \A o \in Op : ops[o].op = "publish" /\ ops[o].stage = "success" =>
     addressed[o] \subseteq got[o] \cup (Peer \ open)

\* Hanging up takes a peer out of every topic, whatever it advertised,
\* subscribed to and unsubscribed from before.  (ImplementsPubSub says so too: only
\* PubSub's HangUp makes a peer absent.)
HangUpLeaves ==
  [][\A p \in Peer : p \in open /\ p \notin open' =>
       \A t \in Topic : p \notin subscribers'[t] \cup advertisers'[t]]_vars

-----------------------------------------------------------------------------
(* The refinement: PubSub keeps who is in a topic, whom a message is for and
   who has it; nodes, routes, verdicts and the sends under way do not show. *)

\* How far the publication of an operation is, if it has one.
Publication(o) ==
  IF ops[o].op = "publish" /\ ops[o].stage \in {"sending", "success", "lost"}
  THEN ops[o].stage ELSE "new"

P == INSTANCE PubSub WITH
       present <- open, subscribed <- subscribers, advertised <- advertisers,
       publication <- [o \in Op |-> Publication(o)],
       addressed <- addressed, delivered <- got

\* Every step of the host is a step of PubSub or does not show in it.  A message
\* goes to those who are in the topic, though HostTopic.publish asks each node
\* and a node forgets no subscription; hanging up empties every topic, though
\* destroyNode asks the node; a publication is answered when its audience has
\* it, and left unanswered only when one of them hung up or its peer did not
\* advertise the topic.
ImplementsPubSub == P!PubSubSpec
=============================================================================

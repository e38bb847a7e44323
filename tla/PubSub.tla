------------------------------- MODULE PubSub --------------------------------
(* What the topics of a host promise the peers connected to it: who is in a
   topic was granted it, a message is for those who are in its topic when it
   is published, and a publication is confirmed when all of them who are still
   there have it.  TopicHost implements this. *)

CONSTANTS Peer, Topic, Granted, Op, Change   \* as in TopicHost

VARIABLES present,      \* peers that did not hang up
          subscribed,   \* of each topic, who listens
          advertised,   \* ... and who may publish
          publication,  \* how far the publication of an operation is
          addressed,    \* whom each message is for
          delivered     \* who has it

members == <<subscribed, advertised>>
vars == <<present, members, publication, addressed, delivered>>

Init ==
  /\ present     = Peer
  /\ subscribed  = [t \in Topic |-> {}]
  /\ advertised  = [t \in Topic |-> {}]
  /\ publication = [o \in Op |-> "new"]
  /\ addressed   = [m \in Op \cup Change |-> {}]
  /\ delivered   = [m \in Op \cup Change |-> {}]

\* A peer that hung up may still come in: what it asked for is under way.
Listen(p, t) ==
  /\ <<"subscribe", p, t>> \in Granted
  /\ subscribed' = [subscribed EXCEPT ![t] = @ \cup {p}]
  /\ UNCHANGED <<present, advertised, publication, addressed, delivered>>

Offer(p, t) ==
  /\ <<"advertise", p, t>> \in Granted
  /\ advertised' = [advertised EXCEPT ![t] = @ \cup {p}]
  /\ UNCHANGED <<present, subscribed, publication, addressed, delivered>>

Leave(p, t) ==
  /\ p \in present
  /\ subscribed' = [subscribed EXCEPT ![t] = @ \ {p}]
  /\ UNCHANGED <<present, advertised, publication, addressed, delivered>>

\* A peer that hangs up is out of every topic at once.
HangUp(p) ==
  /\ present'    = present \ {p}
  /\ subscribed' = [t \in Topic |-> subscribed[t] \ {p}]
  /\ advertised' = [t \in Topic |-> advertised[t] \ {p}]
  /\ UNCHANGED <<publication, addressed, delivered>>

\* What a peer publishes is for all who listen but itself, ...
Publish(o, p, t) ==
  /\ publication[o] = "new"
  /\ <<"publish", p, t>> \in Granted /\ p \in advertised[t]
  /\ publication' = [publication EXCEPT ![o] = "sending"]
  /\ addressed'   = [addressed EXCEPT ![o] = subscribed[t] \ {p}]
  /\ UNCHANGED <<present, members, delivered>>

\* ... if it advertised the topic, ...
Refuse(o, p, t) ==
  /\ publication[o] = "new" /\ p \notin advertised[t]
  /\ publication' = [publication EXCEPT ![o] = "lost"]
  /\ UNCHANGED <<present, members, addressed, delivered>>

\* ... and a change of a document is for all who listen.
Announce(m, t) ==
  /\ addressed[m] = {}
  /\ addressed' = [addressed EXCEPT ![m] = subscribed[t]]
  /\ UNCHANGED <<present, members, publication, delivered>>

Deliver(m, q) ==
  /\ q \in addressed[m] \cap present
  /\ delivered' = [delivered EXCEPT ![m] = @ \cup {q}]
  /\ UNCHANGED <<present, members, publication, addressed>>

Confirm(o) ==
  /\ publication[o] = "sending" /\ addressed[o] \cap present \subseteq delivered[o]
  /\ publication' = [publication EXCEPT ![o] = "success"]
  /\ UNCHANGED <<present, members, addressed, delivered>>

\* A publication is given up only when somebody it was for hung up.
GiveUp(o) ==
  /\ publication[o] = "sending" /\ ~(addressed[o] \subseteq present)
  /\ publication' = [publication EXCEPT ![o] = "lost"]
  /\ UNCHANGED <<present, members, addressed, delivered>>

Next ==
  \/ \E p \in Peer :
       \/ HangUp(p)
       \/ \E t \in Topic :
            \/ Listen(p, t) \/ Offer(p, t) \/ Leave(p, t)
            \/ \E o \in Op : Publish(o, p, t) \/ Refuse(o, p, t)
  \/ \E m \in Change, t \in Topic : Announce(m, t)
  \/ \E m \in Op \cup Change, q \in Peer : Deliver(m, q)
  \/ \E o \in Op : Confirm(o) \/ GiveUp(o)

PubSubSpec == Init /\ [][Next]_vars
=============================================================================

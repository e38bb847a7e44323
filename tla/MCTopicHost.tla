----------------------------- MODULE MCTopicHost -----------------------------
EXTENDS TopicHost, TLC

CONSTANTS p1, p2, doc, chat, o1, o2, o3, o4, change

MCPeer   == {p1, p2}
MCTopic  == {doc, chat}
MCFour   == {o1, o2, o3, o4}
Interchangeable == Permutations(MCFour)

\* p1 may do everything, p2 may only listen.
MCGranted == (Kind \X {p1} \X MCTopic) \cup ({"subscribe"} \X {p2} \X MCTopic)
                \cup {<<"publish", p2, chat>>}
=============================================================================

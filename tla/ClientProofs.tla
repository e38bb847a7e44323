---------------------------- MODULE ClientProofs -----------------------------
(* What an application's side of a party promises.  The query backend, for any
   number of calls and specs, whatever fails outside: with or without debouncing,
   deduplication and timeouts; and with debouncing, that it keeps the promise of
   Requests, that calls that share a crufl end alike, and what their crufls,
   timers and answers leave behind.  The connection, for any number of
   websockets, keys and hours: a client that makes its REST party opens no
   websocket under a key the service does not know. *)

EXTENDS QueryBackend, EphemeralClient, TLAPS

-----------------------------------------------------------------------------
(* The query backend *)

\* An idle call has made nothing yet.
Fresh ==
  \A c \in Call : outcome[c] = "idle" =>
     op[c] = "none" /\ spec[c] = None /\ Root(c) \notin crufls

SpecOfFind == \A c \in Call : spec[c] # None <=> op[c] = "find"

IInv == /\ TypeOK /\ Fresh /\ SpecOfFind
        /\ Watched /\ TimerCovered /\ FindMapSound

-----------------------------------------------------------------------------
(* The two crufls of a call *)

LEMMA UuidFacts ==
  /\ \A c \in Call : /\ Root(c) \in Uuid /\ Root(c)[1] = c /\ Root(c)[2] = 0
                     /\ Nested(c) \in Uuid /\ Nested(c)[1] = c /\ Nested(c)[2] = 1
  /\ \A u \in Uuid : /\ u[1] \in Call
                     /\ u = Root(u[1]) \/ u = Nested(u[1])
                     /\ u[2] = 0 => u = Root(u[1])
  /\ \A c, d \in Call : Root(c) # Nested(d) /\ (Root(c) = Root(d) => c = d)
                        /\ (Nested(c) = Nested(d) => c = d)
BY DEF Uuid, Root, Nested

LEMMA InitIInv == Init => IInv
<1> SUFFICES ASSUME Init PROVE IInv
  OBVIOUS
<1>1. TypeOK
  BY DEF Init, TypeOK, Outcome, Op, Answer
<1>2. Fresh /\ SpecOfFind
  BY DEF Init, Fresh, SpecOfFind
<1>3. Watched /\ TimerCovered
  BY DEF Init, Watched, TimerCovered
<1>4. FindMapSound
  BY DEF Init, FindMapSound
<1> QED
  BY <1>1, <1>2, <1>3, <1>4 DEF IInv

-----------------------------------------------------------------------------
(* Each action preserves the invariant *)

LEMMA SendType ==
  ASSUME TypeOK, NEW new \in SUBSET Uuid, NEW open \in SUBSET asks, Send(new, open)
  PROVE  send_queue' \subseteq Uuid /\ send_timer' \in BOOLEAN /\ asks' \subseteq SUBSET Uuid
<1>1. CASE Debounce
  BY <1>1 DEF Send, TypeOK
<1>2. CASE ~Debounce
  <2>1. \A u \in new : {u} \in SUBSET Uuid
    OBVIOUS
  <2> QED
    BY <1>2, <2>1 DEF Send, TypeOK
<1> QED
  BY <1>1, <1>2

LEMMA RegisterIInv ==
  ASSUME IInv, NEW c \in Call, outcome[c] = "idle", Register(c),
         NEW o \in {"find", "lookup", "modify"}, op' = [op EXCEPT ![c] = o],
         NEW s \in Spec \cup {None}, spec' = [spec EXCEPT ![c] = s],
         s # None <=> o = "find",
         FindDedup /\ o = "find" => find_map[s] = None,
         find_map' = IF FindDedup /\ o = "find" THEN [find_map EXCEPT ![s] = c]
                     ELSE find_map
  PROVE  IInv'
<1> USE UuidFacts DEF IInv
<1>1. TypeOK'
  <2>1. send_queue' \subseteq Uuid /\ send_timer' \in BOOLEAN /\ asks' \subseteq SUBSET Uuid
    BY SendType DEF Register
  <2>2. timers' \subseteq Uuid /\ crufls' \subseteq Uuid /\ result' \in [Uuid -> Answer \cup {"null"}]
    BY DEF TypeOK, Register, Arm
  <2>3. op' \in [Call -> Op] /\ spec' \in [Call -> Spec \cup {None}]
    BY DEF TypeOK, Op
  <2>4. outcome' \in [Call -> Outcome] /\ awaits' \in [Call -> Call \cup {None}]
    BY DEF TypeOK, Register, Outcome
  <2>5. find_map' \in [Spec -> Call \cup {None}]
    BY DEF TypeOK
  <2> QED
    BY <2>1, <2>2, <2>3, <2>4, <2>5 DEF TypeOK
<1>2. Fresh' /\ SpecOfFind'
  BY DEF TypeOK, Register, Fresh, SpecOfFind
<1>3. Watched'
  <2> SUFFICES ASSUME NEW d \in Call, outcome'[d] = "pending",
                      Root(awaits'[d]) \notin crufls'
               PROVE  awaits'[d] = d /\ Sending(Root(d))'
    BY DEF Watched
  <2>1. d # c /\ outcome[d] = "pending" /\ Root(awaits[d]) \notin crufls
        /\ awaits'[d] = awaits[d]
    BY DEF Register, TypeOK
  <2> QED
    BY <2>1 DEF Watched, Sending, Register, Send
<1>4. TimerCovered'
  <2> SUFFICES ASSUME TimeoutSet, NEW u \in crufls', u \notin timers'
               PROVE  IsFind(u)' /\ (Nested(u[1]) \in timers' \/ Sending(Nested(u[1]))')
    BY DEF TimerCovered
  <2>1. u \in crufls /\ u \notin timers /\ u \in Uuid
    BY DEF Register, Arm, TypeOK
  <2>2. u[1] # c
    BY <2>1 DEF TimerCovered, IsFind, Fresh
  <2>3. IsFind(u)'
    BY <2>1, <2>2 DEF TimerCovered, IsFind, TypeOK
  <2> QED
    BY <2>1, <2>3 DEF TimerCovered, Sending, Register, Send, Arm
<1>5. FindMapSound'
  <2>1. ASSUME NEW t \in Spec, find_map'[t] # None
        PROVE  /\ op'[find_map'[t]] = "find" /\ spec'[find_map'[t]] = t
               /\ Root(find_map'[t]) \in crufls'
    <3>1. CASE find_map'[t] = find_map[t] /\ find_map[t] # c
      BY <2>1, <3>1 DEF FindMapSound, Register, TypeOK
    <3>2. CASE find_map'[t] # find_map[t] \/ find_map[t] = c
      <4>1. find_map[t] # c
        BY ConstantsAssumption DEF FindMapSound, Fresh
      <4>2. o = "find" /\ t = s /\ find_map'[t] = c
        BY <3>2, <4>1 DEF TypeOK
      <4> QED
        BY <4>2 DEF Register, TypeOK
    <3> QED
      BY <3>1, <3>2
  <2>2. ASSUME FindDedup, NEW d \in Call, IsFind(Root(d))', Root(d) \in crufls'
        PROVE  find_map'[spec'[d]] = d
    <3>1. CASE d = c
      BY <2>2, <3>1, ConstantsAssumption DEF IsFind, TypeOK
    <3>2. CASE d # c
      <4>1. IsFind(Root(d)) /\ Root(d) \in crufls /\ find_map[spec[d]] = d
            /\ spec'[d] = spec[d]
        BY <2>2, <3>2 DEF IsFind, TypeOK, Register, FindMapSound
      <4>2. o = "find" => spec[d] # s
        BY <2>2, <4>1, ConstantsAssumption
      <4> QED
        BY <4>1, <4>2 DEF TypeOK
    <3> QED
      BY <3>1, <3>2
  <2> QED
    BY <2>1, <2>2 DEF FindMapSound
<1> QED
  BY <1>1, <1>2, <1>3, <1>4, <1>5

LEMMA JoinFindIInv ==
  ASSUME IInv, NEW c \in Call, NEW s \in Spec, JoinFind(c, s)
  PROVE  IInv'
<1> USE UuidFacts DEF IInv, JoinFind
<1>1. TypeOK'
  BY DEF TypeOK, Op, Outcome
<1>2. Fresh' /\ SpecOfFind'
  BY ConstantsAssumption DEF TypeOK, Fresh, SpecOfFind
<1>3. Watched'
  <2>1. Root(find_map[s]) \in crufls
    BY DEF FindMapSound
  <2>2. ASSUME NEW d \in Call, outcome'[d] = "pending", d # c
        PROVE  outcome[d] = "pending" /\ awaits'[d] = awaits[d]
    BY <2>2 DEF TypeOK
  <2>3. awaits'[c] = find_map[s]
    BY DEF TypeOK
  <2>4. UNCHANGED <<crufls, asks, send_queue>>
    OBVIOUS
  <2> HIDE DEF JoinFind
  <2> QED
    BY <2>1, <2>2, <2>3, <2>4 DEF Watched, Sending
<1>4. TimerCovered'
  BY DEF TypeOK, TimerCovered, IsFind, Sending
<1>5. FindMapSound'
  BY DEF TypeOK, FindMapSound, IsFind, Fresh
<1> QED
  BY <1>1, <1>2, <1>3, <1>4, <1>5

LEMMA LookupHitIInv ==
  ASSUME IInv, NEW c \in Call, LookupHit(c)
  PROVE  IInv'
<1> USE UuidFacts DEF IInv, LookupHit
<1>1. TypeOK'
  BY DEF TypeOK, Op, Outcome
<1>2. Fresh' /\ SpecOfFind'
  BY DEF TypeOK, Fresh, SpecOfFind
<1>3. Watched'
  BY DEF TypeOK, Watched, Sending
<1>4. TimerCovered'
  <2> SUFFICES ASSUME TimeoutSet, NEW u \in crufls, u \notin timers
               PROVE  IsFind(u)' /\ (Nested(u[1]) \in timers \/ Sending(Nested(u[1])))
    BY DEF TimerCovered, Sending
  <2>1. u \in Uuid /\ IsFind(u) /\ (Nested(u[1]) \in timers \/ Sending(Nested(u[1])))
    BY DEF TimerCovered, TypeOK
  <2>2. u[1] # c
    BY <2>1 DEF IsFind, Fresh
  <2> QED
    BY <2>1, <2>2 DEF IsFind, TypeOK
<1>5. FindMapSound'
  BY DEF TypeOK, FindMapSound, IsFind, Fresh
<1> QED
  BY <1>1, <1>2, <1>3, <1>4, <1>5

LEMMA OnSendTimerIInv ==
  ASSUME IInv, OnSendTimer
  PROVE  IInv'
<1> USE DEF IInv, OnSendTimer
<1>1. TypeOK'
  BY DEF TypeOK
<1>2. Fresh' /\ SpecOfFind' /\ FindMapSound'
  BY DEF Fresh, SpecOfFind, FindMapSound, IsFind
<1>3. Watched' /\ TimerCovered'
  BY DEF Watched, TimerCovered, Sending, IsFind
<1> QED
  BY <1>1, <1>2, <1>3

\* The completion of the Root crufls of the calls in done leaves find_map
\* sound, when no other Root crufl goes and nothing else is said of finds.
LEMMA UnmapSound ==
  ASSUME IInv, NEW done \in SUBSET Call, Unmap(done), UNCHANGED <<op, spec>>,
         \A c \in Call : Root(c) \in crufls' <=> Root(c) \in crufls /\ c \notin done
  PROVE  FindMapSound'
<1> USE UuidFacts DEF IInv
<1>1. ASSUME NEW s \in Spec, find_map'[s] # None
      PROVE  /\ op'[find_map'[s]] = "find" /\ spec'[find_map'[s]] = s
             /\ Root(find_map'[s]) \in crufls'
  <2>1. find_map'[s] = find_map[s] /\ find_map[s] \in Call
    BY <1>1 DEF Unmap, TypeOK
  <2>2. find_map[s] \notin done
    BY <1>1, <2>1 DEF Unmap, FindMapSound
  <2> QED
    BY <1>1, <2>1, <2>2 DEF FindMapSound
<1>2. ASSUME FindDedup, NEW c \in Call, IsFind(Root(c))', Root(c) \in crufls'
      PROVE  find_map'[spec'[c]] = c
  <2>1. IsFind(Root(c)) /\ Root(c) \in crufls /\ c \notin done /\ find_map[spec[c]] = c
    BY <1>2 DEF IsFind, FindMapSound
  <2> DEFINE s == spec[c]
  <2>2. s \in Spec
    BY <2>1, <1>2 DEF TypeOK, IsFind, SpecOfFind
  <2>3. ASSUME NEW d \in done, Root(d) \in crufls, spec[d] = s PROVE FALSE
    <3>1. op[d] = "find"
      BY <2>2, <2>3, ConstantsAssumption DEF SpecOfFind
    <3>2. find_map[s] = d
      BY <1>2, <2>3, <3>1 DEF FindMapSound, IsFind
    <3> QED
      BY <2>1, <3>2
  <2> QED
    BY <2>1, <2>2, <2>3 DEF Unmap
<1> QED
  BY <1>1, <1>2 DEF FindMapSound

LEMMA OnTimeoutIInv ==
  ASSUME IInv, NEW u \in Uuid, OnTimeout(u)
  PROVE  IInv'
<1> USE UuidFacts DEF IInv
<1> DEFINE c == u[1]
           done == IF u = Nested(c) /\ Sending(u) THEN {} ELSE {c}
<1>0. /\ c \in Call /\ done \in SUBSET Call
      /\ u \in timers /\ timers' = timers \ {u}
      /\ outcome' = [d \in Call |->
                       IF outcome[d] = "pending" /\ awaits[d] \in done /\ ~(d = c /\ Sending(u))
                       THEN "rejected" ELSE outcome[d]]
      /\ crufls' = crufls \ ({u} \cup {Root(d) : d \in done})
      /\ Unmap(done)
      /\ UNCHANGED <<op, spec, awaits, result, send_queue, send_timer, asks>>
  BY DEF OnTimeout
<1>1. TypeOK'
  BY <1>0 DEF TypeOK, Outcome, Unmap
<1>2. Fresh' /\ SpecOfFind'
  BY <1>0 DEF Fresh, SpecOfFind
<1>3. Watched'
  <2> SUFFICES ASSUME NEW d \in Call, outcome'[d] = "pending",
                      Root(awaits[d]) \notin crufls'
               PROVE  awaits[d] = d /\ Sending(Root(d))
    BY <1>0 DEF Watched, Sending
  <2>1. outcome[d] = "pending" /\ (awaits[d] \in done => d = c /\ Sending(u))
    BY <1>0
  <2>2. CASE Root(awaits[d]) \notin crufls
    BY <2>1, <2>2 DEF Watched
  <2>3. CASE Root(awaits[d]) \in crufls
    <3>1. awaits[d] \in Call \cup {None}
      BY DEF TypeOK
    <3>2. Root(awaits[d]) = u \/ \E e \in done : Root(awaits[d]) = Root(e)
      BY <1>0, <2>3
    <3>3. awaits[d] = c /\ c \in done
      BY <1>0, <3>1, <3>2 DEF Root, Nested
    <3>4. d = c /\ Sending(u) /\ u = Root(c)
      BY <2>1, <3>3, <1>0
    <3> QED
      BY <3>3, <3>4
  <2> QED
    BY <2>2, <2>3
<1>4. TimerCovered'
  <2> SUFFICES ASSUME TimeoutSet, NEW v \in crufls', v \notin timers'
               PROVE  IsFind(v) /\ (Nested(v[1]) \in timers' \/ Sending(Nested(v[1])))
    BY <1>0 DEF TimerCovered, IsFind, Sending
  <2>1. v \in Uuid /\ v \in crufls /\ v # u /\ v \notin timers
    BY <1>0 DEF TypeOK
  <2>2. IsFind(v) /\ (Nested(v[1]) \in timers \/ Sending(Nested(v[1])))
    BY <2>1 DEF TimerCovered
  <2>3. CASE Nested(v[1]) = u /\ ~Sending(u)
    <3>1. v = Root(c) /\ c \in done
      BY <2>1, <2>2, <2>3, <1>0 DEF IsFind
    <3> QED
      BY <1>0, <3>1
  <2> QED
    BY <1>0, <2>2, <2>3
<1>5. FindMapSound'
  <2>1. \A d \in Call : Root(d) \in crufls' <=> Root(d) \in crufls /\ d \notin done
    BY <1>0
  <2> QED
    BY <1>0, <2>1, UnmapSound
<1> QED
  BY <1>1, <1>2, <1>3, <1>4, <1>5

LEMMA CallThrowsIInv ==
  ASSUME IInv, NEW a \in asks, CallThrows(a)
  PROVE  IInv'
<1> USE UuidFacts DEF IInv
<1>1. CASE Debounce
  <2>1. asks' = asks \ {a} /\ UNCHANGED <<op, spec, outcome, awaits, crufls, result,
            timers, send_queue, send_timer, find_map>>
    BY <1>1 DEF CallThrows
  <2>2. TypeOK' /\ Fresh' /\ SpecOfFind' /\ FindMapSound'
    BY <2>1 DEF TypeOK, Fresh, SpecOfFind, FindMapSound, IsFind
  <2>3. Watched' /\ TimerCovered'
    BY <1>1, <2>1 DEF Watched, TimerCovered, IsFind, Sending
  <2> QED
    BY <2>2, <2>3
<1>2. CASE ~Debounce
  <2>1. PICK u \in a :
          IF u = Root(u[1])
          THEN /\ outcome' = [outcome EXCEPT ![u[1]] = "rejected"]
               /\ UNCHANGED <<crufls, find_map>>
          ELSE /\ Settle({}, {u[1]})
               /\ crufls' = crufls \ {Root(u[1])}
               /\ Unmap({u[1]})
    BY <1>2 DEF CallThrows
  <2> DEFINE c == u[1]
  <2>2. /\ asks' = asks \ {a}
        /\ UNCHANGED <<op, spec, awaits, result, timers, send_queue, send_timer>>
        /\ u \in Uuid /\ c \in Call
    BY DEF CallThrows, TypeOK
  <2>3. CASE u = Root(c)
    <3>1. outcome' = [outcome EXCEPT ![c] = "rejected"] /\ UNCHANGED <<crufls, find_map>>
      BY <2>1, <2>3
    <3>2. TypeOK' /\ Fresh' /\ SpecOfFind' /\ FindMapSound'
      BY <2>2, <3>1 DEF TypeOK, Fresh, SpecOfFind, FindMapSound, IsFind, Outcome
    <3>3. \A d \in Call : {Root(d)} = a => d = c
      BY <2>1, <2>3
    <3>4. \A d \in Call : {Nested(d)} # a
      BY <2>1, <2>3, <2>2
    <3>5. Watched'
      <4> SUFFICES ASSUME NEW d \in Call, outcome'[d] = "pending",
                          Root(awaits[d]) \notin crufls
                   PROVE  awaits[d] = d /\ Sending(Root(d))'
        BY <2>2, <3>1 DEF Watched
      <4>1. d # c /\ outcome[d] = "pending"
        BY <2>2, <3>1 DEF TypeOK
      <4> QED
        BY <4>1, <3>3, <2>2 DEF Watched, Sending
    <3>6. TimerCovered'
      BY <2>2, <3>1, <3>4 DEF TimerCovered, IsFind, Sending, TypeOK
    <3> QED
      BY <3>2, <3>5, <3>6
  <2>4. CASE u # Root(c)
    <3>1. Settle({}, {c}) /\ crufls' = crufls \ {Root(c)} /\ Unmap({c}) /\ u = Nested(c)
      BY <2>1, <2>2, <2>4
    <3>2. \A d \in Call : outcome'[d] = IF outcome[d] = "pending" /\ awaits[d] = c
                                        THEN "rejected" ELSE outcome[d]
      BY <3>1 DEF Settle
    <3>3. TypeOK'
      BY <2>2, <3>1, <3>2 DEF TypeOK, Outcome, Unmap, Settle
    <3>4. Fresh' /\ SpecOfFind'
      BY <2>2, <3>1, <3>2 DEF Fresh, SpecOfFind
    <3>5. FindMapSound'
      BY <2>2, <3>1, UnmapSound
    <3>6. \A d \in Call : /\ {Root(d)} # a
                          /\ {Nested(d)} = a => d = c
      BY <2>1, <2>2, <3>1
    <3>7. Watched'
      <4> SUFFICES ASSUME NEW d \in Call, outcome'[d] = "pending",
                          Root(awaits[d]) \notin crufls'
                   PROVE  awaits[d] = d /\ Sending(Root(d))'
        BY <2>2 DEF Watched
      <4>1. outcome[d] = "pending" /\ awaits[d] # c /\ Root(awaits[d]) # Root(c)
        BY <3>2 DEF Root
      <4> QED
        BY <4>1, <3>1, <3>6, <2>2 DEF Watched, Sending
    <3>8. TimerCovered'
      <4> SUFFICES ASSUME TimeoutSet, NEW v \in crufls', v \notin timers
                   PROVE  IsFind(v) /\ (Nested(v[1]) \in timers \/ Sending(Nested(v[1]))')
        BY <2>2 DEF TimerCovered, IsFind
      <4>1. v \in Uuid /\ v # Root(c) /\ IsFind(v)
            /\ (Nested(v[1]) \in timers \/ Sending(Nested(v[1])))
        BY <3>1 DEF TimerCovered, TypeOK
      <4>2. v[1] # c
        BY <4>1 DEF IsFind
      <4> QED
        BY <4>1, <4>2, <3>6, <2>2 DEF Sending
    <3> QED
      BY <3>3, <3>4, <3>5, <3>7, <3>8
  <2> QED
    BY <2>3, <2>4
<1> QED
  BY <1>1, <1>2

LEMMA OnReplyIInv ==
  ASSUME IInv, NEW a \in asks, OnReply(a)
  PROVE  IInv'
<1> USE UuidFacts DEF IInv
<1>1. PICK got \in SUBSET Expected(a) :
        \E answer \in [got -> Answer] : \E cached \in SUBSET Found(got, answer) :
           Deliver(a, got, answer, cached)
  BY DEF OnReply
<1>2. PICK answer \in [got -> Answer] :
        \E cached \in SUBSET Found(got, answer) : Deliver(a, got, answer, cached)
  BY <1>1
<1>0. PICK cached \in SUBSET Found(got, answer) : Deliver(a, got, answer, cached)
  BY <1>2
<1> DEFINE found  == Found(got, answer)
           late   == IF Debounce THEN {} ELSE a \ crufls
           deeper == found \ cached
           new  == {Nested(u[1]) : u \in deeper}
           over == got \ deeper
           bad  == {u[1] : u \in {v \in over : answer[v] = "invalid"} \cup late}
           good == {u[1] : u \in over}
           done == good \cup bad
<1>3. /\ result' = [u \in Uuid |-> IF u \in got THEN answer[u] ELSE result[u]]
      /\ timers' = (timers \ got) \cup Arm(new)
      /\ crufls' = (crufls \ (over \cup {Root(c) : c \in done})) \cup new
      /\ Settle(good, bad) /\ Unmap(done) /\ Send(new, asks \ {a})
      /\ UNCHANGED <<op, spec, awaits>>
  BY <1>0 DEF Deliver
<1>4. /\ a \subseteq Uuid /\ got \subseteq a \cap crufls /\ got \subseteq Uuid
      /\ found \subseteq got /\ deeper \subseteq found /\ over \subseteq got
      /\ late \subseteq Uuid /\ new \subseteq Uuid
  BY DEF TypeOK, Expected, Found
<1>5. good \subseteq Call /\ bad \subseteq Call /\ done \in SUBSET Call
  BY <1>4
<1>6. \A d \in Call : /\ outcome[d] = "pending" /\ awaits[d] \in done => outcome'[d] # "pending"
                      /\ outcome[d] # "pending" => outcome'[d] = outcome[d]
                      /\ outcome'[d] \in Outcome
                      /\ outcome'[d] = "idle" => outcome[d] = "idle"
  BY <1>3 DEF Settle, TypeOK, Outcome
<1>7. \A c \in Call : Root(c) \in crufls' <=> Root(c) \in crufls /\ c \notin done
  BY <1>3, <1>4
<1>8. \A b \in asks : b # a => b \in asks' \/ Debounce
  BY <1>3 DEF Send
<1>9. TypeOK'
  <2>1. send_queue' \subseteq Uuid /\ send_timer' \in BOOLEAN /\ asks' \subseteq SUBSET Uuid
    BY <1>3, <1>4, SendType
  <2>2. timers' \subseteq Uuid /\ crufls' \subseteq Uuid
    BY <1>3, <1>4 DEF TypeOK, Arm
  <2>3. result' \in [Uuid -> Answer \cup {"null"}]
    BY <1>3 DEF TypeOK
  <2>4. outcome' \in [Call -> Outcome]
    BY <1>3, <1>6 DEF Settle
  <2>5. find_map' \in [Spec -> Call \cup {None}]
    BY <1>3 DEF TypeOK, Unmap
  <2> QED
    BY <1>3, <2>1, <2>2, <2>3, <2>4, <2>5 DEF TypeOK
<1>10. Fresh' /\ SpecOfFind'
  BY <1>3, <1>6, <1>7 DEF Fresh, SpecOfFind
<1>11. Watched'
  <2> SUFFICES ASSUME NEW d \in Call, outcome'[d] = "pending",
                      Root(awaits[d]) \notin crufls'
               PROVE  awaits[d] = d /\ Sending(Root(d))'
    BY <1>3 DEF Watched
  <2>1. outcome[d] = "pending" /\ awaits[d] \notin done
    BY <1>6, <1>3 DEF Settle, TypeOK
  <2>2. Root(awaits[d]) \notin crufls
    <3>1. SUFFICES ASSUME Root(awaits[d]) \in crufls PROVE FALSE
      OBVIOUS
    <3>2. awaits[d] \in Call
      BY <3>1 DEF TypeOK, Uuid, Root
    <3> QED
      BY <1>7, <2>1, <3>1, <3>2
  <2>3. awaits[d] = d /\ Sending(Root(d))
    BY <2>1, <2>2 DEF Watched
  <2>4. a # {Root(d)}
    <3>1. SUFFICES ASSUME a = {Root(d)} PROVE FALSE
      OBVIOUS
    <3>2. Root(d) \in late
      BY <2>2, <2>3, <3>1 DEF Sending
    <3> QED
      BY <2>1, <2>3, <3>2
  <2> QED
    BY <1>8, <2>3, <2>4 DEF Sending
<1>12. TimerCovered'
  <2> SUFFICES ASSUME TimeoutSet, NEW v \in crufls', v \notin timers'
               PROVE  IsFind(v) /\ (Nested(v[1]) \in timers' \/ Sending(Nested(v[1]))')
    BY <1>3 DEF TimerCovered, IsFind
  <2>1. new \subseteq timers' /\ v \notin new /\ v \in crufls /\ v \notin over /\ v \in Uuid
    BY <1>3 DEF Arm, TypeOK
  <2>2. CASE v \in got
    <3>1. v \in deeper
      BY <2>1, <2>2
    <3>2. IsFind(v)
      BY <3>1 DEF Found
    <3> QED
      BY <2>1, <3>1, <3>2
  <2>3. CASE v \notin got
    <3>1. IsFind(v) /\ (Nested(v[1]) \in timers \/ Sending(Nested(v[1]))) /\ v = Root(v[1])
      BY <2>1, <2>3, <1>3 DEF TimerCovered, IsFind
    <3> DEFINE n == Nested(v[1])
    <3>2. v[1] \in Call /\ v[1] \notin done /\ n \in Uuid /\ n[1] = v[1] /\ ~IsFind(n)
      BY <1>7, <2>1, <3>1 DEF IsFind
    <3>3. n \notin over /\ n \notin late /\ n \notin got
      <4>1. n \in over => n[1] \in good
        OBVIOUS
      <4>2. n \notin deeper
        BY <3>2 DEF Found
      <4>3. n \in late => n[1] \in bad
        OBVIOUS
      <4> QED
        BY <3>2, <4>1, <4>2, <4>3
    <3>4. CASE n \in timers
      BY <1>3, <3>1, <3>3, <3>4
    <3>5. CASE n \notin timers
      <4>1. Sending(n) /\ n \notin crufls
        BY <3>1, <3>2, <3>5 DEF TimerCovered
      <4>2. a # {n}
        BY <3>3, <4>1 DEF Sending
      <4> QED
        BY <1>8, <3>1, <4>1, <4>2 DEF Sending
    <3> QED
      BY <3>4, <3>5
  <2> QED
    BY <2>2, <2>3
<1>13. FindMapSound'
  BY <1>3, <1>5, <1>7, UnmapSound
<1> QED
  BY <1>9, <1>10, <1>11, <1>12, <1>13

-----------------------------------------------------------------------------
(* The invariant *)

LEMMA NextIInv == IInv /\ [Next]_vars => IInv'
<1> SUFFICES ASSUME IInv, [Next]_vars PROVE IInv'
  OBVIOUS
<1>1. ASSUME NEW c \in Call, LookupHit(c) PROVE IInv'
  BY <1>1, LookupHitIInv
<1>2. ASSUME NEW c \in Call, Lookup(c) PROVE IInv'
  <2>1. spec' = [spec EXCEPT ![c] = None]
    BY <1>2 DEF Lookup, IInv, Fresh, TypeOK
  <2> QED
    BY <1>2, <2>1, RegisterIInv DEF Lookup
<1>3. ASSUME NEW c \in Call, Modify(c) PROVE IInv'
  <2>1. spec' = [spec EXCEPT ![c] = None]
    BY <1>3 DEF Modify, IInv, Fresh, TypeOK
  <2> QED
    BY <1>3, <2>1, RegisterIInv DEF Modify
<1>4. ASSUME NEW c \in Call, NEW s \in Spec, Find(c, s) PROVE IInv'
  BY <1>4, RegisterIInv, ConstantsAssumption DEF Find
<1>5. ASSUME NEW c \in Call, NEW s \in Spec, JoinFind(c, s) PROVE IInv'
  BY <1>5, JoinFindIInv
<1>6. ASSUME OnSendTimer PROVE IInv'
  BY <1>6, OnSendTimerIInv
<1>7. ASSUME NEW a \in asks, OnReply(a) PROVE IInv'
  BY <1>7, OnReplyIInv
<1>8. ASSUME NEW a \in asks, CallThrows(a) PROVE IInv'
  BY <1>8, CallThrowsIInv
<1>9. ASSUME NEW u \in Uuid, OnTimeout(u) PROVE IInv'
  BY <1>9, OnTimeoutIInv
<1>10. CASE UNCHANGED vars
  BY <1>10 DEF vars, IInv, TypeOK, Fresh, SpecOfFind, Watched, TimerCovered,
               FindMapSound, Sending, IsFind
<1> QED
  BY <1>1, <1>2, <1>3, <1>4, <1>5, <1>6, <1>7, <1>8, <1>9, <1>10 DEF Next

\* The inductive invariant of the query backend.
THEOREM QbInvariant == QbSpec => []IInv
<1> QED
  BY InitIInv, NextIInv, PTL DEF QbSpec

\* Every variable keeps its type: Qb and Crufl, for any calls and faults.
THEOREM QbTypeOK == QbSpec => []TypeOK
<1>1. IInv => TypeOK
  BY DEF IInv
<1> QED
  BY <1>1, QbInvariant, PTL

\* A pending promise always has a registered crufl, or a call() of its own,
\* that can still settle it (waitForCruflComplete, queueRequest).
THEOREM QbWatched == QbSpec => []Watched
<1>1. IInv => Watched
  BY DEF IInv
<1> QED
  BY <1>1, QbInvariant, PTL

\* With a timeout set, every registered crufl has a timer, its own or that of
\* its nested lookup, or its nested lookup is still in call().
THEOREM QbTimerCovered == QbSpec => []TimerCovered
<1>1. IInv => TimerCovered
  BY DEF IInv
<1> QED
  BY <1>1, QbInvariant, PTL

\* find_map names registered finds of the right spec, and all of them.
THEOREM QbFindMapSound == QbSpec => []FindMapSound
<1>1. IInv => FindMapSound
  BY DEF IInv
<1> QED
  BY <1>1, QbInvariant, PTL

-----------------------------------------------------------------------------
(* The refinement: calls that share a crufl are settled in one step, with one
   outcome. *)

\* A registered Root crufl is the one its own call waits for.
OwnersWait ==
  \A c \in Call : Root(c) \in crufls => awaits[c] = c /\ outcome[c] = "pending"

\* Whoever waits, waits for a call that waits for itself, and fares alike.
SharedFate ==
  \A c \in Call :
     /\ outcome[c] = "idle" => awaits[c] = None
     /\ awaits[c] # None => /\ awaits[awaits[c]] = awaits[c]
                            /\ outcome[awaits[c]] = outcome[c]

DInv == IInv /\ OwnersWait /\ SharedFate

LEMMA InitDInv == Init => DInv
BY InitIInv DEF Init, DInv, OwnersWait, SharedFate

\* The steps of the debounced backend that settle calls: which ones end.
LEMMA SettleStep ==
  ASSUME DInv, NEW good \in SUBSET Call, NEW bad \in SUBSET Call,
         Settle(good, bad), UNCHANGED awaits,
         \A c \in Call : Root(c) \in crufls' => Root(c) \in crufls /\ c \notin good \cup bad
  PROVE  OwnersWait' /\ SharedFate' /\ [R!Next]_(R!vars)
<1> USE DEF DInv, IInv
<1>1. \A c \in Call :
        outcome'[c] = IF outcome[c] = "pending" /\ awaits[c] \in good \cup bad
                      THEN IF awaits[c] \in bad THEN "rejected" ELSE "resolved"
                      ELSE outcome[c]
  BY DEF Settle
<1>2. OwnersWait'
  BY <1>1 DEF OwnersWait, TypeOK
<1>3. SharedFate'
  <2> SUFFICES ASSUME NEW c \in Call
               PROVE  /\ outcome'[c] = "idle" => awaits[c] = None
                      /\ awaits[c] # None => /\ awaits[awaits[c]] = awaits[c]
                                             /\ outcome'[awaits[c]] = outcome'[c]
    BY DEF SharedFate
  <2>1. awaits[c] # None => awaits[c] \in Call
    BY DEF TypeOK
  <2> QED
    BY <1>1, <2>1 DEF SharedFate
<1>4. [R!Next]_(R!vars)
  <2> DEFINE done == good \cup bad
             verdict == [c \in done |-> IF c \in bad THEN "rejected" ELSE "resolved"]
  <2>1. outcome' = [c \in Call |->
                      IF outcome[c] = "pending" /\ awaits[c] \in DOMAIN verdict
                      THEN verdict[awaits[c]] ELSE outcome[c]]
    <3>1. outcome' = [c \in Call |-> outcome'[c]]
      BY DEF Settle
    <3> QED
      BY <1>1, <3>1
  <2>2. R!Settle(verdict)
    BY <2>1 DEF R!Settle
  <2>3. verdict \in [done -> {"resolved", "rejected"}]
    OBVIOUS
  <2>4. CASE done # {}
    <3> HIDE DEF done, verdict
    <3>1. done \in (SUBSET Call) \ {{}}
      BY <2>4 DEF done
    <3> QED
      BY <2>2, <2>3, <3>1 DEF R!Next
  <2>5. CASE done = {}
    <3>1. outcome' = outcome
      BY <2>1, <2>5 DEF TypeOK
    <3> QED
      BY <3>1 DEF R!vars
  <2> QED
    BY <2>4, <2>5
<1> QED
  BY <1>2, <1>3, <1>4

\* A call that registers a crufl of its own.
LEMMA RegisterStep ==
  ASSUME DInv, NEW c \in Call, outcome[c] = "idle", Register(c)
  PROVE  OwnersWait' /\ SharedFate' /\ [R!Next]_(R!vars)
<1> USE UuidFacts, ConstantsAssumption DEF DInv, IInv, Register
<1>1. OwnersWait'
  BY DEF OwnersWait, TypeOK
<1>2. \A d \in Call : awaits[d] # c
  BY DEF SharedFate
<1>3. SharedFate'
  <2> SUFFICES ASSUME NEW d \in Call
               PROVE  /\ outcome'[d] = "idle" => awaits'[d] = None
                      /\ awaits'[d] # None => /\ awaits'[awaits'[d]] = awaits'[d]
                                              /\ outcome'[awaits'[d]] = outcome'[d]
    BY DEF SharedFate
  <2>1. awaits[d] # None => awaits[d] \in Call
    BY DEF TypeOK
  <2> QED
    BY <1>2, <2>1 DEF SharedFate, TypeOK
<1>4. R!Issue(c)
  BY DEF R!Issue
<1> QED
  BY <1>1, <1>3, <1>4 DEF R!Next

LEMMA JoinStep ==
  ASSUME DInv, NEW c \in Call, NEW s \in Spec, JoinFind(c, s)
  PROVE  OwnersWait' /\ SharedFate' /\ [R!Next]_(R!vars)
<1> USE UuidFacts, ConstantsAssumption DEF DInv, IInv, JoinFind
<1> DEFINE e == find_map[s]
<1>1. e \in Call /\ outcome[e] = "pending" /\ awaits[e] = e /\ e # c
  BY DEF TypeOK, FindMapSound, OwnersWait
<1>2. OwnersWait'
  BY DEF OwnersWait, TypeOK, Fresh
<1>3. \A d \in Call : awaits[d] # c
  BY DEF SharedFate
<1>4. SharedFate'
  <2> SUFFICES ASSUME NEW d \in Call
               PROVE  /\ outcome'[d] = "idle" => awaits'[d] = None
                      /\ awaits'[d] # None => /\ awaits'[awaits'[d]] = awaits'[d]
                                              /\ outcome'[awaits'[d]] = outcome'[d]
    BY DEF SharedFate
  <2>1. awaits[d] # None => awaits[d] \in Call
    BY DEF TypeOK
  <2> QED
    BY <1>1, <1>3, <2>1 DEF SharedFate, TypeOK
<1>5. R!Join(c, e)
  BY <1>1 DEF R!Join
<1> QED
  BY <1>1, <1>2, <1>4, <1>5 DEF R!Next

LEMMA LookupHitStep ==
  ASSUME DInv, NEW c \in Call, LookupHit(c)
  PROVE  OwnersWait' /\ SharedFate' /\ [R!Next]_(R!vars)
<1> USE ConstantsAssumption DEF DInv, IInv, LookupHit
<1>1. OwnersWait'
  BY DEF OwnersWait, TypeOK, Fresh
<1>2. \A d \in Call : awaits[d] # c
  BY DEF SharedFate
<1>3. SharedFate'
  BY <1>2 DEF SharedFate, TypeOK
<1>4. R!Answer(c)
  BY DEF R!Answer
<1> QED
  BY <1>1, <1>3, <1>4 DEF R!Next

LEMMA OnReplyStep ==
  ASSUME Debounce, DInv, NEW a \in asks, OnReply(a)
  PROVE  OwnersWait' /\ SharedFate' /\ [R!Next]_(R!vars)
<1> USE UuidFacts
<1>1. PICK got \in SUBSET Expected(a) :
        \E answer \in [got -> Answer] : \E cached \in SUBSET Found(got, answer) :
           Deliver(a, got, answer, cached)
  BY DEF OnReply
<1>2. PICK answer \in [got -> Answer] :
        \E cached \in SUBSET Found(got, answer) : Deliver(a, got, answer, cached)
  BY <1>1
<1>3. PICK cached \in SUBSET Found(got, answer) : Deliver(a, got, answer, cached)
  BY <1>2
<1> DEFINE deeper == Found(got, answer) \ cached
           new    == {Nested(u[1]) : u \in deeper}
           over   == got \ deeper
           bad    == {u[1] : u \in {v \in over : answer[v] = "invalid"} \cup {}}
           good   == {u[1] : u \in over}
<1>4. /\ crufls' = (crufls \ (over \cup {Root(c) : c \in good \cup bad})) \cup new
      /\ Settle(good, bad) /\ UNCHANGED awaits
  BY <1>3 DEF Deliver
<1>5. /\ over \subseteq Uuid /\ deeper \subseteq Uuid
      /\ good \in SUBSET Call /\ bad \in SUBSET Call
  BY DEF Expected, Found, DInv, IInv, TypeOK
<1>6. \A c \in Call : Root(c) \in crufls' => Root(c) \in crufls /\ c \notin good \cup bad
  BY <1>4, <1>5
<1> QED
  BY <1>4, <1>5, <1>6, SettleStep

LEMMA OnTimeoutStep ==
  ASSUME Debounce, DInv, NEW u \in Uuid, OnTimeout(u)
  PROVE  OwnersWait' /\ SharedFate' /\ [R!Next]_(R!vars)
<1> USE UuidFacts
<1> DEFINE c == u[1]
<1>1. ~Sending(u)
  BY DEF Sending
<1>2. /\ crufls' = crufls \ ({u} \cup {Root(d) : d \in {c}})
      /\ outcome' = [d \in Call |-> IF outcome[d] = "pending" /\ awaits[d] \in {c}
                                    THEN "rejected" ELSE outcome[d]]
      /\ UNCHANGED awaits /\ c \in Call
  BY <1>1 DEF OnTimeout
<1>3. Settle({}, {c})
  <2>1. \A d \in Call :
          (IF outcome[d] = "pending" /\ awaits[d] \in {c} THEN "rejected" ELSE outcome[d])
          = CASE outcome[d] # "pending" -> outcome[d]
              [] outcome[d] = "pending" /\ awaits[d] \in {c} -> "rejected"
              [] outcome[d] = "pending" /\ awaits[d] \in {} \ {c} -> "resolved"
              [] OTHER -> outcome[d]
    OBVIOUS
  <2> QED
    BY <1>2, <2>1 DEF Settle
<1>4. \A d \in Call : Root(d) \in crufls' => Root(d) \in crufls /\ d \notin {} \cup {c}
  BY <1>2
<1> QED
  BY <1>2, <1>3, <1>4, SettleStep

LEMMA NextDInv ==
  ASSUME Debounce, DInv, [Next]_vars
  PROVE  DInv' /\ [R!Next]_(R!vars)
<1> DEFINE Kept == OwnersWait' /\ SharedFate' /\ [R!Next]_(R!vars)
<1>1. ASSUME NEW c \in Call, LookupHit(c)
      PROVE  Kept
  BY <1>1, LookupHitStep
<1>2. ASSUME NEW c \in Call, Lookup(c) \/ Modify(c)
      PROVE  Kept
  BY <1>2, RegisterStep DEF Lookup, Modify
<1>3. ASSUME NEW c \in Call, NEW s \in Spec, Find(c, s)
      PROVE  Kept
  BY <1>3, RegisterStep DEF Find
<1>4. ASSUME NEW c \in Call, NEW s \in Spec, JoinFind(c, s)
      PROVE  Kept
  BY <1>4, JoinStep
<1>5. ASSUME NEW a \in asks, OnReply(a)
      PROVE  Kept
  BY <1>5, OnReplyStep
<1>6. ASSUME NEW u \in Uuid, OnTimeout(u)
      PROVE  Kept
  BY <1>6, OnTimeoutStep
<1>7. ASSUME OnSendTimer \/ (\E a \in asks : CallThrows(a)) \/ UNCHANGED vars
      PROVE  Kept
  <2>1. UNCHANGED <<outcome, awaits, crufls>>
    BY <1>7 DEF OnSendTimer, CallThrows, vars
  <2> QED
    BY <2>1 DEF DInv, OwnersWait, SharedFate, R!vars
<1>8. Kept
  <2> HIDE DEF Kept
  <2> QED
    BY <1>1, <1>2, <1>3, <1>4, <1>5, <1>6, <1>7 DEF Next
<1> QED
  BY <1>8, NextIInv DEF DInv

\* A debounced query backend implements Requests: every step of Qb and Crufl
\* is a step of the abstract request table, or does not show in it.
THEOREM QbImplementsRequests ==
  ASSUME Debounce PROVE QbSpec => ImplementsRequests
<1>1. Init => R!Init
  BY DEF Init, R!Init
<1>2. DInv /\ [Next]_vars => DInv' /\ [R!Next]_(R!vars)
  BY NextDInv
<1> QED
  BY <1>1, <1>2, InitDInv, PTL DEF QbSpec, ImplementsRequests, R!RequestsSpec

\* In a debounced query backend, calls that wait for one crufl never end
\* differently (waitForCruflComplete on a shared crufl).
THEOREM QbJoinersAgree ==
  ASSUME Debounce PROVE QbSpec => []JoinersAgree
<1>1. DInv /\ [Next]_vars => DInv'
  BY NextDInv
<1>2. DInv => JoinersAgree
  BY DEF DInv, SharedFate, JoinersAgree
<1> QED
  BY <1>1, <1>2, InitDInv, PTL DEF QbSpec

-----------------------------------------------------------------------------
(* What a debounced request leaves behind *)

\* The crufls that are on their way: queued, or asked for.
Sent == send_queue \cup UNION asks

SentOnce ==
  /\ \A a, b \in asks : a # b => a \cap b = {}
  /\ \A a \in asks : a \cap send_queue = {}

Untouched ==
  \A c \in Call : outcome[c] = "idle" =>
     /\ Root(c) \notin Sent \cup timers /\ Nested(c) \notin Sent \cup timers
     /\ result[Root(c)] = "null" /\ result[Nested(c)] = "null"

\* The lookup of a find is made when its headers are there, not before.
RootFirst ==
  \A c \in Call : Root(c) \in Sent => Nested(c) \notin Sent /\ result[Nested(c)] = "null"

\* While the lookup of a find is registered, so is the find, which has had its
\* answer: it is not on its way any more, and its own timer is cleared.
NestedUnderRoot ==
  \A c \in Call : Nested(c) \in crufls =>
     /\ Root(c) \in crufls /\ Root(c) \notin timers /\ Root(c) \notin Sent
     /\ result[Root(c)] = "msgs"

TimersOfCrufls == timers \subseteq crufls

Trail == SentOnce /\ Untouched /\ RootFirst /\ NestedUnderRoot /\ TimersOfCrufls

\* An owner that resolved has had its last answer.
OwnersAnswered ==
  \A c \in Call : outcome[c] = "resolved" /\ awaits[c] = c =>
     result[Root(c)] \notin {"null", "invalid"} /\ result[Nested(c)] # "invalid"

LInv == DInv /\ Trail /\ OwnersAnswered

LEMMA InitLInv == Init => LInv
<1> SUFFICES ASSUME Init PROVE LInv
  OBVIOUS
<1>1. Sent = {}
  BY DEF Init, Sent
<1>2. Trail
  BY <1>1, UuidFacts DEF Init, Trail, SentOnce, Untouched, RootFirst, NestedUnderRoot, TimersOfCrufls
<1> QED
  BY <1>2, InitDInv DEF Init, LInv, OwnersAnswered

\* A call that registers a crufl of its own.
LEMMA RegisterTrail ==
  ASSUME Debounce, LInv, NEW c \in Call, outcome[c] = "idle", Register(c)
  PROVE  Trail' /\ OwnersAnswered'
<1> USE UuidFacts DEF LInv, Trail
<1>1. /\ outcome' = [outcome EXCEPT ![c] = "pending"] /\ awaits' = [awaits EXCEPT ![c] = c]
      /\ crufls' = crufls \cup {Root(c)} /\ result' = result
      /\ send_queue' = send_queue \cup {Root(c)} /\ asks' = asks
      /\ timers \subseteq timers' /\ timers' \subseteq timers \cup {Root(c)}
  BY DEF Register, Send, Arm
<1>2. TypeOK /\ Root(c) \notin Sent /\ Nested(c) \notin Sent /\ result[Nested(c)] = "null"
      /\ Root(c) \notin crufls
  BY DEF Untouched, DInv, IInv, Fresh
<1>3. Nested(c) \notin crufls
  BY <1>2 DEF NestedUnderRoot
<1>4. Sent' = Sent \cup {Root(c)}
  BY <1>1 DEF Sent
<1>5. SentOnce'
  BY <1>1, <1>2 DEF SentOnce, Sent
<1>6. \A d \in Call : d # c => outcome'[d] = outcome[d] /\ awaits'[d] = awaits[d]
  BY <1>1, <1>2 DEF TypeOK
<1>7. outcome'[c] = "pending"
  BY <1>1, <1>2 DEF TypeOK
<1>8. Untouched'
  BY <1>1, <1>4, <1>6, <1>7 DEF Untouched
<1>9. RootFirst'
  BY <1>1, <1>2, <1>4 DEF RootFirst
<1>10. NestedUnderRoot'
  BY <1>1, <1>3, <1>4 DEF NestedUnderRoot
<1>11. TimersOfCrufls'
  BY <1>1 DEF TimersOfCrufls
<1>12. OwnersAnswered'
  BY <1>1, <1>6, <1>7 DEF OwnersAnswered
<1> QED
  BY <1>5, <1>8, <1>9, <1>10, <1>11, <1>12

\* A call that is answered by the cache, or by the find of another call.
LEMMA NoRequestTrail ==
  ASSUME LInv, NEW c \in Call, LookupHit(c) \/ \E s \in Spec : JoinFind(c, s)
  PROVE  Trail' /\ OwnersAnswered'
<1> USE UuidFacts, ConstantsAssumption DEF LInv, Trail
<1>1. UNCHANGED <<crufls, result, timers, send_queue, asks>> /\ Sent' = Sent
  BY DEF LookupHit, JoinFind, Sent
<1>2. TypeOK /\ outcome[c] = "idle" /\ awaits[c] = None /\ Root(c) \notin crufls
  BY DEF LookupHit, JoinFind, DInv, IInv, SharedFate, Fresh
<1>3. \A d \in Call : d # c => outcome'[d] = outcome[d] /\ awaits'[d] = awaits[d]
  BY <1>2 DEF LookupHit, JoinFind, TypeOK
<1>4. outcome'[c] # "idle" /\ (outcome'[c] = "resolved" => awaits'[c] # c)
  BY <1>2 DEF LookupHit, JoinFind, TypeOK
<1>5. SentOnce' /\ RootFirst' /\ NestedUnderRoot' /\ TimersOfCrufls'
  BY <1>1 DEF SentOnce, RootFirst, NestedUnderRoot, TimersOfCrufls
<1>6. Untouched'
  BY <1>1, <1>3, <1>4 DEF Untouched
<1>7. OwnersAnswered'
  BY <1>1, <1>3, <1>4 DEF OwnersAnswered
<1> QED
  BY <1>5, <1>6, <1>7

LEMMA OnSendTimerTrail ==
  ASSUME LInv, OnSendTimer
  PROVE  Trail' /\ OwnersAnswered'
<1> USE DEF LInv, Trail, OnSendTimer
<1>1. Sent' = Sent
  BY DEF Sent
<1>2. SentOnce'
  BY DEF SentOnce
<1>3. UNCHANGED <<outcome, awaits, crufls, result, timers>>
  OBVIOUS
<1> HIDE DEF OnSendTimer
<1>4. Untouched' /\ RootFirst' /\ NestedUnderRoot' /\ TimersOfCrufls' /\ OwnersAnswered'
  BY <1>1, <1>3 DEF Untouched, RootFirst, NestedUnderRoot, TimersOfCrufls, OwnersAnswered
<1> QED
  BY <1>2, <1>4

LEMMA CallThrowsTrail ==
  ASSUME Debounce, LInv, NEW a \in asks, CallThrows(a)
  PROVE  Trail' /\ OwnersAnswered'
<1> USE DEF LInv, Trail
<1>1. asks' = asks \ {a} /\ UNCHANGED <<outcome, awaits, crufls, result, timers, send_queue>>
  BY DEF CallThrows
<1>2. Sent' \subseteq Sent
  BY <1>1 DEF Sent
<1>3. SentOnce'
  BY <1>1 DEF SentOnce
<1>4. Untouched' /\ RootFirst' /\ NestedUnderRoot' /\ TimersOfCrufls' /\ OwnersAnswered'
  BY <1>1, <1>2 DEF Untouched, RootFirst, NestedUnderRoot, TimersOfCrufls, OwnersAnswered
<1> QED
  BY <1>3, <1>4

LEMMA OnTimeoutTrail ==
  ASSUME Debounce, LInv, NEW u \in Uuid, OnTimeout(u)
  PROVE  Trail' /\ OwnersAnswered'
<1> USE UuidFacts DEF LInv, Trail
<1> DEFINE c == u[1]
<1>1. ~Sending(u)
  BY DEF Sending
<1>2. /\ crufls' = crufls \ {u, Root(c)} /\ timers' = timers \ {u} /\ u \in timers
      /\ outcome' = [d \in Call |-> IF outcome[d] = "pending" /\ awaits[d] \in {c}
                                    THEN "rejected" ELSE outcome[d]]
      /\ UNCHANGED <<awaits, result, send_queue, asks>> /\ Sent' = Sent
  BY <1>1 DEF OnTimeout, Sent
<1>3. \A d \in Call : outcome'[d] = outcome[d] \/ outcome'[d] = "rejected"
  BY <1>2
<1>4. SentOnce' /\ RootFirst'
  BY <1>2 DEF SentOnce, RootFirst
<1>5. Untouched' /\ OwnersAnswered'
  BY <1>2, <1>3 DEF Untouched, OwnersAnswered
<1>6. NestedUnderRoot'
  <2> SUFFICES ASSUME NEW d \in Call, Nested(d) \in crufls'
               PROVE  Root(d) \in crufls'
    BY <1>2 DEF NestedUnderRoot
  <2>1. Nested(d) \in crufls /\ Root(d) \in crufls /\ Root(d) \notin timers
    BY <1>2 DEF NestedUnderRoot
  <2>2. d # c
    BY <1>2, <2>1
  <2> QED
    BY <1>2, <2>1, <2>2
<1>7. TimersOfCrufls'
  BY <1>2 DEF TimersOfCrufls, NestedUnderRoot
<1> QED
  BY <1>4, <1>5, <1>6, <1>7

LEMMA OnReplyTrail ==
  ASSUME Debounce, LInv, NEW a \in asks, OnReply(a)
  PROVE  Trail' /\ OwnersAnswered'
<1> USE UuidFacts DEF LInv, Trail
<1>1. PICK got \in SUBSET Expected(a) :
        \E answer \in [got -> Answer] : \E cached \in SUBSET Found(got, answer) :
           Deliver(a, got, answer, cached)
  BY DEF OnReply
<1>2. PICK answer \in [got -> Answer] :
        \E cached \in SUBSET Found(got, answer) : Deliver(a, got, answer, cached)
  BY <1>1
<1>3. PICK cached \in SUBSET Found(got, answer) : Deliver(a, got, answer, cached)
  BY <1>2
<1> DEFINE deeper == Found(got, answer) \ cached
           new    == {Nested(u[1]) : u \in deeper}
           over   == got \ deeper
           bad    == {u[1] : u \in {v \in over : answer[v] = "invalid"} \cup {}}
           good   == {u[1] : u \in over}
<1>4. /\ result' = [u \in Uuid |-> IF u \in got THEN answer[u] ELSE result[u]]
      /\ crufls' = (crufls \ (over \cup {Root(c) : c \in good \cup bad})) \cup new
      /\ Settle(good, bad) /\ UNCHANGED awaits
      /\ timers \ got \subseteq timers' /\ timers' \subseteq (timers \ got) \cup new
      /\ send_queue' = send_queue \cup new /\ asks' = asks \ {a}
  BY <1>3 DEF Deliver, Send, Arm
<1>5. /\ a \subseteq Uuid /\ got \subseteq a /\ got \subseteq crufls /\ got \subseteq Uuid
      /\ deeper \subseteq got /\ over \subseteq got
      /\ a \subseteq Sent /\ good \subseteq Call /\ bad \subseteq good
  BY DEF Expected, Found, DInv, IInv, TypeOK, Sent
<1>6. \A u \in deeper : u = Root(u[1]) /\ u[1] \in Call /\ answer[u] = "msgs"
  BY <1>5 DEF Found, IsFind
<1>7. Sent' = (Sent \ a) \cup new
  BY <1>4 DEF Sent, SentOnce
<1>8. \A c \in Call : Nested(c) \in new => /\ Root(c) \in got /\ Nested(c) \notin Sent
                                           /\ Nested(c) \notin crufls /\ c \notin good
  <2> SUFFICES ASSUME NEW c \in Call, Nested(c) \in new
               PROVE  /\ Root(c) \in got /\ Nested(c) \notin Sent
                      /\ Nested(c) \notin crufls /\ c \notin good
    OBVIOUS
  <2>1. Root(c) \in deeper
    BY <1>6
  <2>2. Nested(c) \notin Sent /\ Nested(c) \notin crufls
    BY <2>1, <1>5 DEF RootFirst, NestedUnderRoot
  <2>3. Nested(c) \notin over /\ Root(c) \notin over
    BY <2>1, <2>2, <1>5
  <2>4. c \notin good
    BY <1>5, <2>3
  <2> QED
    BY <1>5, <2>1, <2>2, <2>4
<1>9. \A u \in new : u[1] \in Call /\ u = Nested(u[1])
  BY <1>6
<1> HIDE DEF deeper, new, over, bad, good
<1>10. SentOnce'
  BY <1>4, <1>8, <1>9 DEF SentOnce, Sent
<1>11. \A c \in Call : outcome'[c] = "idle" => outcome[c] = "idle"
  BY <1>4 DEF Settle
<1>12. Untouched'
  <2> SUFFICES ASSUME NEW c \in Call, outcome'[c] = "idle"
               PROVE  /\ Root(c) \notin Sent' \cup timers' /\ Nested(c) \notin Sent' \cup timers'
                      /\ result'[Root(c)] = "null" /\ result'[Nested(c)] = "null"
    BY DEF Untouched
  <2>1. /\ Root(c) \notin Sent \cup timers /\ Nested(c) \notin Sent \cup timers
        /\ result[Root(c)] = "null" /\ result[Nested(c)] = "null"
    BY <1>11 DEF Untouched
  <2>2. Root(c) \notin got /\ Nested(c) \notin got
    BY <2>1, <1>5
  <2>3. Root(c) \notin new /\ Nested(c) \notin new
    BY <2>2, <1>8, <1>9
  <2> QED
    BY <1>4, <1>7, <2>1, <2>2, <2>3
<1>13. RootFirst'
  <2> SUFFICES ASSUME NEW c \in Call, Root(c) \in Sent'
               PROVE  Nested(c) \notin Sent' /\ result'[Nested(c)] = "null"
    BY DEF RootFirst
  <2>1. Root(c) \in Sent /\ Root(c) \notin a
    BY <1>7, <1>9
  <2>2. Nested(c) \notin Sent /\ result[Nested(c)] = "null"
    BY <2>1 DEF RootFirst
  <2>3. Nested(c) \notin new /\ Nested(c) \notin got
    BY <2>1, <2>2, <1>5, <1>8
  <2> QED
    BY <1>4, <1>7, <2>2, <2>3
<1>14. NestedUnderRoot'
  <2> SUFFICES ASSUME NEW c \in Call, Nested(c) \in crufls'
               PROVE  /\ Root(c) \in crufls' /\ Root(c) \notin timers' /\ Root(c) \notin Sent'
                      /\ result'[Root(c)] = "msgs"
    BY DEF NestedUnderRoot
  <2>1. CASE Nested(c) \in new
    <3>1. /\ Root(c) \in deeper /\ Root(c) \in got /\ c \notin good /\ Root(c) \notin over
          /\ Root(c) \in crufls
      BY <2>1, <1>5, <1>6, <1>8 DEF new, over
    <3>2. Root(c) \in crufls'
      BY <3>1, <1>4, <1>5
    <3>3. Root(c) \notin timers' /\ Root(c) \notin Sent'
      BY <3>1, <1>4, <1>5, <1>7, <1>9
    <3>4. result'[Root(c)] = "msgs"
      BY <3>1, <1>4, <1>6
    <3> QED
      BY <3>2, <3>3, <3>4
  <2>2. CASE Nested(c) \notin new
    <3>1. Nested(c) \in crufls /\ Nested(c) \notin over
      BY <2>2, <1>4
    <3>2. /\ Root(c) \in crufls /\ Root(c) \notin timers /\ Root(c) \notin Sent
          /\ result[Root(c)] = "msgs" /\ Root(c) \notin got
      BY <3>1, <1>5 DEF NestedUnderRoot
    <3>3. c \notin good
      BY <3>1, <3>2, <1>5 DEF good
    <3>4. Root(c) \in crufls'
      BY <3>2, <3>3, <1>4, <1>5
    <3> QED
      BY <3>2, <3>4, <1>4, <1>7, <1>9
  <2> QED
    BY <2>1, <2>2
<1>15. TimersOfCrufls'
  <2> SUFFICES ASSUME NEW u \in timers', u \notin new
               PROVE  u \in crufls'
    BY <1>4 DEF TimersOfCrufls
  <2>1. u \in timers /\ u \notin got /\ u \in crufls /\ u \in Uuid
    BY <1>4 DEF TimersOfCrufls, DInv, IInv, TypeOK
  <2>2. ASSUME NEW c \in good, u = Root(c) PROVE FALSE
    <3>1. c \in Call /\ (Nested(c) \in over \/ Root(c) \in over)
      BY <1>5 DEF good
    <3>2. Nested(c) \in crufls
      BY <2>1, <2>2, <3>1, <1>5
    <3> QED
      BY <2>1, <2>2, <3>1, <3>2 DEF NestedUnderRoot
  <2> QED
    BY <2>1, <2>2, <1>4, <1>5
<1>16. OwnersAnswered'
  <2> SUFFICES ASSUME NEW c \in Call, outcome'[c] = "resolved", awaits[c] = c
               PROVE  result'[Root(c)] \notin {"null", "invalid"} /\ result'[Nested(c)] # "invalid"
    BY <1>4 DEF OwnersAnswered
  <2>1. CASE outcome[c] = "pending"
    <3>1. c \in good /\ c \notin bad
      BY <1>4, <2>1 DEF Settle
    <3>2. PICK u \in over : u[1] = c /\ answer[u] # "invalid"
      BY <3>1 DEF good, bad
    <3>3. u \in got /\ u \in Uuid /\ result'[u] = answer[u] /\ answer[u] \in Answer
      BY <3>2, <1>4, <1>5
    <3>4. CASE u = Root(c)
      <4>1. result[Nested(c)] = "null" /\ Nested(c) \notin Sent
        BY <3>3, <3>4, <1>5 DEF RootFirst
      <4>2. result'[Nested(c)] = "null"
        BY <4>1, <1>4, <1>5
      <4> QED
        BY <3>2, <3>3, <3>4, <4>2 DEF Answer
    <3>5. CASE u = Nested(c)
      <4>1. result[Root(c)] = "msgs" /\ Root(c) \notin Sent
        BY <3>3, <3>5, <1>5 DEF NestedUnderRoot
      <4>2. result'[Root(c)] = "msgs"
        BY <4>1, <1>4, <1>5
      <4> QED
        BY <3>2, <3>3, <3>5, <4>2
    <3> QED
      BY <3>2, <3>3, <3>4, <3>5
  <2>2. CASE outcome[c] # "pending"
    <3>1. outcome[c] = "resolved"
      BY <1>4, <2>2 DEF Settle
    <3>2. Root(c) \notin crufls
      BY <3>1 DEF DInv, OwnersWait
    <3>3. Nested(c) \notin crufls
      BY <3>2 DEF NestedUnderRoot
    <3> QED
      BY <3>1, <3>2, <3>3, <1>4, <1>5 DEF OwnersAnswered
  <2> QED
    BY <2>1, <2>2
<1> QED
  BY <1>10, <1>12, <1>13, <1>14, <1>15, <1>16

LEMMA NextLInv ==
  ASSUME Debounce, LInv, [Next]_vars
  PROVE  LInv'
<1> DEFINE Kept == Trail' /\ OwnersAnswered'
<1>1. ASSUME NEW c \in Call, LookupHit(c) \/ \E s \in Spec : JoinFind(c, s)
      PROVE  Kept
  BY <1>1, NoRequestTrail
<1>2. ASSUME NEW c \in Call, Lookup(c) \/ Modify(c) \/ \E s \in Spec : Find(c, s)
      PROVE  Kept
  BY <1>2, RegisterTrail DEF Lookup, Modify, Find
<1>3. ASSUME OnSendTimer
      PROVE  Kept
  BY <1>3, OnSendTimerTrail
<1>4. ASSUME NEW a \in asks, OnReply(a)
      PROVE  Kept
  BY <1>4, OnReplyTrail
<1>5. ASSUME NEW a \in asks, CallThrows(a)
      PROVE  Kept
  BY <1>5, CallThrowsTrail
<1>6. ASSUME NEW u \in Uuid, OnTimeout(u)
      PROVE  Kept
  BY <1>6, OnTimeoutTrail
<1>7. ASSUME UNCHANGED vars
      PROVE  Kept
  <2>1. Sent' = Sent
    BY <1>7 DEF vars, Sent
  <2> QED
    BY <1>7, <2>1 DEF vars, LInv, Trail, SentOnce, Untouched, RootFirst, NestedUnderRoot,
                      TimersOfCrufls, OwnersAnswered
<1>8. Kept
  <2> HIDE DEF Kept
  <2> QED
    BY <1>1, <1>2, <1>3, <1>4, <1>5, <1>6, <1>7 DEF Next
<1>9. DInv'
  BY NextDInv DEF LInv
<1> QED
  BY <1>8, <1>9 DEF LInv

\* In a debounced query backend nothing outlives the calls it was made for: no
\* crufl, no timer (qb.js, crufl.js: completion, timeout and unmapping).
THEOREM QbNoLeak ==
  ASSUME Debounce PROVE QbSpec => []NoLeak
<1>1. LInv /\ [Next]_vars => LInv'
  BY NextLInv
<1>2. ASSUME LInv PROVE NoLeak
  <2>1. timers \subseteq crufls
    BY <1>2 DEF LInv, Trail, TimersOfCrufls
  <2>2. ASSUME NEW u \in crufls
        PROVE  \E c \in Call : outcome[c] = "pending" /\ awaits[c] = u[1]
    <3>1. u \in Uuid /\ u[1] \in Call /\ (u = Root(u[1]) \/ u = Nested(u[1]))
      BY <1>2, UuidFacts DEF LInv, DInv, IInv, TypeOK
    <3>2. Root(u[1]) \in crufls
      BY <1>2, <3>1 DEF LInv, Trail, NestedUnderRoot
    <3> QED
      BY <1>2, <3>1, <3>2 DEF LInv, DInv, OwnersWait
  <2> QED
    BY <2>1, <2>2 DEF NoLeak
<1> QED
  BY <1>1, <1>2, InitLInv, PTL DEF QbSpec

\* In a debounced query backend, a call that made a request, or joined one,
\* resolves only on a valid answer to the last request it led to.
THEOREM QbResolvedOnAnswer ==
  ASSUME Debounce PROVE QbSpec => []ResolvedOnAnswer
<1>1. LInv /\ [Next]_vars => LInv'
  BY NextLInv
<1>2. ASSUME LInv PROVE ResolvedOnAnswer
  <2> SUFFICES ASSUME NEW c \in Call, outcome[c] = "resolved", awaits[c] # None
               PROVE  /\ result[Root(awaits[c])] \notin {"null", "invalid"}
                      /\ result[Nested(awaits[c])] # "invalid"
    BY DEF ResolvedOnAnswer
  <2>1. /\ awaits[c] \in Call /\ awaits[awaits[c]] = awaits[c]
        /\ outcome[awaits[c]] = "resolved"
    BY <1>2 DEF LInv, DInv, IInv, TypeOK, SharedFate
  <2> QED
    BY <1>2, <2>1 DEF LInv, OwnersAnswered
<1> QED
  BY <1>1, <1>2, InitLInv, PTL DEF QbSpec
-----------------------------------------------------------------------------
(* The connection *)

\* The REST party was made with the current key, and roll drops both; or it was
\* given, and then nothing is announced and no timer rolls the key.
RestPartyHasKey ==
  IF restParty = Given
  THEN sessionTimers = {} /\ starting \in {"no", "seeding", "connecting"}
  ELSE restParty = sessionKey

\* The service knows the key, or was never told.
MayOpen == sessionKey # 0 /\ (sessionKey \in known \/ restParty = Given)

\* A start makes a key only when there is none and no websocket either, and goes
\* on to the websocket with a key the service stored, unless the party was given.
StartInOrder ==
  /\ starting = "seeding" => sessionKey = 0 /\ wsParty = NoConn /\ made < MaxKeys
  /\ starting \in {"resting", "asking", "announcing"} => sessionKey # 0
  /\ starting = "connecting" => MayOpen

\* While there is a wsParty, a reconnection opens its websocket under such a key.
WsPartyHasKey == wsParty # NoConn => MayOpen

ClientInv ==
  /\ ClientTypeOK
  /\ RestPartyHasKey
  /\ StartInOrder
  /\ WsPartyHasKey
  /\ AnnouncedFirst

LEMMA GivenFacts == Given \in Nat /\ Given # 0 /\ Given \notin 0 .. MaxKeys /\ 0 .. MaxKeys \subseteq 0 .. Given
  BY EphemeralClientAssumption DEF Given

LEMMA InitClientInv ==
  ASSUME ClientInit
  PROVE  ClientInv
<1>1. ClientTypeOK
  BY EphemeralClientAssumption, GivenFacts DEF ClientInit, ClientTypeOK, Key, Stage,
         Unused
<1>2. RestPartyHasKey /\ StartInOrder /\ WsPartyHasKey /\ AnnouncedFirst
  BY DEF ClientInit, RestPartyHasKey, StartInOrder, WsPartyHasKey, MayOpen, AnnouncedFirst,
         Unused
<1>3. QED BY <1>1, <1>2 DEF ClientInv

\* What a step shows that leaves the key, the start and the wsParty alone, and
\* every websocket its session.
LEMMA SocketStep ==
  ASSUME ClientInv, ClientTypeOK', UNCHANGED <<keyVars, wsParty>>,
         \A c \in Conn : conn'[c].session = conn[c].session
  PROVE  ClientInv'
<1>1. RestPartyHasKey' /\ StartInOrder' /\ WsPartyHasKey'
  BY DEF ClientInv, RestPartyHasKey, StartInOrder, WsPartyHasKey, MayOpen, keyVars
<1>2. AnnouncedFirst'
  BY DEF ClientInv, AnnouncedFirst, keyVars
<1>3. QED BY <1>1, <1>2 DEF ClientInv

\* What a step of start or roll shows that opens no websocket.
LEMMA KeyStep ==
  ASSUME ClientInv, ClientTypeOK', known \subseteq known',
         \A c \in Conn : conn'[c].session = conn[c].session,
         restParty = Given => restParty' = Given,
         RestPartyHasKey', StartInOrder', WsPartyHasKey'
  PROVE  ClientInv'
<1>1. AnnouncedFirst'
  BY DEF ClientInv, AnnouncedFirst
<1>2. QED BY <1>1 DEF ClientInv

\* handleWsClose arms the timer or leaves it alone.
LEMMA HandleWsCloseType ==
  ASSUME ClientTypeOK, HandleWsClose
  PROVE  reconnectTimer' \in {"none", "armed", "stale"}
  BY DEF ClientTypeOK, HandleWsClose

\* A websocket that changes its stage keeps its session.
LEMMA BecomesType ==
  ASSUME ClientTypeOK, NEW c \in Conn, NEW stage \in Stage, Becomes(c, stage)
  PROVE  /\ conn' \in [Conn -> [stage : Stage, session : 0 .. MaxKeys, retry : BOOLEAN]]
         /\ \A d \in Conn : conn'[d].session = conn[d].session
  BY DEF ClientTypeOK, Becomes

\* A websocket that is opened has the current key.
LEMMA OpensType ==
  ASSUME ClientTypeOK, NEW c \in Conn, NEW retry \in BOOLEAN, Opens(c, retry)
  PROVE  /\ conn' \in [Conn -> [stage : Stage, session : 0 .. MaxKeys, retry : BOOLEAN]]
         /\ conn'[c].session = sessionKey
         /\ \A d \in Conn \ {c} : conn'[d].session = conn[d].session
         /\ wsParty' = c /\ stopped' \subseteq Conn
  BY DEF ClientTypeOK, Opens, Stage

\* A websocket that is stopped keeps its session.
LEMMA TerminatesType ==
  ASSUME ClientTypeOK, NEW c \in Conn, Terminates(c)
  PROVE  /\ conn' \in [Conn -> [stage : Stage, session : 0 .. MaxKeys, retry : BOOLEAN]]
         /\ \A d \in Conn : conn'[d].session = conn[d].session
         /\ events' \subseteq Conn \X {"error", "close"}
         /\ stopped' \subseteq Conn
<1>1. Becomes(c, "down") /\ "down" \in Stage
  BY DEF Terminates, Stage
<1>2. events' \subseteq Conn \X {"error", "close"} /\ stopped' \subseteq Conn
  BY DEF ClientTypeOK, Terminates
<1>3. QED BY <1>1, <1>2, BecomesType

\* The steps of start before the websocket.
LEMMA StartingKeeps ==
  ASSUME ClientInv,
         \/ Start \/ Seeded \/ CreateSessionAnnoucement
         \/ GetServiceIdentity \/ Stored \/ AnnounceFails
         \/ \E r \in Reply : Announced(r)
  PROVE  ClientInv'
<1> USE DEF keyVars, wsVars
<1>1. CASE Start
  <2>1. wsParty = NoConn
    BY <1>1 DEF ClientInv, WsPartyHasKey, MayOpen, Start
  <2>2. ClientTypeOK'
    BY <1>1 DEF ClientInv, ClientTypeOK, Start
  <2>3. RestPartyHasKey' /\ StartInOrder' /\ WsPartyHasKey'
    BY <1>1, <2>1 DEF ClientInv, RestPartyHasKey, StartInOrder, WsPartyHasKey, MayOpen, Start
  <2>4. QED BY <1>1, <2>2, <2>3, KeyStep DEF Start
<1>2. CASE Seeded
  <2>1. sessionKey = 0 /\ restParty \in {0, Given} /\ wsParty = NoConn /\ made < MaxKeys
    BY <1>2 DEF ClientInv, RestPartyHasKey, StartInOrder, Seeded
  <2>2. /\ made \in Nat /\ made + 1 \in 1 .. MaxKeys /\ MaxKeys \in Nat /\ sessionKey' = made + 1
        /\ IF restParty = 0 THEN restParty' = made + 1 /\ starting' = "resting"
                            ELSE starting' = "connecting" /\ UNCHANGED restParty
    BY <1>2, <2>1, EphemeralClientAssumption DEF ClientInv, ClientTypeOK, Seeded
  <2>3. ClientTypeOK'
    BY <1>2, <2>1, <2>2, GivenFacts DEF ClientInv, ClientTypeOK, Seeded
  <2>4. RestPartyHasKey' /\ StartInOrder' /\ WsPartyHasKey'
    BY <1>2, <2>1, <2>2, GivenFacts DEF ClientInv, ClientTypeOK, RestPartyHasKey, StartInOrder,
       WsPartyHasKey, MayOpen, Seeded
  <2>5. UNCHANGED <<known, conn>> /\ (restParty = Given => restParty' = Given)
    BY <1>2, <2>1, <2>2, GivenFacts DEF Seeded
  <2>6. QED BY <2>3, <2>4, <2>5, KeyStep
<1>3. CASE CreateSessionAnnoucement
  <2>1. sessionKey \in Key
    BY <1>3, EphemeralClientAssumption DEF ClientInv, ClientTypeOK, StartInOrder, CreateSessionAnnoucement, Key
  <2>2. sessionExpiry' \in [Key -> 0 .. MaxTime + MAX_SESSION_AGE]
    BY <1>3, <2>1, EphemeralClientAssumption DEF ClientInv, ClientTypeOK, CreateSessionAnnoucement
  <2>3. sessionTimers' \subseteq 0 .. MaxTime + SESSION_ROLL_AGE
    BY <1>3, EphemeralClientAssumption DEF ClientInv, ClientTypeOK, CreateSessionAnnoucement
  <2>4. ClientTypeOK'
    BY <1>3, <2>2, <2>3 DEF ClientInv, ClientTypeOK, CreateSessionAnnoucement, Key
  <2>5. RestPartyHasKey' /\ StartInOrder' /\ WsPartyHasKey'
    BY <1>3 DEF ClientInv, RestPartyHasKey, StartInOrder, WsPartyHasKey, MayOpen,
       CreateSessionAnnoucement
  <2>6. QED BY <1>3, <2>4, <2>5, KeyStep DEF CreateSessionAnnoucement
<1>4. CASE GetServiceIdentity
  <2>1. ClientTypeOK'
    BY <1>4 DEF ClientInv, ClientTypeOK, GetServiceIdentity
  <2>2. RestPartyHasKey' /\ StartInOrder' /\ WsPartyHasKey'
    BY <1>4 DEF ClientInv, RestPartyHasKey, StartInOrder, WsPartyHasKey, MayOpen, GetServiceIdentity
  <2>3. QED BY <1>4, <2>1, <2>2, KeyStep DEF GetServiceIdentity
<1>5. CASE Stored \/ AnnounceFails
  <2>1. /\ starting = "announcing" /\ starting' \in {"announcing", "no"}
        /\ known' \in {known, known \cup {sessionKey}}
        /\ UNCHANGED <<now, made, sessionKey, restParty, sessionExpiry, sessionTimers, wsParty, conn,
                       events, stopped, reconnectTimer>>
    BY <1>5 DEF Stored, AnnounceFails
  <2>2. sessionKey \in Key
    BY <2>1, EphemeralClientAssumption DEF ClientInv, ClientTypeOK, StartInOrder, Key
  <2>3. ClientTypeOK'
    BY <2>1, <2>2 DEF ClientInv, ClientTypeOK
  <2>4. RestPartyHasKey' /\ StartInOrder' /\ WsPartyHasKey'
    BY <2>1 DEF ClientInv, RestPartyHasKey, StartInOrder, WsPartyHasKey, MayOpen
  <2>5. QED BY <2>1, <2>3, <2>4, KeyStep
<1>6. CASE \E r \in Reply : Announced(r)
  <2>1. PICK r \in Reply : Announced(r)
    BY <1>6
  <2>2. sessionKey \in known
    BY <2>1 DEF Announced, Decrypted, Reply
  <2>3. ClientTypeOK'
    BY <2>1 DEF ClientInv, ClientTypeOK, Announced
  <2>4. RestPartyHasKey' /\ StartInOrder' /\ WsPartyHasKey'
    BY <2>1, <2>2 DEF ClientInv, RestPartyHasKey, StartInOrder, WsPartyHasKey, MayOpen, Announced
  <2>5. QED BY <2>1, <2>3, <2>4, KeyStep DEF Announced
<1>7. QED BY <1>1, <1>2, <1>3, <1>4, <1>5, <1>6

\* The end of start, which opens the websocket when there is no wsParty.
LEMMA ConnectKeeps ==
  ASSUME ClientInv, Connect
  PROVE  ClientInv'
<1> USE DEF keyVars, wsVars
<1>1. MayOpen /\ UNCHANGED <<now, made, sessionKey, restParty, sessionExpiry, sessionTimers, known>>
      /\ starting' = "no"
  BY DEF ClientInv, StartInOrder, Connect
<1>2. CASE UNCHANGED wsVars
  <2>1. ClientTypeOK'
    BY <1>1, <1>2 DEF ClientInv, ClientTypeOK
  <2>2. RestPartyHasKey' /\ StartInOrder' /\ WsPartyHasKey'
    BY <1>1, <1>2 DEF ClientInv, RestPartyHasKey, StartInOrder, WsPartyHasKey, MayOpen
  <2>3. QED BY <1>1, <1>2, <2>1, <2>2, KeyStep
<1>3. CASE ~UNCHANGED wsVars
  <2>1. PICK c \in Conn : Opens(c, FALSE) /\ UNCHANGED <<events, reconnectTimer>>
    BY <1>3 DEF Connect, OpenWs
  <2>2. /\ conn' \in [Conn -> [stage : Stage, session : 0 .. MaxKeys, retry : BOOLEAN]]
        /\ conn'[c].session = sessionKey
        /\ \A d \in Conn \ {c} : conn'[d].session = conn[d].session
        /\ wsParty' = c /\ stopped' \subseteq Conn
    BY <2>1, OpensType DEF ClientInv
  <2>3. ClientTypeOK'
    BY <1>1, <2>1, <2>2 DEF ClientInv, ClientTypeOK
  <2>4. RestPartyHasKey' /\ StartInOrder' /\ WsPartyHasKey'
    BY <1>1 DEF ClientInv, RestPartyHasKey, StartInOrder, WsPartyHasKey, MayOpen
  <2>5. AnnouncedFirst'
    BY <1>1, <2>2 DEF ClientInv, AnnouncedFirst, MayOpen
  <2>6. QED BY <2>3, <2>4, <2>5 DEF ClientInv
<1>4. QED BY <1>2, <1>3

\* A reconnection opens its websocket only while there is a wsParty.
LEMMA DoReconnectKeeps ==
  ASSUME ClientInv, DoReconnect
  PROVE  ClientInv'
<1> USE DEF keyVars, wsVars
<1>1. reconnectTimer' \in {"none", "stale"}
  BY DEF DoReconnect
<1>2. CASE wsParty \in Conn \ stopped
  <2>1. PICK c \in Conn : Opens(c, TRUE)
    BY <1>2 DEF DoReconnect
  <2>2. /\ conn' \in [Conn -> [stage : Stage, session : 0 .. MaxKeys, retry : BOOLEAN]]
        /\ conn'[c].session = sessionKey
        /\ \A d \in Conn \ {c} : conn'[d].session = conn[d].session
        /\ wsParty' = c /\ stopped' \subseteq Conn
    BY <2>1, OpensType DEF ClientInv
  <2>3. wsParty # NoConn /\ wsParty' # NoConn /\ MayOpen
    BY <1>2, <2>2, EphemeralClientAssumption DEF ClientInv, WsPartyHasKey
  <2>4. ClientTypeOK'
    BY <1>1, <2>2 DEF ClientInv, ClientTypeOK, DoReconnect
  <2>5. RestPartyHasKey' /\ StartInOrder' /\ WsPartyHasKey'
    BY <2>3 DEF ClientInv, RestPartyHasKey, StartInOrder, WsPartyHasKey, MayOpen, DoReconnect
  <2>6. AnnouncedFirst'
    BY <2>2, <2>3 DEF ClientInv, AnnouncedFirst, DoReconnect, MayOpen
  <2>7. QED BY <2>4, <2>5, <2>6 DEF ClientInv
<1>3. CASE wsParty \notin Conn \ stopped
  <2>1. UNCHANGED <<now, keyVars, wsParty, conn, stopped, events>>
    BY <1>3 DEF DoReconnect
  <2>2. ClientTypeOK'
    BY <1>1, <2>1 DEF ClientInv, ClientTypeOK
  <2>3. QED BY <2>1, <2>2, SocketStep
<1>4. QED BY <1>2, <1>3

\* stop, the roll of the key, and the clock.
LEMMA StopAndRollKeep ==
  ASSUME ClientInv,
         Stop \/ RollSessionKey \/ Tick
  PROVE  ClientInv'
<1> USE DEF keyVars, wsVars
<1>1. CASE Stop
  <2>1. wsParty \in Conn /\ Terminates(wsParty)
    BY <1>1 DEF ClientInv, ClientTypeOK, Stop
  <2>2. ClientTypeOK' /\ \A d \in Conn : conn'[d].session = conn[d].session
    BY <1>1, <2>1, TerminatesType DEF ClientInv, ClientTypeOK, Stop
  <2>3. QED BY <1>1, <2>2, SocketStep DEF Stop
<1>2. CASE RollSessionKey
  <2>1. /\ conn' \in [Conn -> [stage : Stage, session : 0 .. MaxKeys, retry : BOOLEAN]]
        /\ \A d \in Conn : conn'[d].session = conn[d].session
        /\ events' \subseteq Conn \X {"error", "close"}
        /\ stopped' \subseteq Conn
    <3>1. CASE wsParty = NoConn
      BY <1>2, <3>1 DEF ClientInv, ClientTypeOK, RollSessionKey
    <3>2. CASE wsParty # NoConn
      BY <1>2, <3>2, TerminatesType DEF ClientInv, ClientTypeOK, RollSessionKey
    <3>3. QED BY <3>1, <3>2
  <2>2. ClientTypeOK'
    BY <1>2, <2>1, EphemeralClientAssumption, GivenFacts DEF ClientInv, ClientTypeOK, RollSessionKey
  <2>3. restParty # Given
    BY <1>2 DEF ClientInv, RestPartyHasKey, RollSessionKey
  <2>4. RestPartyHasKey' /\ StartInOrder' /\ WsPartyHasKey'
    BY <1>2, GivenFacts
    DEF ClientInv, RestPartyHasKey, StartInOrder, WsPartyHasKey, RollSessionKey
  <2>5. QED BY <1>2, <2>1, <2>2, <2>3, <2>4, KeyStep DEF RollSessionKey
<1>3. CASE Tick
  <2>1. ClientTypeOK'
    BY <1>3, EphemeralClientAssumption DEF ClientInv, ClientTypeOK, Tick
  <2>2. QED BY <1>3, <2>1, SocketStep DEF Tick
<1>4. QED BY <1>1, <1>2, <1>3

\* What a socket does, and tells.
LEMMA SocketKeeps ==
  ASSUME ClientInv, NEW c \in Conn,
         \/ Opened(c) \/ Breaks(c) \/ TimesOut(c) \/ Authorized(c)
         \/ AuthFails(c) \/ ErrorEvent(c) \/ CloseEvent(c)
  PROVE  ClientInv'
<1> USE DEF keyVars
<1>1. CASE Opened(c) \/ Breaks(c) \/ TimesOut(c) \/ Authorized(c)
  <2>1. PICK stage \in Stage : Becomes(c, stage)
    BY <1>1 DEF Opened, Breaks, TimesOut, Authorized, Stage
  <2>2. /\ conn' \in [Conn -> [stage : Stage, session : 0 .. MaxKeys, retry : BOOLEAN]]
        /\ \A d \in Conn : conn'[d].session = conn[d].session
    BY <2>1, BecomesType DEF ClientInv
  <2>3. events' \subseteq Conn \X {"error", "close"}
    BY <1>1 DEF ClientInv, ClientTypeOK, Opened, Breaks, TimesOut,
       Authorized
  <2>4. reconnectTimer' \in {"none", "armed", "stale"}
    BY <1>1, HandleWsCloseType DEF ClientInv, ClientTypeOK, Opened, Breaks,
       TimesOut, Authorized
  <2>5. UNCHANGED <<now, keyVars, wsParty, stopped>>
    BY <1>1 DEF Opened, Breaks, TimesOut, Authorized
  <2>6. ClientTypeOK'
    BY <2>2, <2>3, <2>4, <2>5 DEF ClientInv, ClientTypeOK
  <2>7. QED BY <2>2, <2>5, <2>6, SocketStep
<1>2. CASE AuthFails(c)
  <2>1. reconnectTimer' \in {"none", "armed", "stale"}
    BY <1>2, HandleWsCloseType DEF ClientInv, ClientTypeOK, AuthFails
  <2>2. /\ conn' \in [Conn -> [stage : Stage, session : 0 .. MaxKeys, retry : BOOLEAN]]
        /\ \A d \in Conn : conn'[d].session = conn[d].session
    BY <1>2 DEF ClientInv, ClientTypeOK, AuthFails
  <2>3. ClientTypeOK'
    BY <1>2, <2>1, <2>2 DEF ClientInv, ClientTypeOK, AuthFails
  <2>4. QED BY <1>2, <2>2, <2>3, SocketStep DEF AuthFails
<1>3. CASE ErrorEvent(c) \/ CloseEvent(c)
  <2>1. /\ HandleWsClose /\ events' \subseteq events
        /\ UNCHANGED <<now, keyVars, wsParty, conn, stopped>>
    BY <1>3 DEF ErrorEvent, CloseEvent
  <2>2. ClientTypeOK'
    BY <2>1, HandleWsCloseType DEF ClientInv, ClientTypeOK
  <2>3. QED BY <2>1, <2>2, SocketStep
<1>4. QED BY <1>1, <1>2, <1>3

LEMMA NextClientInv ==
  ASSUME ClientInv, [ClientNext]_clientVars
  PROVE  ClientInv'
<1>1. CASE \/ Start \/ Seeded \/ CreateSessionAnnoucement
           \/ GetServiceIdentity \/ Stored \/ AnnounceFails
           \/ \E r \in Reply : Announced(r)
  BY <1>1, StartingKeeps
<1>2. CASE Connect
  BY <1>2, ConnectKeeps
<1>3. CASE Stop \/ RollSessionKey \/ Tick
  BY <1>3, StopAndRollKeep
<1>4. CASE DoReconnect
  BY <1>4, DoReconnectKeeps
<1>5. ASSUME NEW c \in Conn,
             \/ Opened(c) \/ Breaks(c) \/ TimesOut(c) \/ Authorized(c)
             \/ AuthFails(c) \/ ErrorEvent(c) \/ CloseEvent(c)
      PROVE  ClientInv'
  BY <1>5, SocketKeeps
<1>6. CASE UNCHANGED clientVars
  BY <1>6 DEF clientVars, keyVars, wsVars, ClientInv, ClientTypeOK, RestPartyHasKey,
     StartInOrder, WsPartyHasKey, MayOpen, AnnouncedFirst
<1>7. QED BY <1>1, <1>2, <1>3, <1>4, <1>5, <1>6 DEF ClientNext

\* The inductive invariant of a client, for any websockets, number of keys, clock
\* and ages of a session that EphemeralClient assumes.
THEOREM EphemeralClientInvariant == ClientSpec => []ClientInv
<1>1. ClientInit => ClientInv
  BY InitClientInv
<1>2. ClientInv /\ [ClientNext]_clientVars => ClientInv'
  BY NextClientInv
<1>3. QED BY <1>1, <1>2, PTL DEF ClientSpec

\* Every variable keeps its type (ephemeral-client.js).
THEOREM EphemeralClientTypeOK == ClientSpec => []ClientTypeOK
<1>1. ClientInv => ClientTypeOK
  BY DEF ClientInv
<1>2. QED BY <1>1, EphemeralClientInvariant, PTL

\* A client that was not given a REST party opens a websocket only under a session
\* the service knows, whatever announcements fail, sockets break, and keys are rolled while a reconnection is
\* due (ephemeral-client.js:72, 104, 192).
THEOREM EphemeralClientAnnouncedFirst == ClientSpec => []AnnouncedFirst
<1>1. ClientInv => AnnouncedFirst
  BY DEF ClientInv
<1>2. QED BY <1>1, EphemeralClientInvariant, PTL
=============================================================================

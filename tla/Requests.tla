------------------------------ MODULE Requests ------------------------------
(* What the query backend of a party promises the code that calls it: a call
   is pending until it is settled, once, and calls that share one backend
   request settle together, with one outcome.  QueryBackend implements this
   when its requests are debounced. *)

CONSTANTS Call,   \* calls of Qb.find, Qb.lookup, Qb.create and Qb.modify
          None    \* no call

VARIABLES outcome,  \* the state of the promise each call returned
          awaits    \* the call whose request each call waits for

vars == <<outcome, awaits>>

Outcome == {"idle", "pending", "resolved", "rejected"}

Init ==
  /\ outcome = [c \in Call |-> "idle"]
  /\ awaits  = [c \in Call |-> None]

\* A call that starts a request of its own.
Issue(c) ==
  /\ outcome[c] = "idle"
  /\ outcome' = [outcome EXCEPT ![c] = "pending"]
  /\ awaits'  = [awaits  EXCEPT ![c] = c]

\* A call that shares the request of a call that is still pending.
Join(c, d) ==
  /\ outcome[c] = "idle"
  /\ outcome[d] = "pending" /\ awaits[d] = d
  /\ outcome' = [outcome EXCEPT ![c] = "pending"]
  /\ awaits'  = [awaits  EXCEPT ![c] = d]

\* A call answered without any request.
Answer(c) ==
  /\ outcome[c] = "idle"
  /\ outcome' = [outcome EXCEPT ![c] = "resolved"]
  /\ UNCHANGED awaits

\* The requests in DOMAIN verdict end, and everyone who waits for one of them
\* learns its verdict in the same step.
Settle(verdict) ==
  /\ outcome' = [c \in Call |->
                   IF outcome[c] = "pending" /\ awaits[c] \in DOMAIN verdict
                   THEN verdict[awaits[c]] ELSE outcome[c]]
  /\ UNCHANGED awaits

Next ==
  \/ \E c \in Call : Issue(c) \/ Answer(c) \/ (\E d \in Call : Join(c, d))
  \/ \E ended \in (SUBSET Call) \ {{}} :
       \E verdict \in [ended -> {"resolved", "rejected"}] : Settle(verdict)

RequestsSpec == Init /\ [][Next]_vars
=============================================================================

------------------------------- MODULE PubSub -------------------------------
(***************************************************************************)
(* What the host's services promise the connections: a named service has a *)
(* set of subscribers, a message reaches subscribers only, and a           *)
(* connection that has been removed never receives anything again.         *)
(***************************************************************************)
CONSTANTS Conn, Svc

VARIABLES
  subs,   \* subs[s]: the connections subscribed to service s
  gone,   \* connections that have been removed from the server
  rcvd    \* rcvd[s]: the receivers of the last message of service s

vars == <<subs, gone, rcvd>>

Init ==
  /\ subs = [s \in Svc |-> {}]
  /\ gone = {}
  /\ rcvd = [s \in Svc |-> {}]

Subscribe(s, c) ==
  /\ c \notin gone
  /\ subs' = [subs EXCEPT ![s] = @ \cup {c}]
  /\ UNCHANGED <<gone, rcvd>>

Unsubscribe(s, c) ==
  /\ subs' = [subs EXCEPT ![s] = @ \ {c}]
  /\ UNCHANGED <<gone, rcvd>>

(* A connection leaves only once no service has it as a subscriber.        *)
Remove(c) ==
  /\ \A s \in Svc : c \notin subs[s]
  /\ gone' = gone \cup {c}
  /\ UNCHANGED <<subs, rcvd>>

Publish(s) ==
  /\ \E R \in SUBSET subs[s] : rcvd' = [rcvd EXCEPT ![s] = R]
  /\ UNCHANGED <<subs, gone>>

Next ==
  \/ \E s \in Svc, c \in Conn : Subscribe(s, c) \/ Unsubscribe(s, c)
  \/ \E c \in Conn : Remove(c)
  \/ \E s \in Svc : Publish(s)

Spec == Init /\ [][Next]_vars
=============================================================================

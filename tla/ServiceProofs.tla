--------------------------- MODULE ServiceProofs ---------------------------
(***************************************************************************)
(* For any set of connections and services: the invariants of Service, and *)
(* that Service implements PubSub.                                         *)
(***************************************************************************)
EXTENDS Service, TLAPS

(* The steps are first-order: Zenon proves them, except where SMT is named. *)
USE Zenon

ConnOp == {"add", "subscribe", "remove"}

(* What holds of the operation that has the Server's write lock: it works  *)
(* for a connection that is not removed yet, and does to the services only *)
(* what its kind allows.                                                   *)
CallInv ==
  /\ call.op \in ConnOp => call.conn \in Conn /\ phase[call.conn] # "removed"
  /\ \A s \in Svc :
       /\ call.todo[s] # None => s \in services
       /\ call.op = "remove" => call.todo[s] \in {None, "on_unsubscribe"}
       /\ call.op \notin ConnOp => call.todo[s] \in {None, "join", "joining"}

(* A service that does not exist has no subscriber, and remove_connection  *)
(* leaves none behind in the services it has visited.                      *)
VisitedInv ==
  \A s \in Svc :
    /\ s \notin services => Subs(s) = {}
    /\ call.op = "remove" /\ call.todo[s] = None => call.conn \notin Subs(s)

(* The second map is used only by services that send a snapshot.           *)
MapsInv == OneMap /\ \A s \in Svc \ NeedSnapshot : new_subscribes[s] = {}

IInv == TypeOK /\ MapsInv /\ CallInv /\ VisitedInv /\ RemovedIsUnsubscribed

(* Every variable keeps its type in every step, and a service has a thread *)
(* exactly when the Server's map holds it.                                 *)
LEMMA TypeInductive == TypeOK /\ CallInv /\ [Next]_vars => TypeOK'
<1> SUFFICES ASSUME TypeOK, CallInv, [Next]_vars PROVE TypeOK'
  OBVIOUS
<1> USE DEF TypeOK
<1>1. ASSUME NEW c \in Conn, NEW primary \in AtMostOne(Video),
             NEW perms \in SUBSET (Builtin \cap services), AddConnection(c, primary, perms)
      PROVE TypeOK'
  BY SMT, <1>1, ServiceAssumption
     DEF AtMostOne, Video, AddConnection, Begin, AddServices, Task, PC, None, history
<1>2. ASSUME NEW c \in Conn, NEW add \in SUBSET Video,
             NEW sub \in SUBSET Video, NEW set \in SUBSET Video,
             NEW focus \in {None, "subscribe", "unsubscribe"},
             CaptureDisplays(c, add, sub, set, focus)
      PROVE TypeOK'
  BY <1>2, ServiceAssumption DEF Video, CaptureDisplays, Begin, AddServices, Task, PC, None, history
<1>10. ASSUME NEW c \in Conn, NEW s \in Svc,
              NEW task \in {"subscribe", "unsubscribe"}, Subscribe(c, s, task)
       PROVE TypeOK'
  BY <1>10 DEF Subscribe, threads, Begin, Task, PC, None, history
<1>3. ASSUME NEW c \in Conn, RemoveConnection(c) PROVE TypeOK'
  BY <1>3 DEF RemoveConnection, Begin, Task, None, threads, history
<1>4. CASE DropServer
  BY <1>4 DEF DropServer, Begin, Task, None, threads, history
<1>5. CASE EndCall
  <2>1. call' \in [op : {"idle", "add", "subscribe", "remove", "drop", "dropped"},
                   conn : Conn \cup {None}, todo : [Svc -> Task],
                   cur : Svc \cup {None}]
    BY <1>5 DEF EndCall, Idle, Task
  <2>2. phase' \in [Conn -> {"new", "added", "removed"}]
    BY <1>5 DEF EndCall
  <2>. QED BY <1>5, <2>1, <2>2 DEF EndCall, threads, history
<1>6. CASE Dropped
  BY <1>6 DEF Dropped, threads, history
<1>7. ASSUME NEW s \in Svc, ServerStep(s) PROVE TypeOK'
  <2> USE DEF Goto, Doing, Task, threads, history
  <2>1. CASE OnSubscribe(s)
    <3>1. call.op \in ConnOp
      BY <2>1, CallInv DEF OnSubscribe, CallInv, None
    <3>2. call.conn \in Conn
      BY <3>1, CallInv DEF CallInv
    <3>. QED BY SMT, <2>1, <3>2 DEF OnSubscribe
  <2>2. CASE OnUnsubscribe(s)
    BY SMT, <2>2 DEF OnUnsubscribe, Forget
  <2>3. CASE IsSubedFirst(s)
    <3>1. call.op \in ConnOp
      BY <2>3, CallInv DEF IsSubedFirst, CallInv, None
    <3>2. call.conn \in Conn
      BY <3>1, CallInv DEF CallInv
    <3>. QED BY SMT, <2>3, <3>2 DEF IsSubedFirst
  <2>4. CASE IsSubedSecond(s)
    <3>1. call.op \in ConnOp
      BY <2>4, CallInv DEF IsSubedSecond, CallInv, None
    <3>2. call.conn \in Conn
      BY <3>1, CallInv DEF CallInv
    <3>3. wanted' \in [Svc -> SUBSET Conn]
      BY <2>4, <3>2 DEF IsSubedSecond
    <3>4. call' \in [op : {"idle", "add", "subscribe", "remove", "drop", "dropped"},
                     conn : Conn \cup {None}, todo : [Svc -> Task],
                     cur : Svc \cup {None}]
      BY SMT, <2>4 DEF IsSubedSecond
    <3>. QED BY <2>4, <3>3, <3>4 DEF IsSubedSecond
  <2>5. CASE Join(s)
    BY <2>5 DEF Join
  <2>6. CASE Joined(s)
    BY <2>6 DEF Joined
  <2>. QED BY <1>7, <2>1, <2>2, <2>3, <2>4, <2>5, <2>6 DEF ServerStep
<1>8. ASSUME NEW s \in Svc, Thread(s) PROVE TypeOK'
  <2> USE DEF At, Go, PC, None, history
  <2>1. CASE CheckActive(s)
    BY <2>1 DEF CheckActive
  <2>2. CASE HasSubscribes(s)
    BY <2>2 DEF HasSubscribes, Initialised
  <2>3. CASE Ok(s)
    BY <2>3 DEF Ok
  <2>4. CASE CallbackError(s)
    BY <2>4 DEF CallbackError
  <2>5. CASE SendShared(s)
    BY SMT, <2>5 DEF SendShared, AfterSend
  <2>6. CASE NothingToSend(s)
    BY <2>6 DEF NothingToSend, AfterSend
  <2>7. CASE Snapshot(s)
    BY <2>7 DEF Snapshot, AfterSnapshot
  <2>8. CASE SendNewSubscribes(s)
    BY <2>8 DEF SendNewSubscribes
  <2>9. CASE RestartIfSubscribed(s)
    BY <2>9 DEF RestartIfSubscribed
  <2>10. CASE SwapNewSubscribes(s)
    BY SMT, <2>10 DEF SwapNewSubscribes, Swap, Subs, AfterSnapshot
  <2>. QED BY <1>8, <2>1, <2>2, <2>3, <2>4, <2>5, <2>6, <2>7, <2>8, <2>9,
              <2>10 DEF Thread
<1>9. CASE UNCHANGED vars
  BY <1>9 DEF vars, threads, history
<1> HIDE DEF TypeOK
<1>. QED BY <1>1, <1>2, <1>3, <1>4, <1>5, <1>6, <1>7, <1>8, <1>9, <1>10 DEF Next

(* A service thread touches the maps only by a swap, which neither adds    *)
(* nor loses a subscriber, and leaves everything else of the Server alone. *)
LEMMA ThreadFrame ==
  ASSUME TypeOK, NEW s \in Svc, Thread(s)
  PROVE  /\ UNCHANGED <<services, phase, call>>
         /\ UNCHANGED <<subscribes, new_subscribes>> \/ Swap(s)
         /\ \A t \in Svc : Subs(t)' = Subs(t)
<1>1. /\ UNCHANGED <<services, phase, call>>
      /\ UNCHANGED <<subscribes, new_subscribes>> \/ Swap(s)
  BY DEF Thread, CheckActive, HasSubscribes, Ok, CallbackError, SendShared,
         NothingToSend, Snapshot, SendNewSubscribes, RestartIfSubscribed,
         SwapNewSubscribes
<1>2. \A t \in Svc : Subs(t)' = Subs(t)
  BY SMT, <1>1 DEF TypeOK, Swap, Subs
<1>. QED BY <1>1, <1>2

(* A Server step works on one service and only for the operation's own     *)
(* connection.                                                             *)
LEMMA ServerFrame ==
  ASSUME TypeOK, NEW s \in Svc, ServerStep(s)
  PROVE  /\ UNCHANGED <<services, phase>>
         /\ call'.op = call.op /\ call'.conn = call.conn
         /\ call.todo[s] # None
         /\ \A t \in Svc \ {s} : /\ call'.todo[t] = call.todo[t]
                                 /\ Subs(t)' = Subs(t)
         /\ Subs(s)' \in {Subs(s), Subs(s) \cup {call.conn}}
             \/ Subs(s)' \subseteq Subs(s)
<1> USE DEF TypeOK, Doing, Goto, None, Subs
<1>1. CASE OnSubscribe(s)
  BY SMT, <1>1 DEF OnSubscribe
<1>2. CASE OnUnsubscribe(s)
  BY SMT, <1>2 DEF OnUnsubscribe, Forget
<1>3. CASE IsSubedFirst(s)
  BY SMT, <1>3 DEF IsSubedFirst
<1>4. CASE IsSubedSecond(s)
  BY SMT, <1>4 DEF IsSubedSecond
<1>5. CASE Join(s)
  BY <1>5 DEF Join
<1>6. CASE Joined(s)
  BY <1>6 DEF Joined
<1>. QED BY <1>1, <1>2, <1>3, <1>4, <1>5, <1>6 DEF ServerStep

(* The operation in progress keeps to its kind.                            *)
LEMMA CallInductive == TypeOK /\ CallInv /\ [Next]_vars => CallInv'
<1> SUFFICES ASSUME TypeOK, CallInv, [Next]_vars PROVE CallInv'
  OBVIOUS
<1> USE DEF CallInv, ConnOp, None
<1>1. ASSUME NEW c \in Conn, NEW primary \in AtMostOne(Video),
             NEW perms \in SUBSET (Builtin \cap services), AddConnection(c, primary, perms)
      PROVE CallInv'
  BY <1>1, ServiceAssumption DEF AtMostOne, Video, AddConnection, Begin, AddServices
<1>2. ASSUME NEW c \in Conn, NEW add \in SUBSET Video,
             NEW sub \in SUBSET Video, NEW set \in SUBSET Video,
             NEW focus \in {None, "subscribe", "unsubscribe"},
             CaptureDisplays(c, add, sub, set, focus)
      PROVE CallInv'
  BY <1>2, ServiceAssumption DEF Video, CaptureDisplays, Begin, AddServices
<1>10. ASSUME NEW c \in Conn, NEW s \in Svc,
              NEW task \in {"subscribe", "unsubscribe"}, Subscribe(c, s, task)
       PROVE CallInv'
  BY <1>10 DEF Subscribe, Begin, AddServices
<1>3. ASSUME NEW c \in Conn, RemoveConnection(c) PROVE CallInv'
  BY <1>3 DEF RemoveConnection, Begin
<1>4. CASE DropServer
  BY <1>4 DEF DropServer, Begin
<1>5. CASE EndCall
  BY <1>5 DEF EndCall, Idle
<1>6. CASE Dropped
  BY <1>6 DEF Dropped, TypeOK
<1>7. ASSUME NEW s \in Svc, ServerStep(s) PROVE CallInv'
  <2>1. /\ UNCHANGED <<services, phase>>
        /\ call'.op = call.op /\ call'.conn = call.conn
        /\ call.todo[s] # None
        /\ \A t \in Svc \ {s} : call'.todo[t] = call.todo[t]
    BY <1>7, ServerFrame
  <2>2. /\ call.op = "remove" => call'.todo[s] \in {None, "on_unsubscribe"}
        /\ call.op \notin ConnOp => call'.todo[s] \in {None, "join", "joining"}
    BY SMT, <1>7 DEF TypeOK, ServerStep, OnSubscribe, OnUnsubscribe, IsSubedFirst,
                IsSubedSecond, Join, Joined, Goto, Doing
  <2>. QED BY <2>1, <2>2
<1>8. ASSUME NEW s \in Svc, Thread(s) PROVE CallInv'
  BY <1>8, ThreadFrame
<1>9. CASE UNCHANGED vars
  BY <1>9 DEF vars
<1>. QED BY SMT, <1>1, <1>2, <1>3, <1>4, <1>5, <1>6, <1>7, <1>8, <1>9, <1>10 DEF Next

(* No step puts a connection into both maps of a service.                  *)
LEMMA MapsInductive == TypeOK /\ MapsInv /\ [Next]_vars => MapsInv'
<1> SUFFICES ASSUME TypeOK, MapsInv, [Next]_vars PROVE MapsInv'
  OBVIOUS
<1> USE DEF OneMap, MapsInv
<1>1. ASSUME NEW s \in Svc, ServerStep(s) PROVE MapsInv'
  <2> USE DEF TypeOK
  <2>1. CASE OnSubscribe(s)
    BY SMT, <2>1 DEF OnSubscribe, AlreadySubscribed, SnapshotComesFirst
  <2>2. CASE OnUnsubscribe(s)
    BY SMT, <2>2 DEF OnUnsubscribe, Forget
  <2>3. CASE IsSubedFirst(s) \/ IsSubedSecond(s) \/ Join(s) \/ Joined(s)
    BY <2>3 DEF IsSubedFirst, IsSubedSecond, Join, Joined
  <2>. QED BY <1>1, <2>1, <2>2, <2>3 DEF ServerStep
<1>2. ASSUME NEW s \in Svc, Thread(s) PROVE MapsInv'
  <2>1. UNCHANGED <<subscribes, new_subscribes>> \/ Swap(s)
    BY <1>2, ThreadFrame
  <2>. QED BY <2>1 DEF Swap, Subs, TypeOK
<1>3. CASE UNCHANGED <<subscribes, new_subscribes>>
  BY <1>3
<1>. QED BY <1>1, <1>2, <1>3
         DEF Next, vars, AddConnection, Subscribe, CaptureDisplays,
             RemoveConnection, DropServer,
             EndCall, Dropped

(* remove_connection empties the services it visits, and nothing else can  *)
(* fill them again for the same connection while it runs.                  *)
LEMMA VisitedInductive ==
  TypeOK /\ MapsInv /\ CallInv /\ VisitedInv /\ [Next]_vars => VisitedInv'
<1> SUFFICES ASSUME TypeOK, MapsInv, CallInv, VisitedInv, [Next]_vars
             PROVE VisitedInv'
  OBVIOUS
<1> USE DEF VisitedInv, None
<1>1. ASSUME NEW c \in Conn, NEW primary \in AtMostOne(Video),
             NEW perms \in SUBSET (Builtin \cap services), AddConnection(c, primary, perms)
      PROVE VisitedInv'
  BY <1>1, ServiceAssumption DEF AtMostOne, Video, AddConnection, Begin, AddServices, Subs
<1>2. ASSUME NEW c \in Conn, NEW add \in SUBSET Video,
             NEW sub \in SUBSET Video, NEW set \in SUBSET Video,
             NEW focus \in {None, "subscribe", "unsubscribe"},
             CaptureDisplays(c, add, sub, set, focus)
      PROVE VisitedInv'
  BY <1>2, ServiceAssumption DEF Video, CaptureDisplays, Begin, AddServices, Subs
<1>10. ASSUME NEW c \in Conn, NEW s \in Svc,
              NEW task \in {"subscribe", "unsubscribe"}, Subscribe(c, s, task)
       PROVE VisitedInv'
  BY <1>10 DEF Subscribe, threads, Begin, Subs
<1>3. ASSUME NEW c \in Conn, RemoveConnection(c) PROVE VisitedInv'
  BY <1>3 DEF RemoveConnection, Begin, Subs
<1>4. CASE DropServer
  BY <1>4 DEF DropServer, Begin, Subs
<1>5. CASE EndCall
  BY <1>5 DEF EndCall, Idle, Subs
<1>6. CASE Dropped
  BY <1>6 DEF Dropped, Subs, TypeOK
<1>7. ASSUME NEW s \in Svc, ServerStep(s) PROVE VisitedInv'
  <2>1. /\ UNCHANGED services
        /\ call'.op = call.op /\ call'.conn = call.conn
        /\ call.todo[s] # None
        /\ \A t \in Svc \ {s} : /\ call'.todo[t] = call.todo[t]
                                /\ Subs(t)' = Subs(t)
    BY <1>7, ServerFrame
  <2>2. s \in services
    BY <2>1 DEF CallInv
  <2>3. ASSUME call.op = "remove" PROVE call.conn \notin Subs(s)'
    <3>1. OnUnsubscribe(s)
      BY <1>7, <2>1, <2>3 DEF CallInv, ServerStep, OnSubscribe, IsSubedFirst,
                              IsSubedSecond, Join, Joined, Doing
    <3>. QED BY SMT, <3>1 DEF OnUnsubscribe, Forget, MapsInv, OneMap, Subs, TypeOK
  <2>. QED BY <2>1, <2>2, <2>3
<1>8. ASSUME NEW s \in Svc, Thread(s) PROVE VisitedInv'
  BY <1>8, ThreadFrame
<1>9. CASE UNCHANGED vars
  BY <1>9 DEF vars, Subs
<1>. QED BY <1>1, <1>2, <1>3, <1>4, <1>5, <1>6, <1>7, <1>8, <1>9, <1>10 DEF Next

(* A connection that has been removed is never subscribed again.           *)
LEMMA RemovedInductive == IInv /\ [Next]_vars => RemovedIsUnsubscribed'
<1> SUFFICES ASSUME IInv, [Next]_vars PROVE RemovedIsUnsubscribed'
  OBVIOUS
<1> USE DEF IInv, RemovedIsUnsubscribed
<1>1. CASE EndCall
  <2>1. \A s \in Svc : Subs(s)' = Subs(s)
    BY <1>1 DEF EndCall, Subs
  <2>2. call.op = "remove" => \A s \in Svc : call.conn \notin Subs(s)
    BY <1>1 DEF EndCall, VisitedInv
  <2>. QED BY SMT, <1>1, <2>1, <2>2 DEF EndCall, TypeOK
<1>2. ASSUME NEW s \in Svc, ServerStep(s) PROVE RemovedIsUnsubscribed'
  <2>1. /\ UNCHANGED phase
        /\ \A t \in Svc \ {s} : Subs(t)' = Subs(t)
    BY <1>2, ServerFrame
  <2>2. ASSUME NEW c \in Conn, phase[c] = "removed" PROVE c \notin Subs(s)'
    <3>1. CASE call.op \in ConnOp
      <4>1. c # call.conn
        BY <3>1, <2>2 DEF CallInv
      <4>2. Subs(s)' \in {Subs(s), Subs(s) \cup {call.conn}}
            \/ Subs(s)' \subseteq Subs(s)
        BY <1>2, ServerFrame
      <4>. QED BY <2>2, <4>1, <4>2
    <3>2. CASE call.op \notin ConnOp
      <4>1. Join(s) \/ Joined(s)
        BY <1>2, <3>2 DEF CallInv, ServerStep, OnSubscribe, OnUnsubscribe,
                          IsSubedFirst, IsSubedSecond, Doing, None
      <4>. QED BY <2>2, <4>1 DEF Join, Joined, Subs
    <3>. QED BY <3>1, <3>2
  <2>. QED BY <2>1, <2>2
<1>3. ASSUME NEW s \in Svc, Thread(s) PROVE RemovedIsUnsubscribed'
  BY <1>3, ThreadFrame
<1>4. CASE UNCHANGED <<subscribes, new_subscribes, phase>>
  BY <1>4 DEF Subs
<1>. QED BY <1>1, <1>2, <1>3, <1>4
         DEF Next, vars, AddConnection, Subscribe, CaptureDisplays,
             RemoveConnection, DropServer,
             Dropped

LEMMA InitIInv == Init => IInv
<1> SUFFICES ASSUME Init PROVE IInv
  OBVIOUS
<1> USE ServiceAssumption DEF Init, Idle, None
<1>1. TypeOK
  BY SMT DEF TypeOK, Task, PC
<1>2. MapsInv /\ VisitedInv /\ RemovedIsUnsubscribed
  BY DEF MapsInv, OneMap, VisitedInv, RemovedIsUnsubscribed, Subs
<1>3. CallInv
  BY DEF CallInv, ConnOp
<1>. QED BY <1>1, <1>2, <1>3 DEF IInv

(* IInv is an inductive invariant of Service.                              *)
THEOREM Inductive == Spec => []IInv
<1>1. IInv /\ [Next]_vars => IInv'
  BY TypeInductive, CallInductive, MapsInductive, VisitedInductive,
     RemovedInductive DEF IInv
<1>. QED BY InitIInv, <1>1, PTL DEF Spec

(* Type correctness of the services and of the Server, for any number of   *)
(* connections and services.                                               *)
THEOREM TypeCorrect == Spec => []TypeOK
<1>1. IInv => TypeOK
  BY DEF IInv
<1>. QED BY Inductive, <1>1, PTL

(* After Server::remove_connection no service holds the connection, and at *)
(* no time is a connection in both maps of a service.                      *)
THEOREM NoSubscriptionSurvives == Spec => [](OneMap /\ RemovedIsUnsubscribed)
<1>1. IInv => OneMap /\ RemovedIsUnsubscribed
  BY DEF IInv, MapsInv
<1>. QED BY Inductive, <1>1, PTL

(* The refinement mapping: the subscribers of a service are those in either *)
(* map, the connections that are gone are the removed ones.                *)
SubsMap == [s \in Svc |-> Subs(s)]
GoneMap == {c \in Conn : phase[c] = "removed"}

LEMMA RefinesStep ==
  ASSUME IInv, [Next]_vars
  PROVE  [Abstract!Next]_(Abstract!vars)
<1> USE DEF Abstract!Next, Abstract!vars, Abstract!Subscribe,
            Abstract!Unsubscribe, Abstract!Remove, Abstract!Publish
<1>0. TypeOK /\ MapsInv /\ CallInv /\ VisitedInv
  BY DEF IInv
<1>1. CASE EndCall
  <2>1. UNCHANGED <<SubsMap, rcvd>>
    BY <1>1 DEF EndCall, SubsMap, Subs
  <2>2. CASE call.op = "remove"
    <3>1. /\ call.conn \in Conn
          /\ \A s \in Svc : call.conn \notin Subs(s)
      BY <1>0, <1>1, <2>2 DEF EndCall, CallInv, ConnOp, VisitedInv
    <3>2. GoneMap' = GoneMap \cup {call.conn}
      BY SMT, <1>0, <1>1, <2>2, <3>1 DEF EndCall, GoneMap, TypeOK
    <3>. QED BY <2>1, <3>1, <3>2 DEF SubsMap, GoneMap
  <2>3. CASE call.op # "remove"
    <3>1. GoneMap' = GoneMap
      <4>1. call.op = "add" => phase[call.conn] # "removed"
        BY <1>0 DEF CallInv, ConnOp
      <4>. QED BY <1>0, <1>1, <2>3, <4>1 DEF EndCall, GoneMap, TypeOK
    <3>. QED BY <2>1, <3>1 DEF SubsMap, GoneMap
  <2>. QED BY <2>2, <2>3
<1>2. ASSUME NEW s \in Svc, ServerStep(s)
      PROVE  [Abstract!Next]_(Abstract!vars)
  <2>0. UNCHANGED <<GoneMap, rcvd>>
    BY <1>2 DEF ServerStep, OnSubscribe, OnUnsubscribe, IsSubedFirst,
                IsSubedSecond, Join, Joined, GoneMap
  <2>1. CASE OnSubscribe(s)
    <3>1. call.op \in ConnOp
      BY <1>0, <2>1 DEF OnSubscribe, Doing, CallInv, None
    <3>2. call.conn \in Conn /\ call.conn \notin GoneMap
      BY <1>0, <3>1 DEF CallInv, GoneMap
    <3>3. SubsMap' = [SubsMap EXCEPT ![s] = @ \cup {call.conn}]
      <4>1. Subs(s)' = Subs(s) \cup {call.conn}
        BY SMT, <1>0, <2>1 DEF OnSubscribe, AlreadySubscribed, Subs, TypeOK
      <4>2. \A t \in Svc \ {s} : Subs(t)' = Subs(t)
        BY <1>0, <1>2, ServerFrame
      <4>. QED BY <4>1, <4>2 DEF SubsMap
    <3>. QED BY <2>0, <3>2, <3>3 DEF SubsMap, GoneMap
  <2>2. CASE OnUnsubscribe(s)
    <3>1. call.conn \in Conn
      BY <1>0, <2>2 DEF OnUnsubscribe, Doing, CallInv, None
    <3>2. SubsMap' = [SubsMap EXCEPT ![s] = @ \ {call.conn}]
      <4>1. subscribes[s] \cap new_subscribes[s] = {}
        BY <1>0 DEF MapsInv, OneMap
      <4>2. Subs(s)' = Subs(s) \ {call.conn}
        BY SMT, <1>0, <2>2, <4>1 DEF OnUnsubscribe, Forget, Subs, TypeOK
      <4>3. \A t \in Svc \ {s} : Subs(t)' = Subs(t)
        BY <1>0, <1>2, ServerFrame
      <4>. QED BY <4>2, <4>3 DEF SubsMap
    <3>. QED BY <2>0, <3>1, <3>2 DEF SubsMap, GoneMap
  <2>3. CASE IsSubedFirst(s) \/ IsSubedSecond(s) \/ Join(s) \/ Joined(s)
    <3>1. UNCHANGED SubsMap
      BY <2>3 DEF IsSubedFirst, IsSubedSecond, Join, Joined, SubsMap, Subs
    <3>. QED BY <2>0, <3>1 DEF SubsMap, GoneMap
  <2>. QED BY <1>2, <2>1, <2>2, <2>3 DEF ServerStep
<1>3. ASSUME NEW s \in Svc, Thread(s)
      PROVE  [Abstract!Next]_(Abstract!vars)
  <2>1. UNCHANGED <<SubsMap, GoneMap>>
    BY <1>0, <1>3, ThreadFrame DEF SubsMap, GoneMap
  <2>2. CASE UNCHANGED rcvd
    BY <2>1, <2>2 DEF SubsMap, GoneMap
  <2>3. ASSUME NEW R \in SUBSET Subs(s), rcvd' = [rcvd EXCEPT ![s] = R]
        PROVE  [Abstract!Next]_(Abstract!vars)
    BY <2>1, <2>3 DEF SubsMap, GoneMap
  <2>4. UNCHANGED rcvd \/ \E R \in SUBSET Subs(s) : rcvd' = [rcvd EXCEPT ![s] = R]
    BY SMT, <1>0, <1>3 DEF Thread, CheckActive, HasSubscribes, Ok, CallbackError,
         SendShared, NothingToSend, Snapshot, SendNewSubscribes,
         RestartIfSubscribed, SwapNewSubscribes, Subs, TypeOK
  <2>. QED BY <2>2, <2>3, <2>4
<1>4. CASE UNCHANGED <<subscribes, new_subscribes, phase, rcvd>>
  BY <1>4 DEF Subs
<1>. QED BY <1>1, <1>2, <1>3, <1>4
         DEF Next, vars, AddConnection, Subscribe, CaptureDisplays,
             RemoveConnection, DropServer,
             Dropped

(* Service implements PubSub: the two maps, the swap and the operations    *)
(* that visit services one lock at a time are a set of subscribers per     *)
(* service, which a removed connection never enters again.                 *)
THEOREM Refinement == Spec => Refines
<1>1. Init => Abstract!Init
  BY SMT DEF Init, Abstract!Init, Subs
<1>2. IInv /\ [Next]_vars => [Abstract!Next]_(Abstract!vars)
  BY RefinesStep
<1>. QED BY <1>1, <1>2, Inductive, PTL DEF Spec, Refines, Abstract!Spec

(***************************************************************************)
(* Nothing is lost, nothing lingers, snapshots come first.                 *)
(***************************************************************************)
(* The answer of is_subed's second read is wrong only about a connection   *)
(* that a swap has moved since the first read.                             *)
ProbeInv ==
  \A s \in Svc :
    call.todo[s] = "probed_unsubscribe" =>
      call.cur = s /\ (call.conn \in subscribes[s] => call.conn \in raced[s])

HistoryInv ==
  /\ \A s \in Svc : wanted[s] \subseteq Subs(s) /\ Subs(s) \ wanted[s] \subseteq raced[s]
  /\ ProbeInv

(* Between the snapshot and the swap the second map has only connections   *)
(* that got the snapshot or came after it.                                 *)
SnapshotInv ==
  \A s \in NeedSnapshot \ Restart :
    /\ pc[s] # "swap_err"
    /\ subscribes[s] \ primed[s] \subseteq late[s]
    /\ pc[s] = "swap" => new_subscribes[s] \ primed[s] \subseteq late[s]

(* What the threads leave alone, and what they do to the histories.        *)
LEMMA ThreadHistory ==
  ASSUME TypeOK, NEW s \in Svc, Thread(s)
  PROVE  /\ wanted' = wanted
         /\ \/ UNCHANGED <<subscribes, new_subscribes, raced>>
            \/ SwapNewSubscribes(s)
  BY DEF Thread, CheckActive, HasSubscribes, Ok, CallbackError, SendShared,
         NothingToSend, Snapshot, SendNewSubscribes, RestartIfSubscribed,
         SwapNewSubscribes, history

LEMMA HistoryInductive == IInv /\ HistoryInv /\ [Next]_vars => HistoryInv'
<1> SUFFICES ASSUME IInv, HistoryInv, [Next]_vars PROVE HistoryInv'
  OBVIOUS
<1>0. TypeOK /\ MapsInv /\ CallInv
  BY DEF IInv
<1> USE DEF HistoryInv, ProbeInv
<1>1. ASSUME NEW c, NEW op, NEW todo, Begin(op, c, todo),
             \A s \in Svc : todo[s] # "probed_unsubscribe",
             UNCHANGED <<subscribes, new_subscribes, history>>
      PROVE  HistoryInv'
  BY <1>1 DEF Begin, Subs, history
<1>2. ASSUME NEW s \in Svc, ServerStep(s) PROVE HistoryInv'
  <2>1. /\ call'.conn = call.conn
        /\ \A t \in Svc \ {s} : call'.todo[t] = call.todo[t] /\ Subs(t)' = Subs(t)
    BY <1>0, <1>2, ServerFrame
  <2>2. call.cur \in {None, s}
    BY <1>2 DEF ServerStep, OnSubscribe, OnUnsubscribe, IsSubedFirst, IsSubedSecond,
                Join, Joined, Doing
  <2>3. \A t \in Svc \ {s} : call.todo[t] # "probed_unsubscribe"
    BY <2>2, ServiceAssumption
  <2>4. CASE OnSubscribe(s)
    <3>1. /\ \A t \in Svc \ {s} : wanted'[t] = wanted[t]
          /\ raced' = raced
          /\ wanted'[s] = wanted[s] \cup {call.conn}
          /\ Subs(s)' = Subs(s) \cup {call.conn}
          /\ \A t \in Svc \ {s} : subscribes'[t] = subscribes[t]
          /\ call'.todo[s] = None
      BY SMT, <1>0, <2>4 DEF OnSubscribe, AlreadySubscribed, Subs, TypeOK, Goto
    <3>. QED BY SMT, <2>1, <2>3, <3>1 DEF None
  <2>5. CASE OnUnsubscribe(s)
    <3>1. /\ \A t \in Svc \ {s} : wanted'[t] = wanted[t] /\ raced'[t] = raced[t]
          /\ wanted'[s] = wanted[s] \ {call.conn}
          /\ raced'[s] = raced[s] \ {call.conn}
          /\ \A t \in Svc \ {s} : subscribes'[t] = subscribes[t]
          /\ call'.todo[s] = None
      BY <1>0, <2>5 DEF OnUnsubscribe, Forget, TypeOK, Goto
    <3>2. Subs(s)' = Subs(s) \ {call.conn}
      <4>1. subscribes[s] \cap new_subscribes[s] = {}
        BY <1>0 DEF MapsInv, OneMap
      <4>. QED BY SMT, <1>0, <2>5, <4>1 DEF OnUnsubscribe, Forget, Subs, TypeOK
    <3>. QED BY SMT, <2>1, <2>3, <3>1, <3>2 DEF None
  <2>6. CASE IsSubedFirst(s)
    <3>1. /\ UNCHANGED <<subscribes, new_subscribes, raced>>
          /\ \A t \in Svc \ {s} : wanted'[t] = wanted[t]
          /\ wanted'[s] = wanted[s] \/ (wanted'[s] = wanted[s] \cup {call.conn}
                                        /\ call.conn \in subscribes[s])
      BY <1>0, <2>6 DEF IsSubedFirst, TypeOK
    <3>2. call'.todo[s] = "probed_unsubscribe" =>
            call'.cur = s /\ call.conn \notin subscribes[s]
      BY SMT, <1>0, <2>6 DEF IsSubedFirst, Goto, TypeOK, None
    <3>. QED BY SMT, <2>1, <2>3, <3>1, <3>2 DEF Subs
  <2>7. CASE IsSubedSecond(s)
    <3>1. /\ UNCHANGED <<subscribes, new_subscribes, raced>>
          /\ \A t \in Svc \ {s} : wanted'[t] = wanted[t]
          /\ \/ wanted'[s] = wanted[s]
             \/ wanted'[s] = wanted[s] \cup {call.conn} /\ call.conn \in new_subscribes[s]
             \/ /\ wanted'[s] = wanted[s] \ {call.conn}
                /\ call.conn \notin new_subscribes[s]
                /\ call.todo[s] = "probed_unsubscribe"
      BY <1>0, <2>7 DEF IsSubedSecond, TypeOK
    <3>2. call'.todo[s] # "probed_unsubscribe"
      BY SMT, <1>0, <2>7 DEF IsSubedSecond, Goto, TypeOK, None
    <3>. QED BY SMT, <2>1, <2>3, <3>1, <3>2 DEF Subs
  <2>8. CASE Join(s) \/ Joined(s)
    <3>1. /\ UNCHANGED <<subscribes, new_subscribes, raced, wanted>>
          /\ call'.todo[s] # "probed_unsubscribe"
      BY SMT, <1>0, <2>8 DEF Join, Joined, Goto, TypeOK, None, history
    <3>. QED BY <2>1, <2>3, <3>1 DEF Subs
  <2>. QED BY <1>2, <2>4, <2>5, <2>6, <2>7, <2>8 DEF ServerStep
<1>3. ASSUME NEW s \in Svc, Thread(s) PROVE HistoryInv'
  <2>1. wanted' = wanted /\ call' = call /\ \A t \in Svc : Subs(t)' = Subs(t)
    BY <1>0, <1>3, ThreadFrame, ThreadHistory
  <2>2. CASE UNCHANGED <<subscribes, new_subscribes, raced>>
    BY <2>1, <2>2
  <2>3. CASE SwapNewSubscribes(s)
    <3>1. \A t \in Svc : raced[t] \subseteq raced'[t]
      BY <1>0, <2>3 DEF SwapNewSubscribes, TypeOK
    <3>2. \A t \in Svc \ {s} : subscribes'[t] = subscribes[t]
      BY <1>0, <2>3 DEF SwapNewSubscribes, Swap, TypeOK
    <3>3. ASSUME call.todo[s] = "probed_unsubscribe", call.conn \in subscribes'[s]
          PROVE  call.conn \in raced'[s]
      <4>1. call.conn \in subscribes[s] \/ call.conn \in new_subscribes[s]
        BY <1>0, <2>3, <3>3 DEF SwapNewSubscribes, Swap, Subs, TypeOK
      <4>2. call.conn \in new_subscribes[s] => call.conn \in raced'[s]
        BY <1>0, <2>3, <3>3 DEF SwapNewSubscribes, TypeOK
      <4>. QED BY <3>1, <3>3, <4>1, <4>2
    <3>. QED BY <2>1, <3>1, <3>2, <3>3
  <2>. QED BY <1>0, <1>3, <2>2, <2>3, ThreadHistory
<1>4. CASE EndCall \/ Dropped
  BY SMT, <1>0, <1>4 DEF EndCall, Dropped, Idle, None, Subs, history, TypeOK
<1>5. CASE UNCHANGED vars
  BY <1>5 DEF vars, Subs, history
<1> HIDE DEF HistoryInv, ProbeInv
<1>6. ASSUME NEW c \in Conn, NEW primary \in AtMostOne(Video),
             NEW perms \in SUBSET (Builtin \cap services), AddConnection(c, primary, perms)
      PROVE  HistoryInv'
  BY SMT, <1>1, <1>6 DEF AddConnection, None
<1>7. ASSUME NEW c \in Conn, NEW s \in Svc,
             NEW task \in {"subscribe", "unsubscribe"}, Subscribe(c, s, task)
      PROVE  HistoryInv'
  BY SMT, <1>1, <1>7 DEF Subscribe, None
<1>8. ASSUME NEW c \in Conn, NEW add \in SUBSET Video,
             NEW sub \in SUBSET Video, NEW set \in SUBSET Video,
             NEW focus \in {None, "subscribe", "unsubscribe"},
             CaptureDisplays(c, add, sub, set, focus)
      PROVE  HistoryInv'
  BY SMT, <1>1, <1>8 DEF CaptureDisplays, None
<1>9. ASSUME NEW c \in Conn, RemoveConnection(c) PROVE HistoryInv'
  <2> DEFINE todo == [s \in Svc |-> IF s \in services THEN "on_unsubscribe" ELSE None]
  <2>1. /\ Begin("remove", c, todo)
        /\ UNCHANGED <<subscribes, new_subscribes, history>>
    BY <1>9 DEF RemoveConnection
  <2>2. \A s \in Svc : todo[s] # "probed_unsubscribe"
    BY DEF None
  <2>. QED BY <1>1, <2>1, <2>2
<1>10. CASE DropServer
  BY SMT, <1>1, <1>10 DEF DropServer, None
<1>. QED BY <1>2, <1>3, <1>4, <1>5, <1>6, <1>7, <1>8, <1>9, <1>10 DEF Next

LEMMA SnapshotInductive == IInv /\ SnapshotInv /\ [Next]_vars => SnapshotInv'
<1> SUFFICES ASSUME IInv, SnapshotInv, [Next]_vars,
                    NEW s \in NeedSnapshot \ Restart
             PROVE  /\ pc'[s] # "swap_err"
                    /\ subscribes'[s] \ primed'[s] \subseteq late'[s]
                    /\ pc'[s] = "swap" => new_subscribes'[s] \ primed'[s] \subseteq late'[s]
  BY DEF SnapshotInv
<1> DEFINE Goal == /\ pc'[s] # "swap_err"
                   /\ subscribes'[s] \ primed'[s] \subseteq late'[s]
                   /\ pc'[s] = "swap" => new_subscribes'[s] \ primed'[s] \subseteq late'[s]
<1>0. TypeOK /\ MapsInv /\ s \in Svc
  BY ServiceAssumption DEF IInv
<1>1. /\ pc[s] # "swap_err"
      /\ subscribes[s] \ primed[s] \subseteq late[s]
      /\ pc[s] = "swap" => new_subscribes[s] \ primed[s] \subseteq late[s]
  BY DEF SnapshotInv
<1>2. ASSUME pc'[s] \in {pc[s], "loop"},
             UNCHANGED <<subscribes, new_subscribes, primed, late>>
      PROVE  Goal
  BY <1>1, <1>2
<1>3. ASSUME NEW t \in Svc, ServerStep(t) PROVE Goal
  <2>1. CASE OnSubscribe(t)
    <3>1. pc' = pc /\ primed' = primed
      BY <2>1 DEF OnSubscribe, threads
    <3>2. CASE t # s
      BY <1>0, <1>1, <2>1, <3>1, <3>2 DEF OnSubscribe, TypeOK
    <3>3. CASE t = s
      <4>1. subscribes'[s] = subscribes[s]
        BY <1>0, <2>1, <3>3 DEF OnSubscribe, SnapshotComesFirst, TypeOK
      <4>2. new_subscribes'[s] \subseteq new_subscribes[s] \cup {call.conn}
        BY <1>0, <2>1, <3>3 DEF OnSubscribe, SnapshotComesFirst, TypeOK
      <4>3. late[s] \subseteq late'[s]
        BY <1>0, <2>1, <3>3 DEF OnSubscribe, TypeOK
      <4>4. pc[s] = "swap" /\ call.conn \notin Subs(s) => call.conn \in late'[s]
        BY <1>0, <2>1, <3>3 DEF OnSubscribe, TypeOK
      <4>5. call.conn \in subscribes[s] => new_subscribes'[s] = new_subscribes[s]
        BY <1>0, <2>1, <3>3 DEF OnSubscribe, AlreadySubscribed, TypeOK
      <4>. QED BY <1>1, <3>1, <4>1, <4>2, <4>3, <4>4, <4>5 DEF Subs
    <3>. QED BY <3>2, <3>3
  <2>2. CASE OnUnsubscribe(t)
    <3>1. pc' = pc
      BY <2>2 DEF OnUnsubscribe, threads
    <3>2. CASE t # s
      BY <1>0, <1>1, <2>2, <3>1, <3>2 DEF OnUnsubscribe, Forget, TypeOK
    <3>3. CASE t = s
      <4>1. /\ subscribes'[s] = subscribes[s] \ {call.conn}
            /\ new_subscribes'[s] = new_subscribes[s] \ {call.conn}
        <5>1. subscribes[s] \cap new_subscribes[s] = {}
          BY <1>0 DEF MapsInv, OneMap
        <5>. QED BY SMT, <1>0, <2>2, <3>3, <5>1 DEF OnUnsubscribe, Forget, TypeOK
      <4>2. primed'[s] = primed[s] \ {call.conn} /\ late'[s] = late[s] \ {call.conn}
        BY <1>0, <2>2, <3>3 DEF OnUnsubscribe, TypeOK
      <4>. QED BY <1>1, <3>1, <4>1, <4>2
    <3>. QED BY <3>2, <3>3
  <2>3. CASE IsSubedFirst(t) \/ IsSubedSecond(t) \/ Join(t) \/ Joined(t)
    BY <1>2, <2>3 DEF IsSubedFirst, IsSubedSecond, Join, Joined, threads, history
  <2>. QED BY <1>3, <2>1, <2>2, <2>3 DEF ServerStep
<1>4. ASSUME NEW t \in Svc, Thread(t) PROVE Goal
  <2>1. CASE SendNewSubscribes(t)
    BY <1>0, <1>1, <2>1 DEF SendNewSubscribes, Go, TypeOK
  <2>2. CASE RestartIfSubscribed(t)
    BY <1>0, <1>1, <2>2 DEF RestartIfSubscribed, Go, TypeOK, history
  <2>3. CASE SwapNewSubscribes(t)
    <3>1. primed' = primed /\ late' = late
      BY <2>3 DEF SwapNewSubscribes
    <3>2. CASE t # s
      BY <1>0, <1>1, <2>3, <3>1, <3>2 DEF SwapNewSubscribes, Swap, Go, TypeOK
    <3>3. CASE t = s
      <4>1. pc[s] = "swap"
        BY <1>1, <2>3, <3>3 DEF SwapNewSubscribes, At
      <4>2. pc'[s] \notin {"swap", "swap_err"}
        BY <1>0, <2>3, <3>3 DEF SwapNewSubscribes, Go, AfterSnapshot, TypeOK
      <4>3. subscribes'[s] = subscribes[s] \cup new_subscribes[s]
        BY <1>0, <2>3, <3>3 DEF SwapNewSubscribes, Swap, Subs, TypeOK
      <4>. QED BY <1>1, <3>1, <4>1, <4>2, <4>3
    <3>. QED BY <3>2, <3>3
  <2>4. CASE CheckActive(t) \/ HasSubscribes(t) \/ Ok(t) \/ CallbackError(t)
             \/ SendShared(t) \/ NothingToSend(t) \/ Snapshot(t)
    <3>1. UNCHANGED <<subscribes, new_subscribes, primed, late>>
      BY <2>4 DEF CheckActive, HasSubscribes, Ok, CallbackError, SendShared,
                  NothingToSend, Snapshot, history
    <3>2. pc'[s] = pc[s] \/ pc'[s] \notin {"swap", "swap_err"}
      BY <1>0, <2>4 DEF CheckActive, HasSubscribes, Ok, CallbackError, SendShared,
                  NothingToSend, Snapshot, Go, AfterSend, AfterSnapshot, TypeOK
    <3>. QED BY <1>1, <3>1, <3>2
  <2>. QED BY <1>4, <2>1, <2>2, <2>3, <2>4 DEF Thread
<1>5. CASE EndCall \/ Dropped \/ DropServer
           \/ (\E c \in Conn : RemoveConnection(c))
           \/ (\E c \in Conn, t \in Svc, task \in {"subscribe", "unsubscribe"} :
                 Subscribe(c, t, task))
  BY <1>2, <1>5 DEF EndCall, Dropped, DropServer, RemoveConnection, Subscribe,
                    threads, history
<1>6. ASSUME NEW new, AddServices(new),
             UNCHANGED <<subscribes, new_subscribes, history>>
      PROVE  Goal
  BY <1>0, <1>2, <1>6 DEF AddServices, history
<1>7. CASE UNCHANGED vars
  BY <1>2, <1>7 DEF vars, threads, history
<1>8. ASSUME NEW c \in Conn, NEW primary \in AtMostOne(Video),
             NEW perms \in SUBSET (Builtin \cap services), AddConnection(c, primary, perms)
      PROVE  Goal
  BY <1>6, <1>8 DEF AddConnection
<1>9. ASSUME NEW c \in Conn, NEW add \in SUBSET Video,
             NEW sub \in SUBSET Video, NEW set \in SUBSET Video,
             NEW focus \in {None, "subscribe", "unsubscribe"},
             CaptureDisplays(c, add, sub, set, focus)
      PROVE  Goal
  BY <1>6, <1>9 DEF CaptureDisplays
<1>. QED BY <1>3, <1>4, <1>5, <1>7, <1>8, <1>9 DEF Next

LEMMA HistoryHolds == Spec => []HistoryInv
<1>1. Init => HistoryInv
  BY SMT DEF Init, HistoryInv, ProbeInv, Subs, Idle, None
<1>. QED BY <1>1, Inductive, HistoryInductive, PTL DEF Spec

(* No swap and no answer of is_subed loses a subscription that was asked   *)
(* for, for any number of services and connections.                        *)
THEOREM WantedIsSubscribedHolds == Spec => []WantedIsSubscribed
<1>1. HistoryInv => WantedIsSubscribed
  BY DEF HistoryInv, WantedIsSubscribed
<1>. QED BY <1>1, HistoryHolds, PTL

(* A subscription outlives its withdrawal only if a swap moved it between  *)
(* the two reads of is_subed, for any number of services and connections.  *)
THEOREM LingersOnlyAfterRaceHolds == Spec => []LingersOnlyAfterRace
<1>1. HistoryInv => LingersOnlyAfterRace
  BY DEF HistoryInv, LingersOnlyAfterRace
<1>. QED BY <1>1, HistoryHolds, PTL

(* A subscriber is served messages without the snapshot only if it came    *)
(* between the closure of ServiceTmpl::snapshot and the swap that follows. *)
THEOREM SnapshotComesBefore == Spec => []SnapshotFirst
<1>1. Init => SnapshotInv
  BY ServiceAssumption DEF Init, SnapshotInv, None
<1>2. SnapshotInv => SnapshotFirst
  BY DEF SnapshotInv, SnapshotFirst
<1>. QED BY <1>1, <1>2, Inductive, SnapshotInductive, PTL DEF Spec
=============================================================================

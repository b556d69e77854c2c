------------------------------ MODULE Service ------------------------------
(***************************************************************************)
(* The services of the host (src/server/service.rs) and the Server object  *)
(* that owns them (src/server.rs).  A service is a pair of subscriber maps *)
(* behind one RwLock and a thread that runs a callback; the Server is      *)
(* behind a second RwLock, so at most one Server operation runs at a time  *)
(* while all service threads keep interleaving with it.  One action is one *)
(* acquisition of a service's lock.                                        *)
(***************************************************************************)
EXTENDS FiniteSets

CONSTANTS
  Conn,          \* connection ids
  Svc,           \* service names
  Hosts,         \* the sets of services a host may offer
  Builtin,       \* services created by server::new, the others are video services
  WindowFocus,   \* the window focus service, if there is one
  NeedSnapshot,  \* services constructed with need_snapshot
  Restart,       \* their snapshot closure bails out when it has old subscribers
  Repeat         \* driven by ServiceTmpl::repeat, the others by ::run

None == "none"  \* no such service, connection or task

ASSUME ServiceAssumption ==
  /\ None \notin Svc
  /\ Hosts \subseteq SUBSET Svc
  /\ Builtin \subseteq Svc
  /\ WindowFocus \subseteq Builtin
  /\ NeedSnapshot \subseteq Svc
  /\ Restart \subseteq NeedSnapshot
  /\ Repeat \subseteq Svc

VARIABLES
  offers,          \* the services this host can have (platform, displays, cameras)
  services,        \* keys of Server::services
  subscribes,      \* ServiceInner::subscribes
  new_subscribes,  \* ServiceInner::new_subscribes
  active,          \* ServiceInner::active
  pc,              \* where the thread of a service is
  may_reset,       \* `repeat`: state.init() was called and reset() was not
  phase,           \* a connection's standing with the server
  call,            \* the operation holding the Server's write lock
  rcvd,            \* receivers of a service's last message
  wanted,          \* history: subscriptions asked for and not withdrawn
  raced,           \* history: moved by a swap between the reads of is_subed
  primed,          \* history: subscribers that got the service's snapshot
  late             \* history: subscribed between the snapshot and the swap

vars == <<offers, services, subscribes, new_subscribes, active, pc, may_reset, phase,
          call, rcvd, wanted, raced, primed, late>>
threads == <<pc, may_reset>>
history == <<wanted, raced, primed, late>>

(* What is still to be done for a service by the running Server operation. *)
(* "probed" tasks are between the two read locks of is_subed.              *)
Task == {None, "on_subscribe", "on_unsubscribe", "subscribe", "unsubscribe",
         "probed_subscribe", "probed_unsubscribe", "join", "joining"}

Idle == [op |-> "idle", conn |-> None, todo |-> [s \in Svc |-> None], cur |-> None]

PC == {None, "loop", "check", "ok", "send", "snapshot", "closure", "swap",
       "swap_err", "exit"}

TypeOK ==
  /\ services \subseteq Svc
  /\ subscribes \in [Svc -> SUBSET Conn]
  /\ new_subscribes \in [Svc -> SUBSET Conn]
  /\ active \in [Svc -> BOOLEAN]
  /\ pc \in [Svc -> PC]
  /\ may_reset \in [Svc -> BOOLEAN]
  /\ phase \in [Conn -> {"new", "added", "removed"}]
  /\ call \in [op : {"idle", "add", "subscribe", "remove", "drop", "dropped"},
               conn : Conn \cup {None}, todo : [Svc -> Task],
               cur : Svc \cup {None}]
  /\ rcvd \in [Svc -> SUBSET Conn]
  /\ wanted \in [Svc -> SUBSET Conn]
  /\ raced \in [Svc -> SUBSET Conn]
  /\ primed \in [Svc -> SUBSET Conn]
  /\ late \in [Svc -> SUBSET Conn]
  /\ \A s \in Svc : pc[s] = None <=> s \notin services

Init ==
  /\ offers \in Hosts
  /\ services = Builtin \cap offers
  /\ subscribes = [s \in Svc |-> {}]
  /\ new_subscribes = [s \in Svc |-> {}]
  /\ active = [s \in Svc |-> s \in services]
  /\ pc = [s \in Svc |-> IF s \in services THEN "loop" ELSE None]
  /\ may_reset = [s \in Svc |-> FALSE]
  /\ phase = [c \in Conn |-> "new"]
  /\ call = Idle
  /\ rcvd = [s \in Svc |-> {}]
  /\ wanted = [s \in Svc |-> {}]
  /\ raced = [s \in Svc |-> {}]
  /\ primed = [s \in Svc |-> {}]
  /\ late = [s \in Svc |-> {}]

Video == (Svc \ Builtin) \cap offers
AtMostOne(S) == {{}} \cup {{x} : x \in S}
Subs(s) == subscribes[s] \cup new_subscribes[s]

(***************************************************************************)
(* The Server's operations.  Taking the write lock fixes the work to do;   *)
(* services are then visited in any order, as a HashMap is.                *)
(***************************************************************************)
Begin(op, c, todo) ==
  /\ call.op = "idle"
  /\ call' = [op |-> op, conn |-> c, todo |-> todo, cur |-> None]

(* add_service with a video service, whose constructor starts the thread.  *)
AddServices(new) ==
  /\ services' = services \cup new
  /\ active' = [s \in Svc |-> active[s] \/ s \in new]
  /\ pc' = [s \in Svc |-> IF s \in new THEN "loop" ELSE pc[s]]

(* Connection::try_sub_monitor_services and try_sub_camera_displays: the   *)
(* primary video service is created on demand (there may be no camera),    *)
(* then the connection joins it and every service it may use.              *)
AddConnection(c, primary, perms) ==
  /\ phase[c] = "new"
  /\ Begin("add", c, [s \in Svc |-> IF s \in perms \cup primary
                                    THEN "on_subscribe" ELSE None])
  /\ AddServices(primary \ services)
  /\ UNCHANGED <<subscribes, new_subscribes, may_reset, phase, rcvd, history>>

(* Server::subscribe, for an option or a permission that changes.          *)
Subscribe(c, s, task) ==
  /\ phase[c] # "removed"
  /\ s \in services
  /\ Begin("subscribe", c, [t \in Svc |-> IF t = s THEN task ELSE None])
  /\ UNCHANGED <<services, subscribes, new_subscribes, active, threads, phase,
                 rcvd, history>>

(* Connection::capture_displays: missing services of `add` and `set` are   *)
(* created, then one of the three lists is passed to                       *)
(* Server::capture_displays.  Whether the window focus service is dropped  *)
(* or joined depends on the number of displays captured: either, here.     *)
CaptureDisplays(c, add, sub, set, focus) ==
  LET named   == IF add # {} THEN add ELSE IF sub # {} THEN sub ELSE set
      include == add # {} \/ sub = {}
      exclude == add = {}
      known   == services \cup add \cup set
  IN
  /\ phase[c] # "removed"
  /\ Begin("subscribe", c,
           [s \in Svc |->
              IF s \in WindowFocus THEN (IF s \in services THEN focus ELSE None)
              ELSE IF s \notin known \ Builtin THEN None
              ELSE IF s \in named THEN (IF include THEN "subscribe" ELSE None)
              ELSE IF exclude THEN "unsubscribe" ELSE None])
  /\ AddServices((add \cup set) \ services)
  /\ UNCHANGED <<subscribes, new_subscribes, may_reset, phase, rcvd, history>>

RemoveConnection(c) ==
  /\ phase[c] # "removed"
  /\ Begin("remove", c, [s \in Svc |-> IF s \in services
                                       THEN "on_unsubscribe" ELSE None])
  /\ UNCHANGED <<services, subscribes, new_subscribes, active, threads, phase,
                 rcvd, history>>

(* The last ServerPtr is dropped: every service is joined.                 *)
DropServer ==
  /\ Begin("drop", None, [s \in Svc |-> IF s \in services THEN "join" ELSE None])
  /\ UNCHANGED <<services, subscribes, new_subscribes, active, threads, phase,
                 rcvd, history>>

Doing(s, task) ==
  /\ call.todo[s] = task
  /\ call.cur \in {None, s}

(* The operation goes on to the task t for s (None: s is finished).        *)
Goto(s, t) ==
  call' = [op |-> call.op, conn |-> call.conn, todo |-> [call.todo EXCEPT ![s] = t],
           cur |-> IF t = None THEN None ELSE s]

(* on_subscribe returns at once for a connection it already serves.        *)
AlreadySubscribed(s, c) == c \in subscribes[s]

(* mutant: need_snapshot is ignored *)
NeverFirst(s) == FALSE

SnapshotComesFirst(s) == s \in NeedSnapshot

(* Service::on_subscribe *)
OnSubscribe(s) ==
  LET c == call.conn IN
  /\ Doing(s, "on_subscribe")
  /\ IF AlreadySubscribed(s, c)
       THEN UNCHANGED <<subscribes, new_subscribes>>
       ELSE IF SnapshotComesFirst(s)
         THEN /\ new_subscribes' = [new_subscribes EXCEPT ![s] = @ \cup {c}]
              /\ UNCHANGED subscribes
         ELSE /\ subscribes' = [subscribes EXCEPT ![s] = @ \cup {c}]
              /\ UNCHANGED new_subscribes
  /\ wanted' = [wanted EXCEPT ![s] = @ \cup {c}]
  /\ late' = IF pc[s] = "swap" /\ c \notin Subs(s)
               THEN [late EXCEPT ![s] = @ \cup {c}] ELSE late
  /\ Goto(s, None)
  /\ UNCHANGED <<services, active, threads, phase, rcvd, raced, primed>>

(* mutant: a subscriber still waiting for its snapshot is not looked for *)
ForgetServed(s, c) ==
  /\ subscribes' = [subscribes EXCEPT ![s] = @ \ {c}]
  /\ UNCHANGED new_subscribes

(* The second map is looked into only if the first did not hold the id.    *)
Forget(s, c) ==
  IF c \in subscribes[s]
    THEN /\ subscribes' = [subscribes EXCEPT ![s] = @ \ {c}]
         /\ UNCHANGED new_subscribes
    ELSE /\ new_subscribes' = [new_subscribes EXCEPT ![s] = @ \ {c}]
         /\ UNCHANGED subscribes

(* Service::on_unsubscribe *)
OnUnsubscribe(s) ==
  LET c == call.conn IN
  /\ Doing(s, "on_unsubscribe")
  /\ Forget(s, c)
  /\ wanted' = [wanted EXCEPT ![s] = @ \ {c}]
  /\ raced' = [raced EXCEPT ![s] = @ \ {c}]
  /\ primed' = [primed EXCEPT ![s] = @ \ {c}]
  /\ late' = [late EXCEPT ![s] = @ \ {c}]
  /\ Goto(s, None)
  /\ UNCHANGED <<services, active, threads, phase, rcvd>>

(* Server::subscribe asks is_subed, which reads the two maps under two     *)
(* read locks, and calls on_subscribe or on_unsubscribe if that differs    *)
(* from what is wanted.                                                    *)
IsSubedFirst(s) ==
  /\ \/ /\ Doing(s, "subscribe")
        /\ Goto(s, IF call.conn \in subscribes[s] THEN None
                                                  ELSE "probed_subscribe")
     \/ /\ Doing(s, "unsubscribe")
        /\ Goto(s, IF call.conn \in subscribes[s] THEN "on_unsubscribe"
                                                  ELSE "probed_unsubscribe")
  /\ wanted' = IF call.todo[s] = "subscribe" /\ call.conn \in subscribes[s]
                 THEN [wanted EXCEPT ![s] = @ \cup {call.conn}] ELSE wanted
  /\ UNCHANGED <<services, subscribes, new_subscribes, active, threads, phase,
                 rcvd, raced, primed, late>>

IsSubedSecond(s) ==
  LET c == call.conn IN
  /\ \/ /\ Doing(s, "probed_subscribe")
        /\ Goto(s, IF c \in new_subscribes[s] THEN None ELSE "on_subscribe")
     \/ /\ Doing(s, "probed_unsubscribe")
        /\ Goto(s, IF c \in new_subscribes[s] THEN "on_unsubscribe" ELSE None)
  /\ wanted' =
       [wanted EXCEPT ![s] =
          IF call.todo[s] = "probed_subscribe" /\ c \in new_subscribes[s] THEN @ \cup {c}
          ELSE IF call.todo[s] = "probed_unsubscribe" /\ c \notin new_subscribes[s]
               THEN @ \ {c} ELSE @]
  /\ UNCHANGED <<services, subscribes, new_subscribes, active, threads, phase,
                 rcvd, raced, primed, late>>

(* The operation ends: the connection map is updated, the lock released.   *)
EndCall ==
  /\ call.op \in {"add", "subscribe", "remove"}
  /\ \A s \in Svc : call.todo[s] = None
  /\ phase' = IF call.op = "add" THEN [phase EXCEPT ![call.conn] = "added"]
              ELSE IF call.op = "remove" THEN [phase EXCEPT ![call.conn] = "removed"]
              ELSE phase
  /\ call' = Idle
  /\ UNCHANGED <<services, subscribes, new_subscribes, active, threads, rcvd,
                 history>>

(* Service::join: clear `active`, then wait for the thread.                *)
Join(s) ==
  /\ Doing(s, "join")
  /\ active' = [active EXCEPT ![s] = FALSE]
  /\ Goto(s, "joining")
  /\ UNCHANGED <<services, subscribes, new_subscribes, threads, phase, rcvd,
                 history>>

Joined(s) ==
  /\ Doing(s, "joining")
  /\ pc[s] = "exit"
  /\ Goto(s, None)
  /\ UNCHANGED <<services, subscribes, new_subscribes, active, threads, phase,
                 rcvd, history>>

Dropped ==
  /\ call.op = "drop"
  /\ \A s \in Svc : call.todo[s] = None
  /\ call' = [call EXCEPT !.op = "dropped"]
  /\ UNCHANGED <<services, subscribes, new_subscribes, active, threads, phase,
                 rcvd, history>>

(***************************************************************************)
(* The thread of a service.  `repeat` calls back once per turn: a message  *)
(* to the subscribers, then the snapshot.  `run` calls back with a loop    *)
(* `while sp.ok()`: the snapshot, then a message.                          *)
(***************************************************************************)
At(s, l) == pc[s] = l
Go(s, l) == pc' = [pc EXCEPT ![s] = l]

CheckActive(s) ==
  /\ At(s, "loop")
  /\ Go(s, IF active[s] THEN "check" ELSE "exit")
  /\ UNCHANGED <<services, subscribes, new_subscribes, active, may_reset, phase,
                 call, rcvd, history>>

(* `repeat` calls init() before the first callback and reset() at the      *)
(* first turn without subscribers.                                         *)
Initialised(s) == s \in Repeat /\ Subs(s) # {}

HasSubscribes(s) ==
  /\ At(s, "check")
  /\ Go(s, IF Subs(s) = {} THEN "loop" ELSE IF s \in Repeat THEN "send" ELSE "ok")
  /\ may_reset' = [may_reset EXCEPT ![s] = Initialised(s)]
  /\ UNCHANGED <<services, subscribes, new_subscribes, active, phase, call,
                 rcvd, history>>

(* mutant: ok() does not look at `active` *)
HasAny(s) == Subs(s) # {}

IsOk(s) == active[s] /\ Subs(s) # {}

(* Service::ok, the condition of a `run` callback's loop *)
Ok(s) ==
  /\ At(s, "ok")
  /\ Go(s, IF IsOk(s) THEN "snapshot" ELSE "loop")
  /\ UNCHANGED <<services, subscribes, new_subscribes, active, may_reset, phase,
                 call, rcvd, history>>

(* The callback returns an error; the loop logs it, sleeps and goes on.    *)
CallbackError(s) ==
  /\ At(s, "send")
  /\ Go(s, "loop")
  /\ UNCHANGED <<services, subscribes, new_subscribes, active, may_reset, phase,
                 call, rcvd, history>>

AfterSend(s) == IF s \in Repeat THEN "snapshot" ELSE "ok"

(* send, send_shared, send_to_others, send_without and send_video_frame:   *)
(* some of the subscribers, never the new ones.                            *)
SendShared(s) ==
  /\ At(s, "send")
  /\ \E R \in {subscribes[s]} \cup {subscribes[s] \ {c} : c \in subscribes[s]} :
       rcvd' = [rcvd EXCEPT ![s] = R]
  /\ Go(s, AfterSend(s))
  /\ UNCHANGED <<services, subscribes, new_subscribes, active, may_reset, phase,
                 call, history>>

NothingToSend(s) ==
  /\ At(s, "send")
  /\ Go(s, AfterSend(s))
  /\ UNCHANGED <<services, subscribes, new_subscribes, active, may_reset, phase,
                 call, rcvd, history>>

AfterSnapshot(s) == IF s \in Repeat THEN "loop" ELSE "send"

(* ServiceTmpl::snapshot: the closure runs only for new subscribers.       *)
Snapshot(s) ==
  /\ At(s, "snapshot")
  /\ Go(s, IF new_subscribes[s] = {} THEN AfterSnapshot(s) ELSE "closure")
  /\ UNCHANGED <<services, subscribes, new_subscribes, active, may_reset, phase,
                 call, rcvd, history>>

(* The closure sends the current state to the new subscribers.             *)
SendNewSubscribes(s) ==
  /\ At(s, "closure")
  /\ s \notin Restart
  /\ rcvd' = [rcvd EXCEPT ![s] = new_subscribes[s]]
  /\ primed' = [primed EXCEPT ![s] = @ \cup new_subscribes[s]]
  /\ Go(s, "swap")
  /\ UNCHANGED <<services, subscribes, new_subscribes, active, may_reset, phase,
                 call, wanted, raced, late>>

(* Or, for a service that restarts its stream instead, it fails if there   *)
(* are old subscribers; the display service skips that test while          *)
(* TEMP_IGNORE_DISPLAYS_CHANGED is set.                                    *)
RestartIfSubscribed(s) ==
  /\ At(s, "closure")
  /\ s \in Restart
  /\ \/ subscribes[s] # {} /\ Go(s, "swap_err")
     \/ Go(s, "swap")
  /\ UNCHANGED <<services, subscribes, new_subscribes, active, may_reset, phase,
                 call, rcvd, history>>

(* mutant: the new map replaces the old one *)
ReplaceSubscribes(s) ==
  /\ subscribes' = [subscribes EXCEPT ![s] = new_subscribes[s]]
  /\ new_subscribes' = [new_subscribes EXCEPT ![s] = {}]

(* mutant: the swap is part of the closure's success path only *)
SwapOnSuccess(s) ==
  IF At(s, "swap_err")
    THEN UNCHANGED <<subscribes, new_subscribes>>
    ELSE /\ subscribes' = [subscribes EXCEPT ![s] = Subs(s)]
         /\ new_subscribes' = [new_subscribes EXCEPT ![s] = {}]

(* ServiceInner::swap_new_subscribes *)
Swap(s) ==
  /\ subscribes' = [subscribes EXCEPT ![s] = Subs(s)]
  /\ new_subscribes' = [new_subscribes EXCEPT ![s] = {}]

(* ServiceSwap is dropped, after a success and after an error alike.       *)
SwapNewSubscribes(s) ==
  /\ \/ At(s, "swap") /\ Go(s, AfterSnapshot(s))
     \/ At(s, "swap_err") /\ Go(s, "loop")
  /\ Swap(s)
  /\ raced' = IF call.cur = s /\ call.todo[s] = "probed_unsubscribe"
                               /\ call.conn \in new_subscribes[s]
                THEN [raced EXCEPT ![s] = @ \cup {call.conn}] ELSE raced
  /\ UNCHANGED <<services, active, may_reset, phase, call, rcvd, wanted,
                 primed, late>>

Thread(s) ==
  \/ CheckActive(s)
  \/ HasSubscribes(s)
  \/ Ok(s)
  \/ CallbackError(s)
  \/ SendShared(s)
  \/ NothingToSend(s)
  \/ Snapshot(s)
  \/ SendNewSubscribes(s)
  \/ RestartIfSubscribed(s)
  \/ SwapNewSubscribes(s)

ServerStep(s) ==
  \/ OnSubscribe(s)
  \/ OnUnsubscribe(s)
  \/ IsSubedFirst(s)
  \/ IsSubedSecond(s)
  \/ Join(s)
  \/ Joined(s)

Next ==
  /\ UNCHANGED offers
  /\ \/ \E c \in Conn, primary \in AtMostOne(Video), perms \in SUBSET (Builtin \cap services) :
          AddConnection(c, primary, perms)
     \/ \E c \in Conn, s \in Svc, task \in {"subscribe", "unsubscribe"} :
          Subscribe(c, s, task)
     \/ \E c \in Conn, add, sub, set \in SUBSET Video,
           focus \in {None, "subscribe", "unsubscribe"} :
          CaptureDisplays(c, add, sub, set, focus)
     \/ \E c \in Conn : RemoveConnection(c)
     \/ DropServer
     \/ EndCall
     \/ Dropped
     \/ \E s \in Svc : ServerStep(s)
     \/ \E s \in Svc : Thread(s)

Spec == Init /\ [][Next]_vars

(***************************************************************************)
(* Fairness.  A service thread keeps running, a Server operation, once     *)
(* started, keeps going (RwLock writers are not starved), and a callback   *)
(* does not fail for ever.                                                 *)
(***************************************************************************)
Sends(s) == SendShared(s) \/ NothingToSend(s)

SameHost(A) == A /\ UNCHANGED offers

Fairness ==
  /\ \A s \in Svc : /\ WF_vars(SameHost(Thread(s))) /\ SF_vars(SameHost(Sends(s)))
                   /\ WF_vars(SameHost(ServerStep(s)))
  /\ WF_vars(SameHost(EndCall)) /\ WF_vars(SameHost(Dropped))

FairSpec == Spec /\ Fairness

(***************************************************************************)
(* Properties.                                                             *)
(***************************************************************************)
(* A connection is in at most one of the two maps of a service, so that    *)
(* on_unsubscribe, which looks into the second only when the first does    *)
(* not hold the id, always removes it altogether.                          *)
OneMap == \A s \in Svc : subscribes[s] \cap new_subscribes[s] = {}

(* Once Server::remove_connection has returned, no service sends the       *)
(* connection anything any more, whatever swaps ran while it was at work.  *)
RemovedIsUnsubscribed ==
  \A c \in Conn : phase[c] = "removed" => \A s \in Svc : c \notin Subs(s)

(* Between two Server operations every subscription that was asked for and *)
(* not withdrawn is in place: neither a swap nor an answer of is_subed     *)
(* loses one.                                                              *)
WantedIsSubscribed ==
  call.op = "idle" => \A s \in Svc : wanted[s] \subseteq Subs(s)

(* A subscription outlives its withdrawal by Server::subscribe(.., false)  *)
(* only if a swap moved it from the map is_subed reads second to the one   *)
(* it reads first, between the two reads.                                  *)
LingersOnlyAfterRace ==
  call.op = "idle" => \A s \in Svc : Subs(s) \ wanted[s] \subseteq raced[s]

(* A subscriber of a service that sends a snapshot is served messages      *)
(* without having had the snapshot only if it subscribed after the closure *)
(* sent the snapshot and before the swap that follows it.                  *)
SnapshotFirst ==
  \A s \in NeedSnapshot \ Restart : subscribes[s] \ primed[s] \subseteq late[s]

(* The two maps with their swaps, and the operations that visit services   *)
(* one lock at a time, implement a set of subscribers per service.         *)
Abstract == INSTANCE PubSub WITH
  subs <- [s \in Svc |-> Subs(s)],
  gone <- {c \in Conn : phase[c] = "removed"}

Refines == Abstract!Spec

(* A new subscriber of a running service becomes a full subscriber, or     *)
(* leaves, or the service is being joined: the thread reaches the swap.    *)
NewIsPromoted ==
  \A s \in Svc, c \in Conn :
    c \in new_subscribes[s] ~> (c \notin new_subscribes[s] \/ ~active[s])

(* Dropping the Server terminates: every thread sees `active` cleared,     *)
(* leaves its callback and is joined.                                      *)
DropTerminates == call.op = "drop" ~> call.op = "dropped"
=============================================================================

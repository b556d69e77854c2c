------------------------------ MODULE Rendezvous ------------------------------
(***************************************************************************)
(* How a device keeps itself registered with its rendezvous servers        *)
(* (src/rendezvous_mediator.rs, with the id and key flags of Config).      *)
(*                                                                         *)
(* start_all runs one mediator task per configured server, waits for all   *)
(* of them, and starts again.  A mediator sends RegisterPeer or RegisterPk *)
(* from its timer and handles the answers.  A server that knows the id     *)
(* under another machine's uuid answers UUID_MISMATCH; the device then     *)
(* picks a new id, and while one server's mismatch is being solved the     *)
(* other mediators hold their registrations back.                          *)
(*                                                                         *)
(* Over UDP messages are lost, duplicated, delayed and reordered; answers  *)
(* carry no id.  Over TCP the channel is a FIFO that may break.  Elapsed   *)
(* time is a choice of the timer step.  The servers are external: they are *)
(* modelled from the answers the device handles.                           *)
(***************************************************************************)
EXTENDS Naturals, Sequences, FiniteSets, SequencesExt

CONSTANTS
  Hosts,       \* rendezvous servers
  None,        \* "no host"
  MaxFaults,   \* losses, duplicates, refusals, broken sockets, forgetful servers,
               \* and changes of the configured servers
  Cap          \* bound on the messages under way with each server

ASSUME RendezvousAssumption ==
  /\ None \notin Hosts /\ Hosts # {}
  /\ Cap \in [Hosts -> Nat \ {0}]
  /\ MaxFaults \in Nat

VARIABLES
  tcp,         \* the transport `start` picks: start_tcp rather than start_udp
  taken,       \* servers that know id 1 under another machine's uuid
  cfg,         \* Config::get_rendezvous_servers(), {} under stop-service
  caller,      \* the thread that changes the options: "idle" or "changed"
  shouldExit,  \* SHOULD_EXIT
  missed,      \* restart() ran between the read of the servers and the reset of SHOULD_EXIT
  all,         \* where start_all is
  running,     \* the servers this round of start_all read
  solving,     \* SOLVING_PK_MISMATCH
  id,          \* Config id, counted from 1
  keyConf,     \* Config key_confirmed
  hostKey,     \* Config keys_confirmed: the hosts set to true
  med,         \* where the mediator task of every host is
  up, down,    \* messages to and from every server
  reg,         \* the ids every server holds for this device
  misled,      \* over TCP, the servers of which an OK for an abandoned id may be the
               \* last word
  faults

conf == <<tcp, taken>>
starter == <<cfg, caller, shouldExit, missed, all, running>>
keys == <<solving, id, keyConf, hostKey>>
net == <<up, down, reg, misled>>
vars == <<conf, starter, keys, med, net, faults>>

Other == "other"

(***************************************************************************)
(* Config.                                                                 *)
(***************************************************************************)
\* set_key_confirmed(false) forgets the hosts only when the flag really changes.
SetKeyConfirmedFalse ==
  /\ keyConf' = FALSE
  /\ hostKey' = IF keyConf THEN {} ELSE hostKey

\* What get_rendezvous_servers may return once an option has changed; the empty
\* set stands for stop-service, under which start_all starts no mediator.
Configs == {{}, {CHOOSE h \in Hosts : TRUE}, Hosts}

(***************************************************************************)
(* Messages.  Cap bounds the requests and answers under way with a server, *)
(* so that timers do not run ahead of the network without end.             *)
(***************************************************************************)
Room(h) == Len(up[h]) + Len(down[h]) < Cap[h]

\* register_pk: the key for the id of this moment.
RegisterPk(h) == up' = [up EXCEPT ![h] = Append(@, [kind |-> "pk", id |-> id])]

Confirmed(h) == keyConf /\ h \in hostKey

\* The SOLVING_PK_MISMATCH mutex is held across the steps of handle_uuid_mismatch.
Unlocked == \A h \in Hosts : med[h] # "mismatch"

\* register_peer: held back while another server's mismatch is solved.
RegisterPeer(h) ==
  IF solving \notin {None, h} THEN UNCHANGED up
  ELSE IF ~Confirmed(h) THEN RegisterPk(h)
  ELSE up' = [up EXCEPT ![h] = Append(@, [kind |-> "peer", id |-> id])]

(***************************************************************************)
(* start_all.                                                              *)
(***************************************************************************)
\* The top of the loop: the servers are read, or the service is stopped.
StartRound ==
  /\ all = "top"
  /\ solving' = None
  /\ missed' = FALSE
  /\ running' = cfg
  /\ all' = IF cfg = {} THEN "end" ELSE "read"
  /\ UNCHANGED <<conf, cfg, caller, shouldExit, id, keyConf, hostKey, med,
                 net, faults>>

\* SHOULD_EXIT is lowered and the tasks are spawned.
Spawn ==
  /\ all = "read"
  /\ shouldExit' = FALSE
  /\ med' = [h \in Hosts |-> IF h \in running THEN "start" ELSE "done"]
  /\ all' = "join"
  /\ UNCHANGED <<conf, cfg, caller, missed, running, keys, net,
                 faults>>

\* join_all.
JoinAll ==
  /\ all = "join"
  /\ \A h \in running : med[h] = "done"
  /\ all' = "end"
  /\ UNCHANGED <<conf, cfg, caller, shouldExit, missed, running, keys, med,
                 net, faults>>

\* The pause before the next round.
EndRound ==
  /\ all = "end"
  /\ all' = "top"
  /\ UNCHANGED <<conf, cfg, caller, shouldExit, missed, running, keys, med, net, faults>>

\* An option changes: by the IPC thread, or by a server's ConfigureUpdate.
ChangeOptions ==
  /\ caller = "idle" /\ faults < MaxFaults /\ faults' = faults + 1
  /\ cfg' \in Configs \ {cfg}
  /\ caller' = "changed"
  /\ UNCHANGED <<conf, shouldExit, missed, all, running, keys, med, net>>

(* mutant: a round that is already running is not told *)
RestartSlack ==
  /\ caller = "changed"
  /\ caller' = "idle"
  /\ shouldExit' = (shouldExit \/ all # "join")
  /\ missed' = (missed \/ all = "read")
  /\ UNCHANGED <<conf, cfg, all, running, keys, med, net, faults>>

\* restart(), called by that thread once the option is stored.
Restart ==
  /\ caller = "changed"
  /\ caller' = "idle"
  /\ shouldExit' = TRUE
  /\ missed' = (missed \/ all = "read")
  /\ UNCHANGED <<conf, cfg, all, running, keys, med, net, faults>>

(***************************************************************************)
(* A mediator task.  Its end, with or without an error, raises             *)
(* SHOULD_EXIT.                                                            *)
(***************************************************************************)
(* mutant: a task that ends tells nobody *)
EndsSilently(h) ==
  /\ med' = [med EXCEPT ![h] = "done"]
  /\ up' = [up EXCEPT ![h] = <<>>] /\ down' = [down EXCEPT ![h] = <<>>]
  /\ UNCHANGED shouldExit

\* The task of h returns; its socket goes with it.
Ends(h) ==
  /\ med' = [med EXCEPT ![h] = "done"]
  /\ up' = [up EXCEPT ![h] = <<>>] /\ down' = [down EXCEPT ![h] = <<>>]
  /\ shouldExit' = TRUE

\* start: the socket is opened; start_tcp distrusts the host's key flag.
Start(h) ==
  /\ med[h] = "start"
  /\ med' = [med EXCEPT ![h] = "run"]
  /\ hostKey' = IF tcp THEN hostKey \ {h} ELSE hostKey
  /\ misled' = misled \ {h}
  /\ UNCHANGED <<conf, starter, solving, id, keyConf, up, down, reg, faults>>

\* The socket cannot be opened, breaks, cannot be rebound, or (TCP) stays silent
\* past the keep-alive: the task returns an error.
Fail(h) ==
  /\ med[h] \in {"start", "run"}
  /\ faults < MaxFaults /\ faults' = faults + 1
  /\ Ends(h)
  /\ UNCHANGED <<conf, cfg, caller, missed, all, running, keys, reg, misled>>

\* timer.tick with SHOULD_EXIT up: the loop is left.
TickExit(h) ==
  /\ med[h] = "run" /\ shouldExit
  /\ Ends(h)
  /\ UNCHANGED <<conf, cfg, caller, missed, all, running, keys, reg, misled,
                 faults>>

\* timer.tick of start_udp when the last request timed out or the last answer is old
\* enough.
TickUdp(h) ==
  /\ med[h] = "run" /\ ~shouldExit /\ ~tcp
  /\ Unlocked /\ Room(h)
  /\ RegisterPeer(h)
  /\ UNCHANGED <<conf, starter, keys, med, down, reg, misled, faults>>

\* timer.tick of start_tcp when it registers.
TickTcp(h) ==
  /\ med[h] = "run" /\ ~shouldExit /\ tcp
  /\ ~Confirmed(h) /\ Room(h)
  /\ RegisterPk(h)
  /\ UNCHANGED <<conf, starter, keys, med, down, reg, misled, faults>>

(***************************************************************************)
(* handle_resp.                                                            *)
(***************************************************************************)
\* The messages a receiver can get next: over UDP any of those in flight.
Deliverable(ch) == IF tcp THEN {1} \cap DOMAIN ch ELSE DOMAIN ch

\* Takes an answer of kind a from the socket; the task goes on at pc.
Take(h, a, pc) ==
  /\ med[h] = "run"
  /\ \E i \in Deliverable(down[h]) : down[h][i] = a /\ down' = [down EXCEPT ![h] = RemoveAt(@, i)]
  /\ med' = [med EXCEPT ![h] = pc]
  /\ UNCHANGED <<conf, starter, solving, id, reg, misled, faults>>

\* RegisterPeerResponse, and the results of RegisterPk that are only logged.
OnNothing(h) ==
  /\ \E a \in {"peer", Other} : Take(h, a, "run")
  /\ UNCHANGED <<keyConf, hostKey, up>>

(* mutant: the server's wish for the key is ignored *)
OnRequestPkIgnored(h) ==
  /\ Take(h, "request_pk", "run")
  /\ UNCHANGED <<keyConf, hostKey, up>>

\* RegisterPeerResponse with request_pk.
OnRequestPk(h) ==
  /\ Take(h, "request_pk", "run")
  /\ RegisterPk(h)
  /\ UNCHANGED <<keyConf, hostKey>>

\* RegisterPkResponse OK: one flag, and then the other and SOLVING_PK_MISMATCH; another
\* mediator can come between.
OnOk(h) ==
  /\ Take(h, "OK", "ok_host")
  /\ keyConf' = TRUE
  /\ UNCHANGED <<hostKey, up>>

OkHost(h) ==
  /\ med[h] = "ok_host" /\ Unlocked
  /\ hostKey' = hostKey \cup {h}
  /\ solving' = None
  /\ med' = [med EXCEPT ![h] = "run"]
  /\ UNCHANGED <<conf, starter, id, keyConf, net, faults>>

\* handle_uuid_mismatch: nothing to do while another server's is being solved.
OnMismatchElsewhere(h) ==
  /\ Unlocked /\ solving \notin {None, h}
  /\ Take(h, "UUID_MISMATCH", "run")
  /\ UNCHANGED <<keyConf, hostKey, up>>

\* Otherwise, under the mutex: the key flags fall,
OnMismatch(h) ==
  /\ Unlocked /\ solving \in {None, h}
  /\ Take(h, "UUID_MISMATCH", "mismatch")
  /\ SetKeyConfirmedFalse
  /\ UNCHANGED up

\* A key, or the OK for one, is under way with g.
Asked(g) ==
  \/ med[g] = "ok_host" \/ "OK" \in Range(down[g])
  \/ \E m \in Range(up[g]) : m.kind = "pk"

\* then the id is replaced, the mutex released and the key registered under the new id.
UpdateId(h) ==
  /\ med[h] = "mismatch"
  /\ id' = id + 1
  /\ solving' = h
  /\ up' = [up EXCEPT ![h] = Append(@, [kind |-> "pk", id |-> id + 1])]
  /\ med' = [med EXCEPT ![h] = "run"]
  /\ misled' = IF tcp THEN misled \cup {g \in Hosts \ {h} : Asked(g)} ELSE misled
  /\ UNCHANGED <<conf, starter, keyConf, hostKey, down, reg, faults>>

Receive(h) ==
  \/ OnNothing(h) \/ OnRequestPk(h) \/ OnOk(h) \/ OnMismatchElsewhere(h) \/ OnMismatch(h)

(***************************************************************************)
(* The servers and the network.                                            *)
(***************************************************************************)
\* A server answers a request.  RegisterPeer for an id it holds no key of asks for
\* the key; RegisterPk under an id of another machine is a mismatch.
ServerHandle(h) ==
  /\ \E i \in Deliverable(up[h]) :
       LET m == up[h][i]
           mismatch == m.kind = "pk" /\ m.id = 1 /\ h \in taken
           a == CASE m.kind = "peer" -> IF m.id \in reg[h] THEN "peer" ELSE "request_pk"
                  [] mismatch        -> "UUID_MISMATCH"
                  [] OTHER           -> "OK"
       IN  /\ up' = [up EXCEPT ![h] = RemoveAt(@, i)]
           /\ down' = [down EXCEPT ![h] = Append(@, a)]
           /\ reg' = [reg EXCEPT ![h] = IF a = "OK" THEN @ \cup {m.id} ELSE @]
  /\ UNCHANGED <<conf, starter, keys, med, misled, faults>>

\* It answers a RegisterPk with any other result.
ServerRefuse(h) ==
  /\ faults < MaxFaults /\ faults' = faults + 1
  /\ \E i \in Deliverable(up[h]) :
       /\ up[h][i].kind = "pk"
       /\ up' = [up EXCEPT ![h] = RemoveAt(@, i)]
       /\ down' = [down EXCEPT ![h] = Append(@, Other)]
  /\ misled' = IF tcp THEN misled \cup {h} ELSE misled
  /\ UNCHANGED <<conf, starter, keys, med, reg>>

\* It is restarted without its registrations; a TCP connection would not survive that.
ServerForget(h) ==
  /\ faults < MaxFaults /\ faults' = faults + 1
  /\ tcp => med[h] \in {"start", "done"}
  /\ reg[h] # {}
  /\ reg' = [reg EXCEPT ![h] = {}]
  /\ UNCHANGED <<conf, starter, keys, med, up, down, misled>>

\* A datagram is lost, or arrives twice.
Lose(h) ==
  /\ ~tcp /\ faults < MaxFaults /\ faults' = faults + 1
  /\ \/ /\ \E i \in DOMAIN up[h] : up' = [up EXCEPT ![h] = RemoveAt(@, i)]
        /\ UNCHANGED down
     \/ /\ \E i \in DOMAIN down[h] : down' = [down EXCEPT ![h] = RemoveAt(@, i)]
        /\ UNCHANGED up
  /\ UNCHANGED <<conf, starter, keys, med, reg, misled>>

Duplicate(h) ==
  /\ ~tcp /\ faults < MaxFaults /\ faults' = faults + 1
  /\ \/ /\ Room(h) /\ \E i \in DOMAIN up[h] : up' = [up EXCEPT ![h] = Append(@, @[i])]
        /\ UNCHANGED down
     \/ /\ Room(h) /\ \E i \in DOMAIN down[h] : down' = [down EXCEPT ![h] = Append(@, @[i])]
        /\ UNCHANGED up
  /\ UNCHANGED <<conf, starter, keys, med, reg, misled>>

(***************************************************************************)
(* The specification.                                                      *)
(***************************************************************************)
\* The stored configuration may hold confirmed keys of an earlier run.
Init ==
  /\ tcp \in BOOLEAN
  /\ taken \in SUBSET Hosts
  /\ cfg \in Configs
  /\ caller = "idle" /\ shouldExit = FALSE /\ missed = FALSE
  /\ all = "top" /\ running = {} /\ solving = None /\ id = 1
  /\ hostKey \in {{}, Hosts \ taken} /\ keyConf = (hostKey # {})
  /\ med = [h \in Hosts |-> "done"]
  /\ up = [h \in Hosts |-> <<>>] /\ down = [h \in Hosts |-> <<>>]
  /\ reg = [h \in Hosts |-> IF h \in hostKey THEN {1} ELSE {}]
  /\ misled = {} /\ faults = 0

Next ==
  \/ StartRound \/ Spawn \/ JoinAll \/ EndRound
  \/ ChangeOptions \/ Restart
  \/ \E h \in Hosts :
       \/ Start(h) \/ Fail(h) \/ TickExit(h) \/ TickUdp(h) \/ TickTcp(h)
       \/ OnNothing(h) \/ OnRequestPk(h) \/ OnOk(h) \/ OnMismatchElsewhere(h) \/ OnMismatch(h)
       \/ OkHost(h) \/ UpdateId(h)
       \/ ServerHandle(h) \/ ServerRefuse(h) \/ ServerForget(h) \/ Lose(h) \/ Duplicate(h)

\* The timers fire and time passes, the tasks are scheduled, datagrams that are
\* not lost arrive and the servers answer.
Fairness ==
  /\ WF_vars(StartRound) /\ WF_vars(Spawn) /\ WF_vars(JoinAll) /\ WF_vars(EndRound)
  /\ WF_vars(Restart)
  /\ \A h \in Hosts :
       /\ WF_vars(Start(h)) /\ WF_vars(TickExit(h)) /\ WF_vars(TickUdp(h)) /\ WF_vars(TickTcp(h))
       /\ WF_vars(Receive(h)) /\ WF_vars(OkHost(h))
       /\ WF_vars(UpdateId(h)) /\ WF_vars(ServerHandle(h))

Spec == Init /\ [][Next]_vars /\ Fairness

(***************************************************************************)
(* Properties.                                                             *)
(***************************************************************************)

\* At most one mediator is inside handle_uuid_mismatch, and SOLVING_PK_MISMATCH names nobody
\* but a server: no two mediators replace the id at a time.
OneSolves ==
  /\ \A g, h \in Hosts : med[g] = "mismatch" /\ med[h] = "mismatch" => g = h
  /\ solving \in Hosts \cup {None}

\* No round of mediators goes on with servers that are no longer the configured ones:
\* once the thread that changed the option has called restart(), SHOULD_EXIT is up.
\* The one exception the code has is a restart() that falls between start_all's read of
\* the servers and its reset of SHOULD_EXIT (`missed`).
RoundFollowsConfig ==
  all = "join" /\ running # cfg /\ caller = "idle" /\ ~missed => shouldExit

\* "once one exits, the others also exit": when the task of one server ends, the round
\* ends and start_all begins the next one.
OneExitsAllExit ==
  \A h \in Hosts : (all = "join" /\ h \in running /\ med[h] = "done") ~> (all = "top")

\* Whatever answers were lost, doubled, late or meant for an id since abandoned, and
\* however the mediators' handlers interleave on the shared flags, in the end every
\* server of the round holds the key of the id the device goes by, and the device
\* counts it as confirmed.  Over TCP, where nothing is sent once the key counts as
\* confirmed, the OK for an abandoned id may be the last word of a server until it is
\* connected to again: if it refused a key, or had one under way when the mismatch of
\* another server replaced the id.
Registered ==
  <>[](\A h \in running : h \in misled \/ (id \in reg[h] /\ Confirmed(h)))

=============================================================================

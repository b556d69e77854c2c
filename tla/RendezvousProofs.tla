-------------------------- MODULE RendezvousProofs --------------------------
(***************************************************************************)
(* Proofs about Rendezvous, for any set of servers and any number of       *)
(* losses, duplicates, broken sockets and changes of the options.          *)
(***************************************************************************)
EXTENDS Rendezvous, TLAPS

Places == {"start", "run", "ok_host", "mismatch", "done"}

(***************************************************************************)
(* What a step does to where the mediators are: it moves one of them, and  *)
(* into handle_uuid_mismatch only when nobody is there, or start_all       *)
(* starts all of them.                                                     *)
(***************************************************************************)
MedInv == med \in [Hosts -> Places] /\ OneSolves

Entered(h) == Unlocked /\ med' = [med EXCEPT ![h] = "mismatch"]
Moved(h) == \E p \in Places \ {"mismatch"} : med' = [med EXCEPT ![h] = p]
Spawned == \A h \in Hosts : med'[h] \in {"start", "done"}

LEMMA MedStep ==
  ASSUME MedInv, [Next]_vars
  PROVE  /\ \/ UNCHANGED med
            \/ med' \in [Hosts -> Places] /\ Spawned
            \/ \E h \in Hosts : Moved(h) \/ Entered(h)
         /\ solving' \in Hosts \cup {None}
<1> USE DEF MedInv, OneSolves, Places, Spawned, Moved, conf, starter, keys, net
<1>1. CASE UNCHANGED vars
  BY <1>1 DEF vars
<1>2. CASE StartRound \/ JoinAll \/ EndRound \/ ChangeOptions \/ Restart
  BY <1>2 DEF StartRound, JoinAll, EndRound, ChangeOptions, Restart
<1>3. CASE Spawn
  BY <1>3 DEF Spawn
<1>4. ASSUME NEW h \in Hosts, Start(h) \/ OkHost(h) \/ UpdateId(h)
      PROVE  Moved(h) /\ solving' \in Hosts \cup {None}
  BY <1>4 DEF Start, OkHost, UpdateId
<1>5. ASSUME NEW h \in Hosts, Fail(h) \/ TickExit(h)
      PROVE  Moved(h) /\ UNCHANGED solving
  BY <1>5 DEF Fail, TickExit, Ends
<1>6. ASSUME NEW h \in Hosts, TickUdp(h) \/ TickTcp(h) PROVE UNCHANGED <<med, solving>>
  BY <1>6 DEF TickUdp, TickTcp
<1>7. ASSUME NEW h \in Hosts,
             OnNothing(h) \/ OnRequestPk(h) \/ OnOk(h) \/ OnMismatchElsewhere(h)
      PROVE  Moved(h) /\ UNCHANGED solving
  BY <1>7 DEF OnNothing, OnRequestPk, OnOk, OnMismatchElsewhere, Take
<1>8. ASSUME NEW h \in Hosts, OnMismatch(h) PROVE Entered(h) /\ UNCHANGED solving
  BY <1>8 DEF OnMismatch, Take, Entered
<1>9. ASSUME NEW h \in Hosts,
             \/ ServerHandle(h) \/ ServerRefuse(h) \/ ServerForget(h)
             \/ Lose(h) \/ Duplicate(h)
      PROVE  UNCHANGED <<med, solving>>
  BY <1>9 DEF ServerHandle, ServerRefuse, ServerForget, Lose, Duplicate
<1>10. QED
  BY <1>1, <1>2, <1>3, <1>4, <1>5, <1>6, <1>7, <1>8, <1>9 DEF Next

(* However the mediators' handlers interleave, one of them at most solves  *)
(* a mismatch: the mutex is taken before the key flags fall and is given   *)
(* back with the new id.                                                   *)
THEOREM OneSolvesHolds == Spec => []OneSolves
<1>1. Init => MedInv
  BY DEF Init, MedInv, OneSolves, Places
<1>2. MedInv /\ [Next]_vars => MedInv'
  <2> SUFFICES ASSUME MedInv, [Next]_vars PROVE MedInv' OBVIOUS
  <2>1. CASE UNCHANGED med
    BY <2>1, MedStep DEF MedInv, OneSolves
  <2>2. CASE med' \in [Hosts -> Places] /\ Spawned
    BY <2>2, MedStep DEF MedInv, OneSolves, Spawned
  <2>3. ASSUME NEW h \in Hosts, Moved(h) \/ Entered(h) PROVE MedInv'
    BY <2>3, MedStep DEF MedInv, OneSolves, Moved, Entered, Unlocked, Places
  <2>4. QED BY <2>1, <2>2, <2>3, MedStep
<1>3. MedInv => OneSolves
  BY DEF MedInv
<1>4. QED BY <1>1, <1>2, <1>3, PTL DEF Spec

(***************************************************************************)
(* The servers a round works with.  While start_all is between its read of *)
(* the servers and the reset of SHOULD_EXIT, a change that restart() has   *)
(* been called for is one the reset will undo: `missed` says so.           *)
(***************************************************************************)
RoundInv ==
  /\ all \in {"top", "read", "join", "end"}
  /\ all = "read" /\ running # cfg /\ caller = "idle" => missed
  /\ RoundFollowsConfig

LEMMA RoundStep == RoundInv /\ [Next]_vars => RoundInv'
<1> SUFFICES ASSUME RoundInv, [Next]_vars PROVE RoundInv' OBVIOUS
<1> USE DEF RoundInv, RoundFollowsConfig, conf, starter, keys, net
<1>1. CASE UNCHANGED vars
  BY <1>1 DEF vars
<1>2. CASE StartRound
  BY <1>2 DEF StartRound
<1>3. CASE Spawn
  BY <1>3 DEF Spawn
<1>4. CASE JoinAll \/ EndRound
  BY <1>4 DEF JoinAll, EndRound
<1>5. CASE ChangeOptions
  BY <1>5 DEF ChangeOptions
<1>6. CASE Restart
  BY <1>6 DEF Restart
<1>7. ASSUME NEW h \in Hosts, Fail(h) \/ TickExit(h) PROVE RoundInv'
  BY <1>7 DEF Fail, TickExit, Ends
<1>8. ASSUME NEW h \in Hosts,
             Start(h) \/ TickUdp(h) \/ TickTcp(h) \/ OkHost(h) \/ UpdateId(h)
      PROVE  RoundInv'
  BY <1>8 DEF Start, TickUdp, TickTcp, OkHost, UpdateId
<1>9. ASSUME NEW h \in Hosts,
             \/ OnNothing(h) \/ OnRequestPk(h) \/ OnOk(h)
             \/ OnMismatchElsewhere(h) \/ OnMismatch(h)
      PROVE  RoundInv'
  BY <1>9 DEF OnNothing, OnRequestPk, OnOk, OnMismatchElsewhere, OnMismatch, Take
<1>10. ASSUME NEW h \in Hosts,
              \/ ServerHandle(h) \/ ServerRefuse(h) \/ ServerForget(h)
              \/ Lose(h) \/ Duplicate(h)
       PROVE  RoundInv'
  BY <1>10 DEF ServerHandle, ServerRefuse, ServerForget, Lose, Duplicate
<1>11. QED
  BY <1>1, <1>2, <1>3, <1>4, <1>5, <1>6, <1>7, <1>8, <1>9, <1>10 DEF Next

(* A round with servers that are no longer the configured ones is told to  *)
(* exit, unless the restart() fell into the window at the round's start.   *)
THEOREM RoundFollowsConfigHolds == Spec => []RoundFollowsConfig
<1>1. Init => RoundInv
  BY DEF Init, RoundInv, RoundFollowsConfig
<1>2. RoundInv => RoundFollowsConfig
  BY DEF RoundInv
<1>3. QED BY <1>1, <1>2, RoundStep, PTL DEF Spec
=============================================================================

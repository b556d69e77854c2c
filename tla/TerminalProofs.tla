--------------------------- MODULE TerminalProofs ---------------------------
(***************************************************************************)
(* Proofs about Terminal, for every set of connections and terminals and   *)
(* any number of sessions and actions: no shell is left running that       *)
(* nothing can close, a session is stopped once, and a persistent service  *)
(* that has terminals is not removed by one who looked at it.              *)
(***************************************************************************)
EXTENDS Terminal, TLAPS

(***************************************************************************)
(* The inductive invariant.  An actor has the references of the place it   *)
(* is at and no others: what it takes does not overwrite a reference, so   *)
(* that only the steps that say so drop one.                               *)
(***************************************************************************)
TaskPlace(c) ==
  /\ conn[c] \in {"new", "run", "join", "closed"} => hold[Task(c)] = None
  /\ conn[c] \in {"got", "send", "sending", "closing"} => hold[Task(c)] \in Conn
  /\ conn[c] \notin {"send", "sending"} => arcs[Task(c)] = {}

ThreadPlace(c) ==
  /\ thread[c] \in {"none", "loop", "ok", "exit"} => hold[Thread(c)] = None
  /\ thread[c] \in {"visit", "reap", "decide", "remove"} => hold[Thread(c)] \in Conn
  /\ thread[c] \notin {"visit", "reap"} => snap[c] = Empty

(* A connection that has not logged in has no thread and no service.       *)
Unborn(c) ==
  conn[c] = "new" =>
    /\ thread[c] = "none" /\ sessions[c] = Empty /\ registry # c
    /\ \A a \in Actor : hold[a] # c

Places == \A c \in Conn : TaskPlace(c) /\ ThreadPlace(c) /\ Unborn(c)

(* The sessions of the registered service are up and nobody stops them;    *)
(* a session is stopped once, by one actor, which holds its mutex then.    *)
StopInv ==
  /\ \A q \in Sess : q > used => sess[q].stage = "none"
  /\ \A s \in Conn : \A q \in SessionsOf(s) : q <= used
  /\ registry # None =>
       \A q \in SessionsOf(registry) :
         sess[q].stage = "up" /\ \A a \in Actor : q \notin stopping[a]
  /\ StoppedOnce

(* The mutex of the session a task sends to is the task's, which does not  *)
(* stop any session then.                                                  *)
SendPlace(c) ==
  /\ conn[c] \in {"send", "sending"} => \E q \in Sess : arcs[Task(c)] = {q} /\ q <= used
  /\ conn[c] = "sending" =>
       stopping[Task(c)] = {} /\ \A q \in arcs[Task(c)] : sess[q].lock = Task(c)

SendInv == \A c \in Conn : SendPlace(c)

(* An actor that is about to remove a service that is to survive has       *)
(* missed that, or has yet to see it.                                      *)
LookInv ==
  Kept =>
    /\ \A c \in Conn :
         thread[c] \in {"decide", "remove"} /\ ~turned[Thread(c)] =>
           thread[c] = "decide" /\ registry = hold[Thread(c)]
    /\ clean = "remove" => turned[Cleanup]

(* The steps are first-order: Zenon proves them, except where SMT is named. *)
USE Zenon

(***************************************************************************)
(* Types and places.                                                       *)
(***************************************************************************)
LEMMA Actors ==
  /\ \A c \in Conn : Task(c) \in Actor /\ Thread(c) \in Actor
  /\ Cleanup \in Actor
  /\ \A c, d \in Conn : /\ Task(c) # Thread(d) /\ Task(c) # Cleanup /\ Thread(c) # Cleanup
                        /\ Task(c) = Task(d) => c = d
                        /\ Thread(c) = Thread(d) => c = d
  /\ None \notin Conn /\ None \notin Sess /\ None \notin Actor
  BY TerminalAssumption DEF Task, Thread, Cleanup, Actor

(* What the end of a step that drops references does to `stopping`.        *)
LEMMA DropsFacts ==
  ASSUME stopping \in [Actor -> SUBSET Sess],
         NEW a \in Actor, NEW more \in SUBSET Sess, Drops(a, more)
  PROVE  /\ stopping' \in [Actor -> SUBSET Sess]
         /\ \A b \in Actor \ {a} : stopping'[b] = stopping[b]
         /\ stopping[a] \subseteq stopping'[a] /\ more \subseteq stopping'[a]
         /\ \A q \in Sess :
              q \in stopping'[a] /\ q \notin stopping[a] /\ q \notin more
                => /\ sess'[q].stage = "up" /\ q \notin Referenced'
                   /\ \A b \in Actor : q \notin stopping[b]
         /\ \A q \in Sess :
              sess'[q].stage = "up" => q \in Referenced' \/ \E b \in Actor : q \in stopping'[b]
<1> DEFINE idle == {q \in Sess : /\ sess'[q].stage = "up" /\ q \notin Referenced'
                                 /\ \A b \in Actor : q \notin stopping[b]}
<1>1. stopping' = [stopping EXCEPT ![a] = @ \cup more \cup idle]
  BY DEF Drops
<1>2. idle \subseteq Sess
  OBVIOUS
<1>3. /\ stopping' \in [Actor -> SUBSET Sess]
      /\ \A b \in Actor \ {a} : stopping'[b] = stopping[b]
      /\ stopping'[a] = stopping[a] \cup more \cup idle
  <2> HIDE DEF idle
  <2>1. QED BY <1>1, <1>2
<1>4. QED BY <1>3

LEMMA SessionsOfType ==
  ASSUME sessions \in [Conn -> [Term -> Sess \cup {None}]], NEW s \in Conn
  PROVE  SessionsOf(s) \in SUBSET Sess
  BY DEF SessionsOf

(* The tables of sessions and of their states keep their types.            *)

LEMMA SessionsType ==
  ASSUME NEW S \in [Conn -> [Term -> Sess \cup {None}]], NEW s \in Conn, NEW t \in Term,
         NEW v \in Sess \cup {None}
  PROVE  [S EXCEPT ![s][t] = v] \in [Conn -> [Term -> Sess \cup {None}]]
  OBVIOUS

LEMMA SessType ==
  ASSUME sess \in [Sess -> SessState], NEW q \in Sess, NEW v \in SessState,
         sess' = [sess EXCEPT ![q] = v]
  PROVE  /\ sess' \in [Sess -> SessState] /\ sess'[q] = v
         /\ \A r \in Sess \ {q} : sess'[r] = sess[r]
  OBVIOUS

(* What the steps write to the state of a session.                         *)
LEMMA FieldType ==
  ASSUME NEW r \in SessState, NEW x \in BOOLEAN, NEW a \in Actor \cup {None},
         NEW n \in 0..InputSize, NEW e \in {"no", "newline", "now"},
         NEW g \in {"none", "up", "signalled", "down"}
  PROVE  /\ [r EXCEPT !.lock = a] \in SessState
         /\ [r EXCEPT !.told = x] \in SessState
         /\ [r EXCEPT !.reader = x] \in SessState
         /\ [r EXCEPT !.writer = x] \in SessState
         /\ [r EXCEPT !.writer = x, !.input = n] \in SessState
         /\ [r EXCEPT !.input = n, !.ends = e] \in SessState
         /\ [r EXCEPT !.lock = a, !.input = n] \in SessState
         /\ [r EXCEPT !.stage = g, !.lock = a] \in SessState
         /\ [r EXCEPT !.stage = g, !.lock = a, !.ends = e] \in SessState
         /\ [r EXCEPT !.stage = g, !.lock = a, !.told = x, !.ends = e, !.input = n] \in SessState
  BY DEF SessState

(* How full the input channel may be.                                      *)
LEMMA InputFacts ==
  ASSUME sess \in [Sess -> SessState], NEW q \in Sess
  PROVE  /\ sess[q] \in SessState /\ 0 \in 0..InputSize /\ sess[q].input \in 0..InputSize
         /\ Room(q) /\ sess[q].writer => sess[q].input + 1 \in 0..InputSize
         /\ sess[q].input > 0 => sess[q].input - 1 \in 0..InputSize
<1>1. sess[q] \in SessState /\ sess[q].input \in 0..InputSize
  BY DEF SessState
<1>2. ASSUME NEW n \in 0..InputSize
      PROVE  /\ 0 \in 0..InputSize
             /\ n < InputSize => n + 1 \in 0..InputSize
             /\ n > 0 => n - 1 \in 0..InputSize
  BY SMT, TerminalAssumption
<1>3. QED BY <1>1, <1>2 DEF Room

LEMMA SignalledFacts ==
  ASSUME sess \in [Sess -> SessState], NEW q \in Sess, NEW a \in Actor, NEW h \in BOOLEAN, Room(q)
  PROVE  /\ Signalled(a, q, h) \in SessState
         /\ Signalled(a, q, h).stage = "signalled" /\ Signalled(a, q, h).lock = a
<1> DEFINE e == IF sess[q].writer THEN EndsThreads(h) ELSE "now"
           n == IF sess[q].writer /\ ~h THEN sess[q].input + 1 ELSE 0
           v == [sess[q] EXCEPT !.stage = "signalled", !.lock = a, !.told = FALSE, !.ends = e,
                                !.input = n]
<1>1. e \in {"no", "newline", "now"}
  BY DEF EndsThreads
<1>2. n \in 0..InputSize
  BY InputFacts
<1>3. Signalled(a, q, h) = v
  BY DEF Signalled
<1>4. sess[q] \in SessState
  BY InputFacts
<1>5. v \in SessState /\ v.stage = "signalled" /\ v.lock = a
  <2> HIDE DEF e, n
  <2>1. v \in SessState
    BY <1>1, <1>2, <1>4, FieldType
  <2>2. v.stage = "signalled" /\ v.lock = a
    BY <1>4 DEF SessState
  <2>3. QED BY <2>1, <2>2
<1>6. QED BY <1>3, <1>5

(* A step of stop() concerns one session and the mutex that it has or is   *)
(* free.                                                                   *)
Others == <<registry, tlock, persistent, slock, sessions, used, acts, conn, active,
            thread, pers, closed, snap, hold, arcs, clean, turned>>

StopDoes(a, q) ==
  /\ q \in stopping[a] /\ sess[q].lock \in {None, a} /\ UNCHANGED Others
  /\ sess' \in [Sess -> SessState] /\ \A r \in Sess \ {q} : sess'[r] = sess[r]
  /\ \/ sess'[q].stage = "signalled" /\ sess'[q].lock = a /\ UNCHANGED stopping
     \/ sess'[q].stage = "down" /\ stopping' = [stopping EXCEPT ![a] = @ \ {q}]

LEMMA StopFacts ==
  ASSUME TypeOK, NEW a \in Actor, Stop(a)
  PROVE  \E q \in Sess : StopDoes(a, q)
<1> USE DEF registers, threads, refs, Others
<1>1. PICK q \in Sess : StopSignal(a, q) \/ StopSend(a, q) \/ StopJoin(a, q)
  BY DEF Stop
<1>2. sess \in [Sess -> SessState] /\ sess[q] \in SessState
  BY DEF TypeOK
<1>3. ASSUME NEW h \in BOOLEAN, Room(q), sess' = [sess EXCEPT ![q] = Signalled(a, q, h)]
      PROVE  /\ sess' \in [Sess -> SessState] /\ \A r \in Sess \ {q} : sess'[r] = sess[r]
             /\ sess'[q].stage = "signalled" /\ sess'[q].lock = a
  <2>1. PICK v \in SessState : /\ sess' = [sess EXCEPT ![q] = v]
                               /\ v.stage = "signalled" /\ v.lock = a
    BY <1>2, <1>3, SignalledFacts
  <2>2. QED BY <1>2, <2>1, SessType
<1>4. CASE StopSend(a, q)
  BY <1>3, <1>4 DEF StopSend, StopDoes
<1>5. CASE StopSignal(a, q) /\ Room(q)
  BY <1>3, <1>5 DEF StopSignal, StopDoes, Free
<1>6. CASE StopSignal(a, q) /\ ~Room(q)
  <2> DEFINE v == [sess[q] EXCEPT !.stage = "signalled", !.lock = a]
  <2>1. v \in SessState /\ v.stage = "signalled" /\ v.lock = a
    BY <1>2 DEF SessState
  <2>2. sess' = [sess EXCEPT ![q] = v]
    BY <1>6 DEF StopSignal
  <2> HIDE DEF v
  <2>3. QED BY <1>2, <1>6, <2>1, <2>2, SessType DEF StopSignal, StopDoes, Free
<1>7. CASE StopJoin(a, q)
  <2> DEFINE v == [sess[q] EXCEPT !.stage = "down", !.lock = None, !.ends = "no"]
  <2>1. v \in SessState /\ v.stage = "down"
    BY <1>2 DEF SessState
  <2>2. sess' = [sess EXCEPT ![q] = v]
    BY <1>7 DEF StopJoin
  <2> HIDE DEF v
  <2>3. QED BY <1>2, <1>7, <2>1, <2>2, SessType DEF StopJoin, StopDoes
<1>8. QED BY <1>1, <1>4, <1>5, <1>6, <1>7

LEMMA StopType ==
  ASSUME TypeOK, NEW a \in Actor, Stop(a)
  PROVE  TypeOK'
<1>1. PICK q \in Sess : StopDoes(a, q)
  BY StopFacts
<1>2. stopping' \in [Actor -> SUBSET Sess]
  <2>1. stopping[a] \ {q} \subseteq Sess
    BY DEF TypeOK
  <2>2. QED BY <1>1, <2>1 DEF StopDoes, TypeOK
<1>3. QED BY <1>1, <1>2 DEF StopDoes, Others, TypeOK

(* The steps of the reader and the writer, and the end of a send, leave    *)
(* the stages alone.                                                       *)
LEMMA SessionFacts ==
  ASSUME TypeOK, NEW q \in Sess, SessionStep(q)
  PROVE  /\ sess' \in [Sess -> SessState] /\ UNCHANGED Others /\ UNCHANGED stopping
         /\ \A r \in Sess : sess'[r].stage = sess[r].stage /\ sess'[r].lock = sess[r].lock
<1> USE DEF registers, threads, refs, Others
<1>1. UNCHANGED Others /\ UNCHANGED stopping
  BY DEF SessionStep, ReadFails, ReaderEnds, WriterWrites, WriteFails, WriterEnds
<1>2. sess \in [Sess -> SessState] /\ sess[q] \in SessState
  BY DEF TypeOK
<1>3. ASSUME NEW v \in SessState, sess' = [sess EXCEPT ![q] = v],
             v.stage = sess[q].stage, v.lock = sess[q].lock
      PROVE  /\ sess' \in [Sess -> SessState]
             /\ \A r \in Sess : sess'[r].stage = sess[r].stage /\ sess'[r].lock = sess[r].lock
  BY <1>2, <1>3, SessType
<1>4. CASE ReadFails(q) \/ ReaderEnds(q)
  <2> DEFINE v == [sess[q] EXCEPT !.reader = FALSE]
  <2>1. v \in SessState /\ v.stage = sess[q].stage /\ v.lock = sess[q].lock
    BY <1>2 DEF SessState
  <2>2. sess' = [sess EXCEPT ![q] = v]
    BY <1>4 DEF ReadFails, ReaderEnds
  <2> HIDE DEF v
  <2>3. QED BY <1>1, <1>3, <2>1, <2>2
<1>5. CASE WriterWrites(q)
  <2> DEFINE n == sess[q].input - 1
             e == IF sess[q].ends = "newline" /\ sess[q].input = 1 THEN "now" ELSE sess[q].ends
             v == [sess[q] EXCEPT !.input = n, !.ends = e]
  <2>1. n \in 0..InputSize
    BY <1>2, <1>5, InputFacts DEF WriterWrites
  <2>2. e \in {"no", "newline", "now"}
    BY <1>2 DEF SessState
  <2>3. sess' = [sess EXCEPT ![q] = v]
    BY <1>5 DEF WriterWrites
  <2> HIDE DEF n, e
  <2>4. v \in SessState /\ v.stage = sess[q].stage /\ v.lock = sess[q].lock
    BY <1>2, <2>1, <2>2 DEF SessState
  <2> HIDE DEF v
  <2>5. QED BY <1>1, <1>3, <2>3, <2>4
<1>6. CASE WriteFails(q)
  <2> DEFINE v == [sess[q] EXCEPT !.writer = FALSE, !.input = 0]
  <2>1. v \in SessState /\ v.stage = sess[q].stage /\ v.lock = sess[q].lock
    BY <1>2, InputFacts DEF SessState
  <2>2. sess' = [sess EXCEPT ![q] = v]
    BY <1>6 DEF WriteFails
  <2> HIDE DEF v
  <2>3. QED BY <1>1, <1>3, <2>1, <2>2
<1>7. CASE WriterEnds(q)
  <2> DEFINE v == [sess[q] EXCEPT !.writer = FALSE]
  <2>1. v \in SessState /\ v.stage = sess[q].stage /\ v.lock = sess[q].lock
    BY <1>2 DEF SessState
  <2>2. sess' = [sess EXCEPT ![q] = v]
    BY <1>7 DEF WriterEnds
  <2> HIDE DEF v
  <2>3. QED BY <1>1, <1>3, <2>1, <2>2
<1>8. QED BY <1>4, <1>5, <1>6, <1>7 DEF SessionStep

LEMMA SendsFacts ==
  ASSUME TypeOK, NEW c \in Conn, NEW q \in Sess, Sends(c, q)
  PROVE  /\ sess' \in [Sess -> SessState] /\ EndAction(c)
         /\ \A r \in Sess : sess'[r].stage = sess[r].stage /\ (r # q => sess'[r] = sess[r])
         /\ sess'[q].lock = None
<1>1. sess \in [Sess -> SessState] /\ sess[q] \in SessState
  BY DEF TypeOK
<1> DEFINE n == IF sess[q].stage = "up" /\ sess[q].writer THEN sess[q].input + 1
                ELSE sess[q].input
           v == [sess[q] EXCEPT !.lock = None, !.input = n]
<1>2. n \in 0..InputSize
  BY <1>1, InputFacts DEF Sends
<1>3. sess' = [sess EXCEPT ![q] = v]
  BY DEF Sends
<1> HIDE DEF n
<1>4. v \in SessState /\ v.stage = sess[q].stage /\ v.lock = None
  BY <1>1, <1>2 DEF SessState
<1> HIDE DEF v
<1>5. QED BY <1>1, <1>3, <1>4, SessType DEF Sends

LEMMA TurnType == Turn => turned' \in [Actor -> BOOLEAN]
<1>1. \A a \in Actor : (Kept' /\ (turned[a] \/ (~Kept /\ Looked(a)))) \in BOOLEAN
  OBVIOUS
<1>2. QED BY <1>1 DEF Turn

LEMMA TaskType ==
  ASSUME TypeOK, Places, NEW c \in Conn, TaskStep(c)
  PROVE  TypeOK'
<1> USE Actors DEF registers, threads, refs, At, Go, ThreadGo
<1>1. hold[Task(c)] \in Conn \cup {None} /\ arcs[Task(c)] \subseteq Sess
  BY DEF TypeOK
<1>2. conn[c] = "got" => hold[Task(c)] \in Conn
  BY DEF Places, TaskPlace
<1>3. CASE InitTerminalService(c)
  <2>1. registry' \in Conn \cup {None} /\ persistent' \in [Conn -> BOOLEAN]
    <3>1. CASE UNCHANGED <<registry, persistent>>
      BY <3>1 DEF TypeOK
    <3>2. ASSUME NEW p \in BOOLEAN, NEW s, s = IF registry = None THEN c ELSE registry,
                 registry' = s, persistent' = [persistent EXCEPT ![s] = p]
          PROVE  registry' \in Conn \cup {None} /\ persistent' \in [Conn -> BOOLEAN]
      BY <3>2 DEF TypeOK
    <3>3. QED BY <1>3, <3>1, <3>2 DEF InitTerminalService, GetOrCreateService
  <2>2. turned' \in [Actor -> BOOLEAN]
    BY <1>3, TurnType DEF InitTerminalService
  <2>3. conn' = [conn EXCEPT ![c] = "run"] /\ thread' = [thread EXCEPT ![c] = "loop"]
        /\ UNCHANGED <<tlock, slock, sessions, used, sess, active, pers, closed, snap,
                       hold, arcs, stopping, clean>>
    BY <1>3 DEF InitTerminalService
  <2>4. acts' \in Nat
    <3>1. acts \in Nat
      BY DEF TypeOK
    <3>2. acts' = acts + 1
      BY <1>3 DEF InitTerminalService
    <3>3. QED BY SMT, <3>1, <3>2
  <2>5. QED BY <2>1, <2>2, <2>3, <2>4 DEF TypeOK
<1>4. CASE SetPersistent(c)
  <2>1. turned' \in [Actor -> BOOLEAN]
    BY <1>4, TurnType DEF SetPersistent
  <2>2. persistent' \in [Conn -> BOOLEAN]
    BY <1>4 DEF SetPersistent, TypeOK
  <2>3. QED BY SMT, <1>4, <2>1, <2>2 DEF SetPersistent, TypeOK
<1>5. CASE GetService(c) \/ Leave(c) \/ Joined(c)
  <2>1. CASE GetService(c)
    BY SMT, <2>1 DEF GetService, Found, TypeOK
  <2>2. CASE Leave(c)
    BY <2>2 DEF Leave, TypeOK
  <2>3. CASE Joined(c)
    BY <2>3 DEF Joined, TypeOK
  <2>4. QED BY <1>5, <2>1, <2>2, <2>3
<1>6. ASSUME EndAction(c)
      PROVE  /\ hold' \in [Actor -> Conn \cup {None}] /\ arcs' \in [Actor -> SUBSET Sess]
             /\ stopping' \in [Actor -> SUBSET Sess] /\ conn' = [conn EXCEPT ![c] = "run"]
  BY <1>6, DropsFacts DEF EndAction, TypeOK
<1>7. ASSUME NEW t \in Term, HandleOpen(c, t) PROVE TypeOK'
  <2> DEFINE s == hold[Task(c)]
  <2>1. /\ conn[c] = "got" /\ EndAction(c)
        /\ UNCHANGED <<registry, tlock, persistent, slock, acts, threads, clean>>
        /\ \/ UNCHANGED <<sess, sessions, used, turned>>
           \/ /\ used < MaxSess /\ used' = used + 1
              /\ sess' = [sess EXCEPT ![used + 1] = NewSession]
              /\ sessions' = [sessions EXCEPT ![s][t] = used + 1]
              /\ Turn
    BY <1>7 DEF HandleOpen
  <2>2. used < MaxSess => used + 1 \in Sess /\ used + 1 \in 0..MaxSess
    BY SMT, TerminalAssumption DEF TypeOK, Sess
  <2>3. CASE UNCHANGED <<sess, sessions, used, turned>>
    BY <1>6, <2>1, <2>3 DEF TypeOK
  <2>4. CASE /\ used < MaxSess /\ used' = used + 1 /\ Turn
             /\ sess' = [sess EXCEPT ![used + 1] = NewSession]
             /\ sessions' = [sessions EXCEPT ![s][t] = used + 1]
    <3>1. turned' \in [Actor -> BOOLEAN]
      BY <2>4, TurnType
    <3>2. sess' \in [Sess -> SessState]
      <4>1. NewSession \in SessState
        BY SMT, TerminalAssumption DEF NewSession, SessState
      <4>2. sess \in [Sess -> SessState] /\ used + 1 \in Sess
        BY <2>2, <2>4 DEF TypeOK
      <4>3. QED BY <2>4, <4>1, <4>2, SessType
    <3>3. sessions' \in [Conn -> [Term -> Sess \cup {None}]] /\ used' \in 0..MaxSess
      BY <1>2, <2>1, <2>2, <2>4, SessionsType DEF TypeOK
    <3>4. QED BY <1>6, <2>1, <3>1, <3>2, <3>3 DEF TypeOK
  <2>5. QED BY <2>1, <2>3, <2>4
<1>8. ASSUME NEW t \in Term, FindSession(c, t) PROVE TypeOK'
  <2>1. sessions[hold[Task(c)]][t] \in Sess \cup {None}
    BY SMT, <1>2, <1>8 DEF FindSession, TypeOK
  <2>2. CASE EndAction(c)
    BY <1>6, <1>8, <2>2 DEF FindSession, TypeOK
  <2>3. CASE ~EndAction(c)
    <3>1. PICK q \in Sess : arcs' = [arcs EXCEPT ![Task(c)] = {q}]
      BY <1>8, <2>1, <2>3 DEF FindSession
    <3>2. arcs' \in [Actor -> SUBSET Sess]
      BY <3>1 DEF TypeOK
    <3>3. conn' = [conn EXCEPT ![c] = "send"] /\ UNCHANGED <<hold, stopping>>
      BY <1>8, <2>3 DEF FindSession
    <3>4. QED BY <1>8, <3>2, <3>3 DEF FindSession, TypeOK
  <2>4. QED BY <2>2, <2>3
<1>9. CASE LockSession(c)
  <2>1. PICK q \in Sess : sess' = [sess EXCEPT ![q].lock = Task(c)]
    BY <1>1, <1>9 DEF LockSession
  <2>2. sess' \in [Sess -> SessState]
    <3>1. sess \in [Sess -> SessState] /\ sess[q] \in SessState
      BY DEF TypeOK
    <3>2. [sess[q] EXCEPT !.lock = Task(c)] \in SessState
      BY <3>1 DEF SessState
    <3>3. QED BY <2>1, <3>1, <3>2
  <2>3. QED BY <1>9, <2>2 DEF LockSession, TypeOK
<1>10. CASE HandleData(c) \/ SendsLate(c)
  <2>1. PICK q \in Sess : Sends(c, q)
    BY <1>1, <1>10 DEF HandleData, SendsLate
  <2>2. sess' \in [Sess -> SessState]
    BY <2>1, SendsFacts
  <2>3. QED BY <1>6, <2>1, <2>2 DEF Sends, TypeOK
<1>11. ASSUME NEW t \in Term, HandleClose(c, t) PROVE TypeOK'
  <2> DEFINE s == hold[Task(c)]
  <2>1. UNCHANGED <<registry, tlock, persistent, used, acts, threads, clean, turned, sess>>
    BY <1>11 DEF HandleClose
  <2>2. CASE EndAction(c)
    BY <1>6, <1>11, <2>1, <2>2 DEF HandleClose, TypeOK
  <2>3. CASE ~EndAction(c)
    <3>1. /\ sessions' = [sessions EXCEPT ![s][t] = None]
          /\ slock' = [slock EXCEPT ![s] = Task(c)]
          /\ UNCHANGED <<hold, arcs>> /\ Drops(Task(c), {}) /\ Go(c, "closing")
          /\ conn[c] = "got"
      BY <1>11, <2>3 DEF HandleClose
    <3>2. stopping' \in [Actor -> SUBSET Sess]
      BY <3>1, DropsFacts DEF TypeOK
    <3>3. sessions' \in [Conn -> [Term -> Sess \cup {None}]]
          /\ slock' \in [Conn -> Actor \cup {None}]
      BY <1>2, <3>1, SessionsType DEF TypeOK
    <3>4. QED BY <2>1, <3>1, <3>2, <3>3 DEF TypeOK
  <2>4. QED BY <2>2, <2>3
<1>12. CASE CloseEnds(c)
  BY <1>6, <1>12 DEF CloseEnds, TypeOK
<1>13. CASE Stop(Task(c))
  BY <1>13, StopType
<1>14. QED
  BY <1>3, <1>4, <1>5, <1>7, <1>8, <1>9, <1>10, <1>11, <1>12, <1>13 DEF TaskStep, TaskEnds

(* The removal of the service, by any actor.                               *)
LEMMA RemovalType ==
  ASSUME TypeOK, NEW a \in Actor, RemoveService(a) \/ RemoveReturns(a),
         thread' \in [Conn -> {"none", "loop", "ok", "visit", "reap", "decide", "remove",
                               "removing", "exit"}],
         clean' \in {"sleep", "remove", "removing"}
  PROVE  TypeOK'
<1> USE Actors
<1>1. CASE RemoveService(a)
  <2>1. CASE registry = None
    <3>1. stopping' \in [Actor -> SUBSET Sess]
      BY <1>1, <2>1, DropsFacts DEF RemoveService, TypeOK
    <3>2. QED BY <1>1, <2>1, <3>1 DEF RemoveService, TypeOK
  <2>2. CASE registry # None
    <3>1. SessionsOf(registry) \in SUBSET Sess
      BY <2>2, SessionsOfType DEF TypeOK
    <3>2. stopping' \in [Actor -> SUBSET Sess]
      BY <1>1, <2>2, <3>1, DropsFacts DEF RemoveService, TypeOK
    <3>3. hold' \in [Actor -> Conn \cup {None}] /\ arcs' \in [Actor -> SUBSET Sess]
      <4>1. hold' = [hold EXCEPT ![a] = registry]
            /\ arcs' = [arcs EXCEPT ![a] = SessionsOf(registry)]
        BY <1>1, <2>2 DEF RemoveService
      <4>2. registry \in Conn \cup {None} /\ hold \in [Actor -> Conn \cup {None}]
            /\ arcs \in [Actor -> SUBSET Sess]
        BY DEF TypeOK
      <4>3. QED BY <3>1, <4>1, <4>2
    <3>4. registry' = None /\ tlock' = a
          /\ UNCHANGED <<persistent, slock, sessions, used, sess, acts, conn, active, pers,
                         closed, snap, turned>>
      BY <1>1, <2>2 DEF RemoveService
    <3>5. QED BY <3>2, <3>3, <3>4 DEF TypeOK
  <2>3. QED BY <2>1, <2>2
<1>2. CASE RemoveReturns(a)
  <2>1. stopping' \in [Actor -> SUBSET Sess]
    BY <1>2, DropsFacts DEF RemoveReturns, TypeOK
  <2>2. QED BY <1>2, <2>1 DEF RemoveReturns, TypeOK
<1>3. QED BY <1>1, <1>2

LEMMA ThreadType ==
  ASSUME TypeOK, Places, NEW c \in Conn, ThreadStep(c)
  PROVE  TypeOK'
<1> USE Actors DEF registers, refs, ThreadAt, ThreadGo
<1>1. thread[c] \in {"visit", "reap", "decide"} => hold[Thread(c)] \in Conn
  BY DEF Places, ThreadPlace
<1>2. Empty \in [Term -> Sess \cup {None}]
  BY DEF Empty
<1>3. CASE Loop(c)
  BY <1>3 DEF Loop, TypeOK
<1>4. CASE ListSessions(c)
  BY <1>4 DEF ListSessions, TypeOK
<1>5. CASE LastLook(c)
  BY <1>5 DEF LastLook, TypeOK
<1>6. ASSUME EndRead(c)
      PROVE  /\ snap' \in [Conn -> [Term -> Sess \cup {None}]]
             /\ hold' \in [Actor -> Conn \cup {None}] /\ pers' \in [Conn -> BOOLEAN]
             /\ stopping' \in [Actor -> SUBSET Sess] /\ thread' = [thread EXCEPT ![c] = "ok"]
  BY <1>2, <1>6, DropsFacts DEF EndRead, TypeOK
<1>7. CASE Visited(c)
  <2>1. UNCHANGED <<registers, sess, acts, conn, active, closed, arcs, clean, turned>>
    BY <1>7 DEF Visited
  <2>2. CASE EndRead(c)
    BY <1>6, <2>1, <2>2 DEF TypeOK
  <2>3. CASE ~EndRead(c)
    <3>1. snap' = [snap EXCEPT ![c] = sessions[hold[Thread(c)]]] /\ thread[c] = "visit"
          /\ thread' = [thread EXCEPT ![c] = "reap"] /\ UNCHANGED <<hold, pers, stopping>>
      BY <1>7, <2>3 DEF Visited
    <3>2. snap' \in [Conn -> [Term -> Sess \cup {None}]]
      BY <1>1, <3>1 DEF TypeOK
    <3>3. QED BY <2>1, <3>1, <3>2 DEF TypeOK
  <2>4. QED BY <2>2, <2>3
<1>8. CASE Reaped(c)
  BY <1>6, <1>8 DEF Reaped, TypeOK
<1>9. ASSUME NEW t \in Term, VisitSession(c, t) PROVE TypeOK'
  <2> DEFINE q == snap[c][t]
  <2>1. /\ UNCHANGED <<registers, acts, conn, active, thread, pers, hold, arcs, clean, turned>>
        /\ q # None /\ snap' = [snap EXCEPT ![c][t] = None] /\ Drops(Thread(c), {})
    BY <1>9 DEF VisitSession
  <2>2. q \in Sess
    BY SMT, <2>1 DEF TypeOK
  <2>3. closed' \in [Conn -> SUBSET Term]
    <3>1. \/ UNCHANGED closed
          \/ closed' = [closed EXCEPT ![c] = IF Finished(q) THEN @ \cup {t} ELSE @]
      BY <1>9 DEF VisitSession
    <3>2. closed[c] \cup {t} \subseteq Term
      BY DEF TypeOK
    <3>3. QED BY <3>1, <3>2 DEF TypeOK
  <2>4. sess' \in [Sess -> SessState]
    <3>1. UNCHANGED sess \/ sess' = [sess EXCEPT ![q].told = @ \/ Finished(q)]
      BY <1>9 DEF VisitSession
    <3>2. sess \in [Sess -> SessState]
      BY DEF TypeOK
    <3>3. sess[q].told \in BOOLEAN /\ Finished(q) \in BOOLEAN
      BY <2>2, <3>2 DEF Finished, SessState
    <3>4. [sess[q] EXCEPT !.told = @ \/ Finished(q)] \in SessState
      <4>1. PICK x \in BOOLEAN : x = (sess[q].told \/ Finished(q))
        BY <3>3
      <4>2. \A r \in SessState : [r EXCEPT !.told = x] \in SessState
        BY DEF SessState
      <4>3. sess[q] \in SessState
        BY <2>2, <3>2
      <4>4. QED BY <4>1, <4>2, <4>3
    <3>5. QED BY <2>2, <3>1, <3>2, <3>4
  <2>5. snap' \in [Conn -> [Term -> Sess \cup {None}]]
    BY <2>1, SessionsType DEF TypeOK
  <2>6. stopping' \in [Actor -> SUBSET Sess]
    BY <2>1, DropsFacts DEF TypeOK
  <2>7. QED BY <2>1, <2>3, <2>4, <2>5, <2>6 DEF TypeOK
<1>10. ASSUME NEW t \in Term, ReapTerminal(c, t) PROVE TypeOK'
  <2>1. /\ UNCHANGED <<registry, tlock, persistent, slock, used, sess, acts, conn, active,
                       thread, pers, hold, arcs, clean, turned>>
        /\ thread[c] = "reap" /\ Drops(Thread(c), {})
        /\ \/ sessions' = [sessions EXCEPT ![hold[Thread(c)]][t] = None]
              /\ snap' = [snap EXCEPT ![c][t] = None]
           \/ UNCHANGED <<sessions, snap>>
    BY <1>10 DEF ReapTerminal
  <2>2. closed' \in [Conn -> SUBSET Term]
    BY <1>10 DEF ReapTerminal, TypeOK
  <2>3. stopping' \in [Actor -> SUBSET Sess]
    BY <2>1, DropsFacts DEF TypeOK
  <2>4. /\ sessions' \in [Conn -> [Term -> Sess \cup {None}]]
        /\ snap' \in [Conn -> [Term -> Sess \cup {None}]]
    <3>1. /\ sessions \in [Conn -> [Term -> Sess \cup {None}]]
          /\ snap \in [Conn -> [Term -> Sess \cup {None}]]
      BY DEF TypeOK
    <3>2. [sessions EXCEPT ![hold[Thread(c)]][t] = None] \in [Conn -> [Term -> Sess \cup {None}]]
      BY <1>1, <2>1, <3>1, SessionsType
    <3>3. [snap EXCEPT ![c][t] = None] \in [Conn -> [Term -> Sess \cup {None}]]
      BY <3>1, SessionsType
    <3>4. QED BY <2>1, <3>1, <3>2, <3>3
  <2>5. QED BY <2>1, <2>2, <2>3, <2>4 DEF TypeOK
<1>11. CASE Decide(c)
  <2>1. UNCHANGED <<registers, sess, acts, conn, active, pers, closed, snap, arcs, clean>>
    BY <1>11 DEF Decide
  <2>2. CASE UNCHANGED <<hold, stopping, turned>> /\ ThreadGo(c, "remove")
    BY <2>1, <2>2 DEF TypeOK
  <2>3. CASE /\ hold' = [hold EXCEPT ![Thread(c)] = None] /\ ThreadGo(c, "exit")
             /\ turned' = [turned EXCEPT ![Thread(c)] = FALSE] /\ Drops(Thread(c), {})
    <3>1. stopping' \in [Actor -> SUBSET Sess]
      BY <2>3, DropsFacts DEF TypeOK
    <3>2. QED BY <2>1, <2>3, <3>1 DEF TypeOK
  <2>4. QED BY <1>11, <2>2, <2>3 DEF Decide
<1>12. CASE ThreadRemoves(c) \/ ThreadRemoved(c)
  <2>1. thread' \in [Conn -> {"none", "loop", "ok", "visit", "reap", "decide", "remove",
                              "removing", "exit"}]
    <3>1. thread' = [thread EXCEPT ![c] = "removing"] \/ thread' = [thread EXCEPT ![c] = "exit"]
      BY <1>12 DEF ThreadRemoves, ThreadRemoved
    <3>2. QED BY <3>1 DEF TypeOK
  <2>2. UNCHANGED clean /\ (RemoveService(Thread(c)) \/ RemoveReturns(Thread(c)))
    BY <1>12 DEF ThreadRemoves, ThreadRemoved
  <2>3. QED BY <2>1, <2>2, RemovalType DEF TypeOK
<1>13. CASE Stop(Thread(c))
  BY <1>13, StopType
<1>14. QED
  BY <1>3, <1>4, <1>5, <1>7, <1>8, <1>9, <1>10, <1>11, <1>12, <1>13 DEF ThreadStep

LEMMA TypeStep == TypeOK /\ Places /\ [Next]_vars => TypeOK'
<1> SUFFICES ASSUME TypeOK, Places, [Next]_vars PROVE TypeOK' OBVIOUS
<1> USE Actors
<1>1. CASE UNCHANGED vars
  BY <1>1 DEF vars, TypeOK
<1>2. CASE \E c \in Conn : TaskStep(c) \/ ThreadStep(c)
  BY <1>2, TaskType, ThreadType
<1>3. CASE CleanupStep
  <2>1. CASE FindInactive
    BY <2>1 DEF FindInactive, registers, threads, refs, TypeOK
  <2>2. CASE CleanupRemoves \/ CleanupRemoved
    BY <2>2, RemovalType DEF CleanupRemoves, CleanupRemoved, TypeOK
  <2>3. CASE Stop(Cleanup)
    BY <2>3, StopType
  <2>4. QED BY <1>3, <2>1, <2>2, <2>3 DEF CleanupStep
<1>4. ASSUME NEW q \in Sess, SessionStep(q) PROVE TypeOK'
  BY <1>4, SessionFacts DEF Others, TypeOK
<1>5. QED BY <1>1, <1>2, <1>3, <1>4 DEF Next

(* A step of one actor leaves the others where they are, and concerns only *)
(* services of connections that have logged in.                            *)
Serving(s) == s \in Conn /\ conn[s] # "new"

LEMMA PlacesOfTask ==
  ASSUME TypeOK, Places, NEW c \in Conn,
         conn[c] # "new", conn'[c] # "new", \A d \in Conn \ {c} : conn'[d] = conn[d],
         \A a \in Actor \ {Task(c)} : hold'[a] = hold[a] /\ arcs'[a] = arcs[a],
         UNCHANGED <<thread, snap, registry>>,
         \A s \in Conn : sessions'[s] = sessions[s] \/ Serving(s),
         hold'[Task(c)] = None \/ Serving(hold'[Task(c)]),
         TaskPlace(c)'
  PROVE  Places'
<1> USE Actors DEF Serving
<1> SUFFICES ASSUME NEW d \in Conn PROVE TaskPlace(d)' /\ ThreadPlace(d)' /\ Unborn(d)'
  BY DEF Places
<1>1. TaskPlace(d) /\ ThreadPlace(d) /\ Unborn(d)
  BY DEF Places
<1>2. TaskPlace(d)'
  BY <1>1 DEF TaskPlace
<1>3. ThreadPlace(d)'
  BY <1>1 DEF ThreadPlace
<1>4. Unborn(d)'
  BY <1>1 DEF Unborn
<1>5. QED BY <1>2, <1>3, <1>4

LEMMA PlacesOfThread ==
  ASSUME TypeOK, Places, NEW c \in Conn,
         thread[c] # "none", UNCHANGED conn, \A d \in Conn \ {c} : thread'[d] = thread[d],
         \A d \in Conn \ {c} : snap'[d] = snap[d],
         \A a \in Actor \ {Thread(c)} : hold'[a] = hold[a] /\ arcs'[a] = arcs[a],
         registry' \in {registry, None},
         \A s \in Conn : sessions'[s] = sessions[s] \/ Serving(s),
         hold'[Thread(c)] = None \/ Serving(hold'[Thread(c)]),
         ThreadPlace(c)'
  PROVE  Places'
<1> USE Actors DEF Serving
<1> SUFFICES ASSUME NEW d \in Conn PROVE TaskPlace(d)' /\ ThreadPlace(d)' /\ Unborn(d)'
  BY DEF Places
<1>1. TaskPlace(d) /\ ThreadPlace(d) /\ Unborn(d)
  BY DEF Places
<1>2. TaskPlace(d)'
  BY <1>1 DEF TaskPlace
<1>3. ThreadPlace(d)'
  BY <1>1 DEF ThreadPlace
<1>4. Unborn(d)'
  BY SMT, <1>1 DEF Unborn
<1>5. QED BY <1>2, <1>3, <1>4

LEMMA Referred ==
  ASSUME TypeOK, Places
  PROVE  /\ registry = None \/ Serving(registry)
         /\ \A a \in Actor : hold[a] = None \/ Serving(hold[a])
  BY DEF TypeOK, Places, Unborn, Serving

LEMMA TaskPlaces ==
  ASSUME TypeOK, Places, NEW c \in Conn, TaskStep(c)
  PROVE  Places'
<1> USE Actors DEF registers, threads, refs, At, Go
<1>1. TaskPlace(c) /\ (conn[c] = "new" => thread[c] = "none")
  BY DEF Places, Unborn
<1>3. CASE InitTerminalService(c)
  <2>1. /\ registry' \in {registry, c} /\ conn' = [conn EXCEPT ![c] = "run"]
        /\ thread' = [thread EXCEPT ![c] = "loop"] /\ conn[c] = "new"
        /\ UNCHANGED <<hold, arcs, snap, sessions>>
    BY <1>3 DEF InitTerminalService, GetOrCreateService, ThreadGo
  <2> SUFFICES ASSUME NEW d \in Conn PROVE TaskPlace(d)' /\ ThreadPlace(d)' /\ Unborn(d)'
    BY DEF Places
  <2>2. TaskPlace(d) /\ ThreadPlace(d) /\ Unborn(d)
    BY DEF Places
  <2>3. TaskPlace(d)'
    BY <1>1, <2>1, <2>2 DEF TaskPlace, TypeOK
  <2>4. ThreadPlace(d)'
    BY <1>1, <2>1, <2>2 DEF ThreadPlace, TypeOK
  <2>5. Unborn(d)'
    BY <2>1, <2>2 DEF Unborn, TypeOK
  <2>6. QED BY <2>3, <2>4, <2>5
<1>4. CASE SetPersistent(c)
  BY <1>4 DEF SetPersistent, Places, TaskPlace, ThreadPlace, Unborn, SessionsOf
<1>5. CASE GetService(c) \/ Leave(c)
  <2>1. /\ conn[c] = "run" /\ UNCHANGED <<arcs, thread, snap, registry, sessions>>
        /\ \/ conn' = [conn EXCEPT ![c] = "got"]
              /\ hold' = [hold EXCEPT ![Task(c)] = registry] /\ registry # None
           \/ conn' = [conn EXCEPT ![c] = "join"] /\ UNCHANGED hold
    BY <1>5 DEF GetService, Leave, Found
  <2>2. TaskPlace(c)' /\ (hold'[Task(c)] = None \/ Serving(hold'[Task(c)]))
    BY <1>1, <2>1, Referred DEF TaskPlace, TypeOK
  <2>3. QED BY <2>1, <2>2, PlacesOfTask DEF TypeOK
<1>6. CASE Joined(c)
  <2>1. conn[c] = "join" /\ conn' = [conn EXCEPT ![c] = "closed"]
        /\ UNCHANGED <<arcs, thread, snap, registry, sessions, hold>>
    BY <1>6 DEF Joined
  <2>2. TaskPlace(c)' /\ (hold'[Task(c)] = None \/ Serving(hold'[Task(c)]))
    BY <1>1, <2>1 DEF TaskPlace, TypeOK
  <2>3. QED BY <2>1, <2>2, PlacesOfTask DEF TypeOK
<1>7. ASSUME EndAction(c), conn[c] # "new", UNCHANGED <<thread, snap, registry>>,
             \A s \in Conn : sessions'[s] = sessions[s] \/ Serving(s)
      PROVE  Places'
  <2>1. /\ conn' = [conn EXCEPT ![c] = "run"] /\ hold' = [hold EXCEPT ![Task(c)] = None]
        /\ arcs' = [arcs EXCEPT ![Task(c)] = {}]
    BY <1>7 DEF EndAction
  <2>2. TaskPlace(c)'
    BY <2>1 DEF TaskPlace, TypeOK
  <2>3. hold'[Task(c)] = None /\ conn'[c] # "new" /\ (\A d \in Conn \ {c} : conn'[d] = conn[d])
        /\ \A a \in Actor \ {Task(c)} : hold'[a] = hold[a] /\ arcs'[a] = arcs[a]
    BY <2>1 DEF TypeOK
  <2>4. QED BY <1>7, <2>2, <2>3, PlacesOfTask
<1>8. conn[c] \in {"got", "closing"} => Serving(hold[Task(c)])
  BY <1>1, Referred DEF TaskPlace
<1>9. ASSUME NEW t \in Term, HandleOpen(c, t) PROVE Places'
  <2>1. /\ conn[c] = "got" /\ UNCHANGED <<thread, snap, registry>> /\ EndAction(c)
        /\ \/ UNCHANGED sessions
           \/ sessions' = [sessions EXCEPT ![hold[Task(c)]][t] = used + 1]
    BY <1>9 DEF HandleOpen
  <2>2. \A r \in Conn : sessions'[r] = sessions[r] \/ Serving(r)
    BY <1>8, <2>1 DEF TypeOK, Serving
  <2>3. QED BY <1>7, <2>1, <2>2
<1>10. ASSUME NEW t \in Term, FindSession(c, t) PROVE Places'
  <2>1. conn[c] = "got" /\ UNCHANGED <<thread, snap, registry, sessions>>
    BY <1>10 DEF FindSession
  <2>2. CASE EndAction(c)
    BY <1>7, <2>1, <2>2
  <2>3. CASE ~EndAction(c)
    <3>1. /\ conn' = [conn EXCEPT ![c] = "send"] /\ UNCHANGED hold
          /\ \E q : arcs' = [arcs EXCEPT ![Task(c)] = {q}]
      BY <1>10, <2>3 DEF FindSession
    <3>2. TaskPlace(c)'
      BY <1>1, <2>1, <3>1 DEF TaskPlace, TypeOK
    <3>3. QED BY <1>8, <2>1, <3>1, <3>2, PlacesOfTask DEF TypeOK
  <2>4. QED BY <2>2, <2>3
<1>11. CASE LockSession(c)
  <2>1. conn[c] = "send" /\ conn' = [conn EXCEPT ![c] = "sending"]
        /\ UNCHANGED <<arcs, thread, snap, registry, sessions, hold>>
    BY <1>11 DEF LockSession
  <2>2. TaskPlace(c)' /\ (hold'[Task(c)] = None \/ Serving(hold'[Task(c)]))
    BY <1>1, <2>1, Referred DEF TaskPlace, TypeOK
  <2>3. QED BY <2>1, <2>2, PlacesOfTask DEF TypeOK
<1>12. CASE HandleData(c) \/ SendsLate(c)
  BY <1>7, <1>12 DEF HandleData, SendsLate, Sends
<1>13. ASSUME NEW t \in Term, HandleClose(c, t) PROVE Places'
  <2>1. conn[c] = "got" /\ UNCHANGED <<thread, snap, registry>>
    BY <1>13 DEF HandleClose
  <2>2. CASE EndAction(c) /\ UNCHANGED sessions
    BY <1>7, <2>1, <2>2
  <2>3. CASE ~(EndAction(c) /\ UNCHANGED sessions)
    <3>1. /\ sessions' = [sessions EXCEPT ![hold[Task(c)]][t] = None]
          /\ conn' = [conn EXCEPT ![c] = "closing"] /\ UNCHANGED <<hold, arcs>>
      BY <1>13, <2>3 DEF HandleClose
    <3>2. \A r \in Conn : sessions'[r] = sessions[r] \/ Serving(r)
      BY <1>8, <2>1, <3>1 DEF TypeOK, Serving
    <3>3. TaskPlace(c)'
      BY <1>1, <2>1, <3>1 DEF TaskPlace, TypeOK
    <3>4. QED BY <1>8, <2>1, <3>1, <3>2, <3>3, PlacesOfTask DEF TypeOK
  <2>4. QED BY <2>2, <2>3
<1>14. CASE CloseEnds(c)
  BY <1>7, <1>14 DEF CloseEnds
<1>15. CASE Stop(Task(c))
  <2>1. UNCHANGED <<conn, thread, hold, arcs, snap, sessions, registry>>
    BY <1>15, StopFacts DEF StopDoes, Others
  <2>2. QED BY <2>1 DEF Places, TaskPlace, ThreadPlace, Unborn
<1>16. QED
  BY <1>3, <1>4, <1>5, <1>6, <1>9, <1>10, <1>11, <1>12, <1>13, <1>14, <1>15
  DEF TaskStep, TaskEnds

LEMMA ThreadPlaces ==
  ASSUME TypeOK, Places, NEW c \in Conn, ThreadStep(c)
  PROVE  Places'
<1> USE Actors DEF registers, refs, ThreadAt, ThreadGo
<1>1. ThreadPlace(c)
  BY DEF Places
<1>2. /\ registry = None \/ Serving(registry)
      /\ hold[Thread(c)] = None \/ Serving(hold[Thread(c)])
  BY Referred
<1>3. CASE Loop(c)
  <2>1. /\ thread[c] = "loop" /\ UNCHANGED <<conn, snap, hold, arcs, registry, sessions>>
        /\ \/ thread' = [thread EXCEPT ![c] = "ok"]
           \/ thread' = [thread EXCEPT ![c] = "exit"]
    BY <1>3 DEF Loop
  <2>2. ThreadPlace(c)'
    BY <1>1, <2>1 DEF ThreadPlace, TypeOK
  <2>3. QED BY <1>2, <2>1, <2>2, PlacesOfThread DEF TypeOK
<1>4. CASE ListSessions(c)
  <2>1. /\ thread[c] = "ok" /\ UNCHANGED <<conn, arcs, registry, sessions>>
        /\ thread' = [thread EXCEPT ![c] = "visit"] /\ registry # None
        /\ hold' = [hold EXCEPT ![Thread(c)] = registry]
        /\ snap' = [snap EXCEPT ![c] = sessions[registry]]
    BY <1>4 DEF ListSessions
  <2>2. ThreadPlace(c)'
    BY <1>1, <2>1 DEF ThreadPlace, TypeOK
  <2>3. QED BY <1>2, <2>1, <2>2, PlacesOfThread DEF TypeOK
<1>5. CASE LastLook(c)
  <2>1. /\ thread[c] = "ok" /\ UNCHANGED <<conn, arcs, registry, sessions, snap>>
        /\ thread' = [thread EXCEPT ![c] = IF registry = None THEN "exit" ELSE "decide"]
        /\ hold' = [hold EXCEPT ![Thread(c)] = registry]
    BY <1>5 DEF LastLook
  <2>2. ThreadPlace(c)'
    BY <1>1, <2>1 DEF ThreadPlace, TypeOK
  <2>3. QED BY <1>2, <2>1, <2>2, PlacesOfThread DEF TypeOK
<1>6. ASSUME EndRead(c), thread[c] # "none", UNCHANGED <<conn, arcs, registry, sessions>>
      PROVE  Places'
  <2>1. /\ snap' = [snap EXCEPT ![c] = Empty] /\ hold' = [hold EXCEPT ![Thread(c)] = None]
        /\ thread' = [thread EXCEPT ![c] = "ok"]
    BY <1>6 DEF EndRead
  <2>2. ThreadPlace(c)'
    BY <2>1 DEF ThreadPlace, TypeOK, Empty
  <2>3. QED BY <1>6, <2>1, <2>2, PlacesOfThread DEF TypeOK
<1>7. CASE Visited(c)
  <2>1. thread[c] = "visit" /\ UNCHANGED <<conn, arcs, registry, sessions>>
    BY <1>7 DEF Visited
  <2>2. CASE EndRead(c)
    BY <1>6, <2>1, <2>2
  <2>3. CASE ~EndRead(c)
    <3>1. snap' = [snap EXCEPT ![c] = sessions[hold[Thread(c)]]]
          /\ thread' = [thread EXCEPT ![c] = "reap"] /\ UNCHANGED hold
      BY <1>7, <2>3 DEF Visited
    <3>2. ThreadPlace(c)'
      BY <1>1, <2>1, <3>1 DEF ThreadPlace, TypeOK
    <3>3. QED BY <1>2, <2>1, <3>1, <3>2, PlacesOfThread DEF TypeOK
  <2>4. QED BY <2>2, <2>3
<1>8. CASE Reaped(c)
  BY <1>6, <1>8 DEF Reaped
<1>9. ASSUME NEW t \in Term, VisitSession(c, t) PROVE Places'
  <2>1. /\ thread[c] = "visit" /\ UNCHANGED <<conn, arcs, registry, sessions, thread, hold>>
        /\ snap' = [snap EXCEPT ![c][t] = None]
    BY <1>9 DEF VisitSession
  <2>2. ThreadPlace(c)'
    BY <1>1, <2>1 DEF ThreadPlace
  <2>3. QED BY <1>2, <2>1, <2>2, PlacesOfThread DEF TypeOK
<1>10. ASSUME NEW t \in Term, ReapTerminal(c, t) PROVE Places'
  <2>1. /\ thread[c] = "reap" /\ UNCHANGED <<conn, arcs, registry, thread, hold>>
        /\ \/ sessions' = [sessions EXCEPT ![hold[Thread(c)]][t] = None]
              /\ snap' = [snap EXCEPT ![c][t] = None]
           \/ UNCHANGED <<sessions, snap>>
    BY <1>10 DEF ReapTerminal
  <2>2. ThreadPlace(c)'
    BY <1>1, <2>1 DEF ThreadPlace
  <2>3. Serving(hold[Thread(c)])
    BY <1>1, <1>2, <2>1 DEF ThreadPlace
  <2>4. (\A r \in Conn : sessions'[r] = sessions[r] \/ Serving(r))
        /\ \A d \in Conn \ {c} : snap'[d] = snap[d]
    BY <2>1, <2>3 DEF TypeOK, Serving
  <2>5. QED BY <2>1, <2>2, <2>3, <2>4, PlacesOfThread
<1>11. CASE Decide(c)
  <2>1. /\ thread[c] = "decide" /\ UNCHANGED <<conn, arcs, registry, sessions, snap>>
        /\ \/ thread' = [thread EXCEPT ![c] = "remove"] /\ UNCHANGED hold
           \/ thread' = [thread EXCEPT ![c] = "exit"]
              /\ hold' = [hold EXCEPT ![Thread(c)] = None]
    BY <1>11 DEF Decide
  <2>2. ThreadPlace(c)'
    BY <1>1, <2>1 DEF ThreadPlace, TypeOK
  <2>3. QED BY <1>2, <2>1, <2>2, PlacesOfThread DEF TypeOK
<1>12. CASE ThreadRemoves(c)
  <2>1. /\ thread[c] = "remove" /\ UNCHANGED <<conn, sessions, snap>>
        /\ thread' = [thread EXCEPT ![c] = "removing"]
        /\ registry' \in {registry, None}
        /\ hold' = [hold EXCEPT ![Thread(c)] = hold'[Thread(c)]]
        /\ hold'[Thread(c)] \in {hold[Thread(c)], registry}
        /\ \A a \in Actor \ {Thread(c)} : hold'[a] = hold[a] /\ arcs'[a] = arcs[a]
    BY <1>12 DEF ThreadRemoves, RemoveService, TypeOK
  <2>2. ThreadPlace(c)'
    BY <1>1, <2>1 DEF ThreadPlace, TypeOK
  <2>3. QED BY <1>2, <2>1, <2>2, PlacesOfThread DEF TypeOK
<1>13. CASE ThreadRemoved(c)
  <2>1. /\ thread[c] = "removing" /\ UNCHANGED <<conn, sessions, snap, registry>>
        /\ thread' = [thread EXCEPT ![c] = "exit"]
        /\ hold' = [hold EXCEPT ![Thread(c)] = None]
        /\ arcs' = [arcs EXCEPT ![Thread(c)] = {}]
    BY <1>13 DEF ThreadRemoved, RemoveReturns
  <2>2. ThreadPlace(c)'
    BY <1>1, <2>1 DEF ThreadPlace, TypeOK
  <2>3. QED BY <2>1, <2>2, PlacesOfThread DEF TypeOK
<1>14. CASE Stop(Thread(c))
  <2>1. UNCHANGED <<conn, thread, hold, arcs, snap, sessions, registry>>
    BY <1>14, StopFacts DEF StopDoes, Others
  <2>2. QED BY <2>1 DEF Places, TaskPlace, ThreadPlace, Unborn
<1>15. QED
  BY <1>3, <1>4, <1>5, <1>7, <1>8, <1>9, <1>10, <1>11, <1>12, <1>13, <1>14 DEF ThreadStep

LEMMA PlacesStep == TypeOK /\ Places /\ [Next]_vars => Places'
<1> SUFFICES ASSUME TypeOK, Places, [Next]_vars PROVE Places' OBVIOUS
<1> USE Actors DEF registers, threads, refs
<1>1. ASSUME UNCHANGED <<conn, thread, hold, arcs, snap, sessions, registry>> PROVE Places'
  BY <1>1 DEF Places, TaskPlace, ThreadPlace, Unborn
<1>2. CASE \E c \in Conn : TaskStep(c) \/ ThreadStep(c)
  BY <1>2, TaskPlaces, ThreadPlaces
<1>3. CASE CleanupRemoves \/ CleanupRemoved
  <2>1. /\ UNCHANGED <<conn, thread, snap, sessions>> /\ registry' \in {registry, None}
        /\ \A a \in Actor \ {Cleanup} : hold'[a] = hold[a] /\ arcs'[a] = arcs[a]
        /\ hold'[Cleanup] \in {hold[Cleanup], registry, None}
    BY <1>3 DEF CleanupRemoves, CleanupRemoved, RemoveService, RemoveReturns, TypeOK
  <2> SUFFICES ASSUME NEW d \in Conn PROVE TaskPlace(d)' /\ ThreadPlace(d)' /\ Unborn(d)'
    BY DEF Places
  <2>2. TaskPlace(d) /\ ThreadPlace(d) /\ Unborn(d)
    BY DEF Places
  <2>3. TaskPlace(d)' /\ ThreadPlace(d)'
    BY <2>1, <2>2 DEF TaskPlace, ThreadPlace
  <2>4. Unborn(d)'
    BY <2>1, <2>2 DEF Unborn
  <2>5. QED BY <2>3, <2>4
<1>4. CASE FindInactive \/ Stop(Cleanup)
  BY <1>1, <1>4, StopFacts DEF FindInactive, StopDoes, Others
<1>5. CASE UNCHANGED vars \/ \E q \in Sess : SessionStep(q)
  BY <1>1, <1>5, SessionFacts DEF vars, Others
<1>6. QED BY <1>2, <1>3, <1>4, <1>5 DEF Next, CleanupStep

LEMMA InPlace == Spec => [](TypeOK /\ Places)
<1>1. ASSUME Init PROVE TypeOK
  <2>1. Empty \in [Term -> Sess \cup {None}]
    BY DEF Empty
  <2>2. sessions \in [Conn -> [Term -> Sess \cup {None}]]
        /\ snap \in [Conn -> [Term -> Sess \cup {None}]]
    BY <1>1, <2>1 DEF Init
  <2>3. sess \in [Sess -> SessState]
    <3>1. NoSession \in SessState
      <4>1. NewSession \in SessState
        BY SMT, TerminalAssumption DEF NewSession, SessState
      <4>2. QED BY <4>1 DEF NoSession, SessState
    <3>2. QED BY <1>1, <3>1 DEF Init
  <2>4. used \in 0..MaxSess
    BY SMT, <1>1, TerminalAssumption DEF Init
  <2>5. QED BY <1>1, <2>2, <2>3, <2>4 DEF Init, TypeOK
<1>2. ASSUME Init PROVE Places
  <2> SUFFICES ASSUME NEW c \in Conn PROVE TaskPlace(c) /\ ThreadPlace(c) /\ Unborn(c)
    BY DEF Places
  <2>1. conn[c] = "new" /\ thread[c] = "none" /\ snap[c] = Empty /\ sessions[c] = Empty
        /\ registry = None
    BY <1>2 DEF Init
  <2>2. \A a \in Actor : hold[a] = None /\ arcs[a] = {}
    BY <1>2 DEF Init
  <2>3. QED BY <2>1, <2>2, Actors DEF TaskPlace, ThreadPlace, Unborn
<1>3. QED BY <1>1, <1>2, TypeStep, PlacesStep, PTL DEF Spec

(***************************************************************************)
(* No session is left behind.                                              *)
(***************************************************************************)
(* A step that takes references and gives up none, and stops nobody.       *)
LEMMA KeepsReferences ==
  ASSUME NoLeak, UNCHANGED <<sessions, stopping>>,
         \A q \in Sess : sess'[q].stage = "up" => sess[q].stage = "up",
         registry = None \/ registry' = registry,
         \A a \in Actor : (hold[a] = None \/ hold'[a] = hold[a]) /\ arcs[a] \subseteq arcs'[a],
         \A d \in Conn, t \in Term : snap[d][t] = None \/ snap'[d][t] = snap[d][t]
  PROVE  NoLeak'
<1> SUFFICES ASSUME NEW q \in Sess, q \in Referenced PROVE q \in Referenced'
  BY DEF NoLeak
<1>1. ASSUME NEW s \in Conn, InUse(s), q \in SessionsOf(s) PROVE q \in Referenced'
  <2>1. InUse(s)' /\ q \in SessionsOf(s)'
    BY <1>1, Actors DEF InUse, SessionsOf
  <2>2. QED BY <2>1 DEF Referenced
<1>2. CASE \E a \in Actor : q \in arcs[a]
  BY <1>2 DEF Referenced
<1>3. CASE \E d \in Conn, t \in Term : q = snap[d][t]
  BY SMT, <1>3, Actors DEF Referenced
<1>4. QED BY <1>1, <1>2, <1>3 DEF Referenced

LEMMA DropsLeaveNone ==
  ASSUME TypeOK, NEW a \in Actor, NEW more \in SUBSET Sess, Drops(a, more)
  PROVE  NoLeak'
  BY DropsFacts DEF TypeOK, NoLeak

LEMMA StopLeavesNone ==
  ASSUME TypeOK, NoLeak, NEW a \in Actor, Stop(a)
  PROVE  NoLeak'
<1>1. PICK q \in Sess : StopDoes(a, q)
  BY StopFacts
<1>2. /\ \A r \in Sess : sess'[r].stage = "up" => sess[r].stage = "up" /\ r # q
      /\ UNCHANGED <<registry, hold, sessions, arcs, snap>>
      /\ \A b \in Actor : stopping[b] \ {q} \subseteq stopping'[b]
  BY <1>1 DEF StopDoes, Others, TypeOK
<1>3. Referenced' = Referenced
  BY <1>2 DEF Referenced, InUse, SessionsOf
<1>4. QED BY <1>2, <1>3 DEF NoLeak

LEMMA NoLeakStep == TypeOK /\ Places /\ NoLeak /\ [Next]_vars => NoLeak'
<1> SUFFICES ASSUME TypeOK, Places, NoLeak, [Next]_vars PROVE NoLeak' OBVIOUS
<1> USE Actors DEF registers, threads, refs, At, Go, ThreadAt, ThreadGo
<1>1. ASSUME UNCHANGED <<sessions, stopping, sess, registry, hold, arcs, snap>> PROVE NoLeak'
  BY <1>1, KeepsReferences
<1>2. ASSUME NEW c \in Conn, TaskStep(c) PROVE NoLeak'
  <2>1. TaskPlace(c)
    BY DEF Places
  <2>2. CASE EndAction(c)
    BY <2>2, DropsLeaveNone DEF EndAction
  <2>3. CASE InitTerminalService(c)
    BY <2>3, KeepsReferences DEF InitTerminalService, GetOrCreateService
  <2>4. CASE GetService(c)
    <3>1. hold[Task(c)] = None /\ hold' = [hold EXCEPT ![Task(c)] = registry]
          /\ UNCHANGED <<sessions, stopping, sess, registry, arcs, snap>>
      BY <2>1, <2>4 DEF GetService, TaskPlace
    <3>2. \A a \in Actor : hold[a] = None \/ hold'[a] = hold[a]
      BY <3>1 DEF TypeOK
    <3>3. QED BY <3>1, <3>2, KeepsReferences
  <2>5. ASSUME NEW t \in Term, FindSession(c, t), ~EndAction(c) PROVE NoLeak'
    <3>1. /\ arcs[Task(c)] = {} /\ UNCHANGED <<sessions, stopping, sess, registry, hold, snap>>
          /\ \E q : arcs' = [arcs EXCEPT ![Task(c)] = {q}]
      BY <2>1, <2>5 DEF FindSession, TaskPlace
    <3>2. \A a \in Actor : arcs[a] \subseteq arcs'[a]
      BY <3>1 DEF TypeOK
    <3>3. QED BY <3>1, <3>2, KeepsReferences
  <2>6. CASE LockSession(c)
    <3>1. \A q \in Sess : sess'[q].stage = sess[q].stage
      BY SMT, <2>6 DEF LockSession, TypeOK
    <3>2. QED BY <2>6, <3>1, KeepsReferences DEF LockSession
  <2>7. ASSUME NEW t \in Term, HandleClose(c, t), ~EndAction(c) PROVE NoLeak'
    BY <2>7, DropsLeaveNone DEF HandleClose
  <2>8. CASE SetPersistent(c) \/ Leave(c) \/ Joined(c)
    BY <1>1, <2>8 DEF SetPersistent, Leave, Joined
  <2>9. CASE Stop(Task(c))
    BY <2>9, StopLeavesNone
  <2>10. QED
    BY <1>2, <2>2, <2>3, <2>4, <2>5, <2>6, <2>7, <2>8, <2>9
    DEF TaskStep, TaskEnds, HandleOpen, HandleData, SendsLate, Sends, CloseEnds
<1>3. ASSUME NEW c \in Conn, ThreadStep(c) PROVE NoLeak'
  <2>1. ThreadPlace(c)
    BY DEF Places
  <2>2. ASSUME NEW more \in SUBSET Sess, Drops(Thread(c), more) PROVE NoLeak'
    BY <2>2, DropsLeaveNone
  <2>3. CASE Loop(c)
    BY <1>1, <2>3 DEF Loop
  <2>4. ASSUME NEW h \in Conn \cup {None}, NEW S,
               snap[c] = Empty, hold[Thread(c)] = None \/ h = hold[Thread(c)],
               hold' = [hold EXCEPT ![Thread(c)] = h], snap' = [snap EXCEPT ![c] = S],
               UNCHANGED <<sessions, stopping, sess, registry, arcs>>
        PROVE  NoLeak'
    <3>1. \A a \in Actor : hold[a] = None \/ hold'[a] = hold[a]
      BY <2>4 DEF TypeOK
    <3>2. \A d \in Conn, t \in Term : snap[d][t] = None \/ snap'[d][t] = snap[d][t]
      BY <2>4 DEF TypeOK, Empty
    <3>3. QED BY <2>4, <3>1, <3>2, KeepsReferences
  <2>5. CASE ListSessions(c)
    BY <2>1, <2>4, <2>5 DEF ListSessions, ThreadPlace, TypeOK
  <2>6. CASE LastLook(c)
    <3>1. snap' = [snap EXCEPT ![c] = snap[c]]
      BY <2>6 DEF LastLook, TypeOK
    <3>2. QED BY <2>1, <2>4, <2>6, <3>1 DEF LastLook, ThreadPlace, TypeOK
  <2>7. CASE Visited(c) \/ Reaped(c)
    <3>1. CASE EndRead(c)
      BY <2>2, <3>1 DEF EndRead
    <3>2. CASE ~EndRead(c)
      <4>1. hold' = [hold EXCEPT ![Thread(c)] = hold[Thread(c)]]
        BY <2>7, <3>2 DEF Visited, Reaped, TypeOK
      <4>2. QED BY <2>4, <2>7, <3>2, <4>1 DEF Visited, Reaped, TypeOK
    <3>3. QED BY <3>1, <3>2
  <2>8. ASSUME NEW t \in Term, VisitSession(c, t) \/ ReapTerminal(c, t) PROVE NoLeak'
    BY <2>2, <2>8 DEF VisitSession, ReapTerminal
  <2>9. CASE Decide(c)
    BY <1>1, <2>2, <2>9 DEF Decide
  <2>10. CASE ThreadRemoves(c) \/ ThreadRemoved(c)
    <3>1. registry # None => SessionsOf(registry) \in SUBSET Sess
      BY SessionsOfType DEF TypeOK
    <3>2. QED BY <2>2, <2>10, <3>1 DEF ThreadRemoves, ThreadRemoved, RemoveService, RemoveReturns
  <2>11. CASE Stop(Thread(c))
    BY <2>11, StopLeavesNone
  <2>12. QED
    BY <1>3, <2>3, <2>5, <2>6, <2>7, <2>8, <2>9, <2>10, <2>11 DEF ThreadStep
<1>4. CASE CleanupStep
  <2>1. CASE FindInactive
    BY <1>1, <2>1 DEF FindInactive
  <2>2. CASE CleanupRemoves \/ CleanupRemoved
    <3>1. registry # None => SessionsOf(registry) \in SUBSET Sess
      BY SessionsOfType DEF TypeOK
    <3>2. QED
      BY <2>2, <3>1, DropsLeaveNone
      DEF CleanupRemoves, CleanupRemoved, RemoveService, RemoveReturns
  <2>3. CASE Stop(Cleanup)
    BY <2>3, StopLeavesNone
  <2>4. QED BY <1>4, <2>1, <2>2, <2>3 DEF CleanupStep
<1>5. ASSUME NEW q \in Sess, SessionStep(q) PROVE NoLeak'
  BY <1>5, SessionFacts, KeepsReferences DEF Others
<1>6. CASE UNCHANGED vars
  BY <1>1, <1>6 DEF vars
<1>7. QED BY <1>2, <1>3, <1>4, <1>5, <1>6 DEF Next

(* No shell is left running that nothing can close: for any number of      *)
(* connections, terminals and sessions, whoever drops the last reference   *)
(* to a session stops it.                                                  *)
THEOREM NoLeakHolds == Spec => []NoLeak
<1>1. ASSUME Init PROVE NoLeak
  <2>1. \A q \in Sess : sess[q] = NoSession
    BY <1>1 DEF Init
  <2>2. NoSession.stage = "none"
    BY DEF NoSession, NewSession
  <2>3. QED BY <2>1, <2>2 DEF NoLeak
<1>2. QED BY <1>1, InPlace, NoLeakStep, PTL DEF Spec

(***************************************************************************)
(* A session is stopped once.                                              *)
(***************************************************************************)
(* A step that drops references, and may add fresh sessions: what it stops *)
(* nobody is stopping yet, and the registered service's stay up.           *)
LEMMA StopInvDrops ==
  ASSUME TypeOK, StopInv, NEW a \in Actor, NEW more \in SUBSET Sess, Drops(a, more),
         NEW F \in SUBSET Sess, used' \in Nat, used <= used', registry' \in Conn \cup {None},
         \A q \in F : sess[q].stage = "none" /\ sess'[q].stage = "up" /\ q <= used',
         \A q \in Sess \ F : /\ sess'[q].stage = sess[q].stage
                             /\ sess[q].stage = "signalled" => sess'[q].lock = sess[q].lock,
         \A q \in more : sess[q].stage = "up" /\ \A b \in Actor : q \notin stopping[b],
         \A s \in Conn : SessionsOf(s)' \subseteq SessionsOf(s) \cup F,
         registry' = None \/ (registry' = registry /\ more = {})
  PROVE  StopInv'
<1> USE DEF StopInv
<1>1. /\ \A b \in Actor \ {a} : stopping'[b] = stopping[b]
      /\ stopping[a] \subseteq stopping'[a]
      /\ \A q \in Sess : q \in stopping'[a] /\ q \notin stopping[a] =>
           /\ q \in more \/ (sess'[q].stage = "up" /\ q \notin Referenced')
           /\ \A b \in Actor : q \notin stopping[b]
  BY DropsFacts DEF TypeOK
<1>2. \A q \in F, b \in Actor : q \notin stopping[b]
  BY DEF StoppedOnce
<1>3. \A q \in Sess : q > used' => sess'[q].stage = "none"
  <2>1. used \in Nat /\ \A q \in Sess : q \in Nat
    BY SMT DEF TypeOK, Sess
  <2>2. \A q \in F : q \in Nat /\ ~(q > used')
    BY SMT, <2>1
  <2>3. QED BY SMT, <2>1, <2>2
<1>4. \A s \in Conn : \A q \in SessionsOf(s)' : q <= used'
  <2> SUFFICES ASSUME NEW s \in Conn, NEW q \in SessionsOf(s)' PROVE q <= used'
    OBVIOUS
  <2>1. CASE q \in F
    BY <2>1
  <2>2. CASE q \in SessionsOf(s)
    <3>1. q \in Nat /\ used \in Nat /\ q <= used
      BY SMT, <2>2, SessionsOfType DEF TypeOK, Sess
    <3>2. QED BY SMT, <3>1
  <2>3. QED BY <2>1, <2>2
<1>5. ASSUME registry' # None, NEW q \in SessionsOf(registry)'
      PROVE  sess'[q].stage = "up" /\ \A b \in Actor : q \notin stopping'[b]
  <2>1. registry' \in Conn /\ registry' = registry /\ more = {} /\ registry \in Conn
    BY <1>5 DEF TypeOK
  <2>2. q \in Sess
    BY <1>5, <2>1, SessionsOfType DEF TypeOK
  <2>3. q \in Referenced'
    BY <1>5, <2>1, <2>2 DEF Referenced, InUse
  <2>4. q \in SessionsOf(registry) \/ q \in F
    <3>1. PICK s \in Conn : s = registry /\ s = registry'
      BY <2>1
    <3>2. SessionsOf(registry)' = SessionsOf(s)' /\ SessionsOf(registry) = SessionsOf(s)
      BY SMT, <3>1 DEF SessionsOf
    <3>3. QED BY <1>5, <3>2
  <2>5. sess'[q].stage = "up" /\ \A b \in Actor : q \notin stopping[b]
    <3>1. CASE q \in F
      BY <1>2, <3>1
    <3>2. CASE q \in SessionsOf(registry) /\ q \notin F
      BY <1>5, <2>1, <2>2, <3>2
    <3>3. QED BY <2>4, <3>1, <3>2
  <2>6. QED BY <1>1, <2>1, <2>2, <2>3, <2>5
<1>6. StoppedOnce'
  <2> SUFFICES ASSUME NEW q \in Sess
               PROVE /\ \A b, d \in Actor : q \in stopping'[b] /\ q \in stopping'[d] => b = d
                     /\ \A b \in Actor : q \in stopping'[b] => sess'[q].stage \in {"up", "signalled"}
                     /\ sess'[q].stage = "signalled"
                          => sess'[q].lock # None /\ q \in stopping'[sess'[q].lock]
    BY DEF StoppedOnce
  <2>1. /\ \A b, d \in Actor : q \in stopping[b] /\ q \in stopping[d] => b = d
        /\ \A b \in Actor : q \in stopping[b] => sess[q].stage \in {"up", "signalled"}
        /\ sess[q].stage = "signalled" => sess[q].lock # None /\ q \in stopping[sess[q].lock]
    BY DEF StoppedOnce
  <2>2. \A b, d \in Actor : q \in stopping'[b] /\ q \in stopping'[d] => b = d
    BY SMT, <1>1, <2>1
  <2>3. \A b \in Actor : q \in stopping'[b] => sess'[q].stage \in {"up", "signalled"}
    BY <1>1, <1>2, <2>1
  <2>4. ASSUME sess'[q].stage = "signalled"
        PROVE  sess'[q].lock # None /\ q \in stopping'[sess'[q].lock]
    <3>1. sess[q].stage = "signalled" /\ sess'[q].lock = sess[q].lock
      BY <2>4
    <3>2. sess[q].lock \in Actor
      BY <2>1, <3>1 DEF TypeOK, SessState
    <3>3. QED BY SMT, <1>1, <2>1, <3>1, <3>2
  <2>5. QED BY <2>2, <2>3, <2>4
<1>7. QED BY <1>3, <1>4, <1>5, <1>6

(* A step that stops nobody.                                               *)
LEMMA StopInvSame ==
  ASSUME TypeOK, StopInv, UNCHANGED <<stopping, used, sessions>>,
         \A q \in Sess : /\ sess'[q].stage = sess[q].stage
                         /\ sess[q].stage = "signalled" => sess'[q].lock = sess[q].lock,
         registry' \in {registry, None} \/ SessionsOf(registry') = {}
  PROVE  StopInv'
<1>1. \A s : SessionsOf(s)' = SessionsOf(s)
  BY DEF SessionsOf
<1>2. StoppedOnce'
  BY DEF StopInv, StoppedOnce
<1>3. registry # None /\ registry' = registry => SessionsOf(registry) \subseteq Sess
  BY SessionsOfType DEF TypeOK
<1>4. QED BY <1>1, <1>2, <1>3 DEF StopInv

LEMMA StopInvStop ==
  ASSUME TypeOK, StopInv, NEW a \in Actor, Stop(a)
  PROVE  StopInv'
<1>1. PICK q \in Sess : StopDoes(a, q)
  BY StopFacts
<1>2. /\ q \in stopping[a] /\ UNCHANGED <<registry, sessions, used>>
      /\ \A r \in Sess \ {q} : sess'[r] = sess[r]
      /\ \A r \in Sess \ {q}, b \in Actor : r \in stopping'[b] <=> r \in stopping[b]
      /\ \A b \in Actor : stopping'[b] \subseteq stopping[b]
      /\ \/ sess'[q].stage = "signalled" /\ sess'[q].lock = a /\ UNCHANGED stopping
         \/ sess'[q].stage = "down" /\ q \notin stopping'[a]
  <2>1. /\ q \in stopping[a] /\ UNCHANGED <<registry, sessions, used>>
        /\ \A r \in Sess \ {q} : sess'[r] = sess[r]
    BY <1>1 DEF StopDoes, Others
  <2>2. CASE sess'[q].stage = "signalled" /\ sess'[q].lock = a /\ UNCHANGED stopping
    BY <2>1, <2>2
  <2>3. CASE sess'[q].stage = "down" /\ stopping' = [stopping EXCEPT ![a] = @ \ {q}]
    <3>1. stopping \in [Actor -> SUBSET Sess]
      BY DEF TypeOK
    <3>2. QED BY <2>1, <2>3, <3>1
  <2>4. QED BY <1>1, <2>2, <2>3 DEF StopDoes
<1>3. \A s : SessionsOf(s)' = SessionsOf(s)
  BY <1>2 DEF SessionsOf
<1>4. registry # None => q \notin SessionsOf(registry) /\ SessionsOf(registry) \subseteq Sess
  BY <1>2, SessionsOfType DEF StopInv, TypeOK
<1>5. sess[q].stage # "none"
  BY <1>2 DEF StopInv, StoppedOnce
<1>6. \A r \in Sess : r > used' => sess'[r].stage = "none"
  BY <1>2, <1>5 DEF StopInv
<1>7. StoppedOnce'
  <2> SUFFICES ASSUME NEW r \in Sess
               PROVE /\ \A b, d \in Actor : r \in stopping'[b] /\ r \in stopping'[d] => b = d
                     /\ \A b \in Actor : r \in stopping'[b] => sess'[r].stage \in {"up", "signalled"}
                     /\ sess'[r].stage = "signalled"
                          => sess'[r].lock # None /\ r \in stopping'[sess'[r].lock]
    BY DEF StoppedOnce
  <2>1. /\ \A b, d \in Actor : r \in stopping[b] /\ r \in stopping[d] => b = d
        /\ \A b \in Actor : r \in stopping[b] => sess[r].stage \in {"up", "signalled"}
        /\ sess[r].stage = "signalled" => sess[r].lock # None /\ r \in stopping[sess[r].lock]
    BY DEF StopInv, StoppedOnce
  <2>2. CASE r = q
    BY <1>2, <2>1, <2>2, Actors
  <2>3. CASE r # q
    <3>1. sess[r].lock \in Actor \cup {None}
      BY DEF TypeOK, SessState
    <3>2. QED BY <1>2, <2>1, <2>3, <3>1
  <2>4. QED BY <2>2, <2>3
<1>8. QED BY <1>2, <1>3, <1>4, <1>6, <1>7 DEF StopInv

(* A connection that a step of others does not touch.                      *)
LEMMA SendKeeps ==
  ASSUME TypeOK, NEW d \in Conn, SendPlace(d), used' \in Nat, used <= used',
         conn'[d] = conn[d], arcs'[Task(d)] = arcs[Task(d)],
         stopping'[Task(d)] = stopping[Task(d)],
         \A q \in Sess : conn[d] = "sending" /\ q <= used /\ sess[q].lock = Task(d)
                           => sess'[q].lock = sess[q].lock
  PROVE  SendPlace(d)'
<1>1. ASSUME NEW q \in Sess, arcs[Task(d)] = {q}, q <= used PROVE q <= used'
  BY SMT, <1>1 DEF TypeOK, Sess
<1>2. QED BY <1>1 DEF SendPlace

(* A step that only drops references, or takes terminals out of a service. *)
LEMMA StopInvPlain ==
  ASSUME TypeOK, StopInv, NEW a \in Actor, Drops(a, {}), UNCHANGED <<used, registry>>,
         \A q \in Sess : /\ sess'[q].stage = sess[q].stage
                         /\ sess[q].stage = "signalled" => sess'[q].lock = sess[q].lock,
         \A s \in Conn : SessionsOf(s)' \subseteq SessionsOf(s)
  PROVE  StopInv' /\ \A b \in Actor \ {a} : stopping'[b] = stopping[b]
<1>1. PICK E \in SUBSET Sess : E = {}
  OBVIOUS
<1>2. Drops(a, E) /\ used' \in Nat /\ used <= used' /\ registry' \in Conn \cup {None}
  BY SMT, <1>1 DEF TypeOK
<1>3. \A s \in Conn : SessionsOf(s)' \subseteq SessionsOf(s) \cup E
  BY <1>1
<1>4. /\ \A q \in E : sess[q].stage = "none" /\ sess'[q].stage = "up" /\ q <= used'
      /\ \A q \in E : sess[q].stage = "up" /\ \A b \in Actor : q \notin stopping[b]
      /\ \A q \in Sess \ E : /\ sess'[q].stage = sess[q].stage
                             /\ sess[q].stage = "signalled" => sess'[q].lock = sess[q].lock
  BY <1>1
<1>5. StopInv'
  BY <1>1, <1>2, <1>3, <1>4, StopInvDrops
<1>6. QED BY <1>2, <1>5, DropsFacts DEF TypeOK

LEMMA TaskStops ==
  ASSUME TypeOK, Places, StopInv, SendInv, NEW c \in Conn, TaskStep(c)
  PROVE  StopInv' /\ SendInv'
<1> USE Actors DEF registers, threads, refs, At, Go
<1>1. TaskPlace(c) /\ SendPlace(c) /\ Unborn(c) /\ used \in Nat
  BY SMT DEF Places, SendInv, TypeOK
<1>2. ASSUME used' \in Nat, used <= used', SendPlace(c)',
             \A d \in Conn \ {c} : conn'[d] = conn[d] /\ arcs'[Task(d)] = arcs[Task(d)]
                                   /\ stopping'[Task(d)] = stopping[Task(d)],
             \A q \in Sess : q <= used /\ sess[q].lock # None /\ sess[q].lock # Task(c)
                               => sess'[q].lock = sess[q].lock
      PROVE  SendInv'
  <2> SUFFICES ASSUME NEW d \in Conn \ {c} PROVE SendPlace(d)'
    BY <1>2 DEF SendInv
  <2>1. QED BY SMT, <1>2, SendKeeps DEF SendInv
<1>3. CASE UNCHANGED <<stopping, used, sessions, sess, registry>>
           /\ (InitTerminalService(c) \/ SetPersistent(c) \/ GetService(c) \/ Leave(c) \/ Joined(c))
  <2>1. /\ UNCHANGED arcs /\ conn'[c] \notin {"send", "sending"}
        /\ \A d \in Conn \ {c} : conn'[d] = conn[d]
    BY <1>3 DEF InitTerminalService, SetPersistent, GetService, Leave, Joined, TypeOK
  <2>2. SendPlace(c)'
    BY <2>1 DEF SendPlace
  <2>3. SendInv'
    BY SMT, <1>1, <1>2, <1>3, <2>1, <2>2
  <2>4. StopInv'
    BY <1>3, StopInvSame
  <2>5. QED BY <2>3, <2>4
<1>4. CASE InitTerminalService(c) /\ registry' # registry
  <2>1. /\ UNCHANGED <<stopping, used, sessions, sess, arcs>> /\ registry' = c
        /\ conn[c] = "new" /\ conn' = [conn EXCEPT ![c] = "run"]
    BY <1>4 DEF InitTerminalService, GetOrCreateService
  <2>2. SessionsOf(c) = {}
    BY <1>1, <2>1 DEF Unborn, SessionsOf, Empty
  <2>3. StopInv'
    BY <2>1, <2>2, StopInvSame
  <2>4. SendPlace(c)'
    BY <2>1 DEF SendPlace, TypeOK
  <2>5. SendInv'
    BY SMT, <1>1, <1>2, <2>1, <2>4 DEF TypeOK
  <2>6. QED BY <2>3, <2>5
<1>5. ASSUME Drops(Task(c), {}), UNCHANGED <<used, registry>>, conn'[c] \notin {"send", "sending"},
             \A d \in Conn \ {c} : conn'[d] = conn[d] /\ arcs'[Task(d)] = arcs[Task(d)],
             \A q \in Sess : /\ sess'[q].stage = sess[q].stage
                             /\ sess[q].stage = "signalled" => sess'[q].lock = sess[q].lock
                             /\ sess[q].lock # Task(c) => sess'[q].lock = sess[q].lock,
             \A s \in Conn : SessionsOf(s)' \subseteq SessionsOf(s)
      PROVE  StopInv' /\ SendInv'
  <2>1. StopInv' /\ \A b \in Actor \ {Task(c)} : stopping'[b] = stopping[b]
    BY <1>5, StopInvPlain
  <2>2. SendPlace(c)'
    BY <1>5 DEF SendPlace
  <2>3. \A d \in Conn \ {c} : stopping'[Task(d)] = stopping[Task(d)]
    BY <2>1
  <2>4. SendInv'
    BY SMT, <1>1, <1>2, <1>5, <2>2, <2>3
  <2>5. QED BY <2>1, <2>4
<1>6. ASSUME EndAction(c)
      PROVE  /\ Drops(Task(c), {}) /\ conn'[c] \notin {"send", "sending"}
             /\ \A d \in Conn \ {c} : conn'[d] = conn[d] /\ arcs'[Task(d)] = arcs[Task(d)]
  BY <1>6 DEF EndAction, TypeOK
<1>7. CASE EndAction(c) /\ UNCHANGED <<used, registry, sess, sessions>>
  <2>1. \A s \in Conn : SessionsOf(s)' \subseteq SessionsOf(s)
    BY <1>7 DEF SessionsOf
  <2>2. QED BY <1>5, <1>6, <1>7, <2>1
<1>8. ASSUME NEW t \in Term, HandleOpen(c, t), ~UNCHANGED <<used, registry, sess, sessions>>
      PROVE  StopInv' /\ SendInv'
  <2> DEFINE s == hold[Task(c)]
             n == used + 1
  <2>1. /\ conn[c] = "got" /\ UNCHANGED registry /\ EndAction(c)
        /\ used < MaxSess /\ used' = n /\ sess' = [sess EXCEPT ![n] = NewSession]
        /\ sessions' = [sessions EXCEPT ![s][t] = n]
    BY <1>8 DEF HandleOpen
  <2>2. n \in Sess /\ n > used
    BY SMT, <1>1, <2>1, TerminalAssumption DEF Sess
  <2>3. sess[n].stage = "none" /\ sess'[n].stage = "up"
    BY <2>1, <2>2 DEF StopInv, NewSession, TypeOK
  <2>4. \A q \in Sess \ {n} : sess'[q] = sess[q]
    BY <2>1, <2>2 DEF TypeOK
  <2>5. \A r \in Conn : SessionsOf(r)' \subseteq SessionsOf(r) \cup {n}
    BY SMT, <2>1 DEF SessionsOf, TypeOK
  <2>6. /\ Drops(Task(c), {}) /\ used' \in Nat /\ used <= used' /\ n <= used'
        /\ registry' \in Conn \cup {None}
    BY SMT, <1>1, <1>6, <2>1 DEF TypeOK
  <2>7. StopInv'
    <3> HIDE DEF n
    <3>1. PICK F \in SUBSET Sess : F = {n}
      BY <2>2
    <3>2. PICK E \in SUBSET Sess : E = {}
      OBVIOUS
    <3>3. /\ \A q \in F : sess[q].stage = "none" /\ sess'[q].stage = "up" /\ q <= used'
          /\ \A q \in Sess \ F : /\ sess'[q].stage = sess[q].stage
                                 /\ sess[q].stage = "signalled" => sess'[q].lock = sess[q].lock
          /\ \A r \in Conn : SessionsOf(r)' \subseteq SessionsOf(r) \cup F
      BY <2>3, <2>4, <2>5, <2>6, <3>1
    <3>4. /\ \A q \in E : sess[q].stage = "up" /\ \A b \in Actor : q \notin stopping[b]
          /\ Drops(Task(c), E) /\ registry' = registry
      BY <2>1, <2>6, <3>2
    <3>5. QED BY <2>6, <3>2, <3>3, <3>4, StopInvDrops
  <2>8. SendPlace(c)'
    BY <1>6, <2>1 DEF SendPlace
  <2>9. /\ \A d \in Conn \ {c} : stopping'[Task(d)] = stopping[Task(d)]
        /\ \A q \in Sess : q <= used => q # n
    <3>1. \A d \in Conn \ {c} : Task(d) \in Actor /\ Task(d) # Task(c)
      BY Actors
    <3>2. Task(c) \in Actor /\ stopping \in [Actor -> SUBSET Sess] /\ {} \in SUBSET Sess
      BY Actors DEF TypeOK
    <3>3. \A d \in Conn \ {c} : stopping'[Task(d)] = stopping[Task(d)]
      BY <2>6, <3>1, <3>2, DropsFacts
    <3>4. \A q \in Sess : q <= used => q # n
      BY SMT DEF TypeOK, Sess
    <3>5. QED BY <3>3, <3>4
  <2>10. SendInv'
    <3> HIDE DEF n
    <3>1. QED BY <1>2, <1>6, <2>1, <2>4, <2>6, <2>8, <2>9
  <2>11. QED BY <2>7, <2>10
<1>9. ASSUME NEW t \in Term, FindSession(c, t), ~EndAction(c) PROVE StopInv' /\ SendInv'
  <2> DEFINE q == sessions[hold[Task(c)]][t]
  <2>1. /\ UNCHANGED <<stopping, used, sessions, sess, registry>> /\ q # None
        /\ arcs' = [arcs EXCEPT ![Task(c)] = {q}] /\ conn' = [conn EXCEPT ![c] = "send"]
        /\ hold[Task(c)] \in Conn
    BY <1>1, <1>9 DEF FindSession, TaskPlace
  <2>2. q \in Sess /\ q <= used
    BY SMT, <2>1 DEF TypeOK, StopInv, SessionsOf
  <2>3. SendPlace(c)'
    BY <2>1, <2>2 DEF SendPlace, TypeOK
  <2>4. SendInv'
    BY SMT, <1>1, <1>2, <2>1, <2>3 DEF TypeOK
  <2>5. QED BY <2>1, <2>4, StopInvSame
<1>10. CASE LockSession(c)
  <2>1. PICK q \in arcs[Task(c)] : Free(q) /\ sess' = [sess EXCEPT ![q].lock = Task(c)]
    BY <1>10 DEF LockSession
  <2>2. /\ UNCHANGED <<stopping, used, sessions, registry, arcs>> /\ conn[c] = "send"
        /\ stopping[Task(c)] = {} /\ conn' = [conn EXCEPT ![c] = "sending"]
    BY <1>10 DEF LockSession
  <2>3. q \in Sess /\ arcs[Task(c)] = {q} /\ q <= used
    BY <1>1, <2>1, <2>2 DEF SendPlace
  <2>4. /\ \A r \in Sess : sess'[r].stage = sess[r].stage /\ (r # q => sess'[r] = sess[r])
        /\ sess'[q].lock = Task(c) /\ sess[q].lock = None
    BY SMT, <2>1, <2>3 DEF TypeOK, Free
  <2>5. sess[q].stage # "signalled"
    BY <2>3, <2>4 DEF StopInv, StoppedOnce
  <2>6. StopInv'
    BY <2>2, <2>4, <2>5, StopInvSame
  <2>7. SendPlace(c)'
    BY <2>2, <2>3, <2>4 DEF SendPlace, TypeOK
  <2>8. \A d \in Conn \ {c} : conn'[d] = conn[d]
    BY <2>2 DEF TypeOK
  <2>9. \A r \in Sess : sess[r].lock # None => sess'[r].lock = sess[r].lock
    BY <2>4
  <2>10. used' \in Nat /\ used <= used'
    BY SMT, <1>1, <2>2
  <2>11. SendInv'
    BY <1>2, <2>2, <2>7, <2>8, <2>9, <2>10
  <2>12. QED BY <2>6, <2>11
<1>11. CASE HandleData(c) \/ SendsLate(c)
  <2>1. PICK q \in arcs[Task(c)] : Sends(c, q) /\ (Free(q) \/ conn[c] = "sending")
    BY <1>11 DEF HandleData, SendsLate
  <2>2. UNCHANGED <<used, sessions, registry>> /\ EndAction(c)
    BY <2>1 DEF Sends
  <2>3. q \in Sess /\ sess[q].lock \in {None, Task(c)} /\ stopping[Task(c)] = {}
    <3>1. conn[c] \in {"send", "sending"} /\ stopping[Task(c)] = {}
      BY <1>11 DEF HandleData, SendsLate
    <3>2. QED BY <1>1, <2>1, <3>1 DEF SendPlace, Free
  <2>4. sess[q].stage # "signalled"
    BY <2>3 DEF StopInv, StoppedOnce
  <2>5. /\ \A r \in Sess : sess'[r].stage = sess[r].stage /\ (r # q => sess'[r] = sess[r])
        /\ sess'[q].lock = None
    BY <2>1, <2>3, SendsFacts
  <2>6. \A s \in Conn : SessionsOf(s)' \subseteq SessionsOf(s)
    BY <2>2 DEF SessionsOf
  <2>7. QED BY <1>5, <1>6, <2>2, <2>3, <2>4, <2>5, <2>6
<1>12. ASSUME NEW t \in Term, HandleClose(c, t), ~EndAction(c) PROVE StopInv' /\ SendInv'
  <2>1. /\ UNCHANGED <<used, registry, sess, arcs>> /\ Drops(Task(c), {})
        /\ sessions' = [sessions EXCEPT ![hold[Task(c)]][t] = None]
        /\ conn' = [conn EXCEPT ![c] = "closing"]
    BY <1>12 DEF HandleClose
  <2>2. \A s \in Conn : SessionsOf(s)' \subseteq SessionsOf(s)
    BY SMT, <2>1 DEF SessionsOf, TypeOK
  <2>3. conn'[c] \notin {"send", "sending"} /\ \A d \in Conn \ {c} : conn'[d] = conn[d]
    BY <2>1 DEF TypeOK
  <2>4. QED BY <1>5, <2>1, <2>2, <2>3
<1>13. CASE Stop(Task(c))
  <2>1. PICK q \in Sess : StopDoes(Task(c), q)
    BY <1>13, StopFacts
  <2>2. /\ q \in stopping[Task(c)] /\ UNCHANGED <<used, conn, arcs>>
        /\ sess[q].lock \in {None, Task(c)}
        /\ \A r \in Sess \ {q} : sess'[r] = sess[r]
        /\ \A d \in Conn \ {c} : stopping'[Task(d)] = stopping[Task(d)]
    BY <2>1 DEF StopDoes, Others, TypeOK
  <2>3. SendPlace(c)'
    BY <1>1, <2>2 DEF SendPlace
  <2>4. SendInv'
    BY SMT, <1>1, <1>2, <2>2, <2>3
  <2>5. QED BY <1>13, <2>4, StopInvStop
<1>14. QED
  <2>1. CASE InitTerminalService(c)
    BY <1>3, <1>4, <2>1 DEF InitTerminalService
  <2>2. CASE SetPersistent(c) \/ GetService(c) \/ Leave(c) \/ Joined(c)
    BY <1>3, <2>2 DEF SetPersistent, GetService, Leave, Joined
  <2>3. CASE \E t \in Term : HandleOpen(c, t)
    BY <1>7, <1>8, <2>3 DEF HandleOpen
  <2>4. CASE \E t \in Term : FindSession(c, t)
    BY <1>7, <1>9, <2>4 DEF FindSession
  <2>5. CASE \E t \in Term : HandleClose(c, t)
    <3>1. PICK t \in Term : HandleClose(c, t)
      BY <2>5
    <3>2. EndAction(c) => UNCHANGED <<used, registry, sess, sessions>>
      <4>1. ASSUME EndAction(c), Go(c, "closing") PROVE FALSE
        BY <4>1 DEF EndAction, TypeOK
      <4>2. QED BY <3>1, <4>1 DEF HandleClose
    <3>3. QED BY <1>7, <1>12, <3>1, <3>2
  <2>6. CASE CloseEnds(c)
    BY <1>7, <2>6 DEF CloseEnds
  <2>7. QED
    BY <1>10, <1>11, <1>13, <2>1, <2>2, <2>3, <2>4, <2>5, <2>6 DEF TaskStep, TaskEnds

(* A step of a thread of a service, of the cleanup task or of a reader.    *)
LEMMA SendOthers ==
  ASSUME TypeOK, SendInv, UNCHANGED <<conn, used>>,
         \A d \in Conn : /\ arcs'[Task(d)] = arcs[Task(d)]
                         /\ stopping'[Task(d)] = stopping[Task(d)]
                         /\ \A q \in Sess : sess[q].lock = Task(d) => sess'[q].lock = sess[q].lock
  PROVE  SendInv'
<1> SUFFICES ASSUME NEW d \in Conn PROVE SendPlace(d)'
  BY DEF SendInv
<1>1. used' \in Nat /\ used <= used' /\ SendPlace(d)
  BY SMT DEF TypeOK, SendInv
<1>2. QED BY <1>1, SendKeeps

NoTask(a) == \A d \in Conn : Task(d) # a

LEMMA OtherStops ==
  ASSUME TypeOK, StopInv, SendInv, NEW a \in Actor, NoTask(a), Stop(a)
  PROVE  StopInv' /\ SendInv'
<1> USE Actors DEF registers, threads, refs
<1>1. PICK q \in Sess : StopDoes(a, q)
  BY StopFacts
<1>2. /\ UNCHANGED <<used, conn, arcs>> /\ sess[q].lock \in {None, a}
      /\ \A r \in Sess \ {q} : sess'[r] = sess[r]
      /\ \A b \in Actor \ {a} : stopping'[b] = stopping[b]
  BY <1>1 DEF StopDoes, Others, TypeOK
<1>3. \A d \in Conn, r \in Sess : sess[r].lock = Task(d) => sess'[r].lock = sess[r].lock
  BY <1>2 DEF NoTask
<1>4. \A d \in Conn : stopping'[Task(d)] = stopping[Task(d)]
  BY <1>2 DEF NoTask
<1>5. QED BY <1>2, <1>3, <1>4, SendOthers, StopInvStop

LEMMA OtherDrops ==
  ASSUME TypeOK, StopInv, SendInv, NEW a \in Actor, NoTask(a), Drops(a, {}),
         UNCHANGED <<used, registry, conn>>,
         \A d \in Conn : arcs'[Task(d)] = arcs[Task(d)],
         \A q \in Sess : sess'[q].stage = sess[q].stage /\ sess'[q].lock = sess[q].lock,
         \A s \in Conn : SessionsOf(s)' \subseteq SessionsOf(s)
  PROVE  StopInv' /\ SendInv'
<1>1. StopInv' /\ \A b \in Actor \ {a} : stopping'[b] = stopping[b]
  BY StopInvPlain
<1>2. \A d \in Conn : stopping'[Task(d)] = stopping[Task(d)]
  BY <1>1, Actors DEF NoTask
<1>3. QED BY <1>1, <1>2, SendOthers

LEMMA RemovalStops ==
  ASSUME TypeOK, StopInv, SendInv, NEW a \in Actor, NoTask(a),
         RemoveService(a) \/ RemoveReturns(a)
  PROVE  StopInv' /\ SendInv'
<1> USE Actors
<1>1. /\ UNCHANGED <<used, conn, sess, sessions>>
      /\ \A s \in Conn : SessionsOf(s)' = SessionsOf(s)
  BY SMT DEF RemoveService, RemoveReturns, SessionsOf
<1>2. \A d \in Conn : arcs'[Task(d)] = arcs[Task(d)]
  BY DEF RemoveService, RemoveReturns, NoTask, TypeOK
<1>3. CASE UNCHANGED registry /\ Drops(a, {})
  BY <1>1, <1>2, <1>3, OtherDrops
<1>4. CASE RemoveService(a) /\ registry # None
  <2>1. /\ registry \in Conn /\ registry' = None /\ Drops(a, SessionsOf(registry))
    BY <1>4 DEF RemoveService, TypeOK
  <2>2. SessionsOf(registry) \in SUBSET Sess
    BY <2>1, SessionsOfType DEF TypeOK
  <2>3. PICK more \in SUBSET Sess : more = SessionsOf(registry)
    BY <2>2
  <2>4. PICK F \in SUBSET Sess : F = {}
    OBVIOUS
  <2>5. /\ \A q \in more : sess[q].stage = "up" /\ \A b \in Actor : q \notin stopping[b]
        /\ Drops(a, more)
    BY <1>4, <2>1, <2>3 DEF StopInv
  <2>6. /\ used' \in Nat /\ used <= used'
        /\ \A q \in F : sess[q].stage = "none" /\ sess'[q].stage = "up" /\ q <= used'
        /\ \A q \in Sess \ F : /\ sess'[q].stage = sess[q].stage
                               /\ sess[q].stage = "signalled" => sess'[q].lock = sess[q].lock
        /\ \A s \in Conn : SessionsOf(s)' \subseteq SessionsOf(s) \cup F
    BY SMT, <1>1, <2>4 DEF TypeOK
  <2>7. StopInv'
    BY <2>1, <2>5, <2>6, StopInvDrops
  <2>8. \A d \in Conn : stopping'[Task(d)] = stopping[Task(d)]
    BY SMT, <2>5, DropsFacts DEF NoTask, TypeOK
  <2>9. QED BY <1>1, <1>2, <2>7, <2>8, SendOthers
<1>5. QED BY <1>3, <1>4 DEF RemoveService, RemoveReturns

LEMMA ThreadStops ==
  ASSUME TypeOK, Places, StopInv, SendInv, NEW c \in Conn, ThreadStep(c)
  PROVE  StopInv' /\ SendInv'
<1> USE Actors DEF registers, threads, refs, ThreadAt, ThreadGo
<1>1. NoTask(Thread(c)) /\ ThreadPlace(c)
  BY DEF NoTask, Places
<1>2. ASSUME UNCHANGED <<stopping, used, sessions, sess, registry, conn, arcs>>
      PROVE  StopInv' /\ SendInv'
  BY <1>2, StopInvSame, SendOthers
<1>3. ASSUME Drops(Thread(c), {}), UNCHANGED <<used, registry, conn, arcs, sess, sessions>>
      PROVE  StopInv' /\ SendInv'
  <2>1. \A s \in Conn : SessionsOf(s)' \subseteq SessionsOf(s)
    BY <1>3 DEF SessionsOf
  <2>2. QED BY <1>1, <1>3, <2>1, OtherDrops
<1>4. CASE Loop(c) \/ ListSessions(c) \/ LastLook(c)
  BY <1>2, <1>4 DEF Loop, ListSessions, LastLook
<1>5. CASE Visited(c) \/ Reaped(c) \/ Decide(c)
  BY <1>2, <1>3, <1>5 DEF Visited, Reaped, Decide, EndRead
<1>6. ASSUME NEW t \in Term, VisitSession(c, t) PROVE StopInv' /\ SendInv'
  <2>1. /\ UNCHANGED <<used, registry, conn, arcs, sessions>> /\ Drops(Thread(c), {})
    BY <1>6 DEF VisitSession
  <2>2. \A q \in Sess : sess'[q].stage = sess[q].stage /\ sess'[q].lock = sess[q].lock
    <3>1. CASE UNCHANGED sess
      BY <3>1
    <3>2. CASE sess' = [sess EXCEPT ![snap[c][t]].told = @ \/ Finished(snap[c][t])]
      BY SMT, <3>2 DEF TypeOK
    <3>3. QED BY <1>6, <3>1, <3>2 DEF VisitSession
  <2>3. \A s \in Conn : SessionsOf(s)' \subseteq SessionsOf(s)
    BY <2>1 DEF SessionsOf
  <2>4. QED BY <1>1, <2>1, <2>2, <2>3, OtherDrops
<1>7. ASSUME NEW t \in Term, ReapTerminal(c, t) PROVE StopInv' /\ SendInv'
  <2>1. /\ UNCHANGED <<used, registry, conn, arcs, sess>> /\ Drops(Thread(c), {})
        /\ \/ UNCHANGED sessions
           \/ sessions' = [sessions EXCEPT ![hold[Thread(c)]][t] = None]
    BY <1>7 DEF ReapTerminal
  <2>2. \A s \in Conn, u \in Term : sessions'[s][u] \in {sessions[s][u], None}
    <3>1. CASE UNCHANGED sessions
      BY <3>1
    <3>2. CASE sessions' = [sessions EXCEPT ![hold[Thread(c)]][t] = None]
      BY <3>2 DEF TypeOK
    <3>3. QED BY <2>1, <3>1, <3>2
  <2>3. \A s \in Conn : SessionsOf(s)' \subseteq SessionsOf(s)
    BY <2>2 DEF SessionsOf
  <2>4. QED BY <1>1, <2>1, <2>3, OtherDrops
<1>8. CASE ThreadRemoves(c) \/ ThreadRemoved(c)
  BY <1>1, <1>8, RemovalStops DEF ThreadRemoves, ThreadRemoved
<1>9. CASE Stop(Thread(c))
  BY <1>1, <1>9, OtherStops
<1>10. QED BY <1>4, <1>5, <1>6, <1>7, <1>8, <1>9 DEF ThreadStep

LEMMA StopSendStep ==
  TypeOK /\ Places /\ StopInv /\ SendInv /\ [Next]_vars => StopInv' /\ SendInv'
<1> SUFFICES ASSUME TypeOK, Places, StopInv, SendInv, [Next]_vars PROVE StopInv' /\ SendInv'
  OBVIOUS
<1> USE Actors DEF registers, threads, refs
<1>1. NoTask(Cleanup)
  BY DEF NoTask
<1>2. CASE CleanupStep
  <2>1. CASE FindInactive
    <3>1. UNCHANGED <<stopping, used, sessions, sess, registry, conn, arcs>>
      BY <2>1 DEF FindInactive
    <3>2. QED BY <3>1, StopInvSame, SendOthers
  <2>2. CASE CleanupRemoves \/ CleanupRemoved
    BY <1>1, <2>2, RemovalStops DEF CleanupRemoves, CleanupRemoved
  <2>3. CASE Stop(Cleanup)
    BY <1>1, <2>3, OtherStops
  <2>4. QED BY <1>2, <2>1, <2>2, <2>3 DEF CleanupStep
<1>3. ASSUME NEW q \in Sess, SessionStep(q) PROVE StopInv' /\ SendInv'
  <2>1. /\ UNCHANGED <<stopping, used, sessions, registry, conn, arcs>>
        /\ \A r \in Sess : sess'[r].stage = sess[r].stage /\ sess'[r].lock = sess[r].lock
    BY <1>3, SessionFacts DEF Others
  <2>2. QED BY <2>1, StopInvSame, SendOthers
<1>4. CASE UNCHANGED vars
  <2>1. UNCHANGED <<stopping, used, sessions, sess, registry, conn, arcs>>
    BY <1>4 DEF vars
  <2>2. QED BY <2>1, StopInvSame, SendOthers
<1>5. QED BY <1>2, <1>3, <1>4, TaskStops, ThreadStops DEF Next

(* stop() runs once for a session: a task that closes it, a thread that    *)
(* reaps it or removes the service, the cleanup task and whoever drops the *)
(* last reference (Drop for TerminalSession) never stop it twice, nor does *)
(* one begin while another waits for its threads.                          *)
THEOREM StoppedOnceHolds == Spec => []StoppedOnce
<1>1. Init => StopInv /\ SendInv
  <2> SUFFICES ASSUME Init PROVE StopInv /\ SendInv
    OBVIOUS
  <2>1. \A s \in Conn : SessionsOf(s) = {}
    BY DEF Init, SessionsOf, Empty
  <2>2. StopInv
    BY <2>1 DEF Init, StopInv, StoppedOnce, NoSession, NewSession
  <2>3. SendInv
    BY DEF Init, SendInv, SendPlace
  <2>4. QED BY <2>2, <2>3
<1>2. StopInv => StoppedOnce
  BY DEF StopInv
<1>3. QED BY <1>1, <1>2, InPlace, StopSendStep, PTL DEF Spec

(***************************************************************************)
(* A persistent service survives.                                          *)
(***************************************************************************)
(* A step that shows no looker anything new: services lose terminals.      *)
LEMMA LookKeeps ==
  ASSUME TypeOK, LookInv, UNCHANGED <<registry, persistent>>,
         \A s \in Conn : SessionsOf(s)' \subseteq SessionsOf(s),
         \A d \in Conn : thread'[d] \in {"decide", "remove"} =>
           /\ thread'[d] = thread[d] /\ hold'[Thread(d)] = hold[Thread(d)]
           /\ turned'[Thread(d)] = turned[Thread(d)],
         clean' = "remove" => clean = "remove" /\ turned'[Cleanup] = turned[Cleanup]
  PROVE  LookInv'
<1>1. ASSUME Kept' PROVE Kept
  <2>1. PICK s \in Conn : s = registry
    BY <1>1 DEF TypeOK, Kept
  <2>2. SessionsOf(registry)' = SessionsOf(s)' /\ SessionsOf(registry) = SessionsOf(s)
    BY <2>1 DEF SessionsOf
  <2>3. QED BY <1>1, <2>1, <2>2 DEF Kept
<1>2. QED BY <1>1 DEF LookInv

(* A step after which the service need not survive, or that is marked for  *)
(* every looker.                                                           *)
LEMMA LookGone ==
  ASSUME ~Kept'
  PROVE  LookInv'
  BY DEF LookInv

LEMMA LookTurns ==
  ASSUME TypeOK, LookInv, Turn, UNCHANGED clean, Kept => UNCHANGED registry,
         \A d \in Conn : thread'[d] \in {"decide", "remove"} =>
           thread'[d] = thread[d] /\ hold'[Thread(d)] = hold[Thread(d)]
  PROVE  LookInv'
<1> SUFFICES ASSUME Kept' PROVE LookInv'
  BY LookGone
<1>1. \A a \in Actor : turned'[a] <=> (turned[a] \/ (~Kept /\ Looked(a)))
  BY DEF Turn
<1>2. CASE Kept
  BY <1>1, <1>2, Actors DEF LookInv
<1>3. CASE ~Kept
  <2>1. \A d \in Conn : thread'[d] \in {"decide", "remove"} => turned'[Thread(d)]
    BY <1>1, <1>3, Actors DEF Looked
  <2>2. clean' = "remove" => turned'[Cleanup]
    BY <1>1, <1>3, Actors DEF Looked
  <2>3. QED BY <2>1, <2>2 DEF LookInv
<1>4. QED BY <1>2, <1>3

LEMMA TaskLooks ==
  ASSUME TypeOK, Places, LookInv, NEW c \in Conn, TaskStep(c)
  PROVE  LookInv' /\ (registry' = None => registry = None)
<1> USE Actors DEF registers, threads, refs, At, Go
<1>1. CASE InitTerminalService(c)
  <2>1. \A d \in Conn : thread'[d] \in {"decide", "remove"} => thread'[d] = thread[d]
    BY <1>1 DEF InitTerminalService, ThreadGo, TypeOK
  <2>2. Turn /\ UNCHANGED <<hold, clean>>
    BY <1>1 DEF InitTerminalService
  <2>3. registry # None => UNCHANGED registry
    BY <1>1 DEF InitTerminalService, GetOrCreateService
  <2>4. Kept => UNCHANGED registry
    BY <2>3 DEF Kept
  <2>5. QED BY <2>1, <2>2, <2>3, <2>4, LookTurns
<1>3. CASE SetPersistent(c)
  <2>1. Turn /\ UNCHANGED <<registry, clean, thread, hold>>
    BY <1>3 DEF SetPersistent
  <2>2. QED BY <2>1, LookTurns
<1>4. ASSUME UNCHANGED <<registry, persistent, thread, turned, clean>>,
             \A d \in Conn : hold'[Thread(d)] = hold[Thread(d)],
             \A s \in Conn : SessionsOf(s)' \subseteq SessionsOf(s)
      PROVE  LookInv' /\ UNCHANGED registry
  BY <1>4, LookKeeps
<1>5. ASSUME UNCHANGED sessions PROVE \A s \in Conn : SessionsOf(s)' \subseteq SessionsOf(s)
  BY <1>5 DEF SessionsOf
<1>6. ASSUME EndAction(c) PROVE \A d \in Conn : hold'[Thread(d)] = hold[Thread(d)]
  BY <1>6 DEF EndAction, TypeOK
<1>7. CASE GetService(c) \/ Leave(c) \/ Joined(c) \/ LockSession(c)
  <2>1. \A d \in Conn : hold'[Thread(d)] = hold[Thread(d)]
    BY SMT, <1>7 DEF GetService, Leave, Joined, LockSession, TypeOK
  <2>2. UNCHANGED <<registry, persistent, thread, turned, clean, sessions>>
    BY <1>7 DEF GetService, Leave, Joined, LockSession
  <2>3. QED BY <1>4, <1>5, <2>1, <2>2
<1>8. CASE HandleData(c) \/ SendsLate(c) \/ CloseEnds(c)
  <2>1. EndAction(c) /\ UNCHANGED <<registry, persistent, thread, turned, clean, sessions>>
    BY <1>8 DEF HandleData, SendsLate, Sends, CloseEnds
  <2>2. QED BY <1>4, <1>5, <1>6, <2>1
<1>9. ASSUME NEW t \in Term, HandleOpen(c, t) PROVE LookInv' /\ UNCHANGED registry
  <2>1. CASE Turn
    <3>1. UNCHANGED <<registry, clean, thread>> /\ EndAction(c)
      BY <1>9 DEF HandleOpen
    <3>2. QED BY <1>6, <2>1, <3>1, LookTurns
  <2>2. CASE UNCHANGED <<sessions, turned>>
    <3>1. EndAction(c) /\ UNCHANGED <<registry, persistent, thread, clean>>
      BY <1>9 DEF HandleOpen
    <3>2. QED BY <1>4, <1>5, <1>6, <2>2, <3>1
  <2>3. QED BY <1>9, <2>1, <2>2 DEF HandleOpen
<1>10. ASSUME NEW t \in Term, FindSession(c, t) PROVE LookInv' /\ UNCHANGED registry
  <2>1. UNCHANGED <<registry, persistent, thread, turned, clean, sessions>>
    BY <1>10 DEF FindSession
  <2>2. EndAction(c) \/ UNCHANGED hold
    BY <1>10 DEF FindSession
  <2>3. QED BY <1>4, <1>5, <1>6, <2>1, <2>2
<1>11. ASSUME NEW t \in Term, HandleClose(c, t) PROVE LookInv' /\ UNCHANGED registry
  <2>1. UNCHANGED <<registry, persistent, thread, turned, clean>>
    BY <1>11 DEF HandleClose
  <2>2. \/ EndAction(c) /\ UNCHANGED sessions
        \/ UNCHANGED hold /\ sessions' = [sessions EXCEPT ![hold[Task(c)]][t] = None]
    BY <1>11 DEF HandleClose
  <2>3. CASE sessions' = [sessions EXCEPT ![hold[Task(c)]][t] = None]
    <3>1. \A s \in Conn, u \in Term : sessions'[s][u] \in {sessions[s][u], None}
      BY <2>3 DEF TypeOK
    <3>2. \A s \in Conn : SessionsOf(s)' \subseteq SessionsOf(s)
      BY <3>1 DEF SessionsOf
    <3>3. QED BY <1>4, <1>6, <2>1, <2>2, <3>2
  <2>4. QED BY <1>4, <1>5, <1>6, <2>1, <2>2, <2>3
<1>12. CASE Stop(Task(c))
  <2>1. UNCHANGED <<registry, persistent, thread, turned, clean, sessions, hold>>
    BY <1>12, StopFacts DEF StopDoes, Others
  <2>2. QED BY <1>4, <1>5, <2>1
<1>13. QED
  BY <1>1, <1>3, <1>7, <1>8, <1>9, <1>10, <1>11, <1>12 DEF TaskStep, TaskEnds

LEMMA ThreadLooks ==
  ASSUME TypeOK, Places, LookInv, NEW c \in Conn, ThreadStep(c)
  PROVE  /\ LookInv'
         /\ registry # None /\ registry' = None =>
              tlock' = Thread(c) /\ (turned[Thread(c)] \/ ~Kept)
<1> USE Actors DEF registers, threads, refs, ThreadAt, ThreadGo
<1>1. ASSUME UNCHANGED <<registry, persistent, clean, sessions>>,
             UNCHANGED turned \/ turned' = [turned EXCEPT ![Thread(c)] = FALSE],
             UNCHANGED thread \/ \E l \in {"ok", "visit", "reap", "exit", "removing"} : ThreadGo(c, l),
             \A d \in Conn \ {c} : hold'[Thread(d)] = hold[Thread(d)],
             UNCHANGED thread => UNCHANGED <<hold, turned>>
      PROVE  LookInv' /\ UNCHANGED registry
  <2>1. \A d \in Conn : thread'[d] \in {"decide", "remove"} =>
          /\ thread'[d] = thread[d] /\ hold'[Thread(d)] = hold[Thread(d)]
          /\ turned'[Thread(d)] = turned[Thread(d)]
    <3>1. CASE UNCHANGED thread
      BY <1>1, <3>1
    <3>2. CASE \E l \in {"ok", "visit", "reap", "exit", "removing"} : ThreadGo(c, l)
      <4>1. thread'[c] \notin {"decide", "remove"} /\ \A d \in Conn \ {c} : thread'[d] = thread[d]
        BY <3>2 DEF TypeOK
      <4>2. \A d \in Conn \ {c} : turned'[Thread(d)] = turned[Thread(d)]
        BY SMT, <1>1 DEF TypeOK
      <4>3. QED BY <1>1, <4>1, <4>2
    <3>3. QED BY <1>1, <3>1, <3>2
  <2>2. turned'[Cleanup] = turned[Cleanup]
    BY <1>1 DEF TypeOK
  <2>3. \A s \in Conn : SessionsOf(s)' \subseteq SessionsOf(s)
    BY <1>1 DEF SessionsOf
  <2>4. QED BY <1>1, <2>1, <2>2, <2>3, LookKeeps
<1>2. CASE Loop(c)
  BY <1>1, <1>2 DEF Loop
<1>3. CASE ListSessions(c)
  <2>1. \A d \in Conn \ {c} : hold'[Thread(d)] = hold[Thread(d)]
    BY <1>3 DEF ListSessions, TypeOK
  <2>2. thread' # thread
    BY <1>3 DEF ListSessions, TypeOK
  <2>3. QED BY <1>1, <1>3, <2>1, <2>2 DEF ListSessions
<1>4. ASSUME EndRead(c) PROVE \A d \in Conn \ {c} : hold'[Thread(d)] = hold[Thread(d)]
  BY <1>4 DEF EndRead, TypeOK
<1>5. CASE Visited(c) \/ Reaped(c)
  <2>1. /\ UNCHANGED <<registry, persistent, clean, sessions, turned>>
        /\ thread[c] \in {"visit", "reap"}
        /\ \/ EndRead(c)
           \/ thread[c] = "visit" /\ ThreadGo(c, "reap") /\ UNCHANGED hold
    BY <1>5 DEF Visited, Reaped
  <2>2. thread' # thread
    BY <2>1 DEF EndRead, TypeOK
  <2>3. ThreadGo(c, "ok") \/ ThreadGo(c, "reap")
    BY <2>1 DEF EndRead
  <2>4. QED BY <1>1, <1>4, <2>1, <2>2, <2>3
<1>6. ASSUME NEW t \in Term, VisitSession(c, t) PROVE LookInv' /\ UNCHANGED registry
  BY <1>1, <1>6 DEF VisitSession
<1>7. ASSUME NEW t \in Term, ReapTerminal(c, t) PROVE LookInv' /\ UNCHANGED registry
  <2>1. /\ UNCHANGED <<registry, persistent, clean, turned, thread, hold>>
        /\ \/ UNCHANGED sessions
           \/ sessions' = [sessions EXCEPT ![hold[Thread(c)]][t] = None]
    BY <1>7 DEF ReapTerminal
  <2>2. \A s \in Conn, u \in Term : sessions'[s][u] \in {sessions[s][u], None}
    <3>1. CASE UNCHANGED sessions
      BY <3>1
    <3>2. CASE sessions' = [sessions EXCEPT ![hold[Thread(c)]][t] = None]
      BY <3>2 DEF TypeOK
    <3>3. QED BY <2>1, <3>1, <3>2
  <2>3. \A s \in Conn : SessionsOf(s)' \subseteq SessionsOf(s)
    BY <2>2 DEF SessionsOf
  <2>4. QED BY <2>1, <2>3, LookKeeps
<1>8. CASE LastLook(c)
  <2>1. /\ UNCHANGED <<registry, persistent, clean, turned, sessions>>
        /\ hold' = [hold EXCEPT ![Thread(c)] = registry]
        /\ thread' = [thread EXCEPT ![c] = IF registry = None THEN "exit" ELSE "decide"]
    BY <1>8 DEF LastLook
  <2>2. /\ \A d \in Conn \ {c} : thread'[d] = thread[d] /\ hold'[Thread(d)] = hold[Thread(d)]
        /\ hold'[Thread(c)] = registry
        /\ thread'[c] = IF registry = None THEN "exit" ELSE "decide"
    BY <2>1 DEF TypeOK
  <2>3. Kept' <=> Kept
    BY <2>1 DEF Kept, SessionsOf
  <2>4. \A d \in Conn : thread'[d] \in {"decide", "remove"} =>
          \/ thread'[d] = "decide" /\ registry = hold'[Thread(d)]
          \/ thread'[d] = thread[d] /\ hold'[Thread(d)] = hold[Thread(d)]
    BY <2>2
  <2>5. QED BY <2>1, <2>3, <2>4 DEF LookInv
<1>9. CASE Decide(c)
  <2>1. CASE ThreadGo(c, "exit")
    <3>1. /\ UNCHANGED <<registry, persistent, clean, sessions>> /\ thread[c] = "decide"
      BY <1>9 DEF Decide
    <3>2. thread' # thread
      BY <2>1, <3>1 DEF TypeOK
    <3>3. UNCHANGED turned \/ turned' = [turned EXCEPT ![Thread(c)] = FALSE]
      BY <1>9 DEF Decide
    <3>4. \A d \in Conn \ {c} : hold'[Thread(d)] = hold[Thread(d)]
      BY SMT, <1>9 DEF Decide, TypeOK
    <3>5. QED BY <1>1, <2>1, <3>1, <3>2, <3>3, <3>4
  <2>2. CASE /\ ShouldRemove(hold[Thread(c)]) /\ ThreadGo(c, "remove") /\ thread[c] = "decide"
             /\ UNCHANGED <<registry, persistent, clean, sessions, hold, turned>>
    <3>1. /\ \A d \in Conn \ {c} : thread'[d] = thread[d]
          /\ thread'[c] = "remove" /\ ~persistent[hold[Thread(c)]]
      BY <2>2 DEF ShouldRemove, TypeOK
    <3>2. Kept' <=> Kept
      BY <2>2 DEF Kept, SessionsOf
    <3>3. Kept => turned[Thread(c)]
      BY <2>2, <3>1 DEF LookInv, Kept
    <3>4. QED BY <2>2, <3>1, <3>2, <3>3 DEF LookInv
  <2>3. QED BY <1>9, <2>1, <2>2 DEF Decide
<1>10. CASE ThreadRemoves(c)
  <2>1. CASE registry = None
    <3>1. registry' = None
      BY <1>10, <2>1 DEF ThreadRemoves, RemoveService
    <3>2. QED BY <2>1, <3>1, LookGone DEF Kept
  <2>2. CASE registry # None
    <3>1. registry' = None /\ tlock' = Thread(c) /\ thread[c] = "remove"
      BY <1>10, <2>2 DEF ThreadRemoves, RemoveService
    <3>2. LookInv'
      BY <3>1, LookGone DEF Kept
    <3>3. QED BY <3>1, <3>2 DEF LookInv
  <2>3. QED BY <2>1, <2>2
<1>11. CASE ThreadRemoved(c)
  <2>1. /\ UNCHANGED <<registry, persistent, clean, sessions>> /\ ThreadGo(c, "exit")
        /\ thread[c] = "removing" /\ turned' = [turned EXCEPT ![Thread(c)] = FALSE]
        /\ hold' = [hold EXCEPT ![Thread(c)] = None]
    BY <1>11 DEF ThreadRemoved, RemoveReturns
  <2>2. thread' # thread /\ \A d \in Conn \ {c} : hold'[Thread(d)] = hold[Thread(d)]
    BY <2>1 DEF TypeOK
  <2>3. QED BY <1>1, <2>1, <2>2
<1>12. CASE Stop(Thread(c))
  <2>1. UNCHANGED <<registry, persistent, thread, turned, clean, sessions, hold>>
    BY <1>12, StopFacts DEF StopDoes, Others
  <2>2. QED BY <1>1, <2>1
<1>13. QED
  BY <1>2, <1>3, <1>5, <1>6, <1>7, <1>8, <1>9, <1>10, <1>11, <1>12 DEF ThreadStep

LEMMA LookStep ==
  ASSUME TypeOK, Places, LookInv, [Next]_vars
  PROVE  /\ LookInv'
         /\ \A a \in Actor :
              (registry # None /\ registry' = None /\ tlock' = a /\ persistent[registry]
                 /\ SessionsOf(registry) # {}) => turned[a]
<1> USE Actors DEF registers, threads, refs
<1>1. ASSUME UNCHANGED <<registry, persistent, thread, turned, clean, sessions, hold>>
      PROVE  LookInv' /\ UNCHANGED registry
  <2>1. \A s \in Conn : SessionsOf(s)' \subseteq SessionsOf(s)
    BY <1>1 DEF SessionsOf
  <2>2. QED BY <1>1, <2>1, LookKeeps
<1>2. CASE FindInactive
  <2>1. /\ UNCHANGED <<registry, persistent, thread, turned, sessions, hold>>
        /\ Inactive(registry)
    BY <1>2 DEF FindInactive
  <2>2. ~Kept'
    BY <2>1 DEF Kept, SessionsOf, Inactive
  <2>3. QED BY <2>1, <2>2, LookGone
<1>3. CASE CleanupRemoves
  <2>1. registry' = None /\ clean = "remove" /\ (registry # None => tlock' = Cleanup)
    BY <1>3 DEF CleanupRemoves, RemoveService
  <2>2. LookInv'
    BY <2>1, LookGone DEF Kept
  <2>3. QED BY <2>1, <2>2 DEF LookInv, Kept
<1>4. CASE CleanupRemoved
  <2>1. /\ UNCHANGED <<registry, persistent, thread, sessions>> /\ clean' = "sleep"
        /\ turned' = [turned EXCEPT ![Cleanup] = FALSE]
        /\ hold' = [hold EXCEPT ![Cleanup] = None]
    BY <1>4 DEF CleanupRemoved, RemoveReturns
  <2>2. \A d \in Conn : hold'[Thread(d)] = hold[Thread(d)] /\ turned'[Thread(d)] = turned[Thread(d)]
    BY <2>1 DEF TypeOK
  <2>3. \A s \in Conn : SessionsOf(s)' \subseteq SessionsOf(s)
    BY <2>1 DEF SessionsOf
  <2>4. QED BY <2>1, <2>2, <2>3, LookKeeps
<1>5. CASE Stop(Cleanup)
  BY <1>1, <1>5, StopFacts DEF StopDoes, Others
<1>6. CASE \E q \in Sess : SessionStep(q)
  BY <1>1, <1>6, SessionFacts DEF Others
<1>7. CASE UNCHANGED vars
  BY <1>1, <1>7 DEF vars
<1>8. CASE \E c \in Conn : TaskStep(c)
  BY <1>8, TaskLooks
<1>9. CASE \E c \in Conn : ThreadStep(c)
  BY <1>9, ThreadLooks DEF Kept
<1>10. QED
  BY <1>2, <1>3, <1>4, <1>5, <1>6, <1>7, <1>8, <1>9 DEF Next, CleanupStep

(* A persistent service that has terminals "survive[s] connection drops":  *)
(* neither the callback at the end of a thread (should_remove in run) nor  *)
(* cleanup_inactive_services removes it, unless it came to be persistent   *)
(* with a terminal after that one's look, before its remove_service.       *)
THEOREM PersistentSurvivesHolds == Spec => PersistentSurvives
<1>1. Init => LookInv
  BY DEF Init, LookInv, Kept
<1>2. TypeOK /\ Places /\ LookInv /\ [Next]_vars => LookInv'
  BY LookStep
<1>3. TypeOK /\ Places /\ LookInv /\ [Next]_vars =>
        [\A a \in Actor :
           (registry # None /\ registry' = None /\ tlock' = a /\ persistent[registry]
              /\ SessionsOf(registry) # {}) => turned[a]]_vars
  BY LookStep
<1>4. QED BY <1>1, <1>2, <1>3, InPlace, PTL DEF Spec, PersistentSurvives
=============================================================================

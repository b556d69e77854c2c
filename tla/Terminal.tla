------------------------------ MODULE Terminal ------------------------------
(***************************************************************************)
(* The persistent terminals of the host (src/server/terminal_service.rs).  *)
(* A client that reconnects names the service it had before: this is one   *)
(* service id and the connections that use it.  The registry, a service    *)
(* and a terminal session are behind one mutex each and are shared by      *)
(* reference counts: what the last reference drops is stopped by whoever   *)
(* drops it.  A step is the use of one lock; the lock is a variable where  *)
(* it is held across a blocking call.  What is read and written is left    *)
(* out, but not how much the shell has yet to read.  The list of other     *)
(* terminals in the answer to the first open is left out.                  *)
(***************************************************************************)
EXTENDS Naturals

CONSTANTS
  Conn,     \* connections, numbered; a service object has the name of its creator
  Term,     \* terminal ids
  MaxSess,  \* bound: terminal sessions ever created
  MaxActs,  \* bound: connections, and their actions and changes of options, in all
  InputSize,\* bound: messages the input channel and its writer hold
  None

Sess == 1..MaxSess
Task(c) == <<"task", c>>       \* the task of a connection
Thread(c) == <<"thread", c>>   \* the thread of its GenericService
Cleanup == <<"cleanup", None>> \* the cleanup task
Actor == ({"task", "thread"} \X Conn) \cup {Cleanup}

ASSUME TerminalAssumption ==
  /\ Conn \subseteq Nat
  /\ None \notin Conn \cup Sess \cup Actor
  /\ MaxSess \in Nat /\ MaxActs \in Nat /\ InputSize \in Nat \ {0}

VARIABLES
  registry,    \* TERMINAL_SERVICES: the service object of the id
  tlock,       \* who holds its mutex across a call
  persistent,  \* is_persistent of a service object
  slock,       \* who holds the mutex of a service object across a call
  sessions,    \* PersistentTerminalService::sessions
  used,        \* number of sessions created
  sess,        \* the TerminalSessions
  conn,        \* where the task of a connection is
  active,      \* `active` of its GenericService
  thread,      \* where the thread of that service is
  pers,        \* is_persistent of the thread's TerminalServiceProxy
  closed,      \* closed_terminals in its read_outputs
  snap,        \* the references read_outputs has to sessions, by id
  hold,        \* the service object an actor has a reference to
  arcs,        \* the sessions it has a reference to
  stopping,    \* the sessions it is stopping
  clean,       \* where the cleanup task is
  turned,      \* turned: got persistent or a terminal since an actor looked
  acts         \* number of connections, and of actions and options they have sent

vars == <<registry, tlock, persistent, slock, sessions, used, sess, conn,
          active, thread, pers, closed, snap, hold, arcs, stopping, clean,
          turned, acts>>
registers == <<registry, tlock, persistent, slock, sessions, used>>
threads   == <<active, thread, pers, closed, snap>>
refs      == <<hold, arcs, stopping>>

(* A TerminalSession: how far stop() is, what ends its threads, whether    *)
(* the reader and the writer run, how many messages there are to write,    *)
(* closed_message_sent, and the mutex.  The child, which stop() hands over *)
(* to the reaper when none did before, is left out.                        *)
NewSession ==
  [stage |-> "up", ends |-> "no", reader |-> TRUE, writer |-> TRUE, input |-> 0,
   told |-> FALSE, lock |-> None]
NoSession == [NewSession EXCEPT !.stage = "none", !.reader = FALSE, !.writer = FALSE]

Empty == [t \in Term |-> None]

Init ==
  /\ registry = None /\ tlock = None
  /\ persistent = [s \in Conn |-> FALSE] /\ slock = [s \in Conn |-> None]
  /\ sessions = [s \in Conn |-> Empty] /\ used = 0
  /\ sess = [q \in Sess |-> NoSession]
  /\ conn = [c \in Conn |-> "new"] /\ active = [c \in Conn |-> TRUE]
  /\ thread = [c \in Conn |-> "none"] /\ pers = [c \in Conn |-> FALSE]
  /\ closed = [c \in Conn |-> {}] /\ snap = [c \in Conn |-> Empty]
  /\ hold = [a \in Actor |-> None] /\ arcs = [a \in Actor |-> {}]
  /\ stopping = [a \in Actor |-> {}] /\ clean = "sleep"
  /\ turned = [a \in Actor |-> FALSE]
  /\ acts = 0

SessionsOf(s) == {sessions[s][t] : t \in Term} \ {None}
At(c, l) == conn[c] = l /\ stopping[Task(c)] = {}
Go(c, l) == conn' = [conn EXCEPT ![c] = l]
ThreadAt(c, l) == thread[c] = l /\ stopping[Thread(c)] = {}
ThreadGo(c, l) == thread' = [thread EXCEPT ![c] = l]
Free(q) == sess[q].lock = None

(* Reference counts: a session lives as long as a service that lives has   *)
(* it or an actor has a reference to it.                                   *)
InUse(s) == s = registry \/ \E a \in Actor : hold[a] = s
Referenced ==
  {q \in Sess : \/ \E s \in Conn : InUse(s) /\ q \in SessionsOf(s)
               \/ \E a \in Actor : q \in arcs[a]
               \/ \E d \in Conn, t \in Term : q = snap[d][t]}

(* mutant: a session without references keeps running *)
ForgetLast(a, more) == stopping' = [stopping EXCEPT ![a] = @ \cup more]

(* The actor stops `more` and, as Drop of TerminalSession, what this step  *)
(* leaves without references.                                              *)
Drops(a, more) ==
  stopping' = [stopping EXCEPT ![a] =
    @ \cup more \cup {q \in Sess : /\ sess'[q].stage = "up" /\ q \notin Referenced'
                                 /\ \A b \in Actor : q \notin stopping[b]}]

(***************************************************************************)
(* TerminalSession::stop: signal the threads, wait for them, hand the      *)
(* shell over to the reaper.                                               *)
(***************************************************************************)
(* A send on the input channel waits for room while the writer runs.       *)
Room(q) == sess[q].writer => sess[q].input < InputSize

(* mutant: the helper is terminated after its threads are joined *)
HelperLater(helper) == IF helper THEN "helper" ELSE "newline"

(* A helper is terminated before the join, and that ends both threads.     *)
(* Dropping the pty does not: its reader ends with what the final newline  *)
(* gives it to read, its writer when the channel is empty.                 *)
EndsThreads(helper) == IF helper THEN "now" ELSE "newline"

(* What follows the send of the final newline.  Whether there is a helper  *)
(* was settled when the terminal was opened; nothing has depended on it    *)
(* before, nor does on what the client was told from here.                 *)
Signalled(a, q, helper) ==
  [sess[q] EXCEPT !.stage = "signalled", !.lock = a, !.told = FALSE,
                  !.ends = IF sess[q].writer THEN EndsThreads(helper) ELSE "now",
                  !.input = IF sess[q].writer /\ ~helper THEN @ + 1 ELSE 0]

(* The session is locked and the final newline sent, if there is room.     *)
StopSignal(a, q) ==
  /\ q \in stopping[a] /\ sess[q].stage = "up" /\ Free(q)
  /\ \A r \in stopping[a] : sess[r].stage = "up"
  /\ \/ Room(q) /\ \E h \in BOOLEAN : sess' = [sess EXCEPT ![q] = Signalled(a, q, h)]
     \/ ~Room(q) /\ sess' = [sess EXCEPT ![q].stage = "signalled", ![q].lock = a]
  /\ UNCHANGED <<registers, acts, conn, threads, refs, clean, turned>>

(* The send that had to wait.                                              *)
StopSend(a, q) ==
  /\ q \in stopping[a] /\ sess[q].stage = "signalled" /\ sess[q].lock = a
  /\ sess[q].ends = "no" /\ Room(q)
  /\ \E h \in BOOLEAN : sess' = [sess EXCEPT ![q] = Signalled(a, q, h)]
  /\ UNCHANGED <<registers, acts, conn, threads, refs, clean, turned>>

(* Both threads are joined.  The rest of the session is of no use then.    *)
StopJoin(a, q) ==
  /\ q \in stopping[a] /\ sess[q].stage = "signalled" /\ sess[q].lock = a
  /\ sess[q].ends # "no" /\ ~sess[q].reader /\ ~sess[q].writer
  /\ sess' = [sess EXCEPT ![q].stage = "down", ![q].lock = None, ![q].ends = "no"]
  /\ stopping' = [stopping EXCEPT ![a] = @ \ {q}]
  /\ UNCHANGED <<registers, acts, conn, threads, hold, arcs, clean, turned>>

(* The reader may fail at any time: the shell's end is an error or end of  *)
(* file on some systems.                                                   *)
ReadFails(q) ==
  /\ sess[q].reader
  /\ sess' = [sess EXCEPT ![q].reader = FALSE]
  /\ UNCHANGED <<registers, acts, conn, threads, refs, clean, turned>>

(* The end of the read that stop() brings about.                           *)
ReaderEnds(q) == sess[q].ends = "now" /\ ReadFails(q)

(* The writer writes a message when the shell, or the helper, takes it.    *)
WriterWrites(q) ==
  /\ sess[q].writer /\ sess[q].input > 0
  /\ sess' = [sess EXCEPT ![q].input = @ - 1,
                          ![q].ends = IF @ = "newline" /\ sess[q].input = 1
                                      THEN "now" ELSE @]
  /\ UNCHANGED <<registers, acts, conn, threads, refs, clean, turned>>

(* A write may fail when the shell is gone and the read has failed.        *)
WriteFails(q) ==
  /\ sess[q].writer /\ sess[q].input > 0 /\ ~sess[q].reader
  /\ sess' = [sess EXCEPT ![q].writer = FALSE, ![q].input = 0]
  /\ UNCHANGED <<registers, acts, conn, threads, refs, clean, turned>>

(* The end of the writer that stop() brings about: the channel is closed   *)
(* and empty, or the pipe to the helper is broken.                         *)
WriterEnds(q) ==
  /\ sess[q].writer /\ sess[q].ends = "now"
  /\ sess' = [sess EXCEPT ![q].writer = FALSE]
  /\ UNCHANGED <<registers, acts, conn, threads, refs, clean, turned>>

(***************************************************************************)
(* The connection.                                                         *)
(***************************************************************************)
(* The actors that have looked at the service and are about to remove it.  *)
Looked(a) ==
  \/ a = Cleanup /\ clean = "remove"
  \/ \E c \in Conn : a = Thread(c) /\ thread[c] \in {"decide", "remove"}

(* The registered service is to survive: it is persistent and has a        *)
(* terminal.  An actor has missed it if that came about after it looked.   *)
Kept == registry # None /\ persistent[registry] /\ SessionsOf(registry) # {}
Turn == turned' = [a \in Actor |-> Kept' /\ (turned[a] \/ (~Kept /\ Looked(a)))]

(* get_or_create_service fails when there are too many services of other   *)
(* ids; reset_status takes the persistence of the newcomer.                *)
GetOrCreateService(c) ==
  \/ /\ registry = None
     /\ UNCHANGED <<registry, persistent>>
  \/ \E p \in BOOLEAN :
       LET s == IF registry = None THEN c ELSE registry IN
       /\ slock[s] = None /\ \A q \in SessionsOf(s) : Free(q)
       /\ registry' = s
       /\ persistent' = [persistent EXCEPT ![s] = p]

(* init_terminal_service, whether or not there is a service then.  The     *)
(* connections are numbered in the order they come.                        *)
InitTerminalService(c) ==
  /\ conn[c] = "new" /\ tlock = None
  /\ acts < MaxActs /\ acts' = acts + 1
  /\ \A d \in Conn : conn[d] = "new" => d >= c
  /\ GetOrCreateService(c)
  /\ Go(c, "run") /\ ThreadGo(c, "loop")
  /\ UNCHANGED <<tlock, slock, sessions, used, sess, active, pers, closed, snap, refs, clean>>
  /\ Turn

(* update_terminal_persistence *)
SetPersistent(c) ==
  /\ At(c, "run") /\ tlock = None /\ registry # None /\ slock[registry] = None
  /\ acts < MaxActs /\ acts' = acts + 1
  /\ \E p \in BOOLEAN : persistent' = [persistent EXCEPT ![registry] = p]
  /\ UNCHANGED <<registry, tlock, slock, sessions, used, sess, conn,
                 threads, refs, clean>>
  /\ Turn

Found == registry # None

(* handle_action: the service is looked up, and used in a step of its own. *)
GetService(c) ==
  /\ At(c, "run") /\ tlock = None /\ Found
  /\ acts < MaxActs /\ acts' = acts + 1
  /\ hold' = [hold EXCEPT ![Task(c)] = registry]
  /\ Go(c, "got")
  /\ UNCHANGED <<registers, sess, threads, arcs, stopping, clean, turned>>

(* The end of handle_action drops the reference to the service.            *)
EndAction(c) ==
  /\ hold' = [hold EXCEPT ![Task(c)] = None]
  /\ arcs' = [arcs EXCEPT ![Task(c)] = {}]
  /\ Drops(Task(c), {})
  /\ Go(c, "run")

(* handle_open: attach to the terminal, or start a shell, which may fail.  *)
(* A shell that was spawned when the pty's reader or writer is not to be   *)
(* had belongs to no session: its pty is dropped and it is not killed.     *)
HandleOpen(c, t) ==
  LET s == hold[Task(c)]
      q == sessions[s][t]
  IN /\ At(c, "got") /\ slock[s] = None
     /\ UNCHANGED <<registry, tlock, persistent, slock, acts, threads, clean>>
     /\ \/ /\ q # None /\ Free(q)
           /\ UNCHANGED <<sess, sessions, used, turned>>
        \/ /\ q = None /\ used < MaxSess
           /\ used' = used + 1
           /\ sess' = [sess EXCEPT ![used + 1] = NewSession]
           /\ sessions' = [sessions EXCEPT ![s][t] = used + 1]
           /\ Turn
        \/ /\ q = None
           /\ UNCHANGED <<sess, sessions, used, turned>>
     /\ EndAction(c)

(* handle_data, and handle_resize with a helper: the session is looked up, *)
(* locked, and its lock is held while the input channel is full.           *)
FindSession(c, t) ==
  LET s == hold[Task(c)]
      q == sessions[s][t]
  IN /\ At(c, "got") /\ slock[s] = None
     /\ UNCHANGED <<registers, sess, acts, threads, clean, turned>>
     /\ \/ /\ q # None
           /\ arcs' = [arcs EXCEPT ![Task(c)] = {q}]
           /\ Go(c, "send")
           /\ UNCHANGED <<hold, stopping>>
        \/ /\ q = None
           /\ EndAction(c)

(* The message is sent, unless stop() has taken the channel.               *)
Sends(c, q) ==
  /\ sess[q].stage = "up" => Room(q)
  /\ sess' = [sess EXCEPT ![q].lock = None,
                          ![q].input = IF sess[q].stage = "up" /\ sess[q].writer
                                       THEN @ + 1 ELSE @]
  /\ UNCHANGED <<registers, acts, threads, clean, turned>>
  /\ EndAction(c)

HandleData(c) ==
  /\ At(c, "send")
  /\ \E q \in arcs[Task(c)] : Free(q) /\ Sends(c, q)

(* The send waits, with the session locked, ...                            *)
LockSession(c) ==
  /\ At(c, "send")
  /\ \E q \in arcs[Task(c)] :
       /\ Free(q) /\ sess[q].stage = "up" /\ ~Room(q)
       /\ sess' = [sess EXCEPT ![q].lock = Task(c)]
  /\ Go(c, "sending")
  /\ UNCHANGED <<registers, acts, threads, refs, clean, turned>>

(* ... until there is room.                                                *)
SendsLate(c) ==
  /\ At(c, "sending")
  /\ \E q \in arcs[Task(c)] : Sends(c, q)

(* handle_close: the session is stopped, with the service locked, unless   *)
(* another thread still has a reference to it.                             *)
HandleClose(c, t) ==
  LET s == hold[Task(c)]
      q == sessions[s][t]
  IN /\ At(c, "got") /\ slock[s] = None
     /\ UNCHANGED <<registry, tlock, persistent, used, acts, threads, clean, turned>>
     /\ \/ /\ q # None /\ Free(q)
           /\ sessions' = [sessions EXCEPT ![s][t] = None]
           /\ slock' = [slock EXCEPT ![s] = Task(c)]
           /\ UNCHANGED <<sess, hold, arcs>>
           /\ Drops(Task(c), {})
           /\ Go(c, "closing")
        \/ /\ q = None
           /\ UNCHANGED <<sessions, sess, slock>>
           /\ EndAction(c)

CloseEnds(c) ==
  /\ At(c, "closing")
  /\ UNCHANGED <<registry, tlock, persistent, sessions, used, sess, acts, threads,
                 clean, turned>>
  /\ slock' = [slock EXCEPT ![hold[Task(c)]] = None]
  /\ EndAction(c)

(* Drop of Connection joins the thread of the service.                     *)
Leave(c) ==
  /\ At(c, "run")
  /\ active' = [active EXCEPT ![c] = FALSE]
  /\ Go(c, "join")
  /\ UNCHANGED <<registers, sess, acts, thread, pers, closed, snap, refs, clean, turned>>

Joined(c) ==
  /\ conn[c] = "join" /\ thread[c] = "exit"
  /\ Go(c, "closed")
  /\ UNCHANGED <<registers, sess, acts, threads, refs, clean, turned>>

(***************************************************************************)
(* The thread of the service: GenericService::run around run().            *)
(***************************************************************************)
Loop(c) ==
  /\ ThreadAt(c, "loop")
  /\ ThreadGo(c, IF active[c] THEN "ok" ELSE "exit")
  /\ UNCHANGED <<registers, sess, acts, conn, active, pers, closed, snap, refs,
                 clean, turned>>

(* TerminalServiceProxy::new, and read_outputs: references to all          *)
(* sessions, ...                                                           *)
ListSessions(c) ==
  /\ ThreadAt(c, "ok") /\ active[c] /\ tlock = None
  /\ registry # None /\ slock[registry] = None
  /\ pers' = [pers EXCEPT ![c] = persistent[registry]]
  /\ hold' = [hold EXCEPT ![Thread(c)] = registry]
  /\ snap' = [snap EXCEPT ![c] = sessions[registry]]
  /\ ThreadGo(c, "visit")
  /\ UNCHANGED <<registers, sess, acts, conn, active, closed, arcs, stopping,
                 clean, turned>>

(* The reader has ended and the client is not told.                        *)
Finished(q) == sess[q].stage # "down" /\ ~sess[q].told /\ ~sess[q].reader

(* ... a look at each one whose mutex is free, ...                         *)
VisitSession(c, t) ==
  LET q == snap[c][t] IN
  /\ ThreadAt(c, "visit") /\ q # None
  /\ UNCHANGED <<registers, acts, conn, active, thread, pers, hold, arcs, clean, turned>>
  /\ \/ /\ Free(q)
        /\ closed' = [closed EXCEPT ![c] = IF Finished(q) THEN @ \cup {t} ELSE @]
        /\ sess' = [sess EXCEPT ![q].told = @ \/ Finished(q)]
     \/ /\ ~Free(q)
        /\ UNCHANGED <<closed, sess>>
  /\ snap' = [snap EXCEPT ![c][t] = None]
  /\ Drops(Thread(c), {})

(* The end of read_outputs drops the references.                           *)
EndRead(c) ==
  /\ snap' = [snap EXCEPT ![c] = Empty]
  /\ hold' = [hold EXCEPT ![Thread(c)] = None]
  /\ pers' = [pers EXCEPT ![c] = FALSE]
  /\ Drops(Thread(c), {})
  /\ ThreadGo(c, "ok")

Visited(c) ==
  /\ ThreadAt(c, "visit") /\ snap[c] = Empty
  /\ UNCHANGED <<registers, sess, acts, conn, active, closed, arcs, clean, turned>>
  /\ \/ /\ closed[c] = {}
        /\ EndRead(c)
     \/ /\ closed[c] # {} /\ slock[hold[Thread(c)]] = None
        /\ snap' = [snap EXCEPT ![c] = sessions[hold[Thread(c)]]]
        /\ ThreadGo(c, "reap")
        /\ UNCHANGED <<hold, pers, stopping>>

(* ... and the clean-up of the closed ones: a persistent one stays.        *)
ReapTerminal(c, t) ==
  LET s == hold[Thread(c)] IN
  /\ ThreadAt(c, "reap") /\ t \in closed[c]
  /\ UNCHANGED <<registry, tlock, persistent, slock, used, sess, acts, conn, active,
                 thread, pers, hold, arcs, clean, turned>>
  /\ closed' = [closed EXCEPT ![c] = @ \ {t}]
  /\ \/ /\ snap[c][t] # None /\ ~pers[c] /\ slock[s] = None /\ Free(snap[c][t])
        /\ sessions' = [sessions EXCEPT ![s][t] = None]
        /\ snap' = [snap EXCEPT ![c][t] = None]
     \/ /\ snap[c][t] # None => pers[c] /\ Free(snap[c][t])
        /\ UNCHANGED <<sessions, snap>>
  /\ Drops(Thread(c), {})

Reaped(c) ==
  /\ ThreadAt(c, "reap") /\ closed[c] = {}
  /\ UNCHANGED <<registers, sess, acts, conn, active, closed, arcs, clean, turned>>
  /\ EndRead(c)

(***************************************************************************)
(* Removal of the service, by a thread at its end or by the cleanup task.  *)
(***************************************************************************)
(* The end of run() looks the service up, ...                              *)
LastLook(c) ==
  /\ ThreadAt(c, "ok") /\ ~active[c] /\ tlock = None
  /\ hold' = [hold EXCEPT ![Thread(c)] = registry]
  /\ ThreadGo(c, IF registry = None THEN "exit" ELSE "decide")
  /\ UNCHANGED <<registers, sess, acts, conn, active, pers, closed, snap, arcs,
                 stopping, clean, turned>>

(* mutant: should_remove is not looked at *)
RemoveAnyway(s) == TRUE

ShouldRemove(s) == ~persistent[s]

(* ... and decides.                                                        *)
Decide(c) ==
  LET s == hold[Thread(c)] IN
  /\ ThreadAt(c, "decide") /\ slock[s] = None
  /\ UNCHANGED <<registers, sess, acts, conn, active, pers, closed, snap, arcs, clean>>
  /\ \/ /\ ShouldRemove(s)
        /\ ThreadGo(c, "remove")
        /\ UNCHANGED <<hold, stopping, turned>>
     \/ /\ ~ShouldRemove(s)
        /\ hold' = [hold EXCEPT ![Thread(c)] = None]
        /\ turned' = [turned EXCEPT ![Thread(c)] = FALSE]
        /\ Drops(Thread(c), {})
        /\ ThreadGo(c, "exit")

(* remove_service looks the id up anew.  All sessions are stopped with the *)
(* registry locked.                                                        *)
RemoveService(a) ==
  /\ tlock = None
  /\ UNCHANGED <<persistent, slock, sessions, used, sess, acts, conn, active, pers,
                 closed, snap, turned>>
  /\ \/ /\ registry = None
        /\ UNCHANGED <<registry, tlock, hold, arcs>>
        /\ Drops(a, {})
     \/ /\ registry # None /\ slock[registry] = None
        /\ registry' = None /\ tlock' = a
        /\ hold' = [hold EXCEPT ![a] = registry]
        /\ arcs' = [arcs EXCEPT ![a] = SessionsOf(registry)]
        /\ Drops(a, SessionsOf(registry))

RemoveReturns(a) ==
  /\ tlock' = IF tlock = a THEN None ELSE tlock
  /\ UNCHANGED <<registry, persistent, slock, sessions, used, sess, acts, conn, active,
                 pers, closed, snap>>
  /\ turned' = [turned EXCEPT ![a] = FALSE]
  /\ hold' = [hold EXCEPT ![a] = None]
  /\ arcs' = [arcs EXCEPT ![a] = {}]
  /\ Drops(a, {})

ThreadRemoves(c) ==
  /\ ThreadAt(c, "remove") /\ RemoveService(Thread(c))
  /\ ThreadGo(c, "removing") /\ UNCHANGED clean

ThreadRemoved(c) ==
  /\ ThreadAt(c, "removing") /\ RemoveReturns(Thread(c))
  /\ ThreadGo(c, "exit") /\ UNCHANGED clean

(* mutant: only empty services are looked for *)
OnlyEmpty(s) == persistent[s] /\ SessionsOf(s) = {}

Inactive(s) == ~persistent[s] \/ SessionsOf(s) = {}

(* cleanup_inactive_services.  An hour may have passed since last_activity *)
(* was set, at the start of the last action; no action takes that long.    *)
FindInactive ==
  /\ clean = "sleep" /\ stopping[Cleanup] = {} /\ tlock = None
  /\ \A c \in Conn : conn[c] \in {"new", "run", "join", "closed"}
  /\ registry # None /\ slock[registry] = None
  /\ Inactive(registry)
  /\ clean' = "remove"
  /\ UNCHANGED <<registers, sess, acts, conn, threads, refs, turned>>

CleanupRemoves ==
  /\ clean = "remove" /\ RemoveService(Cleanup)
  /\ clean' = "removing" /\ UNCHANGED thread

CleanupRemoved ==
  /\ clean = "removing" /\ stopping[Cleanup] = {} /\ RemoveReturns(Cleanup)
  /\ clean' = "sleep" /\ UNCHANGED thread

(* The part of its step that an actor is in when it stops a session.       *)
Stop(a) == \E q \in Sess : StopSignal(a, q) \/ StopSend(a, q) \/ StopJoin(a, q)

(* What ends an action of a connection that has begun.                     *)
TaskEnds(c) ==
  \/ \E t \in Term : HandleOpen(c, t) \/ FindSession(c, t) \/ HandleClose(c, t)
  \/ HandleData(c) \/ LockSession(c) \/ SendsLate(c) \/ CloseEnds(c) \/ Joined(c) \/ Stop(Task(c))

TaskStep(c) ==
  \/ InitTerminalService(c) \/ SetPersistent(c) \/ GetService(c) \/ Leave(c)
  \/ TaskEnds(c)

ThreadStep(c) ==
  \/ Loop(c) \/ ListSessions(c) \/ Visited(c)
  \/ \E t \in Term : VisitSession(c, t) \/ ReapTerminal(c, t)
  \/ Reaped(c) \/ LastLook(c) \/ Decide(c) \/ ThreadRemoves(c) \/ ThreadRemoved(c)
  \/ Stop(Thread(c))

(* The reader and the writer of a session.                                 *)
SessionStep(q) ==
  ReadFails(q) \/ ReaderEnds(q) \/ WriterWrites(q) \/ WriteFails(q) \/ WriterEnds(q)

CleanupStep == FindInactive \/ CleanupRemoves \/ CleanupRemoved \/ Stop(Cleanup)

Next ==
  \/ \E c \in Conn : TaskStep(c) \/ ThreadStep(c)
  \/ CleanupStep
  \/ \E q \in Sess : SessionStep(q)

Spec == Init /\ [][Next]_vars

(* Threads run, and a reader or writer ends when stop() has made it end.   *)
(* A connection need not act or leave, nor a shell read or end.            *)
Fairness ==
  /\ \A c \in Conn : WF_vars(TaskEnds(c)) /\ WF_vars(ThreadStep(c))
  /\ WF_vars(CleanupStep)
  /\ \A q \in Sess : WF_vars(ReaderEnds(q) \/ WriterEnds(q))

FairSpec == Spec /\ Fairness

SessState ==
  [stage : {"none", "up", "signalled", "down"}, ends : {"no", "newline", "now"},
   reader : BOOLEAN, writer : BOOLEAN, input : 0..InputSize, told : BOOLEAN,
   lock : Actor \cup {None}]

(* Every variable keeps its type.                                          *)
TypeOK ==
  /\ registry \in Conn \cup {None} /\ tlock \in Actor \cup {None}
  /\ persistent \in [Conn -> BOOLEAN] /\ slock \in [Conn -> Actor \cup {None}]
  /\ sessions \in [Conn -> [Term -> Sess \cup {None}]] /\ used \in 0..MaxSess
  /\ sess \in [Sess -> SessState]
  /\ conn \in [Conn -> {"new", "run", "got", "send", "sending", "closing", "join", "closed"}]
  /\ thread \in [Conn -> {"none", "loop", "ok", "visit", "reap", "decide", "remove", "removing",
                          "exit"}]
  /\ active \in [Conn -> BOOLEAN] /\ pers \in [Conn -> BOOLEAN]
  /\ closed \in [Conn -> SUBSET Term] /\ snap \in [Conn -> [Term -> Sess \cup {None}]]
  /\ hold \in [Actor -> Conn \cup {None}]
  /\ arcs \in [Actor -> SUBSET Sess] /\ stopping \in [Actor -> SUBSET Sess]
  /\ clean \in {"sleep", "remove", "removing"} /\ turned \in [Actor -> BOOLEAN]
  /\ acts \in Nat

(***************************************************************************)
(* Properties.                                                             *)
(***************************************************************************)
(* A terminal session that is up is referenced by the registered service,  *)
(* by one in use or by an actor, or someone is about to stop it: no shell  *)
(* of a session is left running that nothing can close, whichever thread   *)
(* is the last to drop the service or the session (Drop for                *)
(* TerminalSession).                                                       *)
NoLeak ==
  \A q \in Sess : sess[q].stage = "up" =>
    q \in Referenced \/ \E a \in Actor : q \in stopping[a]

(* stop() runs once for a session, whoever calls it: one actor at most is  *)
(* stopping it, and one that waits for its threads holds its mutex.        *)
StoppedOnce ==
  \A q \in Sess :
    /\ \A a, b \in Actor : q \in stopping[a] /\ q \in stopping[b] => a = b
    /\ \A a \in Actor : q \in stopping[a] => sess[q].stage \in {"up", "signalled"}
    /\ sess[q].stage = "signalled" => sess[q].lock # None /\ q \in stopping[sess[q].lock]

(* A persistent service that has terminals is removed only if it came to   *)
(* be so after the one who removes it looked (should_remove in run,        *)
(* cleanup_inactive_services): "survive connection drops" up to that race. *)
PersistentSurvives ==
  [][\A a \in Actor :
       (registry # None /\ registry' = None /\ tlock' = a /\ persistent[registry]
          /\ SessionsOf(registry) # {}) => turned[a]]_vars

(* Someone waits until the shell has read: a send on the full channel, or  *)
(* stop() for the writer of a pty, whose shell is killed only afterwards.  *)
WaitsForShell(q) ==
  /\ sess[q].writer /\ sess[q].lock # None
  /\ \/ sess[q].ends = "no" /\ ~Room(q)
     \/ sess[q].ends = "newline"

(* No shell makes someone wait for ever; what the code cannot ensure.      *)
ShellsRead == \A q \in Sess : []<>~WaitsForShell(q)

(* Drop of Connection returns if the shells read: the join of the thread   *)
(* of its service ends, with the removal of the service and with the stop  *)
(* of its sessions it may wait for.                                        *)
Leaves == ShellsRead => \A c \in Conn : conn[c] = "join" ~> conn[c] = "closed"

Deserted ==
  /\ \A c \in Conn : conn[c] = "closed"
  /\ registry # None => ~persistent[registry]

(* When the connections are gone and the service is not persistent, every  *)
(* session is stopped and its shell handed over, if the shells read: a     *)
(* thread that exits without having run its callback leaves the service to *)
(* the cleanup task.                                                       *)
AllStopped ==
  ShellsRead => (Deserted ~> \A q \in Sess : sess[q].stage \in {"none", "down"})

=============================================================================

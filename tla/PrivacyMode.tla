---------------------------- MODULE PrivacyMode ----------------------------
(***************************************************************************)
(* Privacy mode (src/privacy_mode.rs, its implementations under            *)
(* src/privacy_mode/ and the handlers of src/server/connection.rs): one    *)
(* connection at a time may blank the screen of the host and block its     *)
(* local input.  The mode is behind one mutex, so an action is one         *)
(* acquisition of it; around it run the tasks of the connections, threads  *)
(* that turn a slow implementation on, the thread of the input hook, and   *)
(* the local user.                                                         *)
(***************************************************************************)
EXTENDS Naturals, FiniteSets

CONSTANTS
  Conn,     \* connection ids
  Impl,     \* supported implementations
  Virtual,  \* those that use a virtual display, the others show a window
  Mag,      \* the one whose capturer is tested after it is turned on
  Amyuni,   \* the virtual display driver is slow: turned on by a thread
  MaxLate   \* bound: threads a connection has stopped waiting for

None == "none"  \* INVALID_PRIVACY_MODE_CONN_ID, no hook thread, no thread

ASSUME PrivacyModeAssumption ==
  /\ None \notin Conn
  /\ Virtual \subseteq Impl
  /\ Mag \subseteq Impl \ Virtual
  /\ Amyuni \in BOOLEAN
  /\ MaxLate \in Nat

VARIABLES
  mode,     \* PRIVACY_MODE and what it has done to the machine
  conn,     \* a connection's life
  task,     \* where its task is in turn_on_privacy
  want,     \* the implementation it has asked for
  thread,   \* its thread in turn_on_privacy_async: working, or the result
  late,     \* implementations of its threads it no longer waits for
  notice,   \* an OffByPeer for it is on its way through the cm process
  told,     \* the last thing its client was told: the mode is on
  unaware,  \* history: its mode was ended behind its back
  lateOn    \* history: the mode was turned on by a thread of `late`

vars == <<mode, conn, task, want, thread, late, notice, told, unaware, lateOn>>

(* The mode: the implementation, pre_conn_id(), the privacy window, the    *)
(* physical displays, CUR_HOOK_THREAD_ID; then as history whether an       *)
(* unhook has failed.                                                      *)
Mode(impl, owner, window, disabled, hook, broken) ==
  [impl |-> impl, owner |-> owner, window |-> window, disabled |-> disabled,
   hook |-> hook, broken |-> broken]

ModeType == [impl : Impl, owner : Conn \cup {None}, window : BOOLEAN,
             disabled : BOOLEAN, hook : {None, "on", "exiting"},
             broken : BOOLEAN]

TypeOK ==
  /\ mode \in ModeType
  /\ conn \in [Conn -> {"new", "open", "closing", "closed", "count", "reset", "gone"}]
  /\ task \in [Conn -> {"idle", "sync", "await", "check", "undo", "failed",
                        "force"}]
  /\ want \in [Conn -> Impl \cup {None}]
  /\ thread \in [Conn -> {None, "work", "true", "false", "err"}]
  /\ late \in [Conn -> SUBSET Impl]
  /\ notice \in [Conn -> BOOLEAN]
  /\ told \in [Conn -> BOOLEAN]
  /\ unaware \in [Conn -> BOOLEAN]
  /\ lateOn \in BOOLEAN

Init ==
  /\ \E k \in Impl : mode = Mode(k, None, FALSE, FALSE, None, FALSE)
  /\ want = [c \in Conn |-> None]
  /\ conn = [c \in Conn |-> "new"]
  /\ task = [c \in Conn |-> "idle"]
  /\ thread = [c \in Conn |-> None]
  /\ late = [c \in Conn |-> {}]
  /\ notice = [c \in Conn |-> FALSE]
  /\ told = [c \in Conn |-> FALSE]
  /\ unaware = [c \in Conn |-> FALSE]
  /\ lateOn = FALSE

(***************************************************************************)
(* Turning off.                                                            *)
(***************************************************************************)
(* check_off_conn_id *)
MayTurnOff(m, id) == m.owner = None \/ id = None \/ m.owner = id

(* unhook posts a message to the hook thread, if there is one.             *)
Unhooked(m) == IF m.hook = None THEN None ELSE "exiting"

(* PrivacyModeImpl::turn_off_privacy: the window is hidden, or the         *)
(* displays are restored.                                                  *)
Off(m) ==
  Mode(m.impl, None, m.window /\ m.impl \in Virtual,
       m.disabled /\ m.impl \notin Virtual, Unhooked(m), m.broken)

(* unhook fails: nothing else is done.                                     *)
PostFailed(m) ==
  Mode(m.impl, m.owner, m.window, m.disabled, m.hook, TRUE)

(* The outcomes of turn_off_privacy called for id.                         *)
TurnOff(m, id) ==
  IF ~MayTurnOff(m, id) THEN {m}
  ELSE {Off(m)} \cup (IF m.hook = None THEN {} ELSE {PostFailed(m)})

(***************************************************************************)
(* Turning on.                                                             *)
(***************************************************************************)
Outcome(ms, res) == {[mode |-> m, res |-> res] : m \in ms}

(* The hook thread may leave while the implementation starts up.           *)
HookMayLeave(m) ==
  {m} \cup (IF m.hook # "exiting" THEN {}
            ELSE {Mode(m.impl, m.owner, m.window, m.disabled, None, m.broken)})

Fresh(m, k) == Mode(k, None, m.window, m.disabled, m.hook, m.broken)

(* mutant: a new implementation is put in place of one that is still on *)
NotCleared(m, k) == {Fresh(m, k)}

(* `clear` of the old implementation, or its drop, and a new one.          *)
Replaced(m, k) == {Fresh(n, k) : n \in TurnOff(m, m.owner)}

(* mutant: do_hook takes a hook that is about to leave for its own *)
HookAnyway(m) == {IF m.hook = None THEN "on" ELSE m.hook}

(* hook() before the window is shown: do_hook refuses if there is a hook.  *)
HookForWindow(m) == IF m.hook = None THEN {"on"} ELSE {}

(* win_topmost_window: the dll is missing, the window process does not     *)
(* start, hook() fails, or all is well.                                    *)
TurnOnWindow(m, c) ==
  Outcome({m}, "false")
  \cup Outcome({m}, "err")
  \cup Outcome({Mode(m.impl, c, TRUE, m.disabled, h, m.broken) :
                  h \in HookForWindow(m)}, "true")

(* TurnOnGuard is dropped without success.                                 *)
GuardDropped(m) ==
  TurnOff(Mode(m.impl, m.owner, m.window, TRUE, m.hook, m.broken), None)

(* win_virtual_display: a failure before the displays are touched or after *)
(* that, or a success, whether hook() fails or not.                        *)
TurnOnVirtual(m, c) ==
  Outcome({m}, "err")
  \cup Outcome(GuardDropped(m), "err")
  \cup Outcome({Mode(m.impl, c, m.window, TRUE, h, m.broken) :
                  h \in {m.hook} \cup HookForWindow(m)}, "true")

TurnOnImpl(m, c) ==
  IF m.impl \in Virtual THEN TurnOnVirtual(m, c) ELSE TurnOnWindow(m, c)

Occupied(m, c) == m.owner # None /\ m.owner # c

(* turn_on_privacy_sync, all of it under the mutex.                        *)
TurnOn(m, c, k) ==
  IF Occupied(m, c) THEN Outcome({m}, "err")
  ELSE IF m.impl = k
    THEN IF m.owner = c THEN Outcome({m}, "true") ELSE TurnOnImpl(m, c)
    ELSE UNION {TurnOnImpl(h, c) : h \in UNION {HookMayLeave(n) : n \in Replaced(m, k)}}
(***************************************************************************)
(* The task of a connection.                                               *)
(***************************************************************************)
Goto(c, l) == task' = [task EXCEPT ![c] = l]

(* A message with the state of the mode is sent to the client.             *)
Tell(c, on) ==
  /\ told' = [told EXCEPT ![c] = on]
  /\ unaware' = [unaware EXCEPT ![c] = on /\ @]

(* The mode becomes m; an owner that loses it this way is not told.        *)
Behind(m) ==
  /\ mode' = m
  /\ unaware' = [c \in Conn |->
       unaware[c] \/ (mode.owner = c /\ m.owner # c /\ conn[c] = "open")]

(* on_message of a login: check_privacy_mode_on refuses it while the mode  *)
(* is on.                                                                  *)
Login(c) ==
  /\ conn[c] = "new"
  /\ mode.owner = None
  /\ conn' = [conn EXCEPT ![c] = "open"]
  /\ UNCHANGED <<mode, task, want, thread, late, notice, told, unaware, lateOn>>

(* turn_on_privacy: is_async_privacy_mode decides who will do it.          *)
RequestOn(c, k) ==
  LET async == Amyuni /\ mode.impl \in Virtual IN
  /\ conn[c] = "open" /\ task[c] = "idle"
  /\ want' = [want EXCEPT ![c] = k]
  /\ Goto(c, IF async THEN "await" ELSE "sync")
  /\ thread' = [thread EXCEPT ![c] = IF async THEN "work" ELSE None]
  /\ UNCHANGED <<mode, conn, late, notice, told, unaware, lateOn>>

(* What the connection does with a result: an error is followed up, a      *)
(* success is tested, a missing plugin is reported.                        *)
AfterTurnOn(res) ==
  IF res = "true" THEN "check" ELSE IF res = "err" THEN "failed" ELSE "idle"

TurnOnSync(c) ==
  /\ task[c] = "sync"
  /\ \E o \in TurnOn(mode, c, want[c]) :
       /\ mode' = o.mode
       /\ Goto(c, AfterTurnOn(o.res))
       /\ told' = [told EXCEPT ![c] = @ /\ o.res # "false"]
       /\ unaware' = [unaware EXCEPT ![c] = @ /\ o.res = "err"]
  /\ want' = [want EXCEPT ![c] = None]
  /\ lateOn' = (lateOn /\ mode'.owner = mode.owner)
  /\ UNCHANGED <<conn, thread, late, notice>>

(* The thread of turn_on_privacy_async.                                    *)
TurnOnThread(c) ==
  /\ thread[c] = "work"
  /\ \E o \in TurnOn(mode, c, want[c]) :
       /\ mode' = o.mode
       /\ thread' = [thread EXCEPT ![c] = o.res]
       /\ unaware' = [unaware EXCEPT ![c] = @ /\ o.res = "err"]
  /\ lateOn' = (lateOn /\ mode'.owner = mode.owner)
  /\ UNCHANGED <<conn, task, want, late, notice, told>>

AwaitDone(c) ==
  /\ task[c] = "await" /\ thread[c] # "work"
  /\ Goto(c, AfterTurnOn(thread[c]))
  /\ told' = [told EXCEPT ![c] = @ /\ thread[c] # "false"]
  /\ thread' = [thread EXCEPT ![c] = None]
  /\ want' = [want EXCEPT ![c] = None]
  /\ UNCHANGED <<mode, conn, late, notice, unaware, lateOn>>

(* After 7.5 seconds the connection goes on, and the thread as well.       *)
AwaitTimeout(c) ==
  /\ task[c] = "await" /\ thread[c] = "work"
  /\ Cardinality(late[c]) < MaxLate
  /\ Goto(c, "failed")
  /\ thread' = [thread EXCEPT ![c] = None]
  /\ late' = [late EXCEPT ![c] = @ \cup {want[c]}]
  /\ want' = [want EXCEPT ![c] = None]
  /\ UNCHANGED <<mode, conn, notice, told, unaware, lateOn>>

TurnOnLate(c, k) ==
  /\ k \in late[c]
  /\ late' = [late EXCEPT ![c] = @ \ {k}]
  /\ \E o \in TurnOn(mode, c, k) :
       /\ Behind(o.mode)
       /\ lateOn' = (lateOn \/ o.mode.owner # mode.owner)
  /\ UNCHANGED <<conn, task, want, thread, notice, told>>

(* check_privacy_mode_err: can the screen be captured without the window?  *)
CheckErr(c) ==
  /\ task[c] = "check"
  /\ \/ Goto(c, "idle") /\ Tell(c, TRUE)
     \/ mode.impl \in Mag /\ Goto(c, "undo") /\ UNCHANGED <<told, unaware>>
  /\ UNCHANGED <<mode, conn, want, thread, late, notice, lateOn>>

Undo(c) ==
  /\ task[c] = "undo"
  /\ mode' \in TurnOff(mode, c)
  /\ Goto(c, "idle") /\ Tell(c, FALSE)
  /\ UNCHANGED <<conn, want, thread, late, notice, lateOn>>

(* Turning on failed: if the mode is on nevertheless, it is turned off,    *)
(* and not on behalf of this connection.                                   *)
Failed(c) ==
  /\ task[c] = "failed"
  /\ IF mode.owner # None
       THEN Goto(c, "force") /\ UNCHANGED <<told, unaware>>
       ELSE Goto(c, "idle") /\ Tell(c, FALSE)
  /\ UNCHANGED <<mode, conn, want, thread, late, notice, lateOn>>

ForceOff(c) ==
  /\ task[c] = "force"
  /\ \E m \in TurnOff(mode, None) :
       /\ mode' = m
       /\ unaware' = [d \in Conn |->
            d # c /\ (unaware[d] \/ (mode.owner = d /\ m.owner # d /\ conn[d] = "open"))]
  /\ told' = [told EXCEPT ![c] = FALSE]
  /\ Goto(c, "idle")
  /\ UNCHANGED <<conn, want, thread, late, notice, lateOn>>

(* The client asks to turn it off: it is told of a success only.           *)
RequestOff(c) ==
  /\ conn[c] = "open" /\ task[c] = "idle"
  /\ \E m \in TurnOff(mode, c) :
       /\ mode' = m
       /\ IF m = Off(mode) THEN Tell(c, FALSE) ELSE UNCHANGED <<told, unaware>>
  /\ UNCHANGED <<conn, task, want, thread, late, notice, lateOn>>

(* The cm process hands an OffByPeer over to the connection.               *)
Notified(c) ==
  /\ notice[c] /\ conn[c] = "open" /\ task[c] = "idle"
  /\ notice' = [notice EXCEPT ![c] = FALSE]
  /\ Tell(c, FALSE)
  /\ UNCHANGED <<mode, conn, task, want, thread, late, lateOn>>

(* mutant: the connection leaves the mode on *)
NoCleanup(c) == FALSE

MustCleanUp(c) == mode.owner = c

(* The connection's loop is left; nothing reaches its client any more.     *)
Close(c) ==
  /\ conn[c] = "open" /\ task[c] = "idle"
  /\ conn' = [conn EXCEPT ![c] = IF MustCleanUp(c) THEN "closing" ELSE "closed"]
  /\ notice' = [notice EXCEPT ![c] = FALSE]
  /\ Tell(c, FALSE)
  /\ UNCHANGED <<mode, task, want, thread, late, lateOn>>

CloseOff(c) ==
  /\ conn[c] = "closing"
  /\ mode' \in TurnOff(mode, c)
  /\ conn' = [conn EXCEPT ![c] = "closed"]
  /\ UNCHANGED <<task, want, thread, late, notice, told, unaware, lateOn>>

(* Drop of AuthedConnID takes the connection out of AUTHED_CONNS, ...      *)
Retain(c) ==
  /\ conn[c] = "closed"
  /\ conn' = [conn EXCEPT ![c] = "count"]
  /\ UNCHANGED <<mode, task, want, thread, late, notice, told, unaware, lateOn>>

RemoteCount == Cardinality({d \in Conn : conn[d] \in {"open", "closing", "closed"}})

(* ... counts those that are left, and after the last one has reset_all    *)
(* (the one of amyuni_idd) called, ...                                     *)
Count(c) ==
  /\ conn[c] = "count"
  /\ conn' = [conn EXCEPT ![c] = IF RemoteCount = 0 /\ Amyuni THEN "reset" ELSE "gone"]
  /\ UNCHANGED <<mode, task, want, thread, late, notice, told, unaware, lateOn>>

(* ... which turns the mode off, whoever has it by then.                   *)
ResetAll(c) ==
  /\ conn[c] = "reset"
  /\ conn' = [conn EXCEPT ![c] = "gone"]
  /\ \E m \in TurnOff(mode, None) : Behind(m)
  /\ UNCHANGED <<task, want, thread, late, notice, told, lateOn>>

(***************************************************************************)
(* The local user, the option and the hook.                                *)
(***************************************************************************)
(* mutant: the state is dropped, nobody is told *)
NotifyNobody(m) == {notice}

(* set_privacy_mode_state for id 0 reaches every connection the cm process *)
(* serves, if it can be reached; nothing is sent if the mode was off.      *)
NotifyAll(m) ==
  IF mode.owner = None \/ m.owner # None THEN {notice}
  ELSE {[c \in Conn |-> notice[c] \/ conn[c] = "open"]}

(* Ctrl+P in privacy_mode_hook_keyboard.                                   *)
CtrlP ==
  /\ mode.hook # None
  /\ \E m \in TurnOff(mode, None) :
       \/ mode' = m /\ notice' \in NotifyAll(m) /\ UNCHANGED unaware
       \/ Behind(m) /\ UNCHANGED notice
  /\ UNCHANGED <<conn, task, want, thread, late, told, lateOn>>

(* privacy_mode::switch, when the option is set.                           *)
Switch(k) ==
  /\ mode.impl # k
  /\ \E m \in IF mode.owner = None THEN {Fresh(mode, k)} ELSE Replaced(mode, k) :
       Behind(m)
  /\ UNCHANGED <<conn, task, want, thread, late, notice, told, lateOn>>

(* The hook thread reads the message of unhook and leaves.                 *)
HookExit ==
  /\ mode.hook = "exiting"
  /\ mode' = Mode(mode.impl, mode.owner, mode.window, mode.disabled, None,
                  mode.broken)
  /\ UNCHANGED <<conn, task, want, thread, late, notice, told, unaware, lateOn>>

Step(c) ==
  \/ TurnOnSync(c)
  \/ TurnOnThread(c)
  \/ AwaitDone(c)
  \/ AwaitTimeout(c)
  \/ CheckErr(c)
  \/ Undo(c)
  \/ Failed(c)
  \/ ForceOff(c)
  \/ CloseOff(c)
  \/ Retain(c)
  \/ Count(c)
  \/ ResetAll(c)

Next ==
  \/ \E c \in Conn : Step(c)
  \/ \E c \in Conn : Login(c)
  \/ \E c \in Conn, k \in Impl : RequestOn(c, k)
  \/ \E c \in Conn, k \in Impl : TurnOnLate(c, k)
  \/ \E c \in Conn : RequestOff(c)
  \/ \E c \in Conn : Notified(c)
  \/ \E c \in Conn : Close(c)
  \/ CtrlP
  \/ \E k \in Impl : Switch(k)
  \/ HookExit

Spec == Init /\ [][Next]_vars

(***************************************************************************)
(* Properties.                                                             *)
(***************************************************************************)
(* The machine is in the state its mode says: the window is shown or the   *)
(* displays are disabled only while a connection owns the mode, and by the *)
(* implementation in place, after failures half way, a change of the       *)
(* implementation and timeouts alike (as long as unhook works).  While the *)
(* window hides the screen local input is blocked: the hook that was set   *)
(* for it is there and has not been told to leave.                         *)
HiddenHasOwner ==
  ~mode.broken =>
    /\ mode.window <=> (mode.owner # None /\ mode.impl \notin Virtual)
    /\ mode.disabled <=> (mode.owner # None /\ mode.impl \in Virtual)
    /\ mode.owner # None /\ mode.impl \notin Virtual => mode.hook = "on"

(* The mode does not outlive its owner, except when a thread its owner had *)
(* stopped waiting for turned it on.                                       *)
OwnerIsThere ==
  \A c \in Conn :
    mode.owner = c /\ ~mode.broken /\ ~lateOn => conn[c] \in {"open", "closing"}

(* A client that was last told the mode is on owns it, or the notice that  *)
(* it does not is on its way, or its mode was ended behind its back: by    *)
(* another connection's failure, by the option, by a late thread of its    *)
(* own, with the cm process out of reach, or by the reset_all of one that  *)
(* counted the connections before it was authorized.                       *)
ToldTruth ==
  \A c \in Conn :
    conn[c] = "open" /\ task[c] = "idle" /\ told[c] =>
      mode.owner = c \/ notice[c] \/ unaware[c]

(* "Failed to turn off privacy mode that belongs to someone else.": what   *)
(* a connection does never ends the privacy mode of another one.           *)
BelongsToSomeone ==
  [][\A c, d \in Conn : ForceOff(d) /\ mode.owner = c /\ c # d => mode'.owner = c]_vars
=============================================================================

------------------------- MODULE PrivacyModeProofs -------------------------
(***************************************************************************)
(* Proofs about PrivacyMode, for every set of connections and of           *)
(* implementations.  The outcomes of turning the mode off and on are       *)
(* characterised first, as lemmas about the sets TurnOff and TurnOn; the   *)
(* invariant then needs one short step per action.                         *)
(***************************************************************************)
EXTENDS PrivacyMode, TLAPS

(* The steps are first-order: Zenon proves them, except where SMT is named. *)
USE Zenon

(* What HiddenHasOwner says, of any mode.                                  *)
Consistent(m) ==
  ~m.broken =>
    /\ m.window <=> (m.owner # None /\ m.impl \notin Virtual)
    /\ m.disabled <=> (m.owner # None /\ m.impl \in Virtual)
    /\ m.owner # None /\ m.impl \notin Virtual => m.hook = "on"

Good(m) == m \in ModeType /\ Consistent(m)

(* turn_off_privacy leaves a consistent machine and either nobody or the   *)
(* old owner.                                                              *)
LEMMA TurnOffLemma ==
  ASSUME NEW m, Good(m), NEW id \in Conn \cup {None}, NEW n \in TurnOff(m, id)
  PROVE  /\ Good(n)
         /\ n.owner \in {None, m.owner}
         /\ n.impl = m.impl
         /\ m.broken => n.broken
         /\ ~n.broken /\ MayTurnOff(m, id) => n.owner = None
<1> USE DEF Good, Consistent, ModeType, Mode
<1>1. CASE ~MayTurnOff(m, id)
  BY <1>1 DEF TurnOff
<1>2. CASE MayTurnOff(m, id) /\ n = Off(m)
  BY <1>2 DEF Off, Unhooked
<1>3. CASE MayTurnOff(m, id) /\ n = PostFailed(m)
  BY <1>3 DEF PostFailed
<1> QED BY <1>1, <1>2, <1>3 DEF TurnOff

(* A new implementation belongs to nobody and finds the machine restored.  *)
LEMMA ReplacedLemma ==
  ASSUME NEW m, Good(m), NEW k \in Impl, NEW n \in Replaced(m, k)
  PROVE  Good(n) /\ n.owner = None /\ n.impl = k /\ (m.broken => n.broken)
<1>1. m.owner \in Conn \cup {None}
  BY DEF Good, ModeType
<1>2. PICK x \in TurnOff(m, m.owner) : n = Fresh(x, k)
  BY DEF Replaced
<1>3. /\ Good(x)
      /\ m.broken => x.broken
      /\ ~x.broken => x.owner = None
  BY SMT, <1>1, <1>2, TurnOffLemma DEF MayTurnOff
<1>4. QED
  BY <1>2, <1>3 DEF Good, Consistent, ModeType, Mode, Fresh

(* turn_on_privacy of an implementation nobody owns.                       *)
LEMMA TurnOnImplLemma ==
  ASSUME NEW m, Good(m), m.owner = None, NEW c \in Conn, NEW o \in TurnOnImpl(m, c)
  PROVE  /\ Good(o.mode)
         /\ o.res \in {"true", "false", "err"}
         /\ o.mode.owner = IF o.res = "true" THEN c ELSE None
         /\ m.broken => o.mode.broken
<1> USE PrivacyModeAssumption DEF Good, Consistent, ModeType, Mode, Outcome
<1>1. CASE m.impl \notin Virtual
  <2>1. o \in TurnOnWindow(m, c)
    BY <1>1 DEF TurnOnImpl
  <2>2. \/ o = [mode |-> m, res |-> "false"]
        \/ o = [mode |-> m, res |-> "err"]
        \/ o = [mode |-> Mode(m.impl, c, TRUE, m.disabled, "on", m.broken), res |-> "true"]
    BY SMT, <2>1 DEF TurnOnWindow, HookForWindow
  <2>3. CASE o.mode = m /\ o.res \in {"false", "err"}
    BY <2>3
  <2>4. CASE o = [mode |-> Mode(m.impl, c, TRUE, m.disabled, "on", m.broken), res |-> "true"]
    <3> DEFINE n == Mode(m.impl, c, TRUE, m.disabled, "on", m.broken)
    <3>1. n \in ModeType /\ n.owner = c /\ (m.broken => n.broken)
      OBVIOUS
    <3>2. Consistent(n)
      BY <1>1
    <3>3. QED
      BY <2>4, <3>1, <3>2
  <2>5. QED
    BY SMT, <2>2, <2>3, <2>4
<1>2. CASE m.impl \in Virtual
  <2>1. o \in TurnOnVirtual(m, c)
    BY <1>2 DEF TurnOnImpl
  <2>2. CASE o = [mode |-> m, res |-> "err"]
    BY <2>2
  <2>3. CASE \E n \in GuardDropped(m) : o = [mode |-> n, res |-> "err"]
    <3>1. PICK n \in GuardDropped(m) : o = [mode |-> n, res |-> "err"]
      BY <2>3
    <3> DEFINE d == Mode(m.impl, m.owner, m.window, TRUE, m.hook, m.broken)
    <3>2. n = Off(d) \/ n = PostFailed(d)
      BY DEF GuardDropped, TurnOff, MayTurnOff
    <3>3. CASE n = Off(d)
      <4>1. n \in ModeType /\ n.owner = None /\ (m.broken => n.broken)
        BY <3>3 DEF Off, Unhooked
      <4>2. Consistent(n)
        BY <1>2, <3>3 DEF Off
      <4>3. QED
        BY <3>1, <4>1, <4>2
    <3>4. CASE n = PostFailed(d)
      <4>1. n \in ModeType /\ n.owner = None /\ n.broken
        BY <3>4 DEF PostFailed
      <4>2. QED
        BY <3>1, <4>1
    <3>5. QED
      BY <3>2, <3>3, <3>4
  <2>4. CASE \E h \in {m.hook} \cup HookForWindow(m) :
               o = [mode |-> Mode(m.impl, c, m.window, TRUE, h, m.broken), res |-> "true"]
    BY SMT, <1>2, <2>4 DEF HookForWindow
  <2>5. QED
    BY SMT, <2>1, <2>2, <2>3, <2>4 DEF TurnOnVirtual
<1>3. QED
  BY <1>1, <1>2

(* turn_on_privacy_sync leaves a consistent machine; an owner other than   *)
(* the caller keeps the mode, and a success makes the caller the owner.    *)
LEMMA TurnOnLemma ==
  ASSUME NEW m, Good(m), NEW c \in Conn, NEW k \in Impl, NEW o \in TurnOn(m, c, k)
  PROVE  /\ Good(o.mode)
         /\ o.res \in {"true", "false", "err"}
         /\ o.mode.owner \in {None, c, m.owner}
         /\ o.res = "true" => o.mode.owner = c
         /\ Occupied(m, c) => o.mode = m
         /\ m.broken => o.mode.broken
<1>1. CASE Occupied(m, c)
  BY SMT, <1>1 DEF TurnOn, Outcome
<1>2. CASE ~Occupied(m, c) /\ m.impl = k /\ m.owner = c
  BY SMT, <1>2 DEF TurnOn, Outcome
<1>3. CASE ~Occupied(m, c) /\ m.impl = k /\ m.owner # c
  <2>1. m.owner = None /\ o \in TurnOnImpl(m, c)
    BY <1>3 DEF TurnOn, Occupied
  <2>2. QED
    BY <1>3, <2>1, TurnOnImplLemma
<1>4. CASE ~Occupied(m, c) /\ m.impl # k
  <2>0. PICK n \in Replaced(m, k) : \E h \in HookMayLeave(n) : o \in TurnOnImpl(h, c)
    BY <1>4 DEF TurnOn
  <2>1. PICK h \in HookMayLeave(n) : o \in TurnOnImpl(h, c)
    BY <2>0
  <2>2. Good(n) /\ n.owner = None /\ (m.broken => n.broken)
    BY ReplacedLemma
  <2>3. Good(h) /\ h.owner = None /\ (n.broken => h.broken)
    BY SMT, <2>2 DEF HookMayLeave, Good, Consistent, ModeType, Mode
  <2>4. QED
    BY <1>4, <2>1, <2>2, <2>3, TurnOnImplLemma
<1>5. QED
  BY <1>1, <1>2, <1>3, <1>4

(***************************************************************************)
(* The inductive invariant: a task that is at work belongs to an open      *)
(* connection, a thread that is waited for to such a task.                 *)
(***************************************************************************)
TaskInv ==
  \A c \in Conn :
    /\ task[c] # "idle" => conn[c] = "open"
    /\ task[c] \in {"sync", "await"} => want[c] \in Impl
    /\ thread[c] # None <=> task[c] = "await"

IInv == TypeOK /\ Consistent(mode) /\ TaskInv /\ OwnerIsThere

(* The initial state satisfies the invariant.                              *)
LEMMA InitIInv == Init => IInv
<1> USE PrivacyModeAssumption
<1> HAVE Init
<1>1. PICK k \in Impl : mode = Mode(k, None, FALSE, FALSE, None, FALSE)
  BY DEF Init
<1>2. mode \in ModeType /\ mode.owner = None /\ ~mode.window /\ ~mode.disabled
  BY <1>1 DEF Mode, ModeType
<1>3. TypeOK
  BY <1>2 DEF Init, TypeOK
<1>4. TaskInv
  BY DEF Init, TaskInv
<1>5. QED
  BY <1>2, <1>3, <1>4 DEF IInv, Consistent, OwnerIsThere

(* The actions that turn the mode on, in the task, in a thread that is     *)
(* waited for, and in one that is not.                                     *)
LEMMA TurnOnInductive ==
  ASSUME IInv, NEW c \in Conn,
         TurnOnSync(c) \/ TurnOnThread(c) \/ \E k \in Impl : TurnOnLate(c, k)
  PROVE  IInv'
<1> USE PrivacyModeAssumption
<1>0. Good(mode)
  BY DEF IInv, TypeOK, Good
<1>1. CASE TurnOnSync(c)
  <2>1. want[c] \in Impl /\ conn[c] = "open"
    BY <1>1 DEF IInv, TaskInv, TurnOnSync
  <2>2. PICK o \in TurnOn(mode, c, want[c]) :
          /\ mode' = o.mode
          /\ Goto(c, AfterTurnOn(o.res))
          /\ told' = [told EXCEPT ![c] = @ /\ o.res # "false"]
          /\ unaware' = [unaware EXCEPT ![c] = @ /\ o.res = "err"]
    BY <1>1 DEF TurnOnSync
  <2>3. /\ Good(mode')
        /\ mode'.owner \in {None, c, mode.owner}
        /\ mode.broken => mode'.broken
    BY <1>0, <2>1, <2>2, TurnOnLemma
  <2>4. TypeOK'
    BY <1>1, <2>2, <2>3 DEF IInv, TypeOK, TurnOnSync, Goto, AfterTurnOn, Good
  <2>5. TaskInv'
    <3>1. thread[c] = None
      BY <1>1 DEF IInv, TaskInv, TurnOnSync
    <3>2. /\ task' = [task EXCEPT ![c] = AfterTurnOn(o.res)]
          /\ want' = [want EXCEPT ![c] = None]
          /\ UNCHANGED <<conn, thread>>
          /\ AfterTurnOn(o.res) \notin {"sync", "await"}
      BY <1>1, <2>2 DEF TurnOnSync, Goto, AfterTurnOn
    <3>3. QED
      BY <2>1, <3>1, <3>2 DEF IInv, TypeOK, TaskInv
  <2>6. OwnerIsThere'
    <3>1. conn' = conn /\ (lateOn' <=> lateOn /\ mode'.owner = mode.owner)
      BY <1>1 DEF IInv, TypeOK, TurnOnSync
    <3>2. OwnerIsThere
      BY DEF IInv
    <3>3. QED
      BY <2>1, <2>3, <3>1, <3>2 DEF OwnerIsThere
  <2>7. QED
    BY <2>3, <2>4, <2>5, <2>6 DEF IInv, Good, Consistent
<1>2. CASE TurnOnThread(c)
  <2>1. want[c] \in Impl /\ conn[c] = "open" /\ task[c] = "await"
    BY <1>2 DEF IInv, TaskInv, TurnOnThread, None
  <2>2. PICK o \in TurnOn(mode, c, want[c]) :
          /\ mode' = o.mode
          /\ thread' = [thread EXCEPT ![c] = o.res]
          /\ unaware' = [unaware EXCEPT ![c] = @ /\ o.res = "err"]
    BY <1>2 DEF TurnOnThread
  <2>3. /\ Good(mode')
        /\ o.res \in {"true", "false", "err"}
        /\ mode'.owner \in {None, c, mode.owner}
        /\ mode.broken => mode'.broken
    BY <1>0, <2>1, <2>2, TurnOnLemma
  <2>4. TypeOK'
    BY <1>2, <2>2, <2>3 DEF IInv, TypeOK, TurnOnThread, Good
  <2>5. TaskInv'
    BY <1>2, <2>1, <2>2, <2>3 DEF IInv, TypeOK, TaskInv, TurnOnThread, None
  <2>6. OwnerIsThere'
    <3>1. conn' = conn /\ (lateOn' <=> lateOn /\ mode'.owner = mode.owner)
      BY <1>2 DEF IInv, TypeOK, TurnOnThread
    <3>2. OwnerIsThere
      BY DEF IInv
    <3>3. QED
      BY <2>1, <2>3, <3>1, <3>2 DEF OwnerIsThere
  <2>7. QED
    BY <2>3, <2>4, <2>5, <2>6 DEF IInv, Good, Consistent
<1>3. CASE \E k \in Impl : TurnOnLate(c, k)
  <2>1. PICK k \in Impl : TurnOnLate(c, k)
    BY <1>3
  <2>2. PICK o \in TurnOn(mode, c, k) :
          Behind(o.mode) /\ lateOn' = (lateOn \/ o.mode.owner # mode.owner)
    BY <2>1 DEF TurnOnLate
  <2>3. /\ mode' = o.mode
        /\ Good(mode')
        /\ mode.broken => mode'.broken
    BY <1>0, <2>2, TurnOnLemma DEF Behind
  <2>4. TypeOK'
    BY <2>1, <2>2, <2>3 DEF IInv, TypeOK, TurnOnLate, Behind, Good
  <2>5. TaskInv'
    BY <2>1 DEF IInv, TypeOK, TaskInv, TurnOnLate
  <2>6. OwnerIsThere'
    BY <2>1, <2>2, <2>3 DEF IInv, TypeOK, OwnerIsThere, TurnOnLate
  <2>7. QED
    BY <2>3, <2>4, <2>5, <2>6 DEF IInv, Good, Consistent
<1>4. QED
  BY <1>1, <1>2, <1>3

(* The actions that turn the mode off.  Only CloseOff changes `conn`: the  *)
(* connection it closes does not own the mode any more.                    *)
LEMMA TurnOffInductive ==
  ASSUME IInv,
         \/ \E c \in Conn : Undo(c) \/ ForceOff(c) \/ RequestOff(c) \/ CloseOff(c)
         \/ CtrlP
  PROVE  IInv'
<1> USE PrivacyModeAssumption
<1>0. Good(mode)
  BY DEF IInv, TypeOK, Good
<1>1. ASSUME NEW c \in Conn, Undo(c)  PROVE IInv'
  <2>1. Good(mode') /\ mode'.owner \in {None, mode.owner} /\ (mode.broken => mode'.broken)
    BY <1>0, <1>1, TurnOffLemma DEF Undo
  <2>2. TypeOK'
    BY <1>1, <2>1 DEF IInv, TypeOK, Undo, Goto, Tell, Good
  <2>3. TaskInv'
    BY <1>1 DEF IInv, TypeOK, TaskInv, Undo, Goto
  <2>4. OwnerIsThere'
    BY <1>1, <2>1 DEF IInv, OwnerIsThere, Undo
  <2>5. QED
    BY <2>1, <2>2, <2>3, <2>4 DEF IInv, Good, Consistent
<1>2. ASSUME NEW c \in Conn, ForceOff(c)  PROVE IInv'
  <2>1. Good(mode') /\ mode'.owner \in {None, mode.owner} /\ (mode.broken => mode'.broken)
    BY SMT, <1>0, <1>2, TurnOffLemma DEF ForceOff
  <2>2. TypeOK'
    BY <1>2, <2>1 DEF IInv, TypeOK, ForceOff, Goto, Good
  <2>3. TaskInv'
    BY <1>2 DEF IInv, TypeOK, TaskInv, ForceOff, Goto
  <2>4. OwnerIsThere'
    BY <1>2, <2>1 DEF IInv, OwnerIsThere, ForceOff
  <2>5. QED
    BY <2>1, <2>2, <2>3, <2>4 DEF IInv, Good, Consistent
<1>3. ASSUME NEW c \in Conn, RequestOff(c)  PROVE IInv'
  <2>1. Good(mode') /\ mode'.owner \in {None, mode.owner} /\ (mode.broken => mode'.broken)
    BY SMT, <1>0, <1>3, TurnOffLemma DEF RequestOff
  <2>2. TypeOK'
    BY <1>3, <2>1 DEF IInv, TypeOK, RequestOff, Tell, Good
  <2>3. TaskInv'
    BY <1>3 DEF IInv, TaskInv, RequestOff
  <2>4. OwnerIsThere'
    BY <1>3, <2>1 DEF IInv, OwnerIsThere, RequestOff
  <2>5. QED
    BY <2>1, <2>2, <2>3, <2>4 DEF IInv, Good, Consistent
<1>4. ASSUME NEW c \in Conn, CloseOff(c)  PROVE IInv'
  <2>1. /\ Good(mode')
        /\ mode'.owner \in {None, mode.owner}
        /\ mode.broken => mode'.broken
        /\ ~mode'.broken /\ MayTurnOff(mode, c) => mode'.owner = None
    BY <1>0, <1>4, TurnOffLemma DEF CloseOff
  <2>2. TypeOK'
    BY <1>4, <2>1 DEF IInv, TypeOK, CloseOff, Good
  <2>3. TaskInv'
    BY <1>4 DEF IInv, TypeOK, TaskInv, CloseOff
  <2>4. ~mode'.broken => mode'.owner # c
    BY <2>1 DEF MayTurnOff
  <2>5. OwnerIsThere'
    BY <1>4, <2>1, <2>4 DEF IInv, TypeOK, OwnerIsThere, CloseOff
  <2>6. QED
    BY <2>1, <2>2, <2>3, <2>5 DEF IInv, Good, Consistent
<1>5. ASSUME CtrlP  PROVE IInv'
  <2>1. PICK m \in TurnOff(mode, None) :
          \/ mode' = m /\ notice' \in NotifyAll(m) /\ UNCHANGED unaware
          \/ Behind(m) /\ UNCHANGED notice
    BY <1>5 DEF CtrlP
  <2>2. mode' = m
    BY <2>1 DEF Behind
  <2>3. Good(mode') /\ mode'.owner \in {None, mode.owner} /\ (mode.broken => mode'.broken)
    BY <1>0, <2>2, TurnOffLemma
  <2>4. TypeOK'
    <3>1. notice' \in [Conn -> BOOLEAN]
      BY <2>1 DEF IInv, TypeOK, NotifyAll
    <3>2. unaware' \in [Conn -> BOOLEAN]
      BY <2>1 DEF IInv, TypeOK, Behind
    <3>3. QED
      BY <1>5, <2>3, <3>1, <3>2 DEF IInv, TypeOK, CtrlP, Good
  <2>5. TaskInv'
    BY <1>5 DEF IInv, TaskInv, CtrlP
  <2>6. OwnerIsThere'
    BY <1>5, <2>3 DEF IInv, OwnerIsThere, CtrlP
  <2>7. QED
    BY <2>3, <2>4, <2>5, <2>6 DEF IInv, Good, Consistent
<1>6. QED
  BY <1>1, <1>2, <1>3, <1>4, <1>5

(* A change of the implementation by the option, and the end of a hook.    *)
LEMMA MachineInductive ==
  ASSUME IInv, HookExit \/ \E k \in Impl : Switch(k)
  PROVE  IInv'
<1> USE PrivacyModeAssumption
<1>0. Good(mode)
  BY DEF IInv, TypeOK, Good
<1>1. ASSUME NEW k \in Impl, Switch(k)  PROVE IInv'
  <2>1. PICK m \in IF mode.owner = None THEN {Fresh(mode, k)} ELSE Replaced(mode, k) :
          Behind(m)
    BY <1>1 DEF Switch
  <2>3. mode' = m /\ Good(m) /\ m.owner = None
    <3>1. CASE mode.owner = None
      BY SMT, <1>0, <2>1, <3>1 DEF Behind, Fresh, Mode, ModeType, Good, Consistent
    <3>2. CASE mode.owner # None
      BY <1>0, <2>1, <3>2, ReplacedLemma DEF Behind
    <3>3. QED
      BY <3>1, <3>2
  <2>4. TypeOK'
    BY <1>1, <2>1, <2>3 DEF IInv, TypeOK, Switch, Behind, Good
  <2>5. TaskInv' /\ OwnerIsThere'
    BY <1>1, <2>3 DEF IInv, TaskInv, OwnerIsThere, Switch
  <2>6. QED
    BY <2>3, <2>4, <2>5 DEF IInv, Good, Consistent
<1>2. ASSUME HookExit  PROVE IInv'
  <2>0. /\ mode' \in ModeType
        /\ mode'.owner = mode.owner /\ mode'.broken = mode.broken
        /\ mode'.window = mode.window /\ mode'.disabled = mode.disabled
        /\ mode'.impl = mode.impl
    BY <1>0, <1>2 DEF HookExit, Mode, ModeType, Good
  <2>1. Good(mode') /\ mode'.owner = mode.owner /\ mode'.broken = mode.broken
    BY <1>0, <1>2, <2>0 DEF HookExit, Good, Consistent
  <2>2. TypeOK'
    BY <1>2, <2>1 DEF IInv, TypeOK, HookExit, Good
  <2>3. TaskInv' /\ OwnerIsThere'
    BY <1>2, <2>1 DEF IInv, TaskInv, OwnerIsThere, HookExit
  <2>4. QED
    BY <2>1, <2>2, <2>3 DEF IInv, Good, Consistent
<1>3. QED
  BY <1>1, <1>2

(* The actions that leave the mode as it is.                               *)
LEMMA TaskInductive ==
  ASSUME IInv, NEW c \in Conn,
         \/ Login(c) \/ AwaitDone(c) \/ AwaitTimeout(c) \/ CheckErr(c)
         \/ Failed(c) \/ Notified(c) \/ Close(c)
         \/ \E k \in Impl : RequestOn(c, k)
  PROVE  IInv'
<1> USE PrivacyModeAssumption
<1>1. mode' = mode /\ lateOn' = lateOn
  BY DEF Login, AwaitDone, AwaitTimeout, CheckErr, Failed, Notified, Close, RequestOn
<1>2. TypeOK'
  <2> USE DEF IInv, TypeOK, Goto, Tell
  <2>1. CASE Login(c)
    BY <2>1 DEF Login
  <2>2. CASE AwaitDone(c)
    BY <2>2 DEF AwaitDone, AfterTurnOn
  <2>3. CASE AwaitTimeout(c)
    BY SMT, <2>3 DEF AwaitTimeout, TaskInv
  <2>4. CASE CheckErr(c)
    BY <2>4 DEF CheckErr
  <2>5. CASE Failed(c)
    BY <2>5 DEF Failed
  <2>6. CASE Notified(c)
    BY <2>6 DEF Notified
  <2>7. CASE Close(c)
    BY <2>7 DEF Close
  <2>8. CASE \E k \in Impl : RequestOn(c, k)
    BY SMT, <2>8 DEF RequestOn
  <2>9. QED
    BY <2>1, <2>2, <2>3, <2>4, <2>5, <2>6, <2>7, <2>8
<1>3. TaskInv'
  <2> USE DEF IInv, TypeOK, TaskInv, Goto
  <2>1. CASE Login(c)
    BY <2>1 DEF Login
  <2>2. CASE AwaitDone(c)
    BY <2>2 DEF AwaitDone, AfterTurnOn
  <2>3. CASE AwaitTimeout(c)
    BY <2>3 DEF AwaitTimeout
  <2>4. CASE CheckErr(c)
    BY <2>4 DEF CheckErr
  <2>5. CASE Failed(c)
    <3>1. /\ task' = [task EXCEPT ![c] = "force"] \/ task' = [task EXCEPT ![c] = "idle"]
          /\ UNCHANGED <<conn, want, thread>> /\ task[c] = "failed"
      BY <2>5 DEF Failed
    <3>2. QED
      BY <3>1
  <2>6. CASE Notified(c)
    BY <2>6 DEF Notified
  <2>7. CASE Close(c)
    BY <2>7 DEF Close
  <2>8. CASE \E k \in Impl : RequestOn(c, k)
    <3>1. PICK k \in Impl : RequestOn(c, k)
      BY <2>8
    <3>2. /\ conn' = conn /\ conn[c] = "open"
          /\ want' = [want EXCEPT ![c] = k]
          /\ \/ task' = [task EXCEPT ![c] = "await"] /\ thread' = [thread EXCEPT ![c] = "work"]
             \/ task' = [task EXCEPT ![c] = "sync"] /\ thread' = [thread EXCEPT ![c] = None]
          /\ \A d \in Conn \ {c} : thread'[d] = thread[d]
      BY <3>1 DEF RequestOn
    <3>3. QED
      BY SMT, <3>2 DEF None
  <2>9. QED
    BY <2>1, <2>2, <2>3, <2>4, <2>5, <2>6, <2>7, <2>8
<1>4. OwnerIsThere'
  <2>1. CASE Login(c)
    BY <1>1, <2>1 DEF IInv, TypeOK, OwnerIsThere, Login
  <2>2. CASE Close(c)
    BY SMT, <1>1, <2>2 DEF IInv, TypeOK, OwnerIsThere, Close, MustCleanUp
  <2>3. CASE conn' = conn
    BY <1>1, <2>3 DEF IInv, OwnerIsThere
  <2>4. QED
    BY <2>1, <2>2, <2>3
    DEF AwaitDone, AwaitTimeout, CheckErr, Failed, Notified, RequestOn
<1>5. QED
  BY <1>1, <1>2, <1>3, <1>4 DEF IInv, Consistent

(* The Drop of AuthedConnID: a connection that is past its loop owns no    *)
(* mode, and reset_all only turns the mode off.                            *)
LEMMA DropInductive ==
  ASSUME IInv, NEW c \in Conn, Retain(c) \/ Count(c) \/ ResetAll(c)
  PROVE  IInv'
<1> USE PrivacyModeAssumption
<1>0. Good(mode)
  BY DEF IInv, TypeOK, Good
<1>1. /\ conn[c] \notin {"open", "closing"}
      /\ \E l \in {"count", "reset", "gone"} : conn' = [conn EXCEPT ![c] = l]
      /\ UNCHANGED <<task, want, thread, late, notice, told, lateOn>>
  BY DEF Retain, Count, ResetAll
<1>2. /\ Good(mode') /\ mode'.owner \in {None, mode.owner} /\ (mode.broken => mode'.broken)
      /\ unaware' \in [Conn -> BOOLEAN]
  <2>1. CASE Retain(c) \/ Count(c)
    BY <1>0, <2>1 DEF Retain, Count, IInv, TypeOK
  <2>2. CASE ResetAll(c)
    <3>1. PICK m \in TurnOff(mode, None) : Behind(m)
      BY <2>2 DEF ResetAll
    <3>2. mode' = m /\ unaware' \in [Conn -> BOOLEAN]
      BY <3>1 DEF Behind, IInv, TypeOK
    <3>3. QED BY <1>0, <3>2, TurnOffLemma
  <2>3. QED BY <2>1, <2>2
<1>3. TypeOK'
  <2>1. conn' \in [Conn -> {"new", "open", "closing", "closed", "count", "reset", "gone"}]
    BY <1>1 DEF IInv, TypeOK
  <2>2. QED BY <1>1, <1>2, <2>1 DEF IInv, TypeOK, Good
<1>4. TaskInv'
  <2>1. \A d \in Conn : conn[d] = "open" => conn'[d] = "open"
    BY <1>1 DEF IInv, TypeOK
  <2>2. QED BY <1>1, <2>1 DEF IInv, TaskInv
<1>5. OwnerIsThere'
  <2>1. \A d \in Conn : conn[d] \in {"open", "closing"} => conn'[d] = conn[d]
    BY <1>1 DEF IInv, TypeOK
  <2>2. \A d \in Conn : mode'.owner = d /\ ~mode'.broken /\ ~lateOn' =>
                       mode.owner = d /\ ~mode.broken /\ ~lateOn
    BY <1>1, <1>2
  <2>3. QED BY <2>1, <2>2 DEF IInv, OwnerIsThere
<1>6. QED
  BY <1>2, <1>3, <1>4, <1>5 DEF IInv, Good, Consistent

(* IInv is inductive, and so holds in every reachable state.               *)
THEOREM Inductive == Spec => []IInv
<1>1. IInv /\ [Next]_vars => IInv'
  <2> SUFFICES ASSUME IInv, [Next]_vars  PROVE IInv'
    OBVIOUS
  <2>1. CASE UNCHANGED vars
    BY <2>1 DEF vars, IInv, TypeOK, Consistent, TaskInv, OwnerIsThere
  <2>2. CASE Next
    BY <2>2, TurnOnInductive, TurnOffInductive, MachineInductive, TaskInductive,
       DropInductive
    DEF Next, Step
  <2>3. QED
    BY <2>1, <2>2
<1>2. QED
  BY <1>1, InitIInv, PTL DEF Spec

(* Every variable keeps its type.                                          *)
THEOREM TypeCorrect == Spec => []TypeOK
<1>1. IInv => TypeOK
  BY DEF IInv
<1>2. QED
  BY <1>1, Inductive, PTL

(* The screen is hidden exactly while a connection owns privacy mode, and  *)
(* behind the window local input is blocked.                               *)
THEOREM MachineFollowsMode == Spec => []HiddenHasOwner
<1>1. IInv => HiddenHasOwner
  BY DEF IInv, Consistent, HiddenHasOwner
<1>2. QED
  BY <1>1, Inductive, PTL

(* Privacy mode does not outlive the connection that owns it, unless it    *)
(* was turned on by a thread the connection had stopped waiting for.       *)
THEOREM OwnerStays == Spec => []OwnerIsThere
<1>1. IInv => OwnerIsThere
  BY DEF IInv
<1>2. QED
  BY <1>1, Inductive, PTL

(***************************************************************************)
(* What the client was told.                                               *)
(***************************************************************************)
Knows(c) == mode.owner = c \/ notice[c] \/ unaware[c]

(* A connection that has turned the mode on, and not said so yet, owns it  *)
(* or has lost it in one of the ways its client can be wrong about.        *)
ToldInv ==
  \A c \in Conn :
    /\ conn[c] = "new" => ~told[c]
    /\ /\ conn[c] = "open"
       /\ (task[c] = "idle" /\ told[c]) \/ task[c] = "check" \/ thread[c] = "true"
       => Knows(c)

OwnStep(c) ==
  \/ Step(c) \/ Login(c) \/ RequestOff(c) \/ Notified(c) \/ Close(c)
  \/ \E k \in Impl : RequestOn(c, k)

FreeStep ==
  \/ CtrlP \/ HookExit
  \/ \E k \in Impl : Switch(k)
  \/ \E c \in Conn, k \in Impl : TurnOnLate(c, k)

(* The mode of a connection is taken from it by others only with a notice  *)
(* or behind its back.                                                     *)
LEMMA OthersKeep ==
  ASSUME IInv, NEW c \in Conn, conn[c] = "open", Knows(c),
         \/ FreeStep
         \/ \E d \in Conn \ {c} : OwnStep(d)
  PROVE  Knows(c)'
<1> USE PrivacyModeAssumption
<1>0. Good(mode) /\ TypeOK /\ TaskInv
  BY DEF IInv, TypeOK, Good
<1>1. CASE CtrlP
  <2>1. PICK m \in TurnOff(mode, None) :
          \/ mode' = m /\ notice' \in NotifyAll(m) /\ UNCHANGED unaware
          \/ Behind(m) /\ UNCHANGED notice
    BY <1>1 DEF CtrlP
  <2>2. m.owner \in {None, mode.owner}
    BY <1>0, TurnOffLemma
  <2>3. CASE mode' = m /\ notice' \in NotifyAll(m) /\ UNCHANGED unaware
    <3>1. notice[c] => notice'[c]
      BY <1>0, <2>3 DEF NotifyAll, TypeOK
    <3>2. mode.owner = c => m.owner = c \/ notice'[c]
      BY <1>0, <2>2, <2>3 DEF NotifyAll, TypeOK
    <3>. QED BY <2>3, <3>1, <3>2 DEF Knows
  <2>4. CASE Behind(m) /\ UNCHANGED notice
    BY <1>0, <2>4 DEF Behind, Knows, TypeOK
  <2>. QED BY <2>1, <2>3, <2>4
<1>2. CASE HookExit
  BY <1>0, <1>2 DEF HookExit, Knows, Mode
<1>3. CASE (\E k \in Impl : Switch(k)) \/ (\E d \in Conn, k \in Impl : TurnOnLate(d, k))
  <2>1. UNCHANGED notice /\ \E m : Behind(m)
    BY <1>3 DEF Switch, TurnOnLate
  <2>. QED BY <2>1 DEF Behind, Knows
<1>4. ASSUME NEW d \in Conn \ {c}, OwnStep(d) PROVE Knows(c)'
  <2>1. CASE TurnOnSync(d) \/ TurnOnThread(d)
    <3>1. /\ notice' = notice
          /\ unaware'[c] = unaware[c]
          /\ want[d] \in Impl
          /\ \E o \in TurnOn(mode, d, want[d]) : mode' = o.mode
      BY <1>0, <2>1 DEF TurnOnSync, TurnOnThread, TypeOK, TaskInv, None
    <3>2. mode.owner = c => mode' = mode
      BY SMT, <1>0, <3>1, TurnOnLemma DEF Occupied
    <3>. QED BY <3>1, <3>2 DEF Knows
  <2>2. CASE Undo(d) \/ CloseOff(d) \/ RequestOff(d)
    <3>1. /\ notice' = notice
          /\ unaware'[c] = unaware[c]
          /\ mode' \in TurnOff(mode, d)
      BY <1>0, <2>2 DEF Undo, CloseOff, RequestOff, Tell, TypeOK
    <3>2. mode.owner = c => mode' = mode
      BY <1>0, <3>1 DEF TurnOff, MayTurnOff
    <3>. QED BY <3>1, <3>2 DEF Knows
  <2>3. CASE ForceOff(d)
    <3>1. /\ notice' = notice
          /\ unaware'[c] = (unaware[c] \/ (mode.owner = c /\ mode'.owner # c))
      BY <2>3 DEF ForceOff
    <3>. QED BY <3>1 DEF Knows
  <2>4. CASE \/ AwaitDone(d) \/ AwaitTimeout(d) \/ CheckErr(d) \/ Failed(d)
             \/ Login(d) \/ Notified(d) \/ Close(d) \/ \E k \in Impl : RequestOn(d, k)
    <3>1. mode' = mode /\ notice'[c] = notice[c] /\ unaware'[c] = unaware[c]
      BY <1>0, <2>4 DEF AwaitDone, AwaitTimeout, CheckErr, Failed, Login, Notified,
                        Close, RequestOn, Tell, TypeOK
    <3>. QED BY <3>1 DEF Knows
  <2>5. CASE Retain(d) \/ Count(d)
    BY <2>5 DEF Retain, Count, Knows
  <2>6. CASE ResetAll(d)
    <3>1. UNCHANGED notice /\ \E m : Behind(m)
      BY <2>6 DEF ResetAll
    <3>. QED BY <3>1 DEF Behind, Knows
  <2>. QED BY <1>4, <2>1, <2>2, <2>3, <2>4, <2>5, <2>6 DEF OwnStep, Step
<1>. QED BY <1>1, <1>2, <1>3, <1>4 DEF FreeStep

(* And they do not touch where its task is and what its client was told.   *)
LEMMA OthersFrame ==
  ASSUME TypeOK, NEW c \in Conn,
         \/ FreeStep
         \/ \E d \in Conn \ {c} : OwnStep(d)
  PROVE  conn'[c] = conn[c] /\ task'[c] = task[c] /\ thread'[c] = thread[c]
         /\ told'[c] = told[c]
<1>1. CASE FreeStep
  BY <1>1 DEF FreeStep, CtrlP, HookExit, Switch, TurnOnLate
<1>2. ASSUME NEW d \in Conn \ {c}, OwnStep(d)
      PROVE  conn'[c] = conn[c] /\ task'[c] = task[c] /\ thread'[c] = thread[c]
             /\ told'[c] = told[c]
  <2>1. CASE TurnOnSync(d) \/ TurnOnThread(d) \/ AwaitDone(d) \/ AwaitTimeout(d)
    BY <2>1 DEF TurnOnSync, TurnOnThread, AwaitDone, AwaitTimeout, Goto, TypeOK
  <2>2. CASE CheckErr(d) \/ Undo(d) \/ Failed(d) \/ ForceOff(d) \/ CloseOff(d)
    BY <2>2 DEF CheckErr, Undo, Failed, ForceOff, CloseOff, Goto, Tell, TypeOK
  <2>3. CASE Login(d) \/ RequestOff(d) \/ Notified(d) \/ Close(d)
             \/ \E k \in Impl : RequestOn(d, k)
    BY <2>3 DEF Login, RequestOff, Notified, Close, RequestOn, Goto, Tell, TypeOK
  <2>4. CASE Retain(d) \/ Count(d) \/ ResetAll(d)
    BY <2>4 DEF Retain, Count, ResetAll, TypeOK
  <2>. QED BY <1>2, <2>1, <2>2, <2>3, <2>4 DEF OwnStep, Step
<1>. QED BY <1>1, <1>2

(* Its own steps: only a success makes it say that the mode is on.         *)
LEMMA OwnTold ==
  ASSUME IInv, ToldInv, NEW c \in Conn, OwnStep(c)
  PROVE  /\ conn'[c] = "new" => ~told'[c]
         /\ /\ conn'[c] = "open"
            /\ (task'[c] = "idle" /\ told'[c]) \/ task'[c] = "check" \/ thread'[c] = "true"
            => Knows(c)'
<1> USE PrivacyModeAssumption
<1>0. Good(mode) /\ TypeOK /\ TaskInv
  BY DEF IInv, TypeOK, Good
<1>t. /\ conn[c] = "new" => ~told[c]
      /\ /\ conn[c] = "open"
         /\ (task[c] = "idle" /\ told[c]) \/ task[c] = "check" \/ thread[c] = "true"
         => Knows(c)
  BY DEF ToldInv
<1>1. CASE TurnOnSync(c)
  <2>1. want[c] \in Impl /\ conn[c] = "open" /\ thread[c] = None
    BY <1>0, <1>1 DEF TaskInv, TurnOnSync
  <2>2. PICK o \in TurnOn(mode, c, want[c]) :
          /\ mode' = o.mode
          /\ Goto(c, AfterTurnOn(o.res))
          /\ told' = [told EXCEPT ![c] = @ /\ o.res # "false"]
    BY <1>1 DEF TurnOnSync
  <2>3. o.res \in {"true", "false", "err"} /\ (o.res = "true" => mode'.owner = c)
    BY SMT, <1>0, <2>1, <2>2, TurnOnLemma
  <2>4. /\ conn'[c] = "open" /\ thread'[c] = None
        /\ o.res = "err" => task'[c] = "failed"
        /\ o.res = "false" => task'[c] = "idle" /\ ~told'[c]
    BY <1>0, <1>1, <2>1, <2>2 DEF TurnOnSync, Goto, AfterTurnOn, TypeOK
  <2>. QED BY <2>3, <2>4 DEF Knows, None
<1>2. CASE TurnOnThread(c)
  <2>1. want[c] \in Impl /\ conn[c] = "open" /\ task[c] = "await"
    BY <1>0, <1>2 DEF TaskInv, TurnOnThread, None
  <2>2. PICK o \in TurnOn(mode, c, want[c]) :
          /\ mode' = o.mode
          /\ thread' = [thread EXCEPT ![c] = o.res]
    BY <1>2 DEF TurnOnThread
  <2>3. o.res = "true" => mode'.owner = c
    BY SMT, <1>0, <2>1, <2>2, TurnOnLemma
  <2>4. conn'[c] = "open" /\ task'[c] = "await" /\ thread'[c] = o.res
    BY <1>0, <1>2, <2>1, <2>2 DEF TurnOnThread, TypeOK
  <2>. QED BY <2>3, <2>4 DEF Knows
<1>3. CASE AwaitDone(c)
  <2>1. /\ conn'[c] = "open" /\ conn[c] = "open" /\ thread'[c] = None
        /\ task'[c] = AfterTurnOn(thread[c])
        /\ told'[c] = (told[c] /\ thread[c] # "false")
        /\ UNCHANGED <<mode, notice, unaware>>
    BY <1>0, <1>3 DEF AwaitDone, Goto, TypeOK, TaskInv
  <2>2. CASE thread[c] = "true"
    BY <1>t, <2>1, <2>2 DEF Knows
  <2>3. CASE thread[c] \in {"false", "err"}
    BY <2>1, <2>3 DEF AfterTurnOn, None
  <2>4. thread[c] # None
    BY <1>0, <1>3 DEF AwaitDone, TaskInv
  <2>. QED BY <1>0, <1>3, <2>2, <2>3, <2>4 DEF AwaitDone, TypeOK
<1>4. CASE AwaitTimeout(c)
  <2>1. conn'[c] = "open" /\ task'[c] = "failed" /\ thread'[c] = None
    BY <1>0, <1>4 DEF AwaitTimeout, Goto, TypeOK, TaskInv
  <2>. QED BY <2>1 DEF None
<1>5. CASE CheckErr(c)
  <2>1. /\ conn'[c] = conn[c] /\ conn[c] = "open" /\ task[c] = "check"
        /\ thread'[c] = thread[c] /\ thread[c] = None
        /\ UNCHANGED <<mode, notice>>
        /\ unaware'[c] = unaware[c]
    BY <1>0, <1>5 DEF CheckErr, Tell, TypeOK, TaskInv
  <2>. QED BY <1>t, <2>1 DEF Knows
<1>6. CASE Undo(c) \/ ForceOff(c)
  BY <1>0, <1>6 DEF Undo, ForceOff, Goto, Tell, TypeOK, TaskInv, None
<1>7. CASE Failed(c)
  BY SMT, <1>0, <1>7 DEF Failed, Goto, Tell, TypeOK, TaskInv, None
<1>8. CASE CloseOff(c)
  BY <1>0, <1>8 DEF CloseOff, TypeOK
<1>9. CASE Login(c)
  <2>1. task[c] = "idle" /\ thread[c] = None /\ ~told[c]
    BY <1>0, <1>9, <1>t DEF Login, TaskInv
  <2>. QED BY <1>0, <1>9, <2>1 DEF Login, TypeOK, None
<1>10. CASE RequestOff(c)
  <2>1. conn[c] = "open" /\ task[c] = "idle" /\ thread[c] = None
    BY <1>0, <1>10 DEF RequestOff, TaskInv
  <2>2. conn' = conn /\ task' = task /\ thread' = thread /\ notice' = notice
    BY <1>10 DEF RequestOff
  <2>3. PICK m \in TurnOff(mode, c) :
          /\ mode' = m
          /\ IF m = Off(mode) THEN Tell(c, FALSE) ELSE UNCHANGED <<told, unaware>>
    BY <1>10 DEF RequestOff
  <2>4. CASE m = Off(mode)
    BY <1>0, <2>1, <2>2, <2>3, <2>4 DEF Tell, TypeOK, None
  <2>5. CASE m # Off(mode)
    <3>1. m.owner = mode.owner
      BY SMT, <2>3, <2>5 DEF TurnOff, PostFailed, Mode
    <3>. QED BY <1>t, <2>1, <2>2, <2>3, <2>5, <3>1 DEF Knows, None
  <2>. QED BY <2>4, <2>5
<1>11. CASE Notified(c) \/ Close(c)
  BY <1>0, <1>11 DEF Notified, Close, Tell, TypeOK, TaskInv, None
<1>12. CASE \E k \in Impl : RequestOn(c, k)
  BY <1>0, <1>12 DEF RequestOn, Goto, TypeOK, None
<1>13. CASE Retain(c) \/ Count(c) \/ ResetAll(c)
  BY <1>0, <1>13 DEF Retain, Count, ResetAll, TypeOK
<1>. QED BY <1>1, <1>2, <1>3, <1>4, <1>5, <1>6, <1>7, <1>8, <1>9, <1>10, <1>11, <1>12, <1>13
         DEF OwnStep, Step

(* A client that believes the mode to be on is right, or will be told, or  *)
(* its mode was ended behind its back, for any number of connections.      *)
THEOREM ToldTruthHolds == Spec => []ToldTruth
<1>1. Init => ToldInv
  BY DEF Init, ToldInv, None
<1>2. IInv /\ ToldInv /\ [Next]_vars => ToldInv'
  <2> SUFFICES ASSUME IInv, ToldInv, [Next]_vars PROVE ToldInv'
    OBVIOUS
  <2>1. CASE UNCHANGED vars
    BY <2>1 DEF vars, ToldInv, Knows
  <2>2. CASE FreeStep \/ \E d \in Conn : OwnStep(d)
    <3> SUFFICES ASSUME NEW c \in Conn
        PROVE  /\ conn'[c] = "new" => ~told'[c]
               /\ /\ conn'[c] = "open"
                  /\ \/ task'[c] = "idle" /\ told'[c]
                     \/ task'[c] = "check" \/ thread'[c] = "true"
                  => Knows(c)'
      BY DEF ToldInv
    <3>1. CASE OwnStep(c)
      BY <3>1, OwnTold
    <3>2. CASE FreeStep \/ \E d \in Conn \ {c} : OwnStep(d)
      <4>1. conn'[c] = conn[c] /\ task'[c] = task[c] /\ thread'[c] = thread[c]
            /\ told'[c] = told[c]
        BY <3>2, OthersFrame DEF IInv
      <4>2. conn[c] = "open" /\ Knows(c) => Knows(c)'
        BY <3>2, OthersKeep
      <4>. QED BY <4>1, <4>2 DEF ToldInv
    <3>. QED BY <2>2, <3>1, <3>2
  <2>. QED BY <2>1, <2>2 DEF Next, FreeStep, OwnStep
<1>3. ToldInv => ToldTruth
  BY DEF ToldInv, ToldTruth, Knows
<1>. QED BY <1>1, <1>2, <1>3, Inductive, PTL DEF Spec
=============================================================================

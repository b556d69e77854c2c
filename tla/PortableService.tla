--------------------------- MODULE PortableService ---------------------------
(***************************************************************************)
(* The elevated helper of a host that is not installed                     *)
(* (src/server/portable_service.rs, and the loop of the video service of   *)
(* the primary display that uses it).                                      *)
(*                                                                         *)
(* The main process starts a helper process, which connects back over an   *)
(* IPC pipe.  Both ends ping each other; the answer to the first ping sets *)
(* RUNNING.  While it is set, input goes to the helper over the pipe, and  *)
(* frames come from the helper's capture thread through a shared memory    *)
(* with a write and a read counter and no lock between the processes.      *)
(*                                                                         *)
(* A second helper can be started before the first has answered; its pipe  *)
(* task then waits for the one receiver of input.  A memory that main has  *)
(* given up stays mapped in the helpers that opened it, and is not the one *)
(* a later start creates.  Pixels are left out; timers tick at any time.   *)
(***************************************************************************)
EXTENDS Naturals, Sequences, FiniteSets, SequencesExt

CONSTANTS
  Proc,                \* helper processes, each started at most once
  Geo,                 \* sizes a display can have
  None,                \* no capturer; no size
  Uses,                \* situations, see UseType
  MAX_NACK, MAX_DXGI_FAIL_TIME,
  MaxCounter           \* i32::MAX

ASSUME PortableServiceAssumption ==
  /\ None \notin Geo
  /\ {MAX_NACK, MAX_DXGI_FAIL_TIME} \subseteq Nat /\ MaxCounter \in Nat \ {0}

VARIABLES
  use,                 \* the situation, fixed by Init
  main, remote,        \* is the main process up; is a remote connection authorized
  running, shmem,      \* RUNNING; is SHMEM Some
  faults,
  rx, sent, handled, lost,          \* input: queued for a helper, sent, handled, lost with a helper
  proc, mapped, exit,               \* helper's stage, does it map SHMEM, its EXIT
  task, mnack, toProc,              \* main's end of the pipe of every helper
  ipc, nack, toMain,                \* the helper's end
  mem, cap, vid, screen             \* shared memory, capture threads, video service, display

host == <<use, main, remote, running, shmem>>
input == <<rx, sent, handled, lost>>
life == <<proc, mapped, exit>>
pipe == <<task, mnack, toProc, ipc, nack, toMain>>
picture == <<mem, cap, vid, screen>>
vars == <<host, faults, input, life, pipe, picture>>

\* procs: helpers that may be started; quick: QUICK_SUPPORT; stays: main and its remote
\* connection stay; frames: the exchange of frames is looked at, and of the timers only
\* main's, until RUNNING is set; primary: the primary display's place in the list of
\* displays, which is that of get_primary_2; inputs and faults: how many.
UseType ==
  [procs : SUBSET Proc, quick : BOOLEAN, stays : BOOLEAN, frames : BOOLEAN, primary : Nat,
   inputs : Nat, faults : Nat]

\* The helper's Ping and ConnCount(None) leave together and are one message here, and
\* so are the Pong and the ConnCount that answer them.
Msg(t) == [t |-> t, n |-> 0]
Answer(n) == [t |-> "answer", n |-> n]
Event(n) == [t |-> "input", n |-> n]

Events(q) == {m.n : m \in {e \in Range(q) : e.t = "input"}}

\* A ping or an answer that is still unread is not queued a second time.
Once(q, m) == IF m \in Range(q) THEN q ELSE Append(q, m)

Fault == faults < use.faults /\ faults' = faults + 1

(***************************************************************************)
(* Shared memory: the counters of utils, CapturerPara, FrameInfo's size,   *)
(* the display whose picture the frame holds, and the WOULDBLOCK word.     *)
(* CapturerPara is read and written as a whole; between the reading and    *)
(* the writing the other process may write.                                *)
(***************************************************************************)
Zero == [w |-> 0, r |-> 0, recreate |-> FALSE, display |-> 0, timeout |-> 0, info |-> None,
         shows |-> 0, wouldblock |-> FALSE]

\* Timeouts tell apart the 33 ms of a new capturer and the one of the frame rate.
FIRST == 1
SPF == 2

(* mutant: the counter stops where it should wrap *)
NextCounterStops(iw) == IF iw = MaxCounter THEN iw ELSE iw + 1

\* increase_counter; its second test compares the write counter with itself.
NextCounter(iw) == IF iw = MaxCounter THEN 0 ELSE iw + 1

\* What the thread has read of CapturerPara is kept in d and tm.
NoCapture ==
  [pc |-> "top", c |-> None, first |-> FALSE, fails |-> 0, d |-> 0, tm |-> 0, iw |-> 0]

\* A capturer knows its display's index (last_current_display) and size.
Capturers == [gdi : BOOLEAN, d : 0 .. use.primary, geo : Geo]

NoVideo ==
  [pc |-> "enter", last |-> FALSE, info |-> None, geo |-> None, rec |-> FALSE, d |-> 0,
   took |-> FALSE]

\* The video thread holds the SHMEM mutex inside CapturerPortable::new and ::frame.
Locked == vid.pc \in {"para", "size", "pollpara", "ready", "copy", "info"}

Init ==
  /\ use \in Uses
  /\ main = "up" /\ remote = TRUE /\ running = FALSE /\ shmem = FALSE /\ faults = 0
  /\ rx = << >> /\ sent = 0 /\ handled = << >> /\ lost = {}
  /\ proc = [p \in Proc |-> "unused"]
  /\ mapped = [p \in Proc |-> FALSE] /\ exit = [p \in Proc |-> FALSE]
  /\ task = [p \in Proc |-> "none"] /\ ipc = [p \in Proc |-> "start"]
  /\ mnack = [p \in Proc |-> 0] /\ nack = [p \in Proc |-> 0]
  /\ toProc = [p \in Proc |-> << >>] /\ toMain = [p \in Proc |-> << >>]
  /\ mem = Zero /\ cap = [p \in Proc |-> NoCapture] /\ vid = NoVideo
  /\ screen \in [0 .. use.primary -> Geo] /\ screen[use.primary] = CHOOSE g \in Geo : TRUE

(***************************************************************************)
(* The main process.                                                       *)
(***************************************************************************)
\* SHMEM = None: what maps the old memory does not share the next one.
DropShmem == shmem' = FALSE /\ mapped' = [p \in Proc |-> FALSE]

\* start_portable_service, asked for by a connection, by its manager, or at the
\* start of a quick support host.
\* Helpers are alike and are started in a fixed order.
Start(p) ==
  /\ main = "up" /\ (remote \/ use.quick) /\ ~running /\ ~Locked
  /\ p \in use.procs /\ proc[p] = "unused" /\ p = CHOOSE q \in use.procs : proc[q] = "unused"
  /\ mem' = Zero
  /\ \/ shmem' = TRUE /\ proc' = [proc EXCEPT ![p] = "boot"] /\ UNCHANGED <<mapped, faults>>
     \/ Fault /\ DropShmem /\ proc' = [proc EXCEPT ![p] = "gone"]
  /\ UNCHANGED <<use, main, remote, running, input, exit, pipe, cap, vid, screen>>

\* drop_portable_service_shared_memory, when the main window closes.
WindowClosed ==
  /\ main = "up" /\ shmem /\ ~Locked /\ Fault
  /\ DropShmem
  /\ UNCHANGED <<use, main, remote, running, input, proc, exit, pipe, picture>>

RemoteChanges ==
  /\ main = "up" /\ ~use.stays /\ remote' = ~remote
  /\ UNCHANGED <<use, main, running, shmem, faults, input, life, pipe, picture>>

\* The main process ends, and with it the pipes and its hold on the memory.
Quit ==
  /\ main = "up" /\ ~use.stays /\ main' = "gone"
  /\ running' = FALSE /\ DropShmem
  /\ task' = [p \in Proc |-> IF task[p] = "none" THEN "none" ELSE "end"]
  /\ mnack' = [p \in Proc |-> 0] /\ toMain' = [p \in Proc |-> << >>]
  /\ vid' = NoVideo /\ rx' = << >>
  /\ UNCHANGED <<use, remote, faults, sent, handled, lost, proc, exit, toProc, ipc, nack, mem, cap,
                 screen>>

\* handle_mouse, handle_pointer and handle_key.
Input ==
  /\ main = "up" /\ remote /\ sent < use.inputs
  /\ sent' = sent + 1
  /\ IF running THEN rx' = Append(rx, sent + 1) /\ UNCHANGED handled
     ELSE handled' = Append(handled, sent + 1) /\ UNCHANGED rx
  /\ UNCHANGED <<host, faults, lost, life, pipe, picture>>

(***************************************************************************)
(* The pipe, main's end: the task start_ipc_server_async spawns for every  *)
(* helper that connects.                                                   *)
(***************************************************************************)
\* Timers tick at any time, unless the situation stops them once RUNNING is set.
Ticking == use.frames => ~running

\* stream.send; nothing arrives at a helper that has left its loop.
SendToProc(p, m) ==
  toProc' = IF ipc[p] = "loop" THEN [toProc EXCEPT ![p] = Once(@, m)] ELSE toProc

\* The task holds the receiver of input for as long as it loops.
TakeReceiver(p) ==
  /\ main = "up" /\ task[p] = "wait" /\ \A q \in Proc : task[q] # "loop"
  /\ task' = [task EXCEPT ![p] = "loop"]
  /\ UNCHANGED <<host, faults, input, life, mnack, toProc, ipc, nack, toMain, picture>>

(* mutant: RUNNING stays set when the task ends *)
EndTaskRunning(p) ==
  /\ task' = [task EXCEPT ![p] = "end"] /\ UNCHANGED running
  /\ mnack' = [mnack EXCEPT ![p] = 0] /\ toMain' = [toMain EXCEPT ![p] = << >>]

\* The task breaks from its loop: RUNNING is cleared, then the receiver is freed.  Its
\* counter and what it has not read are gone.
EndTask(p) ==
  /\ task' = [task EXCEPT ![p] = "end"] /\ running' = FALSE
  /\ mnack' = [mnack EXCEPT ![p] = 0] /\ toMain' = [toMain EXCEPT ![p] = << >>]

\* A message of the helper.
TaskRead(p) ==
  /\ task[p] = "loop" /\ toMain[p] # << >>
  /\ \/ /\ Head(toMain[p]).t = "ping"
        /\ toMain' = [toMain EXCEPT ![p] = Tail(@)]
        /\ SendToProc(p, Answer(IF remote \/ use.quick THEN 1 ELSE 0))
        /\ UNCHANGED <<running, task, mnack>>
     \/ /\ Head(toMain[p]).t = "pong"
        /\ toMain' = [toMain EXCEPT ![p] = Tail(@)]
        /\ running' = TRUE /\ mnack' = [mnack EXCEPT ![p] = 0]
        /\ UNCHANGED <<task, toProc>>
     \/ /\ Head(toMain[p]).t = "close"
        /\ EndTask(p) /\ UNCHANGED toProc
  /\ UNCHANGED <<use, main, remote, shmem, faults, input, life, ipc, nack, picture>>

\* The helper's end is closed and what it had written is read.
TaskClosed(p) ==
  /\ task[p] = "loop" /\ ipc[p] = "end" /\ toMain[p] = << >>
  /\ EndTask(p)
  /\ UNCHANGED <<use, main, remote, shmem, faults, input, life, toProc, ipc, nack, picture>>

TaskTick(p) ==
  /\ task[p] = "loop" /\ Ticking
  /\ IF mnack[p] + 1 > MAX_NACK
     THEN EndTask(p) /\ UNCHANGED toProc
     ELSE /\ mnack' = [mnack EXCEPT ![p] = @ + 1]
          /\ SendToProc(p, Msg("ping"))
          /\ UNCHANGED <<task, running, toMain>>
  /\ UNCHANGED <<use, main, remote, shmem, faults, input, life, ipc, nack, picture>>

(* mutant: the event is forwarded and kept *)
TaskInputKept(p) ==
  /\ task[p] = "loop" /\ rx # << >>
  /\ SendToProc(p, Event(Head(rx)))
  /\ lost' = IF ipc[p] = "loop" THEN lost ELSE lost \cup {Head(rx)}
  /\ UNCHANGED <<host, faults, rx, sent, handled, life, task, mnack, ipc, nack, toMain, picture>>

\* rx.recv: an event for the helper, lost when its end is closed.
TaskInput(p) ==
  /\ task[p] = "loop" /\ rx # << >>
  /\ rx' = Tail(rx)
  /\ SendToProc(p, Event(Head(rx)))
  /\ lost' = IF ipc[p] = "loop" THEN lost ELSE lost \cup {Head(rx)}
  /\ UNCHANGED <<host, faults, sent, handled, life, task, mnack, ipc, nack, toMain, picture>>

(***************************************************************************)
(* The helper process: run_portable_service and its IPC thread.            *)
(***************************************************************************)
\* SharedMemory::open_existing; without it the process returns.
Boot(p) ==
  /\ proc[p] = "boot"
  /\ proc' = [proc EXCEPT ![p] = IF shmem THEN "up" ELSE "gone"]
  /\ mapped' = [mapped EXCEPT ![p] = shmem]
  /\ UNCHANGED <<host, faults, input, exit, pipe, picture>>

\* ipc::connect, and the task that is spawned for the connection.
ConnectIpc(p) ==
  /\ proc[p] = "up" /\ ipc[p] = "start" /\ main = "up"
  /\ ipc' = [ipc EXCEPT ![p] = "loop"] /\ task' = [task EXCEPT ![p] = "wait"]
  /\ UNCHANGED <<host, faults, input, life, mnack, toProc, nack, toMain, picture>>

\* The IPC thread ends, what is unread is dropped, and EXIT is set.
EndIpc(p) ==
  /\ ipc' = [ipc EXCEPT ![p] = "end"] /\ exit' = [exit EXCEPT ![p] = TRUE]
  /\ nack' = [nack EXCEPT ![p] = 0]
  /\ toProc' = [toProc EXCEPT ![p] = << >>]
  /\ lost' = lost \cup Events(toProc[p])

ConnectFails(p) ==
  /\ proc[p] = "up" /\ ipc[p] = "start"
  /\ IF main = "up" THEN Fault ELSE UNCHANGED faults
  /\ EndIpc(p)
  /\ UNCHANGED <<host, rx, sent, handled, proc, mapped, task, mnack, toMain, picture>>

\* stream.send of the helper; nothing arrives once main's task is over.
Sent(p, q) == IF task[p] = "end" THEN toMain ELSE [toMain EXCEPT ![p] = q]

(* mutant: a count of zero is ignored *)
ProcAnswerStays(p) ==
  /\ Head(toProc[p]).t = "answer"
  /\ nack' = [nack EXCEPT ![p] = 0]
  /\ toProc' = [toProc EXCEPT ![p] = Tail(@)] /\ UNCHANGED <<ipc, exit, lost, toMain>>

\* Pong and ConnCount: with no remote connection left, the helper says so and ends.
\* A quick support host leaves the count out.
ProcAnswer(p) ==
  /\ Head(toProc[p]).t = "answer"
  /\ IF Head(toProc[p]).n = 0
     THEN toMain' = Sent(p, Append(toMain[p], Msg("close"))) /\ EndIpc(p)
     ELSE /\ nack' = [nack EXCEPT ![p] = 0]
          /\ toProc' = [toProc EXCEPT ![p] = Tail(@)] /\ UNCHANGED <<ipc, exit, lost, toMain>>

\* A message of main.
ProcRead(p) ==
  /\ ipc[p] = "loop" /\ toProc[p] # << >>
  /\ \/ /\ Head(toProc[p]).t = "ping"
        /\ toProc' = [toProc EXCEPT ![p] = Tail(@)]
        /\ toMain' = Sent(p, Once(toMain[p], Msg("pong")))
        /\ UNCHANGED <<nack, handled, ipc, exit, lost>>
     \/ ProcAnswer(p) /\ UNCHANGED handled
     \/ /\ Head(toProc[p]).t = "input"
        /\ toProc' = [toProc EXCEPT ![p] = Tail(@)]
        /\ handled' = Append(handled, Head(toProc[p]).n)
        /\ UNCHANGED <<toMain, nack, ipc, exit, lost>>
  /\ UNCHANGED <<host, faults, rx, sent, proc, mapped, task, mnack, picture>>

ProcClosed(p) ==
  /\ ipc[p] = "loop" /\ task[p] = "end" /\ toProc[p] = << >>
  /\ EndIpc(p)
  /\ UNCHANGED <<host, faults, rx, sent, handled, proc, mapped, task, mnack, toMain, picture>>

\* The helper pings too, and asks for the number of remote connections.
ProcTick(p) ==
  /\ ipc[p] = "loop" /\ ~use.frames
  /\ IF nack[p] + 1 > MAX_NACK
     THEN EndIpc(p) /\ UNCHANGED toMain
     ELSE /\ nack' = [nack EXCEPT ![p] = @ + 1]
          /\ toMain' = Sent(p, Once(toMain[p], Msg("ping")))
          /\ UNCHANGED <<ipc, exit, toProc, lost>>
  /\ UNCHANGED <<host, faults, rx, sent, handled, proc, mapped, task, mnack, picture>>

Gone(p) ==
  /\ proc' = [proc EXCEPT ![p] = "gone"] /\ mapped' = [mapped EXCEPT ![p] = FALSE]
  /\ cap' = [cap EXCEPT ![p] = NoCapture]
  /\ EndIpc(p)
  /\ UNCHANGED <<host, rx, sent, handled, task, mnack, toMain, mem, vid, screen>>

\* run_exit_check: 50 ms after EXIT is set the process exits.
ExitCheck(p) == proc[p] = "up" /\ exit[p] /\ Gone(p) /\ UNCHANGED faults

\* The helper is killed.
Killed(p) == proc[p] = "up" /\ Fault /\ Gone(p)

(***************************************************************************)
(* run_capture.  The thread of a helper whose memory main has given up     *)
(* writes where nobody reads, and is left out.                             *)
(***************************************************************************)
At(p, pc) == proc[p] = "up" /\ mapped[p] /\ use.frames /\ cap[p].pc = pc
AtTop(p) == At(p, "top") /\ ~exit[p]
Becomes(p, c) == cap' = [cap EXCEPT ![p] = c]
CapFrame == UNCHANGED <<host, input, proc, mapped, pipe, vid, screen>>

\* A capturer is needed: the index of its display is read ...
ReadDisplay(p) ==
  /\ AtTop(p) /\ cap[p].c = None
  /\ Becomes(p, [cap[p] EXCEPT !.d = mem.display, !.pc = "create"])
  /\ UNCHANGED <<mem, exit, faults>> /\ CapFrame

\* ... and the displays are listed, with the display's size of this moment.
Create(p) ==
  /\ At(p, "create")
  /\ LET gdi == cap[p].fails > MAX_DXGI_FAIL_TIME IN
     Becomes(p, [cap[p] EXCEPT !.c = [gdi |-> gdi, d |-> cap[p].d, geo |-> screen[cap[p].d]],
                               !.first = FALSE, !.fails = IF gdi THEN 0 ELSE @,
                               !.d = 0, !.pc = "readpara"])
  /\ UNCHANGED <<mem, exit, faults>> /\ CapFrame

\* The displays cannot be listed, or the index is beyond them.
NoDisplay(p) ==
  /\ At(p, "create") /\ Fault
  /\ exit' = [exit EXCEPT ![p] = TRUE]
  /\ Becomes(p, [cap[p] EXCEPT !.d = 0, !.pc = "top"])
  /\ UNCHANGED mem /\ CapFrame

\* The new capturer answers the request, keeping the index and the timeout it reads first.
ReadPara(p) ==
  /\ At(p, "readpara")
  /\ Becomes(p, [cap[p] EXCEPT !.d = mem.display, !.tm = mem.timeout, !.pc = "writepara"])
  /\ UNCHANGED <<mem, exit, faults>> /\ CapFrame

WritePara(p) ==
  /\ At(p, "writepara")
  /\ mem' = [mem EXCEPT !.recreate = FALSE, !.display = cap[p].d, !.timeout = cap[p].tm]
  /\ Becomes(p, [cap[p] EXCEPT !.d = 0, !.tm = 0, !.pc = "wait"])
  /\ UNCHANGED <<exit, faults>> /\ CapFrame

\* A capturer exists: it is dropped when main asks for a new one or for another display.
Recreate(p) ==
  /\ AtTop(p) /\ cap[p].c # None
  /\ Becomes(p, IF mem.recreate \/ mem.display # cap[p].c.d THEN [cap[p] EXCEPT !.c = None]
                ELSE [cap[p] EXCEPT !.pc = "wait"])
  /\ UNCHANGED <<mem, exit, faults>> /\ CapFrame

\* counter_equal: after its first frame a capturer waits for the reader.
WaitReader(p) ==
  /\ At(p, "wait")
  /\ Becomes(p, [cap[p] EXCEPT !.pc = IF cap[p].first /\ mem.w # mem.r THEN "top" ELSE "frame"])
  /\ UNCHANGED <<mem, exit, faults>> /\ CapFrame

\* Capturer::frame (external): a DXGI capturer fails once its display has another
\* size, a GDI capturer goes on with the size it was made for.
Captures(c) == c.gdi \/ c.geo = screen[c.d]

\* The frame, its size and WOULDBLOCK are written, and the counter is read.
FrameOk(p) ==
  /\ At(p, "frame") /\ Captures(cap[p].c)
  /\ mem' = [mem EXCEPT !.info = cap[p].c.geo, !.shows = cap[p].c.d, !.wouldblock = TRUE]
  /\ Becomes(p, [cap[p] EXCEPT !.iw = mem.w, !.pc = "count"])
  /\ UNCHANGED <<exit, faults>> /\ CapFrame

IncreaseCounter(p) ==
  /\ At(p, "count")
  /\ mem' = [mem EXCEPT !.w = NextCounter(cap[p].iw)]
  /\ Becomes(p, [cap[p] EXCEPT !.first = TRUE, !.fails = 0, !.iw = 0, !.pc = "top"])
  /\ UNCHANGED <<exit, faults>> /\ CapFrame

\* No new picture.
FrameWouldBlock(p) ==
  /\ At(p, "frame") /\ Captures(cap[p].c)
  /\ mem' = [mem EXCEPT !.wouldblock = TRUE]
  /\ Becomes(p, [cap[p] EXCEPT !.pc = "top"])
  /\ UNCHANGED <<exit, faults>> /\ CapFrame

\* An error of the capturer; errors of DXGI are counted, and end in GDI.
FrameFails(p) ==
  /\ At(p, "frame") /\ IF Captures(cap[p].c) THEN Fault ELSE UNCHANGED faults
  /\ LET f == IF cap[p].c.gdi THEN cap[p].fails ELSE cap[p].fails + 1 IN
     IF f > MAX_DXGI_FAIL_TIME
     THEN /\ mem' = [mem EXCEPT !.wouldblock = FALSE]
          /\ Becomes(p, [cap[p] EXCEPT !.c = None, !.fails = f, !.pc = "top"])
     ELSE Becomes(p, [cap[p] EXCEPT !.fails = f, !.pc = "top"]) /\ UNCHANGED mem
  /\ UNCHANGED exit /\ CapFrame

\* An error after which desktop_changed() is true.
DesktopChanged(p) ==
  /\ At(p, "frame") /\ Fault
  /\ Becomes(p, [cap[p] EXCEPT !.c = None, !.pc = "top"])
  /\ UNCHANGED <<mem, exit>> /\ CapFrame

Capture(p) ==
  \/ ReadDisplay(p) \/ Create(p) \/ NoDisplay(p) \/ ReadPara(p) \/ WritePara(p) \/ Recreate(p)
  \/ WaitReader(p) \/ FrameOk(p) \/ IncreaseCounter(p)
  \/ FrameWouldBlock(p) \/ FrameFails(p) \/ DesktopChanged(p)

(***************************************************************************)
(* The video service of the primary display.                               *)
(***************************************************************************)
VidAt(pc) == main = "up" /\ vid.pc = pc
VidFrame == UNCHANGED <<host, faults, input, life, pipe, cap, screen>>

\* run: RUNNING is read once, and decides on the capturer.
Enter ==
  /\ VidAt("enter") /\ remote
  /\ vid' = [NoVideo EXCEPT !.last = running, !.info = screen[use.primary],
                            !.pc = IF running /\ use.frames THEN "new" ELSE "loop"]
  /\ UNCHANGED mem /\ VidFrame

\* CapturerPortable::new wipes the memory and asks for a capturer ...
NewWipe ==
  /\ VidAt("new")
  /\ IF shmem THEN mem' = Zero /\ vid' = [vid EXCEPT !.pc = "para"]
     ELSE vid' = [vid EXCEPT !.pc = "size"] /\ UNCHANGED mem
  /\ VidFrame

NewPara ==
  /\ VidAt("para")
  /\ mem' = [mem EXCEPT !.recreate = TRUE, !.display = use.primary, !.timeout = FIRST,
                         !.wouldblock = TRUE]
  /\ vid' = [vid EXCEPT !.pc = "size"] /\ VidFrame

\* ... and remembers the display's size, read on its own.
NewSize ==
  /\ VidAt("size")
  /\ vid' = [vid EXCEPT !.geo = screen[use.primary], !.pc = "loop"]
  /\ UNCHANGED mem /\ VidFrame

\* The top of the loop: nobody watches, RUNNING has changed, or another round with
\* the helper.  Rounds with a capturer of main's own change nothing here.
Loop ==
  /\ VidAt("loop")
  /\ IF ~remote \/ vid.last # running THEN vid' = NoVideo
     ELSE vid.last /\ use.frames /\ vid' = [vid EXCEPT !.took = FALSE, !.pc = "poll"]
  /\ UNCHANGED mem /\ VidFrame

\* try_broadcast_display_changed, once a second.
DisplayChanged ==
  /\ VidAt("loop") /\ vid.info # screen[use.primary]
  /\ vid' = NoVideo
  /\ UNCHANGED mem /\ VidFrame

\* CapturerPortable::frame.  An error other than WouldBlock ends run.
Poll ==
  /\ VidAt("poll")
  /\ vid' = IF ~shmem THEN NoVideo
            ELSE IF mem.timeout # SPF
                 THEN [vid EXCEPT !.rec = mem.recreate, !.d = mem.display, !.pc = "pollpara"]
                 ELSE [vid EXCEPT !.pc = "ready"]
  /\ UNCHANGED mem /\ VidFrame

PollPara ==
  /\ VidAt("pollpara")
  /\ mem' = [mem EXCEPT !.recreate = vid.rec, !.display = vid.d, !.timeout = SPF]
  /\ vid' = [vid EXCEPT !.rec = FALSE, !.d = 0, !.pc = "ready"] /\ VidFrame

\* counter_ready reads both counters, then copies the write counter.
Ready ==
  /\ VidAt("ready")
  /\ vid' = IF mem.w # mem.r THEN [vid EXCEPT !.pc = "copy"]
            ELSE IF mem.wouldblock THEN [vid EXCEPT !.pc = "loop"]
            ELSE NoVideo
  /\ UNCHANGED mem /\ VidFrame

CopyCounter ==
  /\ VidAt("copy")
  /\ mem' = [mem EXCEPT !.r = mem.w]
  /\ vid' = [vid EXCEPT !.pc = "info"] /\ VidFrame

\* A frame of another size is skipped, any other is encoded; took tells whether one was
\* encoded that shows the primary display.
Take ==
  /\ VidAt("info")
  /\ vid' = [vid EXCEPT !.took = (mem.info = vid.geo /\ mem.shows = use.primary), !.pc = "loop"]
  /\ UNCHANGED mem /\ VidFrame

Video ==
  \/ Enter \/ NewWipe \/ NewPara \/ NewSize \/ Loop \/ DisplayChanged
  \/ Poll \/ PollPara \/ Ready \/ CopyCounter \/ Take

\* A display gets another size.
Resize ==
  /\ use.frames /\ Fault
  /\ \E d \in DOMAIN screen : \E g \in Geo \ {screen[d]} : screen' = [screen EXCEPT ![d] = g]
  /\ UNCHANGED <<host, input, life, pipe, mem, cap, vid>>

(***************************************************************************)
(* The specification.                                                      *)
(***************************************************************************)
\* What main's task and the helper's threads do next, timers and input apart.
TaskStep(p) == TakeReceiver(p) \/ TaskRead(p) \/ TaskClosed(p)
HelperStep(p) ==
  \/ Boot(p) \/ ConnectIpc(p) \/ ConnectFails(p) \/ ProcRead(p) \/ ProcClosed(p)
  \/ ExitCheck(p)

Next ==
  \/ WindowClosed \/ RemoteChanges \/ Quit \/ Input \/ Resize \/ Video
  \/ \E p \in Proc :
       \/ Start(p) \/ TaskStep(p) \/ TaskTick(p) \/ TaskInput(p)
       \/ HelperStep(p) \/ ProcTick(p) \/ Killed(p) \/ Capture(p)

\* Threads, tasks and the helper's timer go on, the display is compared every second,
\* and a capturer that can give a frame gives one again and again.
Fairness ==
  /\ WF_vars(Video) /\ SF_vars(DisplayChanged)
  /\ \A p \in Proc :
       /\ WF_vars(TaskStep(p) \/ HelperStep(p)) /\ WF_vars(ProcTick(p))
       /\ WF_vars(Capture(p)) /\ SF_vars(FrameOk(p))

Spec == Init /\ [][Next]_vars /\ Fairness

TypeOK ==
  /\ use \in UseType
  /\ main \in {"up", "gone"} /\ {remote, running, shmem} \subseteq BOOLEAN
  /\ proc \in [Proc -> {"unused", "boot", "up", "gone"}]
  /\ mapped \in [Proc -> BOOLEAN] /\ exit \in [Proc -> BOOLEAN]
  /\ task \in [Proc -> {"none", "wait", "loop", "end"}] /\ ipc \in [Proc -> {"start", "loop", "end"}]
  /\ mnack \in [Proc -> 0 .. MAX_NACK] /\ nack \in [Proc -> 0 .. MAX_NACK]
  /\ {mem.w, mem.r} \subseteq 0 .. MaxCounter /\ mem.info \in Geo \cup {None}
  /\ \A p \in Proc : cap[p].c \in Capturers \cup {None}
  /\ {mem.display, mem.shows} \subseteq 0 .. use.primary
  /\ screen \in [0 .. use.primary -> Geo]

(***************************************************************************)
(* Properties.                                                             *)
(***************************************************************************)
\* Every event sent is handled once at most, and one that is not handled waits in the
\* queue or in the pipe of a helper, or went down with a helper's end of the pipe.
\* Several helpers may have come and gone (ipc_send, rx.recv, run_ipc_client).
InputAccounted ==
  main = "up" =>
    \A n \in 1 .. sent :
      Cardinality({i \in DOMAIN handled : handled[i] = n})
        + Cardinality({i \in DOMAIN rx : rx[i] = n})
        + Cardinality({p \in Proc : n \in Events(toProc[p])})
        + Cardinality({n} \cap lost) = 1

NoHelper == \A p \in Proc : proc[p] \in {"unused", "gone"}

Unneeded == main = "gone" \/ (~remote /\ ~use.quick)

\* Helpers do not outlive their use: with main gone, or no remote connection left on
\* a host that is not a quick support one, every helper exits, the one still
\* booting and the one whose pipe is never served included.
HelpersLeave == Unneeded ~> (NoHelper \/ ~Unneeded)

\* When the last helper is gone, however it went, the video service comes back to a
\* capturer of its own (RUNNING is cleared and the loop notices).
VideoFollows == NoHelper ~> (~vid.last \/ ~NoHelper)

\* A helper that shares main's memory and whose capturer fits its display; the display
\* did not change and change back between the two times main read its size, and the
\* index main asked for was not overwritten by a helper that had read the wiped memory.
\* Where the primary display is the first of the list, the last cannot happen.
Steady ==
  /\ main = "up" /\ remote /\ running /\ shmem
  /\ vid.geo # None =>
       /\ vid.info = screen[use.primary] => vid.geo = screen[use.primary]
       /\ mem.display = use.primary
  /\ \E p \in Proc :
       /\ proc[p] = "up" /\ ~exit[p] /\ mapped[p] /\ use.frames
       /\ cap[p].c # None =>
            Captures(cap[p].c) /\ (cap[p].c.gdi => cap[p].c.geo = screen[cap[p].c.d])

\* Frames keep coming: for as long as a helper serves, the video service takes frames
\* of the primary display again and again, whatever requests, wipes of the memory,
\* errors and changes of the displays crossed each other before.
FramesFlow == <>[]Steady => []<>vid.took
=============================================================================

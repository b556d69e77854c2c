# A TLA+ model of HibtDesk

HibtDesk is a fork of RustDesk, a remote desktop in Rust. The machine that is
controlled (the *host*) registers with a rendezvous server; a *client* asks that
server for the host, the two of them set up an encrypted stream, and the host then
captures its screens for the client, takes its input, and serves its files,
terminals and forwarded ports. This directory models the concurrent core of that:
what threads, tasks and processes share, what two machines believe of each other,
and what has to hold however their steps interleave.

Every component is checked by TLC on the small instances in the `.cfg` files; for eight
of them there are also proofs that TLAPS checks for every value of the constants.

    tlc -config MCSession.cfg MCSession
    tlapm SessionProofs.tla

## 1. The system

| Part | Source | State it holds | What makes it correct |
| --- | --- | --- | --- |
| Services and the Server object | `server/service.rs`, `server.rs` | two maps of subscribers and a thread per service; the map of services | no subscription is lost or outlives its connection; a snapshot comes first; dropping the server ends |
| Video loop and acknowledgements | `server/video_service.rs`, `server/connection.rs` | encoder, refresh option, `DISPLAY_CONN_IDS`, notifier channels, the frame queue of each connection | a slow client paces the loop and a dead one does not stop it; newcomers get a frame they can decode |
| Video quality of service | `server/video_qos.rs` | rate and ratio all streams share; delays and wishes of each user | a late answer slows everybody down and an early one brings the rate back; arithmetic stays in range |
| Privacy mode | `privacy_mode.rs`, `privacy_mode/`, `server/connection.rs` | owner, implementation, window, displays, input hook | the screen is hidden, and input blocked, exactly while somebody owns the mode |
| Connection life cycle and sessions | `server/connection.rs` | `SESSIONS`, `AUTHED_CONNS`, temporary password, wallpaper, resolutions, cursor recorder | the last one out undoes what was prepared; a session ended for good does not come back |
| Connection setup | `client.rs`, `rendezvous_mediator.rs`, `server.rs` | attempts in a race, punched and relayed sockets, the key of the stream | one stream is left, both ends have the same key, nobody waits for ever |
| Message stream | `hbb_common/src/tcp.rs`, `bytes_codec.rs` | bytes on the way, nonces, what a given-up send leaves | every frame is decoded whole and under the right nonce |
| Port forwarding | `port_forward.rs`, `server/connection.rs` | the switch from messages to bytes at each end | no message gets into the forwarded data |
| Rendezvous registration | `rendezvous_mediator.rs` | a task per server, `SHOULD_EXIT`, `SOLVING_PK_MISMATCH`, confirmed keys | every server ends up with the key of the current id |
| File transfer | `hbb_common/src/fs.rs`, `client/io_loop.rs`, `ui_cm_interface.rs` | read and write jobs, digests, confirmations, `.download` files | no file is replaced unasked; what is renamed into place is whole; done means delivered |
| Terminals | `server/terminal_service.rs` | registry, services, sessions shared by reference counts | no shell is leaked, none is stopped twice; persistent ones survive |
| Portable service | `server/portable_service.rs` | helper processes, pipe, shared memory and its counters | input is handled once, frames flow, helpers leave |
| Input, clipboard, displays, audio, printing | `server/*_service.rs` and libraries | pressed keys, clipboard owner, display list | not modelled |
| Configuration, ipc, web services, updater | `config.rs`, `ipc.rs`, `hbbs_http/`, `updater.rs` | files, options | not modelled |
| User interface, translations, codecs, platform code | `flutter.rs`, `ui/`, `lang/`, `libs/scrap`, `platform/` | presentation, system calls | outside a model of this kind |

Paths are below `src/src/` and `src/libs/`. `PROJECT.json` lists all parts, with the
reasons for those that are left out.

How they interact: the mediator keeps the host registered (Rendezvous); client and
host find each other and agree on a key (Connect) for the stream they then talk over
(Stream), as messages or, for a forwarded port, as bytes (Forward). On the host the
connection is authorized (Session), added to the Server and subscribed to services
(Service), fetches frames and acknowledges them (VideoFrame), reports its delay and
its wishes (VideoQos), may turn privacy mode on (PrivacyMode), transfer files
(FileTransfer) and open terminals (Terminal); on a host that is not installed, a
helper captures and types for it (PortableService). Forward is composed with Stream,
whose state both share. The others share the life of a connection and no
other variable: each has the others' part of it as nondeterministic inputs where the
code calls them. A connection in VideoFrame subscribes and leaves at any time, a
service in VideoQos starts and stops at any time.

The hard behaviours are the ones a step-by-step test does not reach. Connections
are tasks of a multi-threaded runtime and services are threads, and both work on
tables with one mutex each, taking and releasing them several times in one
operation. So inside the host the grain of a step is one acquisition of a lock;
several are merged where no other step can tell the difference, and a comment says
so. Between machines and processes it is one message sent or received.

## 2. Modules

**PubSub** is the promise: a service has a set of subscribers, a message reaches
subscribers only, a removed connection receives nothing.

**Service** is how it is kept: `subscribes` and `new_subscribes` of each service,
the loops `run` and `repeat` (`pc`), the snapshot closure and the swap in the Drop
of `ServiceSwap`, `is_subed` with its two reads, and every operation of the Server
object. The Server is behind a lock of its own: `call` is the operation that has
it, with what it has still to do for each service; the threads go on meanwhile.
`wanted`, `raced`, `primed` and `late` are history variables for the properties.

**VideoFrame** is the inner loop of the video services: `SetupEncoder` to `WaitDone`
follow `run` in `video_service.rs`; `Fetch`, `VideoReceived` and `Close` are the
connections. A frame is *the current one* or *an older one*; a capture or encoding
error, a change of a display and no new frame are alternatives of the step.

**VideoQos** is `VIDEO_QOS` with its callers, the timers of connections and the
tick of each encoder. Ratios are integers in percent. The averaged delay is an
input: averaging and the estimate of the round trip are arithmetic of one
connection. The formulas for rate and ratio are those of the code. `host`, which never
changes, picks one of the situations a run instantiates.

**PrivacyMode** has the mode as one record behind its mutex. `TurnOn` and
`TurnOff` are the sets of outcomes of the code's functions, failures half way
included; around them the steps of a connection's task, threads it has stopped
waiting for, the thread of the input hook, Ctrl+P, the option, and the Drop of
`AuthedConnID`, which counts the remote connections and, in a later step, has `reset_all`
turn the mode off.

**Session** follows each connection from `start` to its Drop. `pc` names the places
between two locks: `login`, `push` (into `AUTHED_CONNS`), `share`, `prepare`,
`run`, then `rotate`, `forward`, `remove`, `retain`, `count`, `wallpaper`, `restore`
and `clear` on the way out. Passwords are numbers, the current one is `temp`; the
age of a session is one bit, and `SessionTimeout` may clear it at any time.
Whether the user has to click, the desktop is ready or the device is trusted are
alternatives of `LoginRequest`.

**Connect** is `Client::_start` with the `_start_inner` it races, the rendezvous
server as both sides use it (external), the handlers of the host's mediator, and the
handshake `secure_connection` / `create_tcp_connection`. A request (`Req`) is one
attempt to punch a hole or to have a relay; an answer to an earlier attempt may come
when a later one is awaited.

**BytesCodec** has the header of a frame, one to four bytes that hold its own length
and the length of the message; **Stream** sends such frames, sealed under
a counter, through sockets that hold a bounded number of bytes; an end that sends
does not read, and the host gives up a send that stalls. **Forward** adds the login of
a port forward connection, the TestDelay the host may be waiting for, the connection
manager, and the moment at which each end calls `set_raw`.

**Rendezvous** is `start_all` with a task for each server, over UDP or TCP: register,
be asked for the key, register the key, be told of a mismatch and change the id. The
server is external, lossy and may repeat itself.

**FileTransfer** has the jobs of both directions: `read` jobs announce a file, wait
for its confirmation and send its blocks; `write` jobs compare digests, perhaps ask
the user, and rename. The disk is one record per file. The connection may break at
any time; what was on the way is lost and a second job may resume.

**Terminal** is one service id of the registry with the connections that use it, the
thread of each one's GenericService, and the cleanup task. What an actor
references (`hold`, `arcs`) is explicit, since the last one to drop a session stops it.
A session has its reader, its writer and the input channel between them and the
client, in which a send waits, with the session locked, while the channel is full;
`stop()` sends a final newline through it before it joins the threads.

**PortableService** is main, its pipe task per helper, the helpers with their capture
thread, the video loop that switches between capturers, and the shared memory with a
write and a read counter.

Definitions introduced by a comment `mutant: ...` are not used by the specifications:
each is a plausible mistake in the definition below it, and the property it is
paired with in `PROJECT.json` fails when it takes that definition's place.

## 3. Runs

| Run | Instance | Distinct states | Shows |
| --- | --- | --- | --- |
| `service` | 2 connections with a `repeat` service, or with a `run` service whose snapshot closure fails on purpose | 229,909 | no subscription is lost; one survives its withdrawal only when a swap falls between the two reads of `is_subed`; a snapshot comes first but for who subscribed between snapshot and swap; the maps implement PubSub; new subscribers are promoted although the closure fails; dropping the Server ends |
| `video` | a native and a web client, one display | 737,043 | the slowest client paces the loop; a refresh takes effect within a frame; a dead client does not stop the others' frames |
| `privacy_owner` | 2 connections, a window and a virtual display implementation, the latter turned on by a thread | 3,289,808 (up to symmetry) | the machine is as the owner of the mode says and input is blocked; the mode does not outlive its owner; clients are told |
| `qos` | four hosts: two clients; one client and an encoder of either kind; one client's wishes | 582,364 | one late answer throttles everybody; the limits given to `clamp` are in order; the rate recovers; the encoder follows the recording state |
| `connect` | 2 `_start_inner`, one with two attempts | 6,852,392 | both ends have the same key or none; the handshake never swallows the Hash; nobody waits for ever |
| `files` | 3 files of 2 blocks, 2 jobs, 2 connections, 1 fault, both directions, with and without CM reading | 6.6 million | no file is replaced unasked; what is renamed into place is whole; done means delivered; answers fit the question; the ends never wait for each other |
| `rendezvous` | 2 servers, UDP or TCP, 1 fault or change of the options | 310,186 | no round goes on with servers no longer configured; once one task exits all do; in the end every server has the key of the current id, but for those a late OK misled over TCP |
| `session` | 2 connections of one client, all kinds, both values of 2FA | 463,941 | the wallpaper is back after the last remote connection |
| `stream` | a session of up to four messages, or a port forward connection, over sockets of 7,800 bytes | 1,909,079 | frames are decoded whole; a message fails to decrypt only after one that was given up; no message gets into forwarded data; two ends that fill the sockets get out of it |
| `terminal` | 2 connections with 2 actions or 1 with 3, 1 terminal, 1 session, 1 message | 522,710 | no shell of a session is leaked; a persistent service survives; if shells read, Drop returns and all is stopped after the last connection |
| `portable` | five situations: helpers come and go, quick support, typing, pictures of a first and of a second display | 227,952 | every event is handled once or accounted for; helpers leave; the video service comes back to its own capturer; frames keep coming |
| `privacy_occupied` | as `privacy_owner`, with the other driver | | expected to fail, see section 6 |

Each takes at most four minutes with two workers. Every run says
`CHECK_DEADLOCK FALSE`: connections, jobs and helpers are used once, and when all of
them have ended, or the Server is dropped, the system rightly stops. `NobodyWaits`,
`NotStuck` and `NeverGridlocked` take the place of the check: they say who may be at
rest. In Connect, Stream and Forward no behaviour is infinite, since every step uses
up a request, a message, a byte or a wait; so "who has not ended has a step" as an
invariant is as good as liveness there.

**Bounds.** Two connections (servers, attempts, helpers) are the fewest that race. The
properties relate one to one other (who swaps, who leaves, who owns), and where there
is a proof it covers any number. One service at a time is enough for Service, whose
services share nothing except a Server operation that visits them one after the other.

- VideoFrame: `MaxOverdue` = 2 is one more than `RefreshSoon` allows. `MaxDelivered`
  = 1 limits the frames a web client may still acknowledge; it forgets more, which it
  may do anyway.
- PrivacyMode: `MaxLate` = 1 thread a connection has stopped waiting for. Session:
  `MaxTemp` = 2 changes of the password by the user.
- VideoQos: `TwoClients` has the rates 12 and 6 for the 30 and 15 of the code, to keep
  liveness checking within minutes: samples of 20 and 700 ms still give the fall to a few
  frames and the quick rise. `OneWish` has the rates of the code. In `OneEncoder` the rate
  is fixed at 1, since no formula for the ratio reads it. `Image` leaves out the
  balanced level, which is the quality until somebody has chosen one.
- Connect: `Tries` = 2 for one `_start_inner` and 1 for the other, where the code has 3:
  two are needed for an answer to come an attempt late, and the proofs cover any number.
- FileTransfer: three files give a first, a middle and a last one, two blocks a partial
  one. `MaxJobs` = 2 and `MaxLinks` = 2 allow one interruption and one resumption;
  `MaxFaults` = 1 failed open, read, seek, creation or listing. The client
  has one job at a time, and at most two in all; the code lets it start more at once.
- Rendezvous: `MaxFaults` = 1; `Cap` = 2 messages under way with one server, so that a
  retry crosses a late answer, and 1 with the other.
- Stream: messages of 48 and 16,000 bytes have one-byte and two-byte headers, the latter
  more than `BACKPRESSURE` and, at `WINDOW` = 7,800, more than the sockets hold. The host
  sends three messages, the client one. Forward: `MsgLen` = 20, one login
  beyond the one that answers the Hash, one TestDelay and one piece of data each way.
- Terminal: one terminal, one session, `MaxActs` = 4 connections and actions in all: two
  connections and two actions, or one connection that opens a terminal and sends twice. `InputSize` = 1
  message in the input channel (100 in the code), so that a send and a final newline wait.
  The connections are numbered in the order they come, which loses nothing: they are alike.
- PortableService: `MAX_NACK` = 1 (3 in the code), `MAX_DXGI_FAIL_TIME` = 1 (5),
  `MaxCounter` = 1 for `i32::MAX`, so that the counters wrap all the time. Pictures are
  taken with one helper; the primary display is the first of the list (2 faults) or the
  second (1 fault). Helpers are started in a fixed order; they are alike.

**Fairness.** What is fair is what the host's own threads, timers and tasks do; the
exceptions are named last.

- A service's thread keeps running (`WF Thread`): each of its waits has a limit.
  Where a step may fail instead, strong fairness says that capturing, encoding or
  sending does not fail for ever; against a permanent failure the code has no
  remedy but trying again.
- Server operations go on (`WF ServerStep`, `EndCall`, `Dropped`): they wait only for
  read-write locks that are held for one statement, or for a thread to end.
- A connection that has left its loop removes itself (`WF RemoveConnection`,
  `OnConnectionClose`): that is the rest of its task.
- VideoQos: timers tick, a second passes, and a loop without subscribers ends.
- Rendezvous: `start_all` and the mediators' loops run, and `restart()` is called after
  an option has changed.
- Terminal: an action that has begun ends, threads and the cleanup task run, and the
  reader and the writer of a session see their end once `stop()` has brought that about. No
  connection has to leave, or to be used, and no shell has to read: that a send does not
  wait for a shell for ever (`ShellsRead`) is the hypothesis of `Leaves` and `AllStopped`.
  Without it both fail: `stop()` keeps the registry locked while the channel is full.
- PortableService: the video loop, the pipe tasks and the helpers run; a change of
  the display is noticed in the end (it is looked for once a second); capturing does not
  fail for ever.
- Of the other machine something is assumed in three places: that clients answer a
  TestDelay (`WF Answer` in VideoQos; `Recovers` would mean nothing without it), and that
  a rendezvous server handles what reaches it and its answers are received (`ServerHandle`,
  `Receive`; faults are bounded by `MaxFaults`). `Served` assumes nothing of clients.
- Connect, FileTransfer, Stream, Forward, PrivacyMode and Session are checked without
  fairness: their properties are invariants and action properties.

## 4. Proofs

The proofs assume the named ASSUME of each module (inclusions among the constant sets,
`None` being none of the others) and nothing about sizes: sets may be infinite, except
where it is said. Each proof module has an inductive invariant, a lemma per conjunct or
per actor with one case per action, and theorems that combine them. Every invariant a
theorem states was model-checked first; where a run's property is proved, the run shows
that the cases occur, and its mutant that the property can fail.
The four modules whose steps are first-order (`USE Zenon` at their head) are proved by
Zenon but for the leaves that cite `SMT`: tlapm's translation for SMT gets slower with
each obligation of a run, so that a long module proved by SMT alone exceeds its limits.

**ServiceProofs** (`WantedIsSubscribed`, `LingersOnlyAfterRace`, `SnapshotFirst`,
`Refines`, and that no subscription survives its connection). That a removed
connection is unsubscribed is not inductive: while `remove_connection` is at work a swap
may move the connection between the maps of a service. `MapsInv` (a connection is in one map)
is needed because `on_unsubscribe` looks into the second map only if the first does not
have the id. `VisitedInv` says the services visited so far do not have it, and `CallInv`
what an operation may have left to do: nothing that subscribes, while the operation is a
removal. `Refinement` shows each step to be a step of PubSub or to leave it alone; a
swap is the interesting stutter. `HistoryInv` says the same of `wanted` at every
moment, not only between two operations, and adds `ProbeInv`: the second read of
`is_subed` is wrong only about a connection a swap has moved since the first.
`SnapshotInv` adds who may be in the second map between snapshot and swap.

**VideoFrameProofs** (`RefreshSoon`, `Backpressure`, `NewcomersApart`,
`EntryOnlyInWait`). `RefreshInv`: a request that has not been answered once the encoder is
no longer new is still in the option, since only `run` clears it, before the first frame.
`ApartInv`: subscribers are added to a running encoder only when it has none. `PacedInv`, for
a loop all of whose waits ended well: a receiver of the current frame has it still to fetch,
or has fetched and not acknowledged it, or is credited in the channel or in the loop's
set, and never two of these; so when everybody is credited nothing is left to fetch.
`Backpressure` assumes a finite number of connections (the loop counts), that
no two services share a display index (`OwnIndex`), and `AcksAreClear`: web clients with
one display, or any number of displays and no web client. The last one is needed: the acknowledgement
of a web client names no display and is credited to every display that waits for it, so
with two displays a web client may have a second frame of one of them waiting.

**VideoQosProofs** (`DelayedThrottles`, `ClampSafe`, `RateInLimits`, for all delays, rates
and qualities). `QosInv` ties `open` to where the connections are: one that is
gone has no late response, and whoever has one is among the users `adjust_fps` looks at.
That the smallest of their rates is a rate rests on the least-element property of the natural
numbers. `ClampInv`: the users in order of their latest wish are there once each, with a
quality `convert_quality` returned; leaving takes the only entry. `LimitsInOrder` is the
arithmetic: for every quality a client can send and every bitrate, the limits given to
`f32::clamp` are in order.

**PrivacyModeProofs** (`HiddenHasOwner`, `OwnerIsThere`, `ToldTruth`). Four lemmas
describe the outcomes of `turn_off_privacy`, of a replaced implementation, of the
implementations' `turn_on_privacy` and of the whole: each leaves a consistent machine and
an owner that is the old one, nobody or the caller. `TaskInv` says that a task that has
not ended belongs to an open connection; a connection past its loop owns nothing, so that
its Drop can only turn the mode of another one off. `ToldInv` extends `ToldTruth` to a
connection that has turned the mode on and not yet said so.

**ConnectProofs** (`KeysAgree`, `HashNotSwallowed`, `UuidKnown`, `OneStream`, for any
number of `_start_inner` and of attempts). None is inductive. `Owned` and
`Fresh` say whose a request is and that it is made once, `Mailed` and `Sockets` what an
answer is worth when it is read, `Staged` in which order the host sends, `Replied` when
the client has replied, `Held` who holds a stream: two ends
that differ about the key would have to be at stages that exclude each other.
`HeadRoundTrip` is about BytesCodec, which the handshake's messages are the first to
use: for every length the codec accepts, what the encoder writes as a header of one to
four bytes is read back as the same length, and each byte fits into eight bits.

**RendezvousProofs** (`RoundFollowsConfig`, `OneSolves`). `RoundInv` adds what holds
between `start_all`'s read of the servers and its reset of `SHOULD_EXIT`: a change that
`restart()` was called for there is `missed`.

**SessionProofs** (`RestoredAfterLast`, `CursorRecorded`, `EndedStaysEnded`). `Places`
ties `AUTHED_CONNS` to where the tasks are. For the wallpaper: whoever prepares it is in
the table, and leaves it for `count`; whoever leaves the table last finds nobody and
restores. A connection between `push` and `prepare` is in the table already, so that it
restores what it goes on to prepare. The converse is not claimed: one that was counted
out may restore after a newcomer has prepared, just as it may clear the resolutions
(section 6). For the recorder: it stops only if the table has no remote connection, and
a subscriber in its loop is in the table.

**TerminalProofs** (`NoLeak`, `StoppedOnce`, `PersistentSurvives`, for any number of
connections, terminals, sessions and actions). `Places` says which references an
actor has at each place: what it takes never overwrites one, so that only the
steps that say so drop a reference, and `NoLeak` follows from the one place where a last
reference is dropped into `stopping`. `StopInv`: the sessions of the registered service
are up and nobody stops them, and a session that is being stopped has one who stops it,
who holds its mutex. `SendInv`: a task that sends holds the mutex of its session and stops
none, so that `stop()` cannot run under it. `LookInv`: who is about to remove the service,
and has not missed a change to it, has seen that it may.

**Proved and in no run.** `UuidKnown`, `OneStream`, `NewcomersApart`,
`EntryOnlyInWait`, `RateInLimits`, `OneSolves`, `CursorRecorded`, `EndedStaysEnded` and
`StoppedOnce` are kept as theorems only. The window focus service is in no
TLC instance: that branch of `CaptureDisplays` is covered by ServiceProofs alone.

**Only model-checked**, and why:

- liveness (`NewIsPromoted`, `DropTerminates`, `Served`, `Recovers`, `RecordFollows`,
  `OneExitsAllExit`, `Registered`, `Leaves`, `AllStopped`, `HelpersLeave`,
  `VideoFollows`, `FramesFlow`): the prover does not reason about fairness;
- `NobodyWaits` and `NeverGridlocked`, which use ENABLED;
- `Faithful`, `Decrypts` and `CleanSwitch`: Stream and Forward are about sequences of
  frames cut anywhere, and their operators recurse over those sequences;
- the five properties of FileTransfer and `InputAccounted`. Nothing forbids a proof;
  those of FileTransfer need an invariant over three queues, two jobs and a disk, that
  of PortableService the positions of each event in several sequences. They are next.

## 5. Mutants

`PROJECT.json` pairs every property with a mistake that breaks it: `on_unsubscribe`
looking into the first map only, a swap on the success path only, a wait that ends with the
first acknowledgement, a refresh that does not end the loop, an implementation replaced
while it is on, a late answer forgotten, a key set before the SignedId was read, a header
that grows one byte too late, a confirmation that does not seek, a session whose last
reference is forgotten, a counter that stops at its limit. A property no such change can
break would say nothing about the code.

## 6. Where the code and its comments disagree

`privacy_occupied` is the one run that is expected to fail. `privacy_mode.rs:34` has an
error for turning off a mode "that belongs to someone else". A connection whose request
fails because another one has the mode turns it off with `INVALID_PRIVACY_MODE_CONN_ID`
(`connection.rs:4033`), for which `check_off_conn_id` makes an exception.

Smaller observations, met while modelling and not turned into runs:

- `display_service.rs:150` clears the changed resolutions "because restore resolutions
  is called when there is no client connected". The count was zero when it was taken; a
  client authorized since then is connected, and a change it has recorded is forgotten.
  The same Drop then calls `reset_all`, which (with the Amyuni driver) also ends the
  privacy mode that client has turned on, without telling it.
- `video_service.rs:875` ends the wait "if all connections have received current
  frame". Ids are counted, and with several displays a web client's acknowledgement is
  credited to each one that waits for it.
- `video_qos.rs:177`: after the last user has left, the displays are forgotten while a
  service may still run; variable bitrate then counts as supported by whatever runs.
- `connection.rs:784` "Avoid TestDelay reply injection into rdp data stream": the test
  is made where the host accepts the login by itself; an acceptance in the connection
  manager (`connection.rs:561`) comes another way. Hence `~clicked` in `CleanSwitch`.
- Rendezvous: a `restart()` between `start_all`'s read of the servers and its reset of
  `SHOULD_EXIT` is lost (`missed`). Over TCP the OK for an abandoned id may be a server's last
  word (`misled`): after a refusal, or, with two servers (the comment at
  `rendezvous_mediator.rs:356` says that several are not supported "any more";
  `start_all` starts them), when the mismatch of one replaces the id while the key is under
  way with the other.
- Files: a resumed upload can report done while a file of the interrupted job was never
  renamed; the first block of a fresh job renames a left-over partial `.download`, and
  one of a skipped file is renamed as well; a host's read job whose read failed stays first
  and holds up later jobs until it is cancelled; after a failed `File::create` the blocks go into
  the file before; after a failed open or seek in `set_stream_offset` that end goes on as if
  it had succeeded: a reader starts at the file's beginning, a writer's next
  block renames the partial `.download` and begins anew. The properties name each of these as an exception.
- Stream: two sends that stall lose a sealed message, and decryption then fails at the client;
  the rest of a frame whose send was given up waits for the next send. A chat message of the
  connection manager, sent while the host waits for the answer to its TestDelay, reaches
  the client's raw stream; a second login that crosses the acceptance may be forwarded as data.
- Portable service: a failed second start, or its window being closed, drops the shared memory while
  a helper runs, and capturing fails until that helper has left. Input left in
  the queue goes to the next helper. After a lost request to be made anew, a GDI capturer
  of a former size is skipped for good (`Steady` excludes it, and a display that changes and changes
  back between main's two reads of its size). A helper that reads the parameters while the
  memory is wiped writes the display index 0 back, and may do so over main's request; where
  the primary display is not the first of the list, it then captures another display until the
  video service starts anew. Main skips these frames, or encodes them if that display has
  the same size. `FramesFlow` counts only frames of the primary display, and `Steady`
  excludes an overwritten index. `increase_counter` compares the
  write counter with itself in its second test.

## 7. Abstractions and what is not modelled

- Frames, snapshots and messages have no content; capturers and encoders are
  outcomes. Win32 calls of privacy mode succeed or fail, one step each; its connections
  are remote control ones, the only ones `AuthedConnID` counts.
- Passwords are numbers; a refused login is a step that leaves the connection where
  it was. Failed attempts are not counted.
- The wakelock, `ALIVE_CONNS`, and the messages of a connection for clipboard
  and input are not in Session. The wakelock was tried: its thread, composed with
  Session, multiplies the states by more than sixty.
- Averages of delay samples and the estimate of the round trip are inputs of VideoQos.
- Connect: `signed` (what the rendezvous server's signature turns out to be) is one value
  per behaviour. The registering that an empty key brings about, UDP, KCP and IPv6 sockets,
  connecting by address, the lengths of timeouts and the age of the last message
  are left out.
- Rendezvous: latencies, and the pause after a manual restart.
- Stream: a sealed message opens under its own nonce only; kernel buffers are one bounded window.
  Forward: only with a key set, and without send timeouts; after a
  failed further login the host leaves its loop with the earlier socket still set.
- Terminal: the text that is read and written, the buffer of recent output, and the list of
  terminals in the first answer. When the pty's reader or writer cannot be had after the
  shell was spawned, the shell belongs to no session: nothing kills or reaps it, and
  `NoLeak` does not speak of it.
- Portable service: the helper's ping and its question for the number of connections are
  one message; an unread duplicate is not queued again; the capture thread on a memory main
  has given up, torn pixels and the cursor's counter are left out. Timers tick at any
  time (in `Pictures` only main's, until the helper has answered). A capture error of its own
  accord counts as a fault.
- A poisoned lock, a panicking thread and a killed process are not modelled, but for
  main and the helpers of the portable service, which may go at any time.
- User interface, translations, codecs, platform code and the other parts listed as
  not modelled in `PROJECT.json` are data paths, system calls or presentation. They are most of
  the repository: the definitions of the models stand for about five per cent of its lines.

## 8. Plan

1. Proofs of FileTransfer (`AnswersFit`, `NotStuck`, then the three action properties)
   and of `InputAccounted`.
2. The client's session: reconnection rounds (`ConnectionRoundState`,
   `ui_session_interface.rs:98` and `:1276`) and the queues of the decoder threads.
3. Pressed keys of the input service, and the clipboard's echo between two machines.
4. A composition of Session and Service: `subed` of a connection is what the maps
   of the services say, from login to removal.

------------------------------- MODULE Forward --------------------------------
(***************************************************************************)
(* Port forwarding over the message stream: the client's connect_and_login *)
(* and run_forward (src/port_forward.rs), the host's Connection until      *)
(* try_port_forward_loop (src/server/connection.rs).  Once the host has    *)
(* accepted the login, both ends switch the stream from messages to plain  *)
(* bytes (set_raw), each at its own time; nothing on the wire marks where. *)
(*                                                                         *)
(* A behaviour is either a session (Stream) or such a connection.          *)
(***************************************************************************)
EXTENDS Stream

CONSTANTS
  MsgLen,      \* length of a login, reply, ... message
  MaxLogins,   \* logins the user of the client asks for
  MaxDelays,   \* TestDelay messages of the host
  MaxChunks    \* [End -> Nat], pieces of data the forwarded connection carries

ASSUME ForwardAssumption ==
  /\ MsgLen \in 1..1000 /\ MaxLogins \in Nat /\ MaxDelays \in Nat
  /\ MaxChunks \in [End -> Nat]

VARIABLES
  use,         \* "session" or "forward"
  at,          \* where each end is
  authorized,  \* Connection::authorized
  pf,          \* Connection::port_forward_socket is Some
  delay,       \* Connection::last_test_delay is Some
  cm,          \* the connection manager shows the connection
  clicked,     \* its user accepted the connection
  buffer,      \* pieces the client read before the login was through
  injected,    \* kinds of the messages of which bytes were forwarded as data
  logins, delays, chats, chunks

loginVars == <<authorized, pf, delay, cm, clicked, buffer>>
boundVars == <<logins, delays, chats, chunks>>
forwardVars == <<use, at, loginVars, injected, boundVars>>
vars == <<streamVars, forwardVars>>

\* Client: "login", "raw".  Host: "open", "loop", "check" (after on_message), "break" (the
\* loop is left with a port_forward_socket), "end" (without), "raw".
At(e, l) == up[e] /\ at[e] = l
Goto(e, l) == at' = [at EXCEPT ![e] = l]

\* The kind of the frame that next() returns.
Receives(e, kinds) ==
  ConsumeFrame(e) /\ ~garbled'[e] /\ ~badDec'[e] /\ NextMessage(e).kind \in kinds
Send(e, kind) ==
  BeginSend(e, kind, MsgLen) /\ UNCHANGED <<modeVars, net, failVars, countVars>>
NoSend == UNCHANGED <<modeVars, sendVars, wireVars, failVars, countVars>>

\* set_raw: the codec passes bytes through, the key is dropped; what is buffered stays.
SetRaw(e) ==
  /\ raw' = [raw EXCEPT ![e] = TRUE]
  /\ key' = [key EXCEPT ![e] = FALSE]
  /\ Goto(e, "raw")

(***************************************************************************)
(* The host.                                                               *)
(***************************************************************************)
\* on_open.
HostOpen ==
  /\ At("host", "open") /\ Send("host", "hash")
  /\ Goto("host", "loop")
  /\ UNCHANGED <<up, readVars, use, loginVars, injected, boundVars>>

\* The test delay timer.
HostTestDelay ==
  /\ At("host", "loop") /\ ~delay /\ ~(pf /\ authorized) /\ delays < MaxDelays
  /\ Send("host", "test_delay")
  /\ delay' = TRUE /\ delays' = delays + 1
  /\ UNCHANGED <<up, readVars, use, at, authorized, pf, cm, clicked, buffer, injected,
                 logins, chats, chunks>>

\* on_message, a login once authorized: nothing but the check that follows.
HostLoginAgain ==
  /\ At("host", "loop") /\ authorized /\ Receives("host", {"login"})
  /\ Goto("host", "check")
  /\ NoSend
  /\ UNCHANGED <<up, use, loginVars, injected, boundVars>>

\* on_message, the login: the target cannot be reached, and the loop ends.
HostLoginFails ==
  /\ At("host", "loop") /\ ~authorized /\ Receives("host", {"login"})
  /\ Send("host", "login_fatal")
  /\ Goto("host", IF pf THEN "break" ELSE "end")
  /\ UNCHANGED <<up, use, loginVars, injected, boundVars>>

\* The target answers, but the user of the host has to accept, or the password is wrong.
HostLoginPending ==
  /\ At("host", "loop") /\ ~authorized /\ Receives("host", {"login"})
  /\ \/ Send("host", "login_error")
     \/ NoSend
  /\ pf' = TRUE /\ cm' = TRUE
  /\ Goto("host", "check")
  /\ UNCHANGED <<up, use, authorized, delay, clicked, buffer, injected, boundVars>>

\* send_logon_response.
HostLoginOk ==
  /\ At("host", "loop") /\ ~authorized /\ Receives("host", {"login"})
  /\ Send("host", "peer_info")
  /\ pf' = TRUE /\ cm' = TRUE /\ authorized' = TRUE
  /\ Goto("host", "check")
  /\ UNCHANGED <<up, use, delay, clicked, buffer, injected, boundVars>>

(* mutant: the end of the wait is not noticed *)
HostDelayReplyNoCheck ==
  /\ At("host", "loop") /\ Receives("host", {"delay_reply"})
  /\ delay' = FALSE
  /\ NoSend
  /\ UNCHANGED <<up, use, at, authorized, pf, cm, clicked, buffer, injected, boundVars>>

\* on_message, the answer to the TestDelay.
HostDelayReply ==
  /\ At("host", "loop") /\ Receives("host", {"delay_reply"})
  /\ delay' = FALSE
  /\ Goto("host", "check")
  /\ NoSend
  /\ UNCHANGED <<up, use, authorized, pf, cm, clicked, buffer, injected, boundVars>>

(* mutant: the answer to the last TestDelay is not waited for *)
HostCheckHasty ==
  /\ At("host", "check") /\ Idle("host")
  /\ Goto("host", IF pf /\ authorized THEN "break" ELSE "loop")
  /\ UNCHANGED <<streamVars, use, loginVars, injected, boundVars>>

\* After on_message: leave the loop, unless the client still owes an answer.
HostCheck ==
  /\ At("host", "check") /\ Idle("host")
  /\ Goto("host", IF pf /\ authorized /\ ~delay THEN "break" ELSE "loop")
  /\ UNCHANGED <<streamVars, use, loginVars, injected, boundVars>>

\* ipc::Data::Authorize.
HostAuthorize ==
  /\ At("host", "loop") /\ cm /\ ~authorized
  /\ Send("host", "peer_info")
  /\ authorized' = TRUE /\ clicked' = TRUE
  /\ Goto("host", IF pf THEN "break" ELSE "loop")
  /\ UNCHANGED <<up, readVars, use, pf, delay, cm, buffer, injected, boundVars>>

\* ipc::Data::ChatMessage.
HostChat ==
  /\ At("host", "loop") /\ cm /\ chats = 0
  /\ Send("host", "chat")
  /\ chats' = 1
  /\ UNCHANGED <<up, readVars, use, at, loginVars, injected, logins, delays, chunks>>

\* After the loop: try_port_forward_loop, or the end of the connection.
HostLeaves ==
  /\ Idle("host")
  /\ \/ At("host", "break") /\ SetRaw("host") /\ UNCHANGED up
     \/ At("host", "end") /\ Close("host") /\ UNCHANGED <<modeVars, at>>
  /\ UNCHANGED <<sendVars, wireVars, readVars, failVars, countVars, use, loginVars, injected,
                 boundVars>>

(***************************************************************************)
(* The client.                                                             *)
(***************************************************************************)
\* handle_hash: log in, if only to let the user of the host accept.
ClientHash ==
  /\ At("client", "login") /\ Receives("client", {"hash"})
  /\ Send("client", "login")
  /\ UNCHANGED <<up, use, at, loginVars, injected, boundVars>>

\* handle_login_from_ui.
ClientLogin ==
  /\ At("client", "login") /\ got["client"] > 0 /\ logins < MaxLogins
  /\ Send("client", "login")
  /\ logins' = logins + 1
  /\ UNCHANGED <<up, readVars, use, at, loginVars, injected, delays, chats, chunks>>

\* handle_test_delay.
ClientTestDelay ==
  /\ At("client", "login") /\ Receives("client", {"test_delay"})
  /\ Send("client", "delay_reply")
  /\ UNCHANGED <<up, use, at, loginVars, injected, boundVars>>

\* A login error the user may answer with another login, and messages that are ignored.
ClientIgnores ==
  /\ At("client", "login") /\ Receives("client", {"login_error", "chat"})
  /\ NoSend
  /\ UNCHANGED <<up, use, at, loginVars, injected, boundVars>>

ClientFatal ==
  /\ At("client", "login") /\ Receives("client", {"login_fatal"})
  /\ Close("client")
  /\ NoSend
  /\ UNCHANGED <<use, at, loginVars, injected, boundVars>>

(* mutant: any LoginResponse ends the message loop *)
ClientPeerInfoAny ==
  /\ At("client", "login") /\ Receives("client", {"login_error", "peer_info"})
  /\ SetRaw("client")
  /\ UNCHANGED <<up, sendVars, wireVars, failVars, countVars, use, loginVars, injected, boundVars>>

\* The login is through: the stream becomes raw.
ClientPeerInfo ==
  /\ At("client", "login") /\ Receives("client", {"peer_info"})
  /\ SetRaw("client")
  /\ UNCHANGED <<up, sendVars, wireVars, failVars, countVars, use, loginVars, injected, boundVars>>

\* What was read meanwhile goes first.
ClientFlushes ==
  /\ At("client", "raw") /\ buffer > 0
  /\ SendBytes("client", [kind |-> "data", len |-> buffer, seq |-> 0])
  /\ buffer' = 0
  /\ UNCHANGED <<up, modeVars, enc, net, readVars, failVars, countVars, use, at, authorized, pf,
                 delay, cm, clicked, injected, boundVars>>

\* forward.next() before that.
ClientBuffers ==
  /\ At("client", "login") /\ Idle("client") /\ chunks["client"] < MaxChunks["client"]
  /\ buffer' = buffer + 1
  /\ chunks' = [chunks EXCEPT !["client"] = @ + 1]
  /\ UNCHANGED <<streamVars, use, at, authorized, pf, delay, cm, clicked, injected, logins, delays,
                 chats>>

(***************************************************************************)
(* Both ends, once raw: run_forward and try_port_forward_loop.             *)
(***************************************************************************)
ForwardOut(e) ==
  /\ At(e, "raw") /\ (e = "client" => buffer = 0) /\ chunks[e] < MaxChunks[e]
  /\ SendBytes(e, [kind |-> "data", len |-> 1, seq |-> 0])
  /\ chunks' = [chunks EXCEPT ![e] = @ + 1]
  /\ UNCHANGED <<up, modeVars, enc, net, readVars, failVars, countVars, use, at, loginVars,
                 injected, logins, delays, chats>>

\* BytesCodec::decode in raw mode: whatever there is.
Owner(c, e) == sent[Peer(e)][IF c.f < 0 THEN -c.f ELSE c.f].kind
ForwardIn(e) ==
  /\ At(e, "raw") /\ (e = "client" => buffer = 0) /\ Idle(e) /\ rbuf[e] # <<>>
  /\ rbuf' = [rbuf EXCEPT ![e] = <<>>]
  /\ injected' = [injected EXCEPT ![e] =
                    @ \cup ({Owner(rbuf[e][i], e) : i \in 1..Len(rbuf[e])} \ {"data"})]
  /\ UNCHANGED <<up, modeVars, sendVars, wireVars, need, got, garbled, dec, badDec, failVars,
                 countVars, use, at, loginVars, boundVars>>

\* The forwarded connection closes.
Quit(e) ==
  /\ Idle(e) /\ at[e] \in {"login", "raw"}
  /\ Close(e)
  /\ UNCHANGED <<modeVars, sendVars, wireVars, readVars, failVars, countVars, forwardVars>>

ForwardStep ==
  \/ HostOpen \/ HostTestDelay \/ HostLoginAgain \/ HostLoginFails \/ HostLoginPending
  \/ HostLoginOk \/ HostDelayReply \/ HostCheck \/ HostAuthorize \/ HostChat \/ HostLeaves
  \/ ClientHash \/ ClientLogin \/ ClientTestDelay \/ ClientIgnores \/ ClientFatal
  \/ ClientPeerInfo \/ ClientFlushes \/ ClientBuffers
  \/ \E e \in End : ForwardOut(e) \/ ForwardIn(e) \/ Quit(e)

Init ==
  /\ StreamInit
  /\ use \in {"session", "forward"} /\ (use = "forward" => key["host"])
  /\ at = [e \in End |-> IF e = "client" THEN "login" ELSE "open"]
  /\ authorized = FALSE /\ pf = FALSE /\ delay = FALSE /\ cm = FALSE /\ clicked = FALSE
  /\ buffer = 0 /\ injected = [e \in End |-> {}]
  /\ logins = 0 /\ delays = 0 /\ chats = 0 /\ chunks = [e \in End |-> 0]

\* The host polls the stream in its loops only.
Moves(e) == Transport(e) \/ ((use = "forward" => at[e] \in {"login", "loop", "raw"}) /\ Poll(e))

Next ==
  \/ \E e \in End : Moves(e) /\ UNCHANGED forwardVars
  \/ use = "session" /\ (\E e \in End : SessionStep(e)) /\ UNCHANGED forwardVars
  \/ use = "forward" /\ ForwardStep
  \/ use = "forward" /\ (\E e \in End : Eof(e)) /\ UNCHANGED forwardVars

\* What happens by itself: the sockets, the loops of both ends, the timeout of a send.
HostLoop ==
  \/ HostOpen \/ HostLoginAgain \/ HostLoginFails \/ HostLoginPending \/ HostLoginOk
  \/ HostDelayReply \/ HostCheck \/ HostLeaves
ClientLoop == ClientHash \/ ClientTestDelay \/ ClientIgnores \/ ClientFatal \/ ClientPeerInfo
              \/ ClientFlushes

\* Each end is a task that goes on as long as it can: its reads, its sends and their timeout.
\* Every such step uses up bytes, messages or a send, so the ends come to rest.
Progress(e) ==
  \/ Moves(e) /\ UNCHANGED forwardVars
  \/ use = "session" /\ (ReceiveMessage(e) \/ GiveUpGridlock(e) \/ Eof(e)) /\ UNCHANGED forwardVars
  \/ use = "forward" /\ (ForwardIn(e) \/ (IF e = "host" THEN HostLoop ELSE ClientLoop))
AtRest == \A e \in End : ~ENABLED Progress(e)

Spec == Init /\ [][Next]_vars

(***************************************************************************)
(* Properties.                                                             *)
(***************************************************************************)

\* Every frame an end decodes is the next message of its peer, whole: sends that were given
\* up half-way, frames cut at any place and the switch to raw bytes never make it read a
\* header where there is none or the wrong number of bytes.
Faithful == \A e \in End : ~garbled[e]

\* A frame fails to decrypt only when the peer gave up a message it had sealed before Framed
\* took it: the nonces of the two ends have parted.
Decrypts == \A e \in End : badDec[e] => skipped[Peer(e)]

\* No message gets into the forwarded data.  The host starts try_port_forward_loop when no
\* answer to a TestDelay is outstanding, if it accepted the login by itself; the client
\* forwards nothing the host sent as a message, but for what the connection manager sends
\* while the host waits for that answer.
CleanSwitch ==
  /\ authorized /\ ~clicked => "delay_reply" \notin injected["host"]
  /\ injected["client"] \subseteq {"chat"}

\* The two ends never wait for each other for ever.  When nothing more can happen by itself
\* and the connection is up, no send is in progress (two ends that fill the sockets get out
\* of it), every message Framed took has been received unless the last send was given up
\* (what it left in the buffer waits for the next one), and once a login is accepted both
\* ends forward bytes, although the client leaves its message loop while the host still
\* waits for the answer to its TestDelay.
Unfinished ==
  \/ \E e \in End : up[e] /\ out[e] # "none"
  \/ /\ use = "session" /\ \A e \in End : up[e]
     /\ \E e \in End : ~stalled[e] /\ got[Peer(e)] < Len(sent[e])
  \/ /\ use = "forward" /\ authorized /\ \A e \in End : up[e]
     /\ \E e \in End : at[e] # "raw"
NeverGridlocked == Unfinished => ~AtRest
=============================================================================

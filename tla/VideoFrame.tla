----------------------------- MODULE VideoFrame -----------------------------
(***************************************************************************)
(* The inner loop of a video service (`run` in src/server/video_service.rs)*)
(* and the connections it feeds (src/server/connection.rs): one frame is   *)
(* captured, encoded and sent to every subscriber, then the loop waits     *)
(* until each of them has fetched it, for three seconds at most.  The      *)
(* subscriber maps are those of Service, an operation on them one step.    *)
(***************************************************************************)
EXTENDS Integers, FiniteSets

CONSTANTS
  Conn,   \* connection ids
  Web,    \* connections whose client acknowledges frames (video_ack_required)
  Svc,    \* video services, a monitor or a camera each
  Idx     \* Idx[s]: the display index of s

ASSUME VideoFrameAssumption ==
  /\ Web \subseteq Conn
  /\ DOMAIN Idx = Svc

VARIABLES
  subs, new,         \* subscribes and new_subscribes of a service
  pc,                \* where the thread of a service is
  refresh,           \* OPTION_REFRESH
  first,             \* the encoder has not produced a frame yet
  send_conn_ids,     \* VideoFrameController::send_conn_ids
  fetched,           \* fetched_conn_ids of the wait in progress
  display_conn_ids,  \* DISPLAY_CONN_IDS, {} where there is no entry
  chan,              \* the ids in a channel of FRAME_FETCHED_NOTIFIERS
  conn,              \* a connection's life
  rx_video,          \* frames a connection has not fetched: the current one
                     \* of the service, older ones
  delivered,         \* frames a web client has and has not acknowledged
  prev,              \* history: receivers of the encoder's last frame that
                     \* have not unsubscribed since
  clean,             \* history: every wait so far ended by acknowledgement
  asked,             \* history: a refresh was asked for and not seen yet
  overdue            \* history: old frames sent since then

vars == <<subs, new, pc, refresh, first, send_conn_ids, fetched,
          display_conn_ids, chan, conn, rx_video, delivered,
          prev, clean, asked, overdue>>
maps    == <<subs, new>>
encoder == <<refresh, first, prev, asked, overdue>>
acks    == <<display_conn_ids, chan>>
clients == <<conn, rx_video, delivered>>

DisplayIdx == {Idx[s] : s \in Svc}
MaxOverdue == 2    \* bound of the history counter `overdue`
MaxDelivered == 1  \* frames a web client still acknowledges: it forgets others

TypeOK ==
  /\ subs \in [Svc -> SUBSET Conn] /\ new \in [Svc -> SUBSET Conn]
  /\ pc \in [Svc -> {"loop", "setup", "ok", "frame", "has_subscribes", "encode",
                     "set_send", "wait", "drop"}]
  /\ refresh \in [Svc -> BOOLEAN] /\ first \in [Svc -> BOOLEAN]
  /\ send_conn_ids \in [Svc -> SUBSET Conn] /\ fetched \in [Svc -> SUBSET Conn]
  /\ display_conn_ids \in [DisplayIdx -> SUBSET Conn]
  /\ chan \in [DisplayIdx -> SUBSET Conn]
  /\ conn \in [Conn -> {"open", "closing", "closed"}]
  /\ rx_video \in [Svc -> [Conn -> SUBSET {"current", "old"}]]
  /\ delivered \in [Conn -> 0..MaxDelivered]
  /\ prev \in [Svc -> SUBSET Conn]
  /\ clean \in [Svc -> BOOLEAN] /\ asked \in [Svc -> BOOLEAN]
  /\ overdue \in [Svc -> 0..MaxOverdue]

Init ==
  /\ subs = [s \in Svc |-> {}] /\ new = [s \in Svc |-> {}]
  /\ pc = [s \in Svc |-> "loop"]
  /\ refresh = [s \in Svc |-> FALSE] /\ first = [s \in Svc |-> FALSE]
  /\ send_conn_ids = [s \in Svc |-> {}] /\ fetched = [s \in Svc |-> {}]
  /\ display_conn_ids = [i \in DisplayIdx |-> {}]
  /\ chan = [i \in DisplayIdx |-> {}]
  /\ conn = [c \in Conn |-> "open"]
  /\ rx_video = [s \in Svc |-> [c \in Conn |-> {}]]
  /\ delivered = [c \in Conn |-> 0]
  /\ prev = [s \in Svc |-> {}]
  /\ clean = [s \in Svc |-> TRUE] /\ asked = [s \in Svc |-> FALSE]
  /\ overdue = [s \in Svc |-> 0]

At(s, l) == pc[s] = l
Go(s, l) == pc' = [pc EXCEPT ![s] = l]

(***************************************************************************)
(* The connections.                                                        *)
(***************************************************************************)
OnSubscribe(s, c) ==
  /\ conn[c] = "open"
  /\ c \notin subs[s]
  /\ new' = [new EXCEPT ![s] = @ \cup {c}]
  /\ UNCHANGED <<subs, pc, encoder, send_conn_ids, fetched, acks, clients, clean>>

Unsubscribed(C, S) ==
  /\ subs' = [s \in Svc |-> IF s \in S THEN subs[s] \ C ELSE subs[s]]
  /\ new' = [s \in Svc |-> IF s \in S THEN new[s] \ C ELSE new[s]]
  /\ prev' = [s \in Svc |-> IF s \in S THEN prev[s] \ C ELSE prev[s]]

OnUnsubscribe(s, c) ==
  /\ conn[c] = "open"
  /\ c \in subs[s] \cup new[s]
  /\ Unsubscribed({c}, {s})
  /\ UNCHANGED <<pc, refresh, first, asked, overdue, send_conn_ids, fetched,
                 acks, clients, clean>>

(* Connection::refresh_video_display *)
RefreshVideoDisplay(s) ==
  /\ \E c \in Conn : conn[c] = "open"
  /\ refresh' = [refresh EXCEPT ![s] = TRUE]
  /\ asked' = [asked EXCEPT ![s] = TRUE]
  /\ UNCHANGED <<maps, pc, first, prev, overdue, send_conn_ids, fetched, acks,
                 clients, clean>>

(* notify_video_frame_fetched *)
Notify(i, c) == [chan EXCEPT ![i] = @ \cup {c}]

(* The connection task takes a frame from rx_video, oldest first; `old`    *)
(* stands for one old frame or several.                                    *)
Fetch(s, c) ==
  LET q == rx_video[s][c] IN
  /\ conn[c] = "open"
  /\ q # {}
  /\ \E rest \in (IF "old" \in q THEN {q, q \ {"old"}} ELSE {{}}) :
       rx_video' = [rx_video EXCEPT ![s][c] = rest]
  /\ IF c \in Web
       THEN /\ delivered' = [delivered EXCEPT ![c] =
                             IF @ < MaxDelivered THEN @ + 1 ELSE @]
            /\ UNCHANGED chan
       ELSE chan' = Notify(Idx[s], c) /\ UNCHANGED delivered
  /\ UNCHANGED <<maps, pc, encoder, send_conn_ids, fetched, display_conn_ids,
                 conn, clean>>

(* notify_video_frame_fetched_by_conn_id *)
NotifyByConnId(c) ==
  chan' = [i \in DisplayIdx |-> IF c \in display_conn_ids[i]
                                  THEN chan[i] \cup {c} ELSE chan[i]]

(* A web client acknowledges a frame without saying of which display.      *)
VideoReceived(c) ==
  /\ conn[c] = "open" /\ delivered[c] > 0
  /\ delivered' = [delivered EXCEPT ![c] = @ - 1]
  /\ NotifyByConnId(c)
  /\ UNCHANGED <<maps, pc, encoder, send_conn_ids, fetched, display_conn_ids,
                 conn, rx_video, clean>>

(* The connection's loop is left: the services waiting for it are told.    *)
Close(c) ==
  /\ conn[c] = "open"
  /\ conn' = [conn EXCEPT ![c] = "closing"]
  /\ NotifyByConnId(c)
  /\ clean' = [s \in Svc |-> clean[s] /\ c \notin display_conn_ids[Idx[s]]]
  /\ UNCHANGED <<maps, pc, encoder, send_conn_ids, fetched, display_conn_ids,
                 rx_video, delivered>>

(* And later it is removed from the services.                              *)
RemoveConnection(c) ==
  /\ conn[c] = "closing"
  /\ conn' = [conn EXCEPT ![c] = "closed"]
  /\ Unsubscribed({c}, Svc)
  /\ rx_video' = [s \in Svc |-> [rx_video[s] EXCEPT ![c] = {}]]
  /\ UNCHANGED <<pc, refresh, first, asked, overdue, send_conn_ids, fetched,
                 acks, delivered, clean>>

(***************************************************************************)
(* The service thread.                                                     *)
(***************************************************************************)
(* `run` is called back when there are subscribers; it creates a capturer  *)
(* and an encoder, or fails to.                                            *)
SetupEncoder(s) ==
  /\ At(s, "loop")
  /\ subs[s] \cup new[s] # {}
  /\ Go(s, "setup")
  /\ first' = [first EXCEPT ![s] = TRUE]
  /\ prev' = [prev EXCEPT ![s] = {}]
  /\ send_conn_ids' = [send_conn_ids EXCEPT ![s] = {}]
  /\ UNCHANGED <<maps, refresh, asked, overdue, fetched, acks, clients, clean>>

(* A refresh asked for until now is what the new encoder will give.        *)
ClearRefresh(s) ==
  /\ At(s, "setup")
  /\ refresh' = [refresh EXCEPT ![s] = FALSE]
  /\ Go(s, "ok")
  /\ UNCHANGED <<maps, first, prev, asked, overdue, send_conn_ids, fetched,
                 acks, clients, clean>>

(* `run` returns, with an error ("SWITCH", or a real one) or because ok()  *)
(* does not hold; Raii::drop removes the entry of DISPLAY_CONN_IDS.        *)
Return(s) ==
  /\ Go(s, "loop")
  /\ display_conn_ids' = [display_conn_ids EXCEPT ![Idx[s]] = {}]
  /\ clean' = [clean EXCEPT ![s] = @ /\ (At(s, "wait") => send_conn_ids[s] = {})]

Stop(s) ==
  /\ At(s, "ok")
  /\ subs[s] \cup new[s] = {}
  /\ Return(s)
  /\ UNCHANGED <<maps, encoder, send_conn_ids, fetched, chan, clients>>

(* mutant: a pending refresh does not end the loop *)
GoesOnAnyway(s) == TRUE

(* The checks at the top of the loop let it go on.                         *)
NoSwitch(s) == ~refresh[s]

(* A switch: a refresh, another codec, privacy mode, a capture error...    *)
Bail(s) ==
  /\ At(s, "ok") \/ At(s, "encode") \/ At(s, "wait")
  /\ Return(s)
  /\ UNCHANGED <<maps, encoder, send_conn_ids, fetched, chan, clients>>

Swap(s) ==
  /\ subs' = [subs EXCEPT ![s] = @ \cup new[s]]
  /\ new' = [new EXCEPT ![s] = {}]

(* try_broadcast_display_changed finds that the display changed: its       *)
(* snapshot makes the new subscribers ordinary ones, then comes a switch.  *)
DisplayChanged(s) ==
  /\ At(s, "ok") \/ At(s, "wait")
  /\ Swap(s)
  /\ Return(s)
  /\ UNCHANGED <<encoder, send_conn_ids, fetched, chan, clients>>

(* frame_controller.reset, and a frame to encode.                          *)
CaptureFrame(s) ==
  /\ At(s, "ok")
  /\ subs[s] \cup new[s] # {}
  /\ NoSwitch(s)
  /\ send_conn_ids' = [send_conn_ids EXCEPT ![s] = {}]
  /\ Go(s, "frame")
  /\ UNCHANGED <<maps, encoder, fetched, acks, clients, clean>>

Wait(s) ==
  /\ Go(s, "wait")
  /\ fetched' = [fetched EXCEPT ![s] = {}]

(* No frame within the time of one: WouldBlock, or an invalid frame.       *)
WouldBlock(s) ==
  /\ At(s, "ok")
  /\ subs[s] \cup new[s] # {}
  /\ NoSwitch(s)
  /\ send_conn_ids' = [send_conn_ids EXCEPT ![s] = {}]
  /\ Wait(s)
  /\ UNCHANGED <<maps, encoder, acks, clients, clean>>

(* handle_one_frame: the snapshot's closure runs if there are new          *)
(* subscribers...                                                          *)
Snapshot(s) ==
  /\ At(s, "frame")
  /\ Go(s, IF new[s] = {} THEN "encode" ELSE "has_subscribes")
  /\ UNCHANGED <<maps, encoder, send_conn_ids, fetched, acks, clients, clean>>

(* ... and asks for a new encoder if there are old ones as well.           *)
SwitchForNew(s) == subs[s] # {}

HasSubscribes(s) ==
  /\ At(s, "has_subscribes")
  /\ Swap(s)
  /\ IF SwitchForNew(s) THEN Return(s)
                        ELSE Go(s, "encode") /\ UNCHANGED <<display_conn_ids, clean>>
  /\ UNCHANGED <<encoder, send_conn_ids, fetched, chan, clients>>

(* Encoding fails, and not so badly that the encoder is switched.          *)
EncodeError(s) ==
  /\ At(s, "encode")
  /\ Wait(s)
  /\ UNCHANGED <<maps, encoder, send_conn_ids, acks, clients, clean>>

Superseded(q) == IF q = {} THEN {} ELSE {"old"}

(* send_video_frame to the subscribers, which the loop remembers.          *)
SendVideoFrame(s) ==
  /\ At(s, "encode")
  /\ Go(s, "set_send")
  /\ send_conn_ids' = [send_conn_ids EXCEPT ![s] = subs[s]]
  /\ rx_video' = [rx_video EXCEPT ![s] =
       [c \in Conn |-> Superseded(@[c]) \cup (IF c \in subs[s] THEN {"current"} ELSE {})]]
  /\ prev' = [prev EXCEPT ![s] = subs[s]]
  /\ first' = [first EXCEPT ![s] = FALSE]
  /\ asked' = [asked EXCEPT ![s] = @ /\ ~first[s]]
  /\ overdue' = [overdue EXCEPT ![s] =
       IF first[s] \/ ~asked[s] THEN 0 ELSE IF @ < MaxOverdue THEN @ + 1 ELSE @]
  /\ UNCHANGED <<maps, refresh, fetched, acks, conn, delivered, clean>>

(* VideoFrameController::set_send *)
SetSend(s) ==
  /\ At(s, "set_send")
  /\ Wait(s)
  /\ display_conn_ids' = IF send_conn_ids[s] = {} THEN display_conn_ids
       ELSE [display_conn_ids EXCEPT ![Idx[s]] = send_conn_ids[s]]
  /\ UNCHANGED <<maps, encoder, send_conn_ids, chan, clients, clean>>

(* mutant: one acknowledgement is enough *)
AnyFetched(s) == fetched'[s] # {} \/ send_conn_ids[s] = {}

AllFetched(s) == Cardinality(fetched'[s]) >= Cardinality(send_conn_ids[s])

(* try_wait_next takes whatever the channel of the display index holds,    *)
(* perhaps nothing after 300 ms; it does nothing if no frame was sent.     *)
Take(s) ==
  LET i == Idx[s] IN
  IF send_conn_ids[s] = {}
    THEN UNCHANGED <<fetched, chan>>
    ELSE /\ fetched' = [fetched EXCEPT ![s] = @ \cup chan[i]]
         /\ chan' = [chan EXCEPT ![i] = {}]

TryWaitNext(s) ==
  /\ At(s, "wait")
  /\ Take(s)
  /\ Go(s, IF AllFetched(s) THEN "drop" ELSE "wait")
  /\ UNCHANGED <<maps, encoder, send_conn_ids, display_conn_ids, clients, clean>>

(* mutant: the wait has no limit *)
Forever(s) == FALSE

(* After the last try_wait_next three seconds are over.                    *)
TimedOut(s) == ~AllFetched(s)

WaitTimeout(s) ==
  /\ At(s, "wait")
  /\ Take(s)
  /\ TimedOut(s)
  /\ Go(s, "drop")
  /\ clean' = [clean EXCEPT ![s] = FALSE]
  /\ UNCHANGED <<maps, encoder, send_conn_ids, display_conn_ids, clients>>

RemoveEntry(s) == [display_conn_ids EXCEPT ![Idx[s]] = {}]

WaitDone(s) ==
  /\ At(s, "drop")
  /\ Go(s, "ok")
  /\ display_conn_ids' = RemoveEntry(s)
  /\ fetched' = [fetched EXCEPT ![s] = {}]
  /\ UNCHANGED <<maps, encoder, send_conn_ids, chan, clients, clean>>

Thread(s) ==
  \/ SetupEncoder(s)
  \/ ClearRefresh(s)
  \/ Stop(s)
  \/ Bail(s)
  \/ DisplayChanged(s)
  \/ CaptureFrame(s)
  \/ WouldBlock(s)
  \/ Snapshot(s)
  \/ HasSubscribes(s)
  \/ EncodeError(s)
  \/ SendVideoFrame(s)
  \/ SetSend(s)
  \/ TryWaitNext(s)
  \/ WaitTimeout(s)
  \/ WaitDone(s)

Next ==
  \/ \E s \in Svc, c \in Conn : OnSubscribe(s, c) \/ OnUnsubscribe(s, c)
  \/ \E s \in Svc : RefreshVideoDisplay(s)
  \/ \E s \in Svc, c \in Conn : Fetch(s, c)
  \/ \E c \in Conn : VideoReceived(c)
  \/ \E c \in Conn : Close(c) \/ RemoveConnection(c)
  \/ \E s \in Svc : Thread(s)

Spec == Init /\ [][Next]_vars

(***************************************************************************)
(* Fairness.  The thread keeps running (its waits have a limit), capturing *)
(* and encoding do not fail for ever, a connection that has left its loop  *)
(* removes itself.  Nothing is assumed of the clients.                     *)
(***************************************************************************)
Fairness ==
  /\ \A s \in Svc : /\ WF_vars(Thread(s))
                    /\ SF_vars(CaptureFrame(s))
                    /\ SF_vars(SendVideoFrame(s))
                    /\ SF_vars(WaitTimeout(s))
  /\ \A c \in Conn : WF_vars(RemoveConnection(c))

FairSpec == Spec /\ Fairness

(***************************************************************************)
(* Properties.                                                             *)
(***************************************************************************)
(* DISPLAY_CONN_IDS names the receivers of a display's frame only while    *)
(* the display's loop waits for them, on every way out of the wait: an     *)
(* entry that stays would credit a later frame with an acknowledgement.    *)
(* (Where no two services share a display index.)                          *)
EntryOnlyInWait ==
  \A s \in Svc :
    display_conn_ids[Idx[s]] # {} =>
      pc[s] \in {"wait", "drop"} /\ display_conn_ids[Idx[s]] = send_conn_ids[s]

(* As long as every wait ended by acknowledgement and nobody left during   *)
(* one, a connection never has more than one frame of a service to fetch:  *)
(* the slowest connection, or web client, paces the loop.                  *)
Backpressure ==
  \A s \in Svc, c \in Conn : clean[s] => "old" \notin rx_video[s][c]

(* "new sub and old sub share the same encoder": a frame that is not the   *)
(* first of its encoder goes to receivers of the frame before, or to none  *)
(* of them, never to a newcomer beside somebody who is in mid-stream.      *)
NewcomersApart ==
  [][\A s \in Svc :
       SendVideoFrame(s) /\ ~first[s] =>
         subs[s] \subseteq prev[s] \/ subs[s] \cap prev[s] = {}]_vars

(* After refresh_video_display at most one more frame of the old encoder   *)
(* is sent, even if the request arrives while `run` clears the option.     *)
RefreshSoon == \A s \in Svc : overdue[s] <= 1

(* Once subscriptions and refresh requests have settled, every subscriber  *)
(* is sent frames again and again, however slow or dead other connections  *)
(* are.                                                                    *)
Served ==
  \A s \in Svc, c \in Conn :
    <>[](c \in subs[s] /\ new[s] = {} /\ ~refresh[s])
      => []<>(pc[s] = "set_send" /\ c \in send_conn_ids[s])
=============================================================================

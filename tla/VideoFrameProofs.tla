-------------------------- MODULE VideoFrameProofs --------------------------
(***************************************************************************)
(* Proofs about VideoFrame: for any number of connections and services,    *)
(* and however long they run, a refresh is answered after at most one more *)
(* frame, newcomers never join an encoder in mid-stream beside others,     *)
(* DISPLAY_CONN_IDS has an entry only while its loop waits, and the        *)
(* slowest connection paces the loop.                                      *)
(***************************************************************************)
EXTENDS VideoFrame, FiniteSetTheorems, TLAPS

(* The steps are first-order: Zenon proves them, except where SMT is named. *)
USE Zenon

(***************************************************************************)
(* Types.                                                                  *)
(***************************************************************************)
LEMMA IdxInDisplays == \A s \in Svc : Idx[s] \in DisplayIdx
  BY DEF DisplayIdx

(* A step of a connection keeps every variable in its type.                *)
LEMMA ConnTypes ==
  ASSUME TypeOK, NEW s \in Svc, NEW c \in Conn,
         \/ OnSubscribe(s, c) \/ OnUnsubscribe(s, c) \/ RefreshVideoDisplay(s)
         \/ Fetch(s, c) \/ VideoReceived(c) \/ Close(c) \/ RemoveConnection(c)
  PROVE  TypeOK'
<1> USE IdxInDisplays DEF maps, encoder, acks, clients
<1>1. CASE OnSubscribe(s, c)
  BY <1>1 DEF TypeOK, OnSubscribe
<1>2. CASE OnUnsubscribe(s, c)
  BY <1>2 DEF TypeOK, OnUnsubscribe, Unsubscribed
<1>3. CASE RefreshVideoDisplay(s)
  BY <1>3 DEF TypeOK, RefreshVideoDisplay
<1>4. CASE Fetch(s, c)
  <2>1. rx_video' \in [Svc -> [Conn -> SUBSET {"current", "old"}]]
    <3> DEFINE q == rx_video[s][c]
    <3>1. PICK rest \in (IF "old" \in q THEN {q, q \ {"old"}} ELSE {{}}) :
                 rx_video' = [rx_video EXCEPT ![s][c] = rest]
      BY <1>4 DEF Fetch
    <3>2. q \in SUBSET {"current", "old"}
      BY SMT DEF TypeOK
    <3>3. rest \in SUBSET {"current", "old"}
      BY <3>1, <3>2
    <3>4. QED BY <3>1, <3>3 DEF TypeOK
  <2>2. delivered' \in [Conn -> 0..MaxDelivered]
    <3>1. \/ UNCHANGED delivered
          \/ delivered' = [delivered EXCEPT ![c] = IF @ < MaxDelivered THEN @ + 1 ELSE @]
      BY <1>4 DEF Fetch
    <3>2. QED BY SMT, <3>1 DEF TypeOK, MaxDelivered
  <2>3. chan' \in [DisplayIdx -> SUBSET Conn]
    <3>1. UNCHANGED chan \/ chan' = [chan EXCEPT ![Idx[s]] = @ \cup {c}]
      BY <1>4 DEF Fetch, Notify
    <3>2. chan[Idx[s]] \cup {c} \in SUBSET Conn /\ chan \in [DisplayIdx -> SUBSET Conn]
      BY DEF TypeOK
    <3>3. QED BY <3>1, <3>2
  <2>4. QED BY <1>4, <2>1, <2>2, <2>3 DEF TypeOK, Fetch
<1>5. CASE VideoReceived(c)
  BY SMT, <1>5 DEF TypeOK, VideoReceived, NotifyByConnId, MaxDelivered
<1>6. CASE Close(c)
  BY <1>6 DEF TypeOK, Close, NotifyByConnId
<1>7. CASE RemoveConnection(c)
  BY <1>7 DEF TypeOK, RemoveConnection, Unsubscribed
<1>8. QED BY <1>1, <1>2, <1>3, <1>4, <1>5, <1>6, <1>7

(* So does a step of a service's thread.                                   *)
LEMMA ThreadTypes ==
  ASSUME TypeOK, NEW s \in Svc, Thread(s)
  PROVE  TypeOK'
<1> USE IdxInDisplays DEF maps, encoder, acks, clients, Go
<1>1. CASE SetupEncoder(s)
  BY <1>1 DEF TypeOK, SetupEncoder
<1>2. CASE ClearRefresh(s)
  BY <1>2 DEF TypeOK, ClearRefresh
<1>3. CASE Stop(s) \/ Bail(s)
  BY <1>3 DEF TypeOK, Stop, Bail, Return
<1>4. CASE DisplayChanged(s)
  BY <1>4 DEF TypeOK, DisplayChanged, Swap, Return
<1>5. CASE CaptureFrame(s)
  BY <1>5 DEF TypeOK, CaptureFrame
<1>6. CASE WouldBlock(s)
  BY <1>6 DEF TypeOK, WouldBlock, Wait
<1>7. CASE Snapshot(s)
  BY <1>7 DEF TypeOK, Snapshot
<1>8. CASE HasSubscribes(s)
  <2>1. CASE SwitchForNew(s)
    BY <1>8, <2>1 DEF TypeOK, HasSubscribes, Swap, Return
  <2>2. CASE ~SwitchForNew(s)
    BY <1>8, <2>2 DEF TypeOK, HasSubscribes, Swap
  <2>3. QED BY <2>1, <2>2
<1>9. CASE EncodeError(s)
  BY <1>9 DEF TypeOK, EncodeError, Wait
<1>10. CASE SendVideoFrame(s)
  <2>1. rx_video' \in [Svc -> [Conn -> SUBSET {"current", "old"}]]
    BY <1>10 DEF TypeOK, SendVideoFrame, Superseded
  <2>2. overdue' \in [Svc -> 0..MaxOverdue]
    BY SMT, <1>10 DEF TypeOK, SendVideoFrame, MaxOverdue
  <2>3. QED BY <1>10, <2>1, <2>2 DEF TypeOK, SendVideoFrame
<1>11. CASE SetSend(s)
  BY <1>11 DEF TypeOK, SetSend, Wait
<1>12. CASE TryWaitNext(s) \/ WaitTimeout(s)
  <2>1. fetched' \in [Svc -> SUBSET Conn] /\ chan' \in [DisplayIdx -> SUBSET Conn]
    <3>1. \/ UNCHANGED <<fetched, chan>>
          \/ /\ fetched' = [fetched EXCEPT ![s] = @ \cup chan[Idx[s]]]
             /\ chan' = [chan EXCEPT ![Idx[s]] = {}]
      BY <1>12 DEF TryWaitNext, WaitTimeout, Take
    <3>2. /\ fetched[s] \cup chan[Idx[s]] \in SUBSET Conn
          /\ fetched \in [Svc -> SUBSET Conn] /\ chan \in [DisplayIdx -> SUBSET Conn]
      BY DEF TypeOK
    <3>3. QED BY SMT, <3>1, <3>2
  <2>2. pc' = [pc EXCEPT ![s] = "drop"] \/ pc' = [pc EXCEPT ![s] = "wait"]
    BY <1>12 DEF TryWaitNext, WaitTimeout
  <2>3. clean' \in [Svc -> BOOLEAN]
    BY <1>12 DEF TypeOK, TryWaitNext, WaitTimeout
  <2>4. UNCHANGED <<maps, encoder, send_conn_ids, display_conn_ids, clients>>
    BY <1>12 DEF TryWaitNext, WaitTimeout
  <2>5. QED BY <2>1, <2>2, <2>3, <2>4 DEF TypeOK
<1>13. CASE WaitDone(s)
  BY <1>13 DEF TypeOK, WaitDone, RemoveEntry
<1>14. QED
  BY Thread(s), <1>1, <1>2, <1>3, <1>4, <1>5, <1>6, <1>7, <1>8, <1>9, <1>10, <1>11,
     <1>12, <1>13 DEF Thread

LEMMA TypeStep == TypeOK /\ [Next]_vars => TypeOK'
<1> SUFFICES ASSUME TypeOK, [Next]_vars PROVE TypeOK' OBVIOUS
<1>1. CASE UNCHANGED vars
  BY <1>1 DEF TypeOK, vars
<1>2. ASSUME NEW s \in Svc, Thread(s) PROVE TypeOK'
  BY <1>2, ThreadTypes
<1>3. ASSUME NEW s \in Svc, RefreshVideoDisplay(s) PROVE TypeOK'
  BY <1>3 DEF TypeOK, RefreshVideoDisplay, maps, acks, clients
<1>4. ASSUME NEW s \in Svc, NEW c \in Conn,
             OnSubscribe(s, c) \/ OnUnsubscribe(s, c) \/ Fetch(s, c)
      PROVE  TypeOK'
  BY <1>4, ConnTypes
<1>5. ASSUME NEW c \in Conn, VideoReceived(c) \/ Close(c) \/ RemoveConnection(c)
      PROVE  TypeOK'
  <2>1. CASE VideoReceived(c)
    BY SMT, <1>5, <2>1 DEF TypeOK, VideoReceived, NotifyByConnId, MaxDelivered, maps, encoder
  <2>2. CASE Close(c)
    BY <1>5, <2>2 DEF TypeOK, Close, NotifyByConnId, maps, encoder
  <2>3. CASE RemoveConnection(c)
    BY <1>5, <2>3 DEF TypeOK, RemoveConnection, Unsubscribed, acks
  <2>4. QED BY <1>5, <2>1, <2>2, <2>3
<1>6. QED BY <1>1, <1>2, <1>3, <1>4, <1>5 DEF Next

(* Every variable keeps its type, for any set of connections and services. *)
THEOREM TypeCorrect == Spec => []TypeOK
<1>1. Init => TypeOK
  BY SMT DEF Init, TypeOK, MaxDelivered, MaxOverdue
<1>2. QED BY <1>1, TypeStep, PTL DEF Spec

(***************************************************************************)
(* Refresh.  A request that is not answered yet, once the encoder is no    *)
(* longer new, is still in OPTION_REFRESH: only `run` clears the option,   *)
(* and it does so before the encoder's first frame.  The check at the top  *)
(* of the loop then lets no further frame through.                         *)
(***************************************************************************)
Encoding == {"frame", "has_subscribes", "encode"}

RefreshInv ==
  \A s \in Svc :
    /\ pc[s] = "setup" => first[s]
    /\ asked[s] /\ ~first[s] => refresh[s]
    /\ overdue[s] # 0 => /\ overdue[s] = 1 /\ asked[s]
                         /\ first[s] \/ pc[s] \notin Encoding

LEMMA RefreshThread ==
  ASSUME TypeOK, RefreshInv, NEW s \in Svc, Thread(s)
  PROVE  RefreshInv'
<1> SUFFICES ASSUME NEW t \in Svc
             PROVE  /\ pc'[t] = "setup" => first'[t]
                    /\ asked'[t] /\ ~first'[t] => refresh'[t]
                    /\ overdue'[t] # 0 => /\ overdue'[t] = 1 /\ asked'[t]
                                          /\ first'[t] \/ pc'[t] \notin Encoding
  BY DEF RefreshInv
<1> USE DEF maps, encoder, acks, clients, Go, At, Encoding
<1>1. CASE SetupEncoder(s)
  BY <1>1 DEF TypeOK, RefreshInv, SetupEncoder
<1>2. CASE ClearRefresh(s)
  BY <1>2 DEF TypeOK, RefreshInv, ClearRefresh
<1>3. CASE Stop(s) \/ Bail(s) \/ DisplayChanged(s)
  BY <1>3 DEF TypeOK, RefreshInv, Stop, Bail, DisplayChanged, Return
<1>4. CASE CaptureFrame(s)
  BY <1>4 DEF TypeOK, RefreshInv, CaptureFrame, NoSwitch
<1>5. CASE WouldBlock(s) \/ EncodeError(s)
  BY <1>5 DEF TypeOK, RefreshInv, WouldBlock, EncodeError, Wait
<1>6. CASE Snapshot(s)
  BY <1>6 DEF TypeOK, RefreshInv, Snapshot
<1>7. CASE HasSubscribes(s)
  BY <1>7 DEF TypeOK, RefreshInv, HasSubscribes, Return
<1>8. CASE SendVideoFrame(s)
  BY SMT, <1>8 DEF TypeOK, RefreshInv, SendVideoFrame, MaxOverdue
<1>9. CASE SetSend(s)
  BY <1>9 DEF TypeOK, RefreshInv, SetSend, Wait
<1>10. CASE TryWaitNext(s) \/ WaitTimeout(s)
  <2>1. pc' = [pc EXCEPT ![s] = "drop"] \/ pc' = [pc EXCEPT ![s] = "wait"]
    BY <1>10 DEF TryWaitNext, WaitTimeout
  <2>2. UNCHANGED encoder
    BY <1>10 DEF TryWaitNext, WaitTimeout
  <2>3. QED BY <2>1, <2>2 DEF TypeOK, RefreshInv
<1>11. CASE WaitDone(s)
  BY <1>11 DEF TypeOK, RefreshInv, WaitDone
<1>12. QED
  BY Thread(s), <1>1, <1>2, <1>3, <1>4, <1>5, <1>6, <1>7, <1>8, <1>9, <1>10, <1>11 DEF Thread

LEMMA RefreshStep == TypeOK /\ RefreshInv /\ [Next]_vars => RefreshInv'
<1> SUFFICES ASSUME TypeOK, RefreshInv, [Next]_vars PROVE RefreshInv' OBVIOUS
<1> USE DEF maps, encoder, acks, clients
<1>1. CASE UNCHANGED vars
  BY <1>1 DEF RefreshInv, vars
<1>2. ASSUME NEW s \in Svc, Thread(s) PROVE RefreshInv'
  BY <1>2, RefreshThread
<1>3. ASSUME NEW s \in Svc, RefreshVideoDisplay(s) PROVE RefreshInv'
  BY <1>3 DEF TypeOK, RefreshInv, RefreshVideoDisplay
<1>4. ASSUME NEW s \in Svc, NEW c \in Conn,
             OnSubscribe(s, c) \/ OnUnsubscribe(s, c) \/ Fetch(s, c)
      PROVE  RefreshInv'
  BY <1>4 DEF RefreshInv, OnSubscribe, OnUnsubscribe, Fetch
<1>5. ASSUME NEW c \in Conn, VideoReceived(c) \/ Close(c) \/ RemoveConnection(c)
      PROVE  RefreshInv'
  BY <1>5 DEF RefreshInv, VideoReceived, Close, RemoveConnection
<1>6. QED BY <1>1, <1>2, <1>3, <1>4, <1>5 DEF Next

(* At most one frame of the old encoder follows refresh_video_display,     *)
(* whenever the request arrives and for any number of services.            *)
THEOREM RefreshIsSoon == Spec => []RefreshSoon
<1>1. Init => RefreshInv
  BY DEF Init, RefreshInv
<1>2. TypeOK /\ RefreshInv => RefreshSoon
  <2> SUFFICES ASSUME TypeOK, RefreshInv, NEW s \in Svc PROVE overdue[s] <= 1
    BY DEF RefreshSoon
  <2>1. overdue[s] \in 0..2
    BY DEF TypeOK, MaxOverdue
  <2>2. QED BY SMT, <2>1 DEF RefreshInv
<1>3. QED BY <1>1, <1>2, TypeCorrect, RefreshStep, PTL DEF Spec

(***************************************************************************)
(* Newcomers.  Who got the encoder's last frame and has not unsubscribed   *)
(* is still a subscriber; subscribers are added to a running encoder only  *)
(* when it has none.                                                       *)
(***************************************************************************)
ApartInv ==
  \A s \in Svc :
    /\ prev[s] \subseteq subs[s]
    /\ pc[s] = "setup" => first[s]
    /\ ~first[s] /\ pc[s] # "loop" => subs[s] \subseteq prev[s] \/ prev[s] = {}

LEMMA ApartThread ==
  ASSUME TypeOK, ApartInv, NEW s \in Svc, Thread(s)
  PROVE  ApartInv'
<1> SUFFICES ASSUME NEW t \in Svc
             PROVE  /\ prev'[t] \subseteq subs'[t]
                    /\ pc'[t] = "setup" => first'[t]
                    /\ ~first'[t] /\ pc'[t] # "loop" =>
                         subs'[t] \subseteq prev'[t] \/ prev'[t] = {}
  BY DEF ApartInv
<1> USE DEF maps, encoder, acks, clients, Go, At
<1>1. CASE SetupEncoder(s)
  BY <1>1 DEF TypeOK, ApartInv, SetupEncoder
<1>2. CASE ClearRefresh(s)
  BY <1>2 DEF TypeOK, ApartInv, ClearRefresh
<1>3. CASE Stop(s) \/ Bail(s)
  BY <1>3 DEF TypeOK, ApartInv, Stop, Bail, Return
<1>4. CASE DisplayChanged(s)
  BY <1>4 DEF TypeOK, ApartInv, DisplayChanged, Swap, Return
<1>5. CASE CaptureFrame(s) \/ WouldBlock(s) \/ EncodeError(s) \/ Snapshot(s)
  BY <1>5 DEF TypeOK, ApartInv, CaptureFrame, WouldBlock, EncodeError, Snapshot, Wait
<1>6. CASE HasSubscribes(s)
  <2>1. CASE SwitchForNew(s)
    BY <1>6, <2>1 DEF TypeOK, ApartInv, HasSubscribes, Swap, Return
  <2>2. CASE ~SwitchForNew(s)
    BY <1>6, <2>2 DEF TypeOK, ApartInv, HasSubscribes, Swap, SwitchForNew
  <2>3. QED BY <2>1, <2>2
<1>7. CASE SendVideoFrame(s)
  BY <1>7 DEF TypeOK, ApartInv, SendVideoFrame
<1>8. CASE SetSend(s)
  BY <1>8 DEF TypeOK, ApartInv, SetSend, Wait
<1>9. CASE TryWaitNext(s) \/ WaitTimeout(s)
  <2>1. pc[s] = "wait" /\ (pc' = [pc EXCEPT ![s] = "drop"] \/ pc' = [pc EXCEPT ![s] = "wait"])
    BY <1>9 DEF TryWaitNext, WaitTimeout
  <2>2. UNCHANGED <<maps, encoder>>
    BY <1>9 DEF TryWaitNext, WaitTimeout
  <2>3. QED BY <2>1, <2>2 DEF TypeOK, ApartInv
<1>10. CASE WaitDone(s)
  BY <1>10 DEF TypeOK, ApartInv, WaitDone
<1>11. QED
  BY Thread(s), <1>1, <1>2, <1>3, <1>4, <1>5, <1>6, <1>7, <1>8, <1>9, <1>10 DEF Thread

LEMMA ApartStep == TypeOK /\ ApartInv /\ [Next]_vars => ApartInv'
<1> SUFFICES ASSUME TypeOK, ApartInv, [Next]_vars PROVE ApartInv' OBVIOUS
<1> USE DEF maps, encoder, acks, clients
<1>1. CASE UNCHANGED vars
  BY <1>1 DEF ApartInv, vars
<1>2. ASSUME NEW s \in Svc, Thread(s) PROVE ApartInv'
  BY <1>2, ApartThread
<1>3. ASSUME NEW s \in Svc, RefreshVideoDisplay(s) PROVE ApartInv'
  BY <1>3 DEF ApartInv, RefreshVideoDisplay
<1>4. ASSUME NEW s \in Svc, NEW c \in Conn, OnSubscribe(s, c) \/ Fetch(s, c)
      PROVE  ApartInv'
  BY <1>4 DEF ApartInv, OnSubscribe, Fetch
<1>5. ASSUME NEW s \in Svc, NEW c \in Conn, OnUnsubscribe(s, c) PROVE ApartInv'
  BY <1>5 DEF TypeOK, ApartInv, OnUnsubscribe, Unsubscribed
<1>6. ASSUME NEW c \in Conn, VideoReceived(c) \/ Close(c) PROVE ApartInv'
  BY <1>6 DEF ApartInv, VideoReceived, Close
<1>7. ASSUME NEW c \in Conn, RemoveConnection(c) PROVE ApartInv'
  BY <1>7 DEF TypeOK, ApartInv, RemoveConnection, Unsubscribed
<1>8. QED BY <1>1, <1>2, <1>3, <1>4, <1>5, <1>6, <1>7 DEF Next

(* A frame that is not its encoder's first never goes to a newcomer beside *)
(* a connection that is in mid-stream.                                     *)
THEOREM NewcomersStayApart == Spec => NewcomersApart
<1>1. Init => ApartInv
  BY DEF Init, ApartInv
<1>2. ApartInv /\ [Next]_vars =>
        [\A s \in Svc : SendVideoFrame(s) /\ ~first[s] =>
           subs[s] \subseteq prev[s] \/ subs[s] \cap prev[s] = {}]_vars
  BY DEF ApartInv, SendVideoFrame, At
<1>3. QED BY <1>1, <1>2, TypeCorrect, ApartStep, PTL DEF Spec, NewcomersApart

(***************************************************************************)
(* DISPLAY_CONN_IDS, where no two services have one display index.  The    *)
(* property is inductive: the entry is made when the wait begins, and both *)
(* ways out of the wait, its end and Raii::drop, remove it.                *)
(***************************************************************************)
OwnIndex == \A s, t \in Svc : Idx[s] = Idx[t] => s = t

LEMMA EntryThread ==
  ASSUME OwnIndex, TypeOK, EntryOnlyInWait, NEW s \in Svc, Thread(s)
  PROVE  EntryOnlyInWait'
<1> SUFFICES ASSUME NEW t \in Svc, display_conn_ids'[Idx[t]] # {}
             PROVE  /\ pc'[t] \in {"wait", "drop"}
                    /\ display_conn_ids'[Idx[t]] = send_conn_ids'[t]
  BY DEF EntryOnlyInWait
<1> USE IdxInDisplays DEF maps, encoder, acks, clients, Go, At, OwnIndex
<1>1. CASE SetupEncoder(s) \/ ClearRefresh(s)
  BY <1>1 DEF TypeOK, EntryOnlyInWait, SetupEncoder, ClearRefresh
<1>2. CASE Stop(s) \/ Bail(s) \/ DisplayChanged(s)
  BY <1>2 DEF TypeOK, EntryOnlyInWait, Stop, Bail, DisplayChanged, Return
<1>3. CASE CaptureFrame(s) \/ WouldBlock(s)
  BY <1>3 DEF TypeOK, EntryOnlyInWait, CaptureFrame, WouldBlock, Wait
<1>4. CASE Snapshot(s) \/ EncodeError(s)
  BY <1>4 DEF TypeOK, EntryOnlyInWait, Snapshot, EncodeError, Wait
<1>5. CASE HasSubscribes(s)
  BY <1>5 DEF TypeOK, EntryOnlyInWait, HasSubscribes, Return
<1>6. CASE SendVideoFrame(s)
  BY <1>6 DEF TypeOK, EntryOnlyInWait, SendVideoFrame
<1>7. CASE SetSend(s)
  BY <1>7 DEF TypeOK, EntryOnlyInWait, SetSend, Wait
<1>8. CASE TryWaitNext(s) \/ WaitTimeout(s)
  <2>1. pc[s] = "wait" /\ (pc' = [pc EXCEPT ![s] = "drop"] \/ pc' = [pc EXCEPT ![s] = "wait"])
    BY <1>8 DEF TryWaitNext, WaitTimeout
  <2>2. UNCHANGED <<send_conn_ids, display_conn_ids>>
    BY <1>8 DEF TryWaitNext, WaitTimeout
  <2>3. QED BY <2>1, <2>2 DEF TypeOK, EntryOnlyInWait
<1>9. CASE WaitDone(s)
  BY <1>9 DEF TypeOK, EntryOnlyInWait, WaitDone, RemoveEntry
<1>10. QED
  BY Thread(s), <1>1, <1>2, <1>3, <1>4, <1>5, <1>6, <1>7, <1>8, <1>9 DEF Thread

LEMMA EntryStep ==
  ASSUME OwnIndex
  PROVE  TypeOK /\ EntryOnlyInWait /\ [Next]_vars => EntryOnlyInWait'
<1> SUFFICES ASSUME TypeOK, EntryOnlyInWait, [Next]_vars PROVE EntryOnlyInWait' OBVIOUS
<1> USE DEF maps, encoder, acks, clients
<1>1. CASE UNCHANGED vars
  BY <1>1 DEF EntryOnlyInWait, vars
<1>2. ASSUME NEW s \in Svc, Thread(s) PROVE EntryOnlyInWait'
  BY <1>2, EntryThread
<1>3. ASSUME NEW s \in Svc, RefreshVideoDisplay(s) PROVE EntryOnlyInWait'
  BY <1>3 DEF EntryOnlyInWait, RefreshVideoDisplay
<1>4. ASSUME NEW s \in Svc, NEW c \in Conn,
             OnSubscribe(s, c) \/ OnUnsubscribe(s, c) \/ Fetch(s, c)
      PROVE  EntryOnlyInWait'
  BY <1>4 DEF EntryOnlyInWait, OnSubscribe, OnUnsubscribe, Fetch
<1>5. ASSUME NEW c \in Conn, VideoReceived(c) \/ Close(c) \/ RemoveConnection(c)
      PROVE  EntryOnlyInWait'
  BY <1>5 DEF EntryOnlyInWait, VideoReceived, Close, RemoveConnection
<1>6. QED BY <1>1, <1>2, <1>3, <1>4, <1>5 DEF Next

(* An entry of DISPLAY_CONN_IDS names the receivers of the frame the loop  *)
(* of its display is waiting for, and is gone when the loop is not waiting.*)
THEOREM EntriesAreCurrent == ASSUME OwnIndex PROVE Spec => []EntryOnlyInWait
<1>1. Init => EntryOnlyInWait
  BY IdxInDisplays DEF Init, EntryOnlyInWait
<1>2. TypeOK /\ EntryOnlyInWait /\ [Next]_vars => EntryOnlyInWait'
  BY EntryStep
<1>3. QED BY <1>1, <1>2, TypeCorrect, PTL DEF Spec

(***************************************************************************)
(* Backpressure.  The loop counts acknowledgements, it does not look who   *)
(* sent them or for which frame; three in the channel for three receivers  *)
(* mean that all have the frame only because, while every wait ends well,  *)
(* nobody is credited that was not sent the frame, and nobody that has it  *)
(* still to fetch or to acknowledge.                                       *)
(***************************************************************************)
Unfetched(s) == {c \in Conn : rx_video[s][c] # {}}
Unacked == {c \in Conn : conn[c] = "open" /\ delivered[c] > 0}
Credited(s) == chan[Idx[s]] \cup (IF pc[s] = "wait" THEN fetched[s] ELSE {})

(* From the frame's way into the channels to the end of the wait.          *)
InFlight == {"set_send", "wait"}

Paced(s) ==
  /\ \A c \in Conn : rx_video[s][c] \subseteq {"current"}
  /\ pc[s] \notin InFlight => Unfetched(s) = {} /\ Unacked = {} /\ chan[Idx[s]] = {}
  /\ pc[s] \in InFlight =>
       /\ Unfetched(s) \cup Unacked \cup Credited(s) \subseteq send_conn_ids[s]
       /\ Unfetched(s) \cap Unacked = {}
       /\ Credited(s) \cap (Unfetched(s) \cup Unacked) = {}

PacedInv ==
  /\ \A c \in Conn \ Web : delivered[c] = 0
  /\ \A s \in Svc : clean[s] => Paced(s)

(* An acknowledgement of a web client does not say of which display: it    *)
(* paces the loop if there is no other.                                    *)
AcksAreClear == Web = {} \/ \A s, t \in Svc : s = t

LEMMA PacedSame ==
  ASSUME NEW s \in Svc, Paced(s),
         pc'[s] = pc[s], rx_video'[s] = rx_video[s], chan'[Idx[s]] = chan[Idx[s]],
         fetched'[s] = fetched[s], send_conn_ids'[s] = send_conn_ids[s],
         Unacked' \subseteq Unacked
  PROVE  Paced(s)'
<1>1. Unfetched(s)' = Unfetched(s) /\ Credited(s)' = Credited(s)
  BY DEF Unfetched, Credited
<1>2. QED BY <1>1 DEF Paced

(* All receivers are credited: nobody has anything left to do.             *)
LEMMA AllCredited ==
  ASSUME IsFiniteSet(Conn), NEW S \in SUBSET Conn, NEW D \in SUBSET S,
         Cardinality(D) >= Cardinality(S)
  PROVE  D = S
<1>1. IsFiniteSet(S)
  BY FS_Subset
<1>2. Cardinality(D) <= Cardinality(S) /\ IsFiniteSet(D)
      /\ (Cardinality(S) = Cardinality(D) => S = D)
  BY <1>1, FS_Subset
<1>3. Cardinality(D) \in Nat /\ Cardinality(S) \in Nat
  BY <1>1, <1>2, FS_CardinalityType
<1>4. QED BY SMT, <1>2, <1>3

LEMMA PacedThread ==
  ASSUME OwnIndex, IsFiniteSet(Conn), TypeOK, PacedInv, NEW t \in Svc, Thread(t)
  PROVE  PacedInv'
<1> USE IdxInDisplays DEF maps, encoder, acks, clients, Go, At, OwnIndex
<1>1. UNCHANGED <<conn, delivered>>
  BY DEF Thread, SetupEncoder, ClearRefresh, Stop, Bail, DisplayChanged, CaptureFrame,
         WouldBlock, Snapshot, HasSubscribes, EncodeError, SendVideoFrame, SetSend,
         TryWaitNext, WaitTimeout, WaitDone
<1>2. Unacked' = Unacked
  BY <1>1 DEF Unacked
<1>3. SUFFICES ASSUME NEW s \in Svc, clean'[s] PROVE Paced(s)'
  BY <1>1 DEF PacedInv
<1>4. CASE s # t
  <2>1. Idx[s] # Idx[t]
    BY <1>4
  <2>2. /\ pc'[s] = pc[s] /\ rx_video'[s] = rx_video[s] /\ clean'[s] = clean[s]
        /\ fetched'[s] = fetched[s] /\ send_conn_ids'[s] = send_conn_ids[s]
    BY <1>4
    DEF TypeOK, Thread, SetupEncoder, ClearRefresh, Stop, Bail, DisplayChanged, CaptureFrame,
        WouldBlock, Snapshot, HasSubscribes, EncodeError, SendVideoFrame, SetSend,
        TryWaitNext, WaitTimeout, WaitDone, Return, Wait, Take
  <2>3. chan'[Idx[s]] = chan[Idx[s]]
    BY <2>1
    DEF TypeOK, Thread, SetupEncoder, ClearRefresh, Stop, Bail, DisplayChanged, CaptureFrame,
        WouldBlock, Snapshot, HasSubscribes, EncodeError, SendVideoFrame, SetSend,
        TryWaitNext, WaitTimeout, WaitDone, Take
  <2>4. QED BY <1>2, <1>3, <2>2, <2>3, PacedSame DEF PacedInv
<1>5. CASE s = t
  <2> USE <1>3, <1>5
  <2>1. CASE SetupEncoder(t) \/ ClearRefresh(t) \/ CaptureFrame(t) \/ Snapshot(t)
    BY SMT, <1>2, <2>1
    DEF TypeOK, PacedInv, Paced, InFlight, Unfetched, Credited, SetupEncoder, ClearRefresh,
        CaptureFrame, Snapshot
  <2>2. CASE WouldBlock(t) \/ EncodeError(t) \/ SetSend(t)
    BY SMT, <1>2, <2>2
    DEF TypeOK, PacedInv, Paced, InFlight, Unfetched, Credited, WouldBlock, EncodeError,
        SetSend, Wait
  <2>3. CASE Stop(t) \/ Bail(t) \/ DisplayChanged(t) \/ HasSubscribes(t)
    <3>1. /\ pc'[t] \in {"loop", "encode"} /\ pc[t] # "set_send"
          /\ pc[t] = "wait" => pc'[t] = "loop"
          /\ UNCHANGED <<rx_video, chan, fetched, send_conn_ids>>
      BY <2>3 DEF TypeOK, Stop, Bail, DisplayChanged, HasSubscribes, Return
    <3>2. clean[t] /\ (pc[t] = "wait" => send_conn_ids[t] = {})
      BY <2>3 DEF TypeOK, Stop, Bail, DisplayChanged, HasSubscribes, Return
    <3>3. Paced(t)
      BY <3>2 DEF PacedInv
    <3>4. Unfetched(t)' = Unfetched(t)
      BY <3>1 DEF Unfetched
    <3>5. Unfetched(t) = {} /\ Unacked = {} /\ chan[Idx[t]] = {}
      BY <3>1, <3>2, <3>3 DEF Paced, InFlight, Credited
    <3>6. QED BY <1>2, <3>1, <3>3, <3>4, <3>5 DEF Paced, InFlight
  <2>4. CASE SendVideoFrame(t)
    <3>1. /\ pc[t] = "encode" /\ pc'[t] = "set_send" /\ UNCHANGED <<chan, clean>>
          /\ send_conn_ids'[t] = subs[t]
          /\ rx_video'[t] = [c \in Conn |-> Superseded(rx_video[t][c])
                                \cup (IF c \in subs[t] THEN {"current"} ELSE {})]
      BY <2>4 DEF TypeOK, SendVideoFrame
    <3>2. Paced(t) /\ Unfetched(t) = {} /\ Unacked = {} /\ chan[Idx[t]] = {}
      BY <3>1 DEF PacedInv, Paced, InFlight
    <3>3. \A c \in Conn : rx_video'[t][c] = IF c \in subs[t] THEN {"current"} ELSE {}
      BY <3>1, <3>2 DEF Unfetched, Superseded
    <3>4. Unfetched(t)' \subseteq subs[t] /\ Credited(t)' = {}
      BY <3>1, <3>2, <3>3 DEF Unfetched, Credited
    <3>5. \A c \in Conn : rx_video'[t][c] \subseteq {"current"}
      BY <3>3
    <3>6. QED BY <1>2, <3>1, <3>2, <3>4, <3>5 DEF Paced, InFlight
  <2>5. CASE TryWaitNext(t)
    <3> DEFINE S == send_conn_ids[t]
               D == Credited(t)
    <3>1. /\ pc[t] = "wait" /\ UNCHANGED <<rx_video, send_conn_ids, clean>> /\ Take(t)
          /\ pc'[t] = IF AllFetched(t) THEN "drop" ELSE "wait"
      BY <2>5 DEF TypeOK, TryWaitNext
    <3>2. Paced(t) /\ D = chan[Idx[t]] \cup fetched[t]
      BY <3>1 DEF PacedInv, Credited
    <3>3. Unfetched(t)' = Unfetched(t)
      BY <3>1 DEF Unfetched
    <3>4. D \subseteq S /\ Unfetched(t) \cup Unacked \subseteq S
          /\ D \cap (Unfetched(t) \cup Unacked) = {} /\ Unfetched(t) \cap Unacked = {}
      BY <3>1, <3>2 DEF Paced, InFlight
    <3>5. fetched'[t] = D /\ chan'[Idx[t]] = {}
      <4>1. CASE S = {}
        BY <3>1, <3>2, <3>4, <4>1 DEF Take
      <4>2. CASE S # {}
        BY <3>1, <3>2, <4>2 DEF Take, TypeOK
      <4>3. QED BY <4>1, <4>2
    <3>6. CASE AllFetched(t)
      <4>1. S \subseteq Conn
        BY DEF TypeOK
      <4>2. D = S
        <5> HIDE DEF S, D
        <5>1. Cardinality(D) >= Cardinality(S)
          BY <3>5, <3>6 DEF AllFetched, S
        <5>2. QED BY SMT, <3>4, <4>1, <5>1, AllCredited
      <4>3. Unfetched(t) = {} /\ Unacked = {}
        BY <3>4, <4>2
      <4>4. QED BY <1>2, <3>1, <3>2, <3>3, <3>5, <3>6, <4>3 DEF Paced, InFlight
    <3>7. CASE ~AllFetched(t)
      <4>1. Credited(t)' = D
        BY <3>1, <3>5, <3>7 DEF Credited
      <4>2. QED BY <1>2, <3>1, <3>2, <3>3, <3>4, <3>7, <4>1 DEF Paced, InFlight
    <3>8. QED BY <3>6, <3>7
  <2>6. CASE WaitTimeout(t)
    BY <2>6 DEF WaitTimeout, TypeOK
  <2>7. CASE WaitDone(t)
    <3>1. /\ pc[t] = "drop" /\ pc'[t] = "ok" /\ UNCHANGED <<rx_video, chan, clean>>
      BY <2>7 DEF TypeOK, WaitDone
    <3>2. Paced(t) /\ Unfetched(t)' = Unfetched(t)
      BY <3>1 DEF PacedInv, Unfetched
    <3>3. QED BY <1>2, <3>1, <3>2 DEF Paced, InFlight
  <2>8. QED BY Thread(t), <2>1, <2>2, <2>3, <2>4, <2>5, <2>6, <2>7 DEF Thread
<1>6. QED BY <1>4, <1>5

(* A frame is fetched: one more is credited, or has it to acknowledge.     *)
LEMMA PacedFetch ==
  ASSUME OwnIndex, AcksAreClear, TypeOK, PacedInv, NEW t \in Svc, NEW c \in Conn, Fetch(t, c)
  PROVE  PacedInv'
<1> USE IdxInDisplays DEF maps, encoder, acks, clients
<1>1. UNCHANGED <<pc, send_conn_ids, fetched, conn, clean>> /\ conn[c] = "open"
  BY DEF Fetch
<1>2. \/ c \in Web /\ UNCHANGED chan
         /\ delivered' = [delivered EXCEPT ![c] = IF @ < MaxDelivered THEN @ + 1 ELSE @]
      \/ c \notin Web /\ UNCHANGED delivered /\ chan' = [chan EXCEPT ![Idx[t]] = @ \cup {c}]
  BY DEF Fetch, Notify
<1>3. \A d \in Conn \ Web : delivered'[d] = 0
  BY <1>2 DEF TypeOK, PacedInv
<1>4. SUFFICES ASSUME NEW s \in Svc, clean[s] PROVE Paced(s)'
  BY <1>1, <1>3 DEF PacedInv
<1>5. Paced(s)
  BY <1>4 DEF PacedInv
<1>6. CASE s # t
  <2>1. c \notin Web /\ Idx[s] # Idx[t]
    BY <1>6 DEF AcksAreClear, OwnIndex
  <2>2. chan'[Idx[s]] = chan[Idx[s]] /\ UNCHANGED delivered
    BY <1>2, <2>1 DEF TypeOK
  <2>3. rx_video'[s] = rx_video[s]
    BY <1>6 DEF Fetch, TypeOK
  <2>4. Unacked' = Unacked
    BY <1>1, <2>2 DEF Unacked
  <2>5. QED BY <1>1, <1>5, <2>2, <2>3, <2>4, PacedSame
<1>7. CASE s = t
  <2>1. rx_video[s][c] = {"current"} /\ rx_video' = [rx_video EXCEPT ![s][c] = {}]
    <3>1. rx_video[s][c] \subseteq {"current"} /\ rx_video[s][c] # {}
      BY <1>5, <1>7 DEF Paced, Fetch
    <3>2. QED BY <1>7, <3>1 DEF Fetch
  <2>2. /\ Unfetched(s)' = Unfetched(s) \ {c} /\ c \in Unfetched(s)
        /\ \A d \in Conn : rx_video'[s][d] \subseteq {"current"}
    BY <1>5, <2>1 DEF TypeOK, Unfetched, Paced
  <2>3. /\ pc[s] \in InFlight
        /\ Unfetched(s) \cup Unacked \cup Credited(s) \subseteq send_conn_ids[s]
        /\ Unfetched(s) \cap Unacked = {}
        /\ Credited(s) \cap (Unfetched(s) \cup Unacked) = {}
    BY <1>5, <2>2 DEF Paced
  <2>4. CASE c \in Web
    <3>1. Unacked' \subseteq Unacked \cup {c}
      BY <1>1, <1>2, <2>4 DEF Unacked, TypeOK
    <3>2. Credited(s)' = Credited(s)
      BY <1>1, <1>2, <2>4 DEF Credited
    <3>3. QED BY <1>1, <2>2, <2>3, <3>1, <3>2 DEF Paced
  <2>5. CASE c \notin Web
    <3>1. Unacked' = Unacked
      BY <1>1, <1>2, <2>5 DEF Unacked
    <3>2. Credited(s)' = Credited(s) \cup {c}
      BY <1>1, <1>2, <1>7, <2>5 DEF Credited, TypeOK
    <3>3. QED BY SMT, <1>1, <2>2, <2>3, <3>1, <3>2 DEF Paced
  <2>6. QED BY <2>4, <2>5
<1>8. QED BY <1>6, <1>7

(* A web client acknowledges: it is credited, if the loop waits for it.    *)
LEMMA PacedReceived ==
  ASSUME AcksAreClear, TypeOK, PacedInv, NEW c \in Conn, VideoReceived(c)
  PROVE  PacedInv'
<1> USE IdxInDisplays DEF maps, encoder, acks, clients
<1>1. /\ UNCHANGED <<pc, send_conn_ids, fetched, conn, clean, rx_video>>
      /\ delivered' = [delivered EXCEPT ![c] = @ - 1] /\ conn[c] = "open" /\ delivered[c] > 0
  BY DEF VideoReceived
<1>2. delivered[c] = 1 /\ c \in Web /\ c \in Unacked
  BY SMT, <1>1 DEF TypeOK, MaxDelivered, PacedInv, Unacked
<1>3. (\A d \in Conn \ Web : delivered'[d] = 0) /\ Unacked' = Unacked \ {c}
  BY SMT, <1>1, <1>2 DEF TypeOK, PacedInv, Unacked
<1>4. SUFFICES ASSUME NEW s \in Svc, clean[s] PROVE Paced(s)'
  BY <1>1, <1>3 DEF PacedInv
<1>5. Paced(s) /\ Unfetched(s)' = Unfetched(s)
  BY <1>1, <1>4 DEF PacedInv, Unfetched
<1>6. chan'[Idx[s]] \in {chan[Idx[s]], chan[Idx[s]] \cup {c}}
  BY DEF VideoReceived, NotifyByConnId
<1>7. Credited(s)' \in {Credited(s), Credited(s) \cup {c}}
  BY <1>1, <1>6 DEF Credited
<1>8. pc[s] \in InFlight
  BY <1>2, <1>5 DEF Paced
<1>9. QED BY SMT, <1>1, <1>2, <1>3, <1>5, <1>7, <1>8 DEF Paced

LEMMA PacedStep ==
  ASSUME OwnIndex, AcksAreClear, IsFiniteSet(Conn)
  PROVE  TypeOK /\ PacedInv /\ [Next]_vars => PacedInv'
<1> SUFFICES ASSUME TypeOK, PacedInv, [Next]_vars PROVE PacedInv' OBVIOUS
<1> USE DEF maps, encoder, acks, clients
<1>1. ASSUME UNCHANGED <<pc, chan, fetched, send_conn_ids, conn, rx_video, delivered, clean>>
      PROVE  PacedInv'
  BY SMT, <1>1 DEF PacedInv, Paced, Unfetched, Unacked, Credited
<1>2. CASE UNCHANGED vars
  BY <1>1, <1>2 DEF vars
<1>3. ASSUME NEW s \in Svc, Thread(s) PROVE PacedInv'
  BY <1>3, PacedThread
<1>4. ASSUME NEW s \in Svc, RefreshVideoDisplay(s) PROVE PacedInv'
  BY <1>1, <1>4 DEF RefreshVideoDisplay
<1>5. ASSUME NEW s \in Svc, NEW c \in Conn, OnSubscribe(s, c) \/ OnUnsubscribe(s, c)
      PROVE  PacedInv'
  BY <1>1, <1>5 DEF OnSubscribe, OnUnsubscribe
<1>6. ASSUME NEW s \in Svc, NEW c \in Conn, Fetch(s, c) PROVE PacedInv'
  BY <1>6, PacedFetch
<1>7. ASSUME NEW c \in Conn, VideoReceived(c) PROVE PacedInv'
  BY <1>7, PacedReceived
<1>8. ASSUME NEW c \in Conn, Close(c) PROVE PacedInv'
  <2>1. /\ UNCHANGED <<pc, send_conn_ids, fetched, rx_video, delivered>>
        /\ conn' = [conn EXCEPT ![c] = "closing"]
    BY <1>8 DEF Close
  <2>2. Unacked' \subseteq Unacked
    BY <2>1 DEF Unacked, TypeOK
  <2>3. ASSUME NEW s \in Svc, clean'[s] PROVE Paced(s)'
    <3>1. clean[s] /\ c \notin display_conn_ids[Idx[s]]
      BY <1>8, <2>3 DEF Close
    <3>2. chan'[Idx[s]] = chan[Idx[s]]
      BY <1>8, <3>1, IdxInDisplays DEF Close, NotifyByConnId
    <3>3. QED BY <2>1, <2>2, <3>1, <3>2, PacedSame DEF PacedInv
  <2>4. QED BY <2>1, <2>3 DEF PacedInv
<1>9. ASSUME NEW c \in Conn, RemoveConnection(c) PROVE PacedInv'
  <2>1. /\ UNCHANGED <<pc, send_conn_ids, fetched, delivered, chan, clean>>
        /\ conn' = [conn EXCEPT ![c] = "closed"]
        /\ rx_video' = [s \in Svc |-> [rx_video[s] EXCEPT ![c] = {}]]
    BY <1>9 DEF RemoveConnection
  <2>2. Unacked' \subseteq Unacked
    BY <2>1 DEF Unacked, TypeOK
  <2>3. ASSUME NEW s \in Svc, clean[s] PROVE Paced(s)'
    <3>1. Paced(s) /\ Credited(s)' = Credited(s)
      BY <2>1, <2>3 DEF PacedInv, Credited
    <3>2. /\ Unfetched(s)' \subseteq Unfetched(s)
          /\ \A d \in Conn : rx_video'[s][d] \subseteq {"current"}
      BY <2>1, <3>1 DEF Unfetched, Paced, TypeOK
    <3>3. QED BY <2>1, <2>2, <3>1, <3>2 DEF Paced
  <2>4. QED BY <2>1, <2>3 DEF PacedInv
<1>10. QED BY <1>2, <1>3, <1>4, <1>5, <1>6, <1>7, <1>8, <1>9 DEF Next

(* The slowest connection paces the loop: for any finite set of native     *)
(* clients and any number of displays, or web clients of one display, no   *)
(* connection ever has a second frame of a service waiting for it while    *)
(* every wait ended by acknowledgement and nobody left during one.         *)
THEOREM BackpressureHolds ==
  ASSUME OwnIndex, AcksAreClear, IsFiniteSet(Conn)
  PROVE  Spec => []Backpressure
<1>1. Init => PacedInv
  BY SMT, IdxInDisplays DEF Init, PacedInv, Paced, InFlight, Unfetched, Unacked
<1>2. PacedInv => Backpressure
  BY SMT DEF PacedInv, Paced, Backpressure
<1>3. TypeOK /\ PacedInv /\ [Next]_vars => PacedInv'
  BY PacedStep
<1>4. QED BY <1>1, <1>2, <1>3, TypeCorrect, PTL DEF Spec
=============================================================================

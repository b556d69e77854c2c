-------------------------------- MODULE Stream --------------------------------
(***************************************************************************)
(* The message stream between a client and a host, over TCP: FramedStream  *)
(* and Encrypt of libs/hbb_common/src/tcp.rs, on top of the length-prefixed*)
(* frames of BytesCodec.                                                   *)
(*                                                                         *)
(* Bytes reach the other end in pieces; the sockets hold a bounded number  *)
(* of them, and an end that is sending does not read.  A sealed message    *)
(* carries the nonce it was sealed with and opens under that nonce only; a *)
(* message sent in the clear carries 0.  The host gives up a send that     *)
(* stalls, and its caller ignores that.                                    *)
(***************************************************************************)
EXTENDS BytesCodec, SequencesExt, FiniteSetsExt

CONSTANTS
  Lens,        \* [End -> SUBSET Nat], lengths of the messages of a session
  MaxSends,    \* [End -> Nat], how many of them each end sends
  MaxFaults,   \* network stalls that outlast a send, and sessions the client closes
  WINDOW       \* bytes the sockets hold on their way to an end

End == {"client", "host"}
Peer(e) == IF e = "client" THEN "host" ELSE "client"

ASSUME StreamAssumption ==
  /\ DOMAIN Lens = End /\ \A e \in End : Lens[e] \subseteq 0..1073741807
  /\ MaxSends \in [End -> Nat] /\ MaxFaults \in Nat
  /\ WINDOW \in Nat \ {0}

MACBYTES == 16         \* what sealing adds
BACKPRESSURE == 8192   \* Framed flushes before it takes more

VARIABLES
  up,        \* the end has the socket open
  key,       \* FramedStream.2 is Some
  raw,       \* BytesCodec::raw
  enc, dec,  \* the counters of Encrypt
  out,       \* the send in progress: "none", "ready" (sealed) or "flush" (taken by Framed)
  msg,       \* its message, as long as Framed has not taken it
  wbuf,      \* Framed's write buffer
  sent,      \* messages Framed took, in order
  net,       \* bytes in the sockets on their way to the end
  rbuf,      \* Framed's read buffer
  need,      \* DecodeState: -1 for Head, n for Data(n)
  got,       \* frames decoded
  garbled,   \* something else than the next frame of the peer was decoded
  badDec,    \* decryption failed
  skipped,   \* a sealed message was given up before Framed took it
  stalled,   \* the last send was given up while its bytes were being written
  sends, faults

sendVars == <<enc, out, msg>>
wireVars == <<wbuf, sent, net>>
readVars == <<rbuf, need, got, garbled, dec, badDec>>
modeVars == <<key, raw>>
failVars == <<skipped, stalled>>
countVars == <<sends, faults>>
streamVars == <<up, modeVars, sendVars, wireVars, readVars, failVars, countVars>>

NoMsg == [kind |-> "none", len |-> 0, seq |-> 0]
(***************************************************************************)
(* A byte string is a sequence of cells: [f |-> -k, n |-> b] is the header *)
(* byte b of the k-th message of the sender, [f |-> k, n |-> m] stands for *)
(* m bytes of its payload.                                                 *)
(***************************************************************************)
Width(c) == IF c.f < 0 THEN 1 ELSE c.n
Size(s) == FoldSeq(LAMBDA c, n : Width(c) + n, 0, s)

RECURSIVE TakeBytes(_, _)
TakeBytes(s, k) ==
  IF k = 0 THEN <<>>
  ELSE IF Width(s[1]) <= k THEN <<s[1]>> \o TakeBytes(Tail(s), k - Width(s[1]))
  ELSE <<[s[1] EXCEPT !.n = k]>>

RECURSIVE DropBytes(_, _)
DropBytes(s, k) ==
  IF k = 0 THEN s
  ELSE IF Width(s[1]) <= k THEN DropBytes(Tail(s), k - Width(s[1]))
  ELSE <<[s[1] EXCEPT !.n = @ - k]>> \o Tail(s)

\* Two runs of one payload that meet are one run.
Join(s, t) ==
  IF s # <<>> /\ t # <<>> /\ Last(s).f > 0 /\ Last(s).f = Head(t).f
  THEN Front(s) \o <<[f |-> Last(s).f, n |-> Last(s).n + Head(t).n]>> \o Tail(t)
  ELSE s \o t

Payload(k, n) == IF n = 0 THEN <<>> ELSE <<[f |-> k, n |-> n]>>
Header(k, n) == [i \in 1..Len(EncodeHead(n)) |-> [f |-> -k, n |-> EncodeHead(n)[i]]]

(***************************************************************************)
(* Sending: send_raw seals and calls send_bytes, which hands the bytes to  *)
(* Framed and waits until they are written.                                *)
(***************************************************************************)
Idle(e) == up[e] /\ out[e] = "none"

(* mutant: the nonce is taken before it is advanced *)
SealLate(e, kind, len) ==
  IF key[e] THEN [kind |-> kind, len |-> len + MACBYTES, seq |-> enc[e]]
  ELSE [kind |-> kind, len |-> len, seq |-> 0]

Seal(e, kind, len) ==
  IF key[e] THEN [kind |-> kind, len |-> len + MACBYTES, seq |-> enc[e] + 1]
  ELSE [kind |-> kind, len |-> len, seq |-> 0]

\* BytesCodec::encode.
Encode(e, m) ==
  LET k == Len(sent[e]) + 1
  IN IF raw[e] THEN Payload(k, m.len) ELSE Header(k, m.len) \o Payload(k, m.len)

\* Framed takes a message.
Take(e, m) ==
  /\ wbuf' = [wbuf EXCEPT ![e] = Join(@, Encode(e, m))]
  /\ sent' = [sent EXCEPT ![e] = Append(@, m)]
  /\ out' = [out EXCEPT ![e] = "flush"]
  /\ msg' = [msg EXCEPT ![e] = NoMsg]

\* send_bytes: Framed takes the message at once when its buffer is below the limit.
SendBytes(e, m) ==
  /\ Idle(e)
  /\ IF Size(wbuf[e]) < BACKPRESSURE THEN Take(e, m)
     ELSE /\ out' = [out EXCEPT ![e] = "ready"]
          /\ msg' = [msg EXCEPT ![e] = m]
          /\ UNCHANGED <<wbuf, sent>>

\* FramedStream::send of a message of kind and len.
BeginSend(e, kind, len) ==
  /\ SendBytes(e, Seal(e, kind, len))
  /\ enc' = IF key[e] THEN [enc EXCEPT ![e] = @ + 1] ELSE enc

\* Or when enough of the buffer has been written.
TakeLater(e) ==
  /\ up[e] /\ out[e] = "ready" /\ Size(wbuf[e]) < BACKPRESSURE
  /\ Take(e, msg[e])
  /\ UNCHANGED <<up, modeVars, enc, net, readVars, failVars, countVars>>

\* How many bytes one write passes on: a cell or everything, as far as there is room.
Room(e) == WINDOW - Size(net[e])
Pieces(e) ==
  {k \in {Min({w, Room(Peer(e))}) : w \in {Width(Head(wbuf[e])), Size(wbuf[e])}} : k > 0}

\* Bytes are written only while a send is in progress, and arrive in order; the send returns
\* when all are written.
Transfer(e) ==
  /\ up[e] /\ out[e] # "none" /\ wbuf[e] # <<>>
  /\ \E k \in Pieces(e) :
       /\ wbuf' = [wbuf EXCEPT ![e] = DropBytes(@, k)]
       /\ net' = [net EXCEPT ![Peer(e)] = Join(@, TakeBytes(wbuf[e], k))]
  /\ LET done == wbuf'[e] = <<>> /\ out[e] = "flush"
     IN /\ out' = [out EXCEPT ![e] = IF done THEN "none" ELSE @]
        /\ stalled' = [stalled EXCEPT ![e] = @ /\ ~done]
  /\ UNCHANGED <<up, modeVars, enc, msg, sent, readVars, skipped, countVars>>

(* mutant: the timeout covers only the wait until Framed takes the message *)
GiveUpFeedOnly(e) ==
  /\ e = "host" /\ up[e] /\ out[e] = "ready" /\ wbuf[e] # <<>>
  /\ skipped' = [skipped EXCEPT ![e] = @ \/ msg[e].seq > 0]
  /\ stalled' = [stalled EXCEPT ![e] = TRUE]
  /\ out' = [out EXCEPT ![e] = "none"]
  /\ msg' = [msg EXCEPT ![e] = NoMsg]
  /\ UNCHANGED <<up, modeVars, enc, wireVars, readVars, sends>>

\* The timeout of send_bytes, set by the host only; Connection::send ignores the error.
GiveUp(e) ==
  /\ e = "host" /\ up[e] /\ out[e] # "none" /\ wbuf[e] # <<>>
  /\ skipped' = [skipped EXCEPT ![e] = @ \/ (out[e] = "ready" /\ msg[e].seq > 0)]
  /\ stalled' = [stalled EXCEPT ![e] = TRUE]
  /\ out' = [out EXCEPT ![e] = "none"]
  /\ msg' = [msg EXCEPT ![e] = NoMsg]
  /\ UNCHANGED <<up, modeVars, enc, wireVars, readVars, sends>>

\* Both ends are sending and neither has room: nothing moves until the timeout.
Gridlock == \A e \in End : up[e] /\ out[e] # "none" /\ wbuf[e] # <<>> /\ Room(Peer(e)) = 0
GiveUpGridlock(e) == Gridlock /\ GiveUp(e) /\ UNCHANGED faults
GiveUpStall(e) == faults < MaxFaults /\ faults' = faults + 1 /\ GiveUp(e)

(***************************************************************************)
(* Receiving: next() decodes a frame and opens it.                         *)
(***************************************************************************)
\* A poll of next() reads what the socket has.
ReadSocket(e) ==
  /\ Idle(e) /\ net[e] # <<>>
  /\ rbuf' = [rbuf EXCEPT ![e] = Join(@, net[e])]
  /\ net' = [net EXCEPT ![e] = <<>>]
  /\ UNCHANGED <<up, modeVars, sendVars, wbuf, sent, need, got, garbled, dec, badDec,
                 failVars, countVars>>

\* decode_head: whether the header is there, and whether it is one.
HeadCells(e) == SubSeq(rbuf[e], 1, HeadLen(rbuf[e][1].n))
HeadArrived(e) ==
  /\ need[e] = -1 /\ rbuf[e] # <<>>
  /\ rbuf[e][1].f < 0 => Len(rbuf[e]) >= HeadLen(rbuf[e][1].n)
IsHead(e) == rbuf[e][1].f < 0 /\ \A i \in 1..Len(HeadCells(e)) : HeadCells(e)[i].f < 0

\* decode: what is left of the buffer behind the header, and the length of the payload.
Body(e) == IF need[e] >= 0 THEN rbuf[e] ELSE DropBytes(rbuf[e], Len(HeadCells(e)))
FrameLen(e) ==
  IF need[e] >= 0 THEN need[e]
  ELSE DecodeHead([i \in 1..Len(HeadCells(e)) |-> HeadCells(e)[i].n])
HeadKnown(e) == need[e] >= 0 \/ (HeadArrived(e) /\ IsHead(e))

(* mutant: the payload must be followed by another byte *)
FrameArrivedLate(e) == HeadKnown(e) /\ Size(Body(e)) > FrameLen(e)

FrameArrived(e) == HeadKnown(e) /\ Size(Body(e)) >= FrameLen(e)
Reads(e) == Idle(e) /\ ~raw[e] /\ ~garbled[e]

\* A poll of next() that finds the header and not the whole payload.
DecodeHeader(e) ==
  /\ Reads(e) /\ HeadArrived(e) /\ ~FrameArrived(e)
  /\ IF IsHead(e)
     THEN /\ need' = [need EXCEPT ![e] = FrameLen(e)]
          /\ rbuf' = [rbuf EXCEPT ![e] = Body(e)]
          /\ UNCHANGED garbled
     ELSE /\ garbled' = [garbled EXCEPT ![e] = TRUE]
          /\ UNCHANGED <<need, rbuf>>
  /\ UNCHANGED <<up, modeVars, sendVars, wireVars, got, dec, badDec, failVars, countVars>>

\* The message of the frame that arrived, if it is the next one of the peer.
NextMessage(e) == sent[Peer(e)][got[e] + 1]
InOrder(e) ==
  /\ got[e] < Len(sent[Peer(e)])
  /\ TakeBytes(Body(e), FrameLen(e)) = Payload(got[e] + 1, NextMessage(e).len)

\* Encrypt::dec: frames of at most one byte are left alone.
Opens(e) == key[e] /\ FrameLen(e) > 1 => InOrder(e) /\ NextMessage(e).seq = dec[e] + 1

\* next() returns a frame, or the error of its decryption.
ConsumeFrame(e) ==
  /\ Reads(e) /\ FrameArrived(e)
  /\ dec' = IF key[e] /\ FrameLen(e) > 1 THEN [dec EXCEPT ![e] = @ + 1] ELSE dec
  /\ badDec' = [badDec EXCEPT ![e] = ~Opens(e)]
  /\ garbled' = [garbled EXCEPT ![e] = ~InOrder(e)]
  /\ got' = [got EXCEPT ![e] = @ + 1]
  /\ rbuf' = [rbuf EXCEPT ![e] = DropBytes(Body(e), FrameLen(e))]
  /\ need' = [need EXCEPT ![e] = -1]

\* The socket is dropped; what Framed still holds is lost.
Close(e) == up' = [up EXCEPT ![e] = FALSE]

\* next() finds the peer gone and nothing more to decode.
Eof(e) ==
  /\ Idle(e) /\ ~up[Peer(e)] /\ net[e] = <<>>
  /\ IF raw[e] THEN rbuf[e] = <<>>
     ELSE garbled[e] \/ ~(HeadArrived(e) \/ FrameArrived(e))
  /\ Close(e)
  /\ UNCHANGED <<modeVars, sendVars, wireVars, readVars, failVars, countVars>>

\* A send fails once the peer is gone; the next read ends the loop.
SendFails(e) ==
  /\ up[e] /\ out[e] # "none" /\ ~up[Peer(e)]
  /\ out' = [out EXCEPT ![e] = "none"]
  /\ msg' = [msg EXCEPT ![e] = NoMsg]
  /\ UNCHANGED <<up, modeVars, enc, wireVars, readVars, failVars, countVars>>

\* The client closes the session.
Leave ==
  /\ Idle("client") /\ faults < MaxFaults
  /\ Close("client")
  /\ faults' = faults + 1
  /\ UNCHANGED <<modeVars, sendVars, wireVars, readVars, failVars, sends>>

\* What both ends do whatever they use the stream for; Poll when they await next().
Transport(e) == TakeLater(e) \/ Transfer(e) \/ SendFails(e)
Poll(e) == ReadSocket(e) \/ DecodeHeader(e)

StreamInit ==
  /\ up = [e \in End |-> TRUE]
  /\ \E k \in BOOLEAN : key = [e \in End |-> k]
  /\ raw = [e \in End |-> FALSE]
  /\ enc = [e \in End |-> 0] /\ dec = [e \in End |-> 0]
  /\ out = [e \in End |-> "none"] /\ msg = [e \in End |-> NoMsg]
  /\ wbuf = [e \in End |-> <<>>] /\ sent = [e \in End |-> <<>>]
  /\ net = [e \in End |-> <<>>] /\ rbuf = [e \in End |-> <<>>]
  /\ need = [e \in End |-> -1] /\ got = [e \in End |-> 0]
  /\ garbled = [e \in End |-> FALSE] /\ badDec = [e \in End |-> FALSE]
  /\ skipped = [e \in End |-> FALSE] /\ stalled = [e \in End |-> FALSE]
  /\ sends = [e \in End |-> 0] /\ faults = 0

(***************************************************************************)
(* A session: both ends send when they like, and read between two sends.   *)
(***************************************************************************)
SendMessage(e) ==
  /\ sends[e] < MaxSends[e]
  /\ \E n \in Lens[e] : BeginSend(e, "message", n)
  /\ sends' = [sends EXCEPT ![e] = @ + 1]
  /\ UNCHANGED <<up, modeVars, net, readVars, failVars, faults>>

\* An error of next() ends the loop of either end.
ReceiveMessage(e) ==
  /\ ConsumeFrame(e)
  /\ IF badDec'[e] THEN Close(e) ELSE UNCHANGED up
  /\ UNCHANGED <<modeVars, sendVars, wireVars, failVars, countVars>>

SessionStep(e) ==
  \/ SendMessage(e) \/ ReceiveMessage(e) \/ Eof(e) \/ Leave
  \/ GiveUpStall(e) \/ GiveUpGridlock(e)
=============================================================================

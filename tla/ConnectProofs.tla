---------------------------- MODULE ConnectProofs ----------------------------
(***************************************************************************)
(* For any number of _start_inner and of attempts: the two ends of a       *)
(* stream agree on its key, the handshake never swallows the host's Hash,  *)
(* the client dials the relay only with a uuid the host knows, and it      *)
(* ends with one stream.  And the messages arrive whole, the handshake's   *)
(* being the first: the header of a frame (BytesCodec) says its length.    *)
(*                                                                         *)
(* None of the first four is inductive.  They rest on who owns what        *)
(* (Owned), on requests being made once (Fresh), on what the answers on a  *)
(* socket are worth (Mailed, Sockets), on the order of the host's messages *)
(* (Staged), on when the client has replied (Replied), and on who holds a  *)
(* stream (Held).                                                          *)
(***************************************************************************)
EXTENDS Connect, BytesCodec, TLAPS

(* A _start_inner uses and reads only what its own requests led to.        *)
OwnedAt(n) == Own(at[n]) = n /\ \A a \in inbox[n] : Own(a.of) = n
Owned == \A n \in Inner : OwnedAt(n)

(* A request its _start_inner has not made yet.                            *)
NotYet(t) ==
  IF t[3] = "punch"
  THEN \/ cpc[Own(t)] \in {"start", "punch"} /\ t[2] >= try[Own(t)]
       \/ cpc[Own(t)] = "wait" /\ t[2] > try[Own(t)]
  ELSE \/ cpc[Own(t)] \in {"start", "punch", "wait", "connect"}
       \/ cpc[Own(t)] = "ask" /\ t[2] >= try[Own(t)]
       \/ cpc[Own(t)] = "asked" /\ t[2] > try[Own(t)]

(* The host has heard of no request before it was made, and a request on   *)
(* its way has no handler yet.                                             *)
FreshAt(t) ==
  /\ NotYet(t) => t \notin toHost /\ host[t] = "none"
  /\ t \in toHost => host[t] = "none"
Fresh == \A t \in Req : FreshAt(t)

(* An answer other than a refusal comes from a handler.                    *)
MailedAt(n) == \A a \in inbox[n] : a.kind # "refused" => host[a.of] # "none"
Mailed == \A n \in Inner : MailedAt(n)

(* The sockets of the requests for a relay: empty when an attempt begins,  *)
(* and with answers to that attempt only.                                  *)
SocketsAt(n) ==
  /\ cpc[n] \in {"connect", "ask"} => inbox[n] = {}
  /\ cpc[n] = "asked" => \A a \in inbox[n] : a.of = <<n, try[n], "ask">>
Sockets == \A n \in Inner : SocketsAt(n)

(* What the host has sent, by where its handler is.                        *)
StagedAt(t) ==
  /\ host[t] \in {"none", "listen"} => first[t] = "none"
  /\ host[t] = "signed" => first[t] = "signed_id" /\ ~hkey[t]
  /\ host[t] = "run" => first[t] # "none"
  /\ first[t] = "none" => ~hkey[t]
  /\ first[t] = "hash" => signed = "empty" /\ ~hkey[t]
Staged == \A t \in Req : StagedAt(t)

(* The client replies once, and only a reply with a key sets its key.      *)
RepliedAt(t) ==
  /\ reply[t] # "none" => cpc[Own(t)] \in {"up", "dropped"}
  /\ ckey[t] <=> reply[t] = "key"
  /\ reply[t] = "key" => signed = "valid"
  /\ host[t] = "run" /\ first[t] = "signed_id"
       => reply[t] # "none" /\ (hkey[t] <=> reply[t] = "key")
Replied == \A t \in Req : RepliedAt(t)

(* A stream is held by the _start_inner that uses it; and a winner leaves  *)
(* no other in the race.                                                   *)
HeldAt(t) == cl[t] = "open" => at[Own(t)] = t /\ cpc[Own(t)] \in {"secure", "up"}
LostAt(n) == winner # NoOne /\ n # winner => cpc[n] \in {"failed", "dropped"}
Held == (\A t \in Req : HeldAt(t)) /\ (\A n \in Inner : LostAt(n))

IInv ==
  TypeOK /\ Owned /\ Fresh /\ Mailed /\ Sockets /\ Staged /\ Replied /\ Held /\ UuidKnown

-----------------------------------------------------------------------------
(* A request is what its three parts say.                                  *)
LEMMA ReqParts ==
  ASSUME NEW t \in Req
  PROVE  /\ Own(t) \in Inner /\ t[2] \in 1..Tries[Own(t)] /\ t[3] \in {"punch", "ask"}
         /\ t = <<Own(t), t[2], t[3]>>
BY DEF Req, Own

(* And any three parts of the right kind are a request.                    *)
LEMMA ReqMade ==
  ASSUME NEW n \in Inner, NEW i \in 1..Tries[n], NEW k \in {"punch", "ask"}
  PROVE  /\ <<n, i, k>> \in Req /\ Own(<<n, i, k>>) = n
         /\ <<n, i, k>>[2] = i /\ <<n, i, k>>[3] = k
BY DEF Req, Own

(* Every request is made once.                                            *)
LEMMA FreshStep ==
  ASSUME IInv, [Next]_vars, NEW t \in Req
  PROVE  FreshAt(t)'
<1>0. /\ cpc \in [Inner -> {"start", "punch", "wait", "connect", "ask", "asked", "relay",
                          "secure", "up", "failed", "dropped"}]
      /\ try \in [Inner -> Nat] /\ DOMAIN host = Req /\ toHost \in SUBSET Req
      /\ Own(t) \in Inner /\ t[2] \in Nat /\ t[2] >= 1 /\ t[3] \in {"punch", "ask"}
      /\ t = <<Own(t), t[2], t[3]>>
      /\ FreshAt(t)
  BY ReqParts DEF IInv, TypeOK, Fresh
<1> USE <1>0 DEF FreshAt, NotYet, vars, conf, client, mail, hvars, cvars
<1>1. ASSUME NEW n \in Inner, Dial(n) PROVE FreshAt(t)'
  BY <1>1 DEF Dial, Go, Fail
<1>2. ASSUME NEW n \in Inner, Punch(n) PROVE FreshAt(t)'
  BY <1>2 DEF Punch, Go, ServerTakes
<1>3. ASSUME NEW n \in Inner, PunchTimeout(n) PROVE FreshAt(t)'
  BY <1>3 DEF PunchTimeout, Go, Fail
<1>4. ASSUME NEW n \in Inner, PunchAnswered(n) PROVE FreshAt(t)'
  BY <1>4 DEF PunchAnswered, Go, Fail
<1>5. ASSUME NEW n \in Inner, ConnectOk(n) PROVE FreshAt(t)'
  BY <1>5 DEF ConnectOk, Go, Fail, ToRelay
<1>6. ASSUME NEW n \in Inner, ConnectFails(n) PROVE FreshAt(t)'
  BY <1>6 DEF ConnectFails, Go, Fail, ToRelay
<1>7. ASSUME NEW n \in Inner, Ask(n) PROVE FreshAt(t)'
  BY <1>7 DEF Ask, Go, Fail, ServerTakes
<1>8. ASSUME NEW n \in Inner, AskTimeout(n) PROVE FreshAt(t)'
  BY <1>8 DEF AskTimeout, Go, Fail
<1>9. ASSUME NEW n \in Inner, AskAnswered(n) PROVE FreshAt(t)'
  BY <1>9 DEF AskAnswered, Go, Fail
<1>10. ASSUME NEW n \in Inner, CreateRelay(n) PROVE FreshAt(t)'
  BY <1>10 DEF CreateRelay, Go, Fail
<1>11. ASSUME NEW n \in Inner, SecureNoPk(n) PROVE FreshAt(t)'
  BY <1>11 DEF SecureNoPk, Win, SecureVars
<1>12. ASSUME NEW n \in Inner, SecureRead(n) PROVE FreshAt(t)'
  BY <1>12 DEF SecureRead, Win, SecureVars, Replies
<1>13. ASSUME NEW n \in Inner, SecureFails(n) PROVE FreshAt(t)'
  BY <1>13 DEF SecureFails, Go, Fail, SecureVars
<1>14. ASSUME NEW r \in Req, HandlePunch(r) PROVE FreshAt(t)'
  BY <1>14 DEF HandlePunch, HostRelay, CreateConnection, Secure, Deliver, Reading, End
<1>15. ASSUME NEW r \in Req, HandleAsk(r) PROVE FreshAt(t)'
  BY <1>15 DEF HandleAsk, HostRelay, CreateConnection, Secure, Deliver, Reading, End
<1>16. ASSUME NEW r \in Req, Accept(r) PROVE FreshAt(t)'
  BY <1>16 DEF Accept, CreateConnection, Secure, End
<1>17. ASSUME NEW r \in Req, Answered(r) PROVE FreshAt(t)'
  BY <1>17 DEF Answered
<1>18. ASSUME NEW r \in Req, AnswerTimeout(r) PROVE FreshAt(t)'
  BY <1>18 DEF AnswerTimeout
<1>19. ASSUME NEW r \in Req, ConnectionEnds(r) PROVE FreshAt(t)'
  BY <1>19 DEF ConnectionEnds
<1>20. CASE UNCHANGED vars
  BY <1>20
<1> QED
  BY <1>1, <1>2, <1>3, <1>4, <1>5, <1>6, <1>7, <1>8, <1>9, <1>10, <1>11, <1>12,
     <1>13, <1>14, <1>15, <1>16, <1>17, <1>18, <1>19, <1>20
  DEF Next, ClientStep, HostStep

(* Answers come back to the socket of their request.                      *)
LEMMA OwnedStep ==
  ASSUME IInv, [Next]_vars, NEW o \in Inner
  PROVE  OwnedAt(o)'
<1>0. /\ inbox \in [Inner -> SUBSET Answer] /\ DOMAIN at = Inner /\ toHost \in SUBSET Req
      /\ (\A m \in Inner : OwnedAt(m))
  BY ReqParts DEF IInv, TypeOK, Owned
<1> USE <1>0 DEF OwnedAt, Ans, Answer, vars, conf, client, mail, hvars, cvars
<1>1. ASSUME NEW n \in Inner, Punch(n) PROVE OwnedAt(o)'
  BY <1>1 DEF Punch, Go, ServerTakes, Own
<1>2. ASSUME NEW n \in Inner, PunchAnswered(n) PROVE OwnedAt(o)'
  BY <1>2 DEF PunchAnswered, Go, Fail
<1>3. ASSUME NEW n \in Inner, Ask(n) PROVE OwnedAt(o)'
  BY <1>3 DEF Ask, Go, Fail, ServerTakes, Own
<1>4. ASSUME NEW n \in Inner, AskTimeout(n) PROVE OwnedAt(o)'
  BY <1>4 DEF AskTimeout, Go, Fail
<1>5. ASSUME NEW n \in Inner, AskAnswered(n) PROVE OwnedAt(o)'
  BY <1>5 DEF AskAnswered, Go, Fail, Own
<1>6. ASSUME NEW r \in Req, HandlePunch(r) PROVE OwnedAt(o)'
  BY <1>6 DEF HandlePunch, HostRelay, CreateConnection, Secure, Deliver, Reading, End
<1>7. ASSUME NEW r \in Req, HandleAsk(r) PROVE OwnedAt(o)'
  BY <1>7 DEF HandleAsk, HostRelay, CreateConnection, Secure, Deliver, Reading, End
<1>8. CASE UNCHANGED <<at, inbox>>
  BY <1>8
<1> QED
  BY <1>1, <1>2, <1>3, <1>4, <1>5, <1>6, <1>7, <1>8
  DEF Next, ClientStep, HostStep, Dial, PunchTimeout, ConnectOk, ConnectFails,
      CreateRelay, SecureNoPk, SecureRead, SecureFails, Accept, Answered,
      AnswerTimeout, ConnectionEnds, SecureVars

(* Answers are sent by handlers, and a handler stays one.                 *)
LEMMA MailedStep ==
  ASSUME IInv, [Next]_vars, NEW o \in Inner
  PROVE  MailedAt(o)'
<1>0. /\ inbox \in [Inner -> SUBSET Answer] /\ DOMAIN host = Req /\ toHost \in SUBSET Req
      /\ (\A m \in Inner : MailedAt(m))
  BY ReqParts DEF IInv, TypeOK, Mailed
<1> USE <1>0 DEF MailedAt, Ans, Answer, vars, conf, client, mail, hvars, cvars
<1>1. ASSUME NEW n \in Inner, Punch(n) PROVE MailedAt(o)'
  BY <1>1 DEF Punch, Go, ServerTakes
<1>2. ASSUME NEW n \in Inner, PunchAnswered(n) PROVE MailedAt(o)'
  BY <1>2 DEF PunchAnswered, Go, Fail
<1>3. ASSUME NEW n \in Inner, Ask(n) PROVE MailedAt(o)'
  BY <1>3 DEF Ask, Go, Fail, ServerTakes
<1>4. ASSUME NEW n \in Inner, AskTimeout(n) PROVE MailedAt(o)'
  BY <1>4 DEF AskTimeout, Go, Fail
<1>5. ASSUME NEW n \in Inner, AskAnswered(n) PROVE MailedAt(o)'
  BY <1>5 DEF AskAnswered, Go, Fail
<1>6. ASSUME NEW r \in Req, HandlePunch(r) PROVE MailedAt(o)'
  BY <1>6 DEF HandlePunch, HostRelay, CreateConnection, Secure, Deliver, Reading, End
<1>7. ASSUME NEW r \in Req, HandleAsk(r) PROVE MailedAt(o)'
  BY <1>7 DEF HandleAsk, HostRelay, CreateConnection, Secure, Deliver, Reading, End
<1>8. ASSUME NEW r \in Req, Accept(r) PROVE MailedAt(o)'
  BY <1>8 DEF Accept, CreateConnection, Secure, End
<1>9. ASSUME NEW r \in Req, Answered(r) PROVE MailedAt(o)'
  BY <1>9 DEF Answered
<1>10. ASSUME NEW r \in Req, AnswerTimeout(r) PROVE MailedAt(o)'
  BY <1>10 DEF AnswerTimeout
<1>11. ASSUME NEW r \in Req, ConnectionEnds(r) PROVE MailedAt(o)'
  BY <1>11 DEF ConnectionEnds
<1>12. CASE UNCHANGED <<inbox, host>>
  BY <1>12
<1> QED
  BY <1>1, <1>2, <1>3, <1>4, <1>5, <1>6, <1>7, <1>8, <1>9, <1>10, <1>11, <1>12
  DEF Next, ClientStep, HostStep, Dial, PunchTimeout, ConnectOk, ConnectFails,
      CreateRelay, SecureNoPk, SecureRead, SecureFails, SecureVars

(* A new attempt reads from a new socket.                                 *)
LEMMA SocketsStep ==
  ASSUME IInv, [Next]_vars, NEW o \in Inner
  PROVE  SocketsAt(o)'
<1>0. /\ cpc \in [Inner -> {"start", "punch", "wait", "connect", "ask", "asked", "relay",
                          "secure", "up", "failed", "dropped"}]
      /\ try \in [Inner -> Nat] /\ inbox \in [Inner -> SUBSET Answer]
      /\ (\A m \in Inner : SocketsAt(m))
  BY ReqParts DEF IInv, TypeOK, Sockets
<1> USE <1>0 DEF SocketsAt, Ans, Answer, vars, conf, client, mail, hvars, cvars
<1>1. ASSUME NEW n \in Inner, Dial(n) PROVE SocketsAt(o)'
  BY <1>1 DEF Dial, Go, Fail
<1>2. ASSUME NEW n \in Inner, Punch(n) PROVE SocketsAt(o)'
  BY <1>2 DEF Punch, Go, ServerTakes, Own
<1>3. ASSUME NEW n \in Inner, PunchTimeout(n) PROVE SocketsAt(o)'
  BY <1>3 DEF PunchTimeout, Go, Fail
<1>4. ASSUME NEW n \in Inner, PunchAnswered(n) PROVE SocketsAt(o)'
  BY <1>4 DEF PunchAnswered, Go, Fail
<1>5. ASSUME NEW n \in Inner, ConnectOk(n) PROVE SocketsAt(o)'
  BY <1>5 DEF ConnectOk, Go, Fail, ToRelay
<1>6. ASSUME NEW n \in Inner, ConnectFails(n) PROVE SocketsAt(o)'
  BY <1>6 DEF ConnectFails, Go, Fail, ToRelay
<1>7. ASSUME NEW n \in Inner, Ask(n) PROVE SocketsAt(o)'
  BY <1>7 DEF Ask, Go, Fail, ServerTakes, Own
<1>8. ASSUME NEW n \in Inner, AskTimeout(n) PROVE SocketsAt(o)'
  BY <1>8 DEF AskTimeout, Go, Fail
<1>9. ASSUME NEW n \in Inner, AskAnswered(n) PROVE SocketsAt(o)'
  BY <1>9 DEF AskAnswered, Go, Fail
<1>10. ASSUME NEW n \in Inner, CreateRelay(n) PROVE SocketsAt(o)'
  BY <1>10 DEF CreateRelay, Go, Fail
<1>11. ASSUME NEW n \in Inner, SecureNoPk(n) PROVE SocketsAt(o)'
  BY <1>11 DEF SecureNoPk, Win, SecureVars
<1>12. ASSUME NEW n \in Inner, SecureRead(n) PROVE SocketsAt(o)'
  BY <1>12 DEF SecureRead, Win, SecureVars, Replies
<1>13. ASSUME NEW n \in Inner, SecureFails(n) PROVE SocketsAt(o)'
  BY <1>13 DEF SecureFails, Go, Fail, SecureVars
<1>14. ASSUME NEW r \in Req, HandlePunch(r) PROVE SocketsAt(o)'
  BY <1>14, ReqParts DEF HandlePunch, HostRelay, CreateConnection, Secure, Deliver, Reading, End
<1>15. ASSUME NEW r \in Req, HandleAsk(r) PROVE SocketsAt(o)'
  BY <1>15, ReqParts DEF HandleAsk, HostRelay, CreateConnection, Secure, Deliver, Reading, End
<1>16. CASE UNCHANGED <<cpc, try, inbox>>
  BY <1>16
<1> QED
  BY <1>1, <1>2, <1>3, <1>4, <1>5, <1>6, <1>7, <1>8, <1>9, <1>10, <1>11, <1>12,
     <1>13, <1>14, <1>15, <1>16
  DEF Next, ClientStep, HostStep, Accept, Answered, AnswerTimeout, ConnectionEnds

(* The host sends its messages in one order.                              *)
LEMMA StagedStep ==
  ASSUME IInv, [Next]_vars, NEW t \in Req
  PROVE  StagedAt(t)'
<1>0. /\ DOMAIN host = Req /\ DOMAIN first = Req
      /\ hkey \in [Req -> BOOLEAN] /\ t[3] \in {"punch", "ask"}
      /\ toHost \in SUBSET Req /\ StagedAt(t) /\ FreshAt(t)
  BY ReqParts DEF IInv, TypeOK, Staged, Fresh
<1> USE <1>0 DEF StagedAt, FreshAt, vars, conf, client, mail, hvars, cvars
<1>1. ASSUME NEW r \in Req, HandlePunch(r) PROVE StagedAt(t)'
  BY <1>1 DEF HandlePunch, HostRelay, CreateConnection, Secure, Deliver, Reading, End
<1>2. ASSUME NEW r \in Req, HandleAsk(r) PROVE StagedAt(t)'
  BY <1>2 DEF HandleAsk, HostRelay, CreateConnection, Secure, Deliver, Reading, End
<1>3. ASSUME NEW r \in Req, Accept(r) PROVE StagedAt(t)'
  BY <1>3 DEF Accept, CreateConnection, Secure, End
<1>4. ASSUME NEW r \in Req, Answered(r) PROVE StagedAt(t)'
  BY <1>4 DEF Answered
<1>5. ASSUME NEW r \in Req, AnswerTimeout(r) PROVE StagedAt(t)'
  BY <1>5 DEF AnswerTimeout
<1>6. ASSUME NEW r \in Req, ConnectionEnds(r) PROVE StagedAt(t)'
  BY <1>6 DEF ConnectionEnds
<1>7. CASE UNCHANGED <<signed, hvars>>
  BY <1>7
<1> QED
  BY <1>1, <1>2, <1>3, <1>4, <1>5, <1>6, <1>7
  DEF Next, ClientStep, HostStep, Dial, Punch, PunchTimeout, PunchAnswered, ConnectOk,
      ConnectFails, Ask, AskTimeout, AskAnswered, CreateRelay, SecureNoPk, SecureRead,
      SecureFails, SecureVars

(* The client replies once.                                               *)
LEMMA RepliedStep ==
  ASSUME IInv, [Next]_vars, NEW t \in Req
  PROVE  RepliedAt(t)'
<1>0. /\ cpc \in [Inner -> {"start", "punch", "wait", "connect", "ask", "asked", "relay",
                          "secure", "up", "failed", "dropped"}]
      /\ reply \in [Req -> {"none", "empty", "key", "no_key"}]
      /\ ckey \in [Req -> BOOLEAN] /\ hkey \in [Req -> BOOLEAN]
      /\ DOMAIN host = Req /\ DOMAIN first = Req
      /\ at \in [Inner -> Req] /\ (\A m \in Inner : Own(at[m]) = m) /\ Own(t) \in Inner
      /\ RepliedAt(t) /\ StagedAt(t) /\ FreshAt(t)
  BY ReqParts DEF IInv, TypeOK, Replied, Staged, Fresh, Owned, OwnedAt
<1> USE <1>0 DEF RepliedAt, StagedAt, FreshAt, vars, conf, client, mail, hvars, cvars
<1>1. ASSUME NEW n \in Inner, Dial(n) PROVE RepliedAt(t)'
  BY <1>1 DEF Dial, Go, Fail
<1>2. ASSUME NEW n \in Inner, Punch(n) PROVE RepliedAt(t)'
  BY <1>2 DEF Punch, Go, ServerTakes
<1>3. ASSUME NEW n \in Inner, PunchTimeout(n) PROVE RepliedAt(t)'
  BY <1>3 DEF PunchTimeout, Go, Fail
<1>4. ASSUME NEW n \in Inner, PunchAnswered(n) PROVE RepliedAt(t)'
  BY <1>4 DEF PunchAnswered, Go, Fail
<1>5. ASSUME NEW n \in Inner, ConnectOk(n) PROVE RepliedAt(t)'
  BY <1>5 DEF ConnectOk, Go, Fail, ToRelay
<1>6. ASSUME NEW n \in Inner, ConnectFails(n) PROVE RepliedAt(t)'
  BY <1>6 DEF ConnectFails, Go, Fail, ToRelay
<1>7. ASSUME NEW n \in Inner, Ask(n) PROVE RepliedAt(t)'
  BY <1>7 DEF Ask, Go, Fail, ServerTakes
<1>8. ASSUME NEW n \in Inner, AskTimeout(n) PROVE RepliedAt(t)'
  BY <1>8 DEF AskTimeout, Go, Fail
<1>9. ASSUME NEW n \in Inner, AskAnswered(n) PROVE RepliedAt(t)'
  BY <1>9 DEF AskAnswered, Go, Fail
<1>10. ASSUME NEW n \in Inner, CreateRelay(n) PROVE RepliedAt(t)'
  BY <1>10 DEF CreateRelay, Go, Fail
<1>11. ASSUME NEW n \in Inner, SecureNoPk(n) PROVE RepliedAt(t)'
  BY <1>11 DEF SecureNoPk, Win, SecureVars
<1>12. ASSUME NEW n \in Inner, SecureRead(n) PROVE RepliedAt(t)'
  BY <1>12 DEF SecureRead, Win, SecureVars, Replies
<1>13. ASSUME NEW n \in Inner, SecureFails(n) PROVE RepliedAt(t)'
  BY <1>13 DEF SecureFails, Go, Fail, SecureVars
<1>14. ASSUME NEW r \in Req, HandlePunch(r) PROVE RepliedAt(t)'
  BY <1>14 DEF HandlePunch, HostRelay, CreateConnection, Secure, Deliver, Reading, End
<1>15. ASSUME NEW r \in Req, HandleAsk(r) PROVE RepliedAt(t)'
  BY <1>15 DEF HandleAsk, HostRelay, CreateConnection, Secure, Deliver, Reading, End
<1>16. ASSUME NEW r \in Req, Accept(r) PROVE RepliedAt(t)'
  BY <1>16 DEF Accept, CreateConnection, Secure, End
<1>17. ASSUME NEW r \in Req, Answered(r) PROVE RepliedAt(t)'
  BY <1>17 DEF Answered
<1>18. ASSUME NEW r \in Req, AnswerTimeout(r) PROVE RepliedAt(t)'
  BY <1>18 DEF AnswerTimeout
<1>19. ASSUME NEW r \in Req, ConnectionEnds(r) PROVE RepliedAt(t)'
  BY <1>19 DEF ConnectionEnds
<1>20. CASE UNCHANGED vars
  BY <1>20
<1> QED
  BY <1>1, <1>2, <1>3, <1>4, <1>5, <1>6, <1>7, <1>8, <1>9, <1>10, <1>11, <1>12,
     <1>13, <1>14, <1>15, <1>16, <1>17, <1>18, <1>19, <1>20
  DEF Next, ClientStep, HostStep

(* A stream is opened by the one that uses it, and closed with it.        *)
LEMMA HeldStep ==
  ASSUME IInv, [Next]_vars, NEW t \in Req
  PROVE  HeldAt(t)'
<1>0. /\ cpc \in [Inner -> {"start", "punch", "wait", "connect", "ask", "asked", "relay",
                          "secure", "up", "failed", "dropped"}]
      /\ DOMAIN cl = Req
      /\ at \in [Inner -> Req] /\ (\A m \in Inner : Own(at[m]) = m) /\ Own(t) \in Inner
      /\ HeldAt(t)
  BY ReqParts DEF IInv, TypeOK, Held, Owned, OwnedAt
<1> USE <1>0 DEF HeldAt, vars, conf, client, mail, hvars, cvars
<1>1. ASSUME NEW n \in Inner, Dial(n) PROVE HeldAt(t)'
  BY <1>1 DEF Dial, Go, Fail
<1>2. ASSUME NEW n \in Inner, Punch(n) PROVE HeldAt(t)'
  BY <1>2 DEF Punch, Go, ServerTakes
<1>3. ASSUME NEW n \in Inner, PunchTimeout(n) PROVE HeldAt(t)'
  BY <1>3 DEF PunchTimeout, Go, Fail
<1>4. ASSUME NEW n \in Inner, PunchAnswered(n) PROVE HeldAt(t)'
  BY <1>4 DEF PunchAnswered, Go, Fail
<1>5. ASSUME NEW n \in Inner, ConnectOk(n) PROVE HeldAt(t)'
  BY <1>5 DEF ConnectOk, Go, Fail, ToRelay
<1>6. ASSUME NEW n \in Inner, ConnectFails(n) PROVE HeldAt(t)'
  BY <1>6 DEF ConnectFails, Go, Fail, ToRelay
<1>7. ASSUME NEW n \in Inner, Ask(n) PROVE HeldAt(t)'
  BY <1>7 DEF Ask, Go, Fail, ServerTakes
<1>8. ASSUME NEW n \in Inner, AskTimeout(n) PROVE HeldAt(t)'
  BY <1>8 DEF AskTimeout, Go, Fail
<1>9. ASSUME NEW n \in Inner, AskAnswered(n) PROVE HeldAt(t)'
  BY <1>9 DEF AskAnswered, Go, Fail
<1>10. ASSUME NEW n \in Inner, CreateRelay(n) PROVE HeldAt(t)'
  BY <1>10 DEF CreateRelay, Go, Fail
<1>11. ASSUME NEW n \in Inner, SecureNoPk(n) PROVE HeldAt(t)'
  BY <1>11 DEF SecureNoPk, Win, SecureVars
<1>12. ASSUME NEW n \in Inner, SecureRead(n) PROVE HeldAt(t)'
  BY <1>12 DEF SecureRead, Win, SecureVars, Replies
<1>13. ASSUME NEW n \in Inner, SecureFails(n) PROVE HeldAt(t)'
  BY <1>13 DEF SecureFails, Go, Fail, SecureVars
<1>14. CASE UNCHANGED <<cpc, at, cl>>
  BY <1>14
<1> QED
  BY <1>1, <1>2, <1>3, <1>4, <1>5, <1>6, <1>7, <1>8, <1>9, <1>10, <1>11, <1>12,
     <1>13, <1>14
  DEF Next, ClientStep, HostStep, HandlePunch, HandleAsk, Accept, Answered,
      AnswerTimeout, ConnectionEnds

(* The winner drops the others.                                           *)
LEMMA LostStep ==
  ASSUME IInv, [Next]_vars, NEW o \in Inner
  PROVE  LostAt(o)'
<1>0. /\ cpc \in [Inner -> {"start", "punch", "wait", "connect", "ask", "asked", "relay",
                          "secure", "up", "failed", "dropped"}]
      /\ LostAt(o)
  BY ReqParts DEF IInv, TypeOK, Held
<1> USE <1>0 DEF LostAt, vars, conf, client, mail, hvars, cvars
<1>1. ASSUME NEW n \in Inner, Dial(n) PROVE LostAt(o)'
  BY <1>1 DEF Dial, Go, Fail
<1>2. ASSUME NEW n \in Inner, Punch(n) PROVE LostAt(o)'
  BY <1>2 DEF Punch, Go, ServerTakes
<1>3. ASSUME NEW n \in Inner, PunchTimeout(n) PROVE LostAt(o)'
  BY <1>3 DEF PunchTimeout, Go, Fail
<1>4. ASSUME NEW n \in Inner, PunchAnswered(n) PROVE LostAt(o)'
  BY <1>4 DEF PunchAnswered, Go, Fail
<1>5. ASSUME NEW n \in Inner, ConnectOk(n) PROVE LostAt(o)'
  BY <1>5 DEF ConnectOk, Go, Fail, ToRelay
<1>6. ASSUME NEW n \in Inner, ConnectFails(n) PROVE LostAt(o)'
  BY <1>6 DEF ConnectFails, Go, Fail, ToRelay
<1>7. ASSUME NEW n \in Inner, Ask(n) PROVE LostAt(o)'
  BY <1>7 DEF Ask, Go, Fail, ServerTakes
<1>8. ASSUME NEW n \in Inner, AskTimeout(n) PROVE LostAt(o)'
  BY <1>8 DEF AskTimeout, Go, Fail
<1>9. ASSUME NEW n \in Inner, AskAnswered(n) PROVE LostAt(o)'
  BY <1>9 DEF AskAnswered, Go, Fail
<1>10. ASSUME NEW n \in Inner, CreateRelay(n) PROVE LostAt(o)'
  BY <1>10 DEF CreateRelay, Go, Fail
<1>11. ASSUME NEW n \in Inner, SecureNoPk(n) PROVE LostAt(o)'
  BY <1>11 DEF SecureNoPk, Win, SecureVars
<1>12. ASSUME NEW n \in Inner, SecureRead(n) PROVE LostAt(o)'
  BY <1>12 DEF SecureRead, Win, SecureVars, Replies
<1>13. ASSUME NEW n \in Inner, SecureFails(n) PROVE LostAt(o)'
  BY <1>13 DEF SecureFails, Go, Fail, SecureVars
<1>14. CASE UNCHANGED <<cpc, winner>>
  BY <1>14
<1> QED
  BY <1>1, <1>2, <1>3, <1>4, <1>5, <1>6, <1>7, <1>8, <1>9, <1>10, <1>11, <1>12,
     <1>13, <1>14
  DEF Next, ClientStep, HostStep, HandlePunch, HandleAsk, Accept, Answered,
      AnswerTimeout, ConnectionEnds

(* A uuid comes from an answer.                                           *)
LEMMA UuidStep ==
  ASSUME IInv, [Next]_vars, NEW o \in Inner
  PROVE  (cpc[o] = "relay" => host[at[o]] # "none")'
<1>0. /\ cpc \in [Inner -> {"start", "punch", "wait", "connect", "ask", "asked", "relay",
                          "secure", "up", "failed", "dropped"}]
      /\ at \in [Inner -> Req] /\ DOMAIN host = Req /\ inbox \in [Inner -> SUBSET Answer]
      /\ (cpc[o] = "relay" => host[at[o]] # "none")
      /\ (\A m \in Inner : MailedAt(m) /\ SocketsAt(m))
  BY ReqParts DEF IInv, TypeOK, UuidKnown, Mailed, Sockets
<1> USE <1>0 DEF MailedAt, SocketsAt, Answer, vars, conf, client, mail, hvars, cvars
<1>1. ASSUME NEW n \in Inner, Dial(n) PROVE (cpc[o] = "relay" => host[at[o]] # "none")'
  BY <1>1 DEF Dial, Go, Fail
<1>2. ASSUME NEW n \in Inner, Punch(n) PROVE (cpc[o] = "relay" => host[at[o]] # "none")'
  BY <1>2 DEF Punch, Go, ServerTakes
<1>3. ASSUME NEW n \in Inner, PunchTimeout(n) PROVE (cpc[o] = "relay" => host[at[o]] # "none")'
  BY <1>3 DEF PunchTimeout, Go, Fail
<1>4. ASSUME NEW n \in Inner, PunchAnswered(n) PROVE (cpc[o] = "relay" => host[at[o]] # "none")'
  BY <1>4 DEF PunchAnswered, Go, Fail
<1>5. ASSUME NEW n \in Inner, ConnectOk(n) PROVE (cpc[o] = "relay" => host[at[o]] # "none")'
  BY <1>5 DEF ConnectOk, Go, Fail, ToRelay
<1>6. ASSUME NEW n \in Inner, ConnectFails(n) PROVE (cpc[o] = "relay" => host[at[o]] # "none")'
  BY <1>6 DEF ConnectFails, Go, Fail, ToRelay
<1>7. ASSUME NEW n \in Inner, Ask(n) PROVE (cpc[o] = "relay" => host[at[o]] # "none")'
  BY <1>7 DEF Ask, Go, Fail, ServerTakes
<1>8. ASSUME NEW n \in Inner, AskTimeout(n) PROVE (cpc[o] = "relay" => host[at[o]] # "none")'
  BY <1>8 DEF AskTimeout, Go, Fail
<1>9. ASSUME NEW n \in Inner, AskAnswered(n) PROVE (cpc[o] = "relay" => host[at[o]] # "none")'
  BY <1>9 DEF AskAnswered, Go, Fail
<1>10. ASSUME NEW n \in Inner, CreateRelay(n) PROVE (cpc[o] = "relay" => host[at[o]] # "none")'
  BY <1>10 DEF CreateRelay, Go, Fail
<1>11. ASSUME NEW n \in Inner, SecureNoPk(n) PROVE (cpc[o] = "relay" => host[at[o]] # "none")'
  BY <1>11 DEF SecureNoPk, Win, SecureVars
<1>12. ASSUME NEW n \in Inner, SecureRead(n) PROVE (cpc[o] = "relay" => host[at[o]] # "none")'
  BY <1>12 DEF SecureRead, Win, SecureVars, Replies
<1>13. ASSUME NEW n \in Inner, SecureFails(n) PROVE (cpc[o] = "relay" => host[at[o]] # "none")'
  BY <1>13 DEF SecureFails, Go, Fail, SecureVars
<1>14. ASSUME NEW r \in Req, HandlePunch(r) PROVE (cpc[o] = "relay" => host[at[o]] # "none")'
  BY <1>14 DEF HandlePunch, HostRelay, CreateConnection, Secure, Deliver, Reading, End
<1>15. ASSUME NEW r \in Req, HandleAsk(r) PROVE (cpc[o] = "relay" => host[at[o]] # "none")'
  BY <1>15 DEF HandleAsk, HostRelay, CreateConnection, Secure, Deliver, Reading, End
<1>16. ASSUME NEW r \in Req, Accept(r) PROVE (cpc[o] = "relay" => host[at[o]] # "none")'
  BY <1>16 DEF Accept, CreateConnection, Secure, End
<1>17. ASSUME NEW r \in Req, Answered(r) PROVE (cpc[o] = "relay" => host[at[o]] # "none")'
  BY <1>17 DEF Answered
<1>18. ASSUME NEW r \in Req, AnswerTimeout(r) PROVE (cpc[o] = "relay" => host[at[o]] # "none")'
  BY <1>18 DEF AnswerTimeout
<1>19. ASSUME NEW r \in Req, ConnectionEnds(r) PROVE (cpc[o] = "relay" => host[at[o]] # "none")'
  BY <1>19 DEF ConnectionEnds
<1>20. CASE UNCHANGED vars
  BY <1>20
<1> QED
  BY <1>1, <1>2, <1>3, <1>4, <1>5, <1>6, <1>7, <1>8, <1>9, <1>10, <1>11, <1>12,
     <1>13, <1>14, <1>15, <1>16, <1>17, <1>18, <1>19, <1>20
  DEF Next, ClientStep, HostStep

(* Types.                                                                  *)
LEMMA TypeStep ==
  ASSUME IInv, [Next]_vars
  PROVE  TypeOK'
<1>0. /\ TypeOK
      /\ \A m \in Inner : Tries[m] \in Nat /\ Tries[m] >= 1
      /\ \A m \in Inner : \A k \in {"punch", "ask"} : <<m, try[m], k>> \in Req
  BY ReqMade, TriesAssumption DEF IInv, TypeOK
<1> USE <1>0 DEF TypeOK, Answer, Ans, vars, conf, client, mail, hvars, cvars
<1>1. ASSUME NEW n \in Inner, Dial(n) PROVE TypeOK'
  BY <1>1 DEF Dial, Go, Fail
<1>2. ASSUME NEW n \in Inner, Punch(n) PROVE TypeOK'
  <2>1. PICK r \in Req : Own(r) \in Inner /\ ServerTakes(r)
    BY <1>2 DEF Punch, Own
  <2>2. inbox' \in [Inner -> SUBSET Answer] /\ toHost' \in SUBSET Req
    BY <2>1 DEF ServerTakes, TypeOK, Answer, Ans
  <2> QED
    BY <1>2, <2>2 DEF Punch, Go, TypeOK, conf, hvars, cvars
<1>3. ASSUME NEW n \in Inner, PunchTimeout(n) PROVE TypeOK'
  BY <1>3 DEF PunchTimeout, Go, Fail
<1>4. ASSUME NEW n \in Inner, PunchAnswered(n) PROVE TypeOK'
  BY <1>4 DEF PunchAnswered, Go, Fail
<1>5. ASSUME NEW n \in Inner, ConnectOk(n) PROVE TypeOK'
  BY <1>5 DEF ConnectOk, Go, Fail, ToRelay
<1>6. ASSUME NEW n \in Inner, ConnectFails(n) PROVE TypeOK'
  BY <1>6 DEF ConnectFails, Go, Fail, ToRelay
<1>7. ASSUME NEW n \in Inner, Ask(n) PROVE TypeOK'
  <2>1. CASE UNCHANGED <<toHost, inbox>>
    BY <1>7, <2>1 DEF Ask, Go, Fail, TypeOK, conf, hvars, cvars
  <2>2. CASE Go(n, "asked") /\ ServerTakes(<<n, try[n], "ask">>)
    <3>1. PICK r \in Req : Own(r) \in Inner /\ ServerTakes(r)
      BY <2>2 DEF Own
    <3>2. inbox' \in [Inner -> SUBSET Answer] /\ toHost' \in SUBSET Req
      BY <3>1 DEF ServerTakes, TypeOK, Answer, Ans
    <3> QED
      BY <1>7, <2>2, <3>2 DEF Ask, Go, TypeOK, conf, hvars, cvars
  <2> QED
    BY <1>7, <2>1, <2>2 DEF Ask
<1>8. ASSUME NEW n \in Inner, AskTimeout(n) PROVE TypeOK'
  BY <1>8 DEF AskTimeout, Go, Fail
<1>9. ASSUME NEW n \in Inner, AskAnswered(n) PROVE TypeOK'
  BY <1>9 DEF AskAnswered, Go, Fail
<1>10. ASSUME NEW n \in Inner, CreateRelay(n) PROVE TypeOK'
  BY <1>10 DEF CreateRelay, Go, Fail
<1>11. ASSUME NEW n \in Inner, SecureNoPk(n) PROVE TypeOK'
  BY <1>11 DEF SecureNoPk, Win, SecureVars
<1>12. ASSUME NEW n \in Inner, SecureRead(n) PROVE TypeOK'
  BY <1>12 DEF SecureRead, Win, SecureVars, Replies
<1>13. ASSUME NEW n \in Inner, SecureFails(n) PROVE TypeOK'
  BY <1>13 DEF SecureFails, Go, Fail, SecureVars
<1>14. ASSUME NEW r \in Req, HandlePunch(r) PROVE TypeOK'
  BY <1>14 DEF HandlePunch, HostRelay, CreateConnection, Secure, Deliver, Reading, End
<1>15. ASSUME NEW r \in Req, HandleAsk(r) PROVE TypeOK'
  BY <1>15 DEF HandleAsk, HostRelay, CreateConnection, Secure, Deliver, Reading, End
<1>16. ASSUME NEW r \in Req, Accept(r) PROVE TypeOK'
  BY <1>16 DEF Accept, CreateConnection, Secure, End
<1>17. ASSUME NEW r \in Req, Answered(r) PROVE TypeOK'
  BY <1>17 DEF Answered
<1>18. ASSUME NEW r \in Req, AnswerTimeout(r) PROVE TypeOK'
  BY <1>18 DEF AnswerTimeout
<1>19. ASSUME NEW r \in Req, ConnectionEnds(r) PROVE TypeOK'
  BY <1>19 DEF ConnectionEnds
<1>20. CASE UNCHANGED vars
  BY <1>20
<1> QED
  BY <1>1, <1>2, <1>3, <1>4, <1>5, <1>6, <1>7, <1>8, <1>9, <1>10, <1>11, <1>12,
     <1>13, <1>14, <1>15, <1>16, <1>17, <1>18, <1>19, <1>20
  DEF Next, ClientStep, HostStep

(* The strengthened invariant holds in every state.                        *)
LEMMA Invariance == Spec => []IInv
<1>1. Init => IInv
  <2> SUFFICES ASSUME Init PROVE IInv
    OBVIOUS
  <2>0. \A n \in Inner : 1 \in 1..Tries[n]
    BY TriesAssumption
  <2>1. \A n \in Inner : <<n, 1, "punch">> \in Req /\ Own(<<n, 1, "punch">>) = n
    BY <2>0, ReqMade
  <2>2. TypeOK
    BY <2>0, <2>1 DEF Init, TypeOK
  <2>3. Owned /\ Mailed /\ Sockets /\ UuidKnown
    BY <2>1 DEF Init, Owned, OwnedAt, Mailed, MailedAt, Sockets, SocketsAt, UuidKnown
  <2>4. Fresh /\ Staged /\ Replied /\ Held
    BY DEF Init, Fresh, FreshAt, Staged, StagedAt, Replied, RepliedAt, Held, HeldAt, LostAt
  <2> QED
    BY <2>2, <2>3, <2>4 DEF IInv
<1>2. IInv /\ [Next]_vars => IInv'
  BY FreshStep, OwnedStep, MailedStep, SocketsStep, StagedStep, RepliedStep, HeldStep,
     LostStep, UuidStep, TypeStep
  DEF IInv, Fresh, Owned, Mailed, Sockets, Staged, Replied, Held, UuidKnown
<1> QED
  BY <1>1, <1>2, PTL DEF Spec

(* Whatever path a stream came by and whichever fallback the handshake     *)
(* took, once both of its ends are past create_tcp_connection and          *)
(* secure_connection they have both set the key or both set none.          *)
THEOREM KeysAgreeHolds == Spec => []KeysAgree
<1>1. IInv => KeysAgree
  <2> SUFFICES ASSUME IInv, NEW t \in Req, reply[t] # "none", host[t] = "run"
               PROVE  ckey[t] = hkey[t]
    BY DEF KeysAgree
  <2>1. ckey[t] \in BOOLEAN /\ hkey[t] \in BOOLEAN /\ first[t] \in {"none", "signed_id", "hash"}
    BY DEF IInv, TypeOK
  <2>2. StagedAt(t) /\ RepliedAt(t)
    BY DEF IInv, Staged, Replied
  <2>3. ckey[t] <=> hkey[t]
    BY <2>1, <2>2 DEF StagedAt, RepliedAt
  <2> QED
    BY <2>1, <2>3
<1> QED
  BY Invariance, <1>1, PTL

(* The client's handshake never reads, and so never loses, the Hash of a   *)
(* host that was told to skip the handshake.                               *)
THEOREM HashNotSwallowedHolds == Spec => []HashNotSwallowed
<1>1. IInv => HashNotSwallowed
  BY DEF IInv, TypeOK, Staged, StagedAt, HashNotSwallowed
<1> QED
  BY Invariance, <1>1, PTL

(* create_relay of the client only ever uses a uuid some handler of the    *)
(* host has, however late the answers to its earlier attempts come.        *)
THEOREM UuidKnownHolds == Spec => []UuidKnown
<1>1. IInv => UuidKnown
  BY DEF IInv
<1> QED
  BY Invariance, <1>1, PTL

(* When _start has returned a stream the client holds no other.            *)
THEOREM OneStreamHolds == Spec => []OneStream
<1>1. IInv => OneStream
  BY ReqParts, InnerAssumption DEF IInv, TypeOK, Held, HeldAt, LostAt, OneStream
<1> QED
  BY Invariance, <1>1, PTL

(***************************************************************************)
(* The frames the messages travel in: the header of a frame says its       *)
(* length, for every length a frame can have (the encoder refuses longer   *)
(* ones).                                                                  *)
(***************************************************************************)
IsByte(b) == b \in Nat /\ b <= 255

\* The low byte of the shifted length leaves the two bits for the header's length free.
LEMMA LowByte ==
  ASSUME NEW n \in Nat, NEW k \in 0..3
  PROVE  IsByte(((4 * n) % 256) + k) /\ (((4 * n) % 256) + k) % 4 = k
<1>1. PICK q \in Nat, r \in 0..63 : n = 64 * q + r
  BY SMT, n = 64 * (n \div 64) + (n % 64)
<1>2. (4 * n) % 256 = 4 * r
  BY SMT, <1>1
<1>3. QED
  BY SMT, <1>2 DEF IsByte

\* A number is put together again from its bytes.
LEMMA Bytes ==
  ASSUME NEW m \in Nat
  PROVE  /\ m = (m % 256) + 256 * (m \div 256)
         /\ m \div 256 \in Nat /\ IsByte((m \div 256) % 256)
         /\ m \div 256 = ((m \div 256) % 256) + 256 * (m \div 65536)
         /\ m \div 65536 \in Nat /\ IsByte((m \div 65536) % 256)
         /\ m \div 65536 = ((m \div 65536) % 256) + 256 * (m \div 16777216)
         /\ m \div 16777216 \in Nat
  BY SMT DEF IsByte

\* What the encoder wrote as a header of one to four bytes, the decoder reads back: the
\* first byte tells how many bytes the header has, every byte fits into eight bits, and
\* the length comes out unchanged.
THEOREM HeadRoundTrip ==
  ASSUME NEW n \in Nat, n <= 1073741823
  PROVE  /\ HeadLen(EncodeHead(n)[1]) = Len(EncodeHead(n))
         /\ \A i \in 1..Len(EncodeHead(n)) : IsByte(EncodeHead(n)[i])
         /\ DecodeHead(EncodeHead(n)) = n
<1>1. CASE n <= 63
  <2>1. EncodeHead(n) = <<4 * n>>
    BY SMT, <1>1 DEF EncodeHead
  <2>2. QED
    BY SMT, <1>1, <2>1 DEF HeadLen, DecodeHead, IsByte
<1>2. CASE n > 63 /\ n <= 16383
  <2>1. EncodeHead(n) = <<((4 * n) % 256) + 1, (4 * n) \div 256>>
    BY SMT, <1>2 DEF EncodeHead
  <2>2. QED
    BY SMT, <1>2, <2>1, LowByte, Bytes DEF HeadLen, DecodeHead, IsByte
<1>3. CASE n > 16383 /\ n <= 4194303
  <2>1. EncodeHead(n) = <<((4 * n) % 256) + 2, ((4 * n) \div 256) % 256, (4 * n) \div 65536>>
    BY SMT, <1>3 DEF EncodeHead
  <2>2. QED
    BY SMT, <1>3, <2>1, LowByte, Bytes DEF HeadLen, DecodeHead, IsByte
<1>4. CASE n > 4194303
  <2> DEFINE m == 4 * n
             b1 == (m % 256) + 3
             b2 == (m \div 256) % 256
             b3 == (m \div 65536) % 256
             b4 == m \div 16777216
  <2>1. EncodeHead(n) = <<b1, b2, b3, b4>>
    BY SMT, <1>4 DEF EncodeHead
  <2>2. m = (b1 - 3) + 256 * b2 + 65536 * b3 + 16777216 * b4
    BY SMT, Bytes
  <2>3. IsByte(b1) /\ b1 % 4 = 3
    BY SMT, LowByte
  <2>4. IsByte(b2) /\ IsByte(b3) /\ b4 \in Nat
    BY SMT DEF IsByte
  <2>5. b4 <= 255
    BY SMT, <2>2, <2>3, <2>4 DEF IsByte
  <2>6. (b1 + 256 * b2 + 65536 * b3 + 16777216 * b4) \div 4 = n
    BY SMT, <2>2
  <2> HIDE DEF b1, b2, b3, b4
  <2>7. QED
    BY SMT, <2>1, <2>3, <2>4, <2>5, <2>6 DEF HeadLen, DecodeHead, IsByte
<1>5. QED
  <2>1. n <= 63 \/ (n > 63 /\ n <= 16383) \/ (n > 16383 /\ n <= 4194303) \/ n > 4194303
    BY SMT
  <2>2. QED
    BY SMT, <2>1, <1>1, <1>2, <1>3, <1>4
=============================================================================

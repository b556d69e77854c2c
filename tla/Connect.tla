------------------------------- MODULE Connect -------------------------------
(***************************************************************************)
(* How a client gets its stream to a host: Client::_start and what it      *)
(* calls in src/client.rs, against the handlers of the rendezvous          *)
(* mediator and create_tcp_connection of src/server.rs on the host.        *)
(*                                                                         *)
(* _start runs one _start_inner, or two at the same time and keeps the one *)
(* that succeeds first.  Each asks the rendezvous server to punch a hole,  *)
(* repeating the request when no answer comes in time, and takes the first *)
(* answer it reads, whichever request caused it.  The host either listens  *)
(* for a direct connection or dials the relay with a uuid it made up.      *)
(* When the direct connection fails the client asks for a relay itself,    *)
(* with a new uuid and on a new socket for every attempt.  The two ends of *)
(* the resulting stream then agree on a key, or on having none.            *)
(*                                                                         *)
(* Every request the client makes gives the host at most one handler, and  *)
(* every handler at most one stream; so a request names the handler, its   *)
(* listener or uuid, and the stream.  Messages of one stream arrive in     *)
(* order.  The rendezvous server and the relay are external.  Time is left *)
(* out: a timeout may fire whenever the wait it bounds is not over.        *)
(***************************************************************************)
EXTENDS Naturals

CONSTANTS Inner,     \* the concurrent runs of _start_inner
          Tries      \* the attempts of its loops of requests (3 in the code)

ASSUME TriesAssumption == Tries \in [Inner -> Nat \ {0}]

NoOne == "none"
ASSUME InnerAssumption == NoOne \notin Inner

(* A request: whose, which attempt, and for a hole or for a relay.         *)
Req == UNION {{n} \X (1..Tries[n]) \X {"punch", "ask"} : n \in Inner}
Own(t) == t[1]

VARIABLES
  signed,    \* what signed_id_pk is worth: "empty", "invalid" or "valid"
  hasRelay,  \* the rendezvous server named a relay server
  force,     \* is_force_relay()
  cpc,       \* where each _start_inner is
  try,       \* its attempt in the loop it is in
  at,        \* the request whose listener or uuid it uses
  inbox,     \* answers on the socket it reads
  toHost,    \* requests the rendezvous server still has to pass on
  host,      \* the handler of each request
  first,     \* the first message the host sent on the stream
  reply,     \* the message secure_connection sent
  cl,        \* the client's end of the stream
  ckey, hkey,\* an end has set a key
  winner     \* the _start_inner whose stream _start returned

conf == <<signed, hasRelay, force>>
client == <<cpc, try, at>>
mail == <<inbox, toHost>>
hvars == <<host, first, hkey>>
cvars == <<reply, cl, ckey>>
vars == <<conf, client, mail, hvars, cvars, winner>>

Answer == [kind : {"refused", "listening", "uuid", "relaying"},
           of : Req]
Ans(k, t) == [kind |-> k, of |-> t]

Init ==
  /\ signed \in {"empty", "invalid", "valid"}
  /\ hasRelay \in BOOLEAN /\ force \in BOOLEAN
  /\ cpc = [n \in Inner |-> "start"] /\ try = [n \in Inner |-> 1]
  /\ at = [n \in Inner |-> <<n, 1, "punch">>]
  /\ inbox = [n \in Inner |-> {}] /\ toHost = {}
  /\ host = [t \in Req |-> "none"] /\ first = [t \in Req |-> "none"]
  /\ reply = [t \in Req |-> "none"] /\ cl = [t \in Req |-> "none"]
  /\ ckey = [t \in Req |-> FALSE] /\ hkey = [t \in Req |-> FALSE]
  /\ winner = NoOne

Go(n, s) == cpc' = [cpc EXCEPT ![n] = s]
Fail(n) == Go(n, "failed")

-----------------------------------------------------------------------------
(* The rendezvous server (external) loses a request, refuses it, or passes *)
(* it on.  An answer reaches the socket of its request while that is open. *)

ServerTakes(t) ==
  \/ UNCHANGED <<toHost, inbox>>
  \/ /\ inbox' = [inbox EXCEPT ![Own(t)] = @ \union {Ans("refused", t)}]
     /\ UNCHANGED toHost
  \/ toHost' = toHost \union {t} /\ UNCHANGED inbox

Reading(t) ==
  IF t[3] = "punch" THEN cpc[Own(t)] \in {"punch", "wait"}
                    ELSE cpc[Own(t)] = "asked" /\ try[Own(t)] = t[2]

Deliver(k, t) ==
  inbox' = IF Reading(t) THEN [inbox EXCEPT ![Own(t)] = @ \union {Ans(k, t)}]
                         ELSE inbox

-----------------------------------------------------------------------------
(* The client: punching.                                                   *)

Dial(n) ==
  /\ cpc[n] = "start"
  /\ \/ Go(n, "punch")
     \/ Fail(n)
  /\ UNCHANGED <<conf, try, at, mail, hvars, cvars, winner>>

Punch(n) ==
  /\ cpc[n] = "punch"
  /\ Go(n, "wait")
  /\ ServerTakes(<<n, try[n], "punch">>)
  /\ UNCHANGED <<conf, try, at, hvars, cvars, winner>>

(* mutant: the last attempt is waited for without a timeout.               *)
PunchTimeoutButLast(n) ==
  /\ cpc[n] = "wait" /\ try[n] < Tries[n]
  /\ Go(n, "punch") /\ try' = [try EXCEPT ![n] = @ + 1]
  /\ UNCHANGED <<conf, at, mail, hvars, cvars, winner>>

PunchTimeout(n) ==
  /\ cpc[n] = "wait"
  /\ IF try[n] < Tries[n]
     THEN Go(n, "punch") /\ try' = [try EXCEPT ![n] = @ + 1]
     ELSE Fail(n) /\ UNCHANGED try
  /\ UNCHANGED <<conf, at, mail, hvars, cvars, winner>>

(* The first answer on the socket decides; the rest of the socket is       *)
(* dropped with it.                                                        *)
PunchAnswered(n) ==
  /\ cpc[n] = "wait"
  /\ \E a \in inbox[n] :
       /\ at' = [at EXCEPT ![n] = a.of]
       /\ \/ a.kind = "refused" /\ Fail(n)
          \/ a.kind = "listening" /\ Go(n, "connect")
          \/ a.kind = "uuid" /\ Go(n, "relay")
  /\ inbox' = [inbox EXCEPT ![n] = {}]
  /\ UNCHANGED <<conf, try, toHost, hvars, cvars, winner>>

-----------------------------------------------------------------------------
(* The client: the direct connection, and the relay it asks for itself.    *)

ToRelay(n) ==
  IF hasRelay THEN Go(n, "ask") /\ try' = [try EXCEPT ![n] = 1]
              ELSE Fail(n) /\ UNCHANGED try

(* With a forced relay the direct stream is dropped for the one of the     *)
(* relay.                                                                  *)
ConnectOk(n) ==
  /\ cpc[n] = "connect" /\ host[at[n]] = "listen" /\ cl[at[n]] = "none"
  /\ IF force THEN ToRelay(n) /\ cl' = [cl EXCEPT ![at[n]] = "closed"]
              ELSE Go(n, "secure") /\ cl' = [cl EXCEPT ![at[n]] = "open"] /\ UNCHANGED try
  /\ UNCHANGED <<conf, at, mail, hvars, reply, ckey, winner>>

ConnectFails(n) ==
  /\ cpc[n] = "connect"
  /\ ToRelay(n)
  /\ UNCHANGED <<conf, at, mail, hvars, cvars, winner>>

(* A new socket for every attempt; the old one is dropped with what it     *)
(* holds.                                                                  *)
Ask(n) ==
  /\ cpc[n] = "ask"
  /\ \/ Go(n, "asked") /\ ServerTakes(<<n, try[n], "ask">>)
     \/ Fail(n) /\ UNCHANGED <<toHost, inbox>>
  /\ UNCHANGED <<conf, try, at, hvars, cvars, winner>>

AskTimeout(n) ==
  /\ cpc[n] = "asked"
  /\ IF try[n] < Tries[n]
     THEN Go(n, "ask") /\ try' = [try EXCEPT ![n] = @ + 1]
     ELSE Fail(n) /\ UNCHANGED try
  /\ inbox' = [inbox EXCEPT ![n] = {}]
  /\ UNCHANGED <<conf, at, toHost, hvars, cvars, winner>>

(* The uuid used is the one of this attempt, not one read from the answer. *)
AskAnswered(n) ==
  /\ cpc[n] = "asked"
  /\ \E a \in inbox[n] :
       \/ a.kind = "refused" /\ Fail(n) /\ UNCHANGED at
       \/ /\ a.kind = "relaying"
          /\ Go(n, "relay")
          /\ at' = [at EXCEPT ![n] = <<n, try[n], "ask">>]
  /\ inbox' = [inbox EXCEPT ![n] = {}]
  /\ UNCHANGED <<conf, try, toHost, hvars, cvars, winner>>

CreateRelay(n) ==
  /\ cpc[n] = "relay"
  /\ \/ Go(n, "secure") /\ cl' = [cl EXCEPT ![at[n]] = "open"]
     \/ Fail(n) /\ UNCHANGED cl
  /\ UNCHANGED <<conf, try, at, mail, hvars, reply, ckey, winner>>

-----------------------------------------------------------------------------
(* The client: secure_connection, and the race of the two _start_inner.    *)

(* n's stream is returned by _start; the other _start_inner is dropped     *)
(* where it is, and its stream with it.                                    *)
Win(n) ==
  /\ winner' = n
  /\ cpc' = [m \in Inner |-> IF m = n THEN "up"
                             ELSE IF cpc[m] = "failed" THEN "failed" ELSE "dropped"]
  /\ cl' = [t \in Req |-> IF cl[t] = "open" /\ Own(t) # n THEN "closed" ELSE cl[t]]

SecureVars == <<conf, try, at, mail, hvars>>

(* Without a key to check the host's with, an empty message goes out "in   *)
(* case server is setting up secure and waiting for first message".        *)
SecureNoPk(n) ==
  /\ cpc[n] = "secure" /\ signed # "valid"
  /\ reply' = [reply EXCEPT ![at[n]] = "empty"]
  /\ Win(n)
  /\ UNCHANGED <<SecureVars, ckey>>

(* What the one message read in the handshake is answered with.  A         *)
(* SignedId signed with that key and with the peer's id: a key.  With      *)
(* another id: an empty message.  Not signed with that key: an empty       *)
(* PublicKey, "fall back to non-secure connection in case pk mismatch".    *)
(* Any other message counts as a failed handshake, and is lost.            *)
Replies(m) == IF m = "signed_id" THEN {"key", "empty", "no_key"} ELSE {"empty"}

(* mutant: the key is set before the SignedId has been checked.            *)
SecureReadKeyFirst(n) ==
  /\ cpc[n] = "secure" /\ signed = "valid" /\ first[at[n]] # "none"
  /\ \E r \in Replies(first[at[n]]) : reply' = [reply EXCEPT ![at[n]] = r]
  /\ ckey' = [ckey EXCEPT ![at[n]] = TRUE]
  /\ Win(n)
  /\ UNCHANGED SecureVars

SecureRead(n) ==
  /\ cpc[n] = "secure" /\ signed = "valid" /\ first[at[n]] # "none"
  /\ \E r \in Replies(first[at[n]]) :
       /\ reply' = [reply EXCEPT ![at[n]] = r]
       /\ ckey' = [ckey EXCEPT ![at[n]] = (r = "key")]
  /\ Win(n)
  /\ UNCHANGED SecureVars

(* READ_TIMEOUT, the host closed the stream, or sending on it failed.      *)
SecureFails(n) ==
  /\ cpc[n] = "secure"
  /\ Fail(n)
  /\ cl' = [cl EXCEPT ![at[n]] = "closed"]
  /\ UNCHANGED <<SecureVars, reply, ckey, winner>>

-----------------------------------------------------------------------------
(* The host.                                                               *)

(* mutant: the "secure" of the client's request is not passed on.          *)
SecureDropped(t) == t[3] = "punch"

(* The "secure" a handler was given: TRUE when it made the offer itself,   *)
(* the client's "!signed_id_pk.is_empty()" when the client asked.          *)
Secure(t) == t[3] = "punch" \/ signed # "empty"

(* create_tcp_connection has its stream: SignedId and then wait, or start  *)
(* the Connection, which sends Hash.                                       *)
CreateConnection(t) ==
  IF Secure(t)
  THEN host' = [host EXCEPT ![t] = "signed"] /\ first' = [first EXCEPT ![t] = "signed_id"]
  ELSE host' = [host EXCEPT ![t] = "run"] /\ first' = [first EXCEPT ![t] = "hash"]

End(t) == host' = [host EXCEPT ![t] = "ended"] /\ UNCHANGED first

(* create_relay tells the client, then dials the relay, where what it      *)
(* sends waits for the client to come.                                     *)
HostRelay(t, k) == Deliver(k, t) /\ (CreateConnection(t) \/ End(t))

(* handle_punch_hole and handle_intranet: listen, or dial the relay.  A    *)
(* message skipped as a duplicate (same address within 100 ms, LAST_MSG),  *)
(* and a failure before the answer is sent, leave no trace.                *)
HandlePunch(t) ==
  /\ t \in toHost /\ t[3] = "punch"
  /\ toHost' = toHost \ {t}
  /\ \/ host' = [host EXCEPT ![t] = "listen"] /\ Deliver("listening", t) /\ UNCHANGED first
     \/ HostRelay(t, "uuid")
     \/ UNCHANGED <<inbox, host, first>>
  /\ UNCHANGED <<conf, client, hkey, cvars, winner>>

(* handle_request_relay.  Every request comes from a socket of its own, so *)
(* LAST_RELAY_MSG never has its address.                                   *)
HandleAsk(t) ==
  /\ t \in toHost /\ t[3] = "ask"
  /\ toHost' = toHost \ {t}
  /\ \/ HostRelay(t, "relaying")
     \/ UNCHANGED <<inbox, host, first>>
  /\ UNCHANGED <<conf, client, hkey, cvars, winner>>

(* accept_connection_: a client connects within CONNECT_TIMEOUT, or none.  *)
Accept(t) ==
  /\ host[t] = "listen"
  /\ IF cl[t] = "none" THEN End(t) ELSE CreateConnection(t)
  /\ UNCHANGED <<conf, client, mail, hkey, cvars, winner>>

(* The client's answer: only a full PublicKey sets a key.                  *)
Answered(t) ==
  /\ host[t] = "signed" /\ reply[t] # "none"
  /\ hkey' = [hkey EXCEPT ![t] = (reply[t] = "key")]
  /\ host' = [host EXCEPT ![t] = "run"]
  /\ UNCHANGED <<conf, client, mail, first, cvars, winner>>

(* mutant: the answer is waited for until the stream ends.                 *)
AnswerTimeoutNone(t) ==
  /\ host[t] = "signed" /\ cl[t] = "closed"
  /\ host' = [host EXCEPT ![t] = "ended"]
  /\ UNCHANGED <<conf, client, mail, first, hkey, cvars, winner>>

(* CONNECT_TIMEOUT, or the stream ends before an answer.                   *)
AnswerTimeout(t) ==
  /\ host[t] = "signed"
  /\ host' = [host EXCEPT ![t] = "ended"]
  /\ UNCHANGED <<conf, client, mail, first, hkey, cvars, winner>>

(* The Connection ends when its stream does, or when nothing comes for     *)
(* the 30 s it allows (also at a relay no client ever came to).            *)
ConnectionEnds(t) ==
  /\ host[t] = "run" /\ cl[t] # "open"
  /\ host' = [host EXCEPT ![t] = "ended"]
  /\ UNCHANGED <<conf, client, mail, first, hkey, cvars, winner>>

-----------------------------------------------------------------------------
ClientStep(n) ==
  \/ Dial(n) \/ Punch(n) \/ PunchTimeout(n) \/ PunchAnswered(n)
  \/ ConnectOk(n) \/ ConnectFails(n)
  \/ Ask(n) \/ AskTimeout(n) \/ AskAnswered(n) \/ CreateRelay(n)
  \/ SecureNoPk(n) \/ SecureRead(n) \/ SecureFails(n)

HostStep(t) ==
  \/ HandlePunch(t) \/ HandleAsk(t) \/ Accept(t)
  \/ Answered(t) \/ AnswerTimeout(t) \/ ConnectionEnds(t)

Next ==
  \/ \E n \in Inner : ClientStep(n)
  \/ \E t \in Req : HostStep(t)

Spec == Init /\ [][Next]_vars

-----------------------------------------------------------------------------
(* Types, and that a stream is open at the client only while one of its    *)
(* _start_inner uses it.                                                   *)
TypeOK ==
  /\ signed \in {"empty", "invalid", "valid"}
  /\ hasRelay \in BOOLEAN /\ force \in BOOLEAN
  /\ cpc \in [Inner -> {"start", "punch", "wait", "connect", "ask", "asked", "relay",
                        "secure", "up", "failed", "dropped"}]
  /\ try \in [Inner -> Nat] /\ (\A n \in Inner : try[n] \in 1..Tries[n]) /\ at \in [Inner -> Req]
  /\ inbox \in [Inner -> SUBSET Answer] /\ toHost \in SUBSET Req
  /\ winner \in Inner \union {NoOne}
  /\ host \in [Req -> {"none", "listen", "signed", "run", "ended"}]
  /\ first \in [Req -> {"none", "signed_id", "hash"}]
  /\ reply \in [Req -> {"none", "empty", "key", "no_key"}]
  /\ cl \in [Req -> {"none", "open", "closed"}]
  /\ ckey \in [Req -> BOOLEAN] /\ hkey \in [Req -> BOOLEAN]

(* Once both ends of a stream are past the handshake, they have both set   *)
(* the key or both set none, whichever of secure_connection's fallbacks    *)
(* was taken and however the stream came about: else every later message   *)
(* would fail to decrypt, or be read as ciphertext.                        *)
KeysAgree ==
  \A t \in Req : reply[t] # "none" /\ host[t] = "run" => ckey[t] = hkey[t]

(* secure_connection reads one message and throws it away unless it is a   *)
(* SignedId.  It must never be the host's Hash, without which the client   *)
(* cannot log in: a host that skips the handshake is only ever met by a    *)
(* client that does not read in it.                                        *)
HashNotSwallowed ==
  \A n \in Inner : cpc[n] = "secure" /\ signed = "valid" => first[at[n]] # "hash"

(* The client dials the relay only with a uuid that a handler of the host  *)
(* has been given or has made up, never with one the host has not seen,    *)
(* although answers to earlier attempts may still be on their way.         *)
UuidKnown ==
  \A n \in Inner : cpc[n] = "relay" => host[at[n]] # "none"

(* When _start has returned a stream, that stream is the only one the      *)
(* client holds: the losing _start_inner and the direct stream given up    *)
(* for a forced relay leave nothing open.                                  *)
OneStream ==
  winner # NoOne => \A t \in Req : cl[t] = "open" => t = at[winner]

(* Nobody is left waiting for something that nobody will do and no timeout *)
(* bounds.  Every _start_inner comes to a stream, an error, or is dropped  *)
(* because the other one won; a handler of the host whose offer the client *)
(* never took up, or whose stream the client has dropped, goes on until it *)
(* has ended.  No behaviour goes on for ever (each step uses up a request, *)
(* an answer or a wait), so it is enough that who has not ended has a step.*)
NobodyWaits ==
  /\ \A n \in Inner : cpc[n] \in {"up", "failed", "dropped"} \/ ENABLED ClientStep(n)
  /\ \A t \in Req :
       host[t] \notin {"none", "ended"} /\ cl[t] # "open" => ENABLED HostStep(t)
=============================================================================

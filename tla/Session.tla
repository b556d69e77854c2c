------------------------------ MODULE Session -------------------------------
(***************************************************************************)
(* The life of the incoming connections (src/server/connection.rs): login, *)
(* the sessions a client may come back to, what is prepared on the machine *)
(* while there is a remote control connection and undone after the last    *)
(* one.  The tasks of the connections run in parallel and share tables     *)
(* behind one mutex each: a step is one acquisition of a mutex, or several *)
(* that no other step can tell from one.                                   *)
(***************************************************************************)
EXTENDS Integers

CONSTANTS
  Conn,       \* connection ids
  Key,        \* SessionKeys
  Client,     \* the key the client of a connection sends
  Kind,       \* kinds of connection clients ask for
  Tfa,        \* values of require_2fa.is_some() of a new connection
  MaxTemp     \* bound of the changes of the password by the user

ASSUME SessionAssumption ==
  /\ Client \in [Conn -> Key]
  /\ Kind \subseteq {"remote", "port_forward", "other"}
  /\ Tfa \subseteq BOOLEAN
  /\ MaxTemp \in Nat

VARIABLES
  authed,         \* AUTHED_CONNS
  pc,             \* where the task of a connection is
  kind,           \* what its client has asked for
  socket,         \* port_forward_socket.is_some()
  twofa,          \* require_2fa.is_some()
  share,          \* session_last_recv_time is that of the session in SESSIONS
  subed,          \* services_subed
  sessions,       \* SESSIONS
  temp,           \* TEMPORARY_PASSWORD: passwords are numbered
  wallpaper,      \* WALLPAPER_REMOVER.is_some()
  changed,        \* CHANGED_RESOLUTIONS is not empty
  recording,      \* RECORD_CURSOR_POS_RUNNING
  ended           \* history: a remote connection of the key was closed for
                  \* good, and nobody has logged in with the key since

vars == <<authed, pc, kind, socket, twofa, share, subed, sessions,
          temp, wallpaper, changed, recording, ended>>
login   == <<kind, socket, twofa>>
table   == <<sessions, share, ended>>
machine == <<wallpaper, changed>>

None == "none"
NoPassword == 0
Permanent == -1
NoSession == [here |-> FALSE, pw |-> NoPassword, tfa |-> FALSE, fresh |-> FALSE]

(* Where a connection may be that is in AUTHED_CONNS, and one that is not. *)
InAuthed == {"share", "prepare", "run", "rotate", "forward", "remove",
             "retain"}
Outside == {"new", "login", "push", "rotate", "forward", "remove", "count",
            "wallpaper", "restore", "clear", "done"}

TypeOK ==
  /\ authed \subseteq Conn
  /\ pc \in [Conn -> InAuthed \cup Outside]
  /\ kind \in [Conn -> Kind \cup {None, "remote"}]
  /\ socket \in [Conn -> BOOLEAN] /\ twofa \in [Conn -> BOOLEAN]
  /\ share \in [Conn -> BOOLEAN] /\ subed \in [Conn -> BOOLEAN]
  /\ sessions \in [Key -> [here : BOOLEAN, pw : Nat, tfa : BOOLEAN, fresh : BOOLEAN]]
  /\ temp \in Nat \ {0}
  /\ wallpaper \in BOOLEAN /\ changed \in BOOLEAN
  /\ recording \in BOOLEAN
  /\ ended \subseteq Key

Init ==
  /\ authed = {}
  /\ pc = [c \in Conn |-> "new"]
  /\ kind = [c \in Conn |-> None]
  /\ socket = [c \in Conn |-> FALSE] /\ twofa = [c \in Conn |-> FALSE]
  /\ share = [c \in Conn |-> FALSE] /\ subed = [c \in Conn |-> FALSE]
  /\ sessions = [k \in Key |-> NoSession]
  /\ temp = 1
  /\ wallpaper = FALSE /\ changed = FALSE
  /\ recording = FALSE
  /\ ended = {}

At(c, l) == pc[c] = l
Go(c, l) == pc' = [pc EXCEPT ![c] = l]
Remote == {c \in authed : kind[c] = "remote"}

(***************************************************************************)
(* Sessions and login.                                                     *)
(***************************************************************************)
(* is_recent_session first drops the sessions that have been silent.       *)
Pruned == [k \in Key |-> IF sessions[k].fresh THEN sessions[k] ELSE NoSession]
ShareAfterPruning == [c \in Conn |-> share[c] /\ Pruned[Client[c]].here]

IsRecentSession(s, p) == s.here /\ s.pw # NoPassword /\ p = s.pw
IsRecentTfa(s, p) == s.here /\ s.tfa /\ p # NoPassword

(* validate_password: a login with the temporary password is remembered,   *)
(* one with the permanent password is not.                                 *)
Remembered(p) == p = temp

UpdateOrInsert(p) == [here |-> TRUE, pw |-> p, tfa |-> FALSE, fresh |-> TRUE]

(* fresh: last_recv_time is less than SESSION_TIMEOUT ago.                 *)
LastRecv(s, fresh) == [here |-> s.here, pw |-> s.pw, tfa |-> s.tfa, fresh |-> fresh]

(* send_logon_response, up to the first change of a table: the second      *)
(* factor is asked for unless it was given in this session.                *)
Logon(c, s, p) ==
  Go(c, IF twofa'[c] /\ ~IsRecentTfa(s, p) THEN "login" ELSE "push")

(* ConnectionID::new *)
Start(c) ==
  /\ At(c, "new")
  /\ Go(c, "login")
  /\ \E b \in Tfa : twofa' = [twofa EXCEPT ![c] = b]
  /\ UNCHANGED <<authed, kind, socket, subed, table, temp, machine, recording>>

(* on_open refuses it. *)
OnOpenFails(c) ==
  /\ At(c, "new")
  /\ Go(c, "done")
  /\ UNCHANGED <<authed, login, subed, table, temp, machine, recording>>

(* on_message, LoginRequest.  The user may have to click first, or the     *)
(* desktop cannot be started; otherwise the password is that of a session, *)
(* the temporary or the permanent one, or wrong.  A trusted device needs   *)
(* no second factor.                                                       *)
LoginRequest(c, t, p) ==
  LET k == Client[c]
      recent == IsRecentSession(Pruned[k], p)
      new == ~recent /\ Remembered(p)
  IN
  /\ At(c, "login")
  /\ kind[c] \in {None, t}
  /\ kind' = [kind EXCEPT ![c] = t]
  /\ socket' = [socket EXCEPT ![c] = (t = "port_forward")]
  /\ \E b \in {twofa[c], FALSE} : twofa' = [twofa EXCEPT ![c] = b]
  /\ \/ UNCHANGED <<pc, table>>
     \/ /\ share' = ShareAfterPruning
        /\ sessions' = IF new THEN [Pruned EXCEPT ![k] = UpdateOrInsert(p)]
                       ELSE Pruned
        /\ ended' = IF new THEN ended \ {k} ELSE ended
        /\ \/ UNCHANGED pc
           \/ /\ recent \/ new \/ p = Permanent
              /\ Logon(c, sessions'[k], p)
  /\ UNCHANGED <<authed, subed, temp, machine, recording>>

(* Auth2fa with the right code, set_session_2fa *)
Auth2fa(c) ==
  LET k == Client[c] IN
  /\ At(c, "login") /\ kind[c] # None /\ twofa[c]
  /\ twofa' = [twofa EXCEPT ![c] = FALSE]
  /\ sessions' = [sessions EXCEPT ![k] =
       IF @.here THEN [here |-> TRUE, pw |-> @.pw, tfa |-> TRUE, fresh |-> @.fresh]
       ELSE [here |-> TRUE, pw |-> NoPassword, tfa |-> TRUE, fresh |-> TRUE]]
  /\ ended' = ended \ {k}
  /\ Go(c, "push")
  /\ UNCHANGED <<authed, kind, socket, share, subed, temp, machine, recording>>

(* The user accepts the connection: Data::Authorize *)
Authorize(c) ==
  /\ At(c, "login") /\ kind[c] # None
  /\ twofa' = [twofa EXCEPT ![c] = FALSE]
  /\ Go(c, "push")
  /\ UNCHANGED <<authed, kind, socket, subed, table, temp, machine, recording>>

(* SwitchSidesResponse with the right uuid; send_logon_response looks for  *)
(* a recent session before it finds that the second factor is not needed.  *)
SwitchSides(c) ==
  /\ At(c, "login") /\ kind[c] = None
  /\ kind' = [kind EXCEPT ![c] = "remote"]
  /\ Go(c, "push")
  /\ IF twofa[c]
       THEN sessions' = Pruned /\ share' = ShareAfterPruning
       ELSE UNCHANGED <<sessions, share>>
  /\ UNCHANGED <<authed, socket, twofa, ended, subed, temp, machine, recording>>

(* AuthedConnID::new *)
Push(c) ==
  /\ At(c, "push")
  /\ Go(c, "share")
  /\ authed' = authed \cup {c}
  /\ UNCHANGED <<login, subed, table, temp, machine, recording>>

(* send_logon_response goes on: the session it will keep alive.            *)
Share(c) ==
  /\ At(c, "share")
  /\ share' = [share EXCEPT ![c] = sessions[Client[c]].here]
  /\ Go(c, IF kind[c] = "remote" THEN "prepare" ELSE "run")
  /\ UNCHANGED <<authed, login, subed, sessions, ended, temp, machine, recording>>

(* on_remote_authorized; it may be off, fail or not be reached.            *)
Prepare(c) ==
  /\ At(c, "prepare")
  /\ Go(c, "run")
  /\ wallpaper' \in {wallpaper, TRUE}
  /\ UNCHANGED <<authed, login, subed, table, temp, changed, recording>>

(***************************************************************************)
(* An authorized connection.                                               *)
(***************************************************************************)
(* try_sub_monitor_services, try_start_record_cursor_pos: in the lock of   *)
(* the Server.                                                             *)
Subscribe(c) ==
  /\ At(c, "run") /\ kind[c] = "remote" /\ ~subed[c]
  /\ subed' = [subed EXCEPT ![c] = TRUE]
  /\ recording' = TRUE
  /\ UNCHANGED <<authed, pc, login, table, temp, machine>>

(* change_resolution, set_last_changed_resolution: the original resolution *)
(* is recorded.                                                            *)
ChangeResolution(c) ==
  /\ At(c, "run") /\ kind[c] = "remote"
  /\ changed' = TRUE
  /\ UNCHANGED <<authed, pc, login, subed, table, temp, wallpaper, recording>>

(* A message arrives; the session is that of all connections of the key.   *)
Receive(c) ==
  /\ At(c, "run") /\ share[c]
  /\ sessions' = [sessions EXCEPT ![Client[c]] = LastRecv(@, TRUE)]
  /\ UNCHANGED <<authed, pc, login, share, ended, subed, temp, machine, recording>>

(***************************************************************************)
(* The end of a connection.                                                *)
(***************************************************************************)

(* check_remove_session *)
MustRemoveSession(c) ==
  \/ c \in Remote
  \/ ~\E d \in Remote \ {c} : Client[d] = Client[c]

CheckRemoveSession(c) ==
  LET k == Client[c]
      goes == kind[c] # None /\ MustRemoveSession(c)
  IN
  /\ sessions' = IF goes THEN [sessions EXCEPT ![k] = NoSession] ELSE sessions
  /\ share' = [d \in Conn |-> share[d] /\ ~(goes /\ Client[d] = k)]
  /\ ended' = IF c \in Remote THEN ended \cup {k} ELSE ended

InLoop(c) == pc[c] \in {"login", "run"}

(* An error of the stream, a timeout, an error of the connection manager:  *)
(* the client may come back.                                               *)
Break(c) ==
  /\ InLoop(c)
  /\ Go(c, "rotate")
  /\ socket' = [socket EXCEPT ![c] = FALSE]
  /\ UNCHANGED <<authed, kind, twofa, subed, table, temp, machine, recording>>

(* Closed by the peer, the connection manager, the web console, inactivity *)
(* or with the service: send_close_reason_no_retry, on_close               *)
CloseForGood(c) ==
  /\ InLoop(c)
  /\ Go(c, "rotate")
  /\ CheckRemoveSession(c)
  /\ socket' = [socket EXCEPT ![c] = FALSE]
  /\ UNCHANGED <<authed, kind, twofa, subed, temp, machine, recording>>

(* on_message ends the loop: a login request is refused, the connection    *)
(* goes on as a port forward, or the client has chosen another session of  *)
(* Windows.                                                                *)
LeaveLoop(c) ==
  /\ InLoop(c)
  /\ Go(c, "rotate")
  /\ UNCHANGED <<authed, login, subed, table, temp, machine, recording>>

(* update_temporary_password *)
Rotate(c) ==
  /\ At(c, "rotate")
  /\ temp' = IF c \in authed THEN temp + 1 ELSE temp
  /\ Go(c, IF socket[c] THEN "forward" ELSE "remove")
  /\ UNCHANGED <<authed, login, subed, table, machine, recording>>

(* try_port_forward_loop ends, always with an error.                       *)
ForwardEnds(c) ==
  /\ At(c, "forward")
  /\ Go(c, "remove")
  /\ CheckRemoveSession(c)
  /\ socket' = [socket EXCEPT ![c] = FALSE]
  /\ UNCHANGED <<authed, kind, twofa, subed, temp, machine, recording>>

(* try_stop_record_cursor_pos *)
GoOnRecording(c) == recording /\ Remote # {}

(* remove_connection, in the lock of the Server *)
RemoveConnection(c) ==
  /\ At(c, "remove")
  /\ Go(c, IF c \in authed THEN "retain" ELSE "done")
  /\ recording' = GoOnRecording(c)
  /\ UNCHANGED <<authed, login, subed, table, temp, machine>>

(* Drop of AuthedConnID *)
Retain(c) ==
  /\ At(c, "retain")
  /\ Go(c, "count")
  /\ authed' = authed \ {c}
  /\ UNCHANGED <<login, subed, table, temp, machine, recording>>

(* mutant: somebody is left if any connection is *)
AnyLeft == authed # {}

RemoteLeft == Remote # {}

Count(c) ==
  /\ At(c, "count")
  /\ Go(c, IF RemoteLeft THEN "done" ELSE "wallpaper")
  /\ UNCHANGED <<authed, login, subed, table, temp, machine, recording>>

RestoreWallpaper(c) ==
  /\ At(c, "wallpaper")
  /\ Go(c, "restore")
  /\ wallpaper' = FALSE
  /\ UNCHANGED <<authed, login, subed, table, temp, changed, recording>>

(* restore_resolutions sets the resolutions it finds recorded...           *)
RestoreResolutions(c) ==
  /\ At(c, "restore")
  /\ Go(c, "clear")
  /\ UNCHANGED <<authed, login, subed, table, temp, machine, recording>>

(* ... and then forgets all that are. *)
ClearResolutions(c) ==
  /\ At(c, "clear")
  /\ Go(c, "done")
  /\ changed' = FALSE
  /\ UNCHANGED <<authed, login, subed, table, temp, wallpaper, recording>>

(***************************************************************************)
(* The user asks for a new temporary password; a session gets old.         *)
(***************************************************************************)
UpdateTemporaryPassword ==
  /\ temp < MaxTemp
  /\ temp' = temp + 1
  /\ UNCHANGED <<authed, pc, login, subed, table, machine, recording>>

SessionTimeout(k) ==
  /\ sessions[k].fresh
  /\ sessions' = [sessions EXCEPT ![k] = LastRecv(@, FALSE)]
  /\ UNCHANGED <<authed, pc, login, share, ended, subed, temp, machine, recording>>

Opens(c) ==
  \/ Start(c)
  \/ OnOpenFails(c)
  \/ \E t \in Kind, p \in {Permanent} \cup 0..temp : LoginRequest(c, t, p)
  \/ Auth2fa(c)
  \/ Authorize(c)
  \/ SwitchSides(c)
  \/ Push(c)
  \/ Share(c)
  \/ Prepare(c)

Works(c) ==
  \/ Subscribe(c)
  \/ ChangeResolution(c)
  \/ Receive(c)

Closes(c) ==
  \/ Break(c)
  \/ CloseForGood(c)
  \/ LeaveLoop(c)
  \/ Rotate(c)
  \/ ForwardEnds(c)
  \/ RemoveConnection(c)
  \/ Retain(c)
  \/ Count(c)
  \/ RestoreWallpaper(c)
  \/ RestoreResolutions(c)
  \/ ClearResolutions(c)

Next ==
  \/ \E c \in Conn : Opens(c) \/ Works(c) \/ Closes(c)
  \/ UpdateTemporaryPassword
  \/ \E k \in Key : SessionTimeout(k)

Spec == Init /\ [][Next]_vars

(***************************************************************************)
(* Properties.                                                             *)
(***************************************************************************)
(* After the last remote connection the wallpaper is back, in whatever     *)
(* order connections come and go, and of whatever kind they are: as long   *)
(* as WALLPAPER_REMOVER is there, there is a remote connection in          *)
(* AUTHED_CONNS, or one that has left it and is about to restore.          *)
Holder(c) == kind[c] = "remote" /\ (c \in authed \/ pc[c] \in {"count", "wallpaper"})

RestoredAfterLast == wallpaper => \E c \in Conn : Holder(c)

(* While a remote connection is subscribed the position of the cursor is   *)
(* recorded: another connection that closes does not stop it.              *)
CursorRecorded ==
  \A c \in Conn : subed[c] /\ pc[c] = "run" => recording

(* The session of a remote connection that was closed for good is gone     *)
(* until somebody logs in with its key again, however many connections     *)
(* have the key: check_remove_session.                                     *)
EndedStaysEnded == \A k \in ended : ~sessions[k].here
=============================================================================

--------------------------- MODULE SessionProofs ----------------------------
(***************************************************************************)
(* What Session keeps for any number of connections, keys and passwords.   *)
(***************************************************************************)
EXTENDS Session, TLAPS

(* AUTHED_CONNS holds the connections between AuthedConnID::new and its    *)
(* Drop, whatever the others do, and what is prepared for a remote         *)
(* connection is prepared for one that is there.                           *)
Places ==
  /\ \A c \in authed : pc[c] \in InAuthed
  /\ \A c \in Conn : pc[c] \in {"share", "prepare", "run", "retain"} => c \in authed
  /\ \A c \in Conn : pc[c] = "prepare" \/ subed[c] => kind[c] = "remote"
  /\ \A c \in Conn : subed[c] => pc[c] \notin {"new", "login", "push", "share", "prepare"}

IInv == TypeOK /\ Places /\ RestoredAfterLast /\ CursorRecorded /\ EndedStaysEnded

(* Nothing is prepared, recorded or over before the first connection.      *)
LEMMA InitIInv == Init => IInv
<1> SUFFICES ASSUME Init PROVE IInv
  OBVIOUS
<1>1. TypeOK
  <2>1. sessions \in [Key -> [here : BOOLEAN, pw : Nat, tfa : BOOLEAN, fresh : BOOLEAN]]
    BY DEF Init, NoSession, NoPassword
  <2>2. pc \in [Conn -> InAuthed \cup Outside]
    BY DEF Init, InAuthed, Outside
  <2>3. kind \in [Conn -> Kind \cup {None, "remote"}] /\ twofa \in [Conn -> BOOLEAN]
    BY DEF Init
  <2>4. socket \in [Conn -> BOOLEAN] /\ share \in [Conn -> BOOLEAN] /\ subed \in [Conn -> BOOLEAN]
    BY DEF Init
  <2>5. authed \subseteq Conn /\ temp \in Nat \ {0} /\ ended \subseteq Key
    BY DEF Init
  <2>6. wallpaper \in BOOLEAN /\ changed \in BOOLEAN /\ recording \in BOOLEAN
    BY DEF Init
  <2> QED BY <2>1, <2>2, <2>3, <2>4, <2>5, <2>6 DEF TypeOK
<1>2. Places /\ RestoredAfterLast /\ CursorRecorded /\ EndedStaysEnded
  BY DEF Init, Places, RestoredAfterLast, CursorRecorded, EndedStaysEnded
<1> QED BY <1>1, <1>2 DEF IInv

(* Every step keeps the types.                                             *)
LEMMA NextTypeOK == TypeOK /\ [Next]_vars => TypeOK'
<1> SUFFICES ASSUME TypeOK, [Next]_vars PROVE TypeOK'
  OBVIOUS
<1> USE SessionAssumption DEF At, Go, login, table, machine, TypeOK
<1>1. ASSUME NEW c \in Conn, Opens(c) PROVE TypeOK'
  <2>1. CASE Start(c)
    <3>1. PICK b \in Tfa : twofa' = [twofa EXCEPT ![c] = b]
      BY <2>1 DEF Start
    <3>2. b \in BOOLEAN
      OBVIOUS
    <3> QED BY <2>1, <3>1, <3>2 DEF Start, InAuthed, Outside
  <2>7. CASE OnOpenFails(c)
    BY <2>7 DEF OnOpenFails, InAuthed, Outside
  <2>2. ASSUME NEW t \in Kind, NEW p \in {Permanent} \cup 0..temp, LoginRequest(c, t, p)
        PROVE TypeOK'
    <3>1. p = temp => UpdateOrInsert(p) \in [here : BOOLEAN, pw : Nat, tfa : BOOLEAN, fresh : BOOLEAN]
      BY DEF UpdateOrInsert
    <3>2. Pruned \in [Key -> [here : BOOLEAN, pw : Nat, tfa : BOOLEAN, fresh : BOOLEAN]]
      BY DEF Pruned, NoSession, NoPassword
    <3>3. ShareAfterPruning \in [Conn -> BOOLEAN]
      BY <3>2 DEF ShareAfterPruning
    <3>4. sessions' \in [Key -> [here : BOOLEAN, pw : Nat, tfa : BOOLEAN, fresh : BOOLEAN]]
      BY <2>2, <3>1, <3>2 DEF LoginRequest, Remembered
    <3>5. share' \in [Conn -> BOOLEAN]
      BY <2>2, <3>3 DEF LoginRequest
    <3>6. pc' \in [Conn -> InAuthed \cup Outside]
      BY <2>2 DEF LoginRequest, Logon, InAuthed, Outside
    <3>7. kind' \in [Conn -> Kind \cup {None, "remote"}] /\ ended' \subseteq Key
      BY <2>2 DEF LoginRequest
    <3>8. socket' \in [Conn -> BOOLEAN]
      BY <2>2 DEF LoginRequest
    <3>9. twofa' \in [Conn -> BOOLEAN]
      BY <2>2 DEF LoginRequest
    <3> QED BY <2>2, <3>4, <3>5, <3>6, <3>7, <3>8, <3>9 DEF LoginRequest
  <2>3. CASE Auth2fa(c)
    BY <2>3 DEF Auth2fa, InAuthed, Outside, NoPassword
  <2>4. CASE Authorize(c)
    BY <2>4 DEF Authorize, InAuthed, Outside
  <2>5. CASE SwitchSides(c)
    <3>2. Pruned \in [Key -> [here : BOOLEAN, pw : Nat, tfa : BOOLEAN, fresh : BOOLEAN]]
      BY DEF Pruned, NoSession, NoPassword
    <3>3. ShareAfterPruning \in [Conn -> BOOLEAN]
      BY <3>2 DEF ShareAfterPruning
    <3> QED BY <2>5, <3>2, <3>3 DEF SwitchSides, InAuthed, Outside
  <2>6. CASE Push(c) \/ Prepare(c)
    BY <2>6 DEF Push, Prepare, InAuthed, Outside
  <2>8. CASE Share(c)
    <3>1. sessions[Client[c]].here \in BOOLEAN
      OBVIOUS
    <3>2. pc' \in [Conn -> InAuthed \cup Outside]
      BY <2>8 DEF Share, InAuthed, Outside
    <3> QED BY <2>8, <3>1, <3>2 DEF Share
  <2> HIDE DEF TypeOK
  <2> QED BY <1>1, <2>1, <2>2, <2>3, <2>4, <2>5, <2>6, <2>7, <2>8 DEF Opens
<1>2. ASSUME NEW c \in Conn, Works(c) PROVE TypeOK'
  <2>1. CASE Subscribe(c)
    BY <2>1 DEF Subscribe
  <2>2. CASE ChangeResolution(c)
    BY <2>2 DEF ChangeResolution
  <2>3. CASE Receive(c)
    <3>1. sessions[Client[c]] \in [here : BOOLEAN, pw : Nat, tfa : BOOLEAN, fresh : BOOLEAN]
      OBVIOUS
    <3> QED BY <2>3, <3>1 DEF Receive, LastRecv
  <2> HIDE DEF TypeOK
  <2> QED BY <1>2, <2>1, <2>2, <2>3 DEF Works
<1>3. ASSUME NEW c \in Conn, Closes(c) PROVE TypeOK'
  <2>1. CASE Break(c) \/ LeaveLoop(c)
    BY <2>1 DEF Break, LeaveLoop, InAuthed, Outside
  <2>2. CASE CloseForGood(c) \/ ForwardEnds(c)
    <3>1. CheckRemoveSession(c)
      BY <2>2 DEF CloseForGood, ForwardEnds
    <3>2. sessions' \in [Key -> [here : BOOLEAN, pw : Nat, tfa : BOOLEAN, fresh : BOOLEAN]]
      BY <3>1 DEF CheckRemoveSession, NoSession, NoPassword
    <3>3. share' \in [Conn -> BOOLEAN] /\ ended' \subseteq Key
      BY <3>1 DEF CheckRemoveSession
    <3> QED BY <2>2, <3>2, <3>3 DEF CloseForGood, ForwardEnds, InAuthed, Outside
  <2>3. CASE Rotate(c)
    BY <2>3 DEF Rotate, InAuthed, Outside
  <2>6. CASE RemoveConnection(c)
    <3>1. recording' \in BOOLEAN
      BY <2>6 DEF RemoveConnection, GoOnRecording
    <3> QED BY <2>6, <3>1 DEF RemoveConnection, InAuthed, Outside
  <2>4. CASE Retain(c) \/ Count(c)
    BY <2>4 DEF Retain, Count, InAuthed, Outside
  <2>5. CASE RestoreWallpaper(c) \/ RestoreResolutions(c) \/ ClearResolutions(c)
    BY <2>5 DEF RestoreWallpaper, RestoreResolutions, ClearResolutions, InAuthed, Outside
  <2> HIDE DEF TypeOK
  <2> QED BY <1>3, <2>1, <2>2, <2>3, <2>4, <2>5, <2>6 DEF Closes
<1>4. CASE UpdateTemporaryPassword
  BY <1>4 DEF UpdateTemporaryPassword
<1>5. ASSUME NEW k \in Key, SessionTimeout(k) PROVE TypeOK'
  BY <1>5 DEF SessionTimeout, LastRecv
<1>6. CASE UNCHANGED vars
  BY <1>6 DEF vars
<1> HIDE DEF TypeOK
<1> QED BY <1>1, <1>2, <1>3, <1>4, <1>5, <1>6 DEF Next

(* A step of AuthedConnID::new, of its Drop or between them keeps the      *)
(* places: the variables of a connection are changed by its own task.      *)
LEMMA NextPlaces == TypeOK /\ Places /\ [Next]_vars => Places'
<1> SUFFICES ASSUME TypeOK, Places, [Next]_vars PROVE Places'
  OBVIOUS
<1> USE DEF At, Go, login, table, machine, TypeOK, Places, InAuthed
<1>1. ASSUME NEW c \in Conn, Opens(c) PROVE Places'
  <2>1. CASE Start(c) \/ OnOpenFails(c)
    BY <2>1 DEF Start, OnOpenFails
  <2>2. ASSUME NEW t \in Kind, NEW p \in {Permanent} \cup 0..temp, LoginRequest(c, t, p)
        PROVE Places'
    <3>1. /\ pc[c] = "login"
          /\ \E l \in {"login", "push"} : pc' = [pc EXCEPT ![c] = l]
          /\ kind' = [kind EXCEPT ![c] = t]
          /\ UNCHANGED <<authed, subed>>
      <4>1. pc = [pc EXCEPT ![c] = "login"] \/ pc[c] # "login"
        OBVIOUS
      <4> QED BY <2>2, <4>1 DEF LoginRequest, Logon
    <3> QED BY <3>1
  <2>3. CASE Auth2fa(c) \/ Authorize(c)
    BY <2>3 DEF Auth2fa, Authorize
  <2>4. CASE SwitchSides(c)
    BY <2>4 DEF SwitchSides
  <2>5. CASE Push(c)
    BY <2>5 DEF Push
  <2>6. CASE Share(c)
    BY <2>6 DEF Share
  <2>7. CASE Prepare(c)
    BY <2>7 DEF Prepare
  <2> HIDE DEF Places
  <2> QED BY <1>1, <2>1, <2>2, <2>3, <2>4, <2>5, <2>6, <2>7 DEF Opens
<1>2. ASSUME NEW c \in Conn, Works(c) PROVE Places'
  BY <1>2 DEF Works, Subscribe, ChangeResolution, Receive
<1>3. ASSUME NEW c \in Conn, Closes(c) PROVE Places'
  <2>1. CASE Break(c) \/ LeaveLoop(c) \/ CloseForGood(c) \/ ForwardEnds(c)
    <3>1. /\ \E l \in {"rotate", "remove"} : pc' = [pc EXCEPT ![c] = l]
          /\ UNCHANGED <<authed, kind, subed>>
      BY <2>1 DEF Break, LeaveLoop, CloseForGood, ForwardEnds
    <3> QED BY <3>1
  <2>2. CASE Rotate(c)
    BY <2>2 DEF Rotate
  <2>3. CASE RemoveConnection(c)
    BY <2>3 DEF RemoveConnection
  <2>4. CASE Retain(c)
    BY <2>4 DEF Retain
  <2>5. CASE Count(c)
    BY <2>5 DEF Count
  <2>6. CASE RestoreWallpaper(c) \/ RestoreResolutions(c) \/ ClearResolutions(c)
    BY <2>6 DEF RestoreWallpaper, RestoreResolutions, ClearResolutions
  <2> HIDE DEF Places
  <2> QED BY <1>3, <2>1, <2>2, <2>3, <2>4, <2>5, <2>6 DEF Closes
<1>4. CASE UpdateTemporaryPassword
  BY <1>4 DEF UpdateTemporaryPassword
<1>5. ASSUME NEW k \in Key, SessionTimeout(k) PROVE Places'
  BY <1>5 DEF SessionTimeout
<1>6. CASE UNCHANGED vars
  BY <1>6 DEF vars
<1> HIDE DEF Places
<1> QED BY <1>1, <1>2, <1>3, <1>4, <1>5, <1>6 DEF Next

(* The wallpaper is removed only while a remote connection is authorized,  *)
(* and the last such connection to leave AUTHED_CONNS counts no other.     *)
LEMMA NextRestored ==
  TypeOK /\ Places /\ RestoredAfterLast /\ [Next]_vars => RestoredAfterLast'
<1> SUFFICES ASSUME TypeOK, Places, RestoredAfterLast, [Next]_vars
             PROVE  RestoredAfterLast'
  OBVIOUS
<1> DEFINE Goal == \E d \in Conn : Holder(d)'
<1>0. SUFFICES ASSUME wallpaper' = TRUE PROVE Goal
  <2>1. wallpaper' \in BOOLEAN
    BY NextTypeOK DEF TypeOK
  <2> QED BY <2>1, <1>0, Zenon DEF RestoredAfterLast
<1> USE DEF At, Go, login, table, machine, TypeOK, Places, InAuthed, Holder
<1>1. ASSUME NEW c \in Conn, Opens(c) PROVE Goal
  <2>1. CASE Prepare(c)
    BY <2>1 DEF Prepare
  <2>2. CASE ~Prepare(c)
    <3>1. /\ wallpaper' = wallpaper
          /\ pc[c] \in {"new", "login", "push", "share"}
          /\ pc[c] \in {"push", "share"} => kind' = kind
          /\ authed \subseteq authed'
          /\ \A d \in Conn \ {c} : pc'[d] = pc[d] /\ kind'[d] = kind[d]
      BY <1>1, <2>2 DEF Opens, Start, OnOpenFails, LoginRequest, Logon, Auth2fa, Authorize,
         SwitchSides, Push, Share
    <3>2. PICK d \in Conn : Holder(d)
      BY <1>0, <3>1 DEF RestoredAfterLast
    <3> QED BY <3>1, <3>2
  <2> QED BY <2>1, <2>2
<1>2. ASSUME NEW c \in Conn, Works(c) PROVE Goal
  BY <1>0, <1>2 DEF Works, Subscribe, ChangeResolution, Receive, RestoredAfterLast
<1>3. ASSUME NEW c \in Conn, Closes(c) PROVE Goal
  <2>1. CASE Retain(c)
    <3>1. PICK d \in Conn : Holder(d)
      BY <1>0, <2>1 DEF Retain, RestoredAfterLast
    <3> QED BY <2>1, <3>1 DEF Retain
  <2>2. CASE Count(c)
    <3>1. PICK d \in Conn : Holder(d)
      BY <1>0, <2>2 DEF Count, RestoredAfterLast
    <3>2. CASE RemoteLeft
      BY <2>2, <3>2 DEF Count, RemoteLeft, Remote
    <3>3. CASE ~RemoteLeft
      BY <2>2, <3>1, <3>3 DEF Count
    <3> QED BY <3>2, <3>3
  <2>3. CASE RestoreWallpaper(c)
    BY <1>0, <2>3 DEF RestoreWallpaper
  <2>4. CASE ~Retain(c) /\ ~Count(c) /\ ~RestoreWallpaper(c)
    <3>1. /\ wallpaper' = wallpaper /\ kind' = kind /\ authed' = authed
          /\ pc[c] \notin {"count", "wallpaper"}
          /\ \A d \in Conn \ {c} : pc'[d] = pc[d]
      BY <1>3, <2>4 DEF Closes, Break, CloseForGood, LeaveLoop, InLoop, Rotate, ForwardEnds,
         RemoveConnection, RestoreResolutions, ClearResolutions
    <3>2. PICK d \in Conn : Holder(d)
      BY <1>0, <3>1 DEF RestoredAfterLast
    <3> QED BY <3>1, <3>2
  <2> QED BY <2>1, <2>2, <2>3, <2>4
<1>4. CASE UpdateTemporaryPassword \/ UNCHANGED vars
  BY <1>0, <1>4 DEF UpdateTemporaryPassword, vars, RestoredAfterLast
<1>5. ASSUME NEW k \in Key, SessionTimeout(k) PROVE Goal
  BY <1>0, <1>5 DEF SessionTimeout, RestoredAfterLast
<1> HIDE DEF Holder, TypeOK, Places, login, table, machine
<1> QED BY <1>1, <1>2, <1>3, <1>4, <1>5 DEF Next

(* try_stop_record_cursor_pos finds a subscribed connection in             *)
(* AUTHED_CONNS: it is there before it subscribes and until it has closed. *)
LEMMA NextRecorded ==
  TypeOK /\ Places /\ CursorRecorded /\ [Next]_vars => CursorRecorded'
<1> SUFFICES ASSUME TypeOK, Places, CursorRecorded, [Next]_vars,
                    NEW d \in Conn, subed'[d], pc'[d] = "run"
             PROVE  recording'
  BY DEF CursorRecorded
<1> USE DEF At, Go, login, table, machine, TypeOK, Places, CursorRecorded
<1>1. ASSUME NEW c \in Conn, Opens(c) PROVE recording'
  <2>1. /\ recording' = recording /\ subed' = subed
        /\ pc[c] \in {"new", "login", "push", "share", "prepare"}
        /\ d # c => pc'[d] = pc[d]
    BY <1>1 DEF Opens, Start, OnOpenFails, LoginRequest, Logon, Auth2fa, Authorize,
       SwitchSides, Push, Share, Prepare
  <2> QED BY <2>1
<1>2. ASSUME NEW c \in Conn, Works(c) PROVE recording'
  BY <1>2 DEF Works, Subscribe, ChangeResolution, Receive
<1>3. ASSUME NEW c \in Conn, Closes(c) PROVE recording'
  <2>1. CASE RemoveConnection(c)
    <3>1. d # c /\ pc[d] = "run" /\ subed[d]
      BY <2>1 DEF RemoveConnection
    <3>2. d \in Remote /\ recording
      BY <3>1 DEF Remote
    <3> QED BY <2>1, <3>2 DEF RemoveConnection, GoOnRecording
  <2>2. CASE ~RemoveConnection(c)
    <3>1. /\ recording' = recording /\ subed' = subed
          /\ d # c => pc'[d] = pc[d]
          /\ pc'[c] # "run"
      BY <1>3, <2>2 DEF Closes, Break, CloseForGood, LeaveLoop, Rotate, ForwardEnds, Retain,
         Count, RestoreWallpaper, RestoreResolutions, ClearResolutions
    <3> QED BY <3>1
  <2> QED BY <2>1, <2>2
<1>4. CASE UpdateTemporaryPassword
  BY <1>4 DEF UpdateTemporaryPassword
<1>5. ASSUME NEW k \in Key, SessionTimeout(k) PROVE recording'
  BY <1>5 DEF SessionTimeout
<1>6. CASE UNCHANGED vars
  BY <1>6 DEF vars
<1> HIDE DEF TypeOK, Places, CursorRecorded, login, table, machine
<1> QED BY <1>1, <1>2, <1>3, <1>4, <1>5, <1>6 DEF Next

(* A session appears only in validate_password and set_session_2fa, which  *)
(* are logins; everything else drops sessions or refreshes them.           *)
LEMMA NextEnded ==
  TypeOK /\ EndedStaysEnded /\ [Next]_vars => EndedStaysEnded'
<1> SUFFICES ASSUME TypeOK, EndedStaysEnded, [Next]_vars, NEW k \in ended'
             PROVE  ~sessions'[k].here
  BY DEF EndedStaysEnded
<1> USE SessionAssumption DEF login, table, TypeOK, EndedStaysEnded
<1>1. k \in ended => k \in Key /\ ~sessions[k].here /\ ~Pruned[k].here
  BY DEF Pruned, NoSession
<1>2. ASSUME NEW c \in Conn, Opens(c) PROVE ~sessions'[k].here
  <2>1. ASSUME NEW t \in Kind, NEW p \in {Permanent} \cup 0..temp, LoginRequest(c, t, p)
        PROVE ~sessions'[k].here
    <3>1. k \in ended
      BY <2>1 DEF LoginRequest
    <3>2. sessions' = sessions \/ sessions' = Pruned
          \/ (k # Client[c] /\ sessions' = [Pruned EXCEPT ![Client[c]] = UpdateOrInsert(p)])
      BY <2>1 DEF LoginRequest
    <3>3. Key = DOMAIN Pruned
      BY DEF Pruned
    <3> QED BY <1>1, <3>1, <3>2, <3>3
  <2>2. CASE Auth2fa(c)
    BY <1>1, <2>2 DEF Auth2fa
  <2>3. CASE SwitchSides(c)
    BY <1>1, <2>3 DEF SwitchSides
  <2>4. CASE Start(c) \/ OnOpenFails(c) \/ Authorize(c) \/ Push(c) \/ Share(c) \/ Prepare(c)
    BY <1>1, <2>4 DEF Start, OnOpenFails, Authorize, Push, Share, Prepare
  <2> QED BY <1>2, <2>1, <2>2, <2>3, <2>4 DEF Opens
<1>3. ASSUME NEW c \in Conn, Works(c) PROVE ~sessions'[k].here
  BY <1>1, <1>3 DEF Works, Subscribe, ChangeResolution, Receive, LastRecv
<1>4. ASSUME NEW c \in Conn, Closes(c) PROVE ~sessions'[k].here
  <2>1. CASE CheckRemoveSession(c)
    <3>1. CASE c \in Remote /\ k = Client[c]
      <4>1. kind[c] # None /\ MustRemoveSession(c)
        BY <3>1 DEF Remote, MustRemoveSession, None
      <4> QED BY <2>1, <3>1, <4>1 DEF CheckRemoveSession, NoSession
    <3>2. CASE ~(c \in Remote /\ k = Client[c])
      <4>1. k \in ended
        BY <2>1, <3>2 DEF CheckRemoveSession
      <4> QED BY <1>1, <2>1, <4>1 DEF CheckRemoveSession, NoSession
    <3> QED BY <3>1, <3>2
  <2>2. CASE ~CheckRemoveSession(c)
    <3>1. sessions' = sessions /\ ended' = ended
      BY <1>4, <2>2 DEF Closes, Break, CloseForGood, LeaveLoop, Rotate, ForwardEnds,
         RemoveConnection, Retain, Count, RestoreWallpaper, RestoreResolutions,
         ClearResolutions
    <3> QED BY <1>1, <3>1
  <2> QED BY <2>1, <2>2
<1>5. CASE UpdateTemporaryPassword \/ UNCHANGED vars
  BY <1>1, <1>5 DEF UpdateTemporaryPassword, vars
<1>6. ASSUME NEW j \in Key, SessionTimeout(j) PROVE ~sessions'[k].here
  BY <1>1, <1>6 DEF SessionTimeout, LastRecv
<1> HIDE DEF TypeOK, EndedStaysEnded, login, table
<1> QED BY <1>2, <1>3, <1>4, <1>5, <1>6 DEF Next

(* The inductive invariant holds of every behaviour, for every set of      *)
(* connections and keys.                                                   *)
THEOREM Inductive == Spec => []IInv
<1>1. IInv /\ [Next]_vars => IInv'
  BY NextTypeOK, NextPlaces, NextRestored, NextRecorded, NextEnded DEF IInv
<1> QED BY <1>1, InitIInv, PTL DEF Spec

(* The variables keep their types: no handler leaves the places, kinds and *)
(* sessions the model names.                                               *)
THEOREM TypeCorrect == Spec => []TypeOK
BY Inductive, PTL DEF IInv

(* After the last remote connection of any number the wallpaper is back:   *)
(* Drop of AuthedConnID.                                                   *)
THEOREM WallpaperRestored == Spec => []RestoredAfterLast
BY Inductive, PTL DEF IInv

(* No connection that closes stops the recording of the cursor under a     *)
(* subscribed one: try_stop_record_cursor_pos.                             *)
THEOREM RecordingGoesOn == Spec => []CursorRecorded
BY Inductive, PTL DEF IInv

(* A session ended for good stays so until the next login with its key:    *)
(* check_remove_session.                                                   *)
THEOREM SessionStaysEnded == Spec => []EndedStaysEnded
BY Inductive, PTL DEF IInv
=============================================================================

------------------------------ MODULE VideoQos ------------------------------
(***************************************************************************)
(* The quality of service of the video streams (src/server/video_qos.rs):  *)
(* the frame rate and the bitrate ratio all video services share, driven   *)
(* by the network delay and the wishes of every connection and by a tick   *)
(* of every running encoder.  VIDEO_QOS is behind one mutex, so an action  *)
(* is one acquisition of it by a connection (src/server/connection.rs) or  *)
(* by the thread of a video service (src/server/video_service.rs).         *)
(* Ratios are in percent.  The average delay of a connection, net of its   *)
(* round trip time, is an input.                                           *)
(***************************************************************************)
EXTENDS Integers, Sequences, FiniteSetsExt

CONSTANT Hosts  \* the hosts considered, see VideoQosAssumption

VARIABLE host   \* the one this is

FPS == host.FPS                \* the usual frame rate, 30 in the code
INIT_FPS == host.INIT_FPS      \* the rate of a new connection, 15 in the code
Conn == host.Conn              \* connection ids
Svc == host.Svc                \* names of video services
AvgDelay == host.AvgDelay      \* values avg_delay may take, in ms
Fps == host.Fps                \* frame rates a client may ask for
Image == host.Image            \* image qualities a client may ask for
Abr == host.Abr                \* values of the option enable-abr
Bitrate == host.Bitrate        \* bitrates an encoder may report, in kbps
Changeable == host.Changeable  \* whether an encoder supports changing the quality
Record == host.Record          \* recording states a client may report
Linux == host.Linux            \* cfg!(target_os = "linux")

MIN_FPS == 1
MAX_FPS == 120
BR_MAX == 4000
BR_MIN == 20
BR_MIN_HIGH_RESOLUTION == 10
BR_BEST == 150
BR_BALANCED == 67
BR_SPEED == 50
DELAY_THRESHOLD_150MS == 150

(* The image quality of a client: a level, or its own ratio in percent.    *)
Best == -1
Balanced == -2
Low == -3
NotSet == -4
Level == {Best, Balanced, Low}

ASSUME VideoQosAssumption ==
  \A h \in Hosts :
    /\ h.FPS \in MIN_FPS..MAX_FPS /\ h.INIT_FPS \in MIN_FPS..h.FPS
    /\ h.AvgDelay \subseteq Nat /\ h.AvgDelay # {}
    /\ h.Fps \subseteq Nat
    /\ h.Image \subseteq Level \cup 0..8190
    /\ h.Abr \subseteq BOOLEAN /\ h.Abr # {}
    /\ h.Bitrate \subseteq Nat /\ h.Bitrate # {}
    /\ h.Changeable \subseteq BOOLEAN /\ h.Changeable # {}
    /\ h.Record \subseteq BOOLEAN
    /\ h.Linux \in BOOLEAN

VARIABLES
  fps, ratio,    \* of VideoQoS
  open,          \* keys of VideoQoS::users
  users,         \* VideoQoS::users, the default where there is no entry
  latest,        \* users in the order of their last choice of a quality
  displays,      \* VideoQoS::displays: a partial function of Svc
  bitrate,       \* bitrate_store
  due,           \* adjust_ratio_instant is three seconds ago
  abr,           \* abr_config
  fresh,         \* new_user_instant is less than a second ago
  conn,          \* a connection's life
  pending,       \* last_test_delay: a TestDelay of it is unanswered
  subs,          \* subscribers of a video service
  pc,            \* where the thread of a service is
  encoder        \* what `run` knows: record, ratio, support of changes

vars == <<host, fps, ratio, open, users, latest, displays, bitrate, due, abr, fresh,
          conn, pending, subs, pc, encoder>>
qos == <<fps, ratio, open, users, latest, displays, bitrate, due, abr, fresh>>
net == <<conn, pending>>
service == <<subs, pc, encoder>>

(* UserData::default(); 0 stands for None in the three rates, and the      *)
(* average delay without history is the threshold.                         *)
DefaultUser ==
  [custom |-> 0, auto |-> 0, quality |-> NotSet, record |-> FALSE,
   avg |-> DELAY_THRESHOLD_150MS, delayed |-> FALSE, fps |-> 0, quick |-> 0, inc |-> 0]

DefaultDisplay == [busy |-> FALSE, changeable |-> FALSE]

Clamp(x, lo, hi) == IF x < lo THEN lo ELSE IF x > hi THEN hi ELSE x
AtMost(x, y) == IF x > y THEN y ELSE x
AtLeast(x, y) == IF x < y THEN y ELSE x

(* mutant: a quality of the client's own is not limited *)
ConvertUnlimited(q) == q

(* convert_quality *)
ConvertQuality(q) == IF q \in Level THEN q ELSE Clamp(q, BR_MIN, BR_MAX)

Init ==
  /\ host \in Hosts
  /\ fps = FPS /\ ratio = BR_BALANCED
  /\ open = {} /\ users = [c \in Conn |-> DefaultUser] /\ latest = <<>>
  /\ displays = <<>>
  /\ bitrate = 0
  /\ due = FALSE /\ abr = TRUE /\ fresh = TRUE
  /\ conn = [c \in Conn |-> "new"]
  /\ pending = [c \in Conn |-> FALSE]
  /\ subs = [s \in Svc |-> {}]
  /\ pc = [s \in Svc |-> "off"]
  /\ encoder = [s \in Svc |-> [record |-> FALSE, ratio |-> BR_BALANCED,
                               changeable |-> FALSE]]

(***************************************************************************)
(* What is computed from the users and the displays.                       *)
(***************************************************************************)
(* The rate one user allows, in highest_fps.                               *)
UserFps(u) ==
  LET wish == IF u.custom = 0 THEN FPS ELSE u.custom
  IN IF u.auto # 0 THEN AtMost(wish, u.auto) ELSE wish

(* highest_fps *)
HighestFps(us, O) ==
  Clamp(IF O = {} THEN FPS ELSE Min({UserFps(us[c]) : c \in O}), MIN_FPS, MAX_FPS)

(* The users that chose a quality, but for c; each is there once.          *)
Without(order, c) ==
  IF \E i \in DOMAIN order : order[i] = c
    THEN LET k == CHOOSE i \in DOMAIN order : order[i] = c
         IN [i \in 1..(Len(order) - 1) |-> IF i < k THEN order[i] ELSE order[i + 1]]
    ELSE order

(* latest_quality *)
LatestQuality(us, order) ==
  IF order = <<>> THEN Balanced ELSE us[order[Len(order)]].quality

RatioOf(q) ==
  IF q = Best THEN BR_BEST
  ELSE IF q = Balanced THEN BR_BALANCED
  ELSE IF q = Low THEN BR_SPEED ELSE q

(* in_vbr_state *)
InVbrState(ds, config) == config /\ \A s \in DOMAIN ds : ds[s].changeable

(* mutant: a response that is late is forgotten *)
AdjustUndelayed(us, O, new) ==
  LET lowest == IF O = {} THEN INIT_FPS
                ELSE Min({IF us[c].fps = 0 THEN INIT_FPS ELSE us[c].fps : c \in O})
  IN Clamp(IF new THEN AtMost(lowest, INIT_FPS) ELSE lowest, MIN_FPS, HighestFps(us, O))

(* adjust_fps *)
AdjustFps(us, O, new) ==
  LET lowest == IF O = {} THEN INIT_FPS
                ELSE Min({IF us[c].fps = 0 THEN INIT_FPS ELSE us[c].fps : c \in O})
      calm   == IF \E c \in O : us[c].delayed THEN AtMost(lowest, MIN_FPS + 1) ELSE lowest
      gentle == IF new THEN AtMost(calm, INIT_FPS) ELSE calm
  IN Clamp(gentle, MIN_FPS, HighestFps(us, O))

(* The limits of the ratio in adjust_ratio.                                *)
Ratio1Mbps(rate) == AtLeast((ratio * 1000) \div rate, BR_MIN_HIGH_RESOLUTION)
AtMost1Mbps(x, rate) == IF rate > 0 THEN AtMost(x, Ratio1Mbps(rate)) ELSE x
MinRatio(q, rate) ==
  IF q = Best THEN AtLeast(AtMost1Mbps((BR_BEST * 10) \div 25, rate), BR_MIN)
  ELSE IF q = Balanced
    THEN AtLeast(AtMost1Mbps(AtMost(BR_BALANCED \div 2, 40), rate), BR_MIN_HIGH_RESOLUTION)
  ELSE BR_MIN_HIGH_RESOLUTION

MaxDelay(us) == Max({us[c].avg : c \in open})

(* The percentage the ratio is multiplied by.                              *)
Factor(delay, dynamic) ==
  IF delay < DELAY_THRESHOLD_150MS
    THEN IF ~dynamic THEN 100
         ELSE IF delay < 50 THEN 115 ELSE IF delay < 100 THEN 110 ELSE 105
  ELSE IF delay < 200 THEN 95
  ELSE IF delay < 300 THEN 90
  ELSE IF delay < 500 THEN 85 ELSE 80

(* adjust_ratio, when there is a user.                                     *)
AdjustRatio(us, dynamic, rate) ==
  LET q    == LatestQuality(us, latest)
      next == (ratio * Factor(MaxDelay(us), dynamic)) \div 100
      more == ((rate + 150) * ratio) \div rate
      slow == IF rate > 0 /\ ratio >= BR_SPEED /\ next > more /\ more > ratio
                THEN more ELSE next
  IN Clamp(slow, MinRatio(q, rate), RatioOf(q))

(* The rates user_network_delay aims at in a bad and in a good network.    *)
MinFps(target) == IF target >= BR_BEST THEN 8 ELSE IF target >= BR_BALANCED THEN 10 ELSE 12
NormalFps(target) == 2 * MinFps(target)

(* What is added below 50 ms: more after three such samples.               *)
QuickStep(u, target) ==
  IF u.quick + 1 >= 3 THEN 5 ELSE IF fps < NormalFps(target) THEN 1 ELSE 0

(* mutant: the minimum is taken for the rate *)
FallToMinimum(avg, u, target) == MinFps(target)

(* The rate by the average delay, from the rate of all users.              *)
FpsByDelay(avg, u, target) ==
  LET min    == MinFps(target)
      divide == (fps * DELAY_THRESHOLD_150MS + avg - 1) \div avg
      product == (DELAY_THRESHOLD_150MS * min) \div avg
  IN IF avg < 50 THEN AtLeast(fps + QuickStep(u, target), min)
     ELSE IF avg < 100
       THEN AtLeast(fps + (IF avg < u.avg /\ fps < NormalFps(target) THEN 1 ELSE 0), min)
     ELSE IF avg < DELAY_THRESHOLD_150MS THEN AtLeast(fps, min)
     ELSE IF avg < 200 THEN AtLeast(divide, min)
     ELSE IF avg < 300 THEN AtMost(divide, min)
     ELSE IF avg < 600 THEN product ELSE AtMost(divide, product)

(* Three samples below the threshold in a row.                             *)
Steady(avg, u) == avg < DELAY_THRESHOLD_150MS /\ u.inc + 1 >= 3

(* The user's part of user_network_delay.                                  *)
NetworkDelay(u, sample) ==
  LET avg    == AtLeast(sample, 10)
      target == RatioOf(LatestQuality(users, latest))
      rate   == FpsByDelay(avg, u, target) + (IF Steady(avg, u) THEN 1 ELSE 0)
  IN [u EXCEPT
        !.avg = sample,
        !.quick = IF avg >= 50 THEN (IF avg > 50 THEN 0 ELSE @)
                  ELSE IF @ + 1 >= 3 THEN 0 ELSE @ + 1,
        !.inc = IF avg < DELAY_THRESHOLD_150MS /\ ~Steady(avg, u) THEN @ + 1 ELSE 0,
        !.fps = Clamp(rate, MIN_FPS, HighestFps(users, open))]

(***************************************************************************)
(* The connections.                                                        *)
(***************************************************************************)
(* AuthedConnID::new, on_connection_open *)
OnConnectionOpen(c) ==
  /\ conn[c] = "new"
  /\ conn' = [conn EXCEPT ![c] = "open"]
  /\ open' = open \cup {c}
  /\ abr' \in Abr
  /\ fresh' = TRUE
  /\ UNCHANGED <<fps, ratio, users, latest, displays, bitrate, due, pending, service>>

Subscribe(c, s) ==
  /\ conn[c] = "open"
  /\ subs' = [subs EXCEPT ![s] = @ \cup {c}]
  /\ UNCHANGED <<qos, net, pc, encoder>>

(* The connection's loop is left and the services forget it...             *)
RemoveConnection(c) ==
  /\ conn[c] = "open"
  /\ conn' = [conn EXCEPT ![c] = "removed"]
  /\ subs' = [s \in Svc |-> subs[s] \ {c}]
  /\ UNCHANGED <<qos, pending, pc, encoder>>

(* ... then AuthedConnID is dropped: on_connection_close.  Everything is   *)
(* reset when the last user leaves.                                        *)
OnConnectionClose(c) ==
  /\ conn[c] = "removed"
  /\ conn' = [conn EXCEPT ![c] = "closed"]
  /\ open' = open \ {c}
  /\ users' = [users EXCEPT ![c] = DefaultUser]
  /\ latest' = Without(latest, c)
  /\ IF open = {c}
       THEN /\ fps' = FPS /\ ratio' = BR_BALANCED /\ displays' = <<>> /\ bitrate' = 0
            /\ due' = FALSE /\ abr' = TRUE /\ fresh' = TRUE
       ELSE UNCHANGED <<fps, ratio, displays, bitrate, due, abr, fresh>>
  /\ UNCHANGED <<pending, service>>

(* user_custom_fps and user_auto_adjust_fps *)
UserFpsWish(c, k, field) ==
  /\ conn[c] = "open"
  /\ MIN_FPS <= k /\ k <= MAX_FPS
  /\ users' = [users EXCEPT ![c] = IF field = "custom" THEN [@ EXCEPT !.custom = k]
                                   ELSE [@ EXCEPT !.auto = k]]
  /\ UNCHANGED <<fps, ratio, open, latest, displays, bitrate, due, abr, fresh, net,
                 service>>

(* user_image_quality: the ratio follows at once.                          *)
UserImageQuality(c, q) ==
  /\ conn[c] = "open"
  /\ users' = [users EXCEPT ![c].quality = ConvertQuality(q)]
  /\ latest' = Append(Without(latest, c), c)
  /\ ratio' = RatioOf(LatestQuality(users', latest'))
  /\ UNCHANGED <<fps, open, displays, bitrate, due, abr, fresh, net, service>>

UserRecord(c, v) ==
  /\ conn[c] = "open"
  /\ users' = [users EXCEPT ![c].record = v]
  /\ UNCHANGED <<fps, ratio, open, latest, displays, bitrate, due, abr, fresh, net,
                 service>>

(* A TestDelay is answered.  Before the login there is no user to look up. *)
UserNetworkDelay(c, sample) ==
  LET first == c \in open /\ users[c].fps = 0 /\ ~Linux /\ InVbrState(displays, abr) IN
  /\ conn[c] \in {"new", "open"}
  /\ pending[c]
  /\ pending' = [pending EXCEPT ![c] = FALSE]
  /\ users' = IF c \in open THEN [users EXCEPT ![c] = NetworkDelay(@, sample)] ELSE users
  /\ fps' = AdjustFps(users', open, fresh)
  /\ ratio' = IF first THEN AdjustRatio(users', FALSE, bitrate) ELSE ratio
  /\ due' = (due /\ ~first)
  /\ UNCHANGED <<open, latest, displays, bitrate, abr, fresh, conn, service>>

(* The timer of the connection: a TestDelay is sent if none is out, and    *)
(* the time the one that is out has taken so far is reported.              *)
TestDelayTimer(c) ==
  /\ conn[c] \in {"new", "open"}
  /\ ~pending[c]
  /\ pending' = [pending EXCEPT ![c] = TRUE]
  /\ users' = [users EXCEPT ![c].delayed = FALSE]
  /\ UNCHANGED <<fps, ratio, open, latest, displays, bitrate, due, abr, fresh, conn,
                 service>>

(* More than two seconds: the delay counts as a sample.                    *)
ResponseElapsed(c, sample) ==
  /\ conn[c] = "open"
  /\ pending[c]
  /\ users' = [users EXCEPT ![c] = [@ EXCEPT !.delayed = TRUE, !.avg = sample]]
  /\ fps' = AdjustFps(users', open, fresh)
  /\ UNCHANGED <<ratio, open, latest, displays, bitrate, due, abr, fresh, net, service>>

(***************************************************************************)
(* The thread of a video service.                                          *)
(***************************************************************************)
Recording == \E c \in open : users[c].record

(* `run` is called back: Raii::new, new_display *)
NewDisplay(s) ==
  /\ pc[s] = "off"
  /\ subs[s] # {}
  /\ displays' = [t \in DOMAIN displays \cup {s} |->
                    IF t = s THEN DefaultDisplay ELSE displays[t]]
  /\ pc' = [pc EXCEPT ![s] = "start"]
  /\ UNCHANGED <<fps, ratio, open, users, latest, bitrate, due, abr, fresh, net, subs,
                 encoder>>

(* The encoder is set up with what VIDEO_QOS says now.                     *)
ReadQos(s) ==
  /\ pc[s] = "start"
  /\ \E ok \in Changeable :
       encoder' = [encoder EXCEPT ![s] =
                     [record |-> Recording, ratio |-> ratio, changeable |-> ok]]
  /\ pc' = [pc EXCEPT ![s] = "setup"]
  /\ UNCHANGED <<qos, net, subs>>

(* store_bitrate and set_support_changing_quality, which looks s up.       *)
EncoderReady(s) ==
  /\ pc[s] = "setup"
  /\ bitrate' \in Bitrate
  /\ displays' = [t \in DOMAIN displays |->
                    IF t = s THEN [displays[t] EXCEPT !.changeable = encoder[s].changeable]
                    ELSE displays[t]]
  /\ pc' = [pc EXCEPT ![s] = "run"]
  /\ UNCHANGED <<fps, ratio, open, users, latest, due, abr, fresh, net, subs, encoder>>

(* `run` returns: Raii::drop, remove_display *)
RemoveDisplay(s) ==
  /\ pc' = [pc EXCEPT ![s] = "off"]
  /\ displays' = [t \in DOMAIN displays \ {s} |-> displays[t]]

RunEnds(s) ==
  /\ pc[s] # "off"
  /\ RemoveDisplay(s)
  /\ UNCHANGED <<fps, ratio, open, users, latest, bitrate, due, abr, fresh, net, subs,
                 encoder>>

(* mutant: a client that starts to record does not restart the encoder *)
SwitchForQuality(s) ==
  /\ encoder[s].ratio # ratio /\ ~encoder[s].changeable
  /\ ~InVbrState(displays, abr) /\ LatestQuality(users, latest) \in Level

(* check_qos bails out: the quality or the recording needs a new encoder.  *)
SwitchForQos(s) ==
  \/ /\ encoder[s].ratio # ratio /\ ~encoder[s].changeable
     /\ ~InVbrState(displays, abr) /\ LatestQuality(users, latest) \in Level
  \/ encoder[s].record # Recording

(* update_display_data, for the frames of the last second.                 *)
UpdateDisplayData(s) ==
  \E many \in BOOLEAN :
    LET ds == [t \in DOMAIN displays |->
                 IF t = s THEN [displays[t] EXCEPT !.busy = @ \/ many] ELSE displays[t]]
        vbr == InVbrState(ds, abr)
        adjust == vbr /\ due
    IN
    /\ fps' = AdjustFps(users, open, fresh)
    /\ displays' = IF adjust THEN [t \in DOMAIN ds |-> [ds[t] EXCEPT !.busy = FALSE]] ELSE ds
    /\ ratio' = IF ~vbr THEN RatioOf(LatestQuality(users, latest))
                ELSE IF ~due \/ open = {} THEN ratio
                ELSE AdjustRatio(users, \E t \in DOMAIN ds : ds[t].busy, bitrate')
    /\ due' = (due /\ ~(adjust /\ open # {}))

(* check_qos, at the top of the loop *)
CheckQos(s) ==
  /\ pc[s] = "run"
  /\ subs[s] # {}
  /\ bitrate' \in IF encoder[s].ratio # ratio /\ encoder[s].changeable
                    THEN Bitrate ELSE {bitrate}
  /\ encoder' = [encoder EXCEPT ![s].ratio = ratio]
  /\ \/ SwitchForQos(s) /\ RemoveDisplay(s) /\ UNCHANGED <<fps, ratio, due>>
     \/ ~SwitchForQos(s) /\ UpdateDisplayData(s) /\ UNCHANGED pc
     \/ ~SwitchForQos(s) /\ UNCHANGED <<pc, fps, ratio, displays, due>>
  /\ UNCHANGED <<open, users, latest, abr, fresh, net, subs>>

(***************************************************************************)
(* Time.                                                                   *)
(***************************************************************************)
AdjustRatioInterval ==
  /\ ~due /\ due' = TRUE
  /\ UNCHANGED <<fps, ratio, open, users, latest, displays, bitrate, abr, fresh, net, service>>

NewUserSecond ==
  /\ fresh /\ fresh' = FALSE
  /\ UNCHANGED <<fps, ratio, open, users, latest, displays, bitrate, due, abr, net, service>>

Thread(s) ==
  \/ NewDisplay(s)
  \/ ReadQos(s)
  \/ EncoderReady(s)
  \/ RunEnds(s)
  \/ CheckQos(s)

Answer(c) == \E sample \in AvgDelay : UserNetworkDelay(c, sample)

Next ==
  /\ UNCHANGED host
  /\ \/ \E c \in Conn : OnConnectionOpen(c) \/ RemoveConnection(c) \/ OnConnectionClose(c)
     \/ \E c \in Conn, s \in Svc : Subscribe(c, s)
     \/ \E c \in Conn, k \in Fps, field \in {"custom", "auto"} : UserFpsWish(c, k, field)
     \/ \E c \in Conn, q \in Image : UserImageQuality(c, q)
     \/ \E c \in Conn, v \in Record : UserRecord(c, v)
     \/ \E c \in Conn : Answer(c) \/ TestDelayTimer(c)
     \/ \E c \in Conn, sample \in AvgDelay : ResponseElapsed(c, sample)
     \/ \E s \in Svc : Thread(s)
     \/ AdjustRatioInterval
     \/ NewUserSecond

Spec == Init /\ [][Next]_vars

(***************************************************************************)
(* Fairness: the timer of a connection ticks, its client answers, service  *)
(* threads run and stop when nobody is subscribed, a second passes, a      *)
(* connection that is removed is dropped.                                  *)
(***************************************************************************)
AllConn == UNION {h.Conn : h \in Hosts}
AllSvc == UNION {h.Svc : h \in Hosts}
Of(c, A) == c \in Conn /\ A /\ UNCHANGED host
OfSvc(s, A) == s \in Svc /\ A /\ UNCHANGED host

Fairness ==
  /\ \A c \in AllConn :
       WF_vars(Of(c, TestDelayTimer(c) \/ Answer(c) \/ OnConnectionClose(c)))
  /\ \A s \in AllSvc :
       WF_vars(OfSvc(s, \/ NewDisplay(s) \/ ReadQos(s) \/ EncoderReady(s) \/ CheckQos(s)
                        \/ RunEnds(s) /\ subs[s] = {}))
  /\ WF_vars(NewUserSecond /\ UNCHANGED host)

FairSpec == Spec /\ Fairness

(***************************************************************************)
(* Properties.                                                             *)
(***************************************************************************)
(* The rate handed to the encoders never leaves its limits.                *)
RateInLimits == fps \in MIN_FPS..MAX_FPS

(* While a response of any connection is late, the rate of all is at most  *)
(* two frames a second, whatever the others report in the meantime.        *)
DelayedThrottles == (\E c \in open : users[c].delayed) => fps <= MIN_FPS + 1

(* The limits adjust_ratio clamps to are in order, for every quality and   *)
(* bitrate: f32::clamp panics, with the mutex held, if they are not.       *)
ClampSafe ==
  LET q == LatestQuality(users, latest) IN MinRatio(q, bitrate) <= RatioOf(q)

(* When the clients' recording state has settled, every running encoder    *)
(* has been set up for it.                                                 *)
RecordFollows ==
  <>[][Recording' = Recording]_vars
    => <>[](\A s \in Svc : pc[s] = "run" => encoder[s].record = Recording)

(* One connection is left, and its delay is below the threshold.           *)
Calm ==
  \E c \in Conn :
    open = {c} /\ users[c].avg < DELAY_THRESHOLD_150MS /\ ~users[c].delayed

(* "When network delay < DELAY_THRESHOLD_150MS, set minimum fps according  *)
(* to image quality, and increase fps": when one connection is left and    *)
(* its delay stays below the threshold, the rate rises to the highest it   *)
(* allows, whatever delays it and others had before.                       *)
Recovers == <>[]Calm => <>[](fps = HighestFps(users, open))
=============================================================================

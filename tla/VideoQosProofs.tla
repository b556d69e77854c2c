--------------------------- MODULE VideoQosProofs ---------------------------
(***************************************************************************)
(* Proofs about VideoQos: for any set of connections and services, any     *)
(* delays, rates and qualities the clients ask for, the frame rate stays   *)
(* within its limits, a late response keeps it down until it has come, and *)
(* the limits of the ratio are in order.                                   *)
(***************************************************************************)
EXTENDS VideoQos, WellFoundedInduction, TLAPS

(***************************************************************************)
(* The smallest of any numbers.                                            *)
(***************************************************************************)
LEMMA MinOfNats ==
  ASSUME NEW S \in SUBSET Nat, S # {}
  PROVE  Min(S) \in S /\ \A x \in S : Min(S) <= x
<1> DEFINE R == {ss \in Nat \X Nat : ss[1] < ss[2]}
<1>1. IsWellFoundedOn(R, Nat)
  BY NatLessThanWellFounded, Zenon DEF OpToRel
<1>2. PICK m \in S : \A y \in S : m <= y
  <2>1. PICK m \in S : \A y \in S : ~(<<y, m>> \in R)
    <3> HIDE DEF R
    <3>1. QED BY <1>1, WFMin, Zenon
  <2>2. ASSUME NEW y \in S PROVE m <= y
    <3>1. y \in Nat /\ m \in Nat
      OBVIOUS
    <3>2. y < m => <<y, m>> \in R
      BY <3>1
    <3>3. ~(y < m)
      BY <2>1, <3>2
    <3>4. QED BY <3>1, <3>3
  <2>3. QED BY <2>2
<1>3. \E x \in S : \A y \in S : x <= y
  BY <1>2, Zenon
<1>4. QED BY <1>3, Zenon DEF Min

(***************************************************************************)
(* The rates adjust_fps computes.                                          *)
(***************************************************************************)
User ==
  [custom : Nat, auto : Nat, quality : Int, record : BOOLEAN, avg : Nat,
   delayed : BOOLEAN, fps : Nat, quick : Nat, inc : Nat]

LEMMA HostTypes ==
  ASSUME host \in Hosts
  PROVE  /\ FPS \in 1..120 /\ INIT_FPS \in 1..120
         /\ Fps \subseteq Nat /\ AvgDelay \subseteq Nat /\ Record \subseteq BOOLEAN
         /\ Image \subseteq Int
<1>1. FPS \in 1..120 /\ INIT_FPS \in 1..120
  BY VideoQosAssumption DEF FPS, INIT_FPS, MIN_FPS, MAX_FPS
<1>2. Fps \subseteq Nat /\ AvgDelay \subseteq Nat /\ Record \subseteq BOOLEAN
  BY VideoQosAssumption DEF Fps, AvgDelay, Record
<1>3. Image \subseteq Int
  <2>1. Image \subseteq Level \cup 0..8190
    BY VideoQosAssumption DEF Image
  <2>2. Level \cup 0..8190 \subseteq Int
    BY DEF Level, Best, Balanced, Low
  <2>3. QED BY <2>1, <2>2
<1>4. QED BY <1>1, <1>2, <1>3

LEMMA HighestFpsType ==
  ASSUME host \in Hosts, NEW O \in SUBSET Conn, NEW us \in [Conn -> User]
  PROVE  HighestFps(us, O) \in 1..120
<1> DEFINE S == {UserFps(us[c]) : c \in O}
<1>1. ASSUME NEW c \in O PROVE UserFps(us[c]) \in Nat
  <2>1. us[c] \in User
    OBVIOUS
  <2>2. us[c].custom \in Nat /\ us[c].auto \in Nat
    BY <2>1 DEF User
  <2>3. QED BY <2>2, HostTypes DEF UserFps, AtMost
<1>2. CASE O = {}
  BY <1>2, HostTypes DEF HighestFps, Clamp, MIN_FPS, MAX_FPS
<1>3. CASE O # {}
  <2>1. S \in SUBSET Nat /\ S # {}
    BY <1>1, <1>3
  <2>2. Min(S) \in Nat
    <3> HIDE DEF S
    <3>1. QED BY <2>1, MinOfNats
  <2>3. HighestFps(us, O) = Clamp(Min(S), MIN_FPS, MAX_FPS)
    BY <1>3 DEF HighestFps
  <2>4. QED BY <2>2, <2>3 DEF Clamp, MIN_FPS, MAX_FPS
<1>4. QED BY <1>2, <1>3

LEMMA AdjustFpsType ==
  ASSUME host \in Hosts, NEW O \in SUBSET Conn, NEW us \in [Conn -> User], NEW new
  PROVE  /\ AdjustFps(us, O, new) \in 1..120
         /\ (\E c \in O : us[c].delayed) => AdjustFps(us, O, new) <= 2
<1> DEFINE S == {IF us[c].fps = 0 THEN INIT_FPS ELSE us[c].fps : c \in O}
           lowest == IF O = {} THEN INIT_FPS ELSE Min(S)
           calm == IF \E c \in O : us[c].delayed THEN AtMost(lowest, MIN_FPS + 1) ELSE lowest
           gentle == IF new THEN AtMost(calm, INIT_FPS) ELSE calm
<1>1. lowest \in Nat
  <2>1. CASE O = {}
    BY <2>1, HostTypes
  <2>2. CASE O # {}
    <3>1. ASSUME NEW c \in O PROVE us[c].fps \in Nat
      <4>1. us[c] \in User
        OBVIOUS
      <4>2. QED BY <4>1 DEF User
    <3>2. S \in SUBSET Nat /\ S # {}
      BY <2>2, <3>1, HostTypes
    <3>3. Min(S) \in Nat
      <4> HIDE DEF S
      <4>1. QED BY <3>2, MinOfNats
    <3>4. QED BY <2>2, <3>3
  <2>3. QED BY <2>1, <2>2
<1>2. gentle \in Nat /\ ((\E c \in O : us[c].delayed) => gentle <= 2)
  <2> HIDE DEF lowest
  <2>1. calm \in Nat /\ ((\E c \in O : us[c].delayed) => calm <= 2)
    BY <1>1 DEF AtMost, MIN_FPS
  <2> HIDE DEF calm
  <2>2. QED BY <2>1, HostTypes DEF AtMost
<1>3. AdjustFps(us, O, new) = Clamp(gentle, MIN_FPS, HighestFps(us, O))
  BY DEF AdjustFps
<1> HIDE DEF gentle
<1>4. QED BY <1>2, <1>3, HighestFpsType DEF Clamp, MIN_FPS

(***************************************************************************)
(* The inductive invariant.  Connections that are not logged in, or are    *)
(* gone, have no late response: a new user does not bring one along, and   *)
(* whoever has one is among the users adjust_fps looks at.                 *)
(***************************************************************************)
QosInv ==
  /\ host \in Hosts
  /\ users \in [Conn -> User] /\ open \subseteq Conn
  /\ conn \in [Conn -> {"new", "open", "removed", "closed"}]
  /\ RateInLimits
  /\ \A c \in Conn : c \in open <=> conn[c] \in {"open", "removed"}
  /\ \A c \in Conn \ open : ~users[c].delayed
  /\ DelayedThrottles

(* user_network_delay leaves a user with a rate, and does not touch the    *)
(* mark of a late response.                                                *)
LEMMA NetworkDelayType ==
  ASSUME QosInv, NEW u \in User, NEW sample \in AvgDelay
  PROVE  NetworkDelay(u, sample) \in User /\ NetworkDelay(u, sample).delayed = u.delayed
<1> DEFINE avg == AtLeast(sample, 10)
           target == RatioOf(LatestQuality(users, latest))
           rate == FpsByDelay(avg, u, target) + (IF Steady(avg, u) THEN 1 ELSE 0)
           high == HighestFps(users, open)
           quick == IF avg >= 50 THEN (IF avg > 50 THEN 0 ELSE u.quick)
                    ELSE IF u.quick + 1 >= 3 THEN 0 ELSE u.quick + 1
           inc == IF avg < DELAY_THRESHOLD_150MS /\ ~Steady(avg, u) THEN u.inc + 1 ELSE 0
           new == Clamp(rate, MIN_FPS, high)
<1>1. sample \in Nat /\ avg \in Nat /\ avg >= 10 /\ fps \in 1..120
  BY HostTypes DEF QosInv, AtLeast, RateInLimits, MIN_FPS, MAX_FPS
<1>2. MinFps(target) \in Nat /\ NormalFps(target) \in Nat
  BY DEF MinFps, NormalFps
<1>3. u.quick \in Nat /\ u.inc \in Nat /\ u.avg \in Nat
  BY DEF User
<1>4. FpsByDelay(avg, u, target) \in Int
  <2> HIDE DEF avg, target
  <2>1. QuickStep(u, target) \in Nat
    BY <1>1, <1>2, <1>3 DEF QuickStep
  <2>2. /\ (fps * DELAY_THRESHOLD_150MS + avg - 1) \div avg \in Int
        /\ (DELAY_THRESHOLD_150MS * MinFps(target)) \div avg \in Int
    BY <1>1, <1>2 DEF DELAY_THRESHOLD_150MS
  <2>3. QED BY <1>1, <1>2, <2>1, <2>2 DEF FpsByDelay, AtMost, AtLeast
<1>5. rate \in Int
  <2> HIDE DEF avg, target
  <2>1. QED BY <1>4
<1>6. high \in 1..120
  BY HighestFpsType DEF QosInv
<1>7. new \in Nat /\ quick \in Nat /\ inc \in Nat
  <2> HIDE DEF rate, high, avg
  <2>1. new \in Nat
    BY <1>5, <1>6 DEF Clamp, MIN_FPS
  <2>2. QED BY <1>3, <2>1
<1>8. NetworkDelay(u, sample) =
        [u EXCEPT !.avg = sample, !.quick = quick, !.inc = inc, !.fps = new]
  BY DEF NetworkDelay
<1> HIDE DEF quick, inc, new
<1>9. QED BY <1>1, <1>7, <1>8 DEF User

(***************************************************************************)
(* Most steps leave the rate alone; the others take it from adjust_fps, or *)
(* reset it with the last user.                                            *)
(***************************************************************************)
LEMMA SameUsers ==
  ASSUME QosInv, UNCHANGED <<host, users, open, conn>>,
         UNCHANGED fps \/ fps' = AdjustFps(users, open, fresh)
  PROVE  QosInv'
<1>1. /\ AdjustFps(users, open, fresh) \in 1..120
      /\ (\E c \in open : users[c].delayed) => AdjustFps(users, open, fresh) <= 2
  BY AdjustFpsType DEF QosInv
<1>2. Conn' = Conn
  BY DEF Conn
<1>3. QED BY <1>1, <1>2 DEF QosInv, RateInLimits, DelayedThrottles, MIN_FPS, MAX_FPS

(* One user changes; a new mark of a late response comes with a new rate.  *)
LEMMA OneUser ==
  ASSUME QosInv, UNCHANGED <<host, open, conn>>,
         NEW c \in Conn, NEW u \in User, users' = [users EXCEPT ![c] = u],
         \/ u.delayed => users[c].delayed /\ c \in open
         \/ c \in open,
         \/ UNCHANGED fps /\ (u.delayed => users[c].delayed)
         \/ fps' = AdjustFps(users', open, fresh)
  PROVE  QosInv'
<1>1. Conn' = Conn
  BY DEF Conn
<1>2. users' \in [Conn -> User]
  BY DEF QosInv
<1>3. /\ AdjustFps(users', open, fresh) \in 1..120
      /\ (\E d \in open : users'[d].delayed) => AdjustFps(users', open, fresh) <= 2
  BY <1>2, AdjustFpsType DEF QosInv
<1>4. \A d \in Conn \ open : ~users'[d].delayed
  BY <1>2 DEF QosInv
<1>5. RateInLimits' /\ DelayedThrottles'
  <2>1. CASE fps' = AdjustFps(users', open, fresh)
    BY <1>3, <2>1 DEF RateInLimits, DelayedThrottles, MIN_FPS, MAX_FPS
  <2>2. CASE UNCHANGED fps /\ (u.delayed => users[c].delayed)
    BY <2>2 DEF QosInv, RateInLimits, DelayedThrottles
  <2>3. QED BY <2>1, <2>2
<1>6. QED BY <1>1, <1>2, <1>4, <1>5 DEF QosInv

LEMMA QosStep == QosInv /\ [Next]_vars => QosInv'
<1> SUFFICES ASSUME QosInv, [Next]_vars PROVE QosInv' OBVIOUS
<1> USE DEF qos, net, service
<1>1. CASE UNCHANGED vars
  BY <1>1, SameUsers DEF vars
<1>2. ASSUME NEW c \in Conn, OnConnectionOpen(c), UNCHANGED host PROVE QosInv'
  <2>1. Conn' = Conn
    BY <1>2 DEF Conn
  <2>2. c \notin open
    BY <1>2 DEF OnConnectionOpen, QosInv
  <2>3. open' = open \cup {c} /\ conn' = [conn EXCEPT ![c] = "open"] /\ UNCHANGED <<fps, users>>
    BY <1>2 DEF OnConnectionOpen
  <2>4. \A d \in Conn : d \in open' <=> conn'[d] \in {"open", "removed"}
    BY <2>3 DEF QosInv
  <2>5. DelayedThrottles'
    BY <2>2, <2>3 DEF QosInv, DelayedThrottles
  <2>6. QED BY <1>2, <2>1, <2>3, <2>4, <2>5 DEF QosInv, RateInLimits
<1>3. ASSUME NEW c \in Conn, RemoveConnection(c), UNCHANGED host PROVE QosInv'
  <2>1. Conn' = Conn
    BY <1>3 DEF Conn
  <2>2. /\ conn[c] = "open" /\ conn' = [conn EXCEPT ![c] = "removed"]
        /\ UNCHANGED <<fps, users, open>>
    BY <1>3 DEF RemoveConnection
  <2>3. QED BY <1>3, <2>1, <2>2 DEF QosInv, RateInLimits, DelayedThrottles
<1>4. ASSUME NEW c \in Conn, OnConnectionClose(c), UNCHANGED host PROVE QosInv'
  <2>1. Conn' = Conn
    BY <1>4 DEF Conn
  <2>2. /\ conn' = [conn EXCEPT ![c] = "closed"] /\ open' = open \ {c}
        /\ users' = [users EXCEPT ![c] = DefaultUser]
        /\ UNCHANGED fps \/ (open = {c} /\ fps' = FPS)
    BY <1>4 DEF OnConnectionClose
  <2>3. DefaultUser \in User /\ ~DefaultUser.delayed
    BY DEF DefaultUser, User, NotSet, DELAY_THRESHOLD_150MS
  <2>4. users' \in [Conn -> User] /\ \A d \in Conn \ open' : ~users'[d].delayed
    BY <2>2, <2>3 DEF QosInv
  <2>5. RateInLimits' /\ DelayedThrottles'
    <3>1. CASE UNCHANGED fps
      BY <2>2, <3>1 DEF QosInv, RateInLimits, DelayedThrottles
    <3>2. CASE open = {c} /\ fps' = FPS
      <4>1. FPS \in 1..120
        BY HostTypes DEF QosInv
      <4>2. QED BY <2>2, <3>2, <4>1 DEF RateInLimits, DelayedThrottles, MIN_FPS, MAX_FPS
    <3>3. QED BY <2>2, <3>1, <3>2
  <2>6. \A d \in Conn : d \in open' <=> conn'[d] \in {"open", "removed"}
    BY <2>2 DEF QosInv
  <2>7. QED BY <1>4, <2>1, <2>2, <2>4, <2>5, <2>6 DEF QosInv
<1>5. ASSUME NEW c \in Conn, NEW k \in Fps, NEW field \in {"custom", "auto"},
             UserFpsWish(c, k, field), UNCHANGED host
      PROVE  QosInv'
  <2> DEFINE u == IF field = "custom" THEN [users[c] EXCEPT !.custom = k]
                  ELSE [users[c] EXCEPT !.auto = k]
  <2>1. k \in Nat /\ users[c] \in User /\ c \in open
    BY <1>5, HostTypes DEF QosInv, UserFpsWish
  <2>2. u \in User /\ u.delayed = users[c].delayed
    BY <2>1 DEF User
  <2>3. users' = [users EXCEPT ![c] = u] /\ UNCHANGED <<fps, open, conn>>
    BY <1>5 DEF UserFpsWish
  <2> HIDE DEF u
  <2>4. QED BY <1>5, <2>1, <2>2, <2>3, OneUser
<1>6. ASSUME NEW c \in Conn, NEW q \in Image, UserImageQuality(c, q), UNCHANGED host
      PROVE  QosInv'
  <2> DEFINE u == [users[c] EXCEPT !.quality = ConvertQuality(q)]
  <2>1. q \in Int /\ users[c] \in User /\ c \in open
    BY <1>6, HostTypes DEF QosInv, UserImageQuality
  <2>2. ConvertQuality(q) \in Int
    BY <2>1 DEF ConvertQuality, Clamp, BR_MIN, BR_MAX
  <2>3. u \in User /\ u.delayed = users[c].delayed
    BY <2>1, <2>2 DEF User
  <2>4. users' = [users EXCEPT ![c] = u] /\ UNCHANGED <<fps, open, conn>>
    BY <1>6 DEF UserImageQuality
  <2> HIDE DEF u
  <2>5. QED BY <1>6, <2>1, <2>3, <2>4, OneUser
<1>7. ASSUME NEW c \in Conn, NEW v \in Record, UserRecord(c, v), UNCHANGED host
      PROVE  QosInv'
  <2> DEFINE u == [users[c] EXCEPT !.record = v]
  <2>1. v \in BOOLEAN /\ users[c] \in User /\ c \in open
    BY <1>7, HostTypes DEF QosInv, UserRecord
  <2>2. u \in User /\ u.delayed = users[c].delayed
    BY <2>1 DEF User
  <2>3. users' = [users EXCEPT ![c] = u] /\ UNCHANGED <<fps, open, conn>>
    BY <1>7 DEF UserRecord
  <2> HIDE DEF u
  <2>4. QED BY <1>7, <2>1, <2>2, <2>3, OneUser
<1>8. ASSUME NEW c \in Conn, NEW sample \in AvgDelay, UserNetworkDelay(c, sample), UNCHANGED host
      PROVE  QosInv'
  <2>1. UNCHANGED <<open, conn, fresh>> /\ fps' = AdjustFps(users', open, fresh)
    BY <1>8 DEF UserNetworkDelay
  <2>2. CASE c \in open
    <3> DEFINE u == NetworkDelay(users[c], sample)
    <3>1. users' = [users EXCEPT ![c] = u]
      BY <1>8, <2>2 DEF UserNetworkDelay
    <3>2. u \in User
      BY NetworkDelayType DEF QosInv
    <3> HIDE DEF u
    <3>3. QED BY <1>8, <2>1, <2>2, <3>1, <3>2, OneUser
  <2>3. CASE c \notin open
    <3>1. UNCHANGED users
      BY <1>8, <2>3 DEF UserNetworkDelay
    <3>2. fps' = AdjustFps(users, open, fresh)
      BY <2>1, <3>1
    <3>3. QED BY <1>8, <2>1, <3>1, <3>2, SameUsers
  <2>4. QED BY <2>2, <2>3
<1>9. ASSUME NEW c \in Conn, TestDelayTimer(c), UNCHANGED host PROVE QosInv'
  <2> DEFINE u == [users[c] EXCEPT !.delayed = FALSE]
  <2>1. u \in User /\ ~u.delayed
    BY DEF QosInv, User
  <2>2. users' = [users EXCEPT ![c] = u] /\ UNCHANGED <<fps, open, conn>>
    BY <1>9 DEF TestDelayTimer
  <2> HIDE DEF u
  <2>3. QED BY <1>9, <2>1, <2>2, OneUser
<1>10. ASSUME NEW c \in Conn, NEW sample \in AvgDelay, ResponseElapsed(c, sample), UNCHANGED host
       PROVE  QosInv'
  <2> DEFINE u == [users[c] EXCEPT !.delayed = TRUE, !.avg = sample]
  <2>1. sample \in Nat /\ users[c] \in User /\ c \in open
    BY <1>10, HostTypes DEF QosInv, ResponseElapsed
  <2>2. u \in User
    BY <2>1 DEF User
  <2>3. /\ users' = [users EXCEPT ![c] = u] /\ UNCHANGED <<open, conn>>
        /\ fps' = AdjustFps(users', open, fresh)
    BY <1>10 DEF ResponseElapsed
  <2> HIDE DEF u
  <2>4. QED BY <1>10, <2>1, <2>2, <2>3, OneUser
<1>11. ASSUME NEW s \in Svc, Thread(s), UNCHANGED host PROVE QosInv'
  <2>1. UNCHANGED <<users, open, conn>> /\ (UNCHANGED fps \/ fps' = AdjustFps(users, open, fresh))
    BY <1>11 DEF Thread, NewDisplay, ReadQos, EncoderReady, RunEnds, CheckQos, UpdateDisplayData
  <2>2. QED BY <1>11, <2>1, SameUsers
<1>12. ASSUME NEW c \in Conn, NEW s \in Svc, Subscribe(c, s), UNCHANGED host PROVE QosInv'
  BY <1>12, SameUsers DEF Subscribe
<1>13. ASSUME AdjustRatioInterval \/ NewUserSecond, UNCHANGED host PROVE QosInv'
  BY <1>13, SameUsers DEF AdjustRatioInterval, NewUserSecond
<1>14. QED
  BY <1>1, <1>2, <1>3, <1>4, <1>5, <1>6, <1>7, <1>8, <1>9, <1>10, <1>11, <1>12, <1>13
     DEF Next, Answer

(* The invariant holds throughout.                                         *)
THEOREM QosInvariant == Spec => []QosInv
<1>1. Init => QosInv
  <2> SUFFICES ASSUME Init PROVE QosInv OBVIOUS
  <2>1. host \in Hosts /\ fps = FPS /\ open = {}
    BY DEF Init
  <2>2. DefaultUser \in User /\ ~DefaultUser.delayed
    BY DEF DefaultUser, User, NotSet, DELAY_THRESHOLD_150MS
  <2>3. RateInLimits
    BY <2>1, HostTypes DEF RateInLimits, MIN_FPS, MAX_FPS
  <2>4. QED BY <2>1, <2>2, <2>3 DEF Init, QosInv, DelayedThrottles
<1>2. QED BY <1>1, QosStep, PTL DEF Spec

(* The frame rate stays within MIN_FPS and MAX_FPS, whatever the clients   *)
(* ask for and whatever delays are measured.                               *)
THEOREM RateStaysInLimits == Spec => []RateInLimits
<1>1. QosInv => RateInLimits
  BY DEF QosInv
<1>2. QED BY <1>1, QosInvariant, PTL

(* While a TestDelay is late, no other connection's answer, no tick of an  *)
(* encoder and no new user raises the rate above two frames a second.      *)
THEOREM DelayedThrottlesHolds == Spec => []DelayedThrottles
<1>1. QosInv => DelayedThrottles
  BY DEF QosInv
<1>2. QED BY <1>1, QosInvariant, PTL

(***************************************************************************)
(* The limits adjust_ratio clamps to.                                      *)
(***************************************************************************)
(* What convert_quality returns.                                           *)
GoodQuality == Level \cup BR_MIN..BR_MAX

LEMMA Limits ==
  ASSUME NEW q \in GoodQuality, NEW rate \in Nat, ratio \in Nat
  PROVE  MinRatio(q, rate) \in Nat /\ RatioOf(q) \in Nat /\ MinRatio(q, rate) <= RatioOf(q)
<1> USE DEF GoodQuality, Level, Best, Balanced, Low, BR_MIN, BR_MAX, BR_BEST, BR_BALANCED,
            BR_SPEED, BR_MIN_HIGH_RESOLUTION
<1>1. ASSUME NEW x \in Nat PROVE AtMost1Mbps(x, rate) \in Nat /\ AtMost1Mbps(x, rate) <= x
  <2>1. CASE rate = 0
    BY <2>1 DEF AtMost1Mbps
  <2>2. CASE rate > 0
    <3>1. (ratio * 1000) \div rate \in Nat
      BY <2>2
    <3>2. Ratio1Mbps(rate) \in Nat
      BY <3>1 DEF Ratio1Mbps, AtLeast
    <3>. QED BY <2>2, <3>2 DEF AtMost1Mbps, AtMost
  <2>. QED BY <2>1, <2>2
<1>2. CASE q = Best
  <2>1. (150 * 10) \div 25 = 60
    OBVIOUS
  <2>. QED BY <1>1, <1>2, <2>1 DEF MinRatio, RatioOf, AtLeast
<1>3. CASE q = Balanced
  <2>1. AtMost(67 \div 2, 40) = 33
    BY DEF AtMost
  <2>. QED BY <1>1, <1>3, <2>1 DEF MinRatio, RatioOf, AtLeast
<1>4. CASE q = Low \/ q \in 20..4000
  BY <1>4 DEF MinRatio, RatioOf
<1>. QED BY <1>2, <1>3, <1>4

(* For every quality a client can send, every ratio and every bitrate, the *)
(* limits adjust_ratio hands to f32::clamp are in order: convert_quality   *)
(* has put the client's own ratio above the lowest of them.                *)
THEOREM LimitsInOrder ==
  ASSUME NEW q \in Level \cup Nat, NEW rate \in Nat, ratio \in Nat
  PROVE  MinRatio(ConvertQuality(q), rate) <= RatioOf(ConvertQuality(q))
<1>1. ConvertQuality(q) \in GoodQuality
  BY DEF ConvertQuality, GoodQuality, Clamp, Level, Best, Balanced, Low, BR_MIN, BR_MAX
<1>2. QED BY <1>1, Limits

LEMMA FactorType == ASSUME NEW delay, NEW dynamic PROVE Factor(delay, dynamic) \in 80..115
BY DEF Factor

LEMMA NatProduct == ASSUME NEW a \in Nat, NEW b \in Nat PROVE a * b \in Nat
OBVIOUS

LEMMA NatQuotient == ASSUME NEW a \in Nat, NEW b \in Nat, b > 0 PROVE a \div b \in Nat
OBVIOUS

(* adjust_ratio ends with a number, whatever the delays.                   *)
LEMMA AdjustRatioType ==
  ASSUME ratio \in Nat, NEW rate \in Nat, NEW us, NEW dynamic,
         LatestQuality(us, latest) \in GoodQuality
  PROVE  AdjustRatio(us, dynamic, rate) \in Nat
<1> DEFINE q == LatestQuality(us, latest)
           f == Factor(MaxDelay(us), dynamic)
           next == (ratio * f) \div 100
           more == ((rate + 150) * ratio) \div rate
           slow == IF rate > 0 /\ ratio >= BR_SPEED /\ next > more /\ more > ratio
                     THEN more ELSE next
<1>1. f \in Nat
  BY FactorType
<1>2. next \in Nat
  <2> HIDE DEF f
  <2>1. ratio * f \in Nat
    BY <1>1, NatProduct
  <2>2. QED BY <2>1, NatQuotient
<1>3. rate > 0 => more \in Nat
  <2>1. (rate + 150) * ratio \in Nat
    BY NatProduct
  <2>2. QED BY <2>1, NatQuotient
<1>4. slow \in Nat
  <2> HIDE DEF next, more
  <2>1. QED BY <1>2, <1>3
<1>5. MinRatio(q, rate) \in Nat /\ RatioOf(q) \in Nat
  BY Limits
<1>6. AdjustRatio(us, dynamic, rate) = Clamp(slow, MinRatio(q, rate), RatioOf(q))
  BY DEF AdjustRatio
<1> HIDE DEF slow, q
<1>7. QED BY <1>4, <1>5, <1>6 DEF Clamp

(***************************************************************************)
(* The quality the limits are taken for is one convert_quality returned:   *)
(* that of a user who is still there, as a user who leaves is forgotten    *)
(* with its place in the order, which it has once.                         *)
(***************************************************************************)
ClampInv ==
  /\ latest \in Seq(Conn)
  /\ \A i, j \in DOMAIN latest : latest[i] = latest[j] => i = j
  /\ \A i \in DOMAIN latest : users[latest[i]].quality \in GoodQuality
  /\ ratio \in Nat /\ bitrate \in Nat

(* Taking a user out of the order leaves the others, once each.            *)
LEMMA WithoutOne ==
  ASSUME NEW S, NEW s \in Seq(S), NEW c,
         \A i, j \in DOMAIN s : s[i] = s[j] => i = j
  PROVE  /\ Without(s, c) \in Seq(S)
         /\ \A i, j \in DOMAIN Without(s, c) : Without(s, c)[i] = Without(s, c)[j] => i = j
         /\ \A i \in DOMAIN Without(s, c) :
              Without(s, c)[i] # c /\ \E j \in DOMAIN s : Without(s, c)[i] = s[j]
<1>1. CASE \E i \in DOMAIN s : s[i] = c
  <2> DEFINE k == CHOOSE i \in DOMAIN s : s[i] = c
             n == Len(s) - 1
             w == [i \in 1..n |-> IF i < k THEN s[i] ELSE s[i + 1]]
             at(i) == IF i < k THEN i ELSE i + 1
  <2>1. k \in DOMAIN s /\ s[k] = c
    BY <1>1
  <2> HIDE DEF k
  <2>2. Without(s, c) = w
    BY <1>1 DEF Without, k
  <2>3. DOMAIN s = 1..Len(s) /\ Len(s) \in Nat /\ k \in 1..Len(s) /\ n \in Nat
    BY <2>1
  <2>4. ASSUME NEW i \in 1..n PROVE at(i) \in DOMAIN s /\ w[i] = s[at(i)] /\ at(i) # k
    BY <2>3
  <2>5. \A i, j \in 1..n : at(i) = at(j) => i = j
    BY <2>3
  <2> HIDE DEF at
  <2>6. \A i \in 1..n : w[i] \in S
    BY <2>4
  <2>7. DOMAIN w = 1..n
    OBVIOUS
  <2> HIDE DEF w
  <2>8. \A i, j \in 1..n : w[i] = w[j] => i = j
    BY <2>4, <2>5
  <2>9. \A i \in 1..n : w[i] # c /\ \E j \in DOMAIN s : w[i] = s[j]
    BY <2>1, <2>4
  <2>10. w \in Seq(S)
    BY <2>3, <2>6 DEF w
  <2>11. QED BY <2>2, <2>7, <2>8, <2>9, <2>10
<1>2. CASE ~ \E i \in DOMAIN s : s[i] = c
  <2>1. Without(s, c) = s
    BY <1>2 DEF Without
  <2>2. QED BY <1>2, <2>1
<1>3. QED BY <1>1, <1>2

LEMMA ConvertedIsGood ==
  ASSUME host \in Hosts, NEW q \in Image
  PROVE  ConvertQuality(q) \in GoodQuality
<1> DEFINE Asked == 0..8190
<1>1. Image \subseteq Level \cup Asked
  BY VideoQosAssumption DEF Image
<1>2. \A x \in Asked : Clamp(x, BR_MIN, BR_MAX) \in BR_MIN..BR_MAX
  BY DEF Clamp, BR_MIN, BR_MAX
<1> HIDE DEF Asked
<1>3. q \in Level \/ q \in Asked
  BY Zenon, <1>1
<1>4. QED BY Zenon, <1>2, <1>3 DEF ConvertQuality, GoodQuality

LEMMA LatestQualityGood == ClampInv => LatestQuality(users, latest) \in GoodQuality
<1> SUFFICES ASSUME ClampInv PROVE LatestQuality(users, latest) \in GoodQuality OBVIOUS
<1>1. CASE latest = <<>>
  BY <1>1 DEF LatestQuality, GoodQuality, Level
<1>2. CASE latest # <<>>
  <2>1. Len(latest) \in DOMAIN latest
    BY <1>2 DEF ClampInv
  <2>2. QED BY <1>2, <2>1 DEF LatestQuality, ClampInv
<1>3. QED BY <1>1, <1>2

(* The order and the qualities stay: the ratio is what is left to show.    *)
LEMMA SameQualities ==
  ASSUME ClampInv, UNCHANGED <<host, latest>>,
         \A c \in Conn : users'[c].quality = users[c].quality,
         ratio' \in Nat, bitrate' \in Nat
  PROVE  ClampInv'
<1>1. Conn' = Conn
  BY DEF Conn
<1>2. \A i \in DOMAIN latest : latest[i] \in Conn
  BY DEF ClampInv
<1>3. QED BY <1>1, <1>2 DEF ClampInv

LEMMA ClampStep == QosInv /\ ClampInv /\ [Next]_vars => ClampInv'
<1> SUFFICES ASSUME QosInv, ClampInv, [Next]_vars PROVE ClampInv' OBVIOUS
<1> USE DEF qos, net, service
<1>0. ratio \in Nat /\ bitrate \in Nat /\ users \in [Conn -> User]
  BY DEF ClampInv, QosInv
<1>1. CASE UNCHANGED vars
  BY <1>0, <1>1, SameQualities DEF vars
<1>2. ASSUME NEW c \in Conn, UNCHANGED host,
             OnConnectionOpen(c) \/ RemoveConnection(c) \/ TestDelayTimer(c)
      PROVE  ClampInv'
  <2>1. UNCHANGED <<latest, ratio, bitrate>>
    BY <1>2 DEF OnConnectionOpen, RemoveConnection, TestDelayTimer
  <2>2. UNCHANGED users \/ users' = [users EXCEPT ![c].delayed = FALSE]
    BY <1>2 DEF OnConnectionOpen, RemoveConnection, TestDelayTimer
  <2>3. \A d \in Conn : users'[d].quality = users[d].quality
    BY <1>0, <2>2 DEF User
  <2>4. QED BY <1>0, <1>2, <2>1, <2>3, SameQualities
<1>3. ASSUME NEW c \in Conn, OnConnectionClose(c), UNCHANGED host PROVE ClampInv'
  <2>1. /\ latest' = Without(latest, c) /\ users' = [users EXCEPT ![c] = DefaultUser]
        /\ ratio' \in {ratio, BR_BALANCED} /\ bitrate' \in {bitrate, 0}
    BY <1>3 DEF OnConnectionClose
  <2>2. /\ latest' \in Seq(Conn)
        /\ \A i, j \in DOMAIN latest' : latest'[i] = latest'[j] => i = j
        /\ \A i \in DOMAIN latest' :
             latest'[i] # c /\ \E j \in DOMAIN latest : latest'[i] = latest[j]
    BY <2>1, WithoutOne DEF ClampInv
  <2>3. ASSUME NEW i \in DOMAIN latest' PROVE users'[latest'[i]].quality \in GoodQuality
    <3>1. PICK j \in DOMAIN latest : latest'[i] = latest[j]
      BY <2>2
    <3>2. latest'[i] \in Conn /\ latest'[i] # c
      BY <2>2
    <3>3. users'[latest'[i]] = users[latest[j]]
      BY <1>0, <2>1, <3>1, <3>2
    <3>4. QED BY <3>3 DEF ClampInv
  <2>4. ratio' \in Nat /\ bitrate' \in Nat
    BY <1>0, <2>1 DEF BR_BALANCED
  <2>5. Conn' = Conn
    BY <1>3 DEF Conn
  <2>6. QED BY <2>2, <2>3, <2>4, <2>5 DEF ClampInv
<1>4. ASSUME NEW c \in Conn, NEW k \in Fps, NEW field \in {"custom", "auto"},
             UserFpsWish(c, k, field), UNCHANGED host
      PROVE  ClampInv'
  <2>1. /\ UNCHANGED <<latest, ratio, bitrate>>
        /\ users' = [users EXCEPT ![c] = IF field = "custom" THEN [@ EXCEPT !.custom = k]
                                         ELSE [@ EXCEPT !.auto = k]]
    BY <1>4 DEF UserFpsWish
  <2>2. \A d \in Conn : users'[d].quality = users[d].quality
    BY <1>0, <2>1 DEF User
  <2>3. QED BY <1>0, <1>4, <2>1, <2>2, SameQualities
<1>5. ASSUME NEW c \in Conn, NEW q \in Image, UserImageQuality(c, q), UNCHANGED host
      PROVE  ClampInv'
  <2> DEFINE w == Without(latest, c)
  <2>1. /\ users' = [users EXCEPT ![c].quality = ConvertQuality(q)]
        /\ latest' = Append(w, c) /\ UNCHANGED bitrate
        /\ ratio' = RatioOf(LatestQuality(users', latest'))
    BY <1>5 DEF UserImageQuality
  <2>2. /\ w \in Seq(Conn)
        /\ \A i, j \in DOMAIN w : w[i] = w[j] => i = j
        /\ \A i \in DOMAIN w : w[i] # c /\ \E j \in DOMAIN latest : w[i] = latest[j]
    BY WithoutOne DEF ClampInv
  <2> HIDE DEF w
  <2>3. ConvertQuality(q) \in GoodQuality
    BY ConvertedIsGood DEF QosInv
  <2>4. users'[c].quality \in GoodQuality
    BY <1>0, <2>1, <2>3 DEF User
  <2>5. \A i \in DOMAIN w : users'[w[i]].quality \in GoodQuality
    <3> SUFFICES ASSUME NEW i \in DOMAIN w PROVE users'[w[i]].quality \in GoodQuality OBVIOUS
    <3>1. PICK j \in DOMAIN latest : w[i] = latest[j]
      BY <2>2
    <3>2. w[i] \in Conn /\ w[i] # c
      BY <2>2
    <3>3. users'[w[i]] = users[latest[j]]
      BY <1>0, <2>1, <3>1, <3>2
    <3>4. QED BY <3>3 DEF ClampInv
  <2>6. /\ latest' \in Seq(Conn) /\ DOMAIN latest' = 1..(Len(w) + 1) /\ DOMAIN w = 1..Len(w)
        /\ Len(w) \in Nat
        /\ latest'[Len(w) + 1] = c /\ \A i \in DOMAIN w : latest'[i] = w[i]
    BY <2>1, <2>2
  <2>7. \A i, j \in DOMAIN latest' : latest'[i] = latest'[j] => i = j
    BY <2>2, <2>6
  <2>8. \A i \in DOMAIN latest' : users'[latest'[i]].quality \in GoodQuality
    BY <2>4, <2>5, <2>6
  <2>9. LatestQuality(users', latest') \in GoodQuality
    <3>1. Len(latest') \in DOMAIN latest' /\ latest' # <<>>
      BY <2>6
    <3>2. QED BY <2>8, <3>1 DEF LatestQuality
  <2>10. ratio' \in Nat
    BY <1>0, <2>1, <2>9, Limits
  <2>11. Conn' = Conn
    BY <1>5 DEF Conn
  <2>12. QED BY <1>0, <2>1, <2>6, <2>7, <2>8, <2>10, <2>11 DEF ClampInv
<1>6. ASSUME NEW c \in Conn, NEW v \in Record, UserRecord(c, v), UNCHANGED host
      PROVE  ClampInv'
  <2>1. UNCHANGED <<latest, ratio, bitrate>> /\ users' = [users EXCEPT ![c].record = v]
    BY <1>6 DEF UserRecord
  <2>2. \A d \in Conn : users'[d].quality = users[d].quality
    BY <1>0, <2>1 DEF User
  <2>3. QED BY <1>0, <1>6, <2>1, <2>2, SameQualities
<1>7. ASSUME NEW c \in Conn, NEW sample \in AvgDelay, UserNetworkDelay(c, sample), UNCHANGED host
      PROVE  ClampInv'
  <2>1. /\ UNCHANGED <<latest, bitrate>>
        /\ users' = IF c \in open THEN [users EXCEPT ![c] = NetworkDelay(@, sample)] ELSE users
        /\ ratio' = ratio \/ ratio' = AdjustRatio(users', FALSE, bitrate)
    BY <1>7 DEF UserNetworkDelay
  <2>2. \A d \in Conn : users'[d].quality = users[d].quality
    <3>1. NetworkDelay(users[c], sample).quality = users[c].quality
      BY <1>0 DEF NetworkDelay, User
    <3>2. QED BY <1>0, <2>1, <3>1
  <2>3. LatestQuality(users', latest) \in GoodQuality
    <3>1. \A i \in DOMAIN latest : latest[i] \in Conn
      BY DEF ClampInv
    <3>2. LatestQuality(users', latest) = LatestQuality(users, latest)
      <4>1. CASE latest = <<>>
        BY <4>1 DEF LatestQuality
      <4>2. CASE latest # <<>>
        <5>1. Len(latest) \in DOMAIN latest
          BY <4>2 DEF ClampInv
        <5>2. QED BY <2>2, <3>1, <4>2, <5>1 DEF LatestQuality
      <4>3. QED BY <4>1, <4>2
    <3>3. QED BY <3>2, LatestQualityGood
  <2>4. ratio' \in Nat
    BY <1>0, <2>1, <2>3, AdjustRatioType
  <2>5. QED BY <1>0, <1>7, <2>1, <2>2, <2>4, SameQualities
<1>8. ASSUME NEW c \in Conn, NEW sample \in AvgDelay, ResponseElapsed(c, sample), UNCHANGED host
      PROVE  ClampInv'
  <2>1. /\ UNCHANGED <<latest, ratio, bitrate>>
        /\ users' = [users EXCEPT ![c] = [@ EXCEPT !.delayed = TRUE, !.avg = sample]]
    BY <1>8 DEF ResponseElapsed
  <2>2. \A d \in Conn : users'[d].quality = users[d].quality
    BY <1>0, <2>1 DEF User
  <2>3. QED BY <1>0, <1>8, <2>1, <2>2, SameQualities
<1>9. ASSUME NEW s \in Svc, Thread(s), UNCHANGED host PROVE ClampInv'
  <2>1. UNCHANGED <<latest, users>>
    BY <1>9 DEF Thread, NewDisplay, ReadQos, EncoderReady, RunEnds, CheckQos
  <2>2. bitrate' = bitrate \/ bitrate' \in Bitrate
    BY <1>9 DEF Thread, NewDisplay, ReadQos, EncoderReady, RunEnds, CheckQos
  <2>3. bitrate' \in Nat
    <3>1. Bitrate \subseteq Nat
      BY VideoQosAssumption DEF QosInv, Bitrate
    <3>2. QED BY <1>0, <2>2, <3>1
  <2>4. \/ ratio' = ratio
        \/ ratio' = RatioOf(LatestQuality(users, latest))
        \/ \E dynamic \in BOOLEAN : ratio' = AdjustRatio(users, dynamic, bitrate')
    <3>1. CASE NewDisplay(s) \/ ReadQos(s) \/ EncoderReady(s) \/ RunEnds(s)
      BY <3>1 DEF NewDisplay, ReadQos, EncoderReady, RunEnds
    <3>2. CASE CheckQos(s) /\ ~UpdateDisplayData(s)
      BY <3>2 DEF CheckQos
    <3>3. CASE UpdateDisplayData(s)
      BY <3>3 DEF UpdateDisplayData
    <3>4. QED BY <1>9, <3>1, <3>2, <3>3 DEF Thread
  <2>5. LatestQuality(users, latest) \in GoodQuality
    BY LatestQualityGood
  <2>6. ratio' \in Nat
    BY <1>0, <2>3, <2>4, <2>5, AdjustRatioType, Limits
  <2>7. QED BY <1>9, <2>1, <2>3, <2>6, SameQualities
<1>10. ASSUME NEW c \in Conn, NEW s \in Svc, Subscribe(c, s), UNCHANGED host PROVE ClampInv'
  BY <1>0, <1>10, SameQualities DEF Subscribe
<1>11. ASSUME AdjustRatioInterval \/ NewUserSecond, UNCHANGED host PROVE ClampInv'
  BY <1>0, <1>11, SameQualities DEF AdjustRatioInterval, NewUserSecond
<1>12. QED
  BY <1>1, <1>2, <1>3, <1>4, <1>5, <1>6, <1>7, <1>8, <1>9, <1>10, <1>11 DEF Next, Answer

(* At every moment the limits adjust_ratio would hand to f32::clamp are in *)
(* order, for any connections that choose qualities, leave and come back,  *)
(* and any bitrates the encoders report: the mutex is never poisoned by it. *)
THEOREM ClampSafeHolds == Spec => []ClampSafe
<1>1. Init => ClampInv
  BY DEF Init, ClampInv, BR_BALANCED
<1>2. ClampInv => ClampSafe
  <2> SUFFICES ASSUME ClampInv PROVE ClampSafe OBVIOUS
  <2>1. LatestQuality(users, latest) \in GoodQuality
    BY LatestQualityGood
  <2>2. ratio \in Nat /\ bitrate \in Nat
    BY DEF ClampInv
  <2>3. QED BY <2>1, <2>2, Limits DEF ClampSafe
<1>3. QED BY <1>1, <1>2, QosInvariant, ClampStep, PTL DEF Spec
=============================================================================

------------------------- MODULE TimedChannelProofs -------------------------
(***************************************************************************)
(* The channel in time, for every interval, delay, clock skew and range of *)
(* the AVTP timestamp: it sends as module TxPacing says, its timer does    *)
(* not drift, and the time of capture survives its 32 bits.                *)
(***************************************************************************)
EXTENDS TimedChannel, TLAPS

(***************************************************************************)
(* Module TxPacing: a TAS channel whose application passes no transmit     *)
(* times of its own paces its frames, for every interval, lead and         *)
(* schedule of calls.                                                      *)
(***************************************************************************)
\* Frames already handed over leave room before the time s.
RoomBefore(s) == \A i \in 1 .. Len(out) : out[i].at + Interval <= s

\* The inductive invariant: the frame in hand keeps its distance from those
\* handed over, and next_tx_ns from all of them.
PacingInv ==
  /\ TypeOK
  /\ Spacing
  /\ class = "TAS" /\ ~timed =>
       /\ RoomBefore(next_tx)
       /\ pc # "sleep"
       /\ pc = "send" => RoomBefore(txtime) /\ txtime + Interval <= next_tx

\* Times stay natural numbers, whatever the class of the channel and the calls.
THEOREM TypeCorrect == Spec => []TypeOK
<1> USE PacingAssumption DEF TypeOK, None
<1>1. Init => TypeOK
  BY DEF Init
<1>2. TypeOK /\ [Next]_vars => TypeOK'
  <2> SUFFICES ASSUME TypeOK, [Next]_vars PROVE TypeOK'
    OBVIOUS
  <2>1. CASE tick
    BY <2>1 DEF tick
  <2>2. ASSUME NEW tx \in Nat, send(tx) PROVE TypeOK'
    BY <2>2 DEF send, _tas_send_at, _cbs_send_at, tas_txtime, Larger
  <2>3. CASE chan_send_now
    BY <2>2, <2>3 DEF chan_send_now
  <2>4. CASE \E tx \in Start .. MaxTime : chan_send(tx)
    BY <2>2, <2>4 DEF chan_send
  <2>5. CASE clock_nanosleep
    BY <2>5 DEF clock_nanosleep
  <2>6. CASE sendmsg
    BY <2>6 DEF sendmsg
  <2>7. CASE sendmsg_fails
    BY <2>7 DEF sendmsg_fails
  <2>8. CASE UNCHANGED vars
    BY <2>8 DEF vars
  <2> QED
    BY <2>1, <2>3, <2>4, <2>5, <2>6, <2>7, <2>8 DEF Next
<1> QED
  BY <1>1, <1>2, PTL DEF Spec

\* What _tas_send_at() makes of next_tx_ns when it is passed no time: the
\* frame is not planned before the slot that is open.
LEMMA SlotRespected ==
  ASSUME TypeOK
  PROVE  tas_txtime(None) \in Nat /\ tas_txtime(None) >= next_tx
BY PacingAssumption DEF TypeOK, tas_txtime, Larger, None

\* Every frame handed over has a time.
LEMMA FrameTimes ==
  ASSUME TypeOK, NEW i \in 1 .. Len(out)
  PROVE  out[i].at \in Nat
<1> DEFINE Frame == [at : Nat, asked : Nat]
<1>1. out \in Seq(Frame)
  BY DEF TypeOK
<1>2. out[i] \in Frame
  <2> HIDE DEF Frame
  <2> QED BY <1>1
<1> QED
  BY <1>2

\* Consecutive frames of a TAS channel are Interval apart ("Minimum distance
\* between each frame", netchan.h:109) when every call leaves the transmit time
\* to _tas_send_at(), also when sendmsg() fails or is delayed.
THEOREM TasFramesSpaced == Spec => []Spacing
<1>1. Init => PacingInv
  BY PacingAssumption DEF Init, PacingInv, TypeOK, Spacing, RoomBefore, None
<1>2. PacingInv /\ TypeOK' /\ [Next]_vars => PacingInv'
  <2> SUFFICES ASSUME PacingInv, TypeOK', [Next]_vars PROVE PacingInv'
    OBVIOUS
  <2> USE PacingAssumption
  <2>a. class' = class /\ timed' = timed
    BY DEF Next, vars, tick, chan_send_now, chan_send, send, clock_nanosleep,
           sendmsg, sendmsg_fails
  <2>b. CASE ~(class = "TAS" /\ ~timed)
    BY <2>a, <2>b DEF PacingInv, Spacing
  <2>c. SUFFICES ASSUME class = "TAS", ~timed PROVE PacingInv'
    BY <2>b
  <2>1. CASE tick
    BY <2>1 DEF tick, PacingInv, Spacing, RoomBefore
  <2>2. CASE chan_send_now
    <3>1. TypeOK /\ Spacing /\ RoomBefore(next_tx)
      BY <2>c DEF PacingInv
    <3>2. txtime' = tas_txtime(None) /\ next_tx' = txtime' + Interval /\ out' = out
      BY <2>2, <2>c DEF chan_send_now, send, _tas_send_at, _cbs_send_at
    <3>3. txtime' \in Nat /\ txtime' >= next_tx
      BY <3>1, <3>2, SlotRespected
    <3>4. ASSUME NEW i \in 1 .. Len(out)
          PROVE  out[i].at + Interval <= txtime' /\ out[i].at + Interval <= next_tx'
      <4>1. out[i].at \in Nat
        BY <3>1, FrameTimes
      <4>2. out[i].at + Interval <= next_tx
        BY <3>1 DEF RoomBefore
      <4>3. next_tx \in Nat
        BY <3>1 DEF TypeOK
      <4> QED
        BY <3>2, <3>3, <4>1, <4>2, <4>3
    <3>5. RoomBefore(txtime)' /\ RoomBefore(next_tx)'
      BY <3>2, <3>4 DEF RoomBefore
    <3>6. Spacing'
      BY <2>a, <3>1, <3>2 DEF Spacing
    <3>7. txtime' + Interval <= next_tx'
      BY <3>2, <3>3
    <3>8. pc' # "sleep"
      BY <2>2, <2>c DEF chan_send_now, send, _tas_send_at, _cbs_send_at
    <3> QED
      BY <3>5, <3>6, <3>7, <3>8 DEF PacingInv
  <2>3. CASE \E tx \in Start .. MaxTime : chan_send(tx)
    BY <2>3, <2>c DEF chan_send
  <2>4. CASE clock_nanosleep
    BY <2>c, <2>4 DEF clock_nanosleep, PacingInv
  <2>5. CASE sendmsg
    <3>1. TypeOK /\ Spacing /\ RoomBefore(txtime) /\ txtime + Interval <= next_tx
      BY <2>c, <2>5 DEF sendmsg, PacingInv
    <3>2. /\ out' = Append(out, [at |-> txtime, asked |-> asked])
          /\ pc' = "idle" /\ next_tx' = next_tx
      BY <2>c, <2>5 DEF sendmsg
    <3>3. /\ Len(out) \in Nat /\ Len(out') = Len(out) + 1
          /\ \A i \in 1 .. Len(out) : out'[i] = out[i]
          /\ out'[Len(out) + 1].at = txtime
      BY <3>1, <3>2 DEF TypeOK
    <3>4. Spacing'
      <4> SUFFICES ASSUME NEW i \in 1 .. Len(out') - 1
                   PROVE  out'[i + 1].at >= out'[i].at + Interval
        BY DEF Spacing
      <4>1. CASE i = Len(out)
        <5>1. out[i].at + Interval <= txtime
          BY <3>1, <3>3, <4>1 DEF RoomBefore
        <5>2. out[i].at \in Nat
          BY <3>1, <3>3, <4>1, FrameTimes
        <5>3. txtime \in Nat
          BY <3>1 DEF TypeOK
        <5> QED
          BY <3>3, <4>1, <5>1, <5>2, <5>3
      <4>2. CASE i # Len(out)
        <5>1. i \in 1 .. Len(out) - 1 /\ i + 1 \in 1 .. Len(out)
          BY <3>3, <4>2
        <5> QED
          BY <2>c, <3>1, <3>3, <5>1 DEF Spacing
      <4> QED
        BY <4>1, <4>2
    <3>5. RoomBefore(next_tx)'
      <4> SUFFICES ASSUME NEW i \in 1 .. Len(out')
                   PROVE  out'[i].at + Interval <= next_tx
        BY <3>2 DEF RoomBefore
      <4>1. CASE i = Len(out) + 1
        BY <3>1, <3>3, <4>1
      <4>2. CASE i # Len(out) + 1
        <5>1. i \in 1 .. Len(out)
          BY <3>3, <4>2
        <5> QED
          BY <2>c, <3>3, <5>1 DEF PacingInv, RoomBefore
      <4> QED
        BY <4>1, <4>2
    <3> QED
      BY <3>2, <3>4, <3>5 DEF PacingInv
  <2>6. CASE sendmsg_fails
    BY <2>6 DEF sendmsg_fails, PacingInv, Spacing, RoomBefore
  <2>7. CASE UNCHANGED vars
    BY <2>7 DEF vars, PacingInv, Spacing, RoomBefore
  <2> QED
    BY <2>1, <2>2, <2>3, <2>4, <2>5, <2>6, <2>7 DEF Next
<1>3. PacingInv => Spacing
  BY DEF PacingInv
<1> QED
  BY <1>1, <1>2, <1>3, TypeCorrect, PTL DEF Spec

\* The inductive invariant: the frame in hand keeps the time asked for, and
\* neither clock nor slot is before the start.
AskedInv ==
  /\ TypeOK
  /\ NotBeforeAsked
  /\ now >= Start /\ next_tx >= Start
  /\ pc = "sleep" => class = "CBS"
  /\ pc = "send" => IF class = "TAS" THEN txtime >= asked ELSE now >= asked - Wake

\* No frame goes before the time chan_send() was given, for either class, whenever
\* the thread runs.  _tas_send_at() disregards times from tai_now + next_tx_ns
\* on, both of which count from 1970: the assumption keeps to times before that.
THEOREM FramesNotEarly ==
  ASSUME MaxTime < 2 * Start
  PROVE  Spec => []NotBeforeAsked
<1> USE PacingAssumption
<1>1. Init => AskedInv
  BY DEF Init, AskedInv, TypeOK, NotBeforeAsked, None
<1>2. AskedInv /\ TypeOK' /\ [Next]_vars => AskedInv'
  <2> SUFFICES ASSUME AskedInv, TypeOK', [Next]_vars PROVE AskedInv'
    OBVIOUS
  <2>t. TypeOK
    BY DEF AskedInv
  <2>1. CASE tick
    BY <2>1 DEF tick, AskedInv, NotBeforeAsked, TypeOK
  <2>2. ASSUME NEW tx \in {None} \cup Start .. MaxTime, send(tx) PROVE AskedInv'
    <3>1. out' = out /\ class' = class /\ now' = now /\ asked' = tx /\ tx \in Nat
      BY <2>2 DEF send, None
    <3>2. CASE class = "TAS"
      <4>1. txtime' = tas_txtime(tx) /\ next_tx' = txtime' + Interval /\ pc' = "send"
        BY <2>2, <3>2 DEF send, _tas_send_at, _cbs_send_at
      <4>2. now \in Nat /\ next_tx \in Nat /\ now >= Start /\ next_tx >= Start
        BY DEF AskedInv, TypeOK
      <4>3. tas_txtime(tx) \in Nat /\ tas_txtime(tx) >= tx /\ tas_txtime(tx) >= Start
        BY <2>2, <3>1, <4>2 DEF tas_txtime, Larger, None
      <4>4. next_tx' >= Start
        BY <4>1, <4>3
      <4> QED
        BY <3>1, <3>2, <4>1, <4>3, <4>4 DEF AskedInv, NotBeforeAsked
    <3>3. CASE class = "CBS"
      <4>1. next_tx' = next_tx /\ (pc' = "send" => tx = None \/ ~(tx - Wake > now))
        BY <2>2, <3>3 DEF send, _tas_send_at, _cbs_send_at
      <4>2. pc' = "send" => now >= tx - Wake
        BY <3>1, <4>1 DEF AskedInv, TypeOK, None
      <4> QED
        BY <3>1, <3>3, <4>1, <4>2 DEF AskedInv, NotBeforeAsked
    <3> QED
      BY <2>t, <3>2, <3>3 DEF TypeOK
  <2>3. CASE chan_send_now
    BY <2>2, <2>3 DEF chan_send_now
  <2>4. CASE \E tx \in Start .. MaxTime : chan_send(tx)
    BY <2>2, <2>4 DEF chan_send
  <2>5. CASE clock_nanosleep
    <3>1. class = "CBS"
      BY <2>5 DEF clock_nanosleep, AskedInv
    <3> QED
      BY <2>5, <3>1 DEF clock_nanosleep, AskedInv, NotBeforeAsked
  <2>6. CASE sendmsg
    <3> DEFINE frame == [at |-> IF class = "TAS" THEN txtime ELSE now, asked |-> asked]
               ok(f) == f.at >= f.asked - (IF class = "CBS" THEN Wake ELSE 0)
    <3>1. /\ out' = Append(out, frame) /\ pc' = "idle" /\ class' = class
          /\ now' = now /\ next_tx' = next_tx
      BY <2>6 DEF sendmsg
    <3>2. ok(frame)
      BY <2>6, <2>t DEF sendmsg, AskedInv, TypeOK
    <3>3. NotBeforeAsked'
      <4> SUFFICES ASSUME NEW i \in DOMAIN out' PROVE ok(out'[i])
        BY <3>1 DEF NotBeforeAsked
      <4>1. /\ i \in 1 .. Len(out) + 1 /\ Len(out) \in Nat
            /\ DOMAIN out = 1 .. Len(out)
            /\ out'[i] = IF i = Len(out) + 1 THEN frame ELSE out[i]
        <5> HIDE DEF frame
        <5> QED BY <2>t, <3>1 DEF TypeOK
      <4>2. CASE i = Len(out) + 1
        <5>1. out'[i] = frame
          BY <4>1, <4>2
        <5> HIDE DEF frame, ok
        <5> QED BY <3>2, <5>1
      <4>3. CASE i # Len(out) + 1
        <5>1. i \in DOMAIN out /\ out'[i] = out[i]
          BY <4>1, <4>3
        <5> QED BY <5>1 DEF AskedInv, NotBeforeAsked
      <4> QED BY <4>2, <4>3
    <3> QED
      BY <3>1, <3>3 DEF AskedInv
  <2>7. CASE sendmsg_fails
    BY <2>7 DEF sendmsg_fails, AskedInv, NotBeforeAsked
  <2>8. CASE UNCHANGED vars
    BY <2>8 DEF vars, AskedInv, NotBeforeAsked
  <2> QED
    BY <2>1, <2>3, <2>4, <2>5, <2>6, <2>7, <2>8 DEF Next
<1>3. AskedInv => NotBeforeAsked
  BY DEF AskedInv
<1> QED
  BY <1>1, <1>2, <1>3, TypeCorrect, PTL DEF Spec
-----------------------------------------------------------------------------
(***************************************************************************)
(* Module TimedChannel.  First what division does to times.                *)
(***************************************************************************)
\* Division with remainder.
LEMMA DivMod ==
  ASSUME NEW a \in Int, NEW m \in Nat \ {0}
  PROVE  \E q \in Int, r \in 0 .. m - 1 :
           q = a \div m /\ r = a % m /\ a = q * m + r
<1>1. a \div m \in Int /\ a % m \in 0 .. m - 1
  OBVIOUS
<1>2. a - m * (a \div m) = a % m
  OBVIOUS
<1>3. ASSUME NEW q \in Int, NEW r \in Int, a - m * q = r PROVE a = q * m + r
  <2>1. PICK x \in Int : x = m * q /\ x = q * m
    OBVIOUS
  <2>2. a = x + r
    BY <1>3, <2>1
  <2> QED
    BY <2>1, <2>2
<1>4. PICK q \in Int, r \in 0 .. m - 1 : q = a \div m /\ r = a % m
  BY <1>1
<1>5. a = q * m + r
  BY <1>2, <1>3, <1>4
<1> QED
  BY <1>4, <1>5

\* Multiplication distributes over addition.
LEMMA Distribute ==
  ASSUME NEW a \in Int, NEW b \in Int, NEW m \in Nat
  PROVE  (a + b) * m = a * m + b * m /\ a * m \in Int
OBVIOUS

\* Multiples that are less than m apart, up to remainders, are neighbours.
LEMMA Neighbours ==
  ASSUME NEW q \in Int, NEW p \in Int, NEW m \in Nat \ {0},
         NEW r \in 0 .. m - 1, NEW s \in 0 .. m - 1,
         (q * m + r) - (p * m + s) >= 0, (q * m + r) - (p * m + s) < m
  PROVE  q = p \/ q = p + 1
<1>1. (q - p) * m = q * m - p * m
  OBVIOUS
<1>2. CASE q - p >= 2
  <2>1. (q - p) * m >= 2 * m
    BY <1>2
  <2> QED BY <1>1, <2>1
<1>3. CASE q - p <= -1
  <2>1. (q - p) * m <= -m
    BY <1>3
  <2> QED BY <1>1, <2>1
<1> QED
  BY <1>2, <1>3

tvars == <<vars, timedVars>>

\* What _chan_read() works out of a stamp that is less than the range of the AVTP
\* timestamp old: the stamp, or 1 ns later when the 32 bits wrapped along the way.
LEMMA CaptureWithinRange ==
  ASSUME NEW recv \in Int, NEW stamp \in Int,
         recv >= stamp, recv - stamp < AvtpMod
  PROVE  ptp_capture(recv, tai_to_avtp_ns(stamp)) - stamp =
           IF stamp \div AvtpMod = recv \div AvtpMod THEN 0 ELSE 1
<1>0. AvtpMod \in Nat \ {0}
  BY TimeSpecAssumption
<1>1. PICK q \in Int, r \in 0 .. AvtpMod - 1 :
        q = recv \div AvtpMod /\ r = recv % AvtpMod /\ recv = q * AvtpMod + r
  BY <1>0, DivMod
<1>2. PICK p \in Int, s \in 0 .. AvtpMod - 1 :
        p = stamp \div AvtpMod /\ s = stamp % AvtpMod /\ stamp = p * AvtpMod + s
  BY <1>0, DivMod
<1>3. ptp_capture(recv, tai_to_avtp_ns(stamp))
        = recv - (r + (IF r < s THEN AvtpMod - 1 ELSE 0) - s)
  BY <1>1, <1>2 DEF ptp_capture, tai_to_avtp_ns
<1>4. recv = q * AvtpMod + r /\ stamp = p * AvtpMod + s
  BY <1>1, <1>2
<1>5. q = p \/ q = p + 1
  BY <1>0, <1>4, Neighbours
<1>6. recv - (r + (IF r < s THEN AvtpMod - 1 ELSE 0) - s) - stamp = IF p = q THEN 0 ELSE 1
  <2>1. CASE q = p
    BY <1>0, <1>4, <2>1
  <2>2. CASE q = p + 1
    <3>1. q * AvtpMod = p * AvtpMod + AvtpMod
      BY <1>0, <2>2
    <3>2. recv - stamp = AvtpMod + r - s /\ r < s
      BY <1>0, <1>4, <3>1
    <3> QED
      BY <1>0, <2>2, <3>2
  <2> QED
    BY <1>5, <2>1, <2>2
<1> QED
  BY <1>1, <1>2, <1>3, <1>6, Zenon

\* A step of the timed channel is one of module TxPacing, or none of its business.
LEMMA PacingStep == [TNext]_tvars => [Next]_vars
BY DEF tvars, TNext, wait_for_tx_slot, talker_send, talker_sent, loop_ends, pt_next_cycle,
       pacing, receive, chan_read_wait, chan_delay_ptp, chan_delay_cpu, chan_delay_return, Next

\* The channel paced by talker.cpp's loop, with a listener behind it, sends as module
\* TxPacing says an application may.
THEOREM TimedIsPaced == TSpec => Spec
<1>1. TInit => Init
  BY DEF TInit
<1> QED
  BY <1>1, PacingStep, PTL DEF TSpec, Spec, tvars

\* "Minimum distance between each frame" (netchan.h:109), for the talker of the
\* example too: the TAS frames it sends through NetChanTx::send() are Interval apart.
THEOREM TalkerFramesSpaced == TSpec => []Spacing
BY TimedIsPaced, TasFramesSpaced, PTL
-----------------------------------------------------------------------------
\* The invariant behind the time of capture: stamps are integers, and what the reader
\* has in hand was worked out from them.
CaptureInv ==
  /\ now \in Int /\ skew \in Int /\ sample \in Int
  /\ wire \in Seq([at : Int, sample : Int])
  /\ pipe \in Seq([sample : Int, recv : Int])
  /\ held.sample \in Int /\ held.recv \in Int
  /\ rpc # "read" =>
       held.due = ptp_capture(held.recv, tai_to_avtp_ns(held.sample)) + ClassDelay

LEMMA CaptureType ==
  ASSUME NEW recv \in Int, NEW avtp \in Int
  PROVE  tai_to_avtp_ns(recv) \in Int /\ ptp_capture(recv, avtp) \in Int
BY TimeSpecAssumption DEF tai_to_avtp_ns, ptp_capture

LEMMA CaptureStep == CaptureInv /\ TypeOK /\ TypeOK' /\ [TNext]_tvars => CaptureInv'
<1> SUFFICES ASSUME CaptureInv, TypeOK, TypeOK', [TNext]_tvars PROVE CaptureInv'
  OBVIOUS
<1> USE DEF CaptureInv
<1>0. now' \in Int
  BY DEF TypeOK
<1>1. CASE wait_for_tx_slot
  BY <1>0, <1>1 DEF wait_for_tx_slot, rdVars
<1>2. CASE talker_send
  BY <1>0, <1>2 DEF talker_send, chan_update, rdVars
<1>3. CASE talker_sent
  <2>1. CASE UNCHANGED wire
    BY <1>0, <1>3, <2>1 DEF talker_sent, rdVars
  <2>2. CASE sendmsg /\ wire' = Append(wire, [at |-> out'[Len(out')].at, sample |-> sample])
    <3>1. out' = Append(out, [at |-> IF class = "TAS" THEN txtime ELSE now, asked |-> asked])
      BY <2>2 DEF sendmsg
    <3>2. out'[Len(out')].at \in Int
      <4> DEFINE frame == [at |-> IF class = "TAS" THEN txtime ELSE now, asked |-> asked]
      <4>1. out \in Seq([at : Nat, asked : Nat]) /\ frame.at \in Int
        BY DEF TypeOK
      <4>2. out' = Append(out, frame)
        BY <3>1
      <4> HIDE DEF frame
      <4>3. out'[Len(out')] = frame
        BY <4>1, <4>2
      <4> QED
        BY <4>1, <4>3
    <3>3. wire' \in Seq([at : Int, sample : Int])
      BY <2>2, <3>2
    <3> QED
      BY <1>0, <1>3, <3>3 DEF talker_sent, rdVars
  <2> QED
    BY <1>3, <2>1, <2>2 DEF talker_sent
<1>4. CASE pt_next_cycle
  BY <1>0, <1>4 DEF pt_next_cycle, rdVars
<1>5. CASE pacing
  BY <1>0, <1>5 DEF pacing, timedVars, rdVars
<1>6. CASE receive
  <2>1. Head(wire) \in [at : Int, sample : Int] /\ Tail(wire) \in Seq([at : Int, sample : Int])
    <3> DEFINE W == [at : Int, sample : Int]
    <3>1. wire \in Seq(W) /\ wire # <<>>
      BY <1>6 DEF receive
    <3> HIDE DEF W
    <3>2. Head(wire) \in W /\ Tail(wire) \in Seq(W)
      BY <3>1
    <3> QED
      BY <3>2 DEF W
  <2>2. [sample |-> Head(wire).sample, recv |-> ptp_now] \in [sample : Int, recv : Int]
    BY <2>1 DEF ptp_now
  <2>3. pipe' \in Seq([sample : Int, recv : Int])
    BY <1>6, <2>2 DEF receive
  <2> QED
    BY <1>0, <1>6, <2>1, <2>3 DEF receive
<1>7. CASE chan_read_wait
  <2>1. Head(pipe) \in [sample : Int, recv : Int] /\ Tail(pipe) \in Seq([sample : Int, recv : Int])
    <3> DEFINE P == [sample : Int, recv : Int]
    <3>1. pipe \in Seq(P) /\ pipe # <<>>
      BY <1>7 DEF chan_read_wait
    <3> HIDE DEF P
    <3>2. Head(pipe) \in P /\ Tail(pipe) \in Seq(P)
      BY <3>1
    <3> QED
      BY <3>2 DEF P
  <2> QED
    BY <1>0, <1>7, <2>1 DEF chan_read_wait
<1>8. CASE chan_delay_ptp
  BY <1>0, <1>8 DEF chan_delay_ptp
<1>9. CASE chan_delay_cpu
  BY <1>0, <1>9 DEF chan_delay_cpu
<1>10. CASE chan_delay_return
  BY <1>0, <1>10 DEF chan_delay_return
<1>11. CASE loop_ends
  BY <1>0, <1>11 DEF loop_ends, rdVars
<1>12. CASE UNCHANGED tvars
  BY <1>0, <1>12 DEF tvars, timedVars, rdVars
<1> QED
  BY <1>1, <1>2, <1>3, <1>4, <1>5, <1>6, <1>7, <1>8, <1>9, <1>10, <1>11, <1>12 DEF TNext

\* "Reconstruct PTP capture timestamp from sender" (netchan.c:697): for every range of
\* the AVTP timestamp, skew and time under way, _chan_read() gets the talker's time,
\* or 1 ns more across a wrap.
THEOREM CaptureSurvives == TSpec => []CaptureReconstructed
<1>1. TInit => CaptureInv
  BY PacingAssumption, TimedChannelAssumption DEF TInit, Init, CaptureInv
<1>2. CaptureInv => CaptureReconstructed
  <2> SUFFICES ASSUME CaptureInv, rpc # "read", InRange(held)
               PROVE  held.due - ClassDelay - held.sample =
                        IF held.sample \div AvtpMod = held.recv \div AvtpMod THEN 0 ELSE 1
    BY DEF CaptureReconstructed
  <2> DEFINE c == ptp_capture(held.recv, tai_to_avtp_ns(held.sample))
  <2>1. c \in Int /\ held.sample \in Int /\ held.due = c + ClassDelay
    BY CaptureType DEF CaptureInv
  <2>2. c - held.sample = IF held.sample \div AvtpMod = held.recv \div AvtpMod THEN 0 ELSE 1
    BY CaptureWithinRange DEF CaptureInv, InRange
  <2>3. held.due - ClassDelay - held.sample = c - held.sample
    <3> HIDE DEF c
    <3> QED BY <2>1, TimedChannelAssumption
  <2> QED
    BY <2>2, <2>3
<1>3. TSpec => []TypeOK
  BY TimedIsPaced, TypeCorrect, PTL
<1> QED
  BY <1>1, <1>2, <1>3, CaptureStep, PTL DEF TSpec, tvars
-----------------------------------------------------------------------------
\* The invariant behind the timer: it is a timespec in normal form that stands for a
\* whole number of periods.
TimerInv ==
  /\ pt_ts \in Timespec /\ alarm \in Timespec /\ cycles \in Nat
  /\ TimerDoesNotDrift

\* ts_normalize() changes the form of a time, not the time.
LEMMA Normalize ==
  ASSUME NEW ts \in Timespec
  PROVE  /\ ts_normalize(ts) \in Timespec /\ Normal(ts_normalize(ts))
         /\ TsNs(ts_normalize(ts)) = TsNs(ts)
<1>0. NsInSec \in Nat \ {0} /\ ts.sec \in Int /\ ts.nsec \in Nat
  BY TimeSpecAssumption DEF Timespec
<1>1. CASE ts.nsec < NsInSec
  BY <1>0, <1>1 DEF ts_normalize, Normal
<1>2. CASE ts.nsec >= NsInSec
  <2>1. PICK q \in Int, r \in 0 .. NsInSec - 1 :
          /\ q = ts.nsec \div NsInSec /\ r = ts.nsec % NsInSec
          /\ ts.nsec = q * NsInSec + r
    <3> DEFINE n == ts.nsec
    <3>1. n \in Int
      BY <1>0
    <3> HIDE DEF n
    <3>2. \E q \in Int, r \in 0 .. NsInSec - 1 :
            q = n \div NsInSec /\ r = n % NsInSec /\ n = q * NsInSec + r
      BY <1>0, <3>1, DivMod
    <3> QED
      BY <3>2, Zenon DEF n
  <2>2. ts_normalize(ts) = [sec |-> ts.sec + q, nsec |-> r]
    <3>1. ts_normalize(ts) =
            [sec |-> ts.sec + ts.nsec \div NsInSec, nsec |-> ts.nsec % NsInSec]
      BY <1>2 DEF ts_normalize
    <3> QED
      BY <2>1, <3>1, Zenon
  <2>3. ts.nsec = q * NsInSec + r
    BY <2>1
  <2>4. (ts.sec + q) * NsInSec = ts.sec * NsInSec + q * NsInSec
        /\ ts.sec * NsInSec \in Int /\ q * NsInSec \in Int
    BY <1>0, Distribute
  <2> QED
    BY <1>0, <2>2, <2>3, <2>4 DEF Timespec, Normal, TsNs
<1> QED
  BY <1>0, <1>1, <1>2

LEMMA AddNs ==
  ASSUME NEW ts \in Timespec, NEW add \in Nat
  PROVE  /\ ts_add_ns(ts, add) \in Timespec /\ Normal(ts_add_ns(ts, add))
         /\ TsNs(ts_add_ns(ts, add)) = TsNs(ts) + add
<1> DEFINE sum == [ts EXCEPT !.nsec = @ + add]
<1>1. sum \in Timespec /\ sum.sec = ts.sec /\ sum.nsec = ts.nsec + add
  BY DEF Timespec
<1>2. ts_add_ns(ts, add) = ts_normalize(sum)
  BY DEF ts_add_ns
<1>3. TsNs(sum) = TsNs(ts) + add
  <2>1. ts.sec \in Int /\ ts.nsec \in Nat /\ ts.sec * NsInSec \in Int
    BY TimeSpecAssumption, Distribute DEF Timespec
  <2> QED
    BY <1>1, <2>1 DEF TsNs
<1> HIDE DEF sum
<1> QED
  BY <1>1, <1>2, <1>3, Normalize

LEMMA FromNs ==
  ASSUME NEW ns \in Int
  PROVE  NsTs(ns) \in Timespec /\ Normal(NsTs(ns)) /\ TsNs(NsTs(ns)) = ns
<1>1. PICK q \in Int, r \in 0 .. NsInSec - 1 :
        q = ns \div NsInSec /\ r = ns % NsInSec /\ ns = q * NsInSec + r
  BY TimeSpecAssumption, DivMod
<1>2. NsTs(ns) = [sec |-> q, nsec |-> r]
  BY <1>1 DEF NsTs
<1>3. ns = q * NsInSec + r
  BY <1>1
<1> QED
  BY <1>2, <1>3, TimeSpecAssumption DEF Timespec, Normal, TsNs

\* ts_subtract_ns() of at most a second leaves a timespec the kernel accepts.
LEMMA SubtractNs ==
  ASSUME NEW ts \in Timespec, Normal(ts), NEW sub \in Nat, sub <= NsInSec
  PROVE  /\ ts_subtract_ns(ts, sub) \in Timespec /\ Normal(ts_subtract_ns(ts, sub))
         /\ TsNs(ts_subtract_ns(ts, sub)) = TsNs(ts) - sub
<1>1. ts_subtract_ns(ts, sub) \in Timespec /\ Normal(ts_subtract_ns(ts, sub))
  BY TimeSpecAssumption DEF Timespec, Normal, ts_subtract_ns
<1>2. ts.sec \in Int /\ ts.nsec \in Nat /\ NsInSec \in Nat
  BY TimeSpecAssumption DEF Timespec
<1>3. PICK x \in Int : x = ts.sec * NsInSec /\ x - NsInSec = (ts.sec - 1) * NsInSec
  BY <1>2
<1>4. x \in Int
  BY <1>3
<1>5. CASE sub > ts.nsec
  <2>1. TsNs(ts_subtract_ns(ts, sub)) = (x - NsInSec) + (ts.nsec + NsInSec - sub)
    BY <1>3, <1>5 DEF ts_subtract_ns, TsNs
  <2>2. TsNs(ts) = x + ts.nsec
    BY <1>3 DEF TsNs
  <2> QED
    BY <1>1, <1>2, <1>4, <2>1, <2>2
<1>6. CASE ~(sub > ts.nsec)
  <2>1. TsNs(ts_subtract_ns(ts, sub)) = x + (ts.nsec - sub)
    BY <1>3, <1>6 DEF ts_subtract_ns, TsNs, Timespec
  <2>2. TsNs(ts) = x + ts.nsec
    BY <1>3 DEF TsNs
  <2> QED
    BY <1>1, <1>2, <1>4, <2>1, <2>2
<1> QED
  BY <1>1, <1>5, <1>6

LEMMA TimerStep == TimerInv /\ TypeOK /\ [TNext]_tvars => TimerInv'
<1> SUFFICES ASSUME TimerInv, TypeOK, [TNext]_tvars PROVE TimerInv'
  OBVIOUS
<1> USE DEF TimerInv, TimerDoesNotDrift
<1>0. ASSUME UNCHANGED <<pt_ts, cycles, alarm>> PROVE TimerInv'
  BY <1>0 DEF TsNs, Normal
<1>1. CASE wait_for_tx_slot
  <2>1. NsTs(now) \in Timespec /\ Normal(NsTs(now)) /\ NsTs(next_tx) \in Timespec
    BY FromNs DEF TypeOK
  <2>2. /\ ts_subtract_ns(ts_normalize(NsTs(next_tx)), Wake) \in Timespec
        /\ Normal(ts_subtract_ns(ts_normalize(NsTs(next_tx)), Wake))
    BY <2>1, Normalize, SubtractNs, PacingAssumption, TimedChannelAssumption
  <2>3. alarm' \in Timespec /\ Normal(alarm')
    BY <1>1, <2>1, <2>2 DEF wait_for_tx_slot
  <2>4. UNCHANGED <<pt_ts, cycles>>
    BY <1>1 DEF wait_for_tx_slot
  <2> QED
    BY <2>3, <2>4 DEF TsNs, Normal
<1>2. CASE pt_next_cycle
  <2>1. pt_ts' = ts_add_ns(pt_ts, Interval) /\ alarm' = pt_ts' /\ cycles' = cycles + 1
    BY <1>2 DEF pt_next_cycle
  <2>2. /\ pt_ts' \in Timespec /\ Normal(pt_ts')
        /\ TsNs(pt_ts') = TsNs(pt_ts) + Interval
    BY <2>1, AddNs, PacingAssumption
  <2>3. (cycles + 1) * Interval = cycles * Interval + Interval /\ cycles * Interval \in Int
    BY PacingAssumption, Distribute
  <2>4. TsNs(pt_ts') = Start + cycles' * Interval
    BY <2>1, <2>2, <2>3, PacingAssumption
  <2> QED
    BY <2>1, <2>2, <2>4 DEF TsNs, Normal
<1> QED
  BY <1>0, <1>1, <1>2 DEF TNext, tvars, timedVars, loopVars, talker_send, talker_sent, loop_ends, pacing,
     receive, chan_read_wait, chan_delay_ptp, chan_delay_cpu, chan_delay_return

\* "Since it is a periodic timer, it should not grow in error" (test/test_utils.c:170):
\* pt_next_cycle() keeps the timer at a whole number of periods from its start, in a
\* timespec the kernel accepts, for every period and however late the loop runs.
THEOREM TimerStaysTrue == TSpec => []TimerDoesNotDrift
<1>1. TInit => TimerInv
  <2> SUFFICES ASSUME TInit PROVE TimerInv
    OBVIOUS
  <2>1. pt_ts = NsTs(Start) /\ alarm = NsTs(Start) /\ cycles = 0
    BY DEF TInit
  <2>2. 0 * Interval = 0 /\ Start \in Int
    BY PacingAssumption
  <2> QED
    BY <2>1, <2>2, FromNs DEF TimerInv, TimerDoesNotDrift
<1>2. TimerInv => TimerDoesNotDrift
  BY DEF TimerInv
<1>3. TSpec => []TypeOK
  BY TimedIsPaced, TypeCorrect, PTL
<1> QED
  BY <1>1, <1>2, <1>3, TimerStep, PTL DEF TSpec, tvars
-----------------------------------------------------------------------------
\* The invariant behind the period of a CBS talker: it has sent as often as the timer
\* has cycled, once more when it is about to start the next cycle or has sent its
\* closing frame, and calls only when the cycle has come.
Paced ==
  talker /\ class = "CBS" =>
    /\ alarm = pt_ts
    /\ lpc \in {"top", "send", "cycle", "end"}
    /\ lpc \in {"top", "send"} => Len(out) = cycles
    /\ lpc = "cycle" => Len(out) = cycles + 1
    /\ lpc = "send" => cycles * Interval <= now - Start
    /\ (Len(out) - 1) * Interval <= now - Start

LEMMA PeriodStep == Paced /\ TimerInv /\ TypeOK /\ [TNext]_tvars => Paced'
<1> SUFFICES ASSUME Paced, TimerInv, TypeOK, [TNext]_tvars,
                    talker' /\ class' = "CBS"
             PROVE  Paced'
  BY DEF Paced
<1>0. talker /\ class = "CBS"
  BY DEF TNext, tvars, vars, timedVars, wait_for_tx_slot, talker_send, talker_sent, loop_ends,
         pt_next_cycle, pacing, receive, chan_read_wait, chan_delay_ptp, chan_delay_cpu,
         chan_delay_return, tick, Next, chan_send_now, chan_send, send, sendmsg, sendmsg_fails,
         clock_nanosleep
<1>1. /\ alarm = pt_ts /\ lpc \in {"top", "send", "cycle", "end"}
      /\ lpc \in {"top", "send"} => Len(out) = cycles
      /\ lpc = "cycle" => Len(out) = cycles + 1
      /\ lpc = "send" => cycles * Interval <= now - Start
      /\ (Len(out) - 1) * Interval <= now - Start
  BY <1>0 DEF Paced
<1>2. /\ now \in Nat /\ cycles \in Nat /\ Start \in Nat /\ Interval \in Nat
      /\ Len(out) \in Nat /\ cycles * Interval \in Int /\ (Len(out) - 1) * Interval \in Int
  <2>1. now \in Nat /\ cycles \in Nat /\ Start \in Nat /\ Interval \in Nat /\ Len(out) \in Nat
    BY PacingAssumption DEF TypeOK, TimerInv
  <2> QED
    BY <2>1, Distribute
<1>3. CASE talker_send
  <2>1. /\ lpc = "top" /\ lpc' = "send" /\ now >= TsNs(alarm)
        /\ UNCHANGED <<now, out, alarm, pt_ts, cycles>>
    BY <1>0, <1>3 DEF talker_send, chan_send_now, send
  <2>2. TsNs(pt_ts) = Start + cycles * Interval
    BY DEF TimerInv, TimerDoesNotDrift
  <2>3. cycles * Interval <= now - Start
    BY <1>1, <1>2, <2>1, <2>2
  <2> QED
    BY <1>1, <2>1, <2>3 DEF Paced
<1>4. CASE talker_sent
  <2>1. lpc = "send" /\ UNCHANGED <<now, alarm, pt_ts, cycles>>
    BY <1>0, <1>4 DEF talker_sent, sendmsg, sendmsg_fails
  <2>2. CASE sendmsg /\ lpc' = IF closing THEN "end" ELSE "cycle"
    <3> DEFINE frame == [at |-> IF class = "TAS" THEN txtime ELSE now, asked |-> asked]
    <3>1. out \in Seq([at : Nat, asked : Nat]) /\ out' = Append(out, frame)
      BY <2>2 DEF TypeOK, sendmsg
    <3> HIDE DEF frame
    <3>2. Len(out') = Len(out) + 1
      BY <3>1
    <3>3. Len(out') = cycles + 1 /\ Len(out') - 1 = cycles
      BY <1>1, <1>2, <2>1, <3>2
    <3> QED
      BY <1>1, <2>1, <2>2, <3>3 DEF Paced
  <2>3. CASE sendmsg_fails /\ lpc' = IF closing THEN "end" ELSE "top"
    <3>1. UNCHANGED out
      BY <2>3 DEF sendmsg_fails
    <3> QED
      BY <1>1, <2>1, <2>3, <3>1 DEF Paced
  <2> QED
    BY <1>0, <1>4, <2>2, <2>3 DEF talker_sent
<1>5. CASE pt_next_cycle
  <2>1. /\ lpc = "cycle" /\ lpc' = "top" /\ cycles' = cycles + 1 /\ alarm' = pt_ts'
        /\ UNCHANGED <<now, out>>
    BY <1>5 DEF pt_next_cycle, vars
  <2> QED
    BY <1>1, <2>1 DEF Paced
<1>6. CASE tick /\ UNCHANGED timedVars
  <2>1. now' = now + 1 /\ UNCHANGED <<out, lpc, alarm, pt_ts, cycles>>
    BY <1>6 DEF tick, timedVars, loopVars
  <2>2. now - Start <= now' - Start /\ now' - Start \in Int /\ now - Start \in Int
    BY <1>2, <2>1
  <2>3. /\ lpc = "send" => cycles * Interval <= now' - Start
        /\ (Len(out) - 1) * Interval <= now' - Start
    BY <1>1, <1>2, <2>2
  <2> QED
    BY <1>1, <2>1, <2>3 DEF Paced
<1>7. CASE UNCHANGED <<now, out, lpc, alarm, pt_ts, cycles>>
  BY <1>1, <1>7 DEF Paced
<1> QED
  BY <1>0, <1>3, <1>4, <1>5, <1>6, <1>7
     DEF TNext, tvars, vars, timedVars, loopVars, wait_for_tx_slot, loop_ends, pacing, receive,
         chan_read_wait, chan_delay_ptp, chan_delay_cpu, chan_delay_return

\* A CBS talker keeps its period, for every period: talker.cpp's loop ends with
\* pt_next_cycle(), and at any time it has sent at most one frame more than periods
\* have passed, although a late cycle is caught up with.
THEOREM TalkerKeepsPeriod == TSpec => []PeriodKept
<1>1. TInit => Paced /\ TimerInv
  <2> SUFFICES ASSUME TInit PROVE Paced /\ TimerInv
    OBVIOUS
  <2>1. /\ pt_ts = NsTs(Start) /\ alarm = NsTs(Start) /\ cycles = 0
        /\ lpc = "top" /\ out = <<>> /\ now = Start
    BY DEF TInit, Init
  <2>2. 0 * Interval = 0 /\ (0 - 1) * Interval <= 0 /\ Start \in Int /\ Start - Start = 0
    BY PacingAssumption
  <2>3. TimerInv
    BY <2>1, <2>2, FromNs DEF TimerInv, TimerDoesNotDrift
  <2>4. Len(out) = 0
    BY <2>1
  <2>5. Paced
    BY <2>1, <2>2, <2>4 DEF Paced
  <2> QED
    BY <2>3, <2>5
<1>2. Paced => PeriodKept
  BY DEF Paced, PeriodKept
<1>3. TSpec => []TypeOK
  BY TimedIsPaced, TypeCorrect, PTL
<1> QED
  BY <1>1, <1>2, <1>3, TimerStep, PeriodStep, PTL DEF TSpec, tvars
-----------------------------------------------------------------------------
\* The invariant behind the slots of a TAS talker: it sleeps to 100 us before its
\* slot or later, and the frame in its hands was due by then.
InSlot ==
  talker /\ class = "TAS" =>
    /\ lpc = "slot" => next_tx - Wake <= TsNs(alarm)
    /\ pc = "send" => txtime <= now + Larger(Lead, Wake)

LEMMA SlotStep == InSlot /\ TimerInv /\ TypeOK /\ [TNext]_tvars => InSlot'
<1> SUFFICES ASSUME InSlot, TimerInv, TypeOK, [TNext]_tvars,
                    talker' /\ class' = "TAS"
             PROVE  InSlot'
  BY DEF InSlot
<1>0. talker /\ class = "TAS"
  BY DEF TNext, tvars, vars, timedVars, wait_for_tx_slot, talker_send, talker_sent, loop_ends,
         pt_next_cycle, pacing, receive, chan_read_wait, chan_delay_ptp, chan_delay_cpu,
         chan_delay_return, tick, Next, chan_send_now, chan_send, send, sendmsg, sendmsg_fails,
         clock_nanosleep
<1>1. /\ lpc = "slot" => next_tx - Wake <= TsNs(alarm)
      /\ pc = "send" => txtime <= now + Larger(Lead, Wake)
  BY <1>0 DEF InSlot
<1>2. /\ now \in Nat /\ next_tx \in Nat /\ txtime \in Nat
      /\ Wake \in Nat /\ Lead \in Nat /\ TsNs(alarm) \in Int
  <2>1. alarm.sec \in Int /\ alarm.nsec \in Nat /\ NsInSec \in Nat
    BY TimeSpecAssumption DEF TimerInv, Timespec
  <2>2. TsNs(alarm) \in Int
    BY <2>1, Distribute DEF TsNs
  <2> QED
    BY <2>2, PacingAssumption DEF TypeOK
<1>3. CASE wait_for_tx_slot
  <2>1. UNCHANGED <<next_tx, pc, txtime, now>>
    BY <1>3 DEF wait_for_tx_slot, vars
  <2>2. CASE now > next_tx
    <3>1. TsNs(alarm') = now
      BY <1>2, <1>3, <2>2, FromNs DEF wait_for_tx_slot
    <3> QED
      BY <1>1, <1>2, <2>1, <2>2, <3>1 DEF InSlot, TsNs
  <2>3. CASE ~(now > next_tx)
    <3>1. alarm' = ts_subtract_ns(ts_normalize(NsTs(next_tx)), Wake)
      BY <1>3, <2>3 DEF wait_for_tx_slot
    <3>2. NsTs(next_tx) \in Timespec /\ TsNs(NsTs(next_tx)) = next_tx
      BY <1>2, FromNs
    <3>3. TsNs(alarm') = next_tx - Wake
      BY <1>2, <3>1, <3>2, Normalize, SubtractNs, TimedChannelAssumption
    <3> QED
      BY <1>1, <1>2, <2>1, <3>3 DEF InSlot, TsNs
  <2> QED
    BY <2>2, <2>3
<1>4. CASE talker_send
  <2>1. /\ lpc = "slot" /\ lpc' = "send" /\ now >= TsNs(alarm)
        /\ txtime' = tas_txtime(None) /\ UNCHANGED now
    BY <1>0, <1>4 DEF talker_send, chan_send_now, send, _tas_send_at, _cbs_send_at
  <2>2. txtime' = Larger(now + Lead, next_tx)
    BY <2>1 DEF tas_txtime
  <2>3. txtime' <= now + Larger(Lead, Wake)
    BY <1>1, <1>2, <2>1, <2>2 DEF Larger
  <2> QED
    BY <2>1, <2>3 DEF InSlot, Larger
<1>5. CASE talker_sent
  <2>1. pc' = "idle" /\ lpc' # "slot"
    BY <1>0, <1>5 DEF talker_sent, sendmsg, sendmsg_fails
  <2> QED
    BY <2>1 DEF InSlot
<1>6. CASE pt_next_cycle
  <2>1. lpc' = "top" /\ UNCHANGED <<pc, txtime, now>>
    BY <1>6 DEF pt_next_cycle, vars
  <2> QED
    BY <1>1, <2>1 DEF InSlot, Larger
<1>7. CASE tick /\ UNCHANGED timedVars
  <2>1. now' = now + 1 /\ UNCHANGED <<pc, txtime, next_tx, lpc, alarm>>
    BY <1>7 DEF tick, timedVars, loopVars
  <2>2. Larger(Lead, Wake) \in Nat
    BY <1>2 DEF Larger
  <2>3. now + Larger(Lead, Wake) <= now' + Larger(Lead, Wake)
    BY <1>2, <2>1, <2>2
  <2>4. pc = "send" => txtime <= now' + Larger(Lead, Wake)
    BY <1>1, <1>2, <2>1, <2>2
  <2> QED
    BY <1>1, <2>1, <2>4 DEF InSlot, TsNs, Larger
<1>8. CASE UNCHANGED <<pc, txtime, next_tx, lpc, alarm, now>>
  BY <1>1, <1>8 DEF InSlot, TsNs, Larger
<1> QED
  BY <1>0, <1>3, <1>4, <1>5, <1>6, <1>7, <1>8
     DEF TNext, tvars, vars, timedVars, loopVars, loop_ends, pacing, receive,
         chan_read_wait, chan_delay_ptp, chan_delay_cpu, chan_delay_return

\* NetChanTx::send() keeps a TAS talker from running ahead of its slots: the frame in
\* its hands goes within 100 us, or as soon as the qdisc takes it, however often the
\* loop calls and however often sendmsg() fails.
THEOREM TalkerKeepsToSlots == TSpec => []NoBacklog
<1>1. TInit => InSlot /\ TimerInv
  <2> SUFFICES ASSUME TInit PROVE InSlot /\ TimerInv
    OBVIOUS
  <2>1. /\ pt_ts = NsTs(Start) /\ alarm = NsTs(Start) /\ cycles = 0
        /\ lpc = "top" /\ pc = "idle"
    BY DEF TInit, Init
  <2>2. 0 * Interval = 0 /\ Start \in Int
    BY PacingAssumption
  <2> QED
    BY <2>1, <2>2, FromNs DEF TimerInv, TimerDoesNotDrift, InSlot
<1>2. InSlot => NoBacklog
  BY DEF InSlot, NoBacklog
<1>3. TSpec => []TypeOK
  BY TimedIsPaced, TypeCorrect, PTL
<1> QED
  BY <1>1, <1>2, <1>3, TimerStep, SlotStep, PTL DEF TSpec, tvars
-----------------------------------------------------------------------------
\* The invariant behind the reader's sleep: what chan_delay() has worked out takes it
\* to the time the frame is due.
DelayInv ==
  /\ rpc = "cpu" => until.nsec \in Nat /\ until.nsec + now + skew >= held.due
  /\ rpc = "asleep" => \/ now + skew >= held.due
                       \/ TsNs(until) \in Int /\ TsNs(until) + skew >= held.due

\* The time a frame is due is a number.
LEMMA DueType ==
  ASSUME CaptureInv, rpc # "read"
  PROVE  held.due \in Int
<1>1. ptp_capture(held.recv, tai_to_avtp_ns(held.sample)) \in Int
  BY CaptureType DEF CaptureInv
<1> QED
  BY <1>1, TimedChannelAssumption DEF CaptureInv

LEMMA DelayStep == DelayInv /\ CaptureInv /\ CaptureInv' /\ TypeOK /\ [TNext]_tvars => DelayInv'
<1> SUFFICES ASSUME DelayInv, CaptureInv, CaptureInv', TypeOK, [TNext]_tvars PROVE DelayInv'
  OBVIOUS
<1>1. now \in Nat /\ skew \in Int /\ (rpc # "read" => held.due \in Int)
  BY DueType DEF TypeOK, CaptureInv
<1>2. CASE chan_delay_ptp
  <2>1. /\ rpc = "ptp" /\ UNCHANGED <<held, now, skew>> /\ held.due \in Int
        /\ until' = [sec |-> 0, nsec |-> IF held.due < now + skew THEN 0 ELSE held.due - (now + skew)]
        /\ rpc' = IF held.due < now + skew THEN "asleep" ELSE "cpu"
    BY <1>1, <1>2 DEF chan_delay_ptp, vars, ptp_now
  <2>2. CASE held.due < now + skew
    BY <1>1, <2>1, <2>2 DEF DelayInv
  <2>3. CASE ~(held.due < now + skew)
    <3>1. until'.nsec = held.due - (now + skew) /\ rpc' = "cpu"
      BY <2>1, <2>3
    <3>2. until'.nsec \in Nat /\ until'.nsec + now + skew = held.due
      BY <1>1, <2>1, <2>3, <3>1
    <3> QED
      BY <1>1, <2>1, <3>1, <3>2 DEF DelayInv
  <2> QED
    BY <2>2, <2>3
<1>3. CASE chan_delay_cpu
  <2>1. /\ rpc = "cpu" /\ rpc' = "asleep" /\ UNCHANGED <<held, now, skew>>
        /\ until' = ts_add_ns(NsTs(now), until.nsec)
        /\ until.nsec \in Nat /\ until.nsec + now + skew >= held.due
    BY <1>3 DEF chan_delay_cpu, vars, DelayInv
  <2>2. NsTs(now) \in Timespec /\ TsNs(NsTs(now)) = now
    BY <1>1, FromNs
  <2>3. TsNs(until') = now + until.nsec
    BY <2>1, <2>2, AddNs
  <2>4. TsNs(until') \in Int /\ TsNs(until') + skew' >= held'.due
    BY <1>1, <2>1, <2>3
  <2> QED
    BY <2>1, <2>4 DEF DelayInv, TsNs
<1>4. CASE chan_read_wait \/ chan_delay_return
  <2>1. rpc' \in {"ptp", "read"}
    BY <1>4 DEF chan_read_wait, chan_delay_return
  <2> QED
    BY <2>1 DEF DelayInv
<1>5. CASE UNCHANGED <<rpc, held, until, skew>> /\ now' \in {now, now + 1}
  BY <1>1, <1>5 DEF DelayInv, TsNs
<1> QED
  BY <1>2, <1>3, <1>4, <1>5
     DEF TNext, tvars, vars, timedVars, loopVars, rdVars, wait_for_tx_slot, talker_send, talker_sent,
         loop_ends, pt_next_cycle, pacing, receive, tick, Next, chan_send_now, chan_send, send,
         sendmsg, sendmsg_fails, clock_nanosleep

\* "caller will be delayed until capture time + class delay has passed" (netchan.h:668):
\* chan_read_wait() does not return a frame before, for every delay, skew of the clocks
\* and range of the AVTP timestamp, although chan_delay() reads two clocks one after
\* the other.
THEOREM ReaderIsDelayed == TSpec => NotBeforeDue
<1>1. TInit => DelayInv /\ CaptureInv
  BY PacingAssumption, TimedChannelAssumption DEF TInit, Init, CaptureInv, DelayInv
<1>2. TSpec => []TypeOK
  BY TimedIsPaced, TypeCorrect, PTL
<1>3. CaptureInv /\ DelayInv /\ TypeOK /\ CaptureReconstructed =>
        [chan_delay_return /\ InRange(held) => ptp_now >= held.sample + ClassDelay]_tvars
  <2> SUFFICES ASSUME CaptureInv, DelayInv, TypeOK, CaptureReconstructed,
                      chan_delay_return, InRange(held)
               PROVE  ptp_now >= held.sample + ClassDelay
    OBVIOUS
  <2>1. rpc = "asleep" /\ now >= TsNs(until)
    BY DEF chan_delay_return
  <2>2. now \in Nat /\ skew \in Int /\ held.due \in Int /\ held.sample \in Int /\ ClassDelay \in Nat
    BY <2>1, DueType, TimedChannelAssumption DEF TypeOK, CaptureInv
  <2>3. now + skew >= held.due
    BY <2>1, <2>2 DEF DelayInv
  <2>4. held.due - ClassDelay - held.sample \in {0, 1}
    BY <2>1 DEF CaptureReconstructed
  <2> QED
    BY <2>2, <2>3, <2>4 DEF ptp_now
<1> QED
  BY <1>1, <1>2, <1>3, CaptureSurvives, CaptureStep, DelayStep, PTL DEF TSpec, tvars, NotBeforeDue
=============================================================================

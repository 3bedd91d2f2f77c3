---------------------------- MODULE RxPathProofs ----------------------------
(***************************************************************************)
(* The receive path for any number of channels, frames, readers' habits    *)
(* and sizes of pipe, timestamps and payload: records stay whole, the Rx   *)
(* thread is gone before a channel is, chan_read() returns no dummy, and a *)
(* reader of the bare file descriptor has a FIFO.                          *)
(***************************************************************************)
EXTENDS RxPath, SequenceTheorems, TLAPS

InHand == {"stamp", "copy", "write"}

\* What the main thread and the Rx thread know of each other: a frame in hand has
\* been received, a channel is stopping before it is freed, and nh_destroy() has
\* seen the Rx thread exit before it touches a channel.
ControlInv ==
  /\ rx_chan \in use.chans /\ main_chan \in use.chans
  /\ rx_pc \in InHand => nrecv[rx_chan] >= 1
  /\ main_pc \in {"dummy", "free"} => stopping[main_chan]
  /\ \A c \in freed : stopping[c]
  /\ main_pc = "run" => running
  /\ main_pc \in {"join", "destroy", "free", "done"} => ~running
  /\ main_pc \in {"destroy", "free", "done"} \/ (main_pc = "dummy" /\ ~running) => rx_pc = "exited"
  /\ freed # {} => rx_pc = "exited" /\ ~running /\ main_pc # "join"

\* A pipe of p records, each unit at its place.
Whole(s, p) ==
  /\ Len(s) = p * RecSz
  /\ \A q \in 0 .. p - 1 : \A k \in 1 .. RecSz : s[q * RecSz + k][2] = k

\* What is in the pipe of a channel that is not stopping is whole records.  In its
\* callback area the units are at their place as far as the Rx thread has filled it
\* in, and once a reader has read into it.
InPlace(c, n) == \A k \in 1 .. n : meta[c][k][2] = k

Placed(c) ==
  /\ \E p \in Nat : Whole(pipe[c], p)
  /\ rx_chan = c /\ rx_pc = "copy" => InPlace(c, HdrSz)
  /\ (rx_chan = c /\ rx_pc = "write") \/ rd_pc[c] = "got" => InPlace(c, RecSz)

PlacedInv == \A c \in Chans : ~stopping[c] => Placed(c)

\* A stopped channel is ready again only after a talker notice.
ReadyInv == \A c \in Chans : stopping[c] /\ c \notin renewed => ~ready[c]

RxInv == TypeOK /\ ControlInv /\ PlacedInv /\ ReadyInv /\ NoDummyDelivered

\* The reader of c has got n records, which are the first n frames, then short reads.
Got(c, n) ==
  /\ n <= Len(delivered[c])
  /\ \A i \in 1 .. n : delivered[c][i] = Record(i)
  /\ \A i \in n + 1 .. Len(delivered[c]) : Len(delivered[c][i]) < RecSz

\* After the n records its reader has got, the pipe of c holds the next p frames, and
\* behind them at most the dummy of chan_stop().
Waiting(c, n, p) ==
  /\ Len(pipe[c]) \in p * RecSz .. p * RecSz + PaySz
  /\ ~stopping[c] \/ (main_pc = "dummy" /\ main_chan = c) => Len(pipe[c]) = p * RecSz
  /\ \A q \in 0 .. p - 1 : \A k \in 1 .. RecSz : pipe[c][q * RecSz + k] = <<n + q + 1, k>>

\* The frames received for c are those got, those that wait and the one in hand.
Stream(c, n, p) ==
  /\ Got(c, n) /\ Waiting(c, n, p)
  /\ n < Len(delivered[c]) => p = 0 /\ stopping[c]
  /\ nrecv[c] = n + p + (IF rx_chan = c /\ rx_pc \in InHand THEN 1 ELSE 0)

\* What the Rx thread has filled in of the callback area.
InArea(c) ==
  /\ rx_chan = c /\ rx_pc = "copy" => \A k \in 1 .. HdrSz : meta[c][k] = <<nrecv[c], k>>
  /\ rx_chan = c /\ rx_pc = "write" => \A k \in 1 .. RecSz : meta[c][k] = <<nrecv[c], k>>

\* A program that reads the bare file descriptor of a channel calls nh_destroy(), not
\* chan_stop(): nothing keeps the Rx thread from writing more frames behind the dummy
\* of chan_stop(), which is shorter than a record.
FdNotStopped == \A u \in Uses : u.mode = "fd" => "chan_stop" \notin u.calls

\* The pipes of such a program: no channel is stopped while the Rx thread runs.
HasStream(c) == \E n, p \in Nat : Stream(c, n, p)
OpenWhileFed(c) == rx_pc # "exited" => ~stopping[c]
Fifo1(c) == OpenWhileFed(c) /\ rd_pc[c] # "got" /\ InArea(c) /\ HasStream(c)

FifoInv == use.mode = "fd" => \A c \in Chans : Fifo1(c)
-----------------------------------------------------------------------------
\* The sizes are numbers and a channel in use is one of Chans.
LEMMA Sizes ==
  /\ HdrSz \in Nat \ {0} /\ PaySz \in Nat \ {0} /\ RecSz \in Nat \ {0} /\ PipeCap \in Nat
  /\ HdrSz < RecSz /\ PaySz < RecSz
BY RxPathAssumption DEF RecSz

LEMMA UseTypes ==
  ASSUME TypeOK
  PROVE  /\ use.chans \subseteq Chans /\ use.frames \in Nat
         /\ use.mode \in {"chan_read", "fd"} /\ use.srp \in BOOLEAN
BY RxPathAssumption DEF TypeOK

\* What TypeOK says of one channel in use.
LEMMA ChanTypes ==
  ASSUME TypeOK, NEW c \in use.chans
  PROVE  /\ c \in Chans
         /\ pipe[c] \in Seq(Unit) /\ Len(pipe[c]) \in Nat
         /\ delivered[c] \in Seq(Seq(Unit)) /\ Len(delivered[c]) \in Nat
         /\ nrecv \in [Chans -> Nat] /\ nrecv[c] \in Nat
<1>1. c \in Chans /\ use.frames \in Nat
  BY UseTypes
<1>2. pipe[c] \in Seq(Unit) /\ delivered[c] \in Seq(Seq(Unit))
  BY <1>1, Zenon DEF TypeOK
<1>3. nrecv \in [Chans -> 0 .. use.frames]
  BY DEF TypeOK
<1>4. nrecv \in [Chans -> Nat]
  BY <1>1, <1>3
<1>5. QED
  BY <1>1, <1>2, <1>4

\* A frame that has been received consists of units.
LEMMA FrameUnits ==
  ASSUME TypeOK, NEW n \in 1 .. use.frames, NEW k \in 1 .. RecSz
  PROVE  <<n, k>> \in Unit
BY DEF Unit

\* How a channel is used does not change.
LEMMA UseConstant == [Next]_vars => use' = use
BY Zenon DEF Next, RxThread, Reader, Monitor, Main, MainInCall, vars, rxVars, rdVars, srpVars, mainVars,
       nh_runner_frame, nh_runner_nothing, nh_feed_pdu_ts, nh_std_cb_copy, nh_std_cb_write,
       chan_read_call, read_pipe, chan_read_return, nh_notify_listener_Tnew,
       nh_notify_listener_Tleave, app_chan_stop, chan_stop, chan_stop_write, nh_destroy,
       nh_stop_rx_join, nh_destroy_chan, chan_free

\* The control of the Rx thread and of the main thread.
LEMMA ControlStep == TypeOK /\ ControlInv /\ [Next]_vars => ControlInv'
<1> SUFFICES ASSUME TypeOK, ControlInv, [Next]_vars PROVE ControlInv'
  OBVIOUS
<1> USE DEF ControlInv, InHand
<1>0. use' = use /\ use.chans \subseteq Chans
  BY UseConstant, UseTypes
<1>1. ASSUME NEW c \in use.chans, nh_runner_frame(c) PROVE ControlInv'
  BY <1>0, <1>1 DEF nh_runner_frame, TypeOK, mainVars
<1>2. CASE nh_runner_nothing
  BY <1>0, <1>2 DEF nh_runner_nothing, TypeOK, mainVars
<1>3. CASE nh_feed_pdu_ts \/ nh_std_cb_copy \/ nh_std_cb_write
  BY <1>0, <1>3 DEF nh_feed_pdu_ts, nh_std_cb_copy, nh_std_cb_write, TypeOK, mainVars
<1>4. ASSUME NEW c \in use.chans, Reader(c) PROVE ControlInv'
  BY <1>0, <1>4 DEF Reader, chan_read_call, read_pipe, chan_read_return, rxVars, mainVars
<1>5. CASE Monitor
  BY <1>0, <1>5 DEF Monitor, nh_notify_listener_Tnew, nh_notify_listener_Tleave, rxVars, mainVars
<1>6. ASSUME NEW c \in use.chans, app_chan_stop(c) PROVE ControlInv'
  BY <1>0, <1>6 DEF app_chan_stop, chan_stop, rxVars, TypeOK
<1>7. CASE chan_stop_write
  BY <1>0, <1>7 DEF chan_stop_write, rxVars, TypeOK
<1>8. CASE nh_destroy
  BY <1>0, <1>8 DEF nh_destroy, rxVars, TypeOK
<1>9. CASE nh_stop_rx_join
  BY <1>0, <1>9 DEF nh_stop_rx_join, rxVars
<1>10. ASSUME NEW c \in use.chans, nh_destroy_chan(c) PROVE ControlInv'
  BY <1>0, <1>10 DEF nh_destroy_chan, chan_stop, rxVars, TypeOK
<1>11. CASE chan_free
  BY <1>0, <1>11 DEF chan_free, rxVars, TypeOK
<1>12. CASE UNCHANGED vars
  BY <1>12 DEF vars, rxVars, mainVars
<1>13. QED
  BY <1>1, <1>2, <1>3, <1>4, <1>5, <1>6, <1>7, <1>8, <1>9, <1>10, <1>11, <1>12
     DEF Next, RxThread, Main, MainInCall

\* A write to a pipe adds units at its end, ...
LEMMA WriteOp ==
  ASSUME NEW U, NEW s \in Seq(U), NEW n \in Nat, NEW r \in [1 .. n -> U]
  PROVE  /\ s \o r \in Seq(U) /\ Len(s \o r) = Len(s) + n
         /\ \A i \in 1 .. Len(s) : (s \o r)[i] = s[i]
         /\ \A k \in 1 .. n : (s \o r)[Len(s) + k] = r[k]
<1>0. Len(s) \in Nat
  OBVIOUS
<1>1. r \in Seq(U) /\ Len(r) = n
  OBVIOUS
<1>2. /\ s \o r \in Seq(U) /\ Len(s \o r) = Len(s) + Len(r)
      /\ \A i \in 1 .. Len(s) + Len(r) : (s \o r)[i] = IF i <= Len(s) THEN s[i] ELSE r[i - Len(s)]
  BY <1>1, ConcatProperties, Zenon
<1>3. QED
  BY <1>0, <1>1, <1>2

Longer(t, s, r) ==
  /\ Len(t) = Len(s) + RecSz
  /\ \A i \in 1 .. Len(s) : t[i] = s[i]
  /\ \A k \in 1 .. RecSz : t[Len(s) + k] = r[k]

\* ... a whole record for a frame, ...
LEMMA WriteRec ==
  ASSUME NEW U, NEW s \in Seq(U), NEW r \in [1 .. RecSz -> U]
  PROVE  s \o r \in Seq(U) /\ Longer(s \o r, s, r)
<1>1. RecSz \in Nat
  BY Sizes
<1>2. \A x \in Seq(U), y \in [1 .. RecSz -> U] :
        /\ x \o y \in Seq(U) /\ Len(x \o y) = Len(x) + RecSz
        /\ \A i \in 1 .. Len(x) : (x \o y)[i] = x[i]
        /\ \A k \in 1 .. RecSz : (x \o y)[Len(x) + k] = y[k]
  BY <1>1, WriteOp
<1>3. QED
  BY <1>2, Zenon DEF Longer

\* ... and a read takes units from its front.
LEMMA ReadOp ==
  ASSUME NEW U, NEW s \in Seq(U), NEW m \in 0 .. Len(s)
  PROVE  /\ SubSeq(s, 1, m) \in Seq(U) /\ Len(SubSeq(s, 1, m)) = m
         /\ \A i \in 1 .. m : SubSeq(s, 1, m)[i] = s[i]
         /\ SubSeq(s, m + 1, Len(s)) \in Seq(U) /\ Len(SubSeq(s, m + 1, Len(s))) = Len(s) - m
         /\ \A i \in 1 .. Len(s) - m : SubSeq(s, m + 1, Len(s))[i] = s[m + i]
<1>0. Len(s) \in Nat /\ \A i \in 1 .. Len(s) : s[i] \in U
  OBVIOUS
<1>1. /\ SubSeq(s, 1, m) \in Seq(U) /\ Len(SubSeq(s, 1, m)) = m
      /\ \A i \in 1 .. m : SubSeq(s, 1, m)[i] = s[i]
  BY <1>0, SubSeqProperties
<1>2. /\ SubSeq(s, m + 1, Len(s)) \in Seq(U) /\ Len(SubSeq(s, m + 1, Len(s))) = Len(s) - m
      /\ \A i \in 1 .. Len(s) - m : SubSeq(s, m + 1, Len(s))[i] = s[m + i]
  BY <1>0, SubSeqProperties
<1>3. QED
  BY <1>1, <1>2

\* One element of a function is changed.
LEMMA Update ==
  ASSUME NEW A, NEW B, NEW f \in [A -> B], NEW a \in A, NEW b \in B
  PROVE  [f EXCEPT ![a] = b] \in [A -> B]
OBVIOUS

\* Every step keeps the types, and no pipe grows beyond its capacity.
LEMMA TypeStep == TypeOK /\ ControlInv /\ [Next]_vars => TypeOK'
<1> SUFFICES ASSUME TypeOK, ControlInv, [Next]_vars PROVE TypeOK'
  OBVIOUS
<1>0. use' = use /\ use.chans \subseteq Chans /\ use.frames \in Nat /\ Unit' = Unit
  BY UseConstant, UseTypes DEF Unit
<1>z. Zero \in Unit /\ Dummy \in [1 .. PaySz -> Unit]
  BY DEF Unit, Dummy
<1>1. ASSUME NEW c \in use.chans, nh_runner_frame(c) PROVE TypeOK'
  <2>1. nrecv' \in [Chans -> 0 .. use.frames]
    BY <1>0, <1>1 DEF nh_runner_frame, TypeOK
  <2>2. rx_running' \in BOOLEAN
    BY <1>1 DEF nh_runner_frame, TypeOK
  <2> QED
    BY <1>0, <1>1, <2>1, <2>2 DEF nh_runner_frame, TypeOK, rdVars, srpVars, mainVars
<1>2. CASE nh_runner_nothing
  <2>2. rx_running' \in BOOLEAN
    BY <1>2 DEF nh_runner_nothing, TypeOK
  <2> QED
    BY <1>0, <1>2, <2>2 DEF nh_runner_nothing, TypeOK, rdVars, srpVars, mainVars
<1>3. CASE nh_feed_pdu_ts \/ nh_std_cb_copy
  <2>1. nrecv[rx_chan] \in 1 .. use.frames /\ rx_chan \in Chans
    BY <1>0, <1>3 DEF nh_feed_pdu_ts, nh_std_cb_copy, ControlInv, InHand, TypeOK
  <2>2. \A k \in 1 .. RecSz : <<nrecv[rx_chan], k>> \in Unit
    BY <2>1, FrameUnits
  <2>3. meta' \in [Chans -> [1 .. RecSz -> Unit]]
    <3>1. meta \in [Chans -> [1 .. RecSz -> Unit]]
      BY DEF TypeOK
    <3> DEFINE Stamped == [k \in 1 .. RecSz |-> IF k <= HdrSz THEN <<nrecv[rx_chan], k>> ELSE meta[rx_chan][k]]
               Copied == [k \in 1 .. RecSz |-> IF k > HdrSz THEN <<nrecv[rx_chan], k>> ELSE meta[rx_chan][k]]
    <3>2. Stamped \in [1 .. RecSz -> Unit] /\ Copied \in [1 .. RecSz -> Unit]
      BY <2>1, <2>2, <3>1, Zenon
    <3>3. meta' = [meta EXCEPT ![rx_chan] = Stamped] \/ meta' = [meta EXCEPT ![rx_chan] = Copied]
      BY <1>3 DEF nh_feed_pdu_ts, nh_std_cb_copy
    <3> HIDE DEF Stamped, Copied
    <3> QED
      BY <2>1, <3>1, <3>2, <3>3, Update
  <2> QED
    BY <1>0, <1>3, <2>3 DEF nh_feed_pdu_ts, nh_std_cb_copy, TypeOK, rdVars, srpVars, mainVars
<1>4. CASE nh_std_cb_write
  <2>1. /\ pipe[rx_chan] \in Seq(Unit) /\ meta[rx_chan] \in [1 .. RecSz -> Unit] /\ Len(pipe[rx_chan]) \in Nat
    BY DEF TypeOK
  <2>2. /\ pipe[rx_chan] \o meta[rx_chan] \in Seq(Unit)
        /\ Len(pipe[rx_chan] \o meta[rx_chan]) = Len(pipe[rx_chan]) + RecSz
    BY <2>1, WriteRec, Zenon DEF Longer
  <2>3. pipe' \in [Chans -> Seq(Unit)] /\ \A c \in Chans : Len(pipe'[c]) <= PipeCap
    BY <1>4, <2>2 DEF nh_std_cb_write, TypeOK
  <2> QED
    BY <1>0, <1>4, <2>3 DEF nh_std_cb_write, TypeOK, rdVars, srpVars, mainVars
<1>5. ASSUME NEW c \in use.chans, chan_read_call(c) PROVE TypeOK'
  BY <1>0, <1>5 DEF chan_read_call, TypeOK, rxVars, srpVars, mainVars
<1>6. ASSUME NEW c \in use.chans, read_pipe(c) PROVE TypeOK'
  <2> DEFINE m == IF Len(pipe[c]) < RecSz THEN Len(pipe[c]) ELSE RecSz
             units == SubSeq(pipe[c], 1, m)
             rest == SubSeq(pipe[c], m + 1, Len(pipe[c]))
  <2>1. /\ c \in Chans /\ pipe[c] \in Seq(Unit) /\ Len(pipe[c]) \in Nat /\ Len(pipe[c]) <= PipeCap
        /\ meta[c] \in [1 .. RecSz -> Unit] /\ delivered[c] \in Seq(Seq(Unit))
    BY <1>0, <1>6 DEF TypeOK
  <2>2. m \in 0 .. Len(pipe[c])
    BY <2>1, Sizes
  <2>3. /\ pipe' = [pipe EXCEPT ![c] = rest]
        /\ \/ /\ meta' = [meta EXCEPT ![c] = [k \in 1 .. RecSz |-> IF k <= m THEN units[k] ELSE @[k]]]
              /\ rd_pc' = [rd_pc EXCEPT ![c] = "got"] /\ UNCHANGED delivered
           \/ /\ delivered' = [delivered EXCEPT ![c] = Append(@, units)]
              /\ rd_pc' = [rd_pc EXCEPT ![c] = "idle"] /\ UNCHANGED meta
        /\ UNCHANGED <<rxVars, srpVars, mainVars>>
    BY <1>6, Zenon DEF read_pipe
  <2> HIDE DEF m
  <2>4. /\ units \in Seq(Unit) /\ Len(units) = m /\ \A k \in 1 .. m : units[k] = pipe[c][k]
        /\ rest \in Seq(Unit) /\ Len(rest) = Len(pipe[c]) - m
    BY <2>1, <2>2, ReadOp
  <2> HIDE DEF units, rest
  <2>5. pipe' \in [Chans -> Seq(Unit)] /\ \A x \in Chans : Len(pipe'[x]) <= PipeCap
    <3>1. pipe \in [Chans -> Seq(Unit)] /\ \A x \in Chans : Len(pipe[x]) <= PipeCap
      BY DEF TypeOK
    <3>2. Len(rest) <= PipeCap
      BY <2>1, <2>2, <2>4, Sizes
    <3>3. pipe' \in [Chans -> Seq(Unit)]
      BY <2>1, <2>3, <2>4, <3>1, Update
    <3> QED
      BY <2>1, <2>3, <3>1, <3>2, <3>3
  <2>6. meta' \in [Chans -> [1 .. RecSz -> Unit]]
    <3>1. \A k \in 1 .. RecSz : k <= m => units[k] \in Unit
      BY <2>1, <2>2, <2>4
    <3>2. meta \in [Chans -> [1 .. RecSz -> Unit]]
      BY DEF TypeOK
    <3> DEFINE Filled == [k \in 1 .. RecSz |-> IF k <= m THEN units[k] ELSE meta[c][k]]
    <3>3. Filled \in [1 .. RecSz -> Unit]
      BY <2>1, <3>1, Zenon
    <3>4. meta' = [meta EXCEPT ![c] = Filled] \/ meta' = meta
      BY <2>3
    <3> HIDE DEF Filled
    <3> QED
      BY <2>1, <3>2, <3>3, <3>4, Update
  <2>7. delivered' \in [Chans -> Seq(Seq(Unit))] /\ rd_pc' \in [Chans -> {"idle", "blocked", "got"}]
    <3>1. Append(delivered[c], units) \in Seq(Seq(Unit))
      BY <2>1, <2>4, AppendProperties
    <3> QED
      BY <2>1, <2>3, <3>1, Zenon DEF TypeOK
  <2> QED
    BY <1>0, <2>3, <2>5, <2>6, <2>7, Zenon DEF TypeOK, rxVars, srpVars, mainVars
<1>7. ASSUME NEW c \in use.chans, chan_read_return(c) PROVE TypeOK'
  <2>1. c \in Chans /\ meta[c] \in Seq(Unit) /\ delivered[c] \in Seq(Seq(Unit))
    BY <1>0, <1>7, Sizes, IsASeq DEF TypeOK
  <2>2. delivered' \in [Chans -> Seq(Seq(Unit))] /\ rd_pc' \in [Chans -> {"idle", "blocked", "got"}]
    <3>1. Append(delivered[c], meta[c]) \in Seq(Seq(Unit))
      BY <2>1, AppendProperties
    <3> QED
      BY <1>7, <2>1, <3>1, Zenon DEF chan_read_return, TypeOK
  <2> QED
    BY <1>0, <1>7, <2>2 DEF chan_read_return, TypeOK, rxVars, srpVars, mainVars
<1>8. CASE Monitor
  <2>1. ready' \in [Chans -> BOOLEAN]
    BY <1>8, Zenon DEF Monitor, nh_notify_listener_Tnew, nh_notify_listener_Tleave, TypeOK
  <2>2. renewed' \subseteq Chans
    BY <1>0, <1>8 DEF Monitor, nh_notify_listener_Tnew, nh_notify_listener_Tleave, TypeOK
  <2> QED
    BY <1>0, <1>8, <2>1, <2>2
       DEF Monitor, nh_notify_listener_Tnew, nh_notify_listener_Tleave, TypeOK, rxVars, rdVars, mainVars
<1>9. ASSUME NEW c \in use.chans, app_chan_stop(c) \/ nh_destroy_chan(c) PROVE TypeOK'
  <2>1. ready' \in [Chans -> BOOLEAN]
    BY <1>9, Zenon DEF app_chan_stop, nh_destroy_chan, chan_stop, TypeOK
  <2>2. stopping' \in [Chans -> BOOLEAN]
    BY <1>9, Zenon DEF app_chan_stop, nh_destroy_chan, chan_stop, TypeOK
  <2> QED
    BY <1>0, <1>9, <2>1, <2>2 DEF app_chan_stop, nh_destroy_chan, chan_stop, TypeOK, rxVars, rdVars
<1>10. CASE chan_stop_write
  <2>1. pipe[main_chan] \in Seq(Unit) /\ meta[main_chan] \in [1 .. RecSz -> Unit] /\ Len(pipe[main_chan]) \in Nat
    BY DEF TypeOK
  <2>2. /\ pipe[main_chan] \o Dummy \in Seq(Unit)
        /\ Len(pipe[main_chan] \o Dummy) = Len(pipe[main_chan]) + PaySz
    BY <1>z, <2>1, Sizes, WriteOp
  <2>3. pipe' \in [Chans -> Seq(Unit)] /\ \A c \in Chans : Len(pipe'[c]) <= PipeCap
    BY <1>10, <2>2 DEF chan_stop_write, TypeOK
  <2> QED
    BY <1>0, <1>10, <2>3 DEF chan_stop_write, TypeOK, rxVars, rdVars, srpVars
<1>11. CASE nh_destroy
  <2>1. running' \in BOOLEAN
    BY <1>11, Zenon DEF nh_destroy
  <2> QED
    BY <1>0, <1>11, <2>1 DEF nh_destroy, TypeOK, rxVars, rdVars, srpVars
<1>12. CASE nh_stop_rx_join \/ chan_free
  BY <1>0, <1>12 DEF nh_stop_rx_join, chan_free, TypeOK, rxVars, rdVars, srpVars
<1>13. CASE UNCHANGED vars
  BY <1>0, <1>13 DEF vars, TypeOK, rxVars, rdVars, srpVars, mainVars
<1>14. QED
  BY <1>1, <1>2, <1>3, <1>4, <1>5, <1>6, <1>7, <1>8, <1>9, <1>10, <1>11, <1>12, <1>13
     DEF Next, RxThread, Reader, Main, MainInCall

\* Unit k of record q of a pipe of p records is in the pipe.
LEMMA UnitOf ==
  ASSUME NEW p \in Nat, NEW q \in 0 .. p - 1, NEW k \in 1 .. RecSz
  PROVE  q * RecSz + k \in 1 .. p * RecSz /\ q * RecSz \in Nat
<1>1. PICK d \in Nat : p = q + 1 + d
  <2>1. p - q - 1 \in Nat /\ p = q + 1 + (p - q - 1)
    OBVIOUS
  <2> QED
    BY <2>1
<1>2. q \in Nat /\ RecSz \in Nat
  BY Sizes
<1>3. q * RecSz \in Nat /\ d * RecSz \in Nat
  BY <1>1, <1>2
<1>4. p * RecSz = q * RecSz + RecSz + d * RecSz
  BY <1>1, <1>2
<1>5. QED
  BY <1>2, <1>3, <1>4

\* A record of units at their places makes a whole pipe one record longer.
LEMMA WholeWrite ==
  ASSUME NEW U, NEW s \in Seq(U), NEW r \in [1 .. RecSz -> U], NEW p \in Nat,
         Whole(s, p), \A k \in 1 .. RecSz : r[k][2] = k
  PROVE  Whole(s \o r, p + 1)
<1>0. RecSz \in Nat /\ p * RecSz \in Nat /\ (p + 1) * RecSz = p * RecSz + RecSz
  BY Sizes
<1>1. /\ Len(s \o r) = Len(s) + RecSz
      /\ \A i \in 1 .. Len(s) : (s \o r)[i] = s[i]
      /\ \A k \in 1 .. RecSz : (s \o r)[Len(s) + k] = r[k]
  <2>1. Longer(s \o r, s, r)
    BY WriteRec
  <2> QED
    BY <2>1, Zenon DEF Longer
<1>2. Len(s) = p * RecSz
  BY DEF Whole
<1>3. ASSUME NEW q \in 0 .. p, NEW k \in 1 .. RecSz PROVE (s \o r)[q * RecSz + k][2] = k
  <2>1. CASE q = p
    BY <1>1, <1>2, <2>1, Zenon
  <2>2. CASE q \in 0 .. p - 1
    BY <1>1, <1>2, <2>2, UnitOf, Zenon DEF Whole
  <2>3. q = p \/ q \in 0 .. p - 1
    OBVIOUS
  <2> QED
    BY <2>1, <2>2, <2>3, Zenon
<1>4. (p + 1) - 1 = p
  OBVIOUS
<1>5. QED
  BY <1>0, <1>1, <1>2, <1>3, <1>4, Zenon DEF Whole

\* A whole pipe that is not empty gives a read a record, and stays whole.
LEMMA WholeRead ==
  ASSUME NEW U, NEW s \in Seq(U), NEW p \in Nat, Whole(s, p), s # <<>>
  PROVE  /\ p >= 1 /\ RecSz \in 0 .. Len(s)
         /\ \A k \in 1 .. RecSz : s[k][2] = k
         /\ Whole(SubSeq(s, RecSz + 1, Len(s)), p - 1)
<1>0. /\ RecSz \in Nat /\ Len(s) \in Nat /\ Len(s) = p * RecSz /\ Len(s) # 0
  BY Sizes DEF Whole
<1>1. p >= 1
  <2>1. SUFFICES ASSUME p = 0 PROVE FALSE
    OBVIOUS
  <2> QED
    BY <1>0, <2>1
<1>2. PICK d \in Nat : p = d + 1
  <2>1. p - 1 \in Nat /\ p = (p - 1) + 1
    BY <1>1
  <2> QED
    BY <2>1
<1>3. d * RecSz \in Nat /\ p * RecSz = d * RecSz + RecSz
  BY <1>0, <1>2
<1>4. RecSz \in 0 .. Len(s)
  BY <1>0, <1>3
<1>5. \A k \in 1 .. RecSz : s[k][2] = k
  <2>1. TAKE k \in 1 .. RecSz
  <2>2. 0 \in 0 .. p - 1 /\ 0 * RecSz + k = k
    BY <1>0, <1>1
  <2> QED
    BY <2>2 DEF Whole
<1> DEFINE t == SubSeq(s, RecSz + 1, Len(s))
<1>6. /\ Len(t) = Len(s) - RecSz /\ \A i \in 1 .. Len(s) - RecSz : t[i] = s[RecSz + i]
  BY <1>4, ReadOp
<1> HIDE DEF t
<1>7. ASSUME NEW q \in 0 .. d - 1, NEW k \in 1 .. RecSz PROVE t[q * RecSz + k][2] = k
  <2>1. q * RecSz + k \in 1 .. d * RecSz /\ q * RecSz \in Nat
    BY UnitOf, Zenon
  <2>2. t[q * RecSz + k] = s[RecSz + (q * RecSz + k)]
    BY <1>0, <1>3, <1>6, <2>1
  <2>3. RecSz + (q * RecSz + k) = (q + 1) * RecSz + k
    BY <1>0
  <2>4. q + 1 \in 0 .. p - 1
    BY <1>2
  <2> QED
    BY <2>2, <2>3, <2>4 DEF Whole
<1>8. Whole(t, d)
  BY <1>0, <1>3, <1>6, <1>7 DEF Whole
<1>9. p - 1 = d
  BY <1>2
<1>10. QED
  BY <1>1, <1>4, <1>5, <1>8, <1>9 DEF t

\* Record boundaries survive every step.
LEMMA PlacedStep == TypeOK /\ ControlInv /\ PlacedInv /\ [Next]_vars => PlacedInv'
<1> SUFFICES ASSUME TypeOK, ControlInv, PlacedInv, [Next]_vars PROVE PlacedInv'
  OBVIOUS
<1>0. use' = use /\ use.chans \subseteq Chans /\ use.mode \in {"chan_read", "fd"}
  BY UseConstant, UseTypes
<1>1. ASSUME NEW c \in use.chans, nh_runner_frame(c) PROVE PlacedInv'
  BY <1>1 DEF nh_runner_frame, PlacedInv, Placed, InPlace, Whole, rdVars, mainVars
<1>2. CASE nh_runner_nothing
  BY <1>2 DEF nh_runner_nothing, PlacedInv, Placed, InPlace, Whole, rdVars, mainVars
<1>3. CASE nh_feed_pdu_ts \/ nh_std_cb_copy
  <2>1. rx_chan \in Chans /\ meta \in [Chans -> [1 .. RecSz -> Unit]]
    BY DEF TypeOK
  <2>2. /\ rx_pc \in {"stamp", "copy"}
        /\ \A c \in Chans : c # rx_chan => meta'[c] = meta[c]
        /\ \A k \in 1 .. RecSz : meta'[rx_chan][k][2] = k \/ meta'[rx_chan][k] = meta[rx_chan][k]
        /\ rx_pc = "stamp" => rx_pc' = "copy" /\ \A k \in 1 .. HdrSz : meta'[rx_chan][k][2] = k
        /\ rx_pc = "copy" => rx_pc' = "write" /\ \A k \in HdrSz + 1 .. RecSz : meta'[rx_chan][k][2] = k
    BY <1>3, <2>1, Sizes DEF nh_feed_pdu_ts, nh_std_cb_copy
  <2>3. pipe' = pipe /\ rx_chan' = rx_chan /\ rd_pc' = rd_pc /\ stopping' = stopping
    BY <1>3 DEF nh_feed_pdu_ts, nh_std_cb_copy, rdVars, mainVars
  <2>4. ASSUME NEW c \in Chans, ~stopping[c], Placed(c) PROVE Placed(c)'
    <3>1. (\E p \in Nat : Whole(pipe[c], p))'
      BY <2>3, <2>4 DEF Placed, Whole
    <3>2. CASE c # rx_chan
      BY <2>2, <2>3, <2>4, <3>1, <3>2 DEF Placed, InPlace
    <3>3. CASE c = rx_chan /\ rx_pc = "stamp"
      <4>1. InPlace(c, HdrSz)'
        BY <2>2, <3>3 DEF InPlace
      <4>2. rd_pc[c] = "got" => InPlace(c, RecSz)'
        BY <2>2, <2>4, <3>3 DEF Placed, InPlace
      <4> QED
        BY <2>2, <2>3, <3>1, <3>3, <4>1, <4>2 DEF Placed
    <3>4. CASE c = rx_chan /\ rx_pc = "copy"
      <4>1. InPlace(c, RecSz)'
        BY <2>2, <2>4, <3>4, Sizes DEF Placed, InPlace
      <4> QED
        BY <2>2, <2>3, <3>1, <3>4, <4>1 DEF Placed
    <3> QED
      BY <2>2, <3>2, <3>3, <3>4
  <2> QED
    BY <2>3, <2>4 DEF PlacedInv
<1>4. CASE nh_std_cb_write
  <2>1. /\ rx_chan \in Chans /\ pipe \in [Chans -> Seq(Unit)] /\ pipe[rx_chan] \in Seq(Unit)
        /\ meta[rx_chan] \in [1 .. RecSz -> Unit]
    BY DEF TypeOK
  <2>2. /\ rx_pc = "write" /\ rx_pc' \in {"recv", "exited"}
        /\ pipe' = [pipe EXCEPT ![rx_chan] = pipe[rx_chan] \o meta[rx_chan]]
        /\ UNCHANGED <<rx_chan, meta, rd_pc, stopping>>
    BY <1>4 DEF nh_std_cb_write, rdVars, mainVars
  <2>3. ASSUME ~stopping[rx_chan] PROVE \E p \in Nat : Whole(pipe[rx_chan] \o meta[rx_chan], p)
    <3>1. PICK p \in Nat : Whole(pipe[rx_chan], p)
      BY <2>1, <2>3 DEF PlacedInv, Placed
    <3>2. \A k \in 1 .. RecSz : meta[rx_chan][k][2] = k
      BY <2>1, <2>2, <2>3 DEF PlacedInv, Placed, InPlace
    <3>3. Whole(pipe[rx_chan] \o meta[rx_chan], p + 1)
      BY <2>1, <3>1, <3>2, WholeWrite
    <3> QED
      BY <3>1, <3>3
  <2>4. ASSUME NEW c \in Chans, ~stopping[c], Placed(c) PROVE Placed(c)'
    <3>1. \E p \in Nat : Whole(pipe'[c], p)
      BY <2>1, <2>2, <2>3, <2>4 DEF Placed
    <3>2. Whole(pipe[c], 0)' = Whole(pipe'[c], 0)
      BY DEF Whole
    <3> QED
      BY <2>2, <2>4, <3>1, Zenon DEF Placed, InPlace, Whole
  <2> QED
    BY <2>2, <2>4 DEF PlacedInv
<1>5. ASSUME NEW c \in use.chans, chan_read_call(c) \/ chan_read_return(c) PROVE PlacedInv'
  <2>1. /\ rd_pc \in [Chans -> {"idle", "blocked", "got"}]
        /\ rd_pc' = [rd_pc EXCEPT ![c] = "blocked"] \/ rd_pc' = [rd_pc EXCEPT ![c] = "idle"]
        /\ UNCHANGED <<rx_pc, rx_chan, pipe, meta, stopping>>
    BY <1>5 DEF chan_read_call, chan_read_return, TypeOK, rxVars, mainVars
  <2>2. \A x \in Chans : rd_pc'[x] = "got" => rd_pc[x] = "got"
    BY <1>0, <2>1
  <2>3. ASSUME NEW x \in Chans, Placed(x) PROVE Placed(x)'
    BY <2>1, <2>2, <2>3 DEF Placed, InPlace, Whole
  <2> QED
    BY <2>1, <2>3 DEF PlacedInv
<1>6. ASSUME NEW c \in use.chans, read_pipe(c) PROVE PlacedInv'
  <2>1. /\ c \in Chans /\ pipe \in [Chans -> Seq(Unit)] /\ pipe[c] \in Seq(Unit)
        /\ meta \in [Chans -> [1 .. RecSz -> Unit]] /\ rd_pc \in [Chans -> {"idle", "blocked", "got"}]
        /\ Len(pipe[c]) \in Nat
    BY <1>0, <1>6 DEF TypeOK
  <2>2. /\ UNCHANGED <<rx_pc, rx_chan, stopping>> /\ (pipe[c] # <<>> \/ c \in freed)
        /\ rd_pc[c] = "blocked"
    BY <1>6 DEF read_pipe, rxVars, mainVars
  <2>3. ASSUME NEW x \in Chans, x # c, Placed(x) PROVE Placed(x)'
    <3>1. pipe'[x] = pipe[x] /\ meta'[x] = meta[x] /\ rd_pc'[x] = rd_pc[x]
      BY <1>6, <2>1, <2>3 DEF read_pipe
    <3> QED
      BY <2>2, <2>3, <3>1 DEF Placed, InPlace, Whole
  <2>4. ASSUME ~stopping[c] PROVE Placed(c)'
    <3>1. PICK p \in Nat : Whole(pipe[c], p)
      BY <2>1, <2>4 DEF PlacedInv, Placed
    <3>2. pipe[c] # <<>>
      BY <2>2, <2>4 DEF ControlInv
    <3>3. /\ p >= 1 /\ RecSz \in 0 .. Len(pipe[c])
          /\ \A k \in 1 .. RecSz : pipe[c][k][2] = k
          /\ Whole(SubSeq(pipe[c], RecSz + 1, Len(pipe[c])), p - 1)
      BY <2>1, <3>1, <3>2, WholeRead
    <3>4. (IF Len(pipe[c]) < RecSz THEN Len(pipe[c]) ELSE RecSz) = RecSz
      BY <2>1, <3>3, Sizes
    <3>5. pipe' = [pipe EXCEPT ![c] = SubSeq(pipe[c], RecSz + 1, Len(pipe[c]))]
      BY <1>6, <3>4, Zenon DEF read_pipe
    <3>6. \A k \in 1 .. RecSz : SubSeq(pipe[c], 1, RecSz)[k] = pipe[c][k]
      BY <2>1, <3>3, ReadOp
    <3>7. \/ rd_pc'[c] = "got" /\ \A k \in 1 .. RecSz : meta'[c][k] = SubSeq(pipe[c], 1, RecSz)[k]
          \/ rd_pc'[c] = "idle" /\ meta' = meta
      <4>1. CASE use.mode = "chan_read"
        <5>1. /\ rd_pc' = [rd_pc EXCEPT ![c] = "got"]
              /\ meta' = [meta EXCEPT ![c] = [k \in 1 .. RecSz |->
                            IF k <= RecSz THEN SubSeq(pipe[c], 1, RecSz)[k] ELSE meta[c][k]]]
          BY <1>6, <3>4, <4>1, Zenon DEF read_pipe
        <5> QED
          BY <2>1, <5>1, Sizes
      <4>2. CASE use.mode # "chan_read"
        BY <1>6, <2>1, <4>2 DEF read_pipe
      <4> QED
        BY <4>1, <4>2, Zenon
    <3>8. (\E r \in Nat : Whole(pipe[c], r))'
      <4>1. p - 1 \in Nat /\ pipe'[c] = SubSeq(pipe[c], RecSz + 1, Len(pipe[c]))
        BY <2>1, <3>3, <3>5
      <4>2. Whole(pipe'[c], p - 1)
        BY <3>3, <4>1
      <4> QED
        BY <4>1, <4>2, Zenon DEF Whole
    <3>9. InPlace(c, HdrSz)' \/ meta' = meta
      BY <3>3, <3>6, <3>7, Sizes DEF InPlace
    <3>10. InPlace(c, RecSz)' \/ (meta' = meta /\ rd_pc'[c] = "idle")
      BY <3>3, <3>6, <3>7, Sizes DEF InPlace
    <3>11. Placed(c)
      BY <2>1, <2>4 DEF PlacedInv
    <3> QED
      BY <2>2, <3>8, <3>9, <3>10, <3>11 DEF Placed, InPlace
  <2> QED
    BY <2>2, <2>3, <2>4 DEF PlacedInv
<1>7. CASE Monitor \/ nh_destroy \/ nh_stop_rx_join \/ chan_free \/ UNCHANGED vars
  BY <1>7 DEF Monitor, nh_notify_listener_Tnew, nh_notify_listener_Tleave, nh_destroy, nh_stop_rx_join,
              chan_free, PlacedInv, Placed, InPlace, Whole, vars, rxVars, rdVars, mainVars
<1>8. ASSUME NEW c \in use.chans, app_chan_stop(c) \/ nh_destroy_chan(c) PROVE PlacedInv'
  <2>1. /\ stopping' = [stopping EXCEPT ![c] = TRUE]
        /\ UNCHANGED <<rx_pc, rx_chan, pipe, meta, rd_pc>>
    BY <1>8 DEF app_chan_stop, nh_destroy_chan, chan_stop, rxVars, rdVars
  <2>2. \A x \in Chans : ~stopping'[x] => ~stopping[x]
    BY <1>0, <2>1 DEF TypeOK
  <2>3. ASSUME NEW x \in Chans, Placed(x) PROVE Placed(x)'
    BY <2>1, <2>3 DEF Placed, InPlace, Whole
  <2> QED
    BY <2>2, <2>3 DEF PlacedInv
<1>9. CASE chan_stop_write
  <2>1. /\ stopping[main_chan] /\ UNCHANGED <<rx_pc, rx_chan, meta, rd_pc, stopping>>
        /\ \A x \in Chans : x # main_chan => pipe'[x] = pipe[x]
    BY <1>9 DEF chan_stop_write, ControlInv, TypeOK, rxVars, rdVars
  <2>2. ASSUME NEW x \in Chans, ~stopping[x], Placed(x) PROVE Placed(x)'
    BY <2>1, <2>2 DEF Placed, InPlace, Whole
  <2> QED
    BY <2>1, <2>2 DEF PlacedInv
<1>10. QED
  BY <1>1, <1>2, <1>3, <1>4, <1>5, <1>6, <1>7, <1>8, <1>9
     DEF Next, RxThread, Reader, Main, MainInCall

\* A channel that has been stopped is made ready only by a notice, which is recorded.
LEMMA ReadyStep == TypeOK /\ ReadyInv /\ [Next]_vars => ReadyInv'
<1> SUFFICES ASSUME TypeOK, ReadyInv, [Next]_vars PROVE ReadyInv'
  OBVIOUS
<1>0. use.chans \subseteq Chans
  BY UseTypes
<1>1. ASSUME NEW c \in use.chans, nh_notify_listener_Tnew(c) PROVE ReadyInv'
  BY <1>0, <1>1 DEF nh_notify_listener_Tnew, ReadyInv, TypeOK, mainVars
<1>2. ASSUME NEW c \in use.chans, nh_notify_listener_Tleave(c) PROVE ReadyInv'
  BY <1>0, <1>2 DEF nh_notify_listener_Tleave, ReadyInv, TypeOK, mainVars
<1>3. ASSUME NEW c \in use.chans, app_chan_stop(c) \/ nh_destroy_chan(c) PROVE ReadyInv'
  BY <1>0, <1>3, Zenon DEF app_chan_stop, nh_destroy_chan, chan_stop, ReadyInv, TypeOK
<1>4. CASE UNCHANGED <<ready, stopping, renewed>>
  BY <1>4 DEF ReadyInv
<1>5. CASE RxThread \/ (\E c \in use.chans : Reader(c))
  BY <1>4, <1>5, Zenon DEF RxThread, nh_runner_frame, nh_runner_nothing, nh_feed_pdu_ts, nh_std_cb_copy,
                    nh_std_cb_write, Reader, chan_read_call, read_pipe, chan_read_return, srpVars, mainVars
<1>6. CASE chan_stop_write \/ nh_destroy \/ nh_stop_rx_join \/ chan_free \/ UNCHANGED vars
  BY <1>4, <1>6, Zenon DEF chan_stop_write, nh_destroy, nh_stop_rx_join, chan_free, vars, srpVars, mainVars
<1>7. QED
  BY <1>1, <1>2, <1>3, <1>5, <1>6 DEF Next, Monitor, Main, MainInCall

\* Only a record with its units in place is returned by chan_read() on a live channel
\* that no notice has renewed: the channel was not stopping when the record was read.
LEMMA NoDummyStep ==
  TypeOK /\ PlacedInv /\ ReadyInv /\ NoDummyDelivered /\ [Next]_vars => NoDummyDelivered'
<1> SUFFICES ASSUME TypeOK, PlacedInv, ReadyInv, NoDummyDelivered, [Next]_vars, use.mode = "chan_read"
             PROVE  NoDummyDelivered'
  BY UseConstant DEF NoDummyDelivered
<1>0. use' = use /\ use.chans \subseteq Chans
  BY UseConstant, UseTypes
<1>1. freed \subseteq freed' /\ renewed \subseteq renewed'
  BY Zenon DEF Next, RxThread, Reader, Monitor, Main, MainInCall, vars, rxVars, rdVars, srpVars, mainVars,
         nh_runner_frame, nh_runner_nothing, nh_feed_pdu_ts, nh_std_cb_copy, nh_std_cb_write,
         chan_read_call, read_pipe, chan_read_return, nh_notify_listener_Tnew,
         nh_notify_listener_Tleave, app_chan_stop, chan_stop, chan_stop_write, nh_destroy,
         nh_stop_rx_join, nh_destroy_chan, chan_free
<1>2. CASE delivered' = delivered
  BY <1>0, <1>1, <1>2 DEF NoDummyDelivered
<1>3. ASSUME NEW c \in use.chans, chan_read_return(c) PROVE NoDummyDelivered'
  <2>1. /\ c \in Chans /\ delivered \in [Chans -> Seq(Seq(Unit))] /\ meta[c] \in [1 .. RecSz -> Unit]
        /\ meta[c] \in Seq(Unit) /\ RecSz \in Nat
    BY <1>0, <1>3, Sizes DEF TypeOK
  <2>2. ASSUME c \notin freed \cup renewed, chan_valid(c) PROVE Zero \notin Range(meta[c])
    <3>1. InPlace(c, RecSz)
      BY <1>3, <2>1, <2>2, Zenon DEF chan_read_return, chan_valid, ReadyInv, PlacedInv, Placed
    <3>2. \A k \in 1 .. RecSz : meta[c][k] # Zero
      <4>1. TAKE k \in 1 .. RecSz
      <4>2. meta[c][k][2] = k /\ k # 0 /\ Zero[2] = 0
        BY <2>1, <3>1 DEF InPlace, Zero
      <4> QED
        BY <4>2
    <3> QED
      BY <2>1, <3>2 DEF Range
  <2>3. CASE delivered' = [delivered EXCEPT ![c] = Append(delivered[c], meta[c])] /\ (chan_valid(c) \/ c \in freed)
    <3>1. /\ Len(delivered[c]) \in Nat /\ Append(delivered[c], meta[c]) \in Seq(Seq(Unit))
          /\ Len(Append(delivered[c], meta[c])) = Len(delivered[c]) + 1
          /\ \A i \in 1 .. Len(delivered[c]) : Append(delivered[c], meta[c])[i] = delivered[c][i]
          /\ Append(delivered[c], meta[c])[Len(delivered[c]) + 1] = meta[c]
      BY <2>1, AppendProperties
    <3>2. \A x \in Chans : x # c => delivered'[x] = delivered[x]
      BY <2>1, <2>3
    <3>3. delivered'[c] = Append(delivered[c], meta[c])
      BY <2>1, <2>3
    <3>4. ASSUME c \notin freed \cup renewed, NEW i \in DOMAIN delivered'[c]
          PROVE  Zero \notin Range(delivered'[c][i])
      <4>1. i \in 1 .. Len(delivered[c]) \/ i = Len(delivered[c]) + 1
        BY <3>1, <3>3, <3>4
      <4>2. CASE i \in 1 .. Len(delivered[c])
        BY <2>1, <3>1, <3>3, <3>4, <4>2 DEF NoDummyDelivered
      <4>3. CASE i = Len(delivered[c]) + 1
        BY <2>2, <2>3, <3>1, <3>3, <3>4, <4>3
      <4> QED
        BY <4>1, <4>2, <4>3
    <3> QED
      BY <1>0, <1>1, <3>2, <3>4 DEF NoDummyDelivered
  <2> QED
    BY <1>2, <1>3, <2>3 DEF chan_read_return
<1>4. CASE RxThread \/ Monitor \/ Main \/ UNCHANGED vars
  BY <1>2, <1>4, Zenon
     DEF RxThread, nh_runner_frame, nh_runner_nothing, nh_feed_pdu_ts, nh_std_cb_copy, nh_std_cb_write,
         Monitor, nh_notify_listener_Tnew, nh_notify_listener_Tleave, Main, MainInCall, app_chan_stop,
         chan_stop, chan_stop_write, nh_destroy, nh_stop_rx_join, nh_destroy_chan, chan_free,
         vars, rdVars
<1>5. ASSUME NEW c \in use.chans, chan_read_call(c) \/ read_pipe(c) PROVE NoDummyDelivered'
  BY <1>2, <1>5 DEF chan_read_call, read_pipe
<1>6. QED
  BY <1>3, <1>4, <1>5 DEF Next, Reader

LEMMA InitRxInv == Init => RxInv
<1> SUFFICES ASSUME Init PROVE RxInv
  OBVIOUS
<1>0. use \in Uses /\ use.chans \subseteq Chans /\ use.frames \in Nat /\ use.srp \in BOOLEAN
  BY RxPathAssumption DEF Init
<1>1. TypeOK
  <2>1. /\ nrecv \in [Chans -> 0 .. use.frames]
        /\ rx_chan \in Chans /\ main_chan \in Chans
        /\ rd_pc \in [Chans -> {"idle", "blocked", "got"}]
    BY <1>0 DEF Init
  <2>2. Zero \in Unit
    BY DEF Unit
  <2>3. meta \in [Chans -> [1 .. RecSz -> Unit]]
    BY <2>2 DEF Init
  <2>4. /\ pipe \in [Chans -> Seq(Unit)] /\ \A c \in Chans : Len(pipe[c]) <= PipeCap
        /\ delivered \in [Chans -> Seq(Seq(Unit))]
    BY Sizes DEF Init
  <2>5. /\ ready \in [Chans -> BOOLEAN] /\ stopping \in [Chans -> BOOLEAN]
    BY DEF Init
  <2>6. /\ running \in BOOLEAN /\ rx_running \in BOOLEAN
    BY DEF Init
  <2>7. /\ use \in Uses /\ rx_pc = "recv" /\ main_pc = "run" /\ renewed = {} /\ freed = {}
    BY DEF Init
  <2> QED
    BY <2>1, <2>3, <2>4, <2>5, <2>6, <2>7 DEF TypeOK
<1>2. ControlInv
  BY DEF Init, ControlInv, InHand
<1>3. PlacedInv
  <2>1. ASSUME NEW c \in Chans PROVE Placed(c)
    <3>1. Whole(pipe[c], 0)
      <4>1. pipe[c] = <<>> /\ 0 * RecSz = 0
        BY Sizes DEF Init
      <4> QED
        BY <4>1 DEF Whole
    <3>2. rx_pc = "recv" /\ rd_pc[c] = "idle"
      BY DEF Init
    <3> QED
      BY <3>1, <3>2 DEF Placed
  <2> QED
    BY <2>1 DEF PlacedInv
<1>4. ReadyInv /\ NoDummyDelivered
  BY DEF Init, ReadyInv, NoDummyDelivered
<1>5. QED
  BY <1>1, <1>2, <1>3, <1>4 DEF RxInv

\* The receive path keeps RxInv, whatever channels, frames and sizes there are and
\* however the Rx thread, the readers, the SRP monitor and the main thread interleave.
THEOREM RxInductive == Spec => []RxInv
<1>1. RxInv /\ [Next]_vars => RxInv'
  BY TypeStep, ControlStep, PlacedStep, ReadyStep, NoDummyStep DEF RxInv
<1>2. QED
  BY <1>1, InitRxInv, PTL DEF Spec

\* The blocking write() of nh_std_cb() and the read() of the readers never take a pipe
\* beyond its capacity, and every unit in a pipe, a callback area or a reader's buffer
\* is one of a received frame or of the dummy.
THEOREM PipesWithinCapacity == Spec => []TypeOK
<1>1. RxInv => TypeOK
  BY DEF RxInv
<1>2. QED
  BY <1>1, RxInductive, PTL

\* nh_destroy() joins the Rx thread before it frees a channel, so nh_feed_pdu_ts() and
\* nh_std_cb() never run on a freed one.
THEOREM RxThreadOutlived == Spec => []RxThreadUsesLiveChannels
<1>1. RxInv => RxThreadUsesLiveChannels
  BY DEF RxInv, ControlInv, RxThreadUsesLiveChannels
<1>2. QED
  BY <1>1, RxInductive, PTL

\* chan_read() returns none of the bytes chan_stop() wrote to release it.
THEOREM DummyIsDropped == Spec => []NoDummyDelivered
<1>1. RxInv => NoDummyDelivered
  BY DEF RxInv
<1>2. QED
  BY <1>1, RxInductive, PTL

\* Division with remainder.
LEMMA DivMod ==
  ASSUME NEW a \in Int, NEW m \in Nat \ {0}
  PROVE  \E q \in Int, r \in 0 .. m - 1 :
           q = a \div m /\ r = a % m /\ a = q * m + r
<1>1. a \div m \in Int /\ a % m \in 0 .. m - 1
  OBVIOUS
<1>2. a - m * (a \div m) = a % m
  OBVIOUS
<1>3. ASSUME NEW q \in Int, NEW r \in Int, a - m * q = r PROVE a = q * m + r
  <2>1. PICK x \in Int : x = m * q /\ x = q * m
    OBVIOUS
  <2>2. a = x + r
    BY <1>3, <2>1
  <2> QED
    BY <2>1, <2>2
<1>4. PICK q \in Int, r \in 0 .. m - 1 : q = a \div m /\ r = a % m
  BY <1>1
<1>5. a = q * m + r
  BY <1>2, <1>3, <1>4
<1> QED
  BY <1>4, <1>5

\* A number has one quotient and one remainder.
LEMMA SameRemainder ==
  ASSUME NEW q \in Int, NEW p \in Int, NEW m \in Nat \ {0},
         NEW r \in 0 .. m - 1, NEW s \in 0 .. m - 1, q * m + r = p * m + s
  PROVE  q = p /\ r = s
<1>1. (q - p) * m = s - r /\ q * m \in Int /\ p * m \in Int /\ (p - q) * m = r - s
  OBVIOUS
<1>2. CASE q - p >= 1
  <2>1. (q - p) * m >= m
    BY <1>2
  <2> QED BY <1>1, <2>1
<1>3. CASE p - q >= 1
  <2>1. (p - q) * m >= m
    BY <1>3
  <2> QED BY <1>1, <2>1
<1> QED
  BY <1>1, <1>2, <1>3

\* The quotient of a number below p * m is below p.
LEMMA Quotient ==
  ASSUME NEW p \in Nat, NEW m \in Nat \ {0}, NEW q \in Int, NEW r \in 0 .. m - 1,
         q * m + r >= 0, q * m + r < p * m
  PROVE  q \in 0 .. p - 1
<1>0. q * m \in Int /\ p * m \in Int /\ (q - p) * m = q * m - p * m
  OBVIOUS
<1>1. CASE q < 0
  <2>1. q * m <= -m
    BY <1>1
  <2> QED BY <1>0, <2>1
<1>2. CASE q >= p
  <2>1. (q - p) * m >= 0
    BY <1>2
  <2> QED BY <1>0, <2>1
<1> QED
  BY <1>1, <1>2

\* Until chan_stop() writes its dummy, the pipe of a channel holds whole records with
\* every unit at its place: the two threads that share cbp->meta never shift a record.
THEOREM RecordsStayAligned == Spec => []PipeAligned
<1>1. ASSUME RxInv, NEW c \in Chans, ~stopping[c]
      PROVE  /\ Len(pipe[c]) % RecSz = 0
             /\ \A i \in DOMAIN pipe[c] : pipe[c][i][2] = ((i - 1) % RecSz) + 1
  <2>0. pipe[c] \in Seq(Unit) /\ RecSz \in Nat \ {0}
    BY <1>1, Sizes DEF RxInv, TypeOK
  <2>1. PICK p \in Nat : Whole(pipe[c], p)
    BY <1>1 DEF RxInv, PlacedInv, Placed
  <2>2. Len(pipe[c]) = p * RecSz /\ p * RecSz \in Nat /\ DOMAIN pipe[c] = 1 .. p * RecSz
    BY <2>0, <2>1 DEF Whole
  <2>3. (p * RecSz) % RecSz = 0
    <3>0. PICK n \in Int : n = p * RecSz
      BY <2>2
    <3>1. PICK q \in Int, r \in 0 .. RecSz - 1 : q = n \div RecSz /\ r = n % RecSz /\ n = q * RecSz + r
      BY <2>0, <3>0, DivMod, Zenon
    <3>2. p * RecSz + 0 = q * RecSz + r /\ 0 \in 0 .. RecSz - 1
      BY <2>0, <2>2, <3>0, <3>1
    <3>3. r = 0
      <4>1. \A s \in 0 .. RecSz - 1 : p * RecSz + s = q * RecSz + r => s = r
        BY <2>0, <2>1, <3>1, SameRemainder
      <4> QED
        BY <3>2, <4>1
    <3> QED
      BY <3>0, <3>1, <3>3
  <2>4. ASSUME NEW i \in 1 .. p * RecSz PROVE pipe[c][i][2] = ((i - 1) % RecSz) + 1
    <3>1. PICK q \in Int, r \in 0 .. RecSz - 1 :
            q = (i - 1) \div RecSz /\ r = (i - 1) % RecSz /\ i - 1 = q * RecSz + r
      BY <2>0, DivMod
    <3>2. q \in 0 .. p - 1
      BY <2>0, <2>2, <3>1, Quotient
    <3>3. r + 1 \in 1 .. RecSz /\ i = q * RecSz + (r + 1)
      BY <2>0, <3>1
    <3>4. pipe[c][q * RecSz + (r + 1)][2] = r + 1
      BY <2>1, <3>2, <3>3 DEF Whole
    <3> QED
      BY <3>1, <3>3, <3>4, Zenon
  <2> QED
    BY <2>2, <2>3, <2>4
<1>2. RxInv => PipeAligned
  BY <1>1 DEF PipeAligned
<1>3. QED
  BY <1>2, RxInductive, PTL
-----------------------------------------------------------------------------
(* The FIFO. *)

\* A write adds the frame in hand behind the frames that wait.
LEMMA WaitingWrite ==
  ASSUME TypeOK, ControlInv, NEW c \in Chans, NEW n \in Nat, NEW p \in Nat, Waiting(c, n, p), ~stopping[c],
         nh_std_cb_write, rx_chan = c, \A k \in 1 .. RecSz : meta[c][k] = <<n + p + 1, k>>
  PROVE  Waiting(c, n, p + 1)'
<1> DEFINE s == pipe[c]
           t == pipe[c] \o meta[c]
<1>0. RecSz \in Nat /\ PaySz \in Nat /\ p * RecSz \in Nat /\ (p + 1) * RecSz = p * RecSz + RecSz
  BY Sizes
<1>1. s \in Seq(Unit) /\ meta[c] \in [1 .. RecSz -> Unit] /\ Len(s) = p * RecSz
  BY DEF TypeOK, Waiting
<1>2. pipe'[c] = t
  BY DEF nh_std_cb_write, TypeOK
<1>3. /\ Len(t) = Len(s) + RecSz
      /\ \A i \in 1 .. Len(s) : t[i] = s[i]
      /\ \A k \in 1 .. RecSz : t[Len(s) + k] = meta[c][k]
  <2>1. Longer(t, s, meta[c])
    BY <1>1, WriteRec
  <2> HIDE DEF t
  <2> QED
    BY <2>1 DEF Longer
<1> HIDE DEF t
<1>4. ASSUME NEW q \in 0 .. p, NEW k \in 1 .. RecSz PROVE t[q * RecSz + k] = <<n + q + 1, k>>
  <2>1. CASE q = p
    BY <1>1, <1>3, <2>1
  <2>2. CASE q \in 0 .. p - 1
    BY <1>1, <1>3, <2>2, UnitOf, Zenon DEF Waiting
  <2>3. q = p \/ q \in 0 .. p - 1
    OBVIOUS
  <2> QED
    BY <2>1, <2>2, <2>3
<1>5. (p + 1) - 1 = p
  OBVIOUS
<1>6. Len(t) = (p + 1) * RecSz /\ Len(t) \in Len(t) .. Len(t) + PaySz
  BY <1>0, <1>1, <1>3
<1>7. /\ Len(t) \in (p + 1) * RecSz .. (p + 1) * RecSz + PaySz
      /\ Len(t) = (p + 1) * RecSz
  BY <1>6
<1>8. \A q \in 0 .. (p + 1) - 1 : \A k \in 1 .. RecSz : t[q * RecSz + k] = <<n + q + 1, k>>
  BY <1>4, <1>5
<1>9. QED
  BY <1>2, <1>7, <1>8 DEF Waiting

\* chan_stop() adds its dummy behind the frames that wait.
LEMMA WaitingDummy ==
  ASSUME TypeOK, NEW c \in Chans, NEW n \in Nat, NEW p \in Nat, Waiting(c, n, p),
         chan_stop_write, main_chan = c, stopping[c]
  PROVE  Waiting(c, n, p)'
<1> DEFINE s == pipe[c]
           t == pipe[c] \o Dummy
<1>0. PaySz \in Nat /\ RecSz \in Nat
  BY Sizes
<1>1. s \in Seq(Unit) /\ Dummy \in [1 .. PaySz -> Unit] /\ Len(s) = p * RecSz /\ Len(s) \in Nat
  BY DEF TypeOK, Waiting, chan_stop_write, Dummy, Unit
<1>2. pipe'[c] = t /\ stopping' = stopping /\ main_pc' # "dummy"
  BY DEF chan_stop_write, TypeOK
<1>3. Len(t) = Len(s) + PaySz /\ \A i \in 1 .. Len(s) : t[i] = s[i]
  <2>1. \A x \in Seq(Unit), y \in [1 .. PaySz -> Unit] :
          Len(x \o y) = Len(x) + PaySz /\ \A i \in 1 .. Len(x) : (x \o y)[i] = x[i]
    BY <1>0, WriteOp
  <2> QED
    BY <1>1, <2>1
<1> HIDE DEF t
<1>4. Len(t) \in Len(s) .. Len(s) + PaySz
  BY <1>0, <1>1, <1>3
<1>5. Len(t) \in p * RecSz .. p * RecSz + PaySz
  BY <1>1, <1>4
<1>6. ASSUME NEW q \in 0 .. p - 1, NEW k \in 1 .. RecSz PROVE t[q * RecSz + k] = <<n + q + 1, k>>
  BY <1>1, <1>3, UnitOf, Zenon DEF Waiting
<1>7. QED
  BY <1>2, <1>5, <1>6 DEF Waiting

\* A read takes the first of the frames that wait, and all of it.
LEMMA WaitingRead ==
  ASSUME NEW s \in Seq(Unit), NEW n \in Nat, NEW p \in Nat \ {0}, Len(s) >= p * RecSz,
         \A q \in 0 .. p - 1 : \A k \in 1 .. RecSz : s[q * RecSz + k] = <<n + q + 1, k>>
  PROVE  /\ RecSz \in 0 .. Len(s)
         /\ SubSeq(s, 1, RecSz) = Record(n + 1)
         /\ p * RecSz = (p - 1) * RecSz + RecSz /\ (p - 1) * RecSz \in Nat
         /\ Len(SubSeq(s, RecSz + 1, Len(s))) = Len(s) - RecSz
         /\ \A q \in 0 .. p - 2 : \A k \in 1 .. RecSz :
              SubSeq(s, RecSz + 1, Len(s))[q * RecSz + k] = <<n + q + 2, k>>
<1>0. RecSz \in Nat /\ Len(s) \in Nat
  BY Sizes
<1>1. PICK d \in Nat : p = d + 1
  <2>1. p - 1 \in Nat /\ p = (p - 1) + 1
    OBVIOUS
  <2> QED
    BY <2>1
<1>2. d * RecSz \in Nat /\ p * RecSz = d * RecSz + RecSz
  BY <1>0, <1>1
<1>3. RecSz \in 0 .. Len(s)
  BY <1>0, <1>2
<1>4. SubSeq(s, 1, RecSz) = Record(n + 1)
  <2>1. \A k \in 1 .. RecSz : s[k] = <<n + 1, k>>
    <3>1. TAKE k \in 1 .. RecSz
    <3>2. 0 \in 0 .. p - 1 /\ 0 * RecSz + k = k /\ n + 0 + 1 = n + 1
      BY <1>0
    <3> QED
      BY <3>2
  <2>2. SubSeq(s, 1, RecSz) = [k \in 1 .. RecSz |-> s[k]]
    BY <1>0
  <2> QED
    BY <2>1, <2>2 DEF Record
<1> DEFINE t == SubSeq(s, RecSz + 1, Len(s))
<1>5. Len(t) = Len(s) - RecSz /\ \A i \in 1 .. Len(s) - RecSz : t[i] = s[RecSz + i]
  BY <1>3, ReadOp
<1> HIDE DEF t
<1>6. ASSUME NEW q \in 0 .. d - 1, NEW k \in 1 .. RecSz PROVE t[q * RecSz + k] = <<n + q + 2, k>>
  <2>1. q * RecSz + k \in 1 .. d * RecSz /\ q * RecSz \in Nat
    BY UnitOf, Zenon
  <2>2. t[q * RecSz + k] = s[RecSz + (q * RecSz + k)]
    <3>1. d * RecSz <= Len(s) - RecSz
      BY <1>0, <1>2
    <3>2. q * RecSz + k \in 1 .. Len(s) - RecSz
      BY <1>0, <1>2, <2>1, <3>1
    <3> QED
      BY <1>5, <3>2
  <2>3. RecSz + (q * RecSz + k) = (q + 1) * RecSz + k
    BY <1>0
  <2>4. q + 1 \in 0 .. p - 1 /\ n + (q + 1) + 1 = n + q + 2
    BY <1>1
  <2>5. s[(q + 1) * RecSz + k] = <<n + (q + 1) + 1, k>>
    BY <2>4
  <2> QED
    BY <2>2, <2>3, <2>4, <2>5
<1>7. p - 1 = d /\ p - 2 = d - 1
  BY <1>1
<1>8. QED
  BY <1>2, <1>3, <1>4, <1>5, <1>6, <1>7, Zenon DEF t

\* One more read: a record that is the next frame, or a short one.
LEMMA GotMore ==
  ASSUME TypeOK, NEW c \in Chans, NEW n \in Nat, Got(c, n), NEW u \in Seq(Unit),
         delivered' = [delivered EXCEPT ![c] = Append(delivered[c], u)]
  PROVE  /\ u = Record(n + 1) /\ n = Len(delivered[c]) => Got(c, n + 1)'
         /\ Len(u) < RecSz => Got(c, n)'
         /\ Len(delivered'[c]) = Len(delivered[c]) + 1 /\ Len(delivered[c]) \in Nat
<1>1. /\ Len(delivered[c]) \in Nat /\ delivered'[c] = Append(delivered[c], u)
      /\ delivered[c] \in Seq(Seq(Unit))
  BY DEF TypeOK
<1>2. /\ Len(delivered'[c]) = Len(delivered[c]) + 1
      /\ \A i \in 1 .. Len(delivered[c]) : delivered'[c][i] = delivered[c][i]
      /\ delivered'[c][Len(delivered[c]) + 1] = u
  BY <1>1, AppendProperties
<1>3. ASSUME u = Record(n + 1), n = Len(delivered[c]) PROVE Got(c, n + 1)'
  <2>1. ASSUME NEW i \in 1 .. n + 1 PROVE delivered'[c][i] = Record(i)
    <3>1. CASE i = n + 1
      BY <1>2, <1>3, <3>1
    <3>2. CASE i \in 1 .. n
      BY <1>2, <1>3, <3>2 DEF Got
    <3>3. i = n + 1 \/ i \in 1 .. n
      OBVIOUS
    <3> QED
      BY <3>1, <3>2, <3>3, Zenon
  <2>2. Len(delivered'[c]) = n + 1
    BY <1>2, <1>3
  <2> QED
    BY <2>1, <2>2 DEF Got, Record
<1>4. ASSUME Len(u) < RecSz PROVE Got(c, n)'
  <2>1. ASSUME NEW i \in n + 1 .. Len(delivered[c]) + 1 PROVE Len(delivered'[c][i]) < RecSz
    <3>1. CASE i = Len(delivered[c]) + 1
      BY <1>2, <1>4, <3>1
    <3>2. CASE i \in n + 1 .. Len(delivered[c])
      BY <1>1, <1>2, <3>2 DEF Got
    <3>3. i = Len(delivered[c]) + 1 \/ i \in n + 1 .. Len(delivered[c])
      BY <1>1
    <3> QED
      BY <3>1, <3>2, <3>3
  <2>2. n <= Len(delivered[c]) + 1 /\ \A i \in 1 .. n : delivered'[c][i] = Record(i)
    BY <1>1, <1>2 DEF Got
  <2> QED
    BY <1>2, <2>1, <2>2 DEF Got, Record
<1>5. QED
  BY <1>1, <1>2, <1>3, <1>4

\* What read() does to the stream of a channel: the next frame moves from the pipe to
\* the reader, or, when none waits, the dummy or the end of file gives a short read.
LEMMA StreamRead ==
  ASSUME TypeOK, ControlInv, use.mode = "fd", NEW c \in use.chans, read_pipe(c),
         NEW n \in Nat, NEW p \in Nat, Stream(c, n, p)
  PROVE  IF p = 0 THEN Stream(c, n, 0)' ELSE p - 1 \in Nat /\ Stream(c, n + 1, p - 1)'
<1>0. /\ c \in Chans /\ pipe \in [Chans -> Seq(Unit)] /\ pipe[c] \in Seq(Unit) /\ Len(pipe[c]) \in Nat
      /\ Got(c, n) /\ Waiting(c, n, p) /\ Len(delivered[c]) \in Nat
  BY ChanTypes DEF TypeOK, Stream
<1>1. RecSz \in Nat \ {0} /\ PaySz \in Nat /\ PaySz < RecSz
  BY Sizes, Zenon
<1>2. UNCHANGED <<nrecv, rx_chan, rx_pc, stopping, main_pc, main_chan>> /\ (pipe[c] # <<>> \/ c \in freed)
  BY DEF read_pipe, rxVars, mainVars
<1> DEFINE m == IF Len(pipe[c]) < RecSz THEN Len(pipe[c]) ELSE RecSz
           units == SubSeq(pipe[c], 1, m)
           rest == SubSeq(pipe[c], m + 1, Len(pipe[c]))
<1>3. /\ pipe' = [pipe EXCEPT ![c] = rest]
      /\ delivered' = [delivered EXCEPT ![c] = Append(delivered[c], units)]
  BY DEF read_pipe
<1>4. m \in 0 .. Len(pipe[c])
  BY <1>0, <1>1
<1>5. pipe'[c] = rest
  BY <1>0, <1>3, Zenon
<1> HIDE DEF m
<1>6. units \in Seq(Unit) /\ Len(units) = m /\ Len(rest) = Len(pipe[c]) - m
  BY <1>0, <1>4, ReadOp
<1> HIDE DEF units, rest
<1>7. /\ units = Record(n + 1) /\ n = Len(delivered[c]) => Got(c, n + 1)'
      /\ Len(units) < RecSz => Got(c, n)'
      /\ Len(delivered'[c]) = Len(delivered[c]) + 1
  BY <1>0, <1>3, <1>6, GotMore, Zenon
<1>8. CASE p = 0
  <2>1. Len(pipe[c]) \in 0 .. PaySz /\ (~stopping[c] => Len(pipe[c]) = 0)
    BY <1>0, <1>1, <1>8 DEF Waiting
  <2>2. stopping[c]
    BY <1>0, <1>2, <2>1 DEF ControlInv
  <2>3. m = Len(pipe[c]) /\ m < RecSz
    BY <1>0, <1>1, <2>1 DEF m
  <2>4. Len(rest) = 0
    BY <1>0, <1>6, <2>3
  <2>5. Waiting(c, n, 0)'
    BY <1>1, <1>5, <2>4 DEF Waiting
  <2>6. Got(c, n)'
    BY <1>6, <1>7, <2>3
  <2>7. nrecv'[c] = n + 0 + (IF rx_chan = c /\ rx_pc \in InHand THEN 1 ELSE 0)
    BY <1>2, <1>8 DEF Stream
  <2>8. Stream(c, n, 0)'
    BY <1>2, <2>2, <2>5, <2>6, <2>7 DEF Stream
  <2> QED
    BY <1>8, <2>8
<1>9. CASE p # 0
  <2>1. p \in Nat \ {0} /\ p - 1 \in Nat /\ p - 2 = (p - 1) - 1
    BY <1>9
  <2>2. /\ p * RecSz \in Nat /\ Len(pipe[c]) >= p * RecSz
        /\ \A q \in 0 .. p - 1 : \A k \in 1 .. RecSz : pipe[c][q * RecSz + k] = <<n + q + 1, k>>
    <3>1. p * RecSz \in Nat
      BY <1>1
    <3>2. Len(pipe[c]) \in p * RecSz .. p * RecSz + PaySz
      BY <1>0 DEF Waiting
    <3>3. Len(pipe[c]) >= p * RecSz
      BY <1>0, <1>1, <3>1, <3>2
    <3> QED
      BY <1>0, <3>1, <3>3 DEF Waiting
  <2>3. /\ RecSz \in 0 .. Len(pipe[c])
        /\ SubSeq(pipe[c], 1, RecSz) = Record(n + 1)
        /\ p * RecSz = (p - 1) * RecSz + RecSz /\ (p - 1) * RecSz \in Nat
        /\ Len(SubSeq(pipe[c], RecSz + 1, Len(pipe[c]))) = Len(pipe[c]) - RecSz
        /\ \A q \in 0 .. p - 2 : \A k \in 1 .. RecSz :
             SubSeq(pipe[c], RecSz + 1, Len(pipe[c]))[q * RecSz + k] = <<n + q + 2, k>>
    BY <1>0, <2>1, <2>2, WaitingRead, Zenon
  <2>4. m = RecSz
    BY <1>0, <1>1, <2>3 DEF m
  <2>5. /\ units = Record(n + 1)
        /\ Len(rest) = Len(pipe[c]) - RecSz
        /\ \A q \in 0 .. p - 2 : \A k \in 1 .. RecSz : rest[q * RecSz + k] = <<n + q + 2, k>>
    BY <2>3, <2>4, Zenon DEF units, rest
  <2>6. n = Len(delivered[c])
    BY <1>0, <1>9 DEF Stream, Got
  <2>7. Got(c, n + 1)'
    BY <1>7, <2>5, <2>6
  <2>8. Waiting(c, n + 1, p - 1)'
    <3>0. PICK x \in Nat : x = (p - 1) * RecSz /\ p * RecSz = x + RecSz
      BY <2>3
    <3>1. Len(rest) \in (p - 1) * RecSz .. (p - 1) * RecSz + PaySz
      <4>1. Len(pipe[c]) \in x + RecSz .. x + RecSz + PaySz
        BY <1>0, <3>0 DEF Waiting
      <4>2. Len(rest) \in x .. x + PaySz
        BY <1>0, <1>1, <2>5, <3>0, <4>1
      <4> QED
        BY <3>0, <4>2
    <3>2. ~stopping[c] \/ (main_pc = "dummy" /\ main_chan = c) => Len(rest) = (p - 1) * RecSz
      <4>1. ~stopping[c] \/ (main_pc = "dummy" /\ main_chan = c) => Len(pipe[c]) = x + RecSz
        BY <1>0, <3>0 DEF Waiting
      <4> QED
        BY <1>0, <1>1, <2>5, <3>0, <4>1
    <3>3. ASSUME NEW q \in 0 .. (p - 1) - 1, NEW k \in 1 .. RecSz
          PROVE  rest[q * RecSz + k] = <<(n + 1) + q + 1, k>>
      <4>1. q \in 0 .. p - 2 /\ (n + 1) + q + 1 = n + q + 2
        BY <2>1
      <4> QED
        BY <2>5, <4>1
    <3> QED
      BY <1>2, <1>5, <3>1, <3>2, <3>3 DEF Waiting
  <2>9. nrecv'[c] = (n + 1) + (p - 1) + (IF rx_chan = c /\ rx_pc \in InHand THEN 1 ELSE 0)
    BY <1>2, <2>1 DEF Stream
  <2>10. ~(n + 1 < Len(delivered'[c]))
    BY <1>7, <2>6
  <2> QED
    BY <1>2, <1>9, <2>1, <2>7, <2>8, <2>9, <2>10 DEF Stream
<1>10. QED
  BY <1>8, <1>9

\* A stream that a step does not touch.
LEMMA StreamKept ==
  ASSUME NEW c \in Chans, NEW n \in Nat, NEW p \in Nat, Stream(c, n, p),
         pipe'[c] = pipe[c], delivered'[c] = delivered[c], nrecv'[c] = nrecv[c],
         stopping'[c] = stopping[c],
         rx_chan' = c /\ rx_pc' \in InHand <=> rx_chan = c /\ rx_pc \in InHand,
         main_pc' = "dummy" /\ main_chan' = c => main_pc = "dummy" /\ main_chan = c
  PROVE  Stream(c, n, p)'
<1>1. Got(c, n)'
  BY DEF Stream, Got, Record
<1>2. Waiting(c, n, p)'
  BY DEF Stream, Waiting
<1>3. nrecv'[c] = n + p + (IF rx_chan' = c /\ rx_pc' \in InHand THEN 1 ELSE 0)
  BY DEF Stream
<1>4. QED
  BY <1>1, <1>2, <1>3 DEF Stream, InHand

\* The steps that leave the streams and the callback areas alone.
LEMMA FifoKept ==
  ASSUME FifoInv, UNCHANGED <<use, nrecv, meta, pipe, delivered, stopping, rx_chan>>,
         rx_pc' = rx_pc \/ (rx_pc' \in {"recv", "exited"} /\ rx_pc = "recv"),
         (main_pc' = main_pc /\ main_chan' = main_chan) \/ main_pc' # "dummy",
         use.mode = "fd" => \A c \in Chans : rd_pc'[c] # "got"
  PROVE  FifoInv'
<1> SUFFICES ASSUME use.mode = "fd", NEW c \in Chans PROVE Fifo1(c)'
  BY DEF FifoInv
<1>0. Fifo1(c)
  BY DEF FifoInv
<1>1. PICK n \in Nat, p \in Nat : Stream(c, n, p)
  BY <1>0 DEF Fifo1, HasStream
<1>2. HasStream(c)'
  <2>1. Stream(c, n, p)'
    BY <1>1, StreamKept DEF InHand
  <2> QED
    BY <1>1, <2>1 DEF HasStream
<1>3. InArea(c)'
  BY <1>0 DEF Fifo1, InArea
<1>4. OpenWhileFed(c)'
  BY <1>0 DEF Fifo1, OpenWhileFed
<1>5. QED
  BY <1>2, <1>3, <1>4 DEF Fifo1

\* Every step of a program that reads bare file descriptors keeps the streams.
LEMMA FifoStep ==
  ASSUME FdNotStopped PROVE RxInv /\ FifoInv /\ [Next]_vars => FifoInv'
<1> SUFFICES ASSUME RxInv, FifoInv, [Next]_vars, use.mode = "fd" PROVE FifoInv'
  BY UseConstant DEF FifoInv
<1>0. /\ use' = use /\ use.chans \subseteq Chans /\ TypeOK /\ ControlInv
      /\ "chan_stop" \notin use.calls
  BY UseConstant, UseTypes DEF RxInv, FdNotStopped, TypeOK
<1>1. \A c \in Chans : OpenWhileFed(c) /\ rd_pc[c] # "got" /\ InArea(c) /\ HasStream(c)
  BY DEF FifoInv, Fifo1
<1>2. ASSUME \A x \in Chans : OpenWhileFed(x)' /\ rd_pc'[x] # "got" /\ InArea(x)' /\ HasStream(x)'
      PROVE  FifoInv'
  BY <1>2 DEF FifoInv, Fifo1
<1>3. ASSUME NEW c \in use.chans, nh_runner_frame(c) PROVE FifoInv'
  <2>1. /\ rx_pc = "recv" /\ rx_pc' = "stamp" /\ rx_chan' = c /\ nrecv' = [nrecv EXCEPT ![c] = nrecv[c] + 1]
        /\ UNCHANGED <<meta, pipe, rd_pc, delivered, stopping, main_pc, main_chan>>
    BY <1>3 DEF nh_runner_frame, rdVars, mainVars
  <2>2. ASSUME NEW x \in Chans PROVE HasStream(x)'
    <3>1. PICK n \in Nat, p \in Nat : Stream(x, n, p)
      BY <1>1 DEF HasStream
    <3>2. CASE x # c
      <4>1. nrecv'[x] = nrecv[x]
        BY <1>0, <2>1, <3>2 DEF TypeOK
      <4>2. Stream(x, n, p)'
        BY <2>1, <3>1, <3>2, <4>1, StreamKept DEF InHand
      <4> QED
        BY <3>1, <4>2 DEF HasStream
    <3>3. CASE x = c
      <4>1. nrecv'[x] = n + p + 1
        BY <1>0, <2>1, <3>1, <3>3 DEF TypeOK, Stream, InHand
      <4>2. Got(x, n)' /\ Waiting(x, n, p)'
        BY <2>1, <3>1 DEF Stream, Got, Waiting, Record
      <4>3. Stream(x, n, p)'
        BY <2>1, <3>1, <3>3, <4>1, <4>2 DEF Stream, InHand
      <4> QED
        BY <3>1, <4>3 DEF HasStream
    <3> QED
      BY <3>2, <3>3
  <2>3. \A x \in Chans : InArea(x)'
    BY <2>1 DEF InArea
  <2>9. \A x \in Chans : OpenWhileFed(x)'
    BY <1>1, <2>1 DEF OpenWhileFed
  <2> QED
    BY <1>1, <1>2, <2>1, <2>2, <2>3, <2>9, Zenon
<1>4. CASE nh_runner_nothing
  <2>1. /\ UNCHANGED <<use, nrecv, meta, pipe, delivered, stopping, rx_chan, rd_pc, main_pc, main_chan>>
        /\ rx_pc = "recv" /\ rx_pc' \in {"recv", "exited"}
    BY <1>4 DEF nh_runner_nothing, rdVars, mainVars
  <2> QED
    BY <1>1, <2>1, FifoKept
<1>5. CASE nh_feed_pdu_ts \/ nh_std_cb_copy
  <2>1. /\ rx_pc \in {"stamp", "copy"} /\ rx_pc' \in {"copy", "write"}
        /\ UNCHANGED <<nrecv, pipe, rd_pc, delivered, stopping, rx_chan, main_pc, main_chan>>
    BY <1>5 DEF nh_feed_pdu_ts, nh_std_cb_copy, rdVars, mainVars
  <2>2. ASSUME NEW x \in Chans PROVE HasStream(x)'
    <3>1. PICK n \in Nat, p \in Nat : Stream(x, n, p)
      BY <1>1 DEF HasStream
    <3>2. Stream(x, n, p)'
      BY <2>1, <3>1, StreamKept DEF InHand
    <3> QED
      BY <3>1, <3>2 DEF HasStream
  <2>3. InArea(rx_chan)'
    <3>1. rx_chan \in Chans /\ meta \in [Chans -> [1 .. RecSz -> Unit]] /\ InArea(rx_chan)
      BY <1>0, <1>1 DEF TypeOK
    <3>2. CASE nh_feed_pdu_ts
      BY <3>1, <3>2, Sizes DEF nh_feed_pdu_ts, InArea
    <3>3. CASE nh_std_cb_copy
      <4>1. rx_pc = "copy" /\ rx_pc' = "write" /\ nrecv' = nrecv /\ rx_chan' = rx_chan
        BY <3>3 DEF nh_std_cb_copy
      <4>2. \A k \in 1 .. RecSz :
              meta'[rx_chan][k] = IF k > HdrSz THEN <<nrecv[rx_chan], k>> ELSE meta[rx_chan][k]
        BY <3>1, <3>3 DEF nh_std_cb_copy
      <4>3. \A k \in 1 .. HdrSz : meta[rx_chan][k] = <<nrecv[rx_chan], k>>
        BY <3>1, <4>1 DEF InArea
      <4>4. \A k \in 1 .. RecSz : meta'[rx_chan][k] = <<nrecv[rx_chan], k>>
        <5>1. TAKE k \in 1 .. RecSz
        <5>2. k > HdrSz \/ k \in 1 .. HdrSz
          BY Sizes
        <5>3. k \in 1 .. HdrSz => ~(k > HdrSz)
          BY Sizes
        <5> QED
          BY <4>2, <4>3, <5>2, <5>3, Zenon
      <4> QED
        BY <4>1, <4>4 DEF InArea
    <3> QED
      BY <1>5, <3>2, <3>3
  <2>4. \A x \in Chans : InArea(x)'
    BY <2>1, <2>3 DEF InArea
  <2>9. \A x \in Chans : OpenWhileFed(x)'
    BY <1>1, <2>1 DEF OpenWhileFed
  <2> QED
    BY <1>1, <1>2, <2>1, <2>2, <2>4, <2>9
<1>6. CASE nh_std_cb_write
  <2>1. /\ rx_pc = "write" /\ rx_pc' \in {"recv", "exited"}
        /\ pipe' = [pipe EXCEPT ![rx_chan] = pipe[rx_chan] \o meta[rx_chan]]
        /\ UNCHANGED <<nrecv, meta, rd_pc, delivered, stopping, rx_chan, main_pc, main_chan>>
    BY <1>6 DEF nh_std_cb_write, rdVars, mainVars
  <2>2. ASSUME NEW x \in Chans PROVE HasStream(x)'
    <3>1. PICK n \in Nat, p \in Nat : Stream(x, n, p)
      BY <1>1 DEF HasStream
    <3>2. CASE x # rx_chan
      <4>1. pipe'[x] = pipe[x]
        BY <1>0, <2>1, <3>2 DEF TypeOK
      <4>2. Stream(x, n, p)'
        BY <2>1, <3>1, <3>2, <4>1, StreamKept DEF InHand
      <4> QED
        BY <3>1, <4>2 DEF HasStream
    <3>3. CASE x = rx_chan
      <4>1. nrecv[x] = n + p + 1 /\ ~stopping[x] /\ Got(x, n) /\ Waiting(x, n, p)
        BY <1>1, <2>1, <3>1, <3>3 DEF Stream, InHand, OpenWhileFed
      <4>2. \A k \in 1 .. RecSz : meta[x][k] = <<n + p + 1, k>>
        BY <1>1, <2>1, <3>3, <4>1 DEF InArea
      <4>3. Waiting(x, n, p + 1)'
        BY <1>0, <1>6, <3>1, <3>3, <4>1, <4>2, WaitingWrite
      <4>4. Got(x, n)'
        BY <2>1, <4>1 DEF Got, Record
      <4>5. n + p + 1 = n + (p + 1) + 0 /\ p + 1 \in Nat
        BY <3>1
      <4>6. ~(n < Len(delivered[x]))
        BY <3>1, <4>1 DEF Stream
      <4>7. Stream(x, n, p + 1)'
        BY <2>1, <4>1, <4>3, <4>4, <4>5, <4>6 DEF Stream, InHand
      <4> QED
        BY <3>1, <4>5, <4>7 DEF HasStream
    <3> QED
      BY <3>2, <3>3
  <2>3. \A x \in Chans : InArea(x)'
    BY <2>1 DEF InArea
  <2>9. \A x \in Chans : OpenWhileFed(x)'
    BY <1>1, <2>1 DEF OpenWhileFed
  <2> QED
    BY <1>1, <1>2, <2>1, <2>2, <2>3, <2>9
<1>7. ASSUME NEW c \in use.chans, chan_read_call(c) PROVE FifoInv'
  <2>1. /\ UNCHANGED <<use, nrecv, meta, pipe, delivered, stopping, rx_chan, rx_pc, main_pc, main_chan>>
        /\ rd_pc' = [rd_pc EXCEPT ![c] = "blocked"]
    BY <1>7 DEF chan_read_call, rxVars, mainVars
  <2>2. \A x \in Chans : rd_pc'[x] # "got"
    BY <1>0, <1>1, <2>1 DEF TypeOK
  <2> QED
    BY <2>1, <2>2, FifoKept
<1>8. ASSUME NEW c \in use.chans, read_pipe(c) PROVE FifoInv'
  <2>1. /\ UNCHANGED <<nrecv, meta, stopping, rx_chan, rx_pc, main_pc, main_chan>>
        /\ rd_pc' = [rd_pc EXCEPT ![c] = "idle"]
        /\ \A x \in Chans : x # c => pipe'[x] = pipe[x] /\ delivered'[x] = delivered[x]
    BY <1>0, <1>8 DEF read_pipe, rxVars, mainVars, TypeOK
  <2>2. ASSUME NEW x \in Chans PROVE HasStream(x)'
    <3>1. PICK n \in Nat, p \in Nat : Stream(x, n, p)
      BY <1>1 DEF HasStream
    <3>2. CASE x # c
      <4>1. Stream(x, n, p)'
        BY <2>1, <3>1, <3>2, StreamKept, Zenon
      <4> QED
        BY <3>1, <4>1 DEF HasStream
    <3>3. CASE x = c
      <4>1. IF p = 0 THEN Stream(x, n, 0)' ELSE p - 1 \in Nat /\ Stream(x, n + 1, p - 1)'
        BY <1>0, <1>8, <3>1, <3>3, StreamRead
      <4>2. n + 1 \in Nat /\ 0 \in Nat
        BY <3>1
      <4> QED
        BY <3>1, <4>1, <4>2 DEF HasStream
    <3> QED
      BY <3>2, <3>3
  <2>3. \A x \in Chans : InArea(x)' /\ rd_pc'[x] # "got"
    BY <1>0, <1>1, <2>1, Zenon DEF InArea, TypeOK
  <2>9. \A x \in Chans : OpenWhileFed(x)'
    BY <1>1, <2>1, Zenon DEF OpenWhileFed
  <2> QED
    BY <1>1, <1>2, <2>1, <2>2, <2>3, <2>9, Zenon
<1>9. ASSUME NEW c \in use.chans, chan_read_return(c) PROVE FifoInv'
  BY <1>0, <1>1, <1>9 DEF chan_read_return
<1>10. CASE Monitor \/ UNCHANGED vars
  <2>1. UNCHANGED <<use, nrecv, meta, pipe, delivered, stopping, rx_chan, rx_pc, rd_pc, main_pc, main_chan>>
    BY <1>10 DEF Monitor, nh_notify_listener_Tnew, nh_notify_listener_Tleave, vars, rxVars, rdVars, mainVars
  <2> QED
    BY <1>1, <2>1, FifoKept
<1>11. ASSUME NEW c \in use.chans, app_chan_stop(c) PROVE FifoInv'
  BY <1>0, <1>11 DEF app_chan_stop
<1>12. CASE nh_destroy \/ nh_stop_rx_join \/ chan_free
  <2>1. /\ UNCHANGED <<use, nrecv, meta, pipe, delivered, stopping, rx_chan, rx_pc, rd_pc>>
        /\ main_pc' # "dummy"
    BY <1>12, Zenon DEF nh_destroy, nh_stop_rx_join, chan_free, rxVars, rdVars
  <2> QED
    BY <1>1, <2>1, FifoKept
<1>13. ASSUME NEW c \in use.chans, nh_destroy_chan(c) PROVE FifoInv'
  <2>1. /\ UNCHANGED <<nrecv, meta, pipe, delivered, rx_chan, rx_pc, rd_pc>>
        /\ stopping' = [stopping EXCEPT ![c] = TRUE] /\ main_chan' = c
        /\ rx_pc = "exited" /\ (main_pc' = "dummy" => ~stopping[c])
    BY <1>0, <1>13 DEF nh_destroy_chan, chan_stop, rxVars, rdVars, ControlInv
  <2>2. ASSUME NEW x \in Chans PROVE HasStream(x)'
    <3>1. PICK n \in Nat, p \in Nat : Stream(x, n, p)
      BY <1>1 DEF HasStream
    <3>2. CASE x # c
      <4>1. stopping'[x] = stopping[x]
        BY <1>0, <2>1, <3>2 DEF TypeOK
      <4>2. Stream(x, n, p)'
        BY <2>1, <3>1, <3>2, <4>1, StreamKept, Zenon
      <4> QED
        BY <3>1, <4>2 DEF HasStream
    <3>3. CASE x = c
      <4>1. stopping'[x]
        BY <1>0, <2>1, <3>3 DEF TypeOK
      <4>2. Got(x, n)'
        BY <2>1, <3>1 DEF Stream, Got, Record
      <4>3. Waiting(x, n, p)'
        BY <2>1, <3>1, <3>3, <4>1 DEF Stream, Waiting
      <4>4. nrecv'[x] = n + p + (IF rx_chan' = x /\ rx_pc' \in InHand THEN 1 ELSE 0)
        BY <2>1, <3>1 DEF Stream
      <4>5. Stream(x, n, p)'
        BY <2>1, <3>1, <4>1, <4>2, <4>3, <4>4 DEF Stream, InHand
      <4> QED
        BY <3>1, <4>5 DEF HasStream
    <3> QED
      BY <3>2, <3>3
  <2>3. \A x \in Chans : InArea(x)'
    BY <2>1 DEF InArea
  <2>9. \A x \in Chans : OpenWhileFed(x)'
    BY <1>1, <2>1 DEF OpenWhileFed
  <2> QED
    BY <1>1, <1>2, <2>1, <2>2, <2>3, <2>9, Zenon
<1>14. CASE chan_stop_write
  <2>1. /\ UNCHANGED <<nrecv, meta, delivered, stopping, rx_chan, rx_pc, rd_pc, main_chan>>
        /\ main_pc = "dummy" /\ main_pc' # "dummy" /\ stopping[main_chan]
        /\ pipe' = [pipe EXCEPT ![main_chan] = pipe[main_chan] \o Dummy]
    BY <1>0, <1>14 DEF chan_stop_write, rxVars, rdVars, ControlInv
  <2>2. ASSUME NEW x \in Chans PROVE HasStream(x)'
    <3>1. PICK n \in Nat, p \in Nat : Stream(x, n, p)
      BY <1>1 DEF HasStream
    <3>2. CASE x # main_chan
      <4>1. pipe'[x] = pipe[x]
        BY <1>0, <2>1, <3>2 DEF TypeOK
      <4>2. Stream(x, n, p)'
        BY <2>1, <3>1, <3>2, <4>1, StreamKept
      <4> QED
        BY <3>1, <4>2 DEF HasStream
    <3>3. CASE x = main_chan
      <4>1. Waiting(x, n, p)'
        BY <1>0, <1>14, <2>1, <3>1, <3>3, WaitingDummy DEF Stream
      <4>2. Got(x, n)'
        BY <2>1, <3>1 DEF Stream, Got, Record
      <4>3. nrecv'[x] = n + p + (IF rx_chan' = x /\ rx_pc' \in InHand THEN 1 ELSE 0)
        BY <2>1, <3>1 DEF Stream
      <4>4. Stream(x, n, p)'
        BY <2>1, <3>1, <4>1, <4>2, <4>3 DEF Stream, InHand
      <4> QED
        BY <3>1, <4>4 DEF HasStream
    <3> QED
      BY <3>2, <3>3
  <2>3. \A x \in Chans : InArea(x)'
    BY <1>1, <2>1, Zenon DEF InArea
  <2>9. \A x \in Chans : OpenWhileFed(x)'
    BY <1>1, <2>1 DEF OpenWhileFed
  <2> QED
    BY <1>1, <1>2, <2>1, <2>2, <2>3, <2>9
<1>15. QED
  BY <1>3, <1>4, <1>5, <1>6, <1>7, <1>8, <1>9, <1>10, <1>11, <1>12, <1>13, <1>14
     DEF Next, RxThread, Reader, Main, MainInCall

\* The frames a reader has got, as FifoChannel names them.
FirstFrames(n) == [i \in 1 .. n |-> i]

LEMMA OneMoreFrame ==
  ASSUME NEW n \in Nat
  PROVE  FirstFrames(n + 1) = Append(FirstFrames(n), Len(FirstFrames(n)) + 1) /\ Len(FirstFrames(n)) = n
BY DEF FirstFrames

\* FramesGot() of what a reader got.
FramesOf(d) ==
  [i \in 1 .. Max({0} \cup {j \in DOMAIN d : Len(d[j]) = RecSz}) |-> IF d[i] = Record(i) THEN i ELSE 0]

LEMMA FramesOfAre ==
  ASSUME NEW S, NEW d \in Seq(S), NEW n \in Nat, n <= Len(d),
         \A i \in 1 .. n : d[i] = Record(i), \A i \in n + 1 .. Len(d) : Len(d[i]) < RecSz
  PROVE  FramesOf(d) = FirstFrames(n)
<1> DEFINE full == {0} \cup {i \in DOMAIN d : Len(d[i]) = RecSz}
<1>0. Len(d) \in Nat /\ DOMAIN d = 1 .. Len(d) /\ RecSz \in Nat
  BY Sizes
<1>1. n \in full
  <2>1. CASE n = 0
    BY <2>1
  <2>2. CASE n # 0
    <3>1. n \in 1 .. Len(d) /\ n \in 1 .. n
      BY <1>0, <2>2
    <3>2. d[n] = Record(n)
      BY <3>1
    <3>3. Len(Record(n)) = RecSz
      BY <1>0 DEF Record
    <3> QED
      BY <1>0, <3>1, <3>2, <3>3
  <2> QED
    BY <2>1, <2>2
<1>2. ASSUME NEW y \in full PROVE y \in Int /\ n >= y
  <2>1. CASE y = 0
    BY <2>1
  <2>2. CASE y # 0
    <3>1. y \in 1 .. Len(d) /\ Len(d[y]) = RecSz
      BY <1>0, <2>2
    <3>2. y \notin n + 1 .. Len(d)
      BY <1>0, <3>1
    <3> QED
      BY <1>0, <3>1, <3>2
  <2> QED
    BY <2>1, <2>2
<1> DEFINE last == CHOOSE x \in full : \A y \in full : x >= y
<1> HIDE DEF full
<1>3. last \in full /\ \A y \in full : last >= y
  BY <1>1, <1>2, Zenon
<1> HIDE DEF last
<1>4. last \in Int /\ n >= last /\ last >= n
  BY <1>1, <1>2, <1>3
<1>5. last = n
  BY <1>4
<1>6. Max(full) = n
  BY <1>5 DEF last, Max
<1>7. FramesOf(d) = [i \in 1 .. n |-> IF d[i] = Record(i) THEN i ELSE 0]
  BY <1>6 DEF FramesOf, full
<1>8. QED
  BY <1>7 DEF FirstFrames

\* A reader of the bare file descriptor of a channel has a FIFO, for every size of
\* record and pipe and any number of channels and frames: what it reads are the
\* frames nh_runner() took for the channel, whole, in order and none twice, also while
\* nh_destroy() joins the Rx thread, stops the channels and closes their pipes.
THEOREM FdReaderHasFifo ==
  ASSUME FdNotStopped PROVE Spec => ImplementsFifo
<1> DEFINE accepted == [c \in Chans |-> IF use.mode = "fd" THEN nrecv[c] ELSE 0]
           got == [c \in Chans |-> IF use.mode = "fd" THEN FramesGot(c) ELSE <<>>]
<1>1. Init => FifoInv
  <2> SUFFICES ASSUME Init, NEW c \in Chans PROVE Fifo1(c)
    BY DEF FifoInv
  <2>1. /\ nrecv[c] = 0 /\ pipe[c] = <<>> /\ delivered[c] = <<>> /\ rx_pc = "recv"
        /\ rd_pc[c] = "idle" /\ 0 * RecSz = 0 /\ PaySz \in Nat
    BY Sizes DEF Init
  <2>2. ~stopping[c]
    BY DEF Init
  <2>3. Got(c, 0)
    BY <2>1 DEF Got
  <2>4. Waiting(c, 0, 0)
    BY <2>1 DEF Waiting
  <2>5. Stream(c, 0, 0)
    BY <2>1, <2>3, <2>4 DEF Stream, InHand
  <2> QED
    BY <2>1, <2>2, <2>5 DEF Fifo1, HasStream, OpenWhileFed, InArea
<1>2. Init => Fifo!Init
  <2> SUFFICES ASSUME Init PROVE Fifo!Init
    OBVIOUS
  <2>1. \A c \in Chans : nrecv[c] = 0 /\ delivered[c] = <<>> /\ delivered[c] \in Seq(Seq(Unit))
    BY DEF Init
  <2>2. ASSUME NEW c \in Chans PROVE FramesGot(c) = <<>>
    <3>1. Got(c, 0)
      BY <2>1 DEF Got
    <3>2. FramesOf(delivered[c]) = FirstFrames(0)
      BY <2>1, <3>1, FramesOfAre DEF Got
    <3> QED
      BY <3>2 DEF FirstFrames, FramesGot, FramesOf, LastFull
  <2> QED
    BY <2>1, <2>2 DEF Fifo!Init
<1>3. RxInv /\ FifoInv /\ RxInv' /\ FifoInv' /\ [Next]_vars => [Fifo!Next]_(Fifo!vars)
  <2> SUFFICES ASSUME RxInv, FifoInv, RxInv', FifoInv', [Next]_vars
               PROVE  Fifo!Next \/ (accepted' = accepted /\ got' = got)
    BY DEF Fifo!vars
  <2>0. use' = use /\ use.chans \subseteq Chans /\ TypeOK /\ TypeOK' /\ ControlInv
    BY UseConstant, UseTypes DEF RxInv
  <2>1. CASE use.mode # "fd"
    BY <2>0, <2>1
  <2>2. ASSUME UNCHANGED <<nrecv, delivered>> PROVE accepted' = accepted /\ got' = got
    BY <2>0, <2>2 DEF FramesGot, LastFull, Record
  <2>3. ASSUME use.mode = "fd", NEW c \in use.chans, nh_runner_frame(c) PROVE Fifo!Next
    <3>1. c \in Chans /\ nrecv' = [nrecv EXCEPT ![c] = nrecv[c] + 1] /\ delivered' = delivered
          /\ nrecv \in [Chans -> Nat]
      BY <2>0, <2>3, ChanTypes DEF nh_runner_frame, rdVars
    <3>2. got' = got
      BY <2>0, <3>1 DEF FramesGot, LastFull, Record
    <3>3. accepted' = [accepted EXCEPT ![c] = accepted[c] + 1]
      BY <2>0, <2>3, <3>1
    <3>4. Fifo!Accept(c)
      BY <3>2, <3>3 DEF Fifo!Accept
    <3> QED
      BY <3>1, <3>4 DEF Fifo!Next
  <2>4. ASSUME use.mode = "fd", NEW c \in use.chans, read_pipe(c)
        PROVE  Fifo!Next \/ (accepted' = accepted /\ got' = got)
    <3>1. /\ c \in Chans /\ nrecv' = nrecv /\ \A x \in Chans : x # c => delivered'[x] = delivered[x]
          /\ delivered[c] \in Seq(Seq(Unit)) /\ delivered'[c] \in Seq(Seq(Unit))
          /\ nrecv[c] \in Nat
      <4>1. c \in Chans /\ nrecv' = nrecv /\ nrecv[c] \in Nat
        BY <2>0, <2>4, ChanTypes DEF read_pipe, rxVars
      <4>2. \A x \in Chans : x # c => delivered'[x] = delivered[x]
        BY <2>0, <2>4 DEF read_pipe, TypeOK
      <4>3. Unit' = Unit
        BY <2>0 DEF Unit
      <4>4. delivered[c] \in Seq(Seq(Unit)) /\ delivered'[c] \in Seq(Seq(Unit))
        BY <2>0, <4>1, <4>3, Zenon DEF TypeOK
      <4> QED
        BY <4>1, <4>2, <4>4
    <3>2. accepted' = accepted
      BY <2>0, <3>1
    <3>3. PICK n \in Nat, p \in Nat : Stream(c, n, p)
      BY <2>4, <3>1 DEF FifoInv, Fifo1, HasStream
    <3>4. IF p = 0 THEN Stream(c, n, 0)' ELSE p - 1 \in Nat /\ Stream(c, n + 1, p - 1)'
      BY <2>0, <2>4, <3>3, StreamRead
    <3>5. FramesGot(c) = FirstFrames(n)
      <4>1. FramesOf(delivered[c]) = FirstFrames(n)
        BY <3>1, <3>3, FramesOfAre, Zenon DEF Stream, Got
      <4> QED
        BY <4>1 DEF FramesGot, FramesOf, LastFull
    <3>6. \A x \in Chans : x # c => FramesGot(x)' = FramesGot(x)
      BY <3>1, Zenon DEF FramesGot, LastFull, Record
    <3>7. CASE p = 0
      <4>1. Got(c, n)'
        BY <3>4, <3>7 DEF Stream
      <4>2. FramesGot(c)' = FirstFrames(n)
        <5>1. FramesOf(delivered'[c]) = FirstFrames(n)
          BY <3>1, <3>3, <4>1, FramesOfAre, Zenon DEF Got, Record
        <5> QED
          BY <5>1 DEF FramesGot, FramesOf, LastFull, Record
      <4> QED
        BY <2>0, <3>2, <3>5, <3>6, <4>2
    <3>8. CASE p # 0
      <4>1. Got(c, n + 1)'
        BY <3>4, <3>8 DEF Stream
      <4>2. FramesGot(c)' = FirstFrames(n + 1)
        <5>1. PICK f \in Nat : f = n + 1
          BY <3>3
        <5>2. /\ f <= Len(delivered'[c]) /\ \A i \in 1 .. f : delivered'[c][i] = Record(i)
              /\ \A i \in f + 1 .. Len(delivered'[c]) : Len(delivered'[c][i]) < RecSz
          BY <4>1, <5>1 DEF Got, Record
        <5>3. FramesOf(delivered'[c]) = FirstFrames(f)
          BY <3>1, <5>1, <5>2, FramesOfAre, Zenon
        <5> QED
          BY <5>1, <5>3 DEF FramesGot, FramesOf, LastFull, Record
      <4>3. n < nrecv[c]
        BY <3>1, <3>3, <3>8 DEF Stream
      <4>4. accepted[c] = nrecv[c] /\ got[c] = FirstFrames(n) /\ Len(got[c]) = n
        BY <2>4, <3>1, <3>3, <3>5, OneMoreFrame
      <4>5. got' = [got EXCEPT ![c] = Append(got[c], Len(got[c]) + 1)]
        <5>1. FirstFrames(n + 1) = Append(got[c], Len(got[c]) + 1)
          BY <3>3, <4>4, OneMoreFrame, Zenon
        <5> QED
          BY <2>0, <2>4, <3>1, <3>6, <4>2, <5>1, Zenon
      <4>6. Fifo!Deliver(c)
        BY <3>2, <4>3, <4>4, <4>5 DEF Fifo!Deliver
      <4> QED
        BY <3>1, <4>6 DEF Fifo!Next
    <3> QED
      BY <3>7, <3>8
  <2>5. ASSUME use.mode = "fd", NEW c \in use.chans, chan_read_return(c) PROVE FALSE
    BY <2>0, <2>5, Zenon DEF chan_read_return, FifoInv, Fifo1
  <2>6. CASE nh_runner_nothing \/ nh_feed_pdu_ts \/ nh_std_cb_copy \/ nh_std_cb_write
    BY <2>2, <2>6, Zenon DEF nh_runner_nothing, nh_feed_pdu_ts, nh_std_cb_copy, nh_std_cb_write, rdVars
  <2>7. ASSUME NEW c \in use.chans, chan_read_call(c) PROVE accepted' = accepted /\ got' = got
    BY <2>2, <2>7, Zenon DEF chan_read_call, rxVars
  <2>8. CASE Monitor \/ Main \/ UNCHANGED vars
    BY <2>2, <2>8, Zenon
       DEF Monitor, nh_notify_listener_Tnew, nh_notify_listener_Tleave, Main, MainInCall, app_chan_stop,
           chan_stop, chan_stop_write, nh_destroy, nh_stop_rx_join, nh_destroy_chan, chan_free,
           vars, rxVars, rdVars
  <2>9. QED
    BY <2>1, <2>3, <2>4, <2>5, <2>6, <2>7, <2>8, Zenon DEF Next, RxThread, Reader
<1>4. RxInv /\ FifoInv /\ [Next]_vars => FifoInv'
  BY FifoStep
<1>5. QED
  BY <1>1, <1>2, <1>3, <1>4, RxInductive, PTL DEF Spec, ImplementsFifo, Fifo!Spec
=============================================================================

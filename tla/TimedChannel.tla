---------------------------- MODULE TimedChannel ----------------------------
(***************************************************************************)
(* A channel from end to end, in time.  The talker of examples/talker.cpp  *)
(* paces itself: on a TAS channel NetChanTx::send() waits for the slot     *)
(* (wait_for_tx_slot), on a CBS channel the loop ends with pt_next_cycle() *)
(* of a periodic timer.  Module TxPacing sends the frame.  The listener    *)
(* stamps it when it arrives and its reader, in chan_read_wait(), works    *)
(* out when it was captured and sleeps until the class delay has passed.   *)
(*                                                                         *)
(* An application that is not the talker sends as module TxPacing says, at *)
(* any time; nothing is added to that.                                     *)
(***************************************************************************)
EXTENDS TxPacing, TimeSpec

CONSTANTS
  ClassDelay,  \* ch->sc: capture to use
  MaxSkew      \* how far the two PTP clocks may be apart

ASSUME TimedChannelAssumption ==
  ClassDelay \in Nat /\ MaxSkew \in Nat /\ Wake <= NsInSec

VARIABLES
  talker,   \* the application is examples/talker.cpp
  lpc,      \* its loop: "top", "slot" (asleep), "send" (in the call), "cycle", "end"
  closing,  \* the loop is over and the frame that tells the other end is next
  alarm,    \* the timespec it sleeps to
  pt_ts,    \* the timer: pt->pt_ts
  cycles,   \* cycles of the timer
  sample,   \* ch->sample_ns
  wire,     \* frames on their way, and when they leave
  skew,     \* the listener's clock minus the talker's
  pipe,     \* frames received: the talker's stamp and the time of reception
  rpc,      \* reader: "read", "ptp" and "cpu" (in chan_delay), "asleep"
  held,     \* the frame the reader has in hand
  until     \* when the reader wakes up

loopVars == <<lpc, closing, alarm, pt_ts, cycles>>
rdVars == <<pipe, rpc, held, until>>
timedVars == <<talker, loopVars, sample, wire, skew, rdVars>>

TInit ==
  /\ Init
  /\ talker \in BOOLEAN /\ (talker => ~timed)
  /\ lpc = "top" /\ closing = FALSE /\ alarm = NsTs(Start) /\ cycles = 0
  /\ pt_ts = NsTs(Start)       \* pt_init_from_attr(): the time now
  /\ sample = Start /\ wire = <<>>
  /\ skew \in IF talker THEN -MaxSkew .. MaxSkew ELSE {0}
  /\ pipe = <<>> /\ rpc = "read" /\ until = NsTs(Start)
  /\ held = [sample |-> Start, recv |-> Start, due |-> Start]
-----------------------------------------------------------------------------
(* The talker. *)

\* A mutant: the slot is not waited for.
SlotNow ==
  /\ talker /\ class = "TAS" /\ lpc = "top"
  /\ lpc' = "slot" /\ alarm' = NsTs(now)
  /\ UNCHANGED <<vars, talker, closing, pt_ts, cycles, sample, wire, skew, rdVars>>

\* wait_for_tx_slot(): no need to wait, or sleep to 100 us before the slot.
wait_for_tx_slot ==
  /\ talker /\ class = "TAS" /\ lpc = "top"
  /\ lpc' = "slot"
  /\ alarm' = IF now > next_tx
                THEN NsTs(now)
                ELSE ts_subtract_ns(ts_normalize(NsTs(next_tx)), Wake)
  /\ UNCHANGED <<vars, talker, closing, pt_ts, cycles, sample, wire, skew, rdVars>>

\* chan_update() stamps the frame.
chan_update == sample' = now

\* NetChanTx::send(): chan_send_now(), timed by module TxPacing.
talker_send ==
  /\ talker
  /\ lpc = IF class = "TAS" THEN "slot" ELSE "top"
  /\ now >= TsNs(alarm)
  /\ chan_send_now
  /\ chan_update
  /\ lpc' = "send"
  /\ UNCHANGED <<talker, closing, alarm, pt_ts, cycles, wire, skew, rdVars>>

\* The frame has gone and the loop goes on; or the call fails, which ends the loop;
\* or the qdisc has dropped a TAS frame, which the talker does not notice.
talker_sent ==
  /\ talker /\ lpc = "send"
  /\ \/ /\ sendmsg
        /\ wire' = Append(wire, [at |-> out'[Len(out')].at, sample |-> sample])
        /\ lpc' = IF closing THEN "end" ELSE IF class = "TAS" THEN "top" ELSE "cycle"
        /\ UNCHANGED closing
     \/ /\ sendmsg_fails
        /\ lpc' = IF closing THEN "end" ELSE "top"
        /\ closing' \in (IF class = "TAS" THEN {closing, TRUE} ELSE {TRUE})
        /\ UNCHANGED wire
  /\ UNCHANGED <<talker, alarm, pt_ts, cycles, sample, skew, rdVars>>

\* The loop has run its course, or SIGINT has ended it.
loop_ends ==
  /\ talker /\ lpc = "top" /\ ~closing
  /\ closing' = TRUE
  /\ UNCHANGED <<vars, talker, lpc, alarm, pt_ts, cycles, sample, wire, skew, rdVars>>

\* A mutant: the next cycle is counted from the time of the call.
DriftingTimer ==
  /\ talker /\ lpc = "cycle"
  /\ pt_ts' = ts_add_ns(NsTs(now), Interval)
  /\ cycles' = cycles + 1
  /\ alarm' = pt_ts' /\ lpc' = "top"
  /\ UNCHANGED <<vars, talker, closing, sample, wire, skew, rdVars>>

\* Another: the seconds are not carried.
NoCarry ==
  /\ talker /\ lpc = "cycle"
  /\ pt_ts' = [pt_ts EXCEPT !.nsec = (@ + Interval) % NsInSec]
  /\ cycles' = cycles + 1
  /\ alarm' = pt_ts' /\ lpc' = "top"
  /\ UNCHANGED <<vars, talker, closing, sample, wire, skew, rdVars>>

\* pt_next_cycle(): the next cycle is counted from the last, and slept to.
pt_next_cycle ==
  /\ talker /\ lpc = "cycle"
  /\ pt_ts' = ts_add_ns(pt_ts, Interval)
  /\ cycles' = cycles + 1
  /\ alarm' = pt_ts' /\ lpc' = "top"
  /\ UNCHANGED <<vars, talker, closing, sample, wire, skew, rdVars>>

\* Time passes, and applications other than the talker send, as in TxPacing.
pacing ==
  /\ tick \/ (~talker /\ Next)
  /\ UNCHANGED timedVars
-----------------------------------------------------------------------------
(* The listener. *)

ptp_now == now + skew

\* nh_runner() receives a frame and stamps it.
receive ==
  /\ wire # <<>> /\ now >= Head(wire).at
  /\ wire' = Tail(wire)
  /\ pipe' = Append(pipe, [sample |-> Head(wire).sample, recv |-> ptp_now])
  /\ UNCHANGED <<vars, talker, loopVars, sample, skew, rpc, held, until>>

\* _chan_read(): the frame and the time it is due.
chan_read_wait ==
  /\ rpc = "read" /\ pipe # <<>>
  /\ LET f == Head(pipe)
     IN  held' = [sample |-> f.sample, recv |-> f.recv,
                  due |-> ptp_capture(f.recv, tai_to_avtp_ns(f.sample)) + ClassDelay]
  /\ pipe' = Tail(pipe)
  /\ rpc' = "ptp"
  /\ UNCHANGED <<vars, talker, loopVars, sample, wire, skew, until>>

\* chan_delay(): what is left, by the PTP clock ...
chan_delay_ptp ==
  /\ rpc = "ptp"
  /\ until' = [sec |-> 0, nsec |-> IF held.due < ptp_now THEN 0 ELSE held.due - ptp_now]
  /\ rpc' = IF held.due < ptp_now THEN "asleep" ELSE "cpu"
  /\ UNCHANGED <<vars, talker, loopVars, sample, wire, skew, pipe, held>>

\* A mutant: the wake-up is computed for the PTP clock and slept by the other.
PtpForCpu ==
  /\ rpc = "cpu"
  /\ until' = NsTs(now - until.nsec)
  /\ rpc' = "asleep"
  /\ UNCHANGED <<vars, talker, loopVars, sample, wire, skew, pipe, held>>

\* ... and, read later, CLOCK_MONOTONIC, which runs at the same rate.
chan_delay_cpu ==
  /\ rpc = "cpu"
  /\ until' = ts_add_ns(NsTs(now), until.nsec)
  /\ rpc' = "asleep"
  /\ UNCHANGED <<vars, talker, loopVars, sample, wire, skew, pipe, held>>

\* chan_read_wait() returns.
chan_delay_return ==
  /\ rpc = "asleep" /\ now >= TsNs(until)
  /\ rpc' = "read"
  /\ UNCHANGED <<vars, talker, loopVars, sample, wire, skew, pipe, held, until>>

TNext ==
  \/ wait_for_tx_slot \/ talker_send \/ talker_sent \/ loop_ends \/ pt_next_cycle
  \/ pacing
  \/ receive
  \/ chan_read_wait \/ chan_delay_ptp \/ chan_delay_cpu \/ chan_delay_return

TSpec == TInit /\ [][TNext]_<<vars, timedVars>>
-----------------------------------------------------------------------------
\* "Since it is a periodic timer, it should not grow in error"
\* (test/test_utils.c:170): however late the loop is, the timer stands at a whole
\* number of periods from where it started, in a timespec the kernel accepts.
TimerDoesNotDrift ==
  /\ TsNs(pt_ts) = Start + cycles * Interval
  /\ Normal(pt_ts) /\ Normal(alarm)

\* A talker keeps its period: paced by the timer it has sent, at any time, at
\* most one frame more than periods have passed, the closing frame included,
\* which after a failed call does not wait for the next cycle.
PeriodKept ==
  talker /\ class = "CBS" => (Len(out) - 1) * Interval <= now - Start

\* A TAS talker does not run ahead of its slots: the frame in its hands goes
\* within 100 us (or as soon as the qdisc takes it), although chan_send_now()
\* alone would move next_tx_ns an interval further with every call.
NoBacklog ==
  talker /\ class = "TAS" /\ pc = "send" => txtime <= now + Larger(Lead, Wake)

\* A frame that was under way for less than the range of the AVTP timestamp,
\* received when the listener's clock was not behind the talker's stamp.
InRange(f) == f.recv >= f.sample /\ f.recv - f.sample < AvtpMod

\* "Reconstruct PTP capture timestamp from sender" (netchan.c:697): the time the
\* reader works out is the talker's, or 1 ns later when the 32-bit timestamp
\* wrapped along the way.
CaptureReconstructed ==
  rpc # "read" /\ InRange(held) =>
    held.due - ClassDelay - held.sample \in
      (IF held.sample \div AvtpMod = held.recv \div AvtpMod THEN {0} ELSE {1})

\* "caller will be delayed until capture time + class delay has passed"
\* (netchan.h:668), although chan_delay() reads two clocks one after the other
\* and the talker's stamp is 32 bits of it.
NotBeforeDue ==
  [][chan_delay_return /\ InRange(held) => ptp_now >= held.sample + ClassDelay]_<<vars, timedVars>>
=============================================================================

------------------------------ MODULE TimeSpec ------------------------------
(***************************************************************************)
(* Time as the library computes with it: struct timespec, and the 32-bit   *)
(* nanoseconds of an AVTP timestamp.                                       *)
(***************************************************************************)
EXTENDS Integers

CONSTANTS
  NsInSec,   \* NS_IN_SEC
  AvtpMod    \* 2^32, the range of an AVTP timestamp

ASSUME TimeSpecAssumption ==
  /\ NsInSec \in Nat \ {0}
  /\ AvtpMod \in Nat \ {0}

Timespec == [sec : Int, nsec : Nat]

\* The time a timespec stands for.
TsNs(ts) == ts.sec * NsInSec + ts.nsec

NsTs(ns) == [sec |-> ns \div NsInSec, nsec |-> ns % NsInSec]

\* A timespec clock_nanosleep() accepts.
Normal(ts) == ts.nsec >= 0 /\ ts.nsec < NsInSec

\* The seconds the loop carries over.
ts_normalize(ts) ==
  IF ts.nsec >= NsInSec
    THEN [sec |-> ts.sec + ts.nsec \div NsInSec, nsec |-> ts.nsec % NsInSec]
    ELSE ts

\* It borrows one second, whatever is subtracted.
ts_subtract_ns(ts, sub) ==
  IF sub > ts.nsec
    THEN [sec |-> ts.sec - 1, nsec |-> ts.nsec + NsInSec - sub]
    ELSE [ts EXCEPT !.nsec = @ - sub]

ts_add_ns(ts, add) == ts_normalize([ts EXCEPT !.nsec = @ + add])

tai_to_avtp_ns(tai) == tai % AvtpMod

\* A mutant: a timestamp that wrapped along the way is not noticed.
NoWrap(recv, avtp) == recv - (tai_to_avtp_ns(recv) - avtp)

\* How _chan_read() gets the time of capture from the time of reception and the
\* AVTP timestamp of the sender.
ptp_capture(recv, avtp) ==
  LET lavtp == tai_to_avtp_ns(recv)
      wrapped == IF lavtp < avtp THEN AvtpMod - 1 ELSE 0
  IN  recv - (lavtp + wrapped - avtp)
=============================================================================

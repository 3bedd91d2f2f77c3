------------------------------ MODULE TxPacing ------------------------------
(***************************************************************************)
(* One Tx channel and the thread that sends on it.  For a TAS channel the  *)
(* library gives every frame a transmit time (SO_TXTIME) and keeps, in     *)
(* next_tx_ns, the time the next one is eligible; for a CBS channel it     *)
(* hands frames to the socket and leaves the pacing to the kernel.  Time   *)
(* is counted in units, and passes between any two steps of the thread.    *)
(***************************************************************************)
EXTENDS Integers, Sequences

CONSTANTS
  Interval,   \* ch->interval_ns
  Lead,       \* 50 us: how far ahead a transmit time must be
  Wake,       \* 100 us: how long before its time a CBS frame is sent
  Start,      \* the time the channel is created
  MaxTime,    \* bound: the time at which the model stops
  MaxCalls    \* bound: calls that send

ASSUME PacingAssumption ==
  /\ Interval \in Nat \ {0} /\ Lead \in Nat /\ Wake \in Nat
  /\ Start \in Nat /\ MaxTime \in Nat /\ MaxCalls \in Nat

None == 0   \* tx_ns is NULL

VARIABLES
  class,    \* "TAS" or "CBS": the operations ch->ops points to
  timed,    \* whether the application passes times of its own
  now,      \* CLOCK_TAI
  next_tx,  \* ch->next_tx_ns
  pc,       \* the thread: "idle", "sleep", "send"
  asked,    \* *tx_ns as passed by the application, or None
  txtime,   \* the transmit time of the frame in hand
  calls,    \* calls so far
  out       \* the frames handed to the socket: when they go, what was asked
vars == <<class, timed, now, next_tx, pc, asked, txtime, calls, out>>

\* chan_create_tx(): "the first attempt should fly straight through".
Init ==
  /\ class \in {"TAS", "CBS"} /\ timed \in BOOLEAN
  /\ now = Start /\ next_tx = Start
  /\ pc = "idle" /\ asked = None /\ txtime = Start
  /\ calls = 0 /\ out = <<>>

Larger(a, b) == IF a > b THEN a ELSE b

tick ==
  /\ now < MaxTime
  /\ now' = now + 1
  /\ UNCHANGED <<class, timed, next_tx, pc, asked, txtime, calls, out>>
-----------------------------------------------------------------------------
\* A mutant: the slot is not waited for.
SlotIgnored(tx) ==
  LET tai_now == now + Lead
  IN  IF tx # None /\ tx > tai_now /\ tx < tai_now + next_tx
        THEN tx ELSE tai_now

\* The transmit time _tas_send_at() chooses.
tas_txtime(tx) ==
  LET tai_now == now + Lead
  IN  IF tx # None /\ tx > tai_now /\ tx < tai_now + next_tx
        THEN tx
        ELSE Larger(tai_now, next_tx)

\* _tas_send_at() up to sendmsg().  Its loop runs once: txtime >= tai_now.
_tas_send_at(tx) ==
  /\ class = "TAS"
  /\ txtime' = tas_txtime(tx)
  /\ next_tx' = txtime' + Interval
  /\ pc' = "send"

\* _cbs_send_at(): sleep if the time asked for is far enough ahead.
_cbs_send_at(tx) ==
  /\ class = "CBS"
  /\ pc' = IF tx # None /\ tx - Wake > now THEN "sleep" ELSE "send"
  /\ UNCHANGED <<next_tx, txtime>>

send(tx) ==
  /\ pc = "idle" /\ calls < MaxCalls
  /\ calls' = calls + 1
  /\ asked' = tx
  /\ _tas_send_at(tx) \/ _cbs_send_at(tx)
  /\ UNCHANGED <<class, timed, now, out>>

\* chan_send_now() passes no time, chan_send() may.
chan_send_now == send(None)
chan_send(tx) == timed /\ send(tx)

\* A mutant: a sleep that ends at once.
NoSleep ==
  /\ pc = "sleep"
  /\ pc' = "send"
  /\ UNCHANGED <<class, timed, now, next_tx, asked, txtime, calls, out>>

\* clock_nanosleep() to an absolute time.
clock_nanosleep ==
  /\ pc = "sleep"
  /\ now >= asked - Wake
  /\ pc' = "send"
  /\ UNCHANGED <<class, timed, now, next_tx, asked, txtime, calls, out>>

\* A TAS frame goes at its transmit time; a CBS frame now.
sendmsg ==
  /\ pc = "send"
  /\ class = "TAS" => now <= txtime
  /\ out' = Append(out, [at |-> IF class = "TAS" THEN txtime ELSE now, asked |-> asked])
  /\ pc' = "idle"
  /\ UNCHANGED <<class, timed, now, next_tx, asked, txtime, calls>>

\* The socket returns an error, or the time has passed and the qdisc drops the
\* frame (nc_handle_sock_err()); next_tx_ns has moved on all the same.
sendmsg_fails ==
  /\ pc = "send"
  /\ pc' = "idle"
  /\ UNCHANGED <<class, timed, now, next_tx, asked, txtime, calls, out>>

Next ==
  \/ tick
  \/ chan_send_now
  \/ \E tx \in Start .. MaxTime : chan_send(tx)
  \/ clock_nanosleep
  \/ sendmsg
  \/ sendmsg_fails

Spec == Init /\ [][Next]_vars
-----------------------------------------------------------------------------
\* Times are natural numbers.
TypeOK ==
  /\ class \in {"TAS", "CBS"} /\ timed \in BOOLEAN
  /\ now \in Nat /\ next_tx \in Nat /\ txtime \in Nat /\ asked \in Nat
  /\ calls \in Nat
  /\ pc \in {"idle", "sleep", "send"}
  /\ out \in Seq([at : Nat, asked : Nat])

\* "Minimum distance between each frame" (netchan.h:109): the frames of a TAS
\* channel whose times _tas_send_at() chooses are Interval apart, also when
\* sendmsg() fails or comes late.  (A time the application passes replaces the
\* slot, and the CBS operations leave the distance to the kernel.)
Spacing ==
  class = "TAS" /\ ~timed =>
    \A i \in 1 .. Len(out) - 1 : out[i + 1].at >= out[i].at + Interval

\* A frame does not go before the time asked for; a CBS frame, which has the
\* way to the wire before it, not more than Wake earlier.
NotBeforeAsked ==
  \A i \in DOMAIN out :
    out[i].at >= out[i].asked - (IF class = "CBS" THEN Wake ELSE 0)
=============================================================================

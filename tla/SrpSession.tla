----------------------------- MODULE SrpSession -----------------------------
(***************************************************************************)
(* One stream under SRP: the talker's nethandler with its Tx channel, and  *)
(* listeners' nethandlers with an Rx channel each.  Every host runs the    *)
(* application's thread, the SRP monitor (nc_srp_monitor) that takes the   *)
(* notices mrpd sends and sets or clears ready, and the talker also the    *)
(* announcer (nc_srp_talker_announce).  mrpd and the network between the   *)
(* hosts are external: a talker's or listener's attribute reaches every    *)
(* monitor of the other side as a notice, in order, or is lost.            *)
(***************************************************************************)
EXTENDS Integers, Sequences, FiniteSets

CONSTANTS
  Talker, Listeners,
  QueueBound,   \* bound: notices waiting at a host's SRP socket
  Uses          \* the ways to use a stream, records
                \* hosts: the hosts that take part; lost: bound, notices lost;
                \* stop, destroy, wait: those whose application calls chan_stop(),
                \* nh_destroy(), chan_ready_timedwait()

Hosts == {Talker} \cup Listeners

ASSUME SrpAssumption ==
  /\ Talker \notin Listeners
  /\ QueueBound \in Nat \ {0}
  /\ \A u \in Uses :
       /\ Talker \in u.hosts /\ u.hosts \subseteq Hosts
       /\ u.lost \in Nat
       /\ u.stop \cup u.destroy \cup u.wait \subseteq u.hosts

VARIABLES
  use,        \* how the stream is used, one of Uses
  app,        \* host -> application's thread: "new", "run", "leave" (in
              \* chan_stop), "join_rx", "free" and "teardown" (in nh_destroy), "gone"
  running, ready, stopping,
  freed,      \* host -> nh_destroy() has freed the map and begun on the lists
  mon,        \* host -> monitor: "poll", "find", "send", "set", "exited"
  notice,     \* host -> the notice its monitor has in hand
  inq,        \* host -> notices waiting at its SRP socket
  ann,        \* announcer: "scan", "send", "exited"
  lost,       \* notices lost so far
  late,       \* advertisements sent after the Tx channel was stopped
  waits,      \* host -> a call of chan_ready_timedwait() is waiting
  result      \* host -> what the last such call returned

chanVars == <<running, ready, stopping, freed>>
monVars == <<mon, notice>>
netVars == <<inq, lost, late>>
waitVars == <<waits, result>>
vars == <<use, app, chanVars, monVars, netVars, ann, waitVars>>

Notices == {"Tnew", "Tleave", "Lnew", "Lleave"}

\* Every nethandler that takes part has been created and has finished
\* nh_set_srp(); the others are not there.
Init ==
  /\ use \in Uses
  /\ app = [h \in Hosts |-> IF h \in use.hosts THEN "new" ELSE "gone"]
  /\ running = [h \in Hosts |-> h \in use.hosts]
  /\ ready = [h \in Hosts |-> FALSE]
  /\ stopping = [h \in Hosts |-> FALSE]
  /\ freed = [h \in Hosts |-> FALSE]
  /\ mon = [h \in Hosts |-> IF h \in use.hosts THEN "poll" ELSE "exited"]
  /\ notice = [h \in Hosts |-> "Tleave"]
  /\ inq = [h \in Hosts |-> <<>>]
  /\ ann = "scan"
  /\ lost = 0 /\ late = 0
  /\ waits = [h \in Hosts |-> FALSE]
  /\ result = [h \in Hosts |-> "none"]
-----------------------------------------------------------------------------
(* mrpd and the network (external). *)

\* A notice for the monitors of hosts H.  A socket nobody reads takes none.
Notify(H, msg) ==
  LET to == {h \in H : mon[h] # "exited"}
  IN  /\ \A h \in to : Len(inq[h]) < QueueBound
      /\ inq' = [h \in Hosts |-> IF h \in to THEN Append(inq[h], msg) ELSE inq[h]]

mrpd_loses(h) ==
  /\ inq[h] # <<>> /\ lost < use.lost
  /\ inq' = [inq EXCEPT ![h] = Tail(@)]
  /\ lost' = lost + 1
  /\ UNCHANGED <<app, chanVars, monVars, late, ann, waitVars, use>>

\* "S++": nc_mrp_advertise_stream_class_a().
advertise ==
  /\ Notify(Listeners, "Tnew")
  /\ late' = IF stopping[Talker] THEN late + 1 ELSE late
  /\ UNCHANGED lost

\* "S--": nc_mrp_unadvertise_stream_class_a().
unadvertise ==
  /\ Notify(Listeners, "Tleave")
  /\ UNCHANGED <<lost, late>>

\* "S+L" and "S-L": nc_mrp_send_ready(), nc_mrp_send_leave().
listener_attribute(k) ==
  /\ Notify({Talker}, k)
  /\ UNCHANGED <<lost, late>>
-----------------------------------------------------------------------------
(* The application's threads. *)

\* chan_create_tx() announces the talker once, chan_create_rx() says nothing.
chan_create(h) ==
  /\ app[h] = "new"
  /\ app' = [app EXCEPT ![h] = "run"]
  /\ IF h = Talker THEN advertise ELSE UNCHANGED netVars
  /\ UNCHANGED <<chanVars, monVars, ann, waitVars, use>>

\* chan_stop() up to the message for mrpd; a second call only clears ready.
stop_flags(h, after) ==
  /\ ready' = [ready EXCEPT ![h] = FALSE]
  /\ stopping' = [stopping EXCEPT ![h] = TRUE]
  /\ app' = [app EXCEPT ![h] = IF stopping[h] THEN after ELSE "leave"]

chan_stop(h) ==
  /\ h \in use.stop
  /\ app[h] = "run" /\ ~waits[h]
  /\ stop_flags(h, "run")
  /\ UNCHANGED <<running, freed, monVars, netVars, ann, waitVars, use>>

\* nc_srp_remove_talker() or nc_srp_remove_listener(): the rest of chan_stop().
chan_stop_leave(h) ==
  /\ app[h] = "leave"
  /\ IF h = Talker THEN unadvertise ELSE listener_attribute("Lleave")
  /\ app' = [app EXCEPT ![h] = IF running[h] THEN "run" ELSE "free"]
  /\ UNCHANGED <<chanVars, monVars, ann, waitVars, use>>

\* nh_destroy(): _nh_stop_rx() clears running and joins the Rx thread; the hash
\* map is freed; the channel is stopped and freed; nc_srp_teardown() joins the
\* monitor and the announcer.
nh_destroy(h) ==
  /\ h \in use.destroy
  /\ app[h] = "run" /\ ~waits[h]
  /\ running' = [running EXCEPT ![h] = FALSE]
  /\ app' = [app EXCEPT ![h] = "join_rx"]
  /\ UNCHANGED <<ready, stopping, freed, monVars, netVars, ann, waitVars, use>>

nh_destroy_channel(h) ==
  /\ app[h] = "join_rx"
  /\ freed' = [freed EXCEPT ![h] = TRUE]
  /\ stop_flags(h, "free")
  /\ UNCHANGED <<running, monVars, netVars, ann, waitVars, use>>

nh_destroy_free(h) ==
  /\ app[h] = "free"
  /\ app' = [app EXCEPT ![h] = "teardown"]
  /\ UNCHANGED <<chanVars, monVars, netVars, ann, waitVars, use>>

nc_srp_teardown(h) ==
  /\ app[h] = "teardown"
  /\ mon[h] = "exited"
  /\ h = Talker => ann = "exited"
  /\ app' = [app EXCEPT ![h] = "gone"]
  /\ UNCHANGED <<chanVars, monVars, netVars, ann, waitVars, use>>

\* chan_ready_timedwait() returns at once, or waits on a condition that no
\* code signals: what ends the wait is the timeout or a spurious wake-up.
chan_ready_timedwait(h) ==
  /\ h \in use.wait
  /\ app[h] = "run" /\ ~waits[h]
  /\ \/ /\ ~running[h] \/ stopping[h]
        /\ result' = [result EXCEPT ![h] = "EINVAL"] /\ UNCHANGED waits
     \/ /\ running[h] /\ ~stopping[h] /\ ready[h]
        /\ result' = [result EXCEPT ![h] = "0"] /\ UNCHANGED waits
     \/ /\ running[h] /\ ~stopping[h] /\ ~ready[h]
        /\ waits' = [waits EXCEPT ![h] = TRUE]
        /\ result' = [result EXCEPT ![h] = "none"]
  /\ UNCHANGED <<app, chanVars, monVars, netVars, ann, use>>

chan_ready_timedwait_return(h) ==
  /\ waits[h]
  /\ waits' = [waits EXCEPT ![h] = FALSE]
  /\ result' \in {[result EXCEPT ![h] = r] : r \in {"ETIMEDOUT", "0"}}
  /\ UNCHANGED <<app, chanVars, monVars, netVars, ann, use>>
-----------------------------------------------------------------------------
(* The SRP monitor. *)

\* A mutant: running is tested only after a notice has come.
DeafMonitor(h) ==
  /\ mon[h] = "poll" /\ inq[h] # <<>>
  /\ notice' = [notice EXCEPT ![h] = Head(inq[h])]
  /\ inq' = [inq EXCEPT ![h] = Tail(@)]
  /\ mon' = [mon EXCEPT ![h] = IF running[h] THEN "find" ELSE "exited"]
  /\ UNCHANGED <<app, chanVars, lost, late, ann, waitVars, use>>

\* poll() has a timeout of 100 ms; running is tested before and after it.
nc_srp_monitor_poll(h) ==
  /\ mon[h] = "poll"
  /\ \/ /\ ~running[h]
        /\ mon' = [mon EXCEPT ![h] = "exited"]
        /\ UNCHANGED <<notice, inq>>
     \/ /\ running[h] /\ inq[h] # <<>>
        /\ notice' = [notice EXCEPT ![h] = Head(inq[h])]
        /\ inq' = [inq EXCEPT ![h] = Tail(@)]
        /\ mon' = [mon EXCEPT ![h] = "find"]
  /\ UNCHANGED <<app, chanVars, lost, late, ann, waitVars, use>>

\* A mutant: a listener does not answer.
SilentListener(h) ==
  /\ mon[h] = "find"
  /\ mon' = [mon EXCEPT ![h] =
               IF app[h] = "new" \/ freed[h] THEN "poll" ELSE "set"]
  /\ UNCHANGED <<app, chanVars, notice, netVars, ann, waitVars, use>>

\* A mutant: a listener that does not have the channel yet says that it leaves.
UnknownLeaves(h) ==
  /\ mon[h] = "find"
  /\ mon' = [mon EXCEPT ![h] =
               IF app[h] = "new" \/ freed[h] THEN "poll"
               ELSE IF h = Talker THEN "set" ELSE "send"]
  /\ IF h # Talker /\ app[h] = "new" THEN listener_attribute("Lleave") ELSE UNCHANGED netVars
  /\ UNCHANGED <<app, chanVars, notice, ann, waitVars, use>>

\* get_tx_chan_from_sid() or get_rx_chan_from_sid(): a channel that has not
\* been created, or has left the list, is not found.  A listener answers before
\* it changes ready, a talker does not answer.
monitor_find(h) ==
  /\ mon[h] = "find"
  /\ mon' = [mon EXCEPT ![h] =
               IF app[h] = "new" \/ freed[h] THEN "poll"
               ELSE IF h = Talker THEN "set" ELSE "send"]
  /\ UNCHANGED <<app, chanVars, notice, netVars, ann, waitVars, use>>

\* nc_mrp_send_ready() in nh_notify_listener_Tnew(), nc_mrp_send_leave() in
\* nh_notify_listener_Tleave().
monitor_send(h) ==
  /\ mon[h] = "send"
  /\ listener_attribute(IF notice[h] = "Tnew" THEN "Lnew" ELSE "Lleave")
  /\ mon' = [mon EXCEPT ![h] = "set"]
  /\ UNCHANGED <<app, chanVars, notice, ann, waitVars, use>>

\* nh_notify_talker_Lnew(), _Lleaving(), nh_notify_listener_Tnew(), _Tleave()
\* set ready and do not look at stopping.
monitor_set(h) ==
  /\ mon[h] = "set"
  /\ ready' = [ready EXCEPT ![h] = notice[h] \in {"Lnew", "Tnew"}]
  /\ mon' = [mon EXCEPT ![h] = "poll"]
  /\ UNCHANGED <<app, running, stopping, freed, notice, netVars, ann, waitVars, use>>

Monitor(h) ==
  \/ nc_srp_monitor_poll(h)
  \/ monitor_find(h)
  \/ monitor_send(h)
  \/ monitor_set(h)
-----------------------------------------------------------------------------
(* The announcer. *)

\* Mutants: the announcer leaves it at the announcement chan_create_tx() made;
\* it does not look at stopping.
NeverAgain ==
  /\ ann = "scan"
  /\ ann' = IF running[Talker] THEN "scan" ELSE "exited"
  /\ UNCHANGED <<app, chanVars, monVars, netVars, waitVars, use>>

StoppingIgnored ==
  /\ ann = "scan"
  /\ ann' = IF ~running[Talker] THEN "exited"
            ELSE IF app[Talker] # "new" /\ ~freed[Talker] /\ ~ready[Talker]
                   THEN "send"
            ELSE "scan"
  /\ UNCHANGED <<app, chanVars, monVars, netVars, waitVars, use>>

\* Every ten seconds: announce the channel if it is neither ready nor stopping
\* (tested here and again in nc_srp_new_talker()).
nc_srp_talker_announce ==
  /\ ann = "scan"
  /\ ann' = IF ~running[Talker] THEN "exited"
            ELSE IF /\ app[Talker] # "new" /\ ~freed[Talker]
                    /\ ~ready[Talker] /\ ~stopping[Talker] THEN "send"
            ELSE "scan"
  /\ UNCHANGED <<app, chanVars, monVars, netVars, waitVars, use>>

announce_send ==
  /\ ann = "send"
  /\ advertise
  /\ ann' = "scan"
  /\ UNCHANGED <<app, chanVars, monVars, waitVars, use>>
-----------------------------------------------------------------------------
\* The steps of an application's thread inside a call.
InCall(h) ==
  \/ chan_stop_leave(h)
  \/ nh_destroy_channel(h)
  \/ nh_destroy_free(h)
  \/ nc_srp_teardown(h)
  \/ chan_ready_timedwait_return(h)

Next ==
  \/ \E h \in Hosts :
       \/ chan_create(h)
       \/ chan_stop(h)
       \/ nh_destroy(h)
       \/ chan_ready_timedwait(h)
       \/ InCall(h)
       \/ Monitor(h)
       \/ mrpd_loses(h)
  \/ nc_srp_talker_announce
  \/ announce_send

Spec == Init /\ [][Next]_vars

\* The threads run: monitors poll again and again, the announcer wakes up every
\* ten seconds, a call that was made goes on.  Applications need not make any.
FairSpec ==
  /\ Spec
  /\ \A h \in Hosts : WF_vars(Monitor(h)) /\ WF_vars(InCall(h))
  /\ WF_vars(nc_srp_talker_announce) /\ WF_vars(announce_send)

\* Applications that wait for their channel as examples/manychan.c does:
\* "while (chan_ready_timedwait(rx, 100 * NS_IN_MS) != 0 && running)".
WaitingSpec == FairSpec /\ \A h \in Hosts : WF_vars(chan_ready_timedwait(h))
-----------------------------------------------------------------------------
\* The state is what the declarations say; queues keep to their bound.
TypeOK ==
  /\ use \in Uses
  /\ app \in [Hosts -> {"new", "run", "leave", "join_rx", "free", "teardown", "gone"}]
  /\ running \in [Hosts -> BOOLEAN] /\ ready \in [Hosts -> BOOLEAN]
  /\ stopping \in [Hosts -> BOOLEAN] /\ freed \in [Hosts -> BOOLEAN]
  /\ mon \in [Hosts -> {"poll", "find", "send", "set", "exited"}]
  /\ notice \in [Hosts -> Notices]
  /\ inq \in [Hosts -> Seq(Notices)] /\ \A h \in Hosts : Len(inq[h]) <= QueueBound
  /\ ann \in {"scan", "send", "exited"}
  /\ lost \in 0 .. use.lost /\ late \in Nat
  /\ waits \in [Hosts -> BOOLEAN]
  /\ result \in [Hosts -> {"none", "0", "ETIMEDOUT", "EINVAL"}]

\* The announcer tests stopping and then advertises, so an advertisement can
\* follow the stop of the channel; never more than one does.
AtMostOneLateAnnouncement == late <= 1

Quiet ==
  /\ lost = 0 /\ late = 0
  /\ \A h \in use.hosts : inq[h] = <<>> /\ mon[h] = "poll" /\ app[h] \in {"new", "run"}

\* Talker and listeners agree when no notice is on its way or being handled and
\* none was lost: the Tx channel is ready exactly when some Rx channel is,
\* whether or not the talker has been stopped meanwhile.  Two races are excepted.
\* An announcement that overtakes the stop (AtMostOneLateAnnouncement) can leave
\* listeners waiting on a talker that has gone.  The chan_stop() of a listener
\* clears the talker's ready though others may listen, and may come between the
\* two steps of a monitor that is answering the talker.
QuietAgreement ==
  Quiet /\ (\A l \in Listeners : ~stopping[l])
    => (ready[Talker] <=> \E l \in Listeners : ready[l])

\* Nobody has taken a channel down so far.
Undisturbed == \A h \in use.hosts : running[h] /\ ~stopping[h]

\* A channel that is ready stays ready until somebody stops a channel of the
\* stream or destroys a nethandler: notices that are lost, repeated or answered
\* late never take it down.
LinkStaysUp == [][Undisturbed' => \A h \in Hosts : ready[h] => ready'[h]]_vars

\* Nobody takes a channel down.
NobodyLeaves == use.stop \cup use.destroy = {}

\* Re-announcing brings the stream up for good, in whatever order the channels
\* are made and whichever notices are lost: "if a listener joins later, the
\* talker-announce is not re-sent causing the listener to potentially wait
\* forever", which the announcer is there to prevent for talkers "without a
\* registred listener" (netchan_srp_client.h:42).  A talker that calls
\* chan_ready_timedwait() again and again gets to the point where every call
\* returns 0 at once, although nothing wakes a waiter.
LinkComesUp ==
  (NobodyLeaves /\ app[Talker] = "run" /\ \E l \in Listeners : app[l] = "run") ~>
    [](/\ ready[Talker] /\ \E l \in Listeners : ready[l]
       /\ Talker \in use.wait => result[Talker] = "0")

\* nh_destroy() returns although it joins two threads that sleep and poll: the
\* hosts that are being destroyed are all gone some day.
DestroyReturns ==
  (\E h \in Hosts : app[h] = "join_rx") ~>
    (\A h \in Hosts : running[h] \/ app[h] = "gone")

\* "After this has been called, calls to a channels send() and read() will
\* fail" (netchan.h:888): a stopped channel is not ready, which is what the
\* chan_send functions look at (chan_valid()).
StoppedIsNotReady ==
  \A h \in Hosts : stopping[h] /\ app[h] = "run" => ~ready[h]
=============================================================================

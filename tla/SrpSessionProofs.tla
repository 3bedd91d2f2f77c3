-------------------------- MODULE SrpSessionProofs --------------------------
(***************************************************************************)
(* The announcer's race with chan_stop(), the link that stays up, and the  *)
(* agreement of talker and listeners, for any number of listeners, any     *)
(* losses and any calls of the applications.                               *)
(***************************************************************************)
EXTENDS SrpSession, TLAPS

Phases == {"new", "run", "leave", "join_rx", "free", "teardown", "gone"}

\* The inductive invariant.  No late advertisement precedes the stop, and while
\* the announcer is about to send one there has been none: it saw stopping
\* clear when it decided to.  A channel is not stopped before it is created.
LateInv ==
  /\ app \in [Hosts -> Phases]
  /\ stopping \in [Hosts -> BOOLEAN]
  /\ late \in {0, 1}
  /\ ~stopping[Talker] => late = 0
  /\ ann = "send" => late = 0
  /\ app[Talker] = "new" => ~stopping[Talker]

\* What the invariant depends on.
lateVars == <<app, stopping, late, ann>>

\* A step that leaves alone what the invariant depends on.
LEMMA LateUnchanged == LateInv /\ UNCHANGED lateVars => LateInv'
BY DEF LateInv, lateVars

\* chan_stop() of any host keeps the invariant.
LEMMA StopKeepsLateInv ==
  ASSUME LateInv, NEW h \in Hosts, NEW after \in {"run", "free"}, app[h] # "new",
         stop_flags(h, after), UNCHANGED <<late, ann>>
  PROVE  LateInv'
<1>1. Talker \in Hosts
  BY DEF Hosts
<1>2. app' \in [Hosts -> Phases] /\ stopping' \in [Hosts -> BOOLEAN]
  BY DEF LateInv, stop_flags, Phases
<1>3. app'[Talker] = "new" => app[Talker] = "new" /\ h # Talker
  BY <1>1 DEF LateInv, stop_flags
<1>4. ~stopping'[Talker] => ~stopping[Talker]
  BY <1>1 DEF LateInv, stop_flags
<1>5. h # Talker => stopping'[Talker] = stopping[Talker]
  BY <1>1 DEF LateInv, stop_flags
<1> QED
  BY <1>2, <1>3, <1>4, <1>5 DEF LateInv

\* A step that moves the application's thread of a created channel on.
LEMMA AppStepKeepsLateInv ==
  ASSUME LateInv, NEW h \in Hosts, NEW p \in Phases \ {"new"},
         app' = [app EXCEPT ![h] = p], UNCHANGED <<stopping, late, ann>>
  PROVE  LateInv'
BY DEF LateInv, Hosts

\* At most one advertisement of a stream is sent after chan_stop() has marked
\* its channel as stopping (the window between the test of stopping in
\* nc_srp_talker_announce() and nc_srp_new_talker(), and the message to mrpd).
THEOREM OneLateAnnouncement == Spec => []AtMostOneLateAnnouncement
<1>1. Init => LateInv
  BY DEF Init, LateInv, Hosts, Phases
<1>2. LateInv /\ [Next]_vars => LateInv'
  <2> SUFFICES ASSUME LateInv, [Next]_vars PROVE LateInv'
    OBVIOUS
  <2>1. ASSUME NEW h \in Hosts, chan_create(h) PROVE LateInv'
    <3>1. ~stopping[Talker] \/ h # Talker
      BY <2>1 DEF chan_create, LateInv
    <3>2. late' = late
      BY <2>1, <3>1 DEF chan_create, advertise, netVars
    <3>3. app' = [app EXCEPT ![h] = "run"] /\ UNCHANGED <<stopping, ann>>
      BY <2>1 DEF chan_create, chanVars
    <3> QED
      BY <3>2, <3>3, AppStepKeepsLateInv DEF Phases
  <2>2. ASSUME NEW h \in Hosts, chan_stop(h) PROVE LateInv'
    <3>1. app[h] # "new" /\ stop_flags(h, "run") /\ UNCHANGED <<late, ann>>
      BY <2>2 DEF chan_stop, netVars
    <3> QED
      BY <3>1, StopKeepsLateInv
  <2>3. ASSUME NEW h \in Hosts, nh_destroy(h) PROVE LateInv'
    <3>1. app' = [app EXCEPT ![h] = "join_rx"] /\ UNCHANGED <<stopping, late, ann>>
      BY <2>3 DEF nh_destroy, netVars
    <3> QED
      BY <3>1, AppStepKeepsLateInv DEF Phases
  <2>4. ASSUME NEW h \in Hosts, chan_ready_timedwait(h) \/ chan_ready_timedwait_return(h)
        PROVE  LateInv'
    <3>1. UNCHANGED lateVars
      BY <2>4 DEF chan_ready_timedwait, chan_ready_timedwait_return, chanVars, netVars, lateVars
    <3> QED
      BY <3>1, LateUnchanged
  <2>5. ASSUME NEW h \in Hosts, chan_stop_leave(h) PROVE LateInv'
    <3>1. UNCHANGED <<stopping, late, ann>>
      BY <2>5 DEF chan_stop_leave, unadvertise, listener_attribute, chanVars
    <3>2. PICK p \in {"run", "free"} : app' = [app EXCEPT ![h] = p]
      BY <2>5 DEF chan_stop_leave
    <3> QED
      BY <3>1, <3>2, AppStepKeepsLateInv DEF Phases
  <2>6. ASSUME NEW h \in Hosts, nh_destroy_channel(h) PROVE LateInv'
    <3>1. app[h] # "new" /\ stop_flags(h, "free") /\ UNCHANGED <<late, ann>>
      BY <2>6 DEF nh_destroy_channel, netVars
    <3> QED
      BY <3>1, StopKeepsLateInv
  <2>7. ASSUME NEW h \in Hosts, nh_destroy_free(h) PROVE LateInv'
    <3>1. app' = [app EXCEPT ![h] = "teardown"] /\ UNCHANGED <<stopping, late, ann>>
      BY <2>7 DEF nh_destroy_free, netVars, chanVars
    <3> QED
      BY <3>1, AppStepKeepsLateInv DEF Phases
  <2>8. ASSUME NEW h \in Hosts, nc_srp_teardown(h) PROVE LateInv'
    <3>1. app' = [app EXCEPT ![h] = "gone"] /\ UNCHANGED <<stopping, late, ann>>
      BY <2>8 DEF nc_srp_teardown, netVars, chanVars
    <3> QED
      BY <3>1, AppStepKeepsLateInv DEF Phases
  <2>9. ASSUME NEW h \in Hosts, Monitor(h) \/ mrpd_loses(h) PROVE LateInv'
    <3>1. UNCHANGED lateVars
      BY <2>9 DEF Monitor, nc_srp_monitor_poll, monitor_find, monitor_send, monitor_set,
                  mrpd_loses, listener_attribute, chanVars, netVars, lateVars
    <3> QED
      BY <3>1, LateUnchanged
  <2>10. CASE nc_srp_talker_announce
    <3>1. UNCHANGED <<app, stopping, late>>
      BY <2>10 DEF nc_srp_talker_announce, chanVars, netVars
    <3>2. ann' = "send" => ~stopping[Talker]
      BY <2>10 DEF nc_srp_talker_announce
    <3> QED
      BY <3>1, <3>2 DEF LateInv
  <2>11. CASE announce_send
    <3>1. UNCHANGED <<app, stopping>> /\ ann' = "scan" /\ late = 0
      BY <2>11 DEF announce_send, chanVars, LateInv
    <3>2. late' = IF stopping[Talker] THEN 1 ELSE 0
      BY <2>11, <3>1 DEF announce_send, advertise
    <3> QED
      BY <3>1, <3>2 DEF LateInv
  <2>12. CASE UNCHANGED vars
    BY <2>12, LateUnchanged DEF vars, chanVars, netVars, lateVars
  <2> QED
    BY <2>1, <2>2, <2>3, <2>4, <2>5, <2>6, <2>7, <2>8, <2>9, <2>10, <2>11, <2>12
    DEF Next, InCall
<1>3. LateInv => AtMostOneLateAnnouncement
  BY DEF LateInv, AtMostOneLateAnnouncement
<1> QED
  BY <1>1, <1>2, <1>3, PTL DEF Spec
-----------------------------------------------------------------------------
(* The lives of the threads. *)

Monitors == {"poll", "find", "send", "set", "exited"}
Results == {"none", "0", "ETIMEDOUT", "EINVAL"}

\* Hosts that do not take part.
Absent ==
  \A h \in Hosts \ use.hosts :
    /\ app[h] = "gone" /\ mon[h] = "exited" /\ inq[h] = <<>>
    /\ ~ready[h] /\ ~running[h] /\ ~stopping[h]

\* nh_destroy() clears running first and joins the monitor last.
Present ==
  \A h \in use.hosts :
    /\ running[h] => app[h] \in {"new", "run", "leave"} /\ ~freed[h] /\ mon[h] # "exited"
    /\ app[h] \in {"new", "run"} => running[h]

\* A channel that does not exist is not found; only listeners answer.
Found ==
  /\ mon[Talker] # "send"
  /\ app[Talker] = "new" => ann # "send"
  /\ \A h \in Hosts :
       /\ app[h] = "new" => ~stopping[h] /\ ~ready[h] /\ mon[h] \notin {"send", "set"}
       /\ app[h] = "leave" => stopping[h]

LifeInv == TypeOK /\ Absent /\ Present /\ Found

\* The hosts of a use are hosts, and the talker is one of them.
LEMMA UseHosts ==
  ASSUME TypeOK
  PROVE  /\ Talker \in use.hosts /\ use.hosts \subseteq Hosts /\ Talker \in Hosts
         /\ Listeners \subseteq Hosts /\ Talker \notin Listeners /\ use.lost \in Nat
         /\ use.stop \subseteq use.hosts /\ use.destroy \subseteq use.hosts
BY SrpAssumption DEF TypeOK, Hosts

\* What a notice does to the queues: every host's has the notice added or is as
\* it was, and only a monitor that reads gets one.
LEMMA NotifyEffect ==
  ASSUME TypeOK, NEW H, NEW msg \in Notices, Notify(H, msg)
  PROVE  /\ inq' \in [Hosts -> Seq(Notices)]
         /\ \A h \in Hosts : Len(inq'[h]) <= QueueBound
         /\ \A h \in Hosts : IF h \in H /\ mon[h] # "exited"
                               THEN inq'[h] = Append(inq[h], msg)
                               ELSE inq'[h] = inq[h]
<1>1. \A h \in Hosts : IF h \in H /\ mon[h] # "exited"
                         THEN inq'[h] = Append(inq[h], msg) /\ Len(inq[h]) < QueueBound
                         ELSE inq'[h] = inq[h]
  BY DEF Notify
<1>2. ASSUME NEW h \in Hosts PROVE inq'[h] \in Seq(Notices) /\ Len(inq'[h]) <= QueueBound
  <2>1. inq[h] \in Seq(Notices) /\ Len(inq[h]) <= QueueBound
    BY DEF TypeOK
  <2>2. CASE h \in H /\ mon[h] # "exited"
    <3>1. inq'[h] = Append(inq[h], msg) /\ Len(inq[h]) < QueueBound
      BY <1>1, <2>2
    <3>2. Len(Append(inq[h], msg)) = Len(inq[h]) + 1 /\ Append(inq[h], msg) \in Seq(Notices)
      BY <2>1
    <3> QED
      BY <2>1, <3>1, <3>2, SrpAssumption
  <2>3. CASE ~(h \in H /\ mon[h] # "exited")
    BY <1>1, <2>1, <2>3
  <2> QED
    BY <2>2, <2>3
<1>3. inq' = [h \in Hosts |-> inq'[h]]
  BY DEF Notify
<1> QED
  BY <1>1, <1>2, <1>3

\* What is left of a queue whose first notice has been taken.
LEMMA TailFacts ==
  ASSUME NEW S, NEW q \in Seq(S), q # <<>>
  PROVE  /\ Len(q) \in Nat \ {0} /\ Head(q) \in S /\ Head(q) = q[1]
         /\ Tail(q) \in Seq(S) /\ Len(Tail(q)) = Len(q) - 1
         /\ \A i \in 1 .. Len(Tail(q)) : Tail(q)[i] = q[i + 1]
OBVIOUS

\* chan_stop(), called by the application or by nh_destroy().
LEMMA StopLives ==
  ASSUME LifeInv, NEW h \in Hosts, chan_stop(h) \/ nh_destroy_channel(h)
  PROVE  LifeInv'
<1> USE UseHosts DEF LifeInv, TypeOK, chanVars, monVars, netVars, waitVars
<1>0. /\ app[h] \notin {"new", "gone", "leave"} /\ h \in use.hosts
      /\ \/ app[h] = "run" /\ stop_flags(h, "run") /\ UNCHANGED freed
         \/ ~running[h] /\ stop_flags(h, "free")
      /\ UNCHANGED <<use, running, mon, inq, ann>>
  BY DEF chan_stop, nh_destroy_channel, Absent, Present
<1>1. TypeOK'
  BY DEF chan_stop, nh_destroy_channel, stop_flags
<1>2. /\ ~ready'[h] /\ stopping'[h]
      /\ \/ app[h] = "run" /\ UNCHANGED freed /\ app'[h] \in {"run", "leave"}
         \/ ~running[h] /\ app'[h] \in {"free", "leave"}
  <2>1. ~ready'[h] /\ stopping'[h]
    BY DEF chan_stop, nh_destroy_channel, stop_flags
  <2>2. \A p : stop_flags(h, p) => app'[h] \in {p, "leave"}
    BY DEF stop_flags
  <2> QED
    BY <1>0, <2>1, <2>2
<1>3. \A k \in Hosts \ {h} : /\ ready'[k] = ready[k] /\ stopping'[k] = stopping[k]
                             /\ app'[k] = app[k] /\ freed'[k] = freed[k]
  BY DEF chan_stop, nh_destroy_channel, stop_flags
<1>4. Absent'
  BY <1>0, <1>3 DEF Absent
<1>5. Present'
  BY <1>0, <1>2, <1>3 DEF Present
<1>6. Found'
  BY <1>0, <1>2, <1>3 DEF Found
<1> QED
  BY <1>1, <1>4, <1>5, <1>6

\* The other steps of nh_destroy().
LEMMA DestroyLives ==
  ASSUME LifeInv, NEW h \in Hosts, nh_destroy(h) \/ nh_destroy_free(h) \/ nc_srp_teardown(h)
  PROVE  LifeInv'
<1> USE UseHosts DEF LifeInv, TypeOK, chanVars, monVars, netVars, waitVars
<1>1. TypeOK'
  BY DEF nh_destroy, nh_destroy_free, nc_srp_teardown
<1>2. /\ h \in use.hosts /\ ~running'[h] /\ app[h] # "new"
      /\ app'[h] \in {"join_rx", "teardown", "gone"}
      /\ UNCHANGED <<use, ready, stopping, freed, mon, inq, ann>>
  BY DEF nh_destroy, nh_destroy_free, nc_srp_teardown, Absent, Present
<1>3. \A k \in Hosts \ {h} : running'[k] = running[k] /\ app'[k] = app[k]
  BY DEF nh_destroy, nh_destroy_free, nc_srp_teardown
<1>4. Absent'
  BY <1>2, <1>3 DEF Absent
<1>5. Present'
  BY <1>2, <1>3 DEF Present
<1>6. Found'
  BY <1>2, <1>3 DEF Found
<1> QED
  BY <1>1, <1>4, <1>5, <1>6

\* Nothing the lives depend on changes.
LEMMA LifeUnchanged ==
  ASSUME LifeInv, UNCHANGED <<use, app, chanVars, monVars, netVars, ann>>,
         waits' \in [Hosts -> BOOLEAN], result' \in [Hosts -> Results]
  PROVE  LifeInv'
BY DEF LifeInv, TypeOK, Absent, Present, Found, Results, chanVars, monVars, netVars

\* chan_ready_timedwait().
LEMMA WaitLives ==
  ASSUME LifeInv, NEW h \in Hosts, chan_ready_timedwait(h) \/ chan_ready_timedwait_return(h)
  PROVE  LifeInv'
<1>1. UNCHANGED <<use, app, chanVars, monVars, netVars, ann>>
  BY DEF chan_ready_timedwait, chan_ready_timedwait_return
<1>2. waits \in [Hosts -> BOOLEAN] /\ result \in [Hosts -> Results]
  BY DEF LifeInv, TypeOK, Results
<1>3. PICK r \in Results : result' = [result EXCEPT ![h] = r]
  BY DEF chan_ready_timedwait, chan_ready_timedwait_return, Results
<1>4. waits' \in [Hosts -> BOOLEAN]
  BY <1>2 DEF chan_ready_timedwait, chan_ready_timedwait_return
<1> QED
  BY <1>1, <1>2, <1>3, <1>4, LifeUnchanged

\* The monitor takes a notice or ends.
LEMMA PollLives ==
  ASSUME LifeInv, NEW h \in Hosts, nc_srp_monitor_poll(h)
  PROVE  LifeInv'
<1> USE UseHosts DEF LifeInv, TypeOK, chanVars, monVars, netVars, waitVars
<1>1. inq[h] \in Seq(Notices) /\ Len(inq[h]) <= QueueBound
  OBVIOUS
<1>2. inq[h] # <<>> => /\ Head(inq[h]) \in Notices /\ Tail(inq[h]) \in Seq(Notices)
                       /\ Len(Tail(inq[h])) <= QueueBound
  BY <1>1, TailFacts, SrpAssumption
<1>3. h \in use.hosts
  BY DEF nc_srp_monitor_poll, Absent
<1>4. TypeOK'
  <2>1. /\ mon' \in [Hosts -> Monitors] /\ notice' \in [Hosts -> Notices]
        /\ inq' \in [Hosts -> Seq(Notices)]
    <3>1. CASE ~running[h]
      BY <3>1 DEF nc_srp_monitor_poll, Monitors
    <3>2. CASE running[h]
      <4>1. /\ inq[h] # <<>> /\ notice' = [notice EXCEPT ![h] = Head(inq[h])]
            /\ inq' = [inq EXCEPT ![h] = Tail(inq[h])] /\ mon' = [mon EXCEPT ![h] = "find"]
        BY <3>2 DEF nc_srp_monitor_poll
      <4>2. notice' \in [Hosts -> Notices] /\ mon' \in [Hosts -> Monitors]
        BY <1>2, <4>1 DEF Monitors
      <4>3. inq' \in [Hosts -> Seq(Notices)]
        BY <1>2, <4>1
      <4> QED
        BY <4>2, <4>3
    <3> QED
      BY <3>1, <3>2
  <2>2. \A k \in Hosts : inq'[k] = inq[k] \/ (k = h /\ inq[h] # <<>> /\ inq'[k] = Tail(inq[h]))
    BY DEF nc_srp_monitor_poll
  <2>3. \A k \in Hosts : Len(inq'[k]) <= QueueBound
    BY <1>2, <2>2
  <2> QED
    BY <2>1, <2>3 DEF nc_srp_monitor_poll, Monitors
<1>5. Absent'
  BY <1>3 DEF nc_srp_monitor_poll, Absent
<1>6. Present'
  BY DEF nc_srp_monitor_poll, Present
<1>7. Found'
  BY DEF nc_srp_monitor_poll, Found
<1> QED
  BY <1>4, <1>5, <1>6, <1>7

\* A notice is lost.
LEMMA LossLives ==
  ASSUME LifeInv, NEW h \in Hosts, mrpd_loses(h)
  PROVE  LifeInv'
<1> USE UseHosts DEF LifeInv, TypeOK, chanVars, monVars, netVars, waitVars
<1>1. inq[h] \in Seq(Notices) /\ Len(inq[h]) <= QueueBound /\ inq[h] # <<>>
  BY DEF mrpd_loses
<1>2. Tail(inq[h]) \in Seq(Notices) /\ Len(Tail(inq[h])) <= QueueBound
  BY <1>1, TailFacts, SrpAssumption
<1>3. h \in use.hosts
  BY <1>1 DEF Absent
<1>4. TypeOK'
  BY <1>2 DEF mrpd_loses
<1>5. Absent' /\ Present' /\ Found'
  BY <1>3 DEF mrpd_loses, Absent, Present, Found
<1> QED
  BY <1>4, <1>5

\* The monitor looks the channel up.
LEMMA FindLives ==
  ASSUME LifeInv, NEW h \in Hosts, monitor_find(h)
  PROVE  LifeInv'
<1> USE UseHosts DEF LifeInv, TypeOK, chanVars, monVars, netVars, waitVars
<1>1. TypeOK'
  BY DEF monitor_find
<1>2. Absent' /\ Present'
  BY DEF monitor_find, Absent, Present
<1>3. Found'
  BY DEF monitor_find, Found
<1> QED
  BY <1>1, <1>2, <1>3

\* The monitor changes ready.
LEMMA SetLives ==
  ASSUME LifeInv, NEW h \in Hosts, monitor_set(h)
  PROVE  LifeInv'
<1> USE UseHosts DEF LifeInv, TypeOK, chanVars, monVars, netVars, waitVars
<1>0. (notice[h] \in {"Lnew", "Tnew"}) \in BOOLEAN
  OBVIOUS
<1>1. PICK b \in BOOLEAN : ready' = [ready EXCEPT ![h] = b]
  BY <1>0, Zenon DEF monitor_set
<1>2. TypeOK'
  BY <1>1 DEF monitor_set
<1>3. h \in use.hosts
  BY DEF monitor_set, Absent
<1>4. Absent' /\ Present'
  BY <1>1, <1>3 DEF monitor_set, Absent, Present
<1>5. Found'
  BY <1>1 DEF monitor_set, Found
<1> QED
  BY <1>2, <1>4, <1>5

\* The announcer looks at the channel.
LEMMA AnnounceLives ==
  ASSUME LifeInv, nc_srp_talker_announce
  PROVE  LifeInv'
<1> USE UseHosts DEF LifeInv, TypeOK, chanVars, monVars, netVars, waitVars
<1>1. TypeOK'
  BY DEF nc_srp_talker_announce
<1>2. Absent' /\ Present' /\ Found'
  BY DEF nc_srp_talker_announce, Absent, Present, Found
<1> QED
  BY <1>1, <1>2

\* The steps that send something; the queue of an absent host takes nothing.
LEMMA SendingLives ==
  ASSUME LifeInv, NEW h \in Hosts,
         chan_create(h) \/ chan_stop_leave(h) \/ monitor_send(h) \/ announce_send
  PROVE  LifeInv'
<1> USE UseHosts DEF LifeInv, TypeOK, chanVars, monVars, netVars, waitVars
<1>1. /\ inq' \in [Hosts -> Seq(Notices)] /\ \A k \in Hosts : Len(inq'[k]) <= QueueBound
      /\ \A k \in Hosts : mon[k] = "exited" => inq'[k] = inq[k]
  <2>1. \/ UNCHANGED inq
        \/ \E H \in SUBSET Hosts, msg \in Notices : Notify(H, msg)
    BY DEF chan_create, chan_stop_leave, monitor_send, announce_send, advertise, unadvertise,
           listener_attribute, Notices
  <2> QED
    BY <2>1, NotifyEffect
<1>2. late' \in Nat /\ UNCHANGED <<use, running, ready, stopping, freed, notice, lost, waits, result>>
  BY DEF chan_create, chan_stop_leave, monitor_send, announce_send, advertise, unadvertise,
         listener_attribute
<1>3. \/ chan_create(h) /\ app' = [app EXCEPT ![h] = "run"] /\ UNCHANGED <<mon, ann>>
      \/ /\ chan_stop_leave(h) /\ UNCHANGED <<mon, ann>>
         /\ app' = [app EXCEPT ![h] = IF running[h] THEN "run" ELSE "free"]
      \/ monitor_send(h) /\ mon' = [mon EXCEPT ![h] = "set"] /\ UNCHANGED <<app, ann>>
      \/ ann' = "scan" /\ UNCHANGED <<app, mon>>
  BY DEF chan_create, chan_stop_leave, monitor_send, announce_send
<1>4. TypeOK'
  BY <1>1, <1>2, <1>3
<1>5. Absent'
  BY <1>1, <1>2, <1>3 DEF Absent, chan_create, chan_stop_leave, monitor_send
<1>6. Present'
  BY <1>2, <1>3 DEF Present, chan_create, chan_stop_leave, monitor_send
<1>7. Found'
  BY <1>2, <1>3 DEF Found, chan_create, chan_stop_leave, monitor_send
<1> QED
  BY <1>4, <1>5, <1>6, <1>7

\* Types, and what the threads' program counters and flags say of each other, for
\* every use of the stream.
THEOREM Lives == Spec => []LifeInv
<1>1. Init => LifeInv
  <2> SUFFICES ASSUME Init PROVE LifeInv
    OBVIOUS
  <2>1. TypeOK
    BY SrpAssumption DEF Init, TypeOK, Notices
  <2> QED
    BY <2>1, UseHosts DEF Init, LifeInv, Absent, Present, Found
<1>2. LifeInv /\ [Next]_vars => LifeInv'
  <2> SUFFICES ASSUME LifeInv, [Next]_vars PROVE LifeInv'
    OBVIOUS
  <2>1. CASE UNCHANGED vars
    BY <2>1, LifeUnchanged DEF vars, waitVars, LifeInv, TypeOK, Results
  <2>2. Talker \in Hosts
    BY DEF Hosts
  <2> QED
    BY <2>1, <2>2, StopLives, DestroyLives, WaitLives, PollLives, LossLives, FindLives, SetLives,
       AnnounceLives, SendingLives
    DEF Next, InCall, Monitor
<1> QED
  BY <1>1, <1>2, PTL DEF Spec

\* The state is what the declarations say and no queue exceeds its bound, for
\* every use of the stream.
THEOREM TypeCorrect == Spec => []TypeOK
<1>1. LifeInv => TypeOK
  BY DEF LifeInv
<1> QED
  BY <1>1, Lives, PTL
-----------------------------------------------------------------------------
(* While nobody leaves, and until the talker has said that it does. *)

\* A notice that sets ready; a notice the monitor has taken from its queue and not
\* dealt with.
Up(msg) == msg \in {"Tnew", "Lnew"}
InHand(h) == mon[h] \in {"find", "send", "set"}

\* The talker's "S--" has been sent.
Sent == stopping[Talker] /\ app[Talker] # "leave"

\* No nethandler is being destroyed and no listener has been stopped.
Calm == (\A h \in use.hosts : running[h]) /\ (\A l \in Listeners : ~stopping[l])

\* All notices of the stream set ready.
QueueUp(q) == \A i \in 1 .. Len(q) : Up(q[i])
AllUp == \A h \in Hosts : QueueUp(inq[h]) /\ (InHand(h) => Up(notice[h]))
UpInv == Calm /\ ~Sent => AllUp

\* Threads that have been told to stop are not started again, a stopped channel
\* stays stopped, and is stopped only once.
LEMMA NoWayBack ==
  ASSUME LifeInv, [Next]_vars
  PROVE  /\ use' = use
         /\ \A h \in Hosts : (running'[h] => running[h]) /\ (stopping[h] => stopping'[h])
         /\ Sent => Sent'
<1> USE UseHosts DEF LifeInv, TypeOK, Sent, chanVars, monVars, netVars, waitVars
<1>1. ASSUME NEW h \in Hosts, chan_stop(h) \/ nh_destroy_channel(h)
      PROVE  /\ UNCHANGED <<use, running>>
             /\ \A k \in Hosts : stopping[k] => stopping'[k]
             /\ Sent => Sent'
  <2>1. UNCHANGED <<use, running>> /\ \E p \in {"run", "free"} : stop_flags(h, p)
    BY <1>1 DEF chan_stop, nh_destroy_channel
  <2> QED
    BY <2>1 DEF stop_flags
<1>2. ASSUME NEW h \in Hosts, nh_destroy(h) \/ nh_destroy_free(h) \/ nc_srp_teardown(h)
      PROVE  /\ UNCHANGED <<use, stopping>>
             /\ \A k \in Hosts : running'[k] => running[k]
             /\ Sent => Sent'
  BY <1>2 DEF nh_destroy, nh_destroy_free, nc_srp_teardown
<1>3. ASSUME NEW h \in Hosts, chan_create(h) \/ chan_stop_leave(h)
      PROVE  UNCHANGED <<use, running, stopping>> /\ (Sent => Sent')
  BY <1>3 DEF chan_create, chan_stop_leave
<1>4. ASSUME NEW h \in Hosts,
             \/ chan_ready_timedwait(h) \/ chan_ready_timedwait_return(h)
             \/ Monitor(h) \/ mrpd_loses(h) \/ nc_srp_talker_announce \/ announce_send \/ UNCHANGED vars
      PROVE  UNCHANGED <<use, running, stopping, app>>
  BY <1>4 DEF chan_ready_timedwait, chan_ready_timedwait_return, Monitor, nc_srp_monitor_poll,
              monitor_find, monitor_send, monitor_set, mrpd_loses, nc_srp_talker_announce,
              announce_send, vars
<1> QED
  BY <1>1, <1>2, <1>3, <1>4 DEF Next, InCall

\* A stream that is calm has been calm all along.
LEMMA CalmBefore ==
  ASSUME LifeInv, [Next]_vars
  PROVE  Calm' => Calm
BY NoWayBack, UseHosts DEF LifeInv, Calm

\* The steps of a calm stream.
CalmStep ==
  \/ UNCHANGED <<use, app, chanVars, monVars, netVars, ann>>
  \/ \E h \in use.hosts : \/ chan_create(h) \/ nc_srp_monitor_poll(h) \/ monitor_find(h)
                          \/ (h # Talker /\ monitor_send(h)) \/ monitor_set(h) \/ mrpd_loses(h)
  \/ chan_stop(Talker) \/ chan_stop_leave(Talker)
  \/ nc_srp_talker_announce \/ announce_send

\* Nothing else happens in a calm stream: only the talker may stop.
LEMMA CalmSteps ==
  ASSUME LifeInv, [Next]_vars, Calm'
  PROVE  CalmStep
<1> USE UseHosts
<1>1. Calm
  BY CalmBefore
<1>2. TypeOK
  BY DEF LifeInv
<1>3. ASSUME NEW h \in Hosts, app[h] \in {"join_rx", "free", "teardown"} PROVE FALSE
  BY <1>1, <1>2, <1>3 DEF LifeInv, Calm, Absent, Present
<1>4. ASSUME NEW h \in Hosts, nh_destroy(h) PROVE FALSE
  <2>1. h \in use'.hosts /\ ~running'[h]
    BY <1>2, <1>4 DEF nh_destroy, TypeOK
  <2> QED
    BY <2>1 DEF Calm
<1>5. ASSUME NEW h \in Hosts, chan_stop(h) PROVE chan_stop(Talker)
  <2>1. stopping'[h]
    BY <1>2, <1>5 DEF chan_stop, stop_flags, TypeOK
  <2>2. h = Talker
    BY <2>1 DEF Calm, Hosts
  <2> QED
    BY <1>5, <2>2
<1>6. ASSUME NEW h \in Hosts, chan_stop_leave(h) PROVE chan_stop_leave(Talker)
  <2>1. stopping[h]
    BY <1>6 DEF chan_stop_leave, LifeInv, Found
  <2>2. h = Talker
    BY <1>1, <2>1 DEF Calm, Hosts
  <2> QED
    BY <1>6, <2>2
<1>7. ASSUME NEW h \in Hosts, nh_destroy_channel(h) \/ nh_destroy_free(h) \/ nc_srp_teardown(h)
      PROVE  FALSE
  BY <1>3, <1>7 DEF nh_destroy_channel, nh_destroy_free, nc_srp_teardown
<1>8. ASSUME NEW h \in Hosts, chan_ready_timedwait(h) \/ chan_ready_timedwait_return(h)
      PROVE  UNCHANGED <<use, app, chanVars, monVars, netVars, ann>>
  BY <1>8 DEF chan_ready_timedwait, chan_ready_timedwait_return
<1>9. ASSUME NEW h \in Hosts, chan_create(h) \/ Monitor(h) \/ mrpd_loses(h)
      PROVE  h \in use.hosts /\ (monitor_send(h) => h # Talker)
  BY <1>2, <1>9 DEF chan_create, Monitor, nc_srp_monitor_poll, monitor_find, monitor_send,
              monitor_set, mrpd_loses, LifeInv, Absent, Found
<1>10. UNCHANGED vars => UNCHANGED <<use, app, chanVars, monVars, netVars, ann>>
  BY DEF vars
<1> QED
  BY <1>4, <1>5, <1>6, <1>7, <1>8, <1>9, <1>10 DEF Next, InCall, Monitor, CalmStep

\* What ready will be when the notices that have come so far are dealt with.
View(h) ==
  IF inq[h] # <<>> THEN Up(inq[h][Len(inq[h])])
  ELSE IF InHand(h) THEN Up(notice[h]) ELSE ready[h]

\* A notice is what the hosts that get it will make of ready.
LEMMA NotifyView ==
  ASSUME TypeOK, NEW H, NEW msg \in Notices, Notify(H, msg),
         UNCHANGED <<notice, ready>>, \A k \in Hosts : InHand(k)' <=> InHand(k)
  PROVE  /\ \A k \in Hosts : IF k \in H /\ mon[k] # "exited"
                               THEN inq'[k] # <<>> /\ (View(k)' <=> Up(msg))
                               ELSE inq'[k] = inq[k] /\ (View(k)' <=> View(k))
         /\ AllUp /\ Up(msg) => AllUp'
<1>1. ASSUME NEW k \in Hosts, k \in H, mon[k] # "exited"
      PROVE  /\ inq'[k] # <<>> /\ (View(k)' <=> Up(msg))
             /\ QueueUp(inq[k]) /\ Up(msg) => QueueUp(inq'[k])
  <2>1. inq[k] \in Seq(Notices) /\ inq'[k] = Append(inq[k], msg)
    BY <1>1, NotifyEffect DEF TypeOK
  <2>2. /\ Len(inq'[k]) = Len(inq[k]) + 1 /\ Len(inq[k]) \in Nat /\ inq'[k] # <<>>
        /\ inq'[k][Len(inq'[k])] = msg
        /\ \A i \in 1 .. Len(inq[k]) : inq'[k][i] = inq[k][i]
    BY <2>1
  <2>3. View(k)' <=> Up(msg)
    BY <2>2 DEF View
  <2>4. QueueUp(inq[k]) /\ Up(msg) => QueueUp(inq'[k])
    BY <2>2 DEF QueueUp
  <2> QED
    BY <2>2, <2>3, <2>4
<1>2. ASSUME NEW k \in Hosts, ~(k \in H /\ mon[k] # "exited")
      PROVE  inq'[k] = inq[k] /\ (View(k)' <=> View(k))
  <2>1. inq'[k] = inq[k]
    BY <1>2, NotifyEffect
  <2>2. InHand(k)' <=> InHand(k)
    OBVIOUS
  <2>3. View(k)' <=> View(k)
    BY <2>1, <2>2, Zenon DEF View
  <2> QED
    BY <2>1, <2>3
<1>3. AllUp /\ Up(msg) => AllUp'
  <2> SUFFICES ASSUME AllUp, Up(msg), NEW k \in Hosts
               PROVE  QueueUp(inq'[k]) /\ (InHand(k)' => Up(notice'[k]))
    BY DEF AllUp
  <2>1. QueueUp(inq[k]) /\ (InHand(k) => Up(notice[k]))
    BY DEF AllUp
  <2> QED
    BY <1>1, <1>2, <2>1
<1> QED
  BY <1>1, <1>2, <1>3

\* Taking the first notice away leaves only notices that set ready.
LEMMA TailUp ==
  ASSUME NEW q \in Seq(Notices), q # <<>>, QueueUp(q)
  PROVE  QueueUp(Tail(q)) /\ Up(Head(q))
<1>1. /\ Len(q) \in Nat \ {0} /\ Head(q) = q[1] /\ Len(Tail(q)) = Len(q) - 1
      /\ \A i \in 1 .. Len(Tail(q)) : Tail(q)[i] = q[i + 1]
  BY TailFacts
<1>2. \A i \in 1 .. Len(q) : Up(q[i])
  BY DEF QueueUp
<1>3. Up(Head(q))
  BY <1>1, <1>2
<1>4. ASSUME NEW i \in 1 .. Len(Tail(q)) PROVE Up(Tail(q)[i])
  <2>1. i + 1 \in 1 .. Len(q) /\ Tail(q)[i] = q[i + 1]
    BY <1>1
  <2> QED
    BY <1>2, <2>1
<1> QED
  BY <1>3, <1>4 DEF QueueUp

\* A monitor that takes a notice from the queue.
LEMMA PollView ==
  ASSUME LifeInv, NEW h \in Hosts, running[h], nc_srp_monitor_poll(h)
  PROVE  /\ \A k \in Hosts : View(k)' <=> View(k)
         /\ AllUp => AllUp'
         /\ inq[h] # <<>> /\ mon' = [mon EXCEPT ![h] = "find"]
         /\ \A k \in Hosts \ {h} : inq'[k] = inq[k]
         /\ UNCHANGED <<use, app, running, ready, stopping, freed, late, lost, ann>>
<1> USE DEF LifeInv, TypeOK
<1>1. /\ inq[h] # <<>> /\ notice' = [notice EXCEPT ![h] = Head(inq[h])]
      /\ inq' = [inq EXCEPT ![h] = Tail(inq[h])] /\ mon' = [mon EXCEPT ![h] = "find"]
      /\ mon[h] = "poll"
      /\ UNCHANGED <<use, app, running, ready, stopping, freed, late, lost, ann>>
  BY DEF nc_srp_monitor_poll, chanVars
<1>2. /\ inq'[h] = Tail(inq[h]) /\ notice'[h] = Head(inq[h]) /\ mon'[h] = "find"
      /\ \A k \in Hosts \ {h} : inq'[k] = inq[k] /\ notice'[k] = notice[k] /\ mon'[k] = mon[k]
  BY <1>1
<1>3. /\ inq[h] \in Seq(Notices) /\ Len(inq[h]) \in Nat \ {0} /\ Head(inq[h]) = inq[h][1]
      /\ inq'[h] \in Seq(Notices) /\ Len(inq'[h]) = Len(inq[h]) - 1
      /\ \A i \in 1 .. Len(inq'[h]) : inq'[h][i] = inq[h][i + 1]
  BY <1>1, <1>2, TailFacts
<1>4. View(h)' <=> View(h)
  <2>1. CASE inq'[h] = <<>>
    <3>1. Len(inq[h]) = 1
      BY <1>3, <2>1
    <3>2. View(h) <=> Up(inq[h][1])
      BY <1>1, <3>1 DEF View
    <3>3. View(h)' <=> Up(notice'[h])
      BY <1>2, <2>1 DEF View, InHand
    <3> QED
      BY <1>2, <1>3, <3>2, <3>3
  <2>2. CASE inq'[h] # <<>>
    <3>1. Len(inq'[h]) \in 1 .. Len(inq'[h])
      BY <1>3, <2>2
    <3>2. inq'[h][Len(inq'[h])] = inq[h][Len(inq[h])]
      BY <1>3, <3>1
    <3> QED
      BY <1>1, <2>2, <3>2 DEF View
  <2> QED
    BY <2>1, <2>2
<1>5. ASSUME NEW k \in Hosts \ {h} PROVE View(k)' <=> View(k)
  BY <1>1, <1>2, Zenon DEF View, InHand
<1>6. AllUp => AllUp'
  <2> SUFFICES ASSUME AllUp, NEW k \in Hosts
               PROVE  QueueUp(inq'[k]) /\ (InHand(k)' => Up(notice'[k]))
    BY DEF AllUp
  <2>1. \A m \in Hosts : QueueUp(inq[m]) /\ (InHand(m) => Up(notice[m]))
    BY DEF AllUp
  <2>2. CASE k = h
    BY <1>1, <1>2, <1>3, <2>1, <2>2, TailUp
  <2>3. CASE k # h
    BY <1>2, <2>1, <2>3 DEF InHand
  <2> QED
    BY <2>2, <2>3
<1> QED
  BY <1>1, <1>2, <1>4, <1>5, <1>6

\* A monitor that looks the channel up goes on with the notice, unless there is no
\* channel yet.
LEMMA FindView ==
  ASSUME LifeInv, NEW h \in Hosts, ~freed[h], monitor_find(h)
  PROVE  /\ \A k \in Hosts \ {h} : (View(k)' <=> View(k)) /\ mon'[k] = mon[k]
         /\ mon[h] = "find"
         /\ app[h] # "new" => (View(h)' <=> View(h))
         /\ app[h] # "new" => mon'[h] = (IF h = Talker THEN "set" ELSE "send")
         /\ app[h] = "new" => mon'[h] = "poll" /\ (View(h)' => View(h))
         /\ AllUp => AllUp'
         /\ UNCHANGED <<use, app, running, ready, stopping, freed, notice, inq, late, lost, ann>>
<1> USE DEF LifeInv, TypeOK
<1>1. UNCHANGED <<use, app, running, ready, stopping, freed, notice, inq, late, lost, ann>>
  BY DEF monitor_find, chanVars, netVars
<1>2. /\ mon[h] = "find"
      /\ app[h] # "new" => mon'[h] = (IF h = Talker THEN "set" ELSE "send")
      /\ app[h] = "new" => mon'[h] = "poll"
      /\ \A k \in Hosts \ {h} : mon'[k] = mon[k]
  BY DEF monitor_find
<1>3. ASSUME NEW k \in Hosts, InHand(k)' <=> InHand(k) PROVE View(k)' <=> View(k)
  BY <1>1, <1>3, Zenon DEF View
<1>4. \A k \in Hosts : (k # h \/ app[h] # "new") => (InHand(k)' <=> InHand(k))
  BY <1>2 DEF InHand
<1>5. app[h] = "new" => (View(h)' => View(h))
  <2>1. app[h] = "new" => ~ready'[h] /\ ~InHand(h)'
    BY <1>1, <1>2 DEF Found, InHand
  <2> QED
    BY <1>1, <2>1 DEF View
<1>6. AllUp => AllUp'
  BY <1>1, <1>2 DEF AllUp, InHand
<1> QED
  BY <1>1, <1>2, <1>3, <1>4, <1>5, <1>6

\* A monitor that changes ready has dealt with its notice.
LEMMA SetView ==
  ASSUME LifeInv, NEW h \in Hosts, monitor_set(h)
  PROVE  /\ \A k \in Hosts : View(k)' <=> View(k)
         /\ AllUp => AllUp'
         /\ mon[h] = "set" /\ mon' = [mon EXCEPT ![h] = "poll"]
         /\ ready'[h] <=> Up(notice[h])
         /\ \A k \in Hosts \ {h} : ready'[k] = ready[k]
         /\ UNCHANGED <<use, app, running, stopping, freed, notice, inq, late, lost, ann>>
<1> USE DEF LifeInv, TypeOK
<1>1. /\ mon[h] = "set" /\ mon' = [mon EXCEPT ![h] = "poll"]
      /\ UNCHANGED <<use, app, running, stopping, freed, notice, inq, late, lost, ann>>
  BY DEF monitor_set, netVars
<1>2. ready'[h] <=> Up(notice[h])
  BY DEF monitor_set, Up
<1>3. \A k \in Hosts \ {h} : ready'[k] = ready[k] /\ mon'[k] = mon[k]
  BY DEF monitor_set
<1>4. mon'[h] = "poll"
  BY <1>1
<1>5. View(h)' <=> View(h)
  BY <1>1, <1>2, <1>4 DEF View, InHand
<1>6. ASSUME NEW k \in Hosts \ {h} PROVE View(k)' <=> View(k)
  BY <1>1, <1>3, Zenon DEF View, InHand
<1>7. AllUp => AllUp'
  BY <1>1, <1>3, <1>4 DEF AllUp, InHand
<1> QED
  BY <1>1, <1>2, <1>3, <1>5, <1>6, <1>7

\* Listeners get a talker's notices.
TalkerNotices == {"Tnew", "Tleave"}
Sides ==
  \A l \in Listeners : /\ notice[l] \in TalkerNotices
                       /\ \A i \in 1 .. Len(inq[l]) : inq[l][i] \in TalkerNotices

\* No queue and no monitor has a new notice.
LEMMA SidesUnchanged ==
  ASSUME Sides, UNCHANGED <<notice, inq>>
  PROVE  Sides'
BY DEF Sides

\* A notice for the listeners is a talker's.
LEMMA NotifySides ==
  ASSUME TypeOK, Sides, NEW H, NEW msg \in Notices, Notify(H, msg), UNCHANGED notice,
         msg \in TalkerNotices \/ H \cap Listeners = {}
  PROVE  Sides'
<1> SUFFICES ASSUME NEW l \in Listeners
             PROVE  \A i \in 1 .. Len(inq'[l]) : inq'[l][i] \in TalkerNotices
  BY DEF Sides
<1>1. l \in Hosts /\ inq[l] \in Seq(Notices) /\ \A i \in 1 .. Len(inq[l]) : inq[l][i] \in TalkerNotices
  BY UseHosts DEF TypeOK, Sides
<1>2. CASE inq'[l] = inq[l]
  BY <1>1, <1>2
<1>3. CASE l \in H /\ inq'[l] = Append(inq[l], msg)
  BY <1>1, <1>3
<1> QED
  BY <1>1, <1>2, <1>3, NotifyEffect

\* The first notice is taken from a queue.
LEMMA TakeSides ==
  ASSUME TypeOK, Sides, NEW h \in Hosts, inq[h] # <<>>, inq' = [inq EXCEPT ![h] = Tail(inq[h])],
         notice' = notice \/ notice' = [notice EXCEPT ![h] = Head(inq[h])]
  PROVE  Sides'
<1> SUFFICES ASSUME NEW l \in Listeners
             PROVE  /\ notice'[l] \in TalkerNotices
                    /\ \A i \in 1 .. Len(inq'[l]) : inq'[l][i] \in TalkerNotices
  BY DEF Sides
<1>1. /\ l \in Hosts /\ inq[l] \in Seq(Notices) /\ notice[l] \in TalkerNotices
      /\ \A i \in 1 .. Len(inq[l]) : inq[l][i] \in TalkerNotices
  BY UseHosts DEF TypeOK, Sides
<1>2. CASE l # h
  BY <1>1, <1>2 DEF TypeOK
<1>3. CASE l = h
  <2>1. inq'[l] = Tail(inq[l]) /\ notice'[l] \in {notice[l], Head(inq[l])}
    BY <1>1, <1>3 DEF TypeOK
  <2>2. /\ Len(inq[l]) \in Nat \ {0} /\ Head(inq[l]) = inq[l][1] /\ Len(inq'[l]) = Len(inq[l]) - 1
        /\ \A i \in 1 .. Len(inq'[l]) : inq'[l][i] = inq[l][i + 1]
    <3>1. inq[l] # <<>>
      BY <1>3
    <3>2. /\ Len(inq[l]) \in Nat \ {0} /\ Head(inq[l]) = inq[l][1]
          /\ Len(Tail(inq[l])) = Len(inq[l]) - 1
          /\ \A i \in 1 .. Len(Tail(inq[l])) : Tail(inq[l])[i] = inq[l][i + 1]
      BY <1>1, <3>1, TailFacts
    <3> QED
      BY <2>1, <3>2
  <2>3. ASSUME NEW i \in 1 .. Len(inq'[l]) PROVE inq'[l][i] \in TalkerNotices
    <3>1. i + 1 \in 1 .. Len(inq[l])
      BY <2>2
    <3> QED
      BY <1>1, <2>2, <3>1
  <2>4. 1 \in 1 .. Len(inq[l])
    BY <2>2
  <2> QED
    BY <1>1, <2>1, <2>2, <2>3, <2>4
<1> QED
  BY <1>2, <1>3

\* The monitor of a listener deals with the talker's notices only.
THEOREM SidesHold == Spec => []Sides
<1>1. Init => Sides
  BY SrpAssumption DEF Init, Sides, TalkerNotices, Hosts
<1>2. LifeInv /\ Sides /\ [Next]_vars => Sides'
  <2> SUFFICES ASSUME LifeInv, Sides, [Next]_vars PROVE Sides'
    OBVIOUS
  <2> USE UseHosts DEF LifeInv
  <2>1. ASSUME NEW h \in Hosts,
               \/ chan_stop(h) \/ nh_destroy(h) \/ chan_ready_timedwait(h) \/ nh_destroy_channel(h)
               \/ nh_destroy_free(h) \/ nc_srp_teardown(h) \/ chan_ready_timedwait_return(h)
               \/ monitor_find(h) \/ monitor_set(h) \/ nc_srp_talker_announce \/ UNCHANGED vars
        PROVE  Sides'
    <3>1. UNCHANGED <<notice, inq>>
      BY <2>1 DEF chan_stop, nh_destroy, chan_ready_timedwait, nh_destroy_channel, nh_destroy_free,
                  nc_srp_teardown, chan_ready_timedwait_return, monitor_find, monitor_set,
                  nc_srp_talker_announce, vars, monVars, netVars
    <3> QED
      BY <3>1, SidesUnchanged
  <2>2. ASSUME NEW h \in Hosts,
               chan_create(h) \/ chan_stop_leave(h) \/ monitor_send(h) \/ announce_send
        PROVE  Sides'
    <3>1. UNCHANGED notice
      BY <2>2 DEF chan_create, chan_stop_leave, monitor_send, announce_send, monVars
    <3>2. \/ UNCHANGED inq
          \/ \E msg \in TalkerNotices : Notify(Listeners, msg)
          \/ \E msg \in Notices : Notify({Talker}, msg)
      BY <2>2 DEF chan_create, chan_stop_leave, monitor_send, announce_send, advertise,
                  unadvertise, listener_attribute, netVars, Notices, TalkerNotices
    <3>3. TalkerNotices \subseteq Notices /\ {Talker} \cap Listeners = {}
      BY SrpAssumption DEF TalkerNotices, Notices
    <3> QED
      BY <3>1, <3>2, <3>3, SidesUnchanged, NotifySides
  <2>3. ASSUME NEW h \in Hosts, nc_srp_monitor_poll(h) \/ mrpd_loses(h) PROVE Sides'
    <3>1. \/ UNCHANGED <<notice, inq>>
          \/ /\ inq[h] # <<>> /\ inq' = [inq EXCEPT ![h] = Tail(inq[h])]
             /\ notice' = notice \/ notice' = [notice EXCEPT ![h] = Head(inq[h])]
      BY <2>3 DEF nc_srp_monitor_poll, mrpd_loses, monVars
    <3> QED
      BY <3>1, SidesUnchanged, TakeSides
  <2>4. Talker \in Hosts
    BY DEF Hosts
  <2> QED
    BY <2>1, <2>2, <2>3, <2>4 DEF Next, InCall, Monitor
<1> QED
  BY <1>1, <1>2, Lives, PTL DEF Spec

\* What a listener answers.
LEMMA SendView ==
  ASSUME LifeInv, Sides, NEW h \in Listeners, monitor_send(h)
  PROVE  /\ \A k \in Hosts \ {Talker} : (View(k)' <=> View(k)) /\ inq'[k] = inq[k]
         /\ mon[Talker] # "exited" => (View(Talker)' <=> Up(notice[h]))
         /\ AllUp => AllUp'
         /\ mon[h] = "send" /\ mon' = [mon EXCEPT ![h] = "set"]
         /\ UNCHANGED <<use, app, running, ready, stopping, freed, notice, late, lost, ann>>
<1> USE UseHosts DEF LifeInv
<1>1. /\ mon[h] = "send" /\ mon' = [mon EXCEPT ![h] = "set"]
      /\ UNCHANGED <<use, app, running, ready, stopping, freed, notice, late, lost, ann>>
  BY DEF monitor_send, listener_attribute, chanVars
<1>2. notice[h] \in TalkerNotices
  BY DEF Sides
<1>3. PICK msg \in {"Lnew", "Lleave"} : Notify({Talker}, msg) /\ (Up(msg) <=> Up(notice[h]))
  BY <1>2 DEF monitor_send, listener_attribute, Up, TalkerNotices
<1>4. \A k \in Hosts : InHand(k)' <=> InHand(k)
  BY <1>1 DEF InHand, TypeOK
<1>5. msg \in Notices
  BY DEF Notices
<1>6. /\ \A k \in Hosts : IF k \in {Talker} /\ mon[k] # "exited"
                            THEN inq'[k] # <<>> /\ (View(k)' <=> Up(msg))
                            ELSE inq'[k] = inq[k] /\ (View(k)' <=> View(k))
      /\ AllUp /\ Up(msg) => AllUp'
  BY <1>1, <1>3, <1>4, <1>5, NotifyView
<1>7. AllUp => Up(notice[h])
  BY <1>1 DEF AllUp, InHand
<1> QED
  BY <1>1, <1>3, <1>6, <1>7

\* Nothing that the views are made of changes.
LEMMA SameView ==
  ASSUME UNCHANGED <<mon, notice, inq, ready>>
  PROVE  /\ \A k : View(k)' <=> View(k)
         /\ AllUp => AllUp'
<1>1. \A k : View(k)' <=> View(k)
  BY Zenon DEF View, InHand
<1>2. AllUp => AllUp'
  BY DEF AllUp, InHand, QueueUp
<1> QED
  BY <1>1, <1>2

\* In a calm stream whose talker has not said that it leaves, no notice says that
\* anybody does.
LEMMA UpKeeps ==
  ASSUME LifeInv, Sides, UpInv, [Next]_vars
  PROVE  UpInv'
<1> SUFFICES ASSUME Calm', ~Sent' PROVE AllUp'
  BY DEF UpInv
<1> USE UseHosts DEF LifeInv
<1>1. Calm /\ AllUp
  BY CalmBefore, NoWayBack DEF UpInv
<1>2. \A h \in use.hosts : h \in Hosts /\ running[h] /\ ~freed[h]
  BY <1>1 DEF Calm, Present
<1>3. ASSUME NEW msg \in {"Tnew"}, Notify(Listeners, msg), UNCHANGED <<mon, notice, ready>>
      PROVE  AllUp'
  <2>1. Up(msg) /\ msg \in Notices /\ \A k \in Hosts : InHand(k)' <=> InHand(k)
    BY <1>3 DEF Up, Notices, InHand
  <2> QED
    BY <1>1, <1>3, <2>1, NotifyView
<1>4. ASSUME NEW h \in use.hosts, chan_create(h) PROVE AllUp'
  <2>1. UNCHANGED <<mon, notice, ready>> /\ (UNCHANGED inq \/ Notify(Listeners, "Tnew"))
    BY <1>4 DEF chan_create, advertise, chanVars, monVars, netVars
  <2> QED
    BY <1>1, <1>3, <2>1, SameView
<1>5. ASSUME NEW h \in use.hosts, nc_srp_monitor_poll(h) \/ monitor_find(h) \/ monitor_set(h)
      PROVE  AllUp'
  BY <1>1, <1>2, <1>5, PollView, FindView, SetView
<1>6. ASSUME NEW h \in use.hosts, h # Talker, monitor_send(h) PROVE AllUp'
  BY <1>1, <1>2, <1>6, SendView DEF Hosts
<1>7. ASSUME NEW h \in use.hosts, mrpd_loses(h) PROVE AllUp'
  <2>1. inq[h] # <<>> /\ inq' = [inq EXCEPT ![h] = Tail(inq[h])] /\ UNCHANGED <<mon, notice>>
    BY <1>7 DEF mrpd_loses, monVars
  <2>2. \A k \in Hosts : inq'[k] = inq[k] \/ (k = h /\ inq'[k] = Tail(inq[k]))
    BY <2>1 DEF TypeOK
  <2>3. \A k \in Hosts : QueueUp(inq[k]) /\ inq[k] \in Seq(Notices) /\ (InHand(k) => Up(notice[k]))
    BY <1>1 DEF AllUp, TypeOK
  <2>4. \A k \in Hosts : QueueUp(inq'[k])
    BY <2>1, <2>2, <2>3, TailUp
  <2> QED
    BY <2>1, <2>3, <2>4 DEF AllUp, InHand
<1>8. ASSUME chan_stop(Talker) \/ nc_srp_talker_announce
             \/ UNCHANGED <<use, app, chanVars, monVars, netVars, ann>>
      PROVE  AllUp'
  <2>1. UNCHANGED <<mon, notice, inq>>
    BY <1>8 DEF chan_stop, nc_srp_talker_announce, monVars, netVars
  <2> QED
    BY <1>1, <2>1 DEF AllUp, InHand
<1>9. ASSUME chan_stop_leave(Talker) PROVE FALSE
  <2>1. app[Talker] = "leave" /\ running[Talker] /\ stopping[Talker]
    BY <1>2, <1>9 DEF chan_stop_leave, Found
  <2>2. app'[Talker] = "run" /\ stopping'[Talker]
    BY <1>9, <2>1 DEF chan_stop_leave, chanVars, TypeOK
  <2> QED
    BY <2>2 DEF Sent
<1>10. ASSUME announce_send PROVE AllUp'
  <2>1. UNCHANGED <<mon, notice, ready>> /\ Notify(Listeners, "Tnew")
    BY <1>10 DEF announce_send, advertise, chanVars, monVars
  <2> QED
    BY <1>3, <2>1
<1> QED
  BY <1>4, <1>5, <1>6, <1>7, <1>8, <1>9, <1>10, CalmSteps DEF CalmStep

\* A channel is taken down only by a stop, its own or that of another end, or by
\* the destruction of a nethandler: whatever notices nc_srp_monitor() misses, gets
\* twice or gets late.
THEOREM LinkIsStable == Spec => LinkStaysUp
<1>1. Init => UpInv
  BY DEF Init, UpInv, AllUp, QueueUp, InHand
<1>2. LifeInv /\ Sides /\ UpInv /\ [Next]_vars => UpInv'
  BY UpKeeps
<1>3. LifeInv /\ Sides /\ UpInv /\ LifeInv' /\ [Next]_vars =>
        [Undisturbed' => \A h \in Hosts : ready[h] => ready'[h]]_vars
  <2> SUFFICES ASSUME LifeInv, Sides, UpInv, LifeInv', [Next]_vars, Undisturbed',
                      NEW h \in Hosts, ready[h]
               PROVE  ready'[h]
    OBVIOUS
  <2>1. Calm' /\ ~stopping'[Talker]
    <3>1. \A k \in Hosts \ use'.hosts : ~stopping'[k]
      BY DEF LifeInv, Absent
    <3>2. Talker \in use'.hosts /\ Listeners \subseteq Hosts
      BY UseHosts, NoWayBack DEF LifeInv
    <3> QED
      BY <3>1, <3>2 DEF Calm, Undisturbed
  <2>2. Calm /\ ~stopping[Talker] /\ Talker \in Hosts /\ TypeOK
    BY <2>1, CalmBefore, NoWayBack, UseHosts DEF LifeInv
  <2>3. AllUp
    BY <2>2 DEF UpInv, Sent
  <2>4. CASE \E k \in use.hosts : monitor_set(k)
    <3>1. PICK k \in use.hosts : monitor_set(k)
      BY <2>4
    <3>2. Up(notice[k]) /\ k \in Hosts
      BY <2>2, <2>3, <3>1, UseHosts DEF AllUp, InHand, monitor_set
    <3> QED
      BY <3>1, <3>2, SetView
  <2>5. CASE chan_stop(Talker)
    BY <2>1, <2>2, <2>5 DEF chan_stop, stop_flags, TypeOK
  <2>6. CASE UNCHANGED ready
    BY <2>6
  <2> QED
    BY <2>1, <2>4, <2>5, <2>6, CalmSteps
    DEF CalmStep, chan_create, nc_srp_monitor_poll, monitor_find, monitor_send, mrpd_loses,
        chan_stop_leave, nc_srp_talker_announce, announce_send, chanVars
<1> QED
  BY <1>1, <1>2, <1>3, Lives, SidesHold, PTL DEF Spec, LinkStaysUp
-----------------------------------------------------------------------------
(* Agreement. *)

\* A listener that has answered an announcement; one that has still to answer a
\* notice.
Answered(l) == ready[l] \/ mon[l] = "set"
Owing(l) == app[l] # "new" /\ (inq[l] # <<>> \/ mon[l] \in {"find", "send"})

\* Until the talker has sent its "S--", what it will make of ready is what the
\* listeners have told it.  Nothing happens before it has announced itself.
BeforeLeave ==
  /\ app[Talker] = "new" => \A h \in use.hosts : inq[h] = <<>> /\ mon[h] = "poll" /\ ~ready[h]
  /\ View(Talker) => \E l \in Listeners : Answered(l)
  /\ \A l \in Listeners : Answered(l) => View(Talker) \/ stopping[Talker]

\* From then on every listener is going to give up, and the talker will be ready
\* only as long as one of them has still to tell it so.
AfterLeave ==
  /\ \A l \in Listeners : ~View(l)
  /\ View(Talker) => \E l \in Listeners : Owing(l)

\* The inductive invariant of QuietAgreement.
QuietInv == Calm /\ lost = 0 /\ late = 0 => IF Sent THEN AfterLeave ELSE BeforeLeave

\* Losses and late announcements are not forgotten.
LEMMA CountersGrow ==
  ASSUME LifeInv, [Next]_vars
  PROVE  (lost' = 0 => lost = 0) /\ (late' = 0 => late = 0)
<1>1. lost \in Nat /\ late \in Nat
  BY UseHosts DEF LifeInv, TypeOK
<1>2. lost' \in {lost, lost + 1} /\ late' \in {late, late + 1}
  BY DEF Next, InCall, Monitor, chan_create, chan_stop, chan_stop_leave, nh_destroy,
         nh_destroy_channel, nh_destroy_free, nc_srp_teardown, chan_ready_timedwait,
         chan_ready_timedwait_return, nc_srp_monitor_poll, monitor_find, monitor_send, monitor_set,
         mrpd_loses, nc_srp_talker_announce, announce_send, advertise, unadvertise,
         listener_attribute, vars, netVars
<1> QED
  BY <1>1, <1>2

\* What a calm stream is like: all the threads of its hosts run.
LEMMA CalmFacts ==
  ASSUME LifeInv, Calm
  PROVE  /\ \A h \in use.hosts : h \in Hosts /\ running[h] /\ ~freed[h] /\ mon[h] # "exited"
         /\ \A l \in Listeners : Answered(l) => l \in use.hosts /\ app[l] # "new"
         /\ \A l \in Listeners \ use.hosts : mon[l] = "exited" /\ ~View(l)
<1> USE UseHosts DEF LifeInv
<1>1. \A h \in use.hosts : h \in Hosts /\ running[h] /\ ~freed[h] /\ mon[h] # "exited"
  BY DEF Calm, Present
<1>2. \A l \in Listeners : Answered(l) => l \in use.hosts /\ app[l] # "new"
  BY DEF Answered, Absent, Found
<1>3. \A l \in Listeners \ use.hosts : mon[l] = "exited" /\ ~View(l)
  BY DEF Absent, View, InHand
<1> QED
  BY <1>1, <1>2, <1>3

\* A step that leaves the listeners' threads and the views alone.
LEMMA BeforeUnchanged ==
  ASSUME BeforeLeave, UNCHANGED stopping, app'[Talker] # "new", View(Talker)' <=> View(Talker),
         \A l \in Listeners : Answered(l)' <=> Answered(l)
  PROVE  BeforeLeave'
BY DEF BeforeLeave

\* Steps before the talker leaves.
LEMMA BeforeKeeps ==
  ASSUME LifeInv, Sides, UpInv, Calm, ~Sent, BeforeLeave, CalmStep, ~Sent', lost' = lost
  PROVE  BeforeLeave'
<1> USE UseHosts DEF LifeInv
<1>1. AllUp
  BY DEF UpInv
<1>2. /\ \A h \in use.hosts : h \in Hosts /\ running[h] /\ ~freed[h] /\ mon[h] # "exited"
      /\ \A l \in Listeners : Answered(l) => l \in use.hosts /\ app[l] # "new"
  BY CalmFacts
<1>3. ASSUME UNCHANGED <<use, app, stopping, mon, notice, inq, ready>> PROVE BeforeLeave'
  <2>1. View(Talker)' <=> View(Talker)
    BY <1>3, SameView
  <2>2. \A l \in Listeners : Answered(l)' <=> Answered(l)
    BY <1>3, Zenon DEF Answered
  <2> QED
    BY <1>3, <2>1, <2>2 DEF BeforeLeave
<1>4. ASSUME NEW h \in use.hosts, chan_create(h) PROVE BeforeLeave'
  <2>1. UNCHANGED <<use, stopping, mon, notice, ready>> /\ app' = [app EXCEPT ![h] = "run"]
    BY <1>4 DEF chan_create, chanVars, monVars
  <2>2. CASE h = Talker
    <3>1. app'[Talker] # "new" /\ Notify(Listeners, "Tnew") /\ "Tnew" \in Notices
      BY <1>4, <2>1, <2>2 DEF chan_create, advertise, Notices, TypeOK
    <3>2. \A k \in Hosts : InHand(k)' <=> InHand(k)
      BY <2>1 DEF InHand
    <3>3. View(Talker)' <=> View(Talker)
      BY <2>1, <3>1, <3>2, NotifyView
    <3>4. \A l \in Listeners : Answered(l)' <=> Answered(l)
      BY <2>1, Zenon DEF Answered
    <3> QED
      BY <2>1, <3>1, <3>3, <3>4, BeforeUnchanged
  <2>3. CASE h # Talker
    <3>1. UNCHANGED inq /\ app'[Talker] = app[Talker]
      BY <1>4, <2>1, <2>3 DEF chan_create, netVars, TypeOK
    <3>2. View(Talker)' <=> View(Talker)
      BY <2>1, <3>1, SameView
    <3>3. \A l \in Listeners : Answered(l)' <=> Answered(l)
      BY <2>1, Zenon DEF Answered
    <3> QED
      BY <2>1, <3>1, <3>2, <3>3 DEF BeforeLeave
  <2> QED
    BY <2>2, <2>3
<1>5. ASSUME NEW h \in use.hosts, nc_srp_monitor_poll(h) PROVE BeforeLeave'
  <2>1. /\ View(Talker)' <=> View(Talker)
        /\ inq[h] # <<>> /\ mon' = [mon EXCEPT ![h] = "find"]
        /\ UNCHANGED <<app, ready, stopping>>
    BY <1>2, <1>5, PollView
  <2>2. app'[Talker] # "new" /\ mon[h] = "poll"
    BY <1>5, <2>1 DEF BeforeLeave, nc_srp_monitor_poll
  <2>3. \A l \in Listeners : Answered(l)' <=> Answered(l)
    BY <2>1, <2>2 DEF Answered, TypeOK
  <2> QED
    BY <2>1, <2>2, <2>3, BeforeUnchanged
<1>6. ASSUME NEW h \in use.hosts, monitor_find(h) PROVE BeforeLeave'
  <2>1. /\ mon[h] = "find" /\ UNCHANGED <<app, ready, stopping>>
        /\ \A k \in Hosts \ {h} : (View(k)' <=> View(k)) /\ mon'[k] = mon[k]
        /\ app[h] # "new" => (View(h)' <=> View(h))
        /\ h # Talker => mon'[h] \in {"send", "poll"}
    BY <1>2, <1>6, FindView
  <2>2. app[Talker] # "new"
    BY <2>1 DEF BeforeLeave
  <2>3. View(Talker)' <=> View(Talker)
    BY <2>1, <2>2
  <2>4. \A l \in Listeners : Answered(l)' <=> Answered(l)
    BY <2>1 DEF Answered
  <2> QED
    BY <2>1, <2>2, <2>3, <2>4, BeforeUnchanged
<1>7. ASSUME NEW h \in use.hosts, h # Talker, monitor_send(h) PROVE BeforeLeave'
  <2>1. h \in Listeners /\ h \in Hosts
    BY <1>2, <1>7 DEF Hosts
  <2>2. /\ View(Talker)' <=> Up(notice[h])
        /\ mon[h] = "send" /\ mon' = [mon EXCEPT ![h] = "set"]
        /\ UNCHANGED <<app, ready, stopping>>
    BY <1>2, <1>7, <2>1, SendView
  <2>3. View(Talker)' /\ Answered(h)' /\ app'[Talker] # "new"
    BY <1>1, <2>1, <2>2 DEF AllUp, InHand, Answered, BeforeLeave, TypeOK
  <2> QED
    BY <2>1, <2>3 DEF BeforeLeave
<1>8. ASSUME NEW h \in use.hosts, monitor_set(h) PROVE BeforeLeave'
  <2>1. /\ View(Talker)' <=> View(Talker)
        /\ mon[h] = "set" /\ mon' = [mon EXCEPT ![h] = "poll"]
        /\ ready'[h] <=> Up(notice[h])
        /\ \A k \in Hosts \ {h} : ready'[k] = ready[k]
        /\ UNCHANGED <<app, stopping>>
    BY <1>2, <1>8, SetView
  <2>2. app'[Talker] # "new" /\ Answered(h) /\ Answered(h)'
    BY <1>1, <1>2, <2>1 DEF BeforeLeave, AllUp, InHand, Answered
  <2>3. ASSUME NEW l \in Listeners PROVE Answered(l)' <=> Answered(l)
    BY <2>1, <2>2 DEF Answered, TypeOK
  <2> QED
    BY <2>1, <2>2, <2>3, BeforeUnchanged
<1>9. ASSUME chan_stop(Talker) PROVE BeforeLeave'
  <2>1. UNCHANGED <<mon, notice, inq>> /\ stop_flags(Talker, "run")
    BY <1>9 DEF chan_stop, monVars, netVars
  <2>2. /\ stopping'[Talker] /\ ~ready'[Talker] /\ app'[Talker] # "new"
        /\ \A l \in Listeners : ready'[l] = ready[l]
    BY <2>1 DEF stop_flags, TypeOK
  <2>3. View(Talker)' => View(Talker)
    BY <2>1, <2>2 DEF View, InHand
  <2>4. \A l \in Listeners : Answered(l)' <=> Answered(l)
    BY <2>1, <2>2, Zenon DEF Answered
  <2> QED
    BY <2>2, <2>3, <2>4 DEF BeforeLeave
<1>10. ASSUME chan_stop_leave(Talker) PROVE FALSE
  <2>1. app[Talker] = "leave" /\ running[Talker] /\ stopping[Talker]
    BY <1>2, <1>10 DEF chan_stop_leave, Found
  <2>2. app'[Talker] = "run" /\ stopping'[Talker]
    BY <1>10, <2>1 DEF chan_stop_leave, chanVars, TypeOK
  <2> QED
    BY <2>2 DEF Sent
<1>11. ASSUME announce_send PROVE BeforeLeave'
  <2>1. /\ UNCHANGED <<app, stopping, mon, notice, ready>> /\ Notify(Listeners, "Tnew")
        /\ app'[Talker] # "new" /\ "Tnew" \in Notices
    BY <1>11 DEF announce_send, advertise, chanVars, monVars, Found, Notices
  <2>2. \A k \in Hosts : InHand(k)' <=> InHand(k)
    BY <2>1 DEF InHand
  <2>3. View(Talker)' <=> View(Talker)
    BY <2>1, <2>2, NotifyView
  <2>4. \A l \in Listeners : Answered(l)' <=> Answered(l)
    BY <2>1, Zenon DEF Answered
  <2> QED
    BY <2>1, <2>3, <2>4, BeforeUnchanged
<1>12. ASSUME NEW h \in use.hosts, mrpd_loses(h) PROVE FALSE
  BY <1>12 DEF mrpd_loses, TypeOK
<1>13. UNCHANGED <<use, app, chanVars, monVars, netVars, ann>> \/ nc_srp_talker_announce
         => UNCHANGED <<use, app, stopping, mon, notice, inq, ready>>
  BY DEF nc_srp_talker_announce, chanVars, monVars, netVars
<1> QED
  BY <1>3, <1>4, <1>5, <1>6, <1>7, <1>8, <1>9, <1>10, <1>11, <1>12, <1>13 DEF CalmStep

\* The talker leaves: every listener that reads is told.
LEMMA Leave ==
  ASSUME LifeInv, Calm, ~Sent, BeforeLeave, CalmStep, Sent'
  PROVE  AfterLeave'
<1> USE UseHosts DEF LifeInv
<1>1. chan_stop_leave(Talker)
  <2>1. UNCHANGED <<app, stopping>> => (Sent' <=> Sent)
    BY DEF Sent
  <2>2. ASSUME NEW h \in use.hosts, chan_create(h) PROVE FALSE
    <3>1. UNCHANGED stopping /\ app[h] = "new" /\ app' = [app EXCEPT ![h] = "run"]
      BY <2>2 DEF chan_create, chanVars
    <3>2. h = Talker => ~stopping[Talker]
      BY <3>1 DEF Found
    <3> QED
      BY <3>1, <3>2 DEF Sent, TypeOK
  <2>3. ASSUME chan_stop(Talker) PROVE FALSE
    <3>1. app[Talker] = "run" /\ stop_flags(Talker, "run")
      BY <2>3 DEF chan_stop
    <3>2. ~stopping[Talker]
      BY <3>1 DEF Sent
    <3> QED
      BY <3>1, <3>2 DEF stop_flags, Sent, TypeOK
  <2> QED
    BY <2>1, <2>2, <2>3
    DEF CalmStep, nc_srp_monitor_poll, monitor_find, monitor_send, monitor_set, mrpd_loses,
        nc_srp_talker_announce, announce_send, chanVars
<1>2. /\ UNCHANGED <<use, mon, notice, ready>> /\ Notify(Listeners, "Tleave") /\ "Tleave" \in Notices
      /\ app' = [app EXCEPT ![Talker] = "run"] \/ app' = [app EXCEPT ![Talker] = "free"]
  BY <1>1 DEF chan_stop_leave, unadvertise, chanVars, monVars, Notices
<1>3. \A k \in Hosts : InHand(k)' <=> InHand(k)
  BY <1>2 DEF InHand
<1>4. \A k \in Hosts : IF k \in Listeners /\ mon[k] # "exited"
                         THEN inq'[k] # <<>> /\ (View(k)' <=> Up("Tleave"))
                         ELSE inq'[k] = inq[k] /\ (View(k)' <=> View(k))
  BY <1>2, <1>3, NotifyView
<1>5. /\ \A h \in use.hosts : h \in Hosts /\ mon[h] # "exited"
      /\ \A l \in Listeners : Answered(l) => l \in use.hosts /\ app[l] # "new"
      /\ \A l \in Listeners \ use.hosts : mon[l] = "exited" /\ ~View(l)
  BY CalmFacts
<1>6. ASSUME NEW l \in Listeners PROVE ~View(l)'
  <2>1. ~Up("Tleave")
    BY DEF Up
  <2> QED
    BY <1>4, <1>5, <2>1
<1>7. ASSUME View(Talker)' PROVE \E l \in Listeners : Owing(l)'
  <2>1. PICK l \in Listeners : Answered(l)
    BY <1>4, <1>7 DEF BeforeLeave
  <2>2. l \in Hosts /\ inq'[l] # <<>> /\ app'[l] # "new"
    BY <1>2, <1>4, <1>5, <2>1 DEF TypeOK
  <2> QED
    BY <2>2 DEF Owing
<1> QED
  BY <1>6, <1>7 DEF AfterLeave

\* A step that brings no view up and leaves no listener's debt unpaid.
LEMMA AfterUnchanged ==
  ASSUME AfterLeave, \A k \in Hosts : View(k)' => View(k), Talker \in Hosts, Listeners \subseteq Hosts,
         \A l \in Listeners : Owing(l) => Owing(l)'
  PROVE  AfterLeave'
BY DEF AfterLeave

\* Steps after the talker has left.
LEMMA AfterKeeps ==
  ASSUME LifeInv, Sides, Calm, Sent, AfterLeave, CalmStep, lost' = lost, late' = late
  PROVE  AfterLeave'
<1> USE UseHosts DEF LifeInv
<1>1. \A h \in use.hosts : h \in Hosts /\ running[h] /\ ~freed[h] /\ mon[h] # "exited"
  BY CalmFacts
<1>2. app[Talker] \notin {"new", "leave"} /\ stopping[Talker]
  BY DEF Sent, Found
<1>3. ASSUME UNCHANGED <<app, mon, notice, inq, ready>> PROVE AfterLeave'
  <2>1. \A k \in Hosts : View(k)' => View(k)
    BY <1>3, SameView
  <2>2. \A l \in Listeners : Owing(l) => Owing(l)'
    BY <1>3 DEF Owing
  <2> QED
    BY <2>1, <2>2, AfterUnchanged
<1>4. ASSUME NEW h \in use.hosts, chan_create(h) PROVE AfterLeave'
  <2>1. app[h] = "new" /\ h # Talker
    BY <1>2, <1>4 DEF chan_create
  <2>2. UNCHANGED <<mon, notice, inq, ready>> /\ app' = [app EXCEPT ![h] = "run"]
    BY <1>4, <2>1 DEF chan_create, chanVars, monVars, netVars
  <2>3. \A k \in Hosts : View(k)' => View(k)
    BY <2>2, SameView
  <2>4. \A l \in Listeners : Owing(l) => Owing(l)'
    BY <2>2 DEF Owing, TypeOK
  <2> QED
    BY <2>3, <2>4, AfterUnchanged
<1>5. ASSUME NEW h \in use.hosts, nc_srp_monitor_poll(h) PROVE AfterLeave'
  <2>1. /\ \A k \in Hosts : View(k)' <=> View(k)
        /\ mon' = [mon EXCEPT ![h] = "find"] /\ UNCHANGED app
        /\ \A k \in Hosts \ {h} : inq'[k] = inq[k]
    BY <1>1, <1>5, PollView
  <2>2. \A l \in Listeners : Owing(l) => Owing(l)'
    BY <2>1 DEF Owing, TypeOK
  <2> QED
    BY <2>1, <2>2, AfterUnchanged
<1>6. ASSUME NEW h \in use.hosts, monitor_find(h) PROVE AfterLeave'
  <2>1. /\ \A k \in Hosts \ {h} : (View(k)' <=> View(k)) /\ mon'[k] = mon[k]
        /\ View(h)' => View(h)
        /\ app[h] # "new" => mon'[h] = (IF h = Talker THEN "set" ELSE "send")
        /\ UNCHANGED <<app, inq>>
    BY <1>1, <1>6, FindView
  <2>2. \A l \in Listeners : Owing(l) => Owing(l)'
    BY <2>1 DEF Owing
  <2> QED
    BY <2>1, <2>2, AfterUnchanged
<1>7. ASSUME NEW h \in use.hosts, h # Talker, monitor_send(h) PROVE AfterLeave'
  <2>1. h \in Listeners /\ h \in Hosts
    BY <1>1, <1>7 DEF Hosts
  <2>2. /\ \A k \in Hosts \ {Talker} : (View(k)' <=> View(k)) /\ inq'[k] = inq[k]
        /\ View(Talker)' <=> Up(notice[h])
        /\ mon[h] = "send" /\ UNCHANGED app
    BY <1>1, <1>7, <2>1, SendView
  <2>3. ASSUME Up(notice[h]) PROVE Owing(h)'
    <3>1. ~View(h)
      BY <2>1 DEF AfterLeave
    <3>2. inq[h] # <<>>
      BY <2>2, <2>3, <3>1 DEF View, InHand
    <3>3. app[h] # "new"
      BY <2>1, <2>2 DEF Found
    <3> QED
      BY <1>7, <2>1, <2>2, <3>2, <3>3 DEF Owing
  <2> QED
    BY <2>1, <2>2, <2>3 DEF AfterLeave
<1>8. ASSUME NEW h \in use.hosts, monitor_set(h) PROVE AfterLeave'
  <2>1. /\ \A k \in Hosts : View(k)' <=> View(k)
        /\ mon[h] = "set" /\ mon' = [mon EXCEPT ![h] = "poll"] /\ UNCHANGED <<app, inq>>
    BY <1>1, <1>8, SetView
  <2>2. \A l \in Listeners : Owing(l) => Owing(l)'
    BY <2>1 DEF Owing, TypeOK
  <2> QED
    BY <2>1, <2>2, AfterUnchanged
<1>9. ASSUME chan_stop(Talker) PROVE AfterLeave'
  <2>1. UNCHANGED <<mon, notice, inq>> /\ stop_flags(Talker, "run")
    BY <1>9 DEF chan_stop, monVars, netVars
  <2>2. /\ ~ready'[Talker]
        /\ \A k \in Hosts \ {Talker} : ready'[k] = ready[k] /\ app'[k] = app[k]
    BY <2>1 DEF stop_flags, TypeOK
  <2>3. \A k \in Hosts : View(k)' => View(k)
    BY <2>1, <2>2 DEF View, InHand
  <2>4. \A l \in Listeners : Owing(l) => Owing(l)'
    BY <2>1, <2>2 DEF Owing
  <2> QED
    BY <2>3, <2>4, AfterUnchanged
<1>10. ASSUME chan_stop_leave(Talker) \/ announce_send PROVE FALSE
  BY <1>2, <1>10 DEF chan_stop_leave, announce_send, advertise, TypeOK
<1>11. ASSUME NEW h \in use.hosts, mrpd_loses(h) PROVE FALSE
  BY <1>11 DEF mrpd_loses, TypeOK
<1>12. UNCHANGED <<use, app, chanVars, monVars, netVars, ann>> \/ nc_srp_talker_announce
         => UNCHANGED <<app, mon, notice, inq, ready>>
  BY DEF nc_srp_talker_announce, chanVars, monVars, netVars
<1> QED
  BY <1>3, <1>4, <1>5, <1>6, <1>7, <1>8, <1>9, <1>10, <1>11, <1>12 DEF CalmStep

\* Every step keeps the invariant of the agreement.
LEMMA QuietKeeps ==
  ASSUME LifeInv, Sides, UpInv, QuietInv, [Next]_vars
  PROVE  QuietInv'
<1> SUFFICES ASSUME Calm', lost' = 0, late' = 0
             PROVE  IF Sent' THEN AfterLeave' ELSE BeforeLeave'
  BY DEF QuietInv
<1>1. Calm /\ CalmStep /\ lost = 0 /\ late = 0 /\ (Sent => Sent')
  BY CalmBefore, CalmSteps, CountersGrow, NoWayBack
<1>2. IF Sent THEN AfterLeave ELSE BeforeLeave
  BY <1>1 DEF QuietInv
<1> QED
  BY <1>1, <1>2, BeforeKeeps, Leave, AfterKeeps

\* When nothing is in flight and nothing was lost, nh_notify_talker_Lnew() and its
\* like have left the talker ready exactly when one of its listeners is, before the
\* talker's chan_stop() and after it, for any number of listeners; no listener has
\* called chan_stop().
THEOREM SidesAgree == Spec => []QuietAgreement
<1>1. Init => UpInv /\ QuietInv
  <2> SUFFICES ASSUME Init PROVE UpInv /\ QuietInv
    OBVIOUS
  <2>1. UpInv
    BY DEF Init, UpInv, AllUp, QueueUp, InHand
  <2>2. Talker \in Hosts /\ Listeners \subseteq Hosts /\ use.hosts \subseteq Hosts
    BY SrpAssumption DEF Init, Hosts
  <2>3. ~Sent /\ BeforeLeave
    BY <2>2 DEF Init, Sent, BeforeLeave, View, InHand, Answered
  <2> QED
    BY <2>1, <2>3 DEF QuietInv
<1>2. LifeInv /\ Sides /\ UpInv /\ QuietInv /\ [Next]_vars => UpInv' /\ QuietInv'
  BY UpKeeps, QuietKeeps
<1>3. LifeInv /\ QuietInv => QuietAgreement
  <2> SUFFICES ASSUME LifeInv, QuietInv, Quiet, \A l \in Listeners : ~stopping[l]
               PROVE  ready[Talker] <=> \E l \in Listeners : ready[l]
    BY DEF QuietAgreement
  <2> USE UseHosts DEF LifeInv
  <2>1. \A h \in use.hosts : /\ inq[h] = <<>> /\ mon[h] = "poll" /\ app[h] \in {"new", "run"}
                             /\ (View(h) <=> ready[h])
    BY DEF Quiet, View, InHand
  <2>2. Calm /\ lost = 0 /\ late = 0
    BY <2>1 DEF Calm, Present, Quiet
  <2>3. \A l \in Listeners \ use.hosts : ~ready[l]
    BY DEF Absent
  <2>4. CASE Sent
    <3>1. AfterLeave
      BY <2>2, <2>4 DEF QuietInv
    <3>2. \A l \in Listeners : ~ready[l]
      BY <2>1, <2>3, <3>1 DEF AfterLeave
    <3>3. \A l \in Listeners : l \in use.hosts => ~Owing(l)
      BY <2>1 DEF Owing
    <3>4. \A l \in Listeners \ use.hosts : ~Owing(l)
      BY DEF Absent, Owing
    <3> QED
      BY <2>1, <3>1, <3>2, <3>3, <3>4 DEF AfterLeave
  <2>5. CASE ~Sent
    <3>1. BeforeLeave /\ ~stopping[Talker]
      BY <2>1, <2>2, <2>5 DEF QuietInv, Sent
    <3>2. \A l \in Listeners : Answered(l) <=> ready[l]
      <4>1. \A l \in Listeners : mon[l] # "set"
        BY <2>1 DEF Absent
      <4> QED
        BY <4>1 DEF Answered
    <3> QED
      BY <2>1, <3>1, <3>2 DEF BeforeLeave
  <2> QED
    BY <2>4, <2>5
<1> QED
  BY <1>1, <1>2, <1>3, Lives, SidesHold, PTL DEF Spec
=============================================================================

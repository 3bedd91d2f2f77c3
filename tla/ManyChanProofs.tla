--------------------------- MODULE ManyChanProofs ---------------------------
(***************************************************************************)
(* The barrier of examples/manychan.c is one, for ensembles of every size: *)
(* nobody gets through it before everybody has created all channels.       *)
(***************************************************************************)
EXTENDS ManyChan, TLAPS

Frames == {"READY", "DATA", "STOP"}

\* What the argument needs of the types.
Shape ==
  /\ main \in [Nodes -> Pcs]
  /\ remote_ready \in [Nodes -> SUBSET Nodes]
  /\ pipe \in [Nodes -> [Nodes -> Seq(Frames)]]

\* A signal, whether it is still in a pipe or has been taken note of, comes from a
\* node that has created all its channels.
Noted     == \A n, m \in Nodes : m \in remote_ready[n] => Up(m)
Underway  == \A n, m \in Nodes : \A i \in 1 .. Len(pipe[n][m]) : pipe[n][m][i] = "READY" => Up(m)
AllAreUp  == passed # {} => \A m \in Nodes : Up(m)
BarrierInv == Shape /\ Noted /\ Underway /\ AllAreUp

\* A step after which every process that was past the creation of its channels
\* still is.
StaysUp == main' \in [Nodes -> Pcs] /\ \A m \in Nodes : Up(m) => Up(m)'

\* Moving on, in a loop or out of it, does not lead back to the creation of channels.
LEMMA MovesOn ==
  ASSUME Shape, NEW n \in Nodes, NEW pc \in Pcs \ {"down", "rx"}, goto(n, pc) \/ step(n, pc)
  PROVE  StaysUp
BY DEF Shape, StaysUp, Up, Pcs, goto, step

\* Nothing gets into a pipe but the frame that is sent.
LEMMA Sent ==
  ASSUME Shape, Underway, NEW n \in Nodes, NEW m, NEW frame \in Frames,
         frame = "READY" => Up(n), StaysUp, chan_send_now(n, m, frame)
  PROVE  Underway' /\ pipe' \in [Nodes -> [Nodes -> Seq(Frames)]]
<1>1. CASE pipe' = pipe
  BY <1>1 DEF Shape, Underway, StaysUp
<1>2. CASE m \notin Nodes
  <2>1. pipe' = pipe
    BY <1>2 DEF Shape, chan_send_now
  <2> QED
    BY <1>1, <2>1
<1>3. CASE m \in Nodes /\ pipe' = [pipe EXCEPT ![m][n] = Append(pipe[m][n], frame)]
  <2>1. pipe[m] \in [Nodes -> Seq(Frames)] /\ pipe[m][n] \in Seq(Frames)
    BY <1>3 DEF Shape
  <2> DEFINE new == Append(pipe[m][n], frame)
  <2>2. /\ new \in Seq(Frames) /\ Len(new) = Len(pipe[m][n]) + 1
        /\ \A i \in 1 .. Len(new) : (new[i] = pipe[m][n][i] /\ i \in 1 .. Len(pipe[m][n])) \/ new[i] = frame
    BY <2>1
  <2>3. pipe' \in [Nodes -> [Nodes -> Seq(Frames)]]
    <3> HIDE DEF new
    <3> QED BY <1>3, <2>1, <2>2 DEF Shape, new
  <2>4. ASSUME NEW a \in Nodes, NEW b \in Nodes, NEW i \in 1 .. Len(pipe'[a][b]),
               pipe'[a][b][i] = "READY"
        PROVE  Up(b)'
    <3>1. CASE a = m /\ b = n
      <4>1. pipe'[a][b] = new
        BY <1>3, <2>1, <3>1 DEF Shape
      <4>2. Up(n)
        <5> HIDE DEF new
        <5> QED BY <1>3, <2>2, <2>4, <3>1, <4>1 DEF Underway
      <4> QED
        BY <3>1, <4>2 DEF StaysUp
    <3>2. CASE ~(a = m /\ b = n)
      <4>1. pipe'[a][b] = pipe[a][b]
        BY <1>3, <2>1, <3>2 DEF Shape
      <4> QED
        BY <2>4, <4>1 DEF Underway, StaysUp
    <3> QED
      BY <3>1, <3>2
  <2> QED
    BY <2>3, <2>4 DEF Underway
<1> QED
  BY <1>1, <1>2, <1>3 DEF chan_send_now

\* The pipes of a process that stops are empty.
LEMMA Stopped ==
  ASSUME Shape, Underway, NEW n \in Nodes, stopped(n), StaysUp
  PROVE  Underway' /\ pipe' \in [Nodes -> [Nodes -> Seq(Frames)]]
<1>1. NoFrames \in [Nodes -> Seq(Frames)] /\ \A b \in Nodes : Len(NoFrames[b]) = 0
  BY DEF NoFrames
<1>2. pipe' = [pipe EXCEPT ![n] = NoFrames]
  BY DEF stopped
<1>3. pipe' \in [Nodes -> [Nodes -> Seq(Frames)]]
  BY <1>1, <1>2 DEF Shape
<1>4. ASSUME NEW a \in Nodes, NEW b \in Nodes, NEW i \in 1 .. Len(pipe'[a][b]),
             pipe'[a][b][i] = "READY"
      PROVE  Up(b)'
  <2>1. a # n
    BY <1>1, <1>2, <1>4 DEF Shape
  <2>2. pipe'[a][b] = pipe[a][b]
    BY <1>2, <2>1 DEF Shape
  <2> QED
    BY <1>4, <2>2 DEF Underway, StaysUp
<1> QED
  BY <1>3, <1>4 DEF Underway

\* No step of an ensemble breaks the barrier: it opens for a node when the signals of
\* all have been noted.
LEMMA BarrierStep == BarrierInv /\ [Next]_vars => BarrierInv'
<1> SUFFICES ASSUME BarrierInv, [Next]_vars PROVE BarrierInv'
  OBVIOUS
<1> USE DEF BarrierInv
<1>a. \* a step that notes nothing and lets nobody through
      ASSUME StaysUp, Underway', pipe' \in [Nodes -> [Nodes -> Seq(Frames)]],
             UNCHANGED <<remote_ready, passed>>
      PROVE  BarrierInv'
  BY <1>a DEF Shape, Noted, AllAreUp, StaysUp
<1>b. ASSUME UNCHANGED main PROVE StaysUp
  BY <1>b DEF Shape, StaysUp, Up
<1>c. ASSUME StaysUp, UNCHANGED pipe
      PROVE  Underway' /\ pipe' \in [Nodes -> [Nodes -> Seq(Frames)]]
  BY <1>c DEF Shape, Underway, StaysUp
<1>1. ASSUME NEW n \in Nodes, start(n) PROVE BarrierInv'
  <2>1. StaysUp
    BY <1>1 DEF start, goto, Shape, StaysUp, Up, Pcs
  <2> QED
    BY <1>1, <1>a, <1>c, <2>1 DEF start
<1>2. ASSUME NEW n \in Nodes, sighandler(n) PROVE BarrierInv'
  BY <1>2, <1>a, <1>b, Stopped DEF sighandler, mainVars
<1>3. ASSUME NEW n \in Nodes, chan_create_rx(n) PROVE BarrierInv'
  <2>1. StaysUp
    BY <1>3, MovesOn DEF chan_create_rx, Pcs
  <2> QED
    BY <1>3, <1>a, <1>c, <2>1 DEF chan_create_rx, rxVars
<1>4. ASSUME NEW n \in Nodes, tx_wait(n) PROVE BarrierInv'
  <2>1. PICK pc \in Pcs \ {"down", "rx"} : goto(n, pc) \/ step(n, pc)
    BY <1>4 DEF tx_wait, Pcs
  <2>2. StaysUp
    BY <2>1, MovesOn
  <2> QED
    BY <1>4, <1>a, <1>c, <2>2 DEF tx_wait, rxVars
<1>5. ASSUME NEW n \in Nodes, barrier(n) PROVE BarrierInv'
  <2>0. Up(n) /\ UNCHANGED remote_ready
    BY <1>5 DEF barrier, Up, rxVars
  <2>1. CASE idx[n] < N
    <3>1. chan_send_now(n, idx[n], "READY") /\ UNCHANGED <<main, passed>>
      BY <1>5, <2>1 DEF barrier
    <3> QED
      BY <1>a, <1>b, <2>0, <3>1, Sent DEF Frames
  <2>2. CASE ~(idx[n] < N)
    <3>1. PICK pc \in Pcs \ {"down", "rx"} : goto(n, pc)
      BY <1>5, <2>2 DEF barrier, Pcs
    <3>2. StaysUp
      BY <3>1, MovesOn
    <3>3. UNCHANGED pipe /\ passed' = IF all_ready(n) THEN passed \cup {n} ELSE passed
      BY <1>5, <2>2 DEF barrier
    <3>4. all_ready(n) => \A m \in Nodes : Up(m)
      BY DEF all_ready, Noted
    <3>5. AllAreUp'
      BY <3>2, <3>3, <3>4 DEF AllAreUp, StaysUp
    <3> QED
      BY <1>c, <2>0, <3>2, <3>3, <3>5 DEF Shape, Noted, StaysUp
  <2> QED
    BY <2>1, <2>2
<1>6. ASSUME NEW n \in Nodes, data_loop(n) PROVE BarrierInv'
  <2>1. StaysUp
    BY <1>6, MovesOn DEF data_loop, Pcs
  <2> QED
    BY <1>6, <1>a, <1>c, <2>1 DEF data_loop, rxVars
<1>7. ASSUME NEW n \in Nodes, send_data(n) PROVE BarrierInv'
  <2>1. StaysUp
    BY <1>7, MovesOn DEF send_data, Pcs
  <2> QED
    BY <1>7, <1>a, <2>1, Sent DEF send_data, rxVars, Frames
<1>8. ASSUME NEW n \in Nodes, send_stop(n) PROVE BarrierInv'
  <2>1. StaysUp
    BY <1>8, MovesOn DEF send_stop, Pcs
  <2> QED
    BY <1>8, <1>a, <2>1, Sent DEF send_stop, rxVars, Frames
<1>9. ASSUME NEW n \in Nodes, nh_destroy(n) PROVE BarrierInv'
  <2>1. StaysUp
    BY <1>9, MovesOn DEF nh_destroy, Pcs
  <2> QED
    BY <1>9, <1>a, <2>1, Stopped DEF nh_destroy
<1>10. ASSUME NEW n \in Nodes, NEW m \in Nodes, drain_ready(n, m) PROVE BarrierInv'
  BY <1>10, <1>a, <1>b, <1>c DEF drain_ready, mainVars
<1>11. ASSUME NEW n \in Nodes, NEW m \in Nodes, drain_read(n, m) PROVE BarrierInv'
  <2>0. UNCHANGED <<main, passed>> /\ StaysUp
    BY <1>11, <1>b DEF drain_read, mainVars
  <2>1. CASE Head(pipe[n][m]) = "STOP"
    BY <1>11, <1>a, <2>0, <2>1, Stopped DEF drain_read
  <2>2. CASE Head(pipe[n][m]) # "STOP"
    <3>1. /\ pipe[n][m] \in Seq(Frames) /\ pipe[n][m] # <<>>
          /\ pipe' = [pipe EXCEPT ![n][m] = Tail(pipe[n][m])]
          /\ remote_ready' = IF Head(pipe[n][m]) = "READY"
                               THEN [remote_ready EXCEPT ![n] = @ \cup {m}]
                               ELSE remote_ready
      BY <1>11, <2>2 DEF drain_read, Shape
    <3> DEFINE old == pipe[n][m]
    <3>2. /\ Tail(old) \in Seq(Frames) /\ Len(Tail(old)) = Len(old) - 1
          /\ \A i \in 1 .. Len(Tail(old)) : Tail(old)[i] = old[i + 1]
          /\ Len(old) \in Nat /\ Len(old) >= 1 /\ Head(old) = old[1]
      BY <3>1
    <3>3. pipe' \in [Nodes -> [Nodes -> Seq(Frames)]]
      BY <3>1, <3>2 DEF Shape
    <3>4. remote_ready' \in [Nodes -> SUBSET Nodes]
      BY <3>1 DEF Shape
    <3>5. Noted'
      <4>1. Head(old) = "READY" => Up(m)
        BY <3>2 DEF Underway
      <4> QED
        BY <2>0, <3>1, <4>1 DEF Noted, StaysUp, Shape
    <3>6. ASSUME NEW a \in Nodes, NEW b \in Nodes, NEW i \in 1 .. Len(pipe'[a][b]),
                 pipe'[a][b][i] = "READY"
          PROVE  Up(b)'
      <4>1. CASE a = n /\ b = m
        <5>1. pipe'[a][b] = Tail(old)
          BY <3>1, <4>1 DEF Shape
        <5>2. i + 1 \in 1 .. Len(old) /\ old[i + 1] = "READY"
          <6> HIDE DEF old
          <6> QED BY <3>2, <3>6, <5>1
        <5> QED
          BY <2>0, <4>1, <5>2 DEF Underway, StaysUp
      <4>2. CASE ~(a = n /\ b = m)
        <5>1. pipe'[a][b] = pipe[a][b]
          BY <3>1, <4>2 DEF Shape
        <5> QED
          BY <2>0, <3>6, <5>1 DEF Underway, StaysUp
      <4> QED
        BY <4>1, <4>2
    <3> QED
      BY <2>0, <3>3, <3>4, <3>5, <3>6 DEF Shape, Underway, AllAreUp, StaysUp
  <2> QED
    BY <2>1, <2>2
<1>12. ASSUME NEW n \in Nodes, NEW m \in Nodes, drain_fails(n, m) PROVE BarrierInv'
  BY <1>12, <1>a, <1>b, Stopped DEF drain_fails, mainVars
<1>13. ASSUME NEW n \in Nodes, NEW m \in Nodes, srp_up(n, m) \/ srp_down(n, m)
       PROVE  BarrierInv'
  BY <1>13, <1>a, <1>b, <1>c DEF srp_up, srp_down, mainVars, rxVars
<1>14. CASE UNCHANGED vars
  BY <1>14, <1>a, <1>b, <1>c DEF vars, mainVars, rxVars
<1> QED
  BY <1>1, <1>2, <1>3, <1>4, <1>5, <1>6, <1>7, <1>8, <1>9, <1>10, <1>11, <1>12, <1>13, <1>14
     DEF Next, Main, Drain

\* How far a process has come with its Rx channels: none while it is down, those before
\* the one in hand while it creates them, all from then on, none when it is done.
CreatedInv ==
  /\ main \in [Nodes -> Pcs] /\ idx \in [Nodes -> Nat] /\ rx \in [Nodes -> SUBSET Nodes]
  /\ \A m \in Nodes :
       /\ main[m] = "down" => rx[m] = {}
       /\ main[m] = "rx" => idx[m] < N /\ rx[m] = 0 .. idx[m] - 1
       /\ Up(m) => rx[m] = Nodes \/ main[m] = "done"

\* The loop over the Rx channels leaves none out, and only nh_destroy() takes them away.
LEMMA CreatedStep == CreatedInv /\ [Next]_vars => CreatedInv'
<1> SUFFICES ASSUME CreatedInv, [Next]_vars PROVE CreatedInv'
  OBVIOUS
<1> USE DEF CreatedInv
<1>0. N \in Nat \ {0} /\ \A n \in Nodes : idx[n] \in Nat /\ main[n] \in Pcs /\ rx[n] \subseteq Nodes
  BY ManyChanAssumption
<1>a. \* a step of a process that is up, and does not end
      ASSUME NEW n \in Nodes, Up(n), main[n] # "done", UNCHANGED rx,
             NEW pc \in Pcs \ {"down", "rx"}, NEW i \in Nat,
             main' = [main EXCEPT ![n] = pc], idx' = [idx EXCEPT ![n] = i]
      PROVE  CreatedInv'
  <2>1. rx[n] = Nodes
    BY <1>a
  <2> QED BY <1>a, <2>1 DEF Up, Pcs
<1>b. ASSUME NEW n \in Nodes, Up(n), main[n] # "done", UNCHANGED rx,
             NEW pc \in Pcs \ {"down", "rx"}, goto(n, pc) \/ step(n, pc)
      PROVE  CreatedInv'
  <2>1. CASE goto(n, pc)
    BY <1>a, <1>b, <2>1 DEF goto
  <2>2. CASE step(n, pc) /\ ~goto(n, pc)
    <3>1. idx' = [idx EXCEPT ![n] = idx[n] + 1] /\ main' = main
      BY <2>2 DEF step
    <3>2. main' = [main EXCEPT ![n] = main[n]] /\ main[n] \in Pcs \ {"down", "rx"} /\ idx[n] + 1 \in Nat
      BY <1>0, <1>b, <3>1 DEF Up
    <3> QED BY <1>a, <1>b, <3>1, <3>2
  <2> QED BY <1>b, <2>1, <2>2
<1>c. ASSUME UNCHANGED <<main, idx, rx>> PROVE CreatedInv'
  BY <1>c DEF Up
<1>1. ASSUME NEW n \in Nodes, start(n) PROVE CreatedInv'
  <2>1. /\ main[n] = "down" /\ rx[n] = {} /\ rx' = rx
        /\ main' = [main EXCEPT ![n] = "rx"] /\ idx' = [idx EXCEPT ![n] = 0]
    BY <1>1 DEF start, goto
  <2>2. 0 .. 0 - 1 = {} /\ 0 < N
    BY <1>0
  <2> QED BY <2>1, <2>2 DEF Up, Pcs
<1>2. ASSUME NEW n \in Nodes, chan_create_rx(n) PROVE CreatedInv'
  <2>1. /\ main[n] = "rx" /\ idx[n] < N /\ rx[n] = 0 .. idx[n] - 1
        /\ rx' = [rx EXCEPT ![n] = rx[n] \cup {idx[n]}] /\ step(n, "wait")
    BY <1>2 DEF chan_create_rx
  <2>2. idx[n] \in Nodes /\ rx[n] \cup {idx[n]} = 0 .. idx[n]
    BY <1>0, <2>1 DEF Nodes
  <2>3. CASE idx[n] + 1 < N
    <3>1. main' = main /\ idx' = [idx EXCEPT ![n] = idx[n] + 1]
      BY <2>1, <2>3 DEF step
    <3>2. idx[n] + 1 \in Nat /\ 0 .. idx[n] = 0 .. (idx[n] + 1) - 1
      BY <1>0
    <3> QED BY <2>1, <2>2, <2>3, <3>1, <3>2 DEF Up
  <2>4. CASE ~(idx[n] + 1 < N)
    <3>1. main' = [main EXCEPT ![n] = "wait"] /\ idx' = [idx EXCEPT ![n] = 0]
      BY <2>1, <2>4 DEF step, goto
    <3>2. 0 .. idx[n] = Nodes
      <4>1. idx[n] = N - 1
        BY <1>0, <2>1, <2>4
      <4> QED BY <4>1 DEF Nodes
    <3> QED BY <2>1, <2>2, <3>1, <3>2 DEF Up, Pcs
  <2> QED BY <2>3, <2>4
<1>3. ASSUME NEW n \in Nodes, tx_wait(n) PROVE CreatedInv'
  <2>1. PICK pc \in Pcs \ {"down", "rx"} : goto(n, pc) \/ step(n, pc)
    BY <1>3 DEF tx_wait, Pcs
  <2> QED BY <1>3, <1>b, <2>1 DEF tx_wait, Up
<1>4. ASSUME NEW n \in Nodes, barrier(n) PROVE CreatedInv'
  <2>0. Up(n) /\ main[n] = "ready" /\ UNCHANGED rx
    BY <1>4 DEF barrier, Up
  <2>1. CASE idx[n] < N
    <3>1. idx' = [idx EXCEPT ![n] = idx[n] + 1] /\ main' = main
      BY <1>4, <2>1 DEF barrier
    <3>2. main' = [main EXCEPT ![n] = "ready"] /\ idx[n] + 1 \in Nat
      BY <1>0, <2>0, <3>1
    <3> QED BY <1>a, <2>0, <3>1, <3>2 DEF Pcs
  <2>2. CASE ~(idx[n] < N)
    <3>1. PICK pc \in Pcs \ {"down", "rx"} : goto(n, pc)
      BY <1>4, <2>2 DEF barrier, Pcs
    <3> QED BY <1>b, <2>0, <3>1
  <2> QED BY <2>1, <2>2
<1>5. ASSUME NEW n \in Nodes, data_loop(n) \/ send_data(n) \/ send_stop(n) PROVE CreatedInv'
  <2>1. /\ Up(n) /\ main[n] # "done" /\ UNCHANGED rx
        /\ \E pc \in Pcs \ {"down", "rx"} : goto(n, pc) \/ step(n, pc)
    BY <1>5 DEF data_loop, send_data, send_stop, Up, Pcs
  <2> QED BY <1>b, <2>1
<1>6. ASSUME NEW n \in Nodes, nh_destroy(n) PROVE CreatedInv'
  <2>1. /\ main' = [main EXCEPT ![n] = "done"] /\ idx' = [idx EXCEPT ![n] = 0]
        /\ rx' = [rx EXCEPT ![n] = {}]
    BY <1>6 DEF nh_destroy, goto
  <2> QED BY <2>1 DEF Up, Pcs
<1>7. ASSUME NEW n \in Nodes, NEW m \in Nodes,
             sighandler(n) \/ Drain(n, m) \/ srp_up(n, m) \/ srp_down(n, m)
      PROVE  CreatedInv'
  BY <1>7, <1>c DEF sighandler, Drain, drain_ready, drain_read, drain_fails, srp_up, srp_down, mainVars
<1>8. CASE UNCHANGED vars
  BY <1>8, <1>c DEF vars, mainVars
<1> QED
  BY <1>1, <1>2, <1>3, <1>4, <1>5, <1>6, <1>7, <1>8 DEF Next, Main

\* "Signal ready, wait for all in ensemble to signal same" (manychan.c:303): whatever
\* the size of the ensemble, the order of starts, and with or without SRP, no node
\* leaves main()'s barrier on all_ready() before every node has created an Rx
\* channel from every node.
THEOREM BarrierHolds == Spec => []NobodyStartsAlone
<1>1. Init => BarrierInv
  <2> SUFFICES ASSUME Init PROVE BarrierInv
    OBVIOUS
  <2>1. pipe \in [Nodes -> [Nodes -> Seq(Frames)]] /\ \A n, m \in Nodes : Len(pipe[n][m]) = 0
    BY DEF Init, NoFrames
  <2>2. Shape /\ Noted /\ AllAreUp
    BY <2>1 DEF Init, Shape, Noted, AllAreUp, Pcs
  <2> QED
    BY <2>1, <2>2 DEF BarrierInv, Underway
<1>2. Init => CreatedInv
  BY DEF Init, CreatedInv, Up, Pcs
<1>3. BarrierInv /\ CreatedInv => NobodyStartsAlone
  BY DEF BarrierInv, AllAreUp, CreatedInv, NobodyStartsAlone
<1> QED
  BY <1>1, <1>2, <1>3, BarrierStep, CreatedStep, PTL DEF Spec
=============================================================================

------------------------------ MODULE ManyChan ------------------------------
(***************************************************************************)
(* An ensemble of examples/manychan.c processes.  Every process has a Tx   *)
(* channel to, and an Rx channel from, every process (itself included), a  *)
(* thread (rx_drain) for each Rx channel and a main thread.  The processes *)
(* start at any time, synchronise by sending ENTITY_READY_MAGIC until they *)
(* have had it from all, send data, and close each other down with -1.     *)
(*                                                                         *)
(* A channel is the lossless FIFO of module FifoChannel once its Rx end    *)
(* has been created; a frame for an Rx channel that does not exist (yet,   *)
(* or any more) is dropped by the Rx thread of the receiver.  With SRP the *)
(* ends become ready as module SrpSession shows, eventually and in any     *)
(* order; without it they are born ready.                                  *)
(***************************************************************************)
EXTENDS Integers, Sequences

CONSTANTS
  N,             \* ensemble_size
  DoSrp,         \* the values of do_srp to start with
  MaxIterations, \* bound: iterations, when they are not without end
  PipeBound      \* bound: frames in a pipe; the reader keeps up with the period

ASSUME ManyChanAssumption ==
  /\ N \in Nat \ {0}
  /\ DoSrp \subseteq BOOLEAN
  /\ MaxIterations \in Nat
  /\ PipeBound \in Nat \ {0}

Nodes == 0 .. N - 1

VARIABLES
  do_srp,
  iterations,   \* node -> iterations left, -1 for no end
  main,         \* node -> main(): "down", "rx" (creating Rx channels), "wait"
                \* (for the Tx channels), "ready", "data", "send", "stop", "done"
  idx,          \* node -> the channel its loop in hand is at
  running,
  remote_ready, \* node -> the nodes that have signalled ready
  rx,           \* node -> the nodes it has an Rx channel from
  tx_ready,     \* node -> the nodes its Tx channel to which is ready
  rx_ready,     \* node -> the nodes its Rx channel from which is ready
  reads,        \* node -> the nodes whose rx_drain() has got to its read loop
  pipe,         \* node -> node -> the frames in its pipe from that node
  passed        \* nodes that left the barrier because all were ready

mainVars == <<do_srp, iterations, main, idx, passed>>
srpVars == <<tx_ready, rx_ready>>
rxVars == <<running, remote_ready, reads>>
vars == <<mainVars, srpVars, rxVars, rx, pipe>>

NoFrames == [m \in Nodes |-> <<>>]

\* All processes are started with the same settings.
Init ==
  /\ do_srp \in DoSrp
  /\ iterations \in {[n \in Nodes |-> i] : i \in {-1} \cup 1 .. MaxIterations}
  /\ main = [n \in Nodes |-> "down"]
  /\ idx = [n \in Nodes |-> 0]
  /\ running = [n \in Nodes |-> FALSE]
  /\ remote_ready = [n \in Nodes |-> {}]
  /\ rx = [n \in Nodes |-> {}]
  /\ tx_ready = [n \in Nodes |-> {}]
  /\ rx_ready = [n \in Nodes |-> {}]
  /\ reads = [n \in Nodes |-> {}]
  /\ pipe = [n \in Nodes |-> NoFrames]
  /\ passed = {}
-----------------------------------------------------------------------------
(* The main thread. *)

goto(n, pc) ==
  /\ main' = [main EXCEPT ![n] = pc]
  /\ idx' = [idx EXCEPT ![n] = 0]

\* The loop over the channels goes on, or is over and pc is next.
step(n, pc) ==
  IF idx[n] + 1 < N
    THEN idx' = [idx EXCEPT ![n] = @ + 1] /\ UNCHANGED main
    ELSE goto(n, pc)

\* The process starts: nh_create_init(), all Tx channels, running = true.
start(n) ==
  /\ main[n] = "down"
  /\ goto(n, "rx")
  /\ running' = [running EXCEPT ![n] = TRUE]
  /\ tx_ready' = [tx_ready EXCEPT ![n] = IF do_srp THEN {} ELSE Nodes]
  /\ UNCHANGED <<do_srp, iterations, passed, rx_ready, remote_ready, reads, rx, pipe>>

\* The next Rx channel and its thread.
chan_create_rx(n) ==
  /\ main[n] = "rx"
  /\ rx' = [rx EXCEPT ![n] = @ \cup {idx[n]}]
  /\ rx_ready' = [rx_ready EXCEPT ![n] = IF do_srp THEN @ ELSE @ \cup {idx[n]}]
  /\ step(n, "wait")
  /\ UNCHANGED <<do_srp, iterations, passed, tx_ready, rxVars, pipe>>

\* One chan_ready_timedwait() of a pass over the Tx channels: a pass in which one
\* is not ready starts again.
tx_wait(n) ==
  /\ main[n] = "wait"
  /\ IF idx[n] \in tx_ready[n]
       THEN step(n, IF running[n] THEN "ready" ELSE "data")
       ELSE goto(n, "wait")
  /\ UNCHANGED <<do_srp, iterations, passed, srpVars, rxVars, rx, pipe>>

\* chan_send_now(): refused by a channel that is not ready, taken by the Rx
\* channel of the receiver if it has one that is still read.
chan_send_now(n, m, frame) ==
  IF m \in tx_ready[n] /\ n \in rx[m] /\ running[m]
    THEN /\ Len(pipe[m][n]) < PipeBound
         /\ pipe' = [pipe EXCEPT ![m][n] = Append(@, frame)]
    ELSE UNCHANGED pipe

\* A mutant: one other process is enough.
AnyReady(n) == remote_ready[n] # {}

all_ready(n) == remote_ready[n] = Nodes

\* A ready signal; after a round of them, on to the data if all are ready or the
\* process is to stop.
barrier(n) ==
  /\ main[n] = "ready"
  /\ IF idx[n] < N
       THEN /\ chan_send_now(n, idx[n], "READY")
            /\ idx' = [idx EXCEPT ![n] = @ + 1]
            /\ UNCHANGED <<main, passed>>
       ELSE /\ goto(n, IF all_ready(n) \/ ~running[n] THEN "data" ELSE "ready")
            /\ passed' = IF all_ready(n) THEN passed \cup {n} ELSE passed
            /\ UNCHANGED pipe
  /\ UNCHANGED <<do_srp, iterations, srpVars, rxVars, rx>>

\* The head of the loop that sends data.
data_loop(n) ==
  /\ main[n] = "data"
  /\ IF iterations[n] # 0 /\ running[n]
       THEN /\ goto(n, "send")
            /\ iterations' = [iterations EXCEPT ![n] = IF @ < 0 THEN @ ELSE @ - 1]
       ELSE goto(n, "stop") /\ UNCHANGED iterations
  /\ UNCHANGED <<do_srp, passed, srpVars, rxVars, rx, pipe>>

send_data(n) ==
  /\ main[n] = "send"
  /\ chan_send_now(n, idx[n], "DATA")
  /\ step(n, "data")
  /\ UNCHANGED <<do_srp, iterations, passed, srpVars, rxVars, rx>>

\* A mutant: nobody is told.
NoStop(n) ==
  /\ main[n] = "stop"
  /\ step(n, "destroy")
  /\ UNCHANGED <<do_srp, iterations, passed, srpVars, rxVars, rx, pipe>>

\* -1 to everybody.
send_stop(n) ==
  /\ main[n] = "stop"
  /\ chan_send_now(n, idx[n], "STOP")
  /\ step(n, "destroy")
  /\ UNCHANGED <<do_srp, iterations, passed, srpVars, rxVars, rx>>

\* running = false.  The readers end; what a reader that is still in its last
\* chan_read() gets no longer matters.
stopped(n) ==
  /\ running' = [running EXCEPT ![n] = FALSE]
  /\ reads' = [reads EXCEPT ![n] = {}]
  /\ pipe' = [pipe EXCEPT ![n] = NoFrames]

\* nh_destroy(): the channels are gone.
nh_destroy(n) ==
  /\ main[n] = "destroy"
  /\ goto(n, "done")
  /\ stopped(n)
  /\ rx' = [rx EXCEPT ![n] = {}]
  /\ tx_ready' = [tx_ready EXCEPT ![n] = {}]
  /\ rx_ready' = [rx_ready EXCEPT ![n] = {}]
  /\ UNCHANGED <<do_srp, iterations, passed, remote_ready>>

\* sighandler() on SIGINT.
sighandler(n) ==
  /\ running[n]
  /\ stopped(n)
  /\ UNCHANGED <<mainVars, srpVars, remote_ready, rx>>

Main(n) ==
  \/ chan_create_rx(n) \/ tx_wait(n) \/ barrier(n)
  \/ data_loop(n) \/ send_data(n) \/ send_stop(n) \/ nh_destroy(n)
-----------------------------------------------------------------------------
(* rx_drain(), the thread of the Rx channel of n from m. *)

\* The channel is ready.
drain_ready(n, m) ==
  /\ running[n] /\ m \in (rx[n] \cap rx_ready[n]) \ reads[n]
  /\ reads' = [reads EXCEPT ![n] = @ \cup {m}]
  /\ UNCHANGED <<mainVars, srpVars, running, remote_ready, rx, pipe>>

\* A mutant: the signal is put down to the receiver.
OwnSignal(n, m) ==
  /\ m \in reads[n] /\ pipe[n][m] # <<>>
  /\ IF Head(pipe[n][m]) = "STOP"
       THEN stopped(n) /\ UNCHANGED remote_ready
       ELSE /\ pipe' = [pipe EXCEPT ![n][m] = Tail(@)]
            /\ remote_ready' = IF Head(pipe[n][m]) = "READY"
                                 THEN [remote_ready EXCEPT ![n] = @ \cup {n}]
                                 ELSE remote_ready
            /\ UNCHANGED <<running, reads>>
  /\ UNCHANGED <<mainVars, srpVars, rx>>

\* chan_read() returns a frame ...
drain_read(n, m) ==
  /\ m \in reads[n] /\ pipe[n][m] # <<>>
  /\ IF Head(pipe[n][m]) = "STOP"
       THEN stopped(n) /\ UNCHANGED remote_ready
       ELSE /\ pipe' = [pipe EXCEPT ![n][m] = Tail(@)]
            /\ remote_ready' = IF Head(pipe[n][m]) = "READY"
                                 THEN [remote_ready EXCEPT ![n] = @ \cup {m}]
                                 ELSE remote_ready
            /\ UNCHANGED <<running, reads>>
  /\ UNCHANGED <<mainVars, srpVars, rx>>

\* ... or fails because SRP has reported the talker gone.
drain_fails(n, m) ==
  /\ m \in reads[n] \ rx_ready[n]
  /\ stopped(n)
  /\ UNCHANGED <<mainVars, srpVars, remote_ready, rx>>

Drain(n, m) == drain_ready(n, m) \/ drain_read(n, m) \/ drain_fails(n, m)
-----------------------------------------------------------------------------
(* Stream reservation: module SrpSession, seen from the channels. *)

Alive(n) == main[n] \notin {"down", "done"}

\* The monitor of a talker n hears of the listener m, or the other way round.
srp_up(n, m) ==
  /\ do_srp /\ Alive(n) /\ Alive(m)
  /\ \/ /\ n \in rx[m] /\ m \notin tx_ready[n]
        /\ tx_ready' = [tx_ready EXCEPT ![n] = @ \cup {m}] /\ UNCHANGED rx_ready
     \/ /\ m \in rx[n] /\ m \notin rx_ready[n]
        /\ rx_ready' = [rx_ready EXCEPT ![n] = @ \cup {m}] /\ UNCHANGED tx_ready
  /\ UNCHANGED <<mainVars, rxVars, rx, pipe>>

\* ... or hears that it has gone: nh_destroy() of the other end stopped its
\* channels.
srp_down(n, m) ==
  /\ do_srp /\ main[m] = "done"
  /\ m \in tx_ready[n] \cup rx_ready[n]
  /\ tx_ready' = [tx_ready EXCEPT ![n] = @ \ {m}]
  /\ rx_ready' = [rx_ready EXCEPT ![n] = @ \ {m}]
  /\ UNCHANGED <<mainVars, rxVars, rx, pipe>>
-----------------------------------------------------------------------------
Next ==
  \E n \in Nodes :
    \/ start(n) \/ sighandler(n) \/ Main(n)
    \/ \E m \in Nodes : Drain(n, m) \/ srp_up(n, m) \/ srp_down(n, m)

Spec == Init /\ [][Next]_vars

\* Main threads and readers run (the periodic timer fires, chan_read() returns
\* when a frame is there); SRP settles.  Nobody needs to start a process or to
\* interrupt one.
FairSpec ==
  /\ Spec
  /\ \A n \in Nodes : WF_vars(Main(n))
  /\ \A n, m \in Nodes : WF_vars(Drain(n, m)) /\ WF_vars(srp_up(n, m))
-----------------------------------------------------------------------------
Pcs == {"down", "rx", "wait", "ready", "data", "send", "stop", "destroy", "done"}

\* The state is what the declarations say.
TypeOK ==
  /\ do_srp \in BOOLEAN
  /\ iterations \in [Nodes -> Nat \cup {-1}]
  /\ main \in [Nodes -> Pcs] /\ idx \in [Nodes -> 0 .. N]
  /\ running \in [Nodes -> BOOLEAN]
  /\ remote_ready \in [Nodes -> SUBSET Nodes]
  /\ rx \in [Nodes -> SUBSET Nodes] /\ reads \in [Nodes -> SUBSET Nodes]
  /\ tx_ready \in [Nodes -> SUBSET Nodes] /\ rx_ready \in [Nodes -> SUBSET Nodes]
  /\ pipe \in [Nodes -> [Nodes -> Seq({"READY", "DATA", "STOP"})]]
  /\ passed \subseteq Nodes

\* A node that has created all its channels.
Up(n) == main[n] \notin {"down", "rx"}

\* "Signal ready, wait for all in ensemble to signal same" (manychan.c:303): the
\* capture of a node that got through the barrier starts when every node has an Rx
\* channel from every node, or has had them and is done, so that no data is sent to
\* a node that is not there yet.
NobodyStartsAlone == passed # {} => \A m \in Nodes : rx[m] = Nodes \/ main[m] = "done"

\* The barrier opens.  With SRP, where nobody signals before the other end of
\* its channels is known to exist, every node gets through once all are up;
\* without, some node does.  (Unless a process is stopped meanwhile.)
BarrierOpens ==
  (\A n \in Nodes : Up(n)) ~>
    \/ \E n \in Nodes : ~running[n]
    \/ IF do_srp THEN passed = Nodes ELSE passed # {}

\* A process that got through the barrier and stops, whether it is interrupted
\* or done, stops the whole ensemble.
StopSpreads ==
  \A n \in Nodes :
    (n \in passed /\ ~running[n]) ~> (\A m \in Nodes : main[m] = "done")
=============================================================================

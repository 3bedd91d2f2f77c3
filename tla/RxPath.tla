------------------------------- MODULE RxPath -------------------------------
(***************************************************************************)
(* The receive path of a nethandler: the Rx thread (nh_runner) takes       *)
(* frames from the socket and writes them, through the channel's callback  *)
(* area cbp->meta, to the channel's pipe; one reader per channel takes     *)
(* them out; the application's main thread stops channels and destroys the *)
(* nethandler; the SRP monitor sets and clears ready.                      *)
(*                                                                         *)
(* Bytes are modelled by units.  A record (struct pipe_meta and payload)   *)
(* is HdrSz units of timestamps and PaySz units of payload; unit k of      *)
(* frame n is <<n, k>>, so a torn or repeated record shows.  chan_stop()   *)
(* writes PaySz zero units, less than a record, to release a reader.       *)
(***************************************************************************)
EXTENDS Integers, Sequences, FiniteSetsExt

CONSTANTS
  Chans,        \* receive channels, registered with the hash map once created
  HdrSz, PaySz, \* units of timestamps and of payload in a record
  PipeCap,      \* units a pipe holds
  Uses          \* the ways to use the receive path, records
                \* chans: the channels created; frames: bound, frames received
                \* per channel; mode: "chan_read" for chan_read(), "fd" for read()
                \* on nc_rx_create()'s fd; srp: nh->use_srp; calls: which of
                \* chan_stop and nh_destroy the application calls

RecSz == HdrSz + PaySz

ASSUME RxPathAssumption ==
  /\ HdrSz \in Nat \ {0}
  /\ PaySz \in Nat \ {0}
  /\ PipeCap \in Nat /\ PipeCap >= RecSz
  /\ \A u \in Uses :
       /\ u.chans \subseteq Chans /\ u.chans # {}
       /\ u.frames \in Nat
       /\ u.mode \in {"chan_read", "fd"}
       /\ u.srp \in BOOLEAN
       /\ u.calls \subseteq {"chan_stop", "nh_destroy"}

VARIABLES
  use,        \* how the receive path is used, one of Uses
  nrecv,      \* channel -> frames received for it so far
  meta,       \* channel -> cbp->meta, a record
  pipe,       \* channel -> units in its pipe
  rx_pc,      \* Rx thread: "recv", "stamp", "copy", "write", "exited"
  rx_chan,    \* Rx thread: the channel of the frame in hand
  rx_running, \* Rx thread: its copy of nh->running
  rd_pc,      \* channel -> its reader: "idle", "blocked" in read(), "got"
  delivered,  \* channel -> what its reader was given, a sequence of records
  ready, stopping, running,
  renewed,    \* channels that a talker notice made ready after they were stopped
  main_pc,    \* main thread: "run", "dummy", "join", "destroy", "free", "done"
  main_chan,  \* main thread: the channel it is stopping
  freed       \* channels freed by nh_destroy()

rxVars == <<nrecv, rx_pc, rx_chan, rx_running>>
rdVars == <<rd_pc, delivered>>
srpVars == <<ready, renewed>>
mainVars == <<use, stopping, running, main_pc, main_chan, freed>>
vars == <<rxVars, meta, pipe, rdVars, srpVars, mainVars>>

Zero == <<0, 0>>
Record(n) == [k \in 1 .. RecSz |-> <<n, k>>]
Dummy == [k \in 1 .. PaySz |-> Zero]

\* Every channel has been created and, unless SRP decides, is ready.
Init ==
  /\ use \in Uses
  /\ nrecv = [c \in Chans |-> 0]
  /\ meta = [c \in Chans |-> [k \in 1 .. RecSz |-> Zero]]
  /\ pipe = [c \in Chans |-> <<>>]
  /\ rx_pc = "recv" /\ rx_chan \in use.chans /\ rx_running = TRUE
  /\ rd_pc = [c \in Chans |-> "idle"]
  /\ delivered = [c \in Chans |-> <<>>]
  /\ ready = [c \in Chans |-> c \in use.chans /\ ~use.srp] /\ renewed = {}
  /\ stopping = [c \in Chans |-> FALSE]
  /\ running = TRUE
  /\ main_pc = "run" /\ main_chan = rx_chan
  /\ freed = {}
-----------------------------------------------------------------------------
(* The Rx thread. *)

\* recvmsg() returns a frame of a known stream, and running is sampled.
nh_runner_frame(c) ==
  /\ rx_pc = "recv"
  /\ nrecv[c] < use.frames
  /\ nrecv' = [nrecv EXCEPT ![c] = @ + 1]
  /\ rx_chan' = c
  /\ rx_running' = running
  /\ rx_pc' = "stamp"
  /\ UNCHANGED <<meta, pipe, rdVars, srpVars, mainVars>>

\* recvmsg() times out or returns a frame that no channel wants.
nh_runner_nothing ==
  /\ rx_pc = "recv"
  /\ rx_running' = running
  /\ rx_pc' = IF running THEN "recv" ELSE "exited"
  /\ UNCHANGED <<nrecv, rx_chan, meta, pipe, rdVars, srpVars, mainVars>>

\* nh_feed_pdu_ts() stores the timestamps in the callback area.
nh_feed_pdu_ts ==
  /\ rx_pc = "stamp"
  /\ meta' = [meta EXCEPT ![rx_chan] =
                [k \in 1 .. RecSz |->
                  IF k <= HdrSz THEN <<nrecv[rx_chan], k>> ELSE @[k]]]
  /\ rx_pc' = "copy"
  /\ UNCHANGED <<nrecv, rx_chan, rx_running, pipe, rdVars, srpVars, mainVars>>

\* nh_std_cb() copies the payload there ...
nh_std_cb_copy ==
  /\ rx_pc = "copy"
  /\ meta' = [meta EXCEPT ![rx_chan] =
                [k \in 1 .. RecSz |->
                  IF k > HdrSz THEN <<nrecv[rx_chan], k>> ELSE @[k]]]
  /\ rx_pc' = "write"
  /\ UNCHANGED <<nrecv, rx_chan, rx_running, pipe, rdVars, srpVars, mainVars>>

\* Mutants of the write: room is not waited for; a record is dropped when the
\* pipe is full; the timestamps are left out.
OverfullWrite ==
  /\ rx_pc = "write"
  /\ pipe' = [pipe EXCEPT ![rx_chan] = @ \o meta[rx_chan]]
  /\ rx_pc' = IF rx_running THEN "recv" ELSE "exited"
  /\ UNCHANGED <<nrecv, rx_chan, rx_running, meta, rdVars, srpVars, mainVars>>

DroppingWrite ==
  /\ rx_pc = "write"
  /\ pipe' = IF Len(pipe[rx_chan]) + RecSz <= PipeCap
               THEN [pipe EXCEPT ![rx_chan] = @ \o meta[rx_chan]] ELSE pipe
  /\ rx_pc' = IF rx_running THEN "recv" ELSE "exited"
  /\ UNCHANGED <<nrecv, rx_chan, rx_running, meta, rdVars, srpVars, mainVars>>

PayloadWrite ==
  /\ rx_pc = "write"
  /\ Len(pipe[rx_chan]) + RecSz <= PipeCap
  /\ pipe' = [pipe EXCEPT ![rx_chan] = @ \o SubSeq(meta[rx_chan], HdrSz + 1, RecSz)]
  /\ rx_pc' = IF rx_running THEN "recv" ELSE "exited"
  /\ UNCHANGED <<nrecv, rx_chan, rx_running, meta, rdVars, srpVars, mainVars>>

\* ... and writes the area to the pipe.  The write blocks until the pipe has
\* room for all of it (it is smaller than PIPE_BUF, hence atomic).
nh_std_cb_write ==
  /\ rx_pc = "write"
  /\ Len(pipe[rx_chan]) + RecSz <= PipeCap
  /\ pipe' = [pipe EXCEPT ![rx_chan] = @ \o meta[rx_chan]]
  /\ rx_pc' = IF rx_running THEN "recv" ELSE "exited"
  /\ UNCHANGED <<nrecv, rx_chan, rx_running, meta, rdVars, srpVars, mainVars>>

RxThread ==
  \/ \E c \in use.chans : nh_runner_frame(c)
  \/ nh_runner_nothing
  \/ nh_feed_pdu_ts
  \/ nh_std_cb_copy
  \/ nh_std_cb_write
-----------------------------------------------------------------------------
(* The readers. *)

\* chan_valid() for a receive channel that has been created.  rx_sock is set
\* to -1 once nh_destroy() has joined the Rx thread.
chan_valid(c) == ready[c] /\ (running \/ main_pc = "join")

\* A reader calls chan_read() and passes its first test, or read() on the fd.
\* A call that fails the test returns -EINVAL and changes nothing.
chan_read_call(c) ==
  /\ rd_pc[c] = "idle"
  /\ c \notin freed
  /\ use.mode = "chan_read" => chan_valid(c) /\ ~stopping[c]
  /\ rd_pc' = [rd_pc EXCEPT ![c] = "blocked"]
  /\ UNCHANGED <<rxVars, meta, pipe, delivered, srpVars, mainVars>>

\* read() returns what is there, at most a record; nothing is there and no
\* writer is left: end of file.  chan_read() reads into cbp->meta, a reader of
\* the bare fd into memory of its own.
read_pipe(c) ==
  LET m == IF Len(pipe[c]) < RecSz THEN Len(pipe[c]) ELSE RecSz
      units == SubSeq(pipe[c], 1, m)
  IN  /\ rd_pc[c] = "blocked"
      /\ pipe[c] # <<>> \/ c \in freed
      /\ pipe' = [pipe EXCEPT ![c] = SubSeq(@, m + 1, Len(@))]
      /\ IF use.mode = "chan_read"
           THEN /\ meta' = [meta EXCEPT ![c] =
                              [k \in 1 .. RecSz |-> IF k <= m THEN units[k] ELSE @[k]]]
                /\ rd_pc' = [rd_pc EXCEPT ![c] = "got"]
                /\ UNCHANGED delivered
           ELSE /\ delivered' = [delivered EXCEPT ![c] = Append(@, units)]
                /\ rd_pc' = [rd_pc EXCEPT ![c] = "idle"]
                /\ UNCHANGED meta
      /\ UNCHANGED <<rxVars, srpVars, mainVars>>

\* A mutant: the channel is not looked at again after the blocking read.
UncheckedReturn(c) ==
  /\ rd_pc[c] = "got"
  /\ rd_pc' = [rd_pc EXCEPT ![c] = "idle"]
  /\ delivered' = [delivered EXCEPT ![c] = Append(@, meta[c])]
  /\ UNCHANGED <<rxVars, meta, pipe, srpVars, mainVars>>

\* chan_read() looks at the channel again.  It drops what it read when the
\* channel is no longer valid, else returns what cbp->meta holds by now.  A
\* channel that has been freed meanwhile may look either way.
chan_read_return(c) ==
  /\ rd_pc[c] = "got"
  /\ rd_pc' = [rd_pc EXCEPT ![c] = "idle"]
  /\ \/ /\ chan_valid(c) \/ c \in freed
        /\ delivered' = [delivered EXCEPT ![c] = Append(@, meta[c])]
     \/ /\ ~chan_valid(c) \/ c \in freed
        /\ UNCHANGED delivered
  /\ UNCHANGED <<rxVars, meta, pipe, srpVars, mainVars>>

Reader(c) == chan_read_call(c) \/ read_pipe(c) \/ chan_read_return(c)
-----------------------------------------------------------------------------
(* The SRP monitor: nh_notify_listener_Tnew() and _Tleave(). *)

nh_notify_listener_Tnew(c) ==
  /\ use.srp /\ c \notin freed
  /\ ready' = [ready EXCEPT ![c] = TRUE]
  /\ renewed' = IF stopping[c] THEN renewed \cup {c} ELSE renewed
  /\ UNCHANGED <<rxVars, meta, pipe, rdVars, mainVars>>

nh_notify_listener_Tleave(c) ==
  /\ use.srp /\ c \notin freed
  /\ ready' = [ready EXCEPT ![c] = FALSE]
  /\ UNCHANGED renewed
  /\ UNCHANGED <<rxVars, meta, pipe, rdVars, mainVars>>

Monitor == \E c \in use.chans : nh_notify_listener_Tnew(c) \/ nh_notify_listener_Tleave(c)
-----------------------------------------------------------------------------
(* The main thread. *)

\* chan_stop() up to the write; a second call only clears ready.  The caller
\* continues at "after" when there is nothing to write.
chan_stop(c, after) ==
  /\ ready' = [ready EXCEPT ![c] = FALSE]
  /\ stopping' = [stopping EXCEPT ![c] = TRUE]
  /\ main_chan' = c
  /\ main_pc' = IF stopping[c] THEN after ELSE "dummy"
  /\ UNCHANGED <<use, renewed>>

app_chan_stop(c) ==
  /\ main_pc = "run"
  /\ "chan_stop" \in use.calls
  /\ chan_stop(c, "run")
  /\ UNCHANGED <<rxVars, meta, pipe, rdVars, running, freed>>

\* A mutant: chan_stop() only sets the flags.
NoDummyWrite ==
  /\ main_pc = "dummy"
  /\ main_pc' = IF running THEN "run" ELSE "free"
  /\ UNCHANGED <<rxVars, meta, pipe, rdVars, srpVars, use, stopping, running, main_chan, freed>>

\* A mutant: a whole record is written.
RecordWrite ==
  /\ main_pc = "dummy"
  /\ Len(pipe[main_chan]) + RecSz <= PipeCap
  /\ pipe' = [pipe EXCEPT ![main_chan] = @ \o Dummy]
  /\ main_pc' = IF running THEN "run" ELSE "free"
  /\ UNCHANGED <<rxVars, meta, rdVars, srpVars, use, stopping, running, main_chan, freed>>

\* The write of the dummy bytes, which blocks while the pipe is full.
chan_stop_write ==
  /\ main_pc = "dummy"
  /\ Len(pipe[main_chan]) + PaySz <= PipeCap
  /\ pipe' = [pipe EXCEPT ![main_chan] = @ \o Dummy]
  /\ main_pc' = IF running THEN "run" ELSE "free"
  /\ UNCHANGED <<rxVars, meta, rdVars, srpVars, use, stopping, running, main_chan, freed>>

\* nh_destroy(): _nh_stop_rx() clears running and joins the Rx thread, then
\* every channel is stopped, its pipe closed, its memory freed.
nh_destroy ==
  /\ main_pc = "run"
  /\ "nh_destroy" \in use.calls
  /\ running' = FALSE
  /\ main_pc' = "join"
  /\ UNCHANGED <<rxVars, meta, pipe, rdVars, srpVars, use, stopping, main_chan, freed>>

\* A mutant: the Rx thread is told to stop but not joined.
NoJoin ==
  /\ main_pc = "join"
  /\ main_pc' = "destroy"
  /\ UNCHANGED <<rxVars, meta, pipe, rdVars, srpVars, use, stopping, running, main_chan, freed>>

nh_stop_rx_join ==
  /\ main_pc = "join"
  /\ rx_pc = "exited"
  /\ main_pc' = "destroy"
  /\ UNCHANGED <<rxVars, meta, pipe, rdVars, srpVars, use, stopping, running, main_chan, freed>>

nh_destroy_chan(c) ==
  /\ main_pc = "destroy"
  /\ c \notin freed
  /\ chan_stop(c, "free")
  /\ UNCHANGED <<rxVars, meta, pipe, rdVars, running, freed>>

chan_free ==
  /\ main_pc = "free"
  /\ freed' = freed \cup {main_chan}
  /\ main_pc' = IF freed' = use.chans THEN "done" ELSE "destroy"
  /\ UNCHANGED <<rxVars, meta, pipe, rdVars, srpVars, use, stopping, running, main_chan>>

\* The steps the main thread takes once it has entered a call.
MainInCall ==
  \/ chan_stop_write
  \/ nh_stop_rx_join
  \/ \E c \in use.chans : nh_destroy_chan(c)
  \/ chan_free

Main == MainInCall \/ nh_destroy \/ \E c \in use.chans : app_chan_stop(c)

Next ==
  \/ RxThread
  \/ \E c \in use.chans : Reader(c)
  \/ Monitor
  \/ Main

Spec == Init /\ [][Next]_vars

\* Every thread that can take a step of a call it is in takes it eventually:
\* the scheduler runs them all and recvmsg() has a timeout.  A program that
\* reads the bare fd calls read() again and again; nothing says that frames
\* arrive, that the application makes a call or that it calls chan_read().
FairSpec ==
  /\ Spec
  /\ WF_vars(nh_runner_nothing \/ nh_feed_pdu_ts \/ nh_std_cb_copy \/ nh_std_cb_write)
  /\ \A c \in Chans : WF_vars(read_pipe(c) \/ chan_read_return(c))
  /\ WF_vars(MainInCall)
  /\ \A c \in Chans : WF_vars(use.mode = "fd" /\ chan_read_call(c))

-----------------------------------------------------------------------------
Unit == {Zero} \cup (1 .. use.frames) \X (1 .. RecSz)

\* Records and pipes hold units; the pipes never exceed their capacity.
TypeOK ==
  /\ use \in Uses
  /\ nrecv \in [Chans -> 0 .. use.frames]
  /\ meta \in [Chans -> [1 .. RecSz -> Unit]]
  /\ pipe \in [Chans -> Seq(Unit)] /\ \A c \in Chans : Len(pipe[c]) <= PipeCap
  /\ rx_pc \in {"recv", "stamp", "copy", "write", "exited"}
  /\ rx_chan \in Chans /\ rx_running \in BOOLEAN
  /\ rd_pc \in [Chans -> {"idle", "blocked", "got"}]
  /\ delivered \in [Chans -> Seq(Seq(Unit))]
  /\ ready \in [Chans -> BOOLEAN] /\ stopping \in [Chans -> BOOLEAN]
  /\ running \in BOOLEAN /\ renewed \subseteq Chans
  /\ main_pc \in {"run", "dummy", "join", "destroy", "free", "done"}
  /\ main_chan \in Chans /\ freed \subseteq Chans

\* The frames a reader got.  Short reads, of chan_stop()'s dummy and at the end of
\* file, come after them; anything else that is read shows as frame 0.
LastFull(c) == Max({0} \cup {i \in DOMAIN delivered[c] : Len(delivered[c][i]) = RecSz})
FramesGot(c) == [i \in 1 .. LastFull(c) |-> IF delivered[c][i] = Record(i) THEN i ELSE 0]

Fifo == INSTANCE FifoChannel WITH
          accepted <- [c \in Chans |-> IF use.mode = "fd" THEN nrecv[c] ELSE 0],
          got <- [c \in Chans |-> IF use.mode = "fd" THEN FramesGot(c) ELSE <<>>]

\* A reader of the bare file descriptor sees the lossless FIFO README.md
\* promises: the frames the Rx thread took for the channel, whole, in order,
\* none twice, up to the moment nh_destroy() closes the pipe.
ImplementsFifo == Fifo!Spec

MaxFrames == Max({u.frames : u \in Uses})

\* As long as every channel's reader keeps reading and the nethandler is not
\* being destroyed, every frame received is read: the one Rx thread is never
\* held up for ever by the pipe of a channel (it serves all of them).
EventuallyDelivered ==
  \A c \in Chans : \A n \in 1 .. MaxFrames :
    (use.mode = "fd" /\ nrecv[c] >= n) ~> (Len(delivered[c]) >= n \/ ~running)

\* The pipe of c has no room for what the Rx thread or chan_stop() wants to write
\* to it, and no reader is about to make room.
HeldUp(c) ==
  /\ rd_pc[c] # "blocked"
  /\ \/ rx_pc = "write" /\ rx_chan = c /\ Len(pipe[c]) + RecSz > PipeCap
     \/ main_pc = "dummy" /\ main_chan = c /\ Len(pipe[c]) + PaySz > PipeCap

\* chan_stop() and nh_destroy() return: the Rx thread exits ("even if it does
\* not receive any frames, it will time out and detect that running is false",
\* netchan.c:1412), every channel is stopped and freed.  The one thing that can
\* hold a call up for ever is a full pipe whose reader has stopped reading.
StopAndDestroyReturn ==
  (main_pc # "run") ~>
    \/ main_pc \in {"run", "done"}
    \/ [](use.mode = "chan_read" /\ \E c \in Chans : HeldUp(c))

\* Record boundaries: until chan_stop() writes its dummy, a pipe holds whole
\* records, each unit at its place, whatever the two threads that share
\* cbp->meta did to the contents; so read() never returns part of a record.
PipeAligned ==
  \A c \in Chans :
    ~stopping[c] =>
      /\ Len(pipe[c]) % RecSz = 0
      /\ \A i \in DOMAIN pipe[c] : pipe[c][i][2] = ((i - 1) % RecSz) + 1

\* No call of chan_read() on a live channel returns the bytes that chan_stop()
\* wrote to release it ("See if we have moved to an invalid state while blocking
\* for a value (chan_stop() uses this trick to kick us out of a blocking read)",
\* netchan.c:688), unless a late talker notice made the stopped channel ready.
NoDummyDelivered ==
  use.mode = "chan_read" =>
    \A c \in Chans \ (freed \cup renewed) : \A i \in DOMAIN delivered[c] :
      Zero \notin Range(delivered[c][i])

\* The Rx thread never handles a frame of a channel that has been freed:
\* nh_destroy() joins it before it frees anything.
RxThreadUsesLiveChannels ==
  rx_pc \in {"stamp", "copy", "write"} => rx_chan \notin freed

\* chan_stop() gets a reader out of a blocking read().
StopReleasesReader ==
  \A c \in Chans :
    (stopping[c] /\ rd_pc[c] = "blocked") ~> (rd_pc[c] # "blocked")

\* What chan_read() returns is what was sent ("Rx'd data should match Tx'd",
\* test/test_chan.c:183): the payloads of the frames, in order.
ReadsMatchSends ==
  \A c \in Chans : \A i \in DOMAIN delivered[c] :
    SubSeq(delivered[c][i], HdrSz + 1, RecSz) = SubSeq(Record(i), HdrSz + 1, RecSz)
=============================================================================

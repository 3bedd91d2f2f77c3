------------------------------- MODULE Logger -------------------------------
(***************************************************************************)
(* The logger of a nethandler: two buffers of BSZ entries, of timestamps   *)
(* ("ts") and of wake-up delays ("wd"), that sending threads and the Rx    *)
(* thread fill under one mutex and that are written to numbered files when *)
(* the logs are rotated.  An entry is a number, given when it is logged.   *)
(***************************************************************************)
EXTENDS Integers, Sequences, FiniteSets

CONSTANTS
  Threads,
  None,        \* no thread
  BSZ,         \* entries a buffer holds
  MaxEntries,  \* bound: no call logs once so many entries have been logged
  MaxRotate    \* bound: no call rotates once flush_ctr is so large

ASSUME LoggerAssumption ==
  /\ IsFiniteSet(Threads) /\ None \notin Threads
  /\ BSZ \in Nat \ {0} /\ MaxEntries \in Nat /\ MaxRotate \in Nat

Buffers == {"ts", "wd"}
LastFile == MaxRotate + Cardinality(Threads)
FileNos == 0 .. LastFile

VARIABLES
  m,          \* the mutex: the thread that holds it, or None
  pc,         \* thread -> "idle", or where it is in a call
  call,       \* thread -> the call: "ts" or "wd" to log, "rotate", "reset"
  buf, idx,   \* buffer -> its entries, and how many there are
  file,       \* buffer -> file number -> the entries in that file
  flush_ctr,
  count,      \* entries logged so far
  kept        \* buffer -> the entries logged, but for those that log_reset()
              \* or a failing fopen() discarded
vars == <<m, pc, call, buf, idx, file, flush_ctr, count, kept>>

Entries(b) == [i \in 1 .. idx[b] |-> buf[b][i - 1]]

Init ==
  /\ m = None
  /\ pc = [t \in Threads |-> "idle"]
  /\ call = [t \in Threads |-> "reset"]
  /\ buf = [b \in Buffers |-> [i \in 0 .. BSZ - 1 |-> 0]]
  /\ idx = [b \in Buffers |-> 0]
  /\ file = [b \in Buffers |-> [n \in FileNos |-> <<>>]]
  /\ flush_ctr = 0 /\ count = 0
  /\ kept = [b \in Buffers |-> <<>>]
-----------------------------------------------------------------------------
\* A thread calls log_tx() or log_rx() ("ts"), log_wakeup_delay() ("wd"),
\* nh_rotate_logs() or log_reset().
enter(t, c) ==
  /\ pc[t] = "idle"
  /\ c \in Buffers => count < MaxEntries
  /\ c = "rotate" => flush_ctr < MaxRotate
  /\ pc' = [pc EXCEPT ![t] = "lock"]
  /\ call' = [call EXCEPT ![t] = c]
  /\ UNCHANGED <<m, buf, idx, file, flush_ctr, count, kept>>

\* Where a call goes on when it has the mutex.
Body(t) == CASE call[t] \in Buffers -> "store"
             [] call[t] = "rotate" -> "flush_ts"
             [] call[t] = "reset" -> "reset"

\* A mutant: the mutex is not waited for.
NoLock(t) ==
  /\ pc[t] \in {"lock", "relock"}
  /\ m' = t
  /\ pc' = [pc EXCEPT ![t] = IF @ = "lock" THEN Body(t) ELSE "flush_ts"]
  /\ UNCHANGED <<call, buf, idx, file, flush_ctr, count, kept>>

\* pthread_mutex_lock().  The mutex has the default type: a thread that holds
\* it and locks it again waits like any other.
lock(t) ==
  /\ pc[t] \in {"lock", "relock"}
  /\ m = None
  /\ m' = t
  /\ pc' = [pc EXCEPT ![t] = IF @ = "lock" THEN Body(t) ELSE "flush_ts"]
  /\ UNCHANGED <<call, buf, idx, file, flush_ctr, count, kept>>

unlock(t) ==
  /\ m' = None
  /\ pc' = [pc EXCEPT ![t] = "idle"]

\* A mutant: the bound is off by one.
StoreBeyondEnd(t) ==
  LET b == call[t]
  IN  /\ pc[t] = "store"
      /\ count' = count + 1
      /\ IF idx[b] <= BSZ
           THEN /\ buf' = [buf EXCEPT ![b] = [i \in DOMAIN @ \cup {idx[b]} |->
                                               IF i = idx[b] THEN count' ELSE @[i]]]
                /\ pc' = [pc EXCEPT ![t] = "incr"]
           ELSE UNCHANGED buf /\ pc' = [pc EXCEPT ![t] = "relock"]
      /\ UNCHANGED <<m, call, idx, file, flush_ctr, kept>>

\* _log() and log_wakeup_delay(), with the mutex.  When the buffer is full the
\* entry is given up and log_flush_and_rotate() called, which locks again.
log_store(t) ==
  LET b == call[t]
  IN  /\ pc[t] = "store"
      /\ count' = count + 1
      /\ IF idx[b] < BSZ
           THEN /\ buf' = [buf EXCEPT ![b][idx[b]] = count']
                /\ pc' = [pc EXCEPT ![t] = "incr"]
           ELSE UNCHANGED buf /\ pc' = [pc EXCEPT ![t] = "relock"]
      /\ UNCHANGED <<m, call, idx, file, flush_ctr, kept>>

log_incr(t) ==
  LET b == call[t]
  IN  /\ pc[t] = "incr"
      /\ idx' = [idx EXCEPT ![b] = @ + 1]
      /\ kept' = [kept EXCEPT ![b] = Append(@, count)]
      /\ unlock(t)
      /\ UNCHANGED <<call, buf, file, flush_ctr, count>>

\* What is kept when the entries now in buffer b are thrown away.
Without(b) == SubSeq(kept[b], 1, Len(kept[b]) - idx[b])

\* _flush_ts() and _flush_wakeup_delay(): nothing is written when there is
\* nothing, or when fopen() fails; otherwise the file holds just the entries.
flush(t, b, at, next) ==
  /\ pc[t] = at
  /\ \/ /\ idx[b] # 0
        /\ file' = [file EXCEPT ![b][flush_ctr] = Entries(b)]
        /\ UNCHANGED kept
     \/ /\ kept' = [kept EXCEPT ![b] = Without(b)]
        /\ UNCHANGED file
  /\ pc' = [pc EXCEPT ![t] = next]
  /\ UNCHANGED <<m, call, buf, idx, flush_ctr, count>>

_flush_ts(t) == flush(t, "ts", "flush_ts", "flush_wd")
_flush_wakeup_delay(t) == flush(t, "wd", "flush_wd", "rotated")

\* The end of log_flush_and_rotate().
log_rotated(t) ==
  /\ pc[t] = "rotated"
  /\ flush_ctr' = flush_ctr + 1
  /\ idx' = [b \in Buffers |-> 0]
  /\ unlock(t)
  /\ UNCHANGED <<call, buf, file, count, kept>>

\* A mutant: the mutex is kept.
ResetKeepsLock(t) ==
  /\ pc[t] = "reset"
  /\ kept' = [b \in Buffers |-> Without(b)]
  /\ idx' = [b \in Buffers |-> 0]
  /\ pc' = [pc EXCEPT ![t] = "idle"]
  /\ UNCHANGED <<m, call, buf, file, flush_ctr, count>>

log_reset(t) ==
  /\ pc[t] = "reset"
  /\ kept' = [b \in Buffers |-> Without(b)]
  /\ idx' = [b \in Buffers |-> 0]
  /\ unlock(t)
  /\ UNCHANGED <<call, buf, file, flush_ctr, count>>

InCall(t) ==
  \/ lock(t)
  \/ log_store(t)
  \/ log_incr(t)
  \/ _flush_ts(t)
  \/ _flush_wakeup_delay(t)
  \/ log_rotated(t)
  \/ log_reset(t)

Next == \E t \in Threads :
          \/ \E c \in Buffers \cup {"rotate", "reset"} : enter(t, c)
          \/ InCall(t)

Spec == Init /\ [][Next]_vars

\* A thread in a call goes on, and gets a mutex that is free again and again.
FairSpec == Spec /\ \A t \in Threads : SF_vars(InCall(t))
-----------------------------------------------------------------------------
\* The indices stay within the buffers.
TypeOK ==
  /\ m \in Threads \cup {None}
  /\ pc \in [Threads -> {"idle", "lock", "store", "incr", "relock", "flush_ts",
                         "flush_wd", "rotated", "reset"}]
  /\ call \in [Threads -> Buffers \cup {"rotate", "reset"}]
  /\ buf \in [Buffers -> [0 .. BSZ - 1 -> Nat]] /\ idx \in [Buffers -> 0 .. BSZ]
  /\ file \in [Buffers -> [FileNos -> Seq(Nat)]]
  /\ flush_ctr \in FileNos /\ count \in Nat
  /\ kept \in [Buffers -> Seq(Nat)]

\* The entries in the first n files of a sequence of files.
Concat(f) == LET first[n \in 0 .. LastFile + 1] ==
                   IF n = 0 THEN <<>> ELSE first[n - 1] \o f[n - 1]
             IN  first

InFiles(b) == Concat(file[b])[LastFile + 1]

\* Whenever the mutex is free, the files in the order of their numbers, then
\* the buffer, hold every entry that was logged (but for those a reset or a
\* failing fopen() discarded) once and in the order of logging, whatever
\* threads logged, rotated and reset.
EveryEntryOnce == m = None => \A b \in Buffers : InFiles(b) \o Entries(b) = kept[b]

\* A call returns, unless some thread found its buffer full.
CallsReturn ==
  \A t \in Threads :
    (pc[t] # "idle") ~> (pc[t] = "idle" \/ \E u \in Threads : pc[u] = "relock")

\* "To accomodate longer trace-periods, we can rotate the logs" (netchan.h:902),
\* and a full buffer is rotated by the call that finds it full (logger.c:267):
\* that call returns like any other.
FullBufferRotates == \A t \in Threads : (pc[t] = "relock") ~> (pc[t] = "idle")
=============================================================================

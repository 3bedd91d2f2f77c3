---------------------------- MODULE StreamTable ----------------------------
(***************************************************************************)
(* What the callback hash map of a nethandler promises: a table of         *)
(* bounded capacity that associates a stream with the first receive        *)
(* channel registered for it and never forgets or changes the association. *)
(* Nothing is said of slots, hashing or probing; CbHashMap implements it.  *)
(***************************************************************************)
EXTENDS Naturals

CONSTANTS
  Capacity,    \* registrations the table can hold
  StreamIds,   \* the stream ids in use
  Chans,       \* receive channels (their callback area)
  NoCb         \* "no callback registered"

VARIABLES
  table,       \* stream id -> the channel its frames are handed to, or NoCb
  count,       \* registrations accepted so far
  handed       \* the channel the last frame was handed to, or NoCb

vars == <<table, count, handed>>

Init ==
  /\ table = [s \in StreamIds |-> NoCb]
  /\ count = 0
  /\ handed = NoCb

\* A registration takes one unit of capacity. Only the first one of a stream
\* changes where its frames go.
Register(s, c) ==
  /\ count < Capacity
  /\ count' = count + 1
  /\ table' = IF table[s] = NoCb THEN [table EXCEPT ![s] = c] ELSE table
  /\ UNCHANGED handed

Feed(s) ==
  /\ handed' = table[s]
  /\ UNCHANGED <<table, count>>

Next ==
  \/ \E s \in StreamIds, c \in Chans : Register(s, c)
  \/ \E s \in StreamIds : Feed(s)

Spec == Init /\ [][Next]_vars
=============================================================================

---------------------------- MODULE FifoChannel ----------------------------
(***************************************************************************)
(* What a receive channel promises a reader: "a logical channel can be     *)
(* used as a local UNIX pipe between remote systems" (README.md:11).  The  *)
(* frames received for a channel come out complete, each once, in order.   *)
(* Frames of a channel are numbered from 1 in the order they arrive.       *)
(***************************************************************************)
EXTENDS Naturals, Sequences

CONSTANT Chans

VARIABLES
  accepted,   \* channel -> number of frames received for it
  got         \* channel -> the frames its reader got, a sequence

vars == <<accepted, got>>

Init ==
  /\ accepted = [c \in Chans |-> 0]
  /\ got = [c \in Chans |-> <<>>]

Accept(c) ==
  /\ accepted' = [accepted EXCEPT ![c] = @ + 1]
  /\ UNCHANGED got

Deliver(c) ==
  /\ Len(got[c]) < accepted[c]
  /\ got' = [got EXCEPT ![c] = Append(@, Len(@) + 1)]
  /\ UNCHANGED accepted

Next == \E c \in Chans : Accept(c) \/ Deliver(c)

Spec == Init /\ [][Next]_vars
============================================================================

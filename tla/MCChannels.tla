----------------------------- MODULE MCChannels -----------------------------
EXTENDS Channels, TLC

\* A channel of each class, one of them without a stream id, and two that are refused:
\* too large for a frame, too often for a 100 Mbps link.
MCAttrs ==
  {[sc |-> "TAS", sid |-> 1, size |-> 4,    interval |-> 1000000],
   [sc |-> "CBS", sid |-> 0, size |-> 1476, interval |-> 125000],
   [sc |-> "CBS", sid |-> 1, size |-> 1477, interval |-> 1000000],
   [sc |-> "TAS", sid |-> 1, size |-> 64,   interval |-> 10000]}

\* A program with SRP, and one without SRP that has no standard input.
MCStarts == {[stdin |-> TRUE, srp |-> TRUE], [stdin |-> FALSE, srp |-> FALSE]}

AddrSymmetry == Permutations(Addrs)
=============================================================================

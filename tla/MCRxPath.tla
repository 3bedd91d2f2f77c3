------------------------------ MODULE MCRxPath ------------------------------
(* RxPath with the uses TLC checks. *)
EXTENDS RxPath

CONSTANTS c1, c2

\* Two channels read through their file descriptors while the nethandler is
\* destroyed; one channel read with chan_read(), with and without SRP, while it
\* is stopped and the nethandler is destroyed.
MCUses ==
  {[chans |-> {c1, c2}, frames |-> 4, mode |-> "fd", srp |-> FALSE,
    calls |-> {"nh_destroy"}]}
  \cup
  {[chans |-> {c1}, frames |-> 3, mode |-> "chan_read", srp |-> b,
    calls |-> {"chan_stop", "nh_destroy"}] : b \in BOOLEAN}

\* One channel read with chan_read(), and nothing else going on.
PlainUse ==
  {[chans |-> {c1}, frames |-> 3, mode |-> "chan_read", srp |-> FALSE, calls |-> {}]}
=============================================================================

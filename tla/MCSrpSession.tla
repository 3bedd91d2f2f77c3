---------------------------- MODULE MCSrpSession ----------------------------
(* SrpSession with the uses TLC checks. *)
EXTENDS SrpSession

CONSTANTS l1, l2

\* One listener, either end is stopped.
StopUse ==
  {[hosts |-> {Talker, l1}, lost |-> 0,
    stop |-> {Talker, l1}, destroy |-> {}, wait |-> {}]}

\* Two listeners, a notice is lost, the talker waits for its channel; one
\* listener, the talker stops its channel, both hosts are destroyed; one
\* listener, either end is stopped.
MCUses ==
  {[hosts |-> {Talker, l1, l2}, lost |-> 1,
    stop |-> {}, destroy |-> {}, wait |-> {Talker}],
   [hosts |-> {Talker, l1}, lost |-> 0,
    stop |-> {Talker}, destroy |-> {Talker, l1}, wait |-> {}]} \cup StopUse
=============================================================================

----------------------------- MODULE CbHashMap -----------------------------
(***************************************************************************)
(* The callback hash map of a nethandler (struct nethandler.hmap) and the  *)
(* receive channels that are entered in it: chan_create_rx() registers a   *)
(* channel's callback area by open addressing with linear probing, the     *)
(* receive path looks the stream id of a frame up, chan_destroy() frees a  *)
(* channel.  A slot is occupied when its cb is set; a slot of the calloc'ed *)
(* array has stream_id 0 and no cb.  The channel stands for its cb_priv.   *)
(***************************************************************************)
EXTENDS Integers, FiniteSets

CONSTANTS
  HmapSz,      \* nh->hmap_sz
  StreamIds,   \* the 64 bit stream ids in use (numbers: they are hashed)
  Chans,       \* receive channels
  NoCb         \* cb == NULL

ASSUME HmapAssumption ==
  /\ HmapSz \in Nat \ {0}
  /\ StreamIds \subseteq Nat
  /\ NoCb \notin Chans

VARIABLES
  hmap,        \* slot -> [stream_id, priv_data]
  sidw,        \* channel -> its stream id, once created
  live,        \* channels created and not destroyed
  freed,       \* channels destroyed
  handed       \* whose callback area the last frame was copied to, or NoCb

vars == <<hmap, sidw, live, freed, handed>>

Idx == 0 .. HmapSz - 1

EmptySlot == [stream_id |-> 0, priv_data |-> NoCb]

Init ==
  /\ hmap = [i \in Idx |-> EmptySlot]
  /\ sidw = [c \in Chans |-> 0]
  /\ live = {}
  /\ freed = {}
  /\ handed = NoCb

\* The slot the probe sequence of a stream visits at its k-th turn: it starts
\* at stream_id % hmap_sz and advances by (idx + 1) % hmap_sz.
Probe(s, k) == ((s % HmapSz) + k) % HmapSz

Occupied(h, i) == h[i].priv_data # NoCb

\* nh_reg_callback() stops at the k-th turn: the first free slot.
StopsAt(h, s, k) ==
  /\ ~Occupied(h, Probe(s, k))
  /\ \A j \in 0 .. k - 1 : Occupied(h, Probe(s, j))

Full(h) == \A i \in Idx : Occupied(h, i)

\* get_hm_idx() returns the slot of the k-th turn: the first occupied slot
\* with this stream id.  It visits every slot, free ones included.
Match(h, s, i) == h[i].stream_id = s /\ Occupied(h, i)

FoundAt(h, s, k) ==
  /\ Match(h, s, Probe(s, k))
  /\ \A j \in 0 .. k - 1 : ~Match(h, s, Probe(s, j))

\* A mutant: the search leaves out its last turn.
ShortSearch(h, s) == \E k \in 0 .. HmapSz - 2 : FoundAt(h, s, k)

Known(h, s) == \E k \in Idx : FoundAt(h, s, k)

\* The channel whose callback a frame of stream s runs, NoCb when unknown.
Lookup(h, s) ==
  IF Known(h, s)
    THEN h[Probe(s, CHOOSE k \in Idx : FoundAt(h, s, k))].priv_data
    ELSE NoCb
-----------------------------------------------------------------------------
\* A mutant: the fields are stored the wrong way round.
SwappedStore(s, c) ==
  \/ \E k \in Idx :
       /\ StopsAt(hmap, s, k)
       /\ hmap' = [hmap EXCEPT ![Probe(s, k)] =
                     [stream_id |-> c, priv_data |-> s]]
  \/ Full(hmap) /\ UNCHANGED hmap

\* nh_reg_callback(): enter the channel in the first free slot, or return
\* -ENOMEM and change nothing when every slot is taken.
nh_reg_callback(s, c) ==
  \/ \E k \in Idx :
       /\ StopsAt(hmap, s, k)
       /\ hmap' = [hmap EXCEPT ![Probe(s, k)] =
                     [stream_id |-> s, priv_data |-> c]]
  \/ Full(hmap) /\ UNCHANGED hmap

\* chan_create_rx() ignores what nh_reg_callback() returns.
chan_create_rx(c, s) ==
  /\ c \notin live \cup freed
  /\ live' = live \cup {c}
  /\ sidw' = [sidw EXCEPT ![c] = s]
  /\ nh_reg_callback(s, c)
  /\ UNCHANGED <<freed, handed>>

\* A mutant: the slots of a destroyed channel are emptied.
SlotGivenBack(c) ==
  /\ c \in live
  /\ live' = live \ {c}
  /\ freed' = freed \cup {c}
  /\ hmap' = [i \in Idx |-> IF hmap[i].priv_data = c THEN EmptySlot ELSE hmap[i]]
  /\ UNCHANGED <<sidw, handed>>

\* chan_destroy() unlinks and frees the channel and its callback area; the
\* hash map is not touched.
chan_destroy(c) ==
  /\ c \in live
  /\ live' = live \ {c}
  /\ freed' = freed \cup {c}
  /\ UNCHANGED <<hmap, sidw, handed>>

\* nh_feed_pdu_ts() runs the callback of the slot found, if any.
nh_feed_pdu_ts(s) ==
  /\ handed' = Lookup(hmap, s)
  /\ UNCHANGED <<hmap, sidw, live, freed>>

Next ==
  \/ \E c \in Chans, s \in StreamIds : chan_create_rx(c, s)
  \/ \E c \in Chans : chan_destroy(c)
  \/ \E s \in StreamIds : nh_feed_pdu_ts(s)

Spec == Init /\ [][Next]_vars
-----------------------------------------------------------------------------
\* Slots hold a stream id and a channel or nothing; a channel is created once.
TypeOK ==
  /\ hmap \in [Idx -> [stream_id : StreamIds \cup {0},
                       priv_data : Chans \cup {NoCb}]]
  /\ sidw \in [Chans -> StreamIds \cup {0}]
  /\ live \subseteq Chans
  /\ freed \subseteq Chans
  /\ handed \in Chans \cup {NoCb}

\* Every slot the probe sequence of a stream visits before a slot registered
\* for it is occupied.  nh_reg_callback() takes the first free slot and no
\* code empties one: this is why a later registration of the same stream can
\* never come before an earlier one in get_hm_idx()'s search.
ProbePathOccupied ==
  \A k \in Idx, s \in StreamIds :
    Match(hmap, s, Probe(s, k)) =>
      \A j \in 0 .. k - 1 : Occupied(hmap, Probe(s, j))

\* The probe sequence reaches every slot from every start: nh_reg_callback()
\* refuses a stream only when the map is full, and get_hm_idx() finds every
\* stream that some slot holds, wherever its entry had to be displaced to.
SearchComplete ==
  \A s \in StreamIds :
    /\ Full(hmap) \/ \E k \in Idx : StopsAt(hmap, s, k)
    /\ (\E i \in Idx : Match(hmap, s, i)) => Known(hmap, s)

\* The map implements the bounded first-registration-wins table: refinement
\* mapping from slots to the stream table they represent.
ST == INSTANCE StreamTable WITH
        Capacity <- HmapSz,
        table <- [s \in StreamIds |-> Lookup(hmap, s)],
        count <- Cardinality({i \in Idx : Occupied(hmap, i)}),
        handed <- handed

\* Frames of a stream go to the first channel registered for it, for ever;
\* registrations are refused exactly when HmapSz of them were accepted.
ImplementsStreamTable == ST!Spec
=============================================================================

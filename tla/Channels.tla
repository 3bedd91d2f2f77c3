------------------------------ MODULE Channels ------------------------------
(***************************************************************************)
(* The channels of one nethandler: how chan_create_tx() and                *)
(* chan_create_rx() build a channel out of memory, a pipe and a socket,    *)
(* what they undo when a step of it fails, the two lists the nethandler    *)
(* keeps the channels on, and how channels are stopped and destroyed.      *)
(*                                                                         *)
(* A channel is its address, and calloc() may return the address of a      *)
(* channel that was freed.  A descriptor is its number: the system hands   *)
(* out the lowest free one and refuses when there is none.                 *)
(***************************************************************************)
EXTENDS Integers, FiniteSets, FiniteSetsExt

CONSTANTS
  Addrs,      \* addresses of channels
  Null,
  MaxFd,      \* the largest descriptor number the process may use
  Attrs,      \* struct channel_attrs an application asks for: sc, sid, size, interval
  LinkMbps,   \* link speed, bits per microsecond
  Prios,      \* socket priorities
  Starts,     \* how the program is started: stdin (open or not), srp
  MaxMade     \* bound on the channels asked for

ASSUME ChannelsAssumption ==
  /\ IsFiniteSet(Addrs) /\ Null \notin Addrs
  /\ Addrs \cap {"free", "app", "nh", "lost"} = {}
  /\ MaxFd \in Nat /\ MaxFd >= 3 /\ LinkMbps \in Nat \ {0} /\ MaxMade \in Nat
  /\ \A a \in Attrs : a.sc \in {"TAS", "CBS"}
  /\ Prios \subseteq Nat /\ Prios # {}
  /\ \A start \in Starts : start.srp \in BOOLEAN

VARIABLES
  head, tail,  \* nh->du_tx_head and du_rx_head, nh->du_tx_tail and du_rx_tail
  next,        \* address -> ch->next, NULL for memory nobody owns
  chan,        \* address -> the channel there, or Null
  fds,         \* descriptor -> who opened it
  tx_prio,     \* nh->tx_tas_sock_prio and nh->tx_cbs_sock_prio
  use_srp,     \* nh->use_srp
  nh,          \* the nethandler exists
  failing,     \* the talker nc_srp_new_talker() has failed for, not destroyed yet
  older,       \* history: the pairs of channels in the order of their creation
  early,       \* history: a channel failed before its descriptors were set
  foreign,     \* history: descriptors a channel closed or wrote that were not its own
  made,        \* number of channels asked for
  mixed        \* history: a channel was linked behind one of the other list
listVars == <<head, tail, next>>
vars == <<listVars, chan, fds, tx_prio, use_srp, nh, failing, older, early, foreign, made, mixed>>

Kinds   == {"tx", "rx"}
Classes == {"TAS", "CBS"}
Fds     == 0 .. MaxFd
Channel == [kind : Kinds, sc : Classes, sid : {a.sid : a \in Attrs}, r : Fds, w : Fds,
            sock : Fds \cup {-1}, prio : {0} \cup Prios, cbp : BOOLEAN,
            ready : BOOLEAN, stopping : BOOLEAN]
Live    == {c \in Addrs : chan[c] # Null}

ASSUME NullAssumption == Null \notin Channel

\* Once the lists are mixed the next call may walk freed memory: the model ends.
Up == nh /\ ~mixed

\* The application calls nothing while a creation is under way.
Idle == Up /\ failing = Null

\* The application's standard descriptors and the nethandler's Rx socket are open;
\* a program may have been started without a standard input.
Init ==
  /\ head = [k \in Kinds |-> Null] /\ tail = head
  /\ next = [c \in Addrs |-> Null]
  /\ chan = [c \in Addrs |-> Null]
  /\ \E start \in Starts :
       /\ use_srp = start.srp
       /\ fds = [n \in Fds |-> CASE n = 0 /\ start.stdin -> "app" [] n \in 1 .. 2 -> "app"
                                 [] n = 3 -> "nh" [] OTHER -> "free"]
  /\ tx_prio \in [Classes -> {Min(Prios)}]
  /\ nh = TRUE /\ failing = Null /\ older = {} /\ early = FALSE /\ foreign = {} /\ mixed = FALSE /\ made = 0
-----------------------------------------------------------------------------
(* The lists. *)

\* The channel j links after the head, for every j that matters.
Walk(k) == LET w[j \in 0 .. Cardinality(Addrs)] ==
                 IF j = 0 THEN head[k] ELSE IF w[j - 1] = Null THEN Null ELSE next[w[j - 1]]
           IN  w

Linked(k) == LET walk == Walk(k) IN {walk[j] : j \in 0 .. Cardinality(Addrs)} \ {Null}

\* _nh_get_len(), when the list ends.
_nh_get_len(k) ==
  LET walk == Walk(k)
  IN  CHOOSE n \in DOMAIN walk : walk[n] = Null /\ \A j \in 0 .. n - 1 : walk[j] # Null

\* get_tx_chan_from_sid(), get_rx_chan_from_sid(): the first of the list with this
\* stream id.
get_chan_from_sid(k, sid) ==
  LET walk  == Walk(k)
      match == {j \in DOMAIN walk : walk[j] # Null /\ chan[walk[j]].sid = sid}
  IN  IF match = {} THEN Null ELSE walk[Min(match)]

\* nh_add_tx(), nh_add_rx(), of a channel calloc() has just returned, whose next
\* is NULL.  The tail may be the address of a channel that has been freed: the
\* write goes to memory nobody owns, to the new channel itself, or to a channel
\* that was given this address since, maybe one of the other list.
nh_add(k, c) ==
  /\ head' = [head EXCEPT ![k] = IF @ = Null THEN c ELSE @]
  /\ next' = IF head[k] # Null /\ tail[k] \in Live \cup {c}
               THEN [next EXCEPT ![tail[k]] = c] ELSE next
  /\ tail' = [tail EXCEPT ![k] = c]
  /\ mixed' = (head[k] # Null /\ tail[k] \in Live /\ chan[tail[k]].kind # k)

\* A mutant: a channel that is not the head stays linked.
HeadOnlyRemove(k, c) ==
  /\ head' = [head EXCEPT ![k] = IF @ = c THEN next[c] ELSE @]
  /\ next' = [next EXCEPT ![c] = Null]
  /\ UNCHANGED tail

\* A mutant: the list ends where the channel was.
CutShort(k, c) ==
  /\ head' = [head EXCEPT ![k] = IF @ = c THEN next[c] ELSE @]
  /\ LET before == {p \in Linked(k) : next[p] = c}
     IN  next' = [p \in Addrs |-> IF p \in before \cup {c} THEN Null ELSE next[p]]
  /\ UNCHANGED tail

\* nh_remove_tx(), nh_remove_rx() and _nh_unlink_ch().  Nothing happens to a list
\* the channel is not on.  The tail is left alone.
nh_remove(k, c) ==
  /\ head' = [head EXCEPT ![k] = IF @ = c THEN next[c] ELSE @]
  /\ LET before == {p \in Linked(k) : next[p] = c}
     IN  next' = [p \in Addrs |-> CASE p = c -> Null [] p \in before \ {c} -> next[c]
                                     [] OTHER -> next[p]]
  /\ UNCHANGED tail
-----------------------------------------------------------------------------
(* The parts of a channel. *)

\* Bits of the smallest frame: headers, checksum, preamble and gap.
min_sz == 8 * (24 + 22 + 12 + 7 + 1)

\* _valid_size() and _valid_interval(): intervals are in ns and shorter than an hour.
_valid_size(a) == a.size # 0 /\ a.size + 24 + 22 <= 1522
_valid_interval(a) ==
  /\ a.interval > (min_sz * 1000) \div LinkMbps
  /\ a.interval \div 1000000 < 3600 * 1000
  /\ (min_sz + 8 * a.size) * 1000 <= a.interval * LinkMbps

\* calloc() and the fields set before the guard: descriptors are still 0.
Blank(k, a) ==
  [kind |-> k, sc |-> a.sc, sid |-> a.sid, r |-> 0, w |-> 0, sock |-> 0, prio |-> 0,
   cbp |-> FALSE, ready |-> FALSE, stopping |-> FALSE]

FreeFds == {n \in Fds : fds[n] = "free"}

\* A mutant: the socket is opened first, the pipe after it.
SocketFirst(ch, sock) ==
  LET rest == FreeFds \ {Min(FreeFds)}
      r == IF sock THEN Min(rest) ELSE Min(FreeFds)
      w == Min((IF sock THEN rest ELSE FreeFds) \ {r})
  IN  [ch EXCEPT !.r = r, !.w = w, !.sock = IF sock THEN Min(FreeFds) ELSE -1]

\* pipe() of _chan_create() and socket() of _nc_create_tx_sock(), which take the
\* lowest free descriptors in this order.
Open(ch, sock) ==
  LET r == Min(FreeFds)
      w == Min(FreeFds \ {r})
  IN  [ch EXCEPT !.r = r, !.w = w, !.sock = IF sock THEN Min(FreeFds \ {r, w}) ELSE -1]

Numbers(ch) == {ch.r, ch.w} \cup (IF ch.sock >= 0 THEN {ch.sock} ELSE {})

\* The table once c holds what ch names.
Held(c, ch) == [n \in Fds |-> IF n \in Numbers(ch) THEN c ELSE fds[n]]
-----------------------------------------------------------------------------
(* Destroying. *)

\* chan_stop() of the channel ch at c, with the descriptors of table t: it writes a
\* dummy payload into its pipe unless it is stopping already.
Written(c, ch, t) == IF ch.stopping \/ t[ch.w] = c THEN {} ELSE {ch.w}

\* A mutant: the socket of a Tx channel stays open.
SocketKept(c, ch, t) ==
  /\ fds' = [n \in Fds |-> IF n \in {ch.r, ch.w} THEN "free" ELSE t[n]]
  /\ foreign' = foreign \cup Written(c, ch, t) \cup {n \in {ch.r, ch.w} : t[n] # c}

\* _chan_destroy(): chan_stop(), and the closing of every descriptor that is not
\* negative.
close_all(c, ch, t) ==
  /\ fds' = [n \in Fds |-> IF n \in Numbers(ch) THEN "free" ELSE t[n]]
  /\ foreign' = foreign \cup Written(c, ch, t) \cup {n \in Numbers(ch) : t[n] # c}

\* chan_destroy() of a channel that never got on a list.
Abandon(c, ch, t) ==
  /\ close_all(c, ch, t)
  /\ UNCHANGED <<listVars, chan, older, tx_prio, use_srp, nh, failing, mixed>>

\* chan_destroy().  Whether it is a Tx channel is told by its socket.
chan_destroy(c) ==
  /\ Up /\ c \in Live
  /\ failing \in {Null, c} /\ failing' = Null
  /\ close_all(c, chan[c], fds)
  /\ nh_remove(IF chan[c].sock >= 0 THEN "tx" ELSE "rx", c)
  /\ chan' = [chan EXCEPT ![c] = Null]
  /\ older' = {p \in older : c \notin {p[1], p[2]}}
  /\ UNCHANGED <<tx_prio, use_srp, nh, early, made, mixed>>
-----------------------------------------------------------------------------
(* Creating. *)

CanCreate(c, a) ==
  /\ Idle /\ made < MaxMade /\ made' = made + 1
  /\ c \notin Live /\ _valid_size(a) /\ _valid_interval(a)

\* pthread_mutex_init() of the guard fails: the socket is still 0, too.
guard_fails(c, k, a) ==
  /\ CanCreate(c, a)
  /\ early' = TRUE
  /\ Abandon(c, Blank(k, a), fds)

\* pipe() fails: fewer than two descriptors are left.
pipe_fails(c, k, a) ==
  /\ CanCreate(c, a)
  /\ Cardinality(FreeFds) < 2
  /\ early' = TRUE
  /\ Abandon(c, [Blank(k, a) EXCEPT !.sock = -1], fds)

\* socket() fails, or setting its priority does, which leaves the socket open, or
\* malloc() of an Rx channel's buffer does.
part_fails(c, k, a) ==
  LET ch == Open(Blank(k, a), FALSE)
      t  == Held(c, ch)
      no == {n \in Fds : t[n] = "free"}
  IN  /\ CanCreate(c, a)
      /\ Cardinality(FreeFds) >= 2
      /\ \/ k = "rx" /\ Abandon(c, ch, t)
         \/ k = "tx" /\ no = {} /\ Abandon(c, ch, t)
         \/ k = "tx" /\ no # {} /\ Abandon(c, ch, [t EXCEPT ![Min(no)] = "lost"])
      /\ UNCHANGED early

\* A mutant: the number of the closed socket is kept.
NumberKept(c, a) ==
  /\ CanCreate(c, a)
  /\ Cardinality(FreeFds) >= 3 /\ a.sc = "TAS"
  /\ LET ch == Open(Blank("tx", a), TRUE)
     IN  Abandon(c, ch, [Held(c, ch) EXCEPT ![ch.sock] = "free"])
  /\ UNCHANGED early

\* nc_create_tas_tx_sock(): SO_TXTIME is refused, and the socket is closed.
txtime_fails(c, a) ==
  /\ CanCreate(c, a)
  /\ Cardinality(FreeFds) >= 3 /\ a.sc = "TAS"
  /\ LET ch == Open(Blank("tx", a), TRUE)
     IN  Abandon(c, [ch EXCEPT !.sock = -1], [Held(c, ch) EXCEPT ![ch.sock] = "free"])
  /\ UNCHANGED early

\* chan_create_tx(), chan_create_rx().  Without SRP the channel is ready at once.
\* With SRP a talker that cannot be registered is destroyed again, off the list it
\* is on by then.
chan_create(c, k, a) ==
  LET ch == [Open(Blank(k, a), k = "tx") EXCEPT
               !.cbp = (k = "rx"), !.ready = ~use_srp,
               !.prio = IF k = "tx" THEN tx_prio[a.sc] ELSE 0]
  IN  /\ CanCreate(c, a)
      /\ Cardinality(FreeFds) >= (IF k = "tx" THEN 3 ELSE 2)
      /\ chan' = [chan EXCEPT ![c] = ch]
      /\ fds' = Held(c, ch)
      /\ nh_add(k, c)
      /\ older' = older \cup (Live \X {c})
      /\ failing' \in {Null} \cup (IF use_srp /\ k = "tx" THEN {c} ELSE {})
      /\ UNCHANGED <<tx_prio, use_srp, nh, early, foreign>>
-----------------------------------------------------------------------------
(* The life of a channel. *)

\* nh_notify_talker_Lnew(), nh_notify_talker_Lleaving(), nh_notify_listener_Tnew()
\* and nh_notify_listener_Tleave().
nh_notify(k, sid, up) ==
  /\ Up /\ use_srp
  /\ LET c == get_chan_from_sid(k, sid)
     IN  c # Null /\ chan' = [chan EXCEPT ![c].ready = up]
  /\ UNCHANGED <<listVars, fds, tx_prio, use_srp, nh, failing, older, early, foreign, made, mixed>>

\* chan_stop() of every channel of both lists.
nh_stop ==
  LET S == Linked("tx") \cup Linked("rx")
  IN  /\ Idle /\ S # {}
      /\ chan' = [c \in Addrs |-> IF c \in S THEN [chan[c] EXCEPT !.ready = FALSE, !.stopping = TRUE]
                                             ELSE chan[c]]
      /\ foreign' = foreign \cup UNION {Written(c, chan[c], fds) : c \in S}
      /\ UNCHANGED <<listVars, fds, tx_prio, use_srp, nh, failing, older, early, made, mixed>>

\* A mutant: the priority may change at any time.
AnyTimePrio(sc, p) ==
  /\ Idle
  /\ tx_prio' = [tx_prio EXCEPT ![sc] = p]
  /\ UNCHANGED <<listVars, chan, fds, use_srp, nh, failing, older, early, foreign, made, mixed>>

\* nh_set_tx_prio(): refused once there is a Tx channel on the list.
nh_set_tx_prio(sc, p) ==
  /\ Idle /\ head["tx"] = Null
  /\ tx_prio' = [tx_prio EXCEPT ![sc] = p]
  /\ UNCHANGED <<listVars, chan, fds, use_srp, nh, failing, older, early, foreign, made, mixed>>

\* nh_destroy(): the channels on the lists are taken off the heads and destroyed.
nh_destroy ==
  LET S  == Linked("tx") \cup Linked("rx")
      ns == UNION {Numbers(chan[c]) : c \in S}
  IN  /\ Idle /\ nh' = FALSE
      /\ head' = [k \in Kinds |-> Null]
      /\ next' = [c \in Addrs |-> IF c \in S THEN Null ELSE next[c]]
      /\ chan' = [c \in Addrs |-> IF c \in S THEN Null ELSE chan[c]]
      /\ fds' = [n \in Fds |-> IF n \in ns THEN "free" ELSE fds[n]]
      /\ foreign' = foreign \cup {n \in ns : \E c \in S : n \in Numbers(chan[c]) /\ fds[n] # c}
                            \cup UNION {Written(c, chan[c], fds) : c \in S}
      /\ older' = {p \in older : p[1] \notin S /\ p[2] \notin S}
      /\ UNCHANGED <<tail, tx_prio, use_srp, failing, early, made, mixed>>

Next ==
  \/ \E c \in Addrs, k \in Kinds, a \in Attrs :
       guard_fails(c, k, a) \/ pipe_fails(c, k, a) \/ part_fails(c, k, a) \/ chan_create(c, k, a)
  \/ \E c \in Addrs, a \in Attrs : txtime_fails(c, a)
  \/ \E c \in Addrs : chan_destroy(c)
  \/ \E k \in Kinds, a \in Attrs, up \in BOOLEAN : nh_notify(k, a.sid, up)
  \/ \E sc \in Classes, p \in Prios : nh_set_tx_prio(sc, p)
  \/ nh_stop
  \/ nh_destroy

Spec == Init /\ [][Next]_vars
-----------------------------------------------------------------------------
\* chan_valid().
chan_valid(c) ==
  /\ chan[c].ready
  /\ IF chan[c].sock > 0 THEN ~chan[c].cbp ELSE chan[c].cbp
  /\ chan[c].sid # 0
  /\ ~(chan[c].w = 0 /\ chan[c].r = 0)
-----------------------------------------------------------------------------
\* The heads of the lists are channels that exist, memory nobody owns links to
\* nothing, and every field has its type.
TypeOK ==
  /\ head \in [Kinds -> Live \cup {Null}]
  /\ tail \in [Kinds -> Addrs \cup {Null}]
  /\ next \in [Addrs -> Addrs \cup {Null}] /\ \A c \in Addrs \ Live : next[c] = Null
  /\ chan \in [Addrs -> Channel \cup {Null}]
  /\ fds \in [Fds -> {"free", "app", "nh", "lost"} \cup Addrs]
  /\ tx_prio \in [Classes -> Prios]
  /\ use_srp \in BOOLEAN /\ nh \in BOOLEAN /\ early \in BOOLEAN /\ mixed \in BOOLEAN
  /\ older \subseteq Live \X Live
  /\ foreign \subseteq Fds /\ failing \in Live \cup {Null} /\ made \in 0 .. MaxMade

\* However channels come and go, and wherever the making of one fails, a walk of
\* either list (nh_get_num_tx(), get_tx_chan_from_sid(), nh_stop(),
\* nc_srp_talker_announce()) ends, meets no freed channel and none twice, and meets
\* them in the order of creation.  The exception: nh_remove_tx() and nh_remove_rx()
\* leave the tail at the channel they remove, and when calloc() gives its address to a
\* channel of the other kind, the next channel is linked behind that one
\* (netchan.c:1160, netchan.c:1231).
WalkMeetsLiveChannelsInOrder ==
  ~mixed => \A k \in Kinds :
    LET walk == Walk(k)
    IN  \E n \in 0 .. Cardinality(Addrs) :
          /\ walk[n] = Null
          /\ \A j \in 0 .. n - 1 : walk[j] \in Live
          /\ \A i, j \in 0 .. n - 1 : i < j => walk[i] # walk[j] /\ <<walk[i], walk[j]>> \in older

\* A channel that is on a list stays on it until it is destroyed: neither a channel
\* that is added behind a stale tail nor one that is taken out of the middle drops
\* another.  (A new one may not get on its list at all, see NumIsRegistered.)
ListedUntilDestroyed ==
  [][~mixed' => \A k \in Kinds : Linked(k) \cap Live' \subseteq Linked(k)']_listVars

\* A channel reads, writes and closes descriptors of its own and of nobody else:
\* what _chan_destroy() closes is what this channel opened, however far its creation
\* got.  The exception is descriptor 0: a channel that fails before its descriptors
\* are set (netchan.c:235, netchan.c:261) writes to and closes whatever 0 is.
OwnDescriptors ==
  /\ foreign \subseteq {0}
  /\ ~early => /\ foreign = {}
               /\ \A c \in Live : \A n \in Numbers(chan[c]) : fds[n] = c

\* What a channel opened is closed with it, also when its creation fails half way:
\* a descriptor still open is the one of a channel that exists.  The exception, kept
\* apart as "lost", is a socket whose priority cannot be set (netchan_socket.c:95).
NothingLeftOpen ==
  \A n \in Fds : fds[n] \in Addrs => fds[n] \in Live /\ n \in Numbers(chan[fds[n]])

\* The tests of descriptors in chan_valid(), nc_create_cbs_tx_sock() and nh_std_cb()
\* take 0 for "not set", and 0 is a descriptor a program without standard input is
\* given.  No channel is misjudged for it: the pipe is made before the socket and its
\* reading end first, so a channel with a stream id is valid exactly while it is ready.
ValidWhileReady ==
  \A c \in Live : /\ chan_valid(c) <=> chan[c].ready /\ chan[c].sid # 0
                  /\ chan[c].w > 0

\* Tx priorities do not change under a channel of the list: each sends with the
\* priority its nethandler has now.  (One that fell off the list, see
\* NumIsRegistered, may not.)
ListedShareOnePriority ==
  ~mixed => \A c \in Linked("tx") : chan[c].prio = tx_prio[chan[c].sc]

\* "number of registered channels" (netchan.h:746): what nh_get_num_tx() counts
\* is the Tx channels created and not destroyed.
NumIsRegistered ==
  Up => _nh_get_len("tx") = Cardinality({c \in Live : chan[c].kind = "tx"})
=============================================================================

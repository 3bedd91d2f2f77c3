--------------------------- MODULE ChannelsProofs ---------------------------
(***************************************************************************)
(* The channels of a nethandler, for any number of addresses, descriptors  *)
(* and creations, any attributes and any way the creations fail: channels  *)
(* keep to their own descriptors and leave none open, the lists are lists, *)
(* and the channels on them are in order, stay there until they are        *)
(* destroyed and share a priority.                                         *)
(***************************************************************************)
EXTENDS Channels, FiniteSetTheorems, WellFoundedInduction, TLAPS

\* The parts of a channel that is complete: its pipe was made before its socket,
\* which only a Tx channel has, and it has a callback area if it is an Rx channel.
Formed(ch) ==
  /\ ch.r < ch.w
  /\ IF ch.kind = "tx" THEN ch.w < ch.sock ELSE ch.sock = -1
  /\ ch.cbp <=> ch.kind = "rx"

ChanInv == \A c \in Live : Formed(chan[c])

\* What a channel names it holds, but for 0 after a creation has failed early.
Holds(c, ch, t, e) == \A n \in Numbers(ch) : n # 0 \/ ~e => t[n] = c

FdInv ==
  /\ \A c \in Live : Holds(c, chan[c], fds, early)
  /\ NothingLeftOpen
  /\ foreign \subseteq {0} /\ (~early => foreign = {})

\* List k consists of the channels s[1] to s[n]: live ones of its kind, in the order
\* of their creation.  The tail may be stale; on the list it is the last.
Chain(k, n, s) ==
  /\ head[k] = IF n = 0 THEN Null ELSE s[1]
  /\ \A i \in 1 .. n :
       /\ s[i] \in Live /\ chan[s[i]].kind = k
       /\ k = "tx" => chan[s[i]].prio = tx_prio[chan[s[i]].sc]
       /\ next[s[i]] = IF i = n THEN Null ELSE s[i + 1]
       /\ tail[k] = s[i] => i = n
  /\ \A i, j \in 1 .. n : i < j => s[i] # s[j] /\ <<s[i], s[j]>> \in older

IsList(k) == \E n \in Nat : \E s \in [1 .. n -> Addrs] : Chain(k, n, s)

ListInv == ~mixed => \A k \in Kinds : IsList(k)

\* The inductive invariant.
ChannelsInv == TypeOK /\ ChanInv /\ FdInv /\ ListInv
-----------------------------------------------------------------------------
\* A set of naturals that is not empty has a least element: the turn at which
\* a search loop of the code stops exists.  A natural n is represented by the
\* finite set of the naturals below it, ordered by strict inclusion.
LEMMA LeastNat ==
  ASSUME NEW T \in SUBSET Nat, T # {}
  PROVE  \E x \in T : \A y \in T : x <= y
<1> DEFINE Below(n) == 0 .. n - 1
           B == {Below(n) : n \in T}
           R == StrictSubsetOrdering(Nat)
<1>1. IsWellFoundedOn(R, FiniteSubsetsOf(Nat))
  BY FS_StrictSubsetOrderingWellFounded
<1>2. \A n \in T : Below(n) \in FiniteSubsetsOf(Nat)
  BY FS_Interval DEF FiniteSubsetsOf
<1>3. B \subseteq FiniteSubsetsOf(Nat) /\ B # {}
  BY <1>2, Zenon
<1>4. \E b \in B : \A a \in B : ~(<<a, b>> \in R)
  <2> HIDE DEF B, R
  <2> QED BY <1>1, <1>3, WFMin
<1>5. PICK x \in T : \A a \in B : ~(<<a, Below(x)>> \in R)
  BY <1>4
<1>6. ASSUME NEW y \in T, y < x
      PROVE  FALSE
  <2>1. Below(y) \subseteq Below(x) /\ y \in Below(x) /\ y \notin Below(y)
    BY <1>6
  <2>2. <<Below(y), Below(x)>> \in R
    BY <2>1, <1>2 DEF StrictSubsetOrdering, FiniteSubsetsOf
  <2> QED BY <2>2, <1>5, Zenon
<1> QED BY <1>6

\* What Min() returns.
LEMMA MinNat ==
  ASSUME NEW S \in SUBSET Nat, S # {}
  PROVE  Min(S) \in S /\ \A y \in S : Min(S) <= y
<1>1. \E x \in S : \A y \in S : x <= y
  BY LeastNat
<1> QED BY <1>1, Zenon DEF Min

\* The lowest of some descriptors.
LEMMA MinFd ==
  ASSUME NEW S \in SUBSET Fds, S # {}
  PROVE  Min(S) \in S /\ \A y \in S : Min(S) <= y
<1>1. S \in SUBSET Nat
  BY ChannelsAssumption DEF Fds
<1> QED BY <1>1, MinNat

\* The descriptors that pipe() and socket() give a channel are free, and in order.
LEMMA OpenFds ==
  ASSUME Cardinality(FreeFds) >= 2, NEW r, r = Min(FreeFds), NEW w, w = Min(FreeFds \ {r})
  PROVE  /\ r \in FreeFds /\ w \in FreeFds /\ r < w
         /\ Cardinality(FreeFds) >= 3 =>
              Min(FreeFds \ {r, w}) \in FreeFds /\ w < Min(FreeFds \ {r, w})
<1>1. IsFiniteSet(FreeFds) /\ FreeFds \in SUBSET Fds
  <2>1. IsFiniteSet(Fds)
    BY ChannelsAssumption, FS_Interval DEF Fds
  <2>2. FreeFds \in SUBSET Fds
    BY DEF FreeFds
  <2> QED BY <2>1, <2>2, FS_Subset
<1>2. Cardinality(FreeFds) \in Nat
  BY <1>1, FS_CardinalityType
<1>3. FreeFds # {}
  BY FS_EmptySet
<1>4. r \in FreeFds /\ \A y \in FreeFds : r <= y
  BY <1>1, <1>3, MinFd
<1>5. IsFiniteSet(FreeFds \ {r}) /\ Cardinality(FreeFds \ {r}) = Cardinality(FreeFds) - 1
  BY <1>1, <1>4, FS_RemoveElement
<1>6. FreeFds \ {r} # {}
  BY <1>2, <1>5, FS_EmptySet
<1>7. w \in FreeFds \ {r} /\ \A y \in FreeFds \ {r} : w <= y
  <2>1. FreeFds \ {r} \in SUBSET Fds
    BY <1>1
  <2> QED BY <2>1, <1>6, MinFd
<1>8. \A y \in Fds : y \in Int
  BY ChannelsAssumption DEF Fds
<1>9. r < w
  BY <1>1, <1>4, <1>7, <1>8
<1>10. ASSUME Cardinality(FreeFds) >= 3
       PROVE  Min(FreeFds \ {r, w}) \in FreeFds /\ w < Min(FreeFds \ {r, w})
  <2> DEFINE S == (FreeFds \ {r}) \ {w}
  <2>1. S = FreeFds \ {r, w} /\ S \in SUBSET Fds
    BY <1>1
  <2>2. Cardinality(S) = Cardinality(FreeFds \ {r}) - 1
    BY <1>5, <1>7, FS_RemoveElement
  <2>3. S # {}
    <3>1. Cardinality(S) >= 1
      BY <2>2, <1>5, <1>2, <1>10
    <3> HIDE DEF S
    <3> QED BY <3>1, FS_EmptySet
  <2>4. Min(S) \in S
    <3> HIDE DEF S
    <3> QED BY <2>1, <2>3, MinFd
  <2>5. Min(S) \in FreeFds /\ Min(S) # w /\ w <= Min(S) /\ Min(S) \in Int /\ w \in Int
    <3>1. \A y \in S : y \in FreeFds \ {r} /\ y # w /\ y \in Fds
      BY <1>1
    <3> HIDE DEF S
    <3> QED BY <2>4, <3>1, <1>7, <1>8, <1>1
  <2>6. Min(S) = Min(FreeFds \ {r, w})
    BY <2>1
  <2> HIDE DEF S
  <2> QED BY <2>5, <2>6
<1> QED BY <1>4, <1>7, <1>9, <1>10

\* A channel with its pipe, and its socket if it is to have one.
LEMMA OpenIs ==
  ASSUME NEW k \in Kinds, NEW a \in Attrs, NEW sock \in BOOLEAN,
         Cardinality(FreeFds) >= IF sock THEN 3 ELSE 2,
         NEW o, o = Open(Blank(k, a), sock)
  PROVE  /\ o = [kind |-> k, sc |-> a.sc, sid |-> a.sid, r |-> o.r, w |-> o.w, sock |-> o.sock,
                 prio |-> 0, cbp |-> FALSE, ready |-> FALSE, stopping |-> FALSE]
         /\ o.r \in FreeFds /\ o.w \in FreeFds /\ o.r < o.w
         /\ IF sock THEN o.sock \in FreeFds /\ o.w < o.sock ELSE o.sock = -1
<1> DEFINE r == Min(FreeFds)
           w == Min(FreeFds \ {r})
           x == IF sock THEN Min(FreeFds \ {r, w}) ELSE -1
<1>1. o = [kind |-> k, sc |-> a.sc, sid |-> a.sid, r |-> r, w |-> w, sock |-> x,
           prio |-> 0, cbp |-> FALSE, ready |-> FALSE, stopping |-> FALSE]
  BY Zenon DEF Open, Blank
<1>2. Cardinality(FreeFds) >= 2 /\ (sock => Cardinality(FreeFds) >= 3)
  <2>1. IsFiniteSet(Fds) /\ FreeFds \in SUBSET Fds
    BY ChannelsAssumption, FS_Interval DEF Fds, FreeFds
  <2>2. Cardinality(FreeFds) \in Nat
    BY <2>1, FS_Subset, FS_CardinalityType
  <2> QED BY <2>2
<1>3. /\ r \in FreeFds /\ w \in FreeFds /\ r < w
      /\ sock => Min(FreeFds \ {r, w}) \in FreeFds /\ w < Min(FreeFds \ {r, w})
  BY <1>2, OpenFds
<1>4. o.r = r /\ o.w = w /\ o.sock = x
  <2> HIDE DEF r, w, x
  <2> QED BY <1>1
<1>5. sock => x = Min(FreeFds \ {r, w})
  OBVIOUS
<1>6. ~sock => x = -1
  OBVIOUS
<1> HIDE DEF r, w, x
<1> QED BY <1>1, <1>3, <1>4, <1>5, <1>6
-----------------------------------------------------------------------------
\* An injective sequence of addresses is no longer than there are addresses.
LEMMA ChainShort ==
  ASSUME NEW k, NEW n \in Nat, NEW s \in [1 .. n -> Addrs], Chain(k, n, s)
  PROVE  n <= Cardinality(Addrs) /\ Cardinality(Addrs) \in Nat
<1>1. IsFiniteSet(Addrs) /\ IsFiniteSet(1 .. n) /\ Cardinality(1 .. n) = n
  BY ChannelsAssumption, FS_Interval
<1>2. s \in Injection(1 .. n, Addrs)
  <2>1. \A i, j \in 1 .. n : s[i] = s[j] => i = j
    <3>1. \A i, j \in 1 .. n : i < j => s[i] # s[j]
      BY Zenon DEF Chain
    <3>2. \A i, j \in 1 .. n : i < j \/ j < i \/ i = j
      OBVIOUS
    <3> QED BY <3>1, <3>2
  <2> QED BY <2>1 DEF Injection, IsInjective
<1>3. Cardinality(1 .. n) <= Cardinality(Addrs)
  BY <1>1, <1>2, FS_Injection
<1> QED BY <1>1, <1>3, FS_CardinalityType

\* Walking the list meets its channels, then NULL.
LEMMA WalkIs ==
  ASSUME NEW k, NEW n \in Nat, NEW s \in [1 .. n -> Addrs], Chain(k, n, s)
  PROVE  /\ DOMAIN Walk(k) = 0 .. Cardinality(Addrs)
         /\ \A j \in 0 .. Cardinality(Addrs) :
              Walk(k)[j] = IF j < n THEN s[j + 1] ELSE Null
<1> DEFINE N == Cardinality(Addrs)
           Step(g, j) == IF j = 0 THEN head[k] ELSE IF g[j - 1] = Null THEN Null ELSE next[g[j - 1]]
           v == [j \in 0 .. N |-> IF j < n THEN s[j + 1] ELSE Null]
<1>1. N \in Nat /\ n <= N
  BY ChainShort
<1>2. \A j \in 0 .. N : v[j] = Step(v, j)
  <2> TAKE j \in 0 .. N
  <2>1. CASE j = 0
    <3>1. v[0] = IF 0 < n THEN s[1] ELSE Null
      BY <1>1
    <3>2. head[k] = IF n = 0 THEN Null ELSE s[1]
      BY DEF Chain
    <3> HIDE DEF v
    <3> QED BY <2>1, <3>1, <3>2
  <2>2. CASE j # 0
    <3>1. j - 1 \in 0 .. N /\ j - 1 >= 0 /\ (j - 1) + 1 = j
      BY <1>1, <2>2
    <3>2. v[j - 1] = IF j - 1 < n THEN s[j] ELSE Null
      BY <3>1
    <3>3. v[j] = IF j < n THEN s[j + 1] ELSE Null
      OBVIOUS
    <3>4. CASE j - 1 < n
      <4>1. j \in 1 .. n
        BY <1>1, <2>2, <3>4
      <4>2. s[j] \in Addrs /\ s[j] # Null
        BY <4>1, ChannelsAssumption
      <4>3. next[s[j]] = IF j = n THEN Null ELSE s[j + 1]
        BY <4>1 DEF Chain
      <4>4. (j = n) <=> ~(j < n)
        BY <4>1
      <4> HIDE DEF v, N
      <4> QED BY <2>2, <3>2, <3>3, <3>4, <4>2, <4>3, <4>4
    <3>5. CASE ~(j - 1 < n)
      <4>1. ~(j < n)
        BY <3>5, <1>1
      <4> HIDE DEF v, N
      <4> QED BY <2>2, <3>2, <3>3, <3>5, <4>1
    <3> QED BY <3>4, <3>5
  <2> QED BY <2>1, <2>2
<1>3. v = [j \in 0 .. N |-> Step(v, j)]
  <2>1. v = [j \in 0 .. N |-> v[j]]
    OBVIOUS
  <2> HIDE DEF v, Step
  <2> QED BY <1>2, <2>1
<1>4. Walk(k) = [j \in 0 .. N |-> Step(Walk(k), j)]
  <2>1. \E g : g = [j \in 0 .. N |-> Step(g, j)]
    <3> HIDE DEF v
    <3> QED BY <1>3, Zenon
  <2>2. Walk(k) = CHOOSE g : g = [j \in 0 .. N |-> Step(g, j)]
    BY Zenon DEF Walk
  <2> HIDE DEF Step
  <2> QED BY <2>1, <2>2, Zenon
<1> DEFINE u == Walk(k)
<1>5. \A j \in 0 .. N : u[j] = Step(u, j)
  <2>1. u = [j \in 0 .. N |-> Step(u, j)]
    BY <1>4, Zenon
  <2> HIDE DEF u, Step
  <2> QED BY <2>1, Zenon
<1> DEFINE T == {j \in Nat : j <= N /\ u[j] # v[j]}
<1>6. ASSUME T # {} PROVE FALSE
  <2>0. T \in SUBSET Nat
    OBVIOUS
  <2>1. PICK j \in T : \A i \in T : j <= i
    <3> HIDE DEF T
    <3> QED BY <2>0, <1>6, LeastNat
  <2>2. j \in 0 .. N /\ u[j] # v[j]
    BY <1>1, <2>1
  <2>3. j # 0 => u[j - 1] = v[j - 1]
    <3> SUFFICES ASSUME j # 0 PROVE u[j - 1] = v[j - 1]
      OBVIOUS
    <3>1. j - 1 \in Nat /\ j - 1 <= N /\ ~(j <= j - 1)
      BY <1>1, <2>2
    <3>2. j - 1 \notin T
      <4> HIDE DEF T
      <4> QED BY <3>1, <2>1
    <3> HIDE DEF u, v
    <3> QED BY <3>1, <3>2
  <2>4. u[j] = Step(u, j) /\ v[j] = Step(v, j)
    <3> HIDE DEF u, v, Step
    <3> QED BY <1>2, <1>5, <2>2
  <2>5. Step(u, j) = Step(v, j)
    <3> HIDE DEF u, v
    <3> QED BY <2>3
  <2> HIDE DEF u, v, Step
  <2> QED BY <2>2, <2>4, <2>5
<1>7. \A j \in 0 .. N : u[j] = v[j]
  <2> HIDE DEF u, v
  <2> QED BY <1>1, <1>6
<1>8. DOMAIN u = 0 .. N
  <2>1. u = [j \in 0 .. N |-> Step(u, j)]
    BY <1>4, Zenon
  <2> HIDE DEF u, Step
  <2> QED BY <2>1
<1> QED BY <1>7, <1>8

\* The channels a walk meets.
LEMMA LinkedIs ==
  ASSUME NEW k, NEW n \in Nat, NEW s \in [1 .. n -> Addrs], Chain(k, n, s)
  PROVE  Linked(k) = {s[i] : i \in 1 .. n}
<1> DEFINE N == Cardinality(Addrs)
<1>1. N \in Nat /\ n <= N
  BY ChainShort
<1>2. \A j \in 0 .. N : Walk(k)[j] = IF j < n THEN s[j + 1] ELSE Null
  BY WalkIs
<1>3. Linked(k) = {Walk(k)[j] : j \in 0 .. N} \ {Null}
  BY Zenon DEF Linked
<1> HIDE DEF N
<1>4. ASSUME NEW c \in Linked(k) PROVE c \in {s[i] : i \in 1 .. n}
  <2>1. PICK j \in 0 .. N : c = Walk(k)[j]
    BY <1>3, <1>4
  <2>2. j < n /\ c = s[j + 1]
    BY <1>2, <1>3, <1>4, <2>1
  <2>3. j + 1 \in 1 .. n
    BY <1>1, <2>1, <2>2
  <2> QED BY <2>2, <2>3
<1>5. ASSUME NEW i \in 1 .. n PROVE s[i] \in Linked(k)
  <2>1. i - 1 \in 0 .. N /\ i - 1 < n /\ (i - 1) + 1 = i
    BY <1>1
  <2>2. Walk(k)[i - 1] = s[i]
    BY <1>2, <2>1
  <2>3. s[i] # Null
    BY ChannelsAssumption
  <2> QED BY <1>3, <2>1, <2>2, <2>3
<1> QED BY <1>4, <1>5

\* The channels on the lists exist.
LEMMA LinkedLive ==
  ASSUME ChannelsInv, ~mixed, NEW k \in Kinds
  PROVE  \A c \in Linked(k) : c \in Live /\ chan[c].kind = k
<1>1. PICK n \in Nat : \E s \in [1 .. n -> Addrs] : Chain(k, n, s)
  BY DEF ChannelsInv, ListInv, IsList
<1>2. PICK s \in [1 .. n -> Addrs] : Chain(k, n, s)
  BY <1>1
<1>3. Linked(k) = {s[i] : i \in 1 .. n}
  BY <1>1, <1>2, LinkedIs
<1> QED BY <1>2, <1>3 DEF Chain

\* A step that leaves the lists alone, and what they say of the channels on them.
LEMMA ChainSame ==
  ASSUME NEW k, NEW n \in Nat, NEW s \in [1 .. n -> Addrs], Chain(k, n, s),
         head'[k] = head[k], tail'[k] = tail[k], next' = next, tx_prio' = tx_prio,
         \A c \in Live : c \in Live' /\ chan'[c].kind = chan[c].kind
                         /\ chan'[c].prio = chan[c].prio /\ chan'[c].sc = chan[c].sc,
         older \subseteq older'
  PROVE  Chain(k, n, s)'
<1>1. head'[k] = IF n = 0 THEN Null ELSE s[1]
  BY DEF Chain
<1>2. ASSUME NEW i \in 1 .. n
      PROVE  /\ s[i] \in Live' /\ chan'[s[i]].kind = k
             /\ k = "tx" => chan'[s[i]].prio = tx_prio'[chan'[s[i]].sc]
             /\ next'[s[i]] = IF i = n THEN Null ELSE s[i + 1]
             /\ tail'[k] = s[i] => i = n
  BY DEF Chain
<1>3. \A i, j \in 1 .. n : i < j => s[i] # s[j] /\ <<s[i], s[j]>> \in older'
  BY DEF Chain
<1> QED BY <1>1, <1>2, <1>3 DEF Chain

\* Lists that a step leaves alone stay lists.
LEMMA ListsSame ==
  ASSUME ListInv, listVars' = listVars, tx_prio' = tx_prio, older' = older, mixed' = mixed,
         \A c \in Live : c \in Live' /\ chan'[c].kind = chan[c].kind
                         /\ chan'[c].prio = chan[c].prio /\ chan'[c].sc = chan[c].sc
  PROVE  ListInv'
<1> SUFFICES ASSUME ~mixed, NEW k \in Kinds PROVE IsList(k)'
  BY DEF ListInv
<1>1. PICK n \in Nat : \E s \in [1 .. n -> Addrs] : Chain(k, n, s)
  BY DEF ListInv, IsList
<1>2. PICK s \in [1 .. n -> Addrs] : Chain(k, n, s)
  BY <1>1
<1>3. head' = head /\ tail' = tail /\ next' = next
  BY DEF listVars
<1>4. Chain(k, n, s)'
  BY <1>1, <1>2, <1>3, ChainSame
<1> QED BY <1>1, <1>2, <1>4 DEF IsList
-----------------------------------------------------------------------------
\* What a live channel is, and the numbers it names.
LEMMA LiveType ==
  ASSUME TypeOK, NEW c \in Live
  PROVE  c \in Addrs /\ chan[c] \in Channel /\ chan[c] # Null
BY DEF TypeOK, Live

\* The numbers a channel names are descriptors.
LEMMA NumbersFds ==
  ASSUME NEW ch \in Channel
  PROVE  Numbers(ch) \subseteq Fds
<1>1. ch.r \in Fds /\ ch.w \in Fds /\ ch.sock \in Fds \cup {-1}
  BY DEF Channel
<1>2. ch.sock >= 0 => ch.sock \in Fds
  BY <1>1
<1> QED BY <1>1, <1>2 DEF Numbers

\* An address is not one of the other owners of descriptors.
LEMMA Owners ==
  ASSUME NEW c \in Addrs
  PROVE  c \notin {"free", "app", "nh", "lost"}
BY ChannelsAssumption

FdType == [Fds -> {"free", "app", "nh", "lost"} \cup Addrs]

\* The failing creations leave everything but descriptors alone.
LEMMA AbandonKeeps ==
  ASSUME ChannelsInv, NEW c \in Addrs, NEW a, NEW ch, NEW t, CanCreate(c, a), Abandon(c, ch, t),
         early' \in BOOLEAN, fds' \in FdType, FdInv'
  PROVE  ChannelsInv'
<1>1. /\ listVars' = listVars /\ chan' = chan /\ older' = older /\ tx_prio' = tx_prio
      /\ use_srp' = use_srp /\ nh' = nh /\ failing' = failing /\ mixed' = mixed
  BY DEF Abandon
<1>2. head' = head /\ tail' = tail /\ next' = next /\ Live' = Live
  BY <1>1 DEF listVars, Live
<1>3. made' \in 0 .. MaxMade
  BY ChannelsAssumption DEF CanCreate, ChannelsInv, TypeOK
<1>4. foreign' \subseteq Fds
  BY ChannelsAssumption DEF FdInv, Fds
<1>5. TypeOK'
  BY <1>1, <1>2, <1>3, <1>4 DEF ChannelsInv, TypeOK, FdType
<1>6. ChanInv'
  BY <1>1, <1>2 DEF ChannelsInv, ChanInv
<1>7. ListInv'
  BY <1>1, <1>2, ListsSame DEF ChannelsInv
<1> QED BY <1>5, <1>6, <1>7 DEF ChannelsInv

\* One that fails early closes 0.
LEMMA EarlyKeeps ==
  ASSUME ChannelsInv, NEW c \in Addrs, NEW a, NEW ch, CanCreate(c, a), early' = TRUE,
         Abandon(c, ch, fds), Numbers(ch) = {0}, ch.w = 0
  PROVE  ChannelsInv'
<1>1. /\ fds' = [n \in Fds |-> IF n = 0 THEN "free" ELSE fds[n]]
      /\ foreign' \subseteq foreign \cup {0}
      /\ chan' = chan /\ Live' = Live
  BY DEF Abandon, close_all, Written, Live
<1>2. fds' \in FdType
  BY <1>1 DEF ChannelsInv, TypeOK, FdType
<1>3. FdInv'
  <2>1. ASSUME NEW d \in Live PROVE Holds(d, chan[d], fds', TRUE)
    <3>1. Holds(d, chan[d], fds, early) /\ Numbers(chan[d]) \subseteq Fds
      BY LiveType, NumbersFds DEF ChannelsInv, FdInv
    <3> QED BY <3>1, <1>1 DEF Holds
  <2>2. NothingLeftOpen'
    <3> SUFFICES ASSUME NEW n \in Fds, fds'[n] \in Addrs
                 PROVE  fds'[n] \in Live /\ n \in Numbers(chan[fds'[n]])
      BY <1>1 DEF NothingLeftOpen
    <3>1. fds'[n] = fds[n]
      BY <1>1, Owners
    <3> QED BY <3>1 DEF ChannelsInv, FdInv, NothingLeftOpen
  <2>3. foreign' \subseteq {0}
    BY <1>1 DEF ChannelsInv, FdInv
  <2> QED BY <1>1, <2>1, <2>2, <2>3, Zenon DEF FdInv
<1> QED BY <1>2, <1>3, AbandonKeeps

\* chan_create() when the guard cannot be made.
LEMMA GuardFailsKeeps ==
  ASSUME ChannelsInv, NEW c \in Addrs, NEW k \in Kinds, NEW a \in Attrs, guard_fails(c, k, a)
  PROVE  ChannelsInv'
<1>1. Numbers(Blank(k, a)) = {0} /\ Blank(k, a).w = 0
  BY DEF Numbers, Blank
<1> QED BY <1>1, EarlyKeeps DEF guard_fails

\* chan_create() when no pipe can be made.
LEMMA PipeFailsKeeps ==
  ASSUME ChannelsInv, NEW c \in Addrs, NEW k \in Kinds, NEW a \in Attrs, pipe_fails(c, k, a)
  PROVE  ChannelsInv'
<1> DEFINE ch == [Blank(k, a) EXCEPT !.sock = -1]
<1>1. Numbers(ch) = {0} /\ ch.w = 0
  BY DEF Numbers, Blank
<1>2. CanCreate(c, a) /\ early' = TRUE /\ Abandon(c, ch, fds)
  BY DEF pipe_fails
<1> HIDE DEF ch
<1> QED BY <1>1, <1>2, EarlyKeeps

\* One that fails after its pipe was made closes what it opened, but for a socket.
LEMMA LateKeeps ==
  ASSUME ChannelsInv, NEW c \in Addrs, NEW a, NEW ch, NEW t, CanCreate(c, a), early' = early,
         Abandon(c, ch, t), Numbers(ch) = {ch.r, ch.w}, ch.stopping \in BOOLEAN,
         ch.r \in FreeFds, ch.w \in FreeFds, t[ch.r] = c, t[ch.w] = c,
         \A n \in Fds \ {ch.r, ch.w} : t[n] = fds[n] \/ (fds[n] = "free" /\ t[n] \in {"free", "lost"})
  PROVE  ChannelsInv'
<1>1. /\ \A n \in Fds : fds'[n] = fds[n] \/ (fds[n] = "free" /\ fds'[n] \in {"free", "lost"})
      /\ fds' = [n \in Fds |-> fds'[n]]
      /\ chan' = chan /\ Live' = Live
  <2>1. fds' = [n \in Fds |-> IF n \in Numbers(ch) THEN "free" ELSE t[n]]
    BY DEF Abandon, close_all
  <2>2. chan' = chan /\ Live' = Live
    BY DEF Abandon, Live
  <2> QED BY <2>1, <2>2 DEF FreeFds
<1>2. foreign' = foreign
  <2>1. Written(c, ch, t) = {}
    BY DEF Written
  <2>2. {n \in Numbers(ch) : t[n] # c} = {}
    OBVIOUS
  <2> QED BY <2>1, <2>2 DEF Abandon, close_all
<1>3. fds' \in FdType
  <2>1. \A n \in Fds : fds'[n] \in {"free", "app", "nh", "lost"} \cup Addrs
    BY <1>1 DEF ChannelsInv, TypeOK
  <2> QED BY <1>1, <2>1 DEF FdType
<1>4. FdInv'
  <2>1. ASSUME NEW d \in Live PROVE Holds(d, chan[d], fds', early)
    <3>1. Holds(d, chan[d], fds, early) /\ Numbers(chan[d]) \subseteq Fds /\ d # "free"
      BY LiveType, NumbersFds, Owners DEF ChannelsInv, FdInv
    <3> QED BY <3>1, <1>1 DEF Holds
  <2>2. NothingLeftOpen'
    <3> SUFFICES ASSUME NEW n \in Fds, fds'[n] \in Addrs
                 PROVE  fds'[n] \in Live /\ n \in Numbers(chan[fds'[n]])
      BY <1>1 DEF NothingLeftOpen
    <3>1. fds'[n] = fds[n]
      BY <1>1, Owners
    <3> QED BY <3>1 DEF ChannelsInv, FdInv, NothingLeftOpen
  <2> QED BY <1>1, <1>2, <2>1, <2>2 DEF FdInv, ChannelsInv
<1>5. early' \in BOOLEAN
  BY DEF ChannelsInv, TypeOK
<1> QED BY <1>3, <1>4, <1>5, AbandonKeeps

\* chan_create() when the socket, its priority or the Rx buffer fails.
LEMMA PartFailsKeeps ==
  ASSUME ChannelsInv, NEW c \in Addrs, NEW k \in Kinds, NEW a \in Attrs, part_fails(c, k, a)
  PROVE  ChannelsInv'
<1> DEFINE ch == Open(Blank(k, a), FALSE)
           t  == Held(c, ch)
           no == {n \in Fds : t[n] = "free"}
<1>1. /\ CanCreate(c, a) /\ early' = early
      /\ Abandon(c, ch, t) \/ (no # {} /\ Abandon(c, ch, [t EXCEPT ![Min(no)] = "lost"]))
      /\ Cardinality(FreeFds) >= 2
  BY Zenon DEF part_fails
<1>2. /\ ch.r \in FreeFds /\ ch.w \in FreeFds /\ ch.sock = -1 /\ ch.stopping = FALSE
  <2>1. ch = [kind |-> k, sc |-> a.sc, sid |-> a.sid, r |-> ch.r, w |-> ch.w, sock |-> ch.sock,
              prio |-> 0, cbp |-> FALSE, ready |-> FALSE, stopping |-> FALSE]
    BY <1>1, OpenIs, Zenon
  <2>2. ch.r \in FreeFds /\ ch.w \in FreeFds /\ ch.sock = -1
    BY <1>1, OpenIs, Zenon
  <2> HIDE DEF ch
  <2> QED BY <2>1, <2>2
<1> HIDE DEF ch
<1>3. Numbers(ch) = {ch.r, ch.w}
  BY <1>2 DEF Numbers
<1>4. t = [n \in Fds |-> IF n \in {ch.r, ch.w} THEN c ELSE fds[n]]
  BY <1>3 DEF Held
<1>5. ch.r \in Fds /\ ch.w \in Fds
  BY <1>2 DEF FreeFds
<1>6. CASE Abandon(c, ch, t)
  <2>1. t[ch.r] = c /\ t[ch.w] = c /\ \A n \in Fds \ {ch.r, ch.w} : t[n] = fds[n]
    BY <1>4, <1>5
  <2> HIDE DEF t
  <2> QED BY <1>1, <1>2, <1>3, <1>6, <2>1, LateKeeps, Zenon
<1>7. CASE no # {} /\ Abandon(c, ch, [t EXCEPT ![Min(no)] = "lost"])
  <2>1. Min(no) \in no
    <3>1. no \in SUBSET Fds
      OBVIOUS
    <3> HIDE DEF no
    <3> QED BY <3>1, <1>7, MinFd
  <2> DEFINE u == [t EXCEPT ![Min(no)] = "lost"]
             x == Min(no)
  <2>2. x \in Fds /\ t[x] = "free" /\ c # "free"
    BY <2>1, Owners
  <2>3. u = [t EXCEPT ![x] = "lost"]
    OBVIOUS
  <2> HIDE DEF x, no
  <2>4. x # ch.r /\ x # ch.w /\ fds[x] = "free"
    BY <1>4, <1>5, <2>2
  <2>5. /\ u[ch.r] = c /\ u[ch.w] = c
        /\ \A n \in Fds \ {ch.r, ch.w} : u[n] = fds[n] \/ (fds[n] = "free" /\ u[n] \in {"free", "lost"})
    <3> HIDE DEF u
    <3> QED BY <1>4, <1>5, <2>2, <2>3, <2>4
  <2>6. Abandon(c, ch, u)
    BY <1>7
  <2> HIDE DEF u, t
  <2> QED BY <1>1, <1>2, <1>3, <2>5, <2>6, LateKeeps, Zenon
<1> QED BY <1>1, <1>6, <1>7

\* chan_create() when SO_TXTIME is refused.
LEMMA TxtimeFailsKeeps ==
  ASSUME ChannelsInv, NEW c \in Addrs, NEW a \in Attrs, txtime_fails(c, a)
  PROVE  ChannelsInv'
<1> DEFINE o  == Open(Blank("tx", a), TRUE)
           ch == [o EXCEPT !.sock = -1]
           t  == [Held(c, o) EXCEPT ![o.sock] = "free"]
<1>1. CanCreate(c, a) /\ early' = early /\ Abandon(c, ch, t) /\ Cardinality(FreeFds) >= 3
  BY DEF txtime_fails
<1>0. "tx" \in Kinds
  BY DEF Kinds
<1>2. /\ o = [kind |-> "tx", sc |-> a.sc, sid |-> a.sid, r |-> o.r, w |-> o.w, sock |-> o.sock,
              prio |-> 0, cbp |-> FALSE, ready |-> FALSE, stopping |-> FALSE]
      /\ o.r \in FreeFds /\ o.w \in FreeFds /\ o.r < o.w
      /\ o.sock \in FreeFds /\ o.w < o.sock
  <2>1. Cardinality(FreeFds) >= IF TRUE THEN 3 ELSE 2
    BY <1>1
  <2> HIDE DEF o
  <2>2. /\ o = [kind |-> "tx", sc |-> a.sc, sid |-> a.sid, r |-> o.r, w |-> o.w, sock |-> o.sock,
                prio |-> 0, cbp |-> FALSE, ready |-> FALSE, stopping |-> FALSE]
        /\ o.r \in FreeFds /\ o.w \in FreeFds /\ o.r < o.w
        /\ IF TRUE THEN o.sock \in FreeFds /\ o.w < o.sock ELSE o.sock = -1
    BY <1>0, <2>1, OpenIs, Zenon DEF o
  <2> QED BY <2>2
<1> HIDE DEF o
<1>3. ch.r = o.r /\ ch.w = o.w /\ ch.sock = -1 /\ ch.stopping = FALSE
  BY <1>2
<1>4. Numbers(ch) = {ch.r, ch.w}
  BY <1>3 DEF Numbers
<1>5. \A n \in FreeFds : n \in Fds /\ n \in Int /\ n >= 0 /\ fds[n] = "free"
  BY ChannelsAssumption DEF FreeFds, Fds
<1>6. o.sock # o.r /\ o.sock # o.w
  BY <1>2, <1>5
<1>7. Numbers(o) = {o.r, o.w, o.sock}
  BY <1>2, <1>5 DEF Numbers
<1>8. \A n \in Fds : t[n] = IF n = o.sock THEN "free" ELSE IF n \in {o.r, o.w} THEN c ELSE fds[n]
  BY <1>7, <1>5 DEF Held
<1> HIDE DEF t, ch
<1>9. /\ t[ch.r] = c /\ t[ch.w] = c
      /\ \A n \in Fds \ {ch.r, ch.w} : t[n] = fds[n] \/ (fds[n] = "free" /\ t[n] \in {"free", "lost"})
  BY <1>2, <1>3, <1>5, <1>6, <1>8
<1>10. ch.r \in FreeFds /\ ch.w \in FreeFds /\ ch.stopping \in BOOLEAN
  BY <1>2, <1>3, Zenon
<1> QED BY <1>1, <1>4, <1>9, <1>10, LateKeeps
-----------------------------------------------------------------------------
\* What a walk meets, in every state and so in the next one too.
WalksMeet ==
  \A k : \A n \in Nat : \A s \in [1 .. n -> Addrs] : Chain(k, n, s) => Linked(k) = {s[i] : i \in 1 .. n}

\* A walk meets the channels of the chain.
LEMMA WalksMeetIt == WalksMeet
BY LinkedIs DEF WalksMeet

\* After the next step a walk meets the channels of the chain there is then.
LEMMA WalksMeetItThen == WalksMeet'
BY WalksMeetIt, PTL

\* Channels of a list that are, but for c, also in the one that comes of it stay listed.
LEMMA LinkedGrows ==
  ASSUME NEW q, NEW c, NEW n \in Nat, NEW s \in [1 .. n -> Addrs], Chain(q, n, s),
         NEW m \in Nat, NEW z \in [1 .. m -> Addrs], Chain(q, m, z)',
         \A i \in 1 .. n : s[i] = c \/ \E j \in 1 .. m : s[i] = z[j]
  PROVE  Linked(q) \ {c} \subseteq Linked(q)'
<1>1. Linked(q) = {s[i] : i \in 1 .. n}
  BY LinkedIs
<1>2. Linked(q)' = {z[i] : i \in 1 .. m}
  BY WalksMeetItThen DEF WalksMeet
<1> QED BY <1>1, <1>2

\* How a new channel c gets on list k, or behind a stale tail off it.
LEMMA AddChain ==
  ASSUME ChannelsInv, ~mixed, NEW k \in Kinds, NEW c \in Addrs, c \notin Live, NEW ch,
         nh_add(k, c), ~mixed', chan' = [chan EXCEPT ![c] = ch], ch # Null, ch.kind = k,
         k = "tx" => ch.prio = tx_prio[ch.sc],
         tx_prio' = tx_prio, older' = older \cup (Live \X {c}), NEW q \in Kinds
  PROVE  IsList(q)' /\ Linked(q) \ {c} \subseteq Linked(q)'
<1> USE DEF ChannelsInv
<1>0. /\ next[c] = Null /\ \A d \in Live : d \in Addrs /\ d # c /\ d \in Live' /\ chan'[d] = chan[d]
      /\ c \in Live' /\ chan'[c] = ch
  BY DEF TypeOK, Live
<1>n. /\ head'[k] = IF head[k] = Null THEN c ELSE head[k]
      /\ tail'[k] = c
      /\ \A p \in Kinds \ {k} : head'[p] = head[p] /\ tail'[p] = tail[p]
  BY DEF nh_add, TypeOK
<1>x. \A d \in Addrs : next'[d] = IF head[k] # Null /\ tail[k] \in Live \cup {c} /\ d = tail[k]
                                    THEN c ELSE next[d]
  BY DEF nh_add, TypeOK
<1>m. head[k] # Null /\ tail[k] \in Live => chan[tail[k]].kind = k
  BY Zenon DEF nh_add
<1>1. PICK n \in Nat : \E s \in [1 .. n -> Addrs] : Chain(q, n, s)
  BY DEF ListInv, IsList
<1>2. PICK s \in [1 .. n -> Addrs] : Chain(q, n, s)
  BY <1>1
<1>3. \A i \in 1 .. n : /\ s[i] \in Live /\ s[i] # c /\ chan'[s[i]] = chan[s[i]] /\ s[i] \in Live'
                        /\ chan[s[i]].kind = q
                        /\ q = "tx" => chan[s[i]].prio = tx_prio[chan[s[i]].sc]
                        /\ next[s[i]] = IF i = n THEN Null ELSE s[i + 1]
                        /\ tail[q] = s[i] => i = n
  BY <1>0, <1>2 DEF Chain
<1>4. \A i, j \in 1 .. n : i < j => s[i] # s[j] /\ <<s[i], s[j]>> \in older'
  BY <1>2 DEF Chain
<1>5. head[q] = IF n = 0 THEN Null ELSE s[1]
  BY <1>2 DEF Chain
\* The list stays as it is when the tail is not on it.
<1>6. CASE q # k \/ (n # 0 /\ \A i \in 1 .. n : tail[k] # s[i])
  <2>1. \A i \in 1 .. n : next'[s[i]] = next[s[i]]
    <3> SUFFICES ASSUME NEW i \in 1 .. n PROVE next'[s[i]] = next[s[i]]
      OBVIOUS
    <3>1. head[k] # Null /\ tail[k] \in Live \cup {c} => s[i] # tail[k]
      BY <1>3, <1>6, <1>m
    <3> QED BY <1>x, <3>1
  <2>2. head'[q] = head[q]
    <3>1. CASE q # k
      BY <1>n, <3>1
    <3>2. CASE q = k
      <4>1. 1 \in 1 .. n /\ s[1] \in Addrs
        BY <1>6, <3>2
      <4>2. head[k] # Null
        BY <1>5, <1>6, <3>2, <4>1, ChannelsAssumption
      <4> QED BY <1>n, <3>2, <4>2
    <3> QED BY <3>1, <3>2
  <2>3. \A i \in 1 .. n : tail'[q] = s[i] => i = n
    BY <1>3, <1>n
  <2>4. Chain(q, n, s)'
    BY <1>3, <1>4, <1>5, <2>1, <2>2, <2>3 DEF Chain
  <2>5. Linked(q) \ {c} \subseteq Linked(q)'
    BY <1>1, <1>2, <2>4, LinkedGrows
  <2> QED BY <1>1, <1>2, <2>4, <2>5 DEF IsList
\* The first channel of the list.
<1>7. CASE q = k /\ n = 0
  <2> DEFINE z == [i \in 1 .. 1 |-> c]
  <2>1. z \in [1 .. 1 -> Addrs] /\ z[1] = c /\ \A i \in 1 .. 1 : i = 1
    OBVIOUS
  <2> HIDE DEF z
  <2>2. head[k] = Null /\ next'[c] = Null /\ head'[k] = c
    BY <1>0, <1>5, <1>7, <1>n, <1>x
  <2>3. \A i, j \in 1 .. 1 : ~(i < j)
    OBVIOUS
  <2>4. Chain(k, 1, z)'
    BY <1>0, <2>1, <2>2, <2>3 DEF Chain
  <2>5. 1 \in Nat /\ \A i \in 1 .. n : FALSE
    BY <1>7
  <2>6. Linked(k) \ {c} \subseteq Linked(k)'
    BY <1>1, <1>2, <1>7, <2>1, <2>4, <2>5, LinkedGrows, Zenon
  <2> QED BY <1>7, <2>1, <2>4, <2>5, <2>6, Zenon DEF IsList
\* The new last one.
<1>8. CASE q = k /\ \E i \in 1 .. n : tail[k] = s[i]
  <2>1. n \in 1 .. n /\ tail[k] = s[n]
    BY <1>3, <1>8
  <2> DEFINE z == [i \in 1 .. n + 1 |-> IF i = n + 1 THEN c ELSE s[i]]
  <2>2. /\ z \in [1 .. n + 1 -> Addrs] /\ z[n + 1] = c
        /\ \A i \in 1 .. n : z[i] = s[i] /\ i \in 1 .. n + 1 /\ i # n + 1
        /\ \A i \in 1 .. n + 1 : i = n + 1 \/ i \in 1 .. n
    OBVIOUS
  <2> HIDE DEF z
  <2>3. head[k] # Null /\ head'[k] = z[1]
    <3>1. 1 \in 1 .. n /\ s[1] \in Addrs /\ n # 0
      BY <2>1
    <3> QED BY <1>5, <1>8, <1>n, <2>2, <3>1, ChannelsAssumption
  <2>4. tail[k] \in Live
    BY <1>3, <2>1
  <2>5. next'[z[n + 1]] = Null
    BY <1>0, <1>x, <2>2, <2>4
  <2>6. ASSUME NEW i \in 1 .. n
        PROVE  /\ z[i] \in Live' /\ chan'[z[i]].kind = k
               /\ k = "tx" => chan'[z[i]].prio = tx_prio'[chan'[z[i]].sc]
               /\ next'[z[i]] = z[i + 1]
               /\ tail'[k] # z[i]
    <3>1. CASE i = n
      <4>1. next'[s[n]] = c
        BY <1>x, <2>1, <2>3, <2>4
      <4> QED BY <1>3, <1>8, <1>n, <2>2, <3>1, <4>1
    <3>2. CASE i # n
      <4>1. i + 1 \in 1 .. n /\ i < n
        BY <3>2
      <4>2. s[i] # s[n]
        BY <1>4, <2>1, <4>1, Zenon
      <4>3. next'[s[i]] = s[i + 1]
        BY <1>3, <1>x, <2>1, <3>2, <4>2
      <4> QED BY <1>3, <1>8, <1>n, <2>2, <4>1, <4>3
    <3> QED BY <3>1, <3>2
  <2>7. ASSUME NEW i \in 1 .. n + 1, NEW j \in 1 .. n + 1, i < j
        PROVE  z[i] # z[j] /\ <<z[i], z[j]>> \in older'
    <3>1. i \in 1 .. n
      BY <2>7
    <3>2. CASE j = n + 1
      BY <1>3, <2>2, <3>1, <3>2
    <3>3. CASE j # n + 1
      BY <1>4, <2>2, <2>7, <3>1, <3>3
    <3> QED BY <3>2, <3>3
  <2>8. Chain(k, n + 1, z)'
    <3>1. head'[k] = IF n + 1 = 0 THEN Null ELSE z[1]
      BY <2>3
    <3>2. ASSUME NEW i \in 1 .. n + 1
          PROVE  /\ z[i] \in Live' /\ chan'[z[i]].kind = k
                 /\ k = "tx" => chan'[z[i]].prio = tx_prio'[chan'[z[i]].sc]
                 /\ next'[z[i]] = IF i = n + 1 THEN Null ELSE z[i + 1]
                 /\ tail'[k] = z[i] => i = n + 1
      <4>1. CASE i = n + 1
        BY <1>0, <2>2, <2>5, <4>1
      <4>2. CASE i # n + 1
        BY <2>2, <2>6, <4>2
      <4> QED BY <4>1, <4>2
    <3> QED BY <2>7, <3>1, <3>2 DEF Chain
  <2>9. n + 1 \in Nat
    OBVIOUS
  <2>10. \A i \in 1 .. n : s[i] = c \/ \E j \in 1 .. n + 1 : s[i] = z[j]
    BY <2>2
  <2>11. Linked(k) \ {c} \subseteq Linked(k)'
    <3>1. Chain(k, n, s)
      BY <1>2, <1>8
    <3>2. Linked(k) = {s[i] : i \in 1 .. n}
      BY <1>1, <1>2, <3>1, LinkedIs
    <3>3. Linked(k)' = {z[i] : i \in 1 .. n + 1}
      BY <2>2, <2>8, <2>9, WalksMeetItThen DEF WalksMeet
    <3> QED BY <2>10, <3>2, <3>3
  <2> QED BY <1>8, <2>2, <2>8, <2>9, <2>11 DEF IsList
<1> QED BY <1>6, <1>7, <1>8

\* chan_create() when everything succeeds, up to the registration with SRP.
LEMMA CreateKeeps ==
  ASSUME ChannelsInv, NEW c \in Addrs, NEW k \in Kinds, NEW a \in Attrs, chan_create(c, k, a)
  PROVE  ChannelsInv' /\ (~mixed' => \A q \in Kinds : Linked(q) \ {c} \subseteq Linked(q)')
<1> DEFINE ch == [Open(Blank(k, a), k = "tx") EXCEPT
                    !.cbp = (k = "rx"), !.ready = ~use_srp,
                    !.prio = IF k = "tx" THEN tx_prio[a.sc] ELSE 0]
<1> USE DEF ChannelsInv
<1>1. /\ CanCreate(c, a) /\ Cardinality(FreeFds) >= (IF k = "tx" THEN 3 ELSE 2)
      /\ chan' = [chan EXCEPT ![c] = ch] /\ fds' = Held(c, ch)
      /\ nh_add(k, c) /\ older' = older \cup (Live \X {c})
      /\ failing' \in {Null, c} /\ tx_prio' = tx_prio /\ use_srp' = use_srp /\ nh' = nh
      /\ early' = early /\ foreign' = foreign
  <2>1. failing' \in {Null} \cup (IF use_srp /\ k = "tx" THEN {c} ELSE {})
    BY Zenon DEF chan_create
  <2> QED BY <2>1 DEF chan_create
<1>2. /\ ch \in Channel /\ ch # Null /\ Formed(ch)
      /\ ch.kind = k /\ ch.sc = a.sc /\ (k = "tx" => ch.prio = tx_prio[a.sc])
      /\ Numbers(ch) \subseteq FreeFds
  <2> DEFINE tx == (k = "tx")
             cb == (k = "rx")
             rd == ~use_srp
             p  == IF k = "tx" THEN tx_prio[a.sc] ELSE 0
             o  == Open(Blank(k, a), tx)
  <2>1. tx \in BOOLEAN /\ cb \in BOOLEAN /\ rd \in BOOLEAN /\ (tx <=> k = "tx") /\ (cb <=> k = "rx")
    BY Zenon
  <2>2. p \in {0} \cup Prios /\ (k = "tx" => p = tx_prio[a.sc])
    BY ChannelsAssumption DEF TypeOK, Classes
  <2>3. Cardinality(FreeFds) >= IF tx THEN 3 ELSE 2
    BY <1>1, Zenon
  <2>4. ch = [o EXCEPT !.cbp = cb, !.ready = rd, !.prio = p]
    BY Zenon
  <2>5. o = Open(Blank(k, a), tx)
    BY Zenon
  <2> HIDE DEF ch, tx, cb, rd, p, o
  <2>6. /\ o = [kind |-> k, sc |-> a.sc, sid |-> a.sid, r |-> o.r, w |-> o.w, sock |-> o.sock,
                prio |-> 0, cbp |-> FALSE, ready |-> FALSE, stopping |-> FALSE]
        /\ o.r \in FreeFds /\ o.w \in FreeFds /\ o.r < o.w
        /\ IF tx THEN o.sock \in FreeFds /\ o.w < o.sock ELSE o.sock = -1
    BY <1>1, <2>1, <2>3, <2>5, OpenIs, Zenon
  <2>7. PICK r, w, sock :
           /\ o = [kind |-> k, sc |-> a.sc, sid |-> a.sid, r |-> r, w |-> w, sock |-> sock,
             prio |-> 0, cbp |-> FALSE, ready |-> FALSE, stopping |-> FALSE]
           /\ r \in FreeFds /\ w \in FreeFds /\ r < w
           /\ IF tx THEN sock \in FreeFds /\ w < sock ELSE sock = -1
    BY <2>6, Zenon
  <2>8. ch = [kind |-> k, sc |-> a.sc, sid |-> a.sid, r |-> r, w |-> w, sock |-> sock,
             prio |-> p, cbp |-> cb, ready |-> rd, stopping |-> FALSE]
    BY <2>4, <2>7, Zenon
  <2>9. /\ ch.kind = k /\ ch.sc = a.sc /\ ch.r = r /\ ch.w = w /\ ch.sock = sock
        /\ ch.prio = p /\ ch.cbp = cb
    BY <2>8
  <2>10. \A n \in FreeFds : n \in Fds /\ n \in Int /\ n >= 0
    BY ChannelsAssumption DEF FreeFds, Fds
  <2>11. ch \in Channel
    <3>1. a.sc \in Classes /\ a.sid \in {b.sid : b \in Attrs}
      BY ChannelsAssumption DEF Classes
    <3>2. r \in Fds /\ w \in Fds /\ sock \in Fds \cup {-1}
      BY <2>7, <2>10
    <3>3. [kind |-> k, sc |-> a.sc, sid |-> a.sid, r |-> r, w |-> w, sock |-> sock,
             prio |-> p, cbp |-> cb, ready |-> rd, stopping |-> FALSE] \in Channel
      BY <2>1, <2>2, <3>1, <3>2, Zenon DEF Channel
    <3> QED BY <2>8, <3>3, Zenon
  <2>12. Formed(ch)
    BY <2>1, <2>7, <2>10, <2>9 DEF Formed
  <2>13. Numbers(ch) \subseteq FreeFds
    BY <2>7, <2>10, <2>9 DEF Numbers
  <2> QED BY <2>2, <2>11, <2>9, <2>12, <2>13, NullAssumption, Zenon
<1> HIDE DEF ch
<1>3. c \notin Live /\ ~mixed /\ made' \in 0 .. MaxMade
  BY <1>1, ChannelsAssumption DEF CanCreate, Idle, Up, TypeOK
<1>4. Live' = Live \cup {c} /\ chan'[c] = ch /\ \A d \in Live : chan'[d] = chan[d] /\ d # c
  <2>1. chan' = [chan EXCEPT ![c] = ch] /\ chan \in [Addrs -> Channel \cup {Null}]
    BY <1>1 DEF TypeOK
  <2> QED BY <1>2, <1>3, <2>1 DEF Live
<1>5. TypeOK'
  <2>1. chan' \in [Addrs -> Channel \cup {Null}]
    BY <1>1, <1>2 DEF TypeOK
  <2>2. fds' \in [Fds -> {"free", "app", "nh", "lost"} \cup Addrs]
    BY <1>1 DEF TypeOK, Held
  <2>3. head' \in [Kinds -> Live' \cup {Null}] /\ tail' \in [Kinds -> Addrs \cup {Null}]
    BY <1>1, <1>4 DEF TypeOK, nh_add
  <2>4. next' \in [Addrs -> Addrs \cup {Null}]
    BY <1>1, Zenon DEF TypeOK, nh_add
  <2>5. \A d \in Addrs \ Live' : next'[d] = Null
    BY <1>1, <1>4 DEF TypeOK, nh_add
  <2>6. mixed' \in BOOLEAN
    BY <1>1, Zenon DEF nh_add
  <2>7. older' \subseteq Live' \X Live' /\ failing' \in Live' \cup {Null}
    BY <1>1, <1>4 DEF TypeOK
  <2>8. tx_prio' \in [Classes -> Prios] /\ foreign' \subseteq Fds
    BY <1>1 DEF TypeOK
  <2>9. use_srp' \in BOOLEAN /\ nh' \in BOOLEAN /\ early' \in BOOLEAN
    BY <1>1, Zenon DEF TypeOK
  <2> QED BY <1>3, <2>1, <2>2, <2>3, <2>4, <2>5, <2>6, <2>7, <2>8, <2>9 DEF TypeOK
<1>6. ChanInv'
  BY <1>2, <1>4 DEF ChanInv
<1>7. FdInv'
  <2>0. \A n \in Fds : fds'[n] = IF n \in Numbers(ch) THEN c ELSE fds[n]
    BY <1>1 DEF Held
  <2>f. \A n \in Numbers(ch) : n \in Fds /\ fds[n] = "free"
    BY <1>2 DEF FreeFds
  <2>1. ASSUME NEW d \in Live' PROVE Holds(d, chan'[d], fds', early)
    <3>1. CASE d = c
      BY <1>4, <2>0, <2>f, <3>1 DEF Holds
    <3>2. CASE d # c
      <4>1. d \in Live /\ chan'[d] = chan[d]
        BY <1>4, <3>2
      <4>2. Holds(d, chan[d], fds, early) /\ Numbers(chan[d]) \subseteq Fds /\ d # "free"
        BY <4>1, LiveType, NumbersFds, Owners DEF FdInv
      <4> QED BY <2>0, <2>f, <4>1, <4>2 DEF Holds
    <3> QED BY <3>1, <3>2
  <2>2. NothingLeftOpen'
    <3> SUFFICES ASSUME NEW n \in Fds, fds'[n] \in Addrs
                 PROVE  fds'[n] \in Live' /\ n \in Numbers(chan'[fds'[n]])
      BY DEF NothingLeftOpen
    <3>1. CASE n \in Numbers(ch)
      BY <1>4, <2>0, <3>1
    <3>2. CASE n \notin Numbers(ch)
      BY <1>4, <2>0, <3>2 DEF FdInv, NothingLeftOpen
    <3> QED BY <3>1, <3>2
  <2> QED BY <1>1, <2>1, <2>2 DEF FdInv
<1>8. ASSUME ~mixed', NEW q \in Kinds PROVE IsList(q)' /\ Linked(q) \ {c} \subseteq Linked(q)'
  BY <1>1, <1>2, <1>3, <1>8, AddChain, Zenon
<1>9. ListInv' /\ (~mixed' => \A q \in Kinds : Linked(q) \ {c} \subseteq Linked(q)')
  BY <1>8, Zenon DEF ListInv
<1> QED BY <1>5, <1>6, <1>7, <1>9, Zenon
-----------------------------------------------------------------------------
\* A channel that exists has a pipe of its own to write to, and its socket tells its
\* kind.
LEMMA OwnPipe ==
  ASSUME ChannelsInv, NEW c \in Live
  PROVE  /\ chan[c].w > 0 /\ fds[chan[c].w] = c /\ Written(c, chan[c], fds) = {}
         /\ chan[c].kind = IF chan[c].sock >= 0 THEN "tx" ELSE "rx"
         /\ Numbers(chan[c]) \subseteq Fds
<1>1. c \in Addrs /\ chan[c] \in Channel
  BY LiveType DEF ChannelsInv
<1>2. /\ chan[c].r \in Fds /\ chan[c].w \in Fds /\ chan[c].sock \in Fds \cup {-1}
      /\ chan[c].kind \in {"tx", "rx"}
  BY <1>1 DEF Channel, Kinds
<1>3. Formed(chan[c]) /\ Holds(c, chan[c], fds, early)
  BY DEF ChannelsInv, ChanInv, FdInv
<1>4. chan[c].r \in Nat /\ chan[c].w \in Nat /\ chan[c].sock \in Int
  BY <1>2, ChannelsAssumption DEF Fds
<1>5. chan[c].w > 0
  BY <1>3, <1>4 DEF Formed
<1>6. fds[chan[c].w] = c
  BY <1>3, <1>4, <1>5 DEF Holds, Numbers
<1>7. Written(c, chan[c], fds) = {}
  BY <1>6 DEF Written
<1>8. chan[c].kind = IF chan[c].sock >= 0 THEN "tx" ELSE "rx"
  BY <1>2, <1>3, <1>4 DEF Formed
<1> QED BY <1>1, <1>5, <1>6, <1>7, <1>8, NumbersFds

\* How channel c leaves the lists: it is on the one of its kind, or on none.
LEMMA RemoveChain ==
  ASSUME ChannelsInv, ~mixed, NEW c \in Live, NEW k \in Kinds, chan[c].kind = k, nh_remove(k, c),
         chan' = [chan EXCEPT ![c] = Null], tx_prio' = tx_prio,
         older' = {p \in older : c \notin {p[1], p[2]}}, NEW q \in Kinds
  PROVE  IsList(q)' /\ Linked(q) \ {c} \subseteq Linked(q)'
<1> USE DEF ChannelsInv
<1> DEFINE before == {p \in Linked(k) : next[p] = c}
<1>0. /\ c \in Addrs /\ c # Null
      /\ \A d \in Live : d # c => d \in Live' /\ chan'[d] = chan[d]
  BY ChannelsAssumption DEF TypeOK, Live
<1>n. head'[q] = (IF q = k /\ head[q] = c THEN next[c] ELSE head[q]) /\ tail' = tail
  BY DEF nh_remove, TypeOK
<1>x. \A d \in Addrs : d # c => next'[d] = IF d \in before THEN next[c] ELSE next[d]
  BY DEF nh_remove
<1>1. PICK n \in Nat : \E s \in [1 .. n -> Addrs] : Chain(q, n, s)
  BY DEF ListInv, IsList
<1>2. PICK s \in [1 .. n -> Addrs] : Chain(q, n, s)
  BY <1>1
<1>3. \A i \in 1 .. n : /\ s[i] \in Live /\ s[i] \in Addrs
                        /\ chan[s[i]].kind = q
                        /\ q = "tx" => chan[s[i]].prio = tx_prio[chan[s[i]].sc]
                        /\ next[s[i]] = IF i = n THEN Null ELSE s[i + 1]
                        /\ tail[q] = s[i] => i = n
  BY <1>2 DEF Chain
<1>4. \A i, j \in 1 .. n : i < j => s[i] # s[j] /\ <<s[i], s[j]>> \in older
  BY <1>2 DEF Chain
<1>5. head[q] = IF n = 0 THEN Null ELSE s[1]
  BY <1>2 DEF Chain
<1>6. \A i \in 1 .. n : s[i] \in before <=> q = k /\ next[s[i]] = c
  <2>1. q = k => \A i \in 1 .. n : s[i] \in Linked(k)
    BY <1>1, <1>2, LinkedIs
  <2>2. q # k => \A i \in 1 .. n : s[i] \notin Linked(k)
    BY <1>3, LinkedLive
  <2> QED BY <2>1, <2>2
<1> HIDE DEF before
\* A list that c is not on.
<1>7. CASE \A i \in 1 .. n : s[i] # c
  <2>1. \A i \in 1 .. n : s[i] \notin before
    <3> SUFFICES ASSUME NEW i \in 1 .. n, next[s[i]] = c PROVE FALSE
      BY <1>6
    <3>1. i # n /\ s[i + 1] = c
      BY <1>0, <1>3
    <3>2. i + 1 \in 1 .. n
      BY <3>1
    <3> QED BY <1>7, <3>1, <3>2
  <2>2. \A i \in 1 .. n : next'[s[i]] = next[s[i]]
    BY <1>3, <1>7, <1>x, <2>1
  <2>3. head[q] # c
    <3>1. n # 0 => 1 \in 1 .. n
      OBVIOUS
    <3> QED BY <1>0, <1>5, <1>7, <3>1
  <2>4. \A i, j \in 1 .. n : i < j => s[i] # s[j] /\ <<s[i], s[j]>> \in older'
    BY <1>4, <1>7
  <2>5. ASSUME NEW i \in 1 .. n
        PROVE  /\ s[i] \in Live' /\ chan'[s[i]].kind = q
               /\ q = "tx" => chan'[s[i]].prio = tx_prio'[chan'[s[i]].sc]
               /\ next'[s[i]] = IF i = n THEN Null ELSE s[i + 1]
               /\ tail'[q] = s[i] => i = n
    <3>1. chan'[s[i]] = chan[s[i]] /\ s[i] \in Live'
      BY <1>0, <1>3, <1>7
    <3> QED BY <1>3, <1>n, <2>2, <3>1
  <2>6. head'[q] = IF n = 0 THEN Null ELSE s[1]
    BY <1>5, <1>n, <2>3
  <2>7. Chain(q, n, s)'
    BY <2>4, <2>5, <2>6 DEF Chain
  <2>8. Linked(q) \ {c} \subseteq Linked(q)'
    BY <1>1, <1>2, <2>7, LinkedGrows
  <2> QED BY <1>1, <1>2, <2>7, <2>8 DEF IsList
\* Behind the one before it comes the one after it.
<1>8. CASE \E i \in 1 .. n : s[i] = c
  <2>1. PICK m \in 1 .. n : s[m] = c
    BY <1>8
  <2>2. q = k
    BY <1>3, <2>1
  <2> DEFINE f(i) == IF i < m THEN i ELSE i + 1
             z == [i \in 1 .. n - 1 |-> s[f(i)]]
  <2>3. \A i \in 1 .. n - 1 : f(i) \in 1 .. n /\ f(i) # m
    OBVIOUS
  <2>4. \A i \in 1 .. n : i # m => s[i] # c
    <3> SUFFICES ASSUME NEW i \in 1 .. n, i # m PROVE s[i] # s[m]
      BY <2>1
    <3>1. i < m \/ m < i
      OBVIOUS
    <3> QED BY <1>4, <3>1, Zenon
  <2>5. z \in [1 .. n - 1 -> Addrs] /\ \A i \in 1 .. n - 1 : z[i] = s[f(i)]
    BY <2>3
  <2> HIDE DEF z
  <2>6. head'[k] = IF n - 1 = 0 THEN Null ELSE z[1]
    <3>1. CASE m = 1
      <4>1. head[k] = c
        BY <1>5, <2>1, <2>2, <3>1
      <4>2. head'[k] = IF n = 1 THEN Null ELSE s[2]
        BY <1>3, <1>n, <2>1, <2>2, <3>1, <4>1
      <4>3. n # 1 => z[1] = s[2]
        BY <2>5, <3>1
      <4> QED BY <4>2, <4>3
    <3>2. CASE m # 1
      <4>1. head[k] = s[1] /\ s[1] # c
        BY <1>5, <2>2, <2>4, <3>2
      <4>2. n - 1 # 0 /\ z[1] = s[1]
        BY <2>5, <3>2
      <4> QED BY <1>n, <2>2, <4>1, <4>2
    <3> QED BY <3>1, <3>2
  <2>7. ASSUME NEW i \in 1 .. n - 1
        PROVE  next'[z[i]] = IF i = n - 1 THEN Null ELSE z[i + 1]
    <3>1. z[i] = s[f(i)] /\ s[f(i)] \in Addrs /\ s[f(i)] # c
      BY <1>3, <2>3, <2>4, <2>5
    <3>2. i # n - 1 => z[i + 1] = s[f(i + 1)]
      BY <2>5
    <3>3. CASE i + 1 = m
      <4>1. f(i) = i /\ i \in 1 .. n /\ i # n
        BY <3>3
      <4>2. next[s[i]] = c
        BY <1>3, <2>1, <3>3, <4>1
      <4>3. s[i] \in before
        BY <1>6, <2>2, <4>1, <4>2
      <4>4. next'[z[i]] = next[c]
        BY <1>x, <3>1, <4>1, <4>3
      <4>5. next[c] = IF m = n THEN Null ELSE s[m + 1]
        BY <1>3, <2>1
      <4>6. i # n - 1 => f(i + 1) = m + 1
        BY <3>3
      <4> QED BY <3>2, <3>3, <4>4, <4>5, <4>6
    <3>4. CASE i + 1 # m
      <4>1. f(i) \in 1 .. n /\ (f(i) = n <=> i = n - 1) /\ f(i) + 1 # m
        BY <3>4
      <4>2. f(i) # n => f(i) + 1 \in 1 .. n /\ f(i) + 1 = f(i + 1)
        BY <3>4
      <4> HIDE DEF f
      <4>3. next[s[f(i)]] = IF f(i) = n THEN Null ELSE s[f(i) + 1]
        BY <1>3, <4>1
      <4>4. next[s[f(i)]] # c
        BY <1>0, <2>4, <4>1, <4>2, <4>3
      <4>5. next'[z[i]] = next[s[f(i)]]
        BY <1>6, <1>x, <3>1, <4>1, <4>4
      <4> QED BY <3>2, <4>1, <4>2, <4>3, <4>5
    <3> QED BY <3>3, <3>4
  <2>8. ASSUME NEW i \in 1 .. n - 1
        PROVE  /\ z[i] \in Live' /\ chan'[z[i]].kind = k
               /\ k = "tx" => chan'[z[i]].prio = tx_prio'[chan'[z[i]].sc]
               /\ tail'[k] = z[i] => i = n - 1
    <3>1. f(i) \in 1 .. n /\ z[i] = s[f(i)] /\ s[f(i)] # c /\ (f(i) = n => i = n - 1)
      BY <2>3, <2>4, <2>5
    <3> HIDE DEF f
    <3>2. chan'[z[i]] = chan[z[i]] /\ z[i] \in Live'
      BY <1>0, <1>3, <3>1
    <3> QED BY <1>3, <1>n, <2>2, <3>1, <3>2
  <2>9. ASSUME NEW i \in 1 .. n - 1, NEW j \in 1 .. n - 1, i < j
        PROVE  z[i] # z[j] /\ <<z[i], z[j]>> \in older'
    <3>1. f(i) \in 1 .. n /\ f(j) \in 1 .. n /\ f(i) < f(j)
      BY <2>9
    <3>2. z[i] = s[f(i)] /\ z[j] = s[f(j)] /\ z[i] # c /\ z[j] # c
      BY <2>3, <2>4, <2>5
    <3> HIDE DEF f
    <3> QED BY <1>4, <3>1, <3>2
  <2>10. Chain(k, n - 1, z)'
    BY <2>6, <2>7, <2>8, <2>9 DEF Chain
  <2>11. n - 1 \in Nat
    OBVIOUS
  <2>12. ASSUME NEW i \in 1 .. n, s[i] # c PROVE \E j \in 1 .. n - 1 : s[i] = z[j]
    <3>1. i # m
      BY <2>1, <2>12
    <3>2. PICK j \in 1 .. n - 1 : f(j) = i
      <4>1. CASE i < m
        <5>1. i \in 1 .. n - 1 /\ f(i) = i
          BY <4>1
        <5> QED BY <5>1
      <4>2. CASE m < i
        <5>1. i - 1 \in 1 .. n - 1 /\ f(i - 1) = i
          BY <4>2
        <5> QED BY <5>1
      <4> QED BY <3>1, <4>1, <4>2
    <3> QED BY <2>5, <3>2
  <2>13. Linked(k) \ {c} \subseteq Linked(k)'
    <3>1. Chain(k, n, s)
      BY <1>2, <2>2
    <3>2. \A i \in 1 .. n : s[i] = c \/ \E j \in 1 .. n - 1 : s[i] = z[j]
      BY <2>12, Zenon
    <3>3. Linked(k) = {s[i] : i \in 1 .. n}
      BY <1>1, <1>2, <3>1, LinkedIs
    <3>4. Linked(k)' = {z[i] : i \in 1 .. n - 1}
      <4>1. z \in [1 .. n - 1 -> Addrs]
        BY <2>5
      <4> QED BY <2>10, <2>11, <4>1, WalksMeetItThen DEF WalksMeet
    <3> QED BY <3>2, <3>3, <3>4
  <2> QED BY <2>2, <2>5, <2>10, <2>11, <2>13 DEF IsList
<1> QED BY <1>7, <1>8

\* chan_destroy(): the list closes over the gap, and no other channel loses a descriptor.
LEMMA DestroyKeeps ==
  ASSUME ChannelsInv, NEW c \in Addrs, chan_destroy(c)
  PROVE  ChannelsInv' /\ \A q \in Kinds : Linked(q) \ {c} \subseteq Linked(q)'
<1> USE DEF ChannelsInv
<1> DEFINE k == chan[c].kind
           ch == chan[c]
<1>1. /\ c \in Live /\ ~mixed /\ failing' = Null
      /\ fds' = [n \in Fds |-> IF n \in Numbers(ch) THEN "free" ELSE fds[n]]
      /\ foreign' = foreign \cup Written(c, ch, fds) \cup {n \in Numbers(ch) : fds[n] # c}
      /\ nh_remove(IF chan[c].sock >= 0 THEN "tx" ELSE "rx", c)
      /\ chan' = [chan EXCEPT ![c] = Null]
      /\ older' = {p \in older : c \notin {p[1], p[2]}}
      /\ tx_prio' = tx_prio /\ use_srp' = use_srp /\ nh' = nh /\ early' = early /\ made' = made
      /\ mixed' = mixed
  BY DEF chan_destroy, close_all, Up
<1>2. k \in Kinds /\ nh_remove(k, c)
  <2>1. k = IF chan[c].sock >= 0 THEN "tx" ELSE "rx"
    BY <1>1, OwnPipe
  <2> HIDE DEF k
  <2> QED BY <1>1, <2>1 DEF Kinds
<1>3. /\ Live' = Live \ {c} /\ \A d \in Live' : chan'[d] = chan[d]
  BY <1>1 DEF Live, TypeOK
<1>4. ASSUME NEW q \in Kinds PROVE IsList(q)' /\ Linked(q) \ {c} \subseteq Linked(q)'
  BY <1>1, <1>2, RemoveChain, Zenon
<1>5. TypeOK'
  <2>1. chan' \in [Addrs -> Channel \cup {Null}]
    <3>1. chan' = [chan EXCEPT ![c] = Null] /\ chan \in [Addrs -> Channel \cup {Null}]
      BY <1>1, Zenon DEF TypeOK
    <3> QED BY <3>1
  <2>2. fds' \in [Fds -> {"free", "app", "nh", "lost"} \cup Addrs]
    BY <1>1 DEF TypeOK
  <2>3. head' \in [Kinds -> Live' \cup {Null}]
    <3>1. ASSUME NEW q \in Kinds PROVE head'[q] \in Live' \cup {Null}
      <4>1. PICK n \in Nat : \E s \in [1 .. n -> Addrs] : Chain(q, n, s)'
        BY <1>4 DEF IsList
      <4>2. PICK s \in [1 .. n -> Addrs] : Chain(q, n, s)'
        BY <4>1
      <4>3. n # 0 => 1 \in 1 .. n
        OBVIOUS
      <4> QED BY <4>2, <4>3 DEF Chain
    <3>2. head' = [q \in Kinds |-> head'[q]]
      BY <1>2, Zenon DEF nh_remove, TypeOK
    <3> QED BY <3>1, <3>2
  <2>4. next' \in [Addrs -> Addrs \cup {Null}] /\ tail' = tail
    BY <1>2 DEF nh_remove, TypeOK
  <2>5. \A d \in Addrs \ Live' : next'[d] = Null
    <3> SUFFICES ASSUME NEW d \in Addrs \ Live', d # c PROVE next'[d] = Null
      BY <1>2 DEF nh_remove
    <3>1. d \notin Live /\ d \notin Linked(k) /\ next[d] = Null
      BY <1>1, <1>2, <1>3, LinkedLive DEF TypeOK
    <3> QED BY <1>2, <3>1 DEF nh_remove
  <2>6. older' \subseteq Live' \X Live'
    <3> SUFFICES ASSUME NEW p \in older' PROVE p \in Live' \X Live'
      OBVIOUS
    <3>1. p \in Live \X Live /\ p[1] # c /\ p[2] # c
      BY <1>1, Zenon DEF TypeOK
    <3> QED BY <1>3, <3>1
  <2>7. foreign' \subseteq Fds
    BY <1>1, OwnPipe, Zenon DEF TypeOK
  <2> QED BY <1>1, <2>1, <2>2, <2>3, <2>4, <2>5, <2>6, <2>7, Zenon DEF TypeOK
<1>6. ChanInv'
  BY <1>3 DEF ChanInv
<1>7. FdInv'
  <2>0. /\ \A n \in Fds : fds'[n] = IF n \in Numbers(ch) THEN "free" ELSE fds[n]
        /\ Holds(c, ch, fds, early) /\ Written(c, ch, fds) = {}
    BY <1>1, OwnPipe DEF FdInv
  <2>1. ASSUME NEW d \in Live' PROVE Holds(d, chan'[d], fds', early)
    <3>1. d \in Live /\ d # c /\ chan'[d] = chan[d]
      BY <1>3
    <3>2. Holds(d, chan[d], fds, early) /\ Numbers(chan[d]) \subseteq Fds
      BY <3>1, OwnPipe DEF FdInv
    <3> QED BY <2>0, <3>1, <3>2, Zenon DEF Holds
  <2>2. NothingLeftOpen'
    <3> SUFFICES ASSUME NEW n \in Fds, fds'[n] \in Addrs
                 PROVE  fds'[n] \in Live' /\ n \in Numbers(chan'[fds'[n]])
      BY DEF NothingLeftOpen
    <3>1. fds'[n] = fds[n] /\ n \notin Numbers(ch)
      BY <2>0, Owners
    <3>2. fds[n] \in Live /\ n \in Numbers(chan[fds[n]])
      BY <3>1 DEF FdInv, NothingLeftOpen
    <3> QED BY <1>3, <3>1, <3>2
  <2>3. foreign' \subseteq {0} /\ (~early => foreign' = {})
    BY <1>1, <2>0, Zenon DEF FdInv, Holds
  <2> QED BY <1>1, <2>1, <2>2, <2>3, Zenon DEF FdInv
<1>8. ListInv'
  BY <1>4 DEF ListInv
<1> QED BY <1>4, <1>5, <1>6, <1>7, <1>8, Zenon
-----------------------------------------------------------------------------
\* A channel that becomes ready, or not, is otherwise the same.
LEMMA SetReady ==
  ASSUME NEW ch \in Channel, NEW up \in BOOLEAN, NEW d, d = [ch EXCEPT !.ready = up]
  PROVE  /\ d \in Channel
         /\ d.kind = ch.kind /\ d.sc = ch.sc /\ d.sid = ch.sid /\ d.prio = ch.prio
         /\ d.r = ch.r /\ d.w = ch.w /\ d.sock = ch.sock /\ d.cbp = ch.cbp
BY DEF Channel

\* One that is stopped, too.
LEMMA SetStopping ==
  ASSUME NEW ch \in Channel, NEW d, d = [ch EXCEPT !.ready = FALSE, !.stopping = TRUE]
  PROVE  /\ d \in Channel
         /\ d.kind = ch.kind /\ d.sc = ch.sc /\ d.sid = ch.sid /\ d.prio = ch.prio
         /\ d.r = ch.r /\ d.w = ch.w /\ d.sock = ch.sock /\ d.cbp = ch.cbp
BY Zenon DEF Channel

\* A step that only makes channels ready, or stops them.
LEMMA FlagsKeep ==
  ASSUME ChannelsInv, chan' \in [Addrs -> Channel \cup {Null}], Live' = Live,
         \A c \in Live : /\ chan'[c].kind = chan[c].kind /\ chan'[c].sc = chan[c].sc
                         /\ chan'[c].prio = chan[c].prio /\ chan'[c].cbp = chan[c].cbp
                         /\ chan'[c].r = chan[c].r /\ chan'[c].w = chan[c].w
                         /\ chan'[c].sock = chan[c].sock,
         foreign' = foreign,
         UNCHANGED <<listVars, fds, tx_prio, use_srp, nh, failing, older, early, made, mixed>>
  PROVE  ChannelsInv'
<1> USE DEF ChannelsInv
<1>1. \A c \in Live : Numbers(chan'[c]) = Numbers(chan[c]) /\ (Formed(chan[c]) => Formed(chan'[c]))
  BY DEF Numbers, Formed
<1>2. TypeOK'
  BY DEF TypeOK, listVars
<1>3. ChanInv'
  BY <1>1 DEF ChanInv
<1>4. FdInv'
  <2>1. ASSUME NEW c \in Live PROVE Holds(c, chan'[c], fds, early)
    BY <1>1 DEF FdInv, Holds
  <2>2. NothingLeftOpen'
    BY <1>1 DEF FdInv, NothingLeftOpen
  <2> QED BY <2>1, <2>2 DEF FdInv
<1>5. ListInv'
  BY ListsSame
<1> QED BY <1>2, <1>3, <1>4, <1>5

\* What is looked up by stream id is on the list.
LEMMA FoundLive ==
  ASSUME ChannelsInv, ~mixed, NEW k \in Kinds, NEW sid, get_chan_from_sid(k, sid) # Null
  PROVE  get_chan_from_sid(k, sid) \in Live
<1> DEFINE walk  == Walk(k)
           match == {j \in DOMAIN walk : walk[j] # Null /\ chan[walk[j]].sid = sid}
<1>1. PICK n \in Nat : \E s \in [1 .. n -> Addrs] : Chain(k, n, s)
  BY DEF ChannelsInv, ListInv, IsList
<1>2. PICK s \in [1 .. n -> Addrs] : Chain(k, n, s)
  BY <1>1
<1>3. /\ DOMAIN walk = 0 .. Cardinality(Addrs)
      /\ \A j \in 0 .. Cardinality(Addrs) : walk[j] = IF j < n THEN s[j + 1] ELSE Null
  BY <1>1, <1>2, WalkIs
<1>4. match # {} /\ get_chan_from_sid(k, sid) = walk[Min(match)]
  BY Zenon DEF get_chan_from_sid
<1>5. match \in SUBSET Nat
  <2>1. Cardinality(Addrs) \in Nat
    BY ChannelsAssumption, FS_CardinalityType
  <2> QED BY <1>3, <2>1
<1>6. Min(match) \in match
  <2> HIDE DEF match
  <2> QED BY <1>4, <1>5, MinNat
<1> DEFINE j == Min(match)
<1>7. j \in 0 .. Cardinality(Addrs) /\ walk[j] # Null
  BY <1>3, <1>6
<1> HIDE DEF walk, j
<1>8. j < n /\ walk[j] = s[j + 1]
  BY <1>3, <1>7
<1>9. j + 1 \in 1 .. n
  <2>1. Cardinality(Addrs) \in Nat
    BY ChannelsAssumption, FS_CardinalityType
  <2> QED BY <1>7, <1>8, <2>1
<1>10. walk[j] \in Live
  BY <1>2, <1>8, <1>9 DEF Chain
<1> QED BY <1>4, <1>10 DEF j

\* The callbacks of SRP change a channel that exists.
LEMMA NotifyKeeps ==
  ASSUME ChannelsInv, NEW k \in Kinds, NEW sid, NEW up \in BOOLEAN, nh_notify(k, sid, up)
  PROVE  ChannelsInv'
<1> DEFINE c == get_chan_from_sid(k, sid)
<1>1. /\ ~mixed /\ c # Null /\ chan' = [chan EXCEPT ![c] = [chan[c] EXCEPT !.ready = up]]
      /\ foreign' = foreign
      /\ UNCHANGED <<listVars, fds, tx_prio, use_srp, nh, failing, older, early, made, mixed>>
  BY DEF nh_notify, Up
<1>2. c \in Live
  BY <1>1, FoundLive
<1> HIDE DEF c
<1>3. c \in Addrs /\ chan[c] \in Channel /\ chan \in [Addrs -> Channel \cup {Null}]
  BY <1>2, LiveType DEF ChannelsInv, TypeOK
<1> DEFINE d == [chan[c] EXCEPT !.ready = up]
<1>4. /\ d \in Channel
      /\ d.kind = chan[c].kind /\ d.sc = chan[c].sc /\ d.prio = chan[c].prio
      /\ d.r = chan[c].r /\ d.w = chan[c].w /\ d.sock = chan[c].sock /\ d.cbp = chan[c].cbp
  <2>1. d = [chan[c] EXCEPT !.ready = up]
    BY Zenon
  <2> HIDE DEF d
  <2> QED BY <1>3, <2>1, SetReady
<1>5. chan' = [chan EXCEPT ![c] = d]
  BY <1>1
<1> HIDE DEF d
<1>6. d # Null
  BY <1>4, NullAssumption, Zenon
<1>7. chan' \in [Addrs -> Channel \cup {Null}] /\ Live' = Live
  BY <1>2, <1>3, <1>4, <1>5, <1>6 DEF Live
<1>8. \A x \in Live : chan'[x] = IF x = c THEN d ELSE chan[x]
  BY <1>3, <1>5 DEF Live
<1> QED BY <1>1, <1>4, <1>7, <1>8, FlagsKeep

\* The channels on the two lists exist, and stopping them writes to their own pipes.
LEMMA ListedLive ==
  ASSUME ChannelsInv, ~mixed, NEW S, S = Linked("tx") \cup Linked("rx")
  PROVE  S \subseteq Live /\ UNION {Written(c, chan[c], fds) : c \in S} = {}
<1>1. "tx" \in Kinds /\ "rx" \in Kinds
  BY DEF Kinds
<1>2. S \subseteq Live
  BY <1>1, LinkedLive
<1>3. \A c \in S : Written(c, chan[c], fds) = {}
  BY <1>2, OwnPipe
<1> QED BY <1>2, <1>3

\* nh_stop() writes into pipes of channels that exist.
LEMMA StopKeeps ==
  ASSUME ChannelsInv, nh_stop
  PROVE  ChannelsInv'
<1> DEFINE S == Linked("tx") \cup Linked("rx")
           Stopped(c) == [chan[c] EXCEPT !.ready = FALSE, !.stopping = TRUE]
<1>1. /\ ~mixed
      /\ chan' = [c \in Addrs |-> IF c \in S THEN Stopped(c) ELSE chan[c]]
      /\ foreign' = foreign \cup UNION {Written(c, chan[c], fds) : c \in S}
      /\ UNCHANGED <<listVars, fds, tx_prio, use_srp, nh, failing, older, early, made, mixed>>
  BY Zenon DEF nh_stop, Idle, Up
<1>2. S \subseteq Live /\ foreign' = foreign
  <2>1. S \subseteq Live /\ UNION {Written(c, chan[c], fds) : c \in S} = {}
    BY <1>1, ListedLive, Zenon
  <2> HIDE DEF S
  <2> QED BY <1>1, <2>1, Zenon
<1> HIDE DEF S
<1>3. ASSUME NEW c \in S
      PROVE  /\ Stopped(c) \in Channel /\ Stopped(c) # Null
             /\ Stopped(c).kind = chan[c].kind /\ Stopped(c).sc = chan[c].sc
             /\ Stopped(c).prio = chan[c].prio /\ Stopped(c).cbp = chan[c].cbp
             /\ Stopped(c).r = chan[c].r /\ Stopped(c).w = chan[c].w
             /\ Stopped(c).sock = chan[c].sock
  <2>1. chan[c] \in Channel
    BY <1>2, LiveType DEF ChannelsInv
  <2> DEFINE d == Stopped(c)
  <2>2. d = [chan[c] EXCEPT !.ready = FALSE, !.stopping = TRUE]
    BY Zenon
  <2> HIDE DEF d
  <2>3. /\ d \in Channel
        /\ d.kind = chan[c].kind /\ d.sc = chan[c].sc /\ d.prio = chan[c].prio
        /\ d.r = chan[c].r /\ d.w = chan[c].w /\ d.sock = chan[c].sock /\ d.cbp = chan[c].cbp
    BY <2>1, <2>2, SetStopping, Zenon
  <2>4. d # Null
    BY <2>3, NullAssumption
  <2> HIDE DEF Stopped
  <2> QED BY <2>3, <2>4 DEF d
<1> HIDE DEF Stopped
<1>4. chan \in [Addrs -> Channel \cup {Null}]
  BY DEF ChannelsInv, TypeOK
<1>5. chan' \in [Addrs -> Channel \cup {Null}]
  BY <1>1, <1>3, <1>4
<1>6. Live' = Live
  BY <1>1, <1>2, <1>3 DEF Live
<1>7. \A c \in Live : chan'[c] = IF c \in S THEN Stopped(c) ELSE chan[c]
  BY <1>1 DEF Live
<1> QED BY <1>1, <1>2, <1>3, <1>5, <1>6, <1>7, FlagsKeep

\* The Tx list is empty when a priority changes.
LEMMA PrioKeeps ==
  ASSUME ChannelsInv, NEW sc \in Classes, NEW p \in Prios, nh_set_tx_prio(sc, p)
  PROVE  ChannelsInv'
<1> USE DEF ChannelsInv
<1>1. /\ ~mixed /\ head["tx"] = Null /\ tx_prio' = [tx_prio EXCEPT ![sc] = p]
      /\ UNCHANGED <<listVars, chan, fds, use_srp, nh, failing, older, early, foreign, made, mixed>>
  BY DEF nh_set_tx_prio, Idle, Up
<1>2. head' = head /\ tail' = tail /\ next' = next /\ chan' = chan /\ Live' = Live /\ older' = older
  BY <1>1 DEF listVars, Live
<1>3. TypeOK'
  BY <1>1, <1>2 DEF TypeOK
<1>4. ChanInv' /\ FdInv'
  BY <1>1, <1>2 DEF ChanInv, FdInv, NothingLeftOpen
<1>5. ListInv'
  <2> SUFFICES ASSUME NEW k \in Kinds PROVE IsList(k)'
    BY DEF ListInv
  <2>1. PICK n \in Nat : \E s \in [1 .. n -> Addrs] : Chain(k, n, s)
    BY <1>1 DEF ListInv, IsList
  <2>2. PICK s \in [1 .. n -> Addrs] : Chain(k, n, s)
    BY <2>1
  <2>3. k = "tx" => n = 0
    <3>1. head[k] = IF n = 0 THEN Null ELSE s[1]
      BY <2>2 DEF Chain
    <3>2. n # 0 => s[1] \in Addrs
      OBVIOUS
    <3> QED BY <1>1, <3>1, <3>2, ChannelsAssumption
  <2>4. Chain(k, n, s)'
    BY <1>2, <2>2, <2>3 DEF Chain
  <2> QED BY <2>1, <2>2, <2>4 DEF IsList
<1> QED BY <1>3, <1>4, <1>5

\* nh_destroy() takes with it the channels on the lists, and no descriptor of another one.
LEMMA NhDestroyKeeps ==
  ASSUME ChannelsInv, nh_destroy
  PROVE  ChannelsInv'
<1> USE DEF ChannelsInv
<1> DEFINE S  == Linked("tx") \cup Linked("rx")
           ns == UNION {Numbers(chan[c]) : c \in S}
           W  == UNION {Written(c, chan[c], fds) : c \in S}
<1>1. /\ ~mixed /\ failing = Null /\ nh' = FALSE
      /\ head' = [k \in Kinds |-> Null]
      /\ next' = [c \in Addrs |-> IF c \in S THEN Null ELSE next[c]]
      /\ chan' = [c \in Addrs |-> IF c \in S THEN Null ELSE chan[c]]
      /\ fds' = [n \in Fds |-> IF n \in ns THEN "free" ELSE fds[n]]
      /\ foreign' = foreign \cup {n \in ns : \E c \in S : n \in Numbers(chan[c]) /\ fds[n] # c} \cup W
      /\ older' = {p \in older : p[1] \notin S /\ p[2] \notin S}
      /\ UNCHANGED <<tail, tx_prio, use_srp, failing, early, made, mixed>>
  BY DEF nh_destroy, Idle, Up
<1>2. S \subseteq Live /\ W = {}
  BY <1>1, ListedLive, Zenon
<1>3. \A n : n \in ns <=> \E c \in S : n \in Numbers(chan[c])
  OBVIOUS
<1> HIDE DEF S, ns, W
<1>4. Live' = Live \ S /\ \A d \in Live' : chan'[d] = chan[d]
  BY <1>1, <1>2 DEF Live
<1>5. \A c \in Live : Holds(c, chan[c], fds, early) /\ Numbers(chan[c]) \subseteq Fds
  BY OwnPipe DEF FdInv
<1>6. foreign' \subseteq {0} /\ (~early => foreign' = {})
  BY <1>1, <1>2, <1>5, Zenon DEF FdInv, Holds
<1>7. TypeOK'
  <2>1. chan' \in [Addrs -> Channel \cup {Null}] /\ next' \in [Addrs -> Addrs \cup {Null}]
    BY <1>1, Zenon DEF TypeOK
  <2>2. fds' \in [Fds -> {"free", "app", "nh", "lost"} \cup Addrs]
    BY <1>1 DEF TypeOK
  <2>3. \A d \in Addrs \ Live' : next'[d] = Null
    BY <1>1, <1>4 DEF TypeOK
  <2>4. older' \subseteq Live' \X Live'
    <3> SUFFICES ASSUME NEW p \in older' PROVE p \in Live' \X Live'
      OBVIOUS
    <3>1. p \in Live \X Live /\ p[1] \notin S /\ p[2] \notin S
      BY <1>1, Zenon DEF TypeOK
    <3> QED BY <1>4, <3>1
  <2>5. foreign' \subseteq Fds
    BY <1>6, ChannelsAssumption DEF Fds
  <2>6. head' \in [Kinds -> Live' \cup {Null}]
    BY <1>1, Zenon
  <2> QED BY <1>1, <2>1, <2>2, <2>3, <2>4, <2>5, <2>6, Zenon DEF TypeOK
<1>8. ChanInv'
  BY <1>4 DEF ChanInv
<1>9. FdInv'
  <2>1. ASSUME NEW d \in Live' PROVE Holds(d, chan'[d], fds', early)
    <3>1. d \in Live /\ d \notin S /\ chan'[d] = chan[d]
      BY <1>4
    <3> SUFFICES ASSUME NEW n \in Numbers(chan[d]), n # 0 \/ ~early PROVE fds'[n] = d
      BY <3>1 DEF Holds
    <3>2. n \in Fds /\ fds[n] = d
      BY <1>5, <3>1 DEF Holds
    <3>3. n \notin ns
      BY <1>2, <1>3, <1>5, <3>1, <3>2 DEF Holds
    <3> QED BY <1>1, <3>2, <3>3, Zenon
  <2>2. NothingLeftOpen'
    <3> SUFFICES ASSUME NEW n \in Fds, fds'[n] \in Addrs
                 PROVE  fds'[n] \in Live' /\ n \in Numbers(chan'[fds'[n]])
      BY DEF NothingLeftOpen
    <3>1. fds'[n] = fds[n] /\ n \notin ns
      BY <1>1, Owners
    <3>2. fds[n] \in Live /\ n \in Numbers(chan[fds[n]])
      BY <3>1 DEF FdInv, NothingLeftOpen
    <3> QED BY <1>3, <1>4, <3>1, <3>2
  <2> QED BY <1>1, <1>6, <2>1, <2>2, Zenon DEF FdInv
<1>10. ListInv'
  <2> SUFFICES ASSUME NEW k \in Kinds PROVE IsList(k)'
    BY DEF ListInv
  <2> DEFINE s == [i \in 1 .. 0 |-> Null]
  <2>1. s \in [1 .. 0 -> Addrs] /\ \A i \in 1 .. 0 : FALSE
    OBVIOUS
  <2> HIDE DEF s
  <2>2. Chain(k, 0, s)'
    BY <1>1, <2>1, Zenon DEF Chain
  <2> QED BY <2>1, <2>2, Zenon DEF IsList
<1> QED BY <1>7, <1>8, <1>9, <1>10
-----------------------------------------------------------------------------
\* A program starts without channels.
LEMMA ChannelsStart ==
  ASSUME Init
  PROVE  ChannelsInv
<1>1. PICK start \in Starts :
         /\ use_srp = start.srp
         /\ fds = [n \in Fds |-> CASE n = 0 /\ start.stdin -> "app" [] n \in 1 .. 2 -> "app"
                                   [] n = 3 -> "nh" [] OTHER -> "free"]
  BY DEF Init
<1>2. Live = {}
  BY DEF Init, Live
<1>3. \A n \in Fds : fds[n] \in {"free", "app", "nh"}
  BY <1>1
<1>4. fds \in [Fds -> {"free", "app", "nh", "lost"} \cup Addrs]
  <2>1. fds = [n \in Fds |-> fds[n]]
    BY <1>1
  <2> QED BY <1>3, <2>1
<1>5. use_srp \in BOOLEAN
  BY <1>1, ChannelsAssumption
<1>6. tx_prio \in [Classes -> Prios]
  <2>1. Min(Prios) \in Prios
    BY ChannelsAssumption, MinNat
  <2> QED BY <2>1 DEF Init
<1>7. TypeOK
  <2>1. /\ head = [k \in Kinds |-> Null] /\ tail = head
        /\ next = [c \in Addrs |-> Null] /\ chan = [c \in Addrs |-> Null]
    BY Zenon DEF Init
  <2>2. nh \in BOOLEAN /\ early \in BOOLEAN /\ mixed \in BOOLEAN
    BY Zenon DEF Init
  <2>3. older = {} /\ foreign = {} /\ failing = Null /\ made = 0
    BY Zenon DEF Init
  <2>4. /\ head \in [Kinds -> Live \cup {Null}] /\ tail \in [Kinds -> Addrs \cup {Null}]
        /\ next \in [Addrs -> Addrs \cup {Null}] /\ \A c \in Addrs \ Live : next[c] = Null
        /\ chan \in [Addrs -> Channel \cup {Null}]
    BY <2>1
  <2>5. made \in 0 .. MaxMade
    BY <2>3, ChannelsAssumption
  <2> QED BY <1>4, <1>5, <1>6, <2>2, <2>3, <2>4, <2>5 DEF TypeOK
<1>8. ChanInv
  BY <1>2 DEF ChanInv
<1>9. FdInv
  <2>1. NothingLeftOpen
    BY <1>3, Owners DEF NothingLeftOpen
  <2> QED BY <1>2, <2>1 DEF FdInv, Init
<1>10. ListInv
  <2> SUFFICES ASSUME NEW k \in Kinds PROVE IsList(k)
    BY DEF ListInv
  <2> DEFINE s == [i \in 1 .. 0 |-> Null]
  <2>1. s \in [1 .. 0 -> Addrs] /\ \A i \in 1 .. 0 : FALSE
    OBVIOUS
  <2> HIDE DEF s
  <2>2. Chain(k, 0, s)
    BY <2>1 DEF Chain, Init
  <2> QED BY <2>1, <2>2, Zenon DEF IsList
<1> QED BY <1>7, <1>8, <1>9, <1>10 DEF ChannelsInv

\* However channels are asked for, fail, come and go: what the lists, the channels and
\* the descriptor table say of each other stays true.
THEOREM ChannelsInductive == Spec => []ChannelsInv
<1>1. Init => ChannelsInv
  BY ChannelsStart
<1>2. ChannelsInv /\ [Next]_vars => ChannelsInv'
  <2> SUFFICES ASSUME ChannelsInv, [Next]_vars PROVE ChannelsInv'
    OBVIOUS
  <2>1. CASE \E c \in Addrs, k \in Kinds, a \in Attrs : guard_fails(c, k, a)
    BY <2>1, GuardFailsKeeps
  <2>2. CASE \E c \in Addrs, k \in Kinds, a \in Attrs : pipe_fails(c, k, a)
    BY <2>2, PipeFailsKeeps
  <2>3. CASE \E c \in Addrs, k \in Kinds, a \in Attrs : part_fails(c, k, a)
    BY <2>3, PartFailsKeeps
  <2>4. CASE \E c \in Addrs, k \in Kinds, a \in Attrs : chan_create(c, k, a)
    BY <2>4, CreateKeeps
  <2>5. CASE \E c \in Addrs, a \in Attrs : txtime_fails(c, a)
    BY <2>5, TxtimeFailsKeeps
  <2>6. CASE \E c \in Addrs : chan_destroy(c)
    BY <2>6, DestroyKeeps
  <2>7. CASE \E k \in Kinds, a \in Attrs, up \in BOOLEAN : nh_notify(k, a.sid, up)
    BY <2>7, NotifyKeeps
  <2>8. CASE \E sc \in Classes, p \in Prios : nh_set_tx_prio(sc, p)
    BY <2>8, PrioKeeps
  <2>9. CASE nh_stop
    BY <2>9, StopKeeps
  <2>10. CASE nh_destroy
    BY <2>10, NhDestroyKeeps
  <2>11. CASE UNCHANGED vars
    BY <2>11, ListsSame DEF vars, listVars, ChannelsInv, TypeOK, ChanInv, FdInv, NothingLeftOpen, Live
  <2> QED BY <2>1, <2>2, <2>3, <2>4, <2>5, <2>6, <2>7, <2>8, <2>9, <2>10, <2>11, Zenon DEF Next
<1> QED BY <1>1, <1>2, PTL DEF Spec

\* The heads of the lists are channels that exist, and every field has its type.
THEOREM HeadsExist == Spec => []TypeOK
<1>1. ChannelsInv => TypeOK
  BY DEF ChannelsInv
<1> QED BY <1>1, ChannelsInductive, PTL

\* _chan_destroy() and chan_stop() close and write what their channel opened, and
\* nothing but descriptor 0 besides, whatever the table looks like and wherever the
\* making of channels fails.
THEOREM ChannelsKeepToTheirOwn == Spec => []OwnDescriptors
<1>1. ChannelsInv => OwnDescriptors
  <2> SUFFICES ASSUME ChannelsInv PROVE OwnDescriptors
    OBVIOUS
  <2> QED BY DEF ChannelsInv, FdInv, Holds, OwnDescriptors
<1> QED BY <1>1, ChannelsInductive, PTL

\* A descriptor that chan_create() opened is closed with its channel.
THEOREM ChannelsLeaveNothing == Spec => []NothingLeftOpen
<1>1. ChannelsInv => NothingLeftOpen
  BY DEF ChannelsInv, FdInv
<1> QED BY <1>1, ChannelsInductive, PTL

\* chan_valid() is never misled by a descriptor that is 0.
THEOREM ZeroMisleadsNobody == Spec => []ValidWhileReady
<1>1. ChannelsInv => ValidWhileReady
  <2> SUFFICES ASSUME ChannelsInv, NEW c \in Live
               PROVE  /\ chan_valid(c) <=> chan[c].ready /\ chan[c].sid # 0
                      /\ chan[c].w > 0
    BY DEF ValidWhileReady
  <2>1. chan[c] \in Channel /\ Formed(chan[c]) /\ chan[c].w > 0
    BY OwnPipe, LiveType DEF ChannelsInv, ChanInv
  <2>2. chan[c].r \in Int /\ chan[c].w \in Int /\ chan[c].sock \in Int /\ chan[c].kind \in {"tx", "rx"}
    BY <2>1, ChannelsAssumption DEF Channel, Fds, Kinds
  <2>3. IF chan[c].sock > 0 THEN ~chan[c].cbp ELSE chan[c].cbp
    BY <2>1, <2>2 DEF Formed
  <2> QED BY <2>1, <2>2, <2>3 DEF chan_valid
<1> QED BY <1>1, ChannelsInductive, PTL

\* nh_set_tx_prio() changes no priority under a Tx channel of the list.
THEOREM PriorityIsShared == Spec => []ListedShareOnePriority
<1>1. ChannelsInv => ListedShareOnePriority
  <2> SUFFICES ASSUME ChannelsInv, ~mixed, NEW c \in Linked("tx")
               PROVE  chan[c].prio = tx_prio[chan[c].sc]
    BY DEF ListedShareOnePriority
  <2>1. PICK n \in Nat : \E s \in [1 .. n -> Addrs] : Chain("tx", n, s)
    BY DEF ChannelsInv, ListInv, IsList, Kinds
  <2>2. PICK s \in [1 .. n -> Addrs] : Chain("tx", n, s)
    BY <2>1
  <2>3. Linked("tx") = {s[i] : i \in 1 .. n}
    BY <2>1, <2>2, LinkedIs
  <2> QED BY <2>2, <2>3 DEF Chain
<1> QED BY <1>1, ChannelsInductive, PTL

\* A walk of either list ends, and meets channels that exist, each once, in the order
\* they were created in.
THEOREM ListsAreInOrder == Spec => []WalkMeetsLiveChannelsInOrder
<1>1. ChannelsInv => WalkMeetsLiveChannelsInOrder
  <2> SUFFICES ASSUME ChannelsInv, ~mixed, NEW k \in Kinds
               PROVE  \E n \in 0 .. Cardinality(Addrs) :
                        /\ Walk(k)[n] = Null
                        /\ \A j \in 0 .. n - 1 : Walk(k)[j] \in Live
                        /\ \A i, j \in 0 .. n - 1 :
                             i < j => /\ Walk(k)[i] # Walk(k)[j]
                                      /\ <<Walk(k)[i], Walk(k)[j]>> \in older
    BY Zenon DEF WalkMeetsLiveChannelsInOrder
  <2>1. PICK n \in Nat : \E s \in [1 .. n -> Addrs] : Chain(k, n, s)
    BY DEF ChannelsInv, ListInv, IsList
  <2>2. PICK s \in [1 .. n -> Addrs] : Chain(k, n, s)
    BY <2>1
  <2>3. Cardinality(Addrs) \in Nat /\ n <= Cardinality(Addrs)
    BY <2>1, <2>2, ChainShort
  <2>4. \A j \in 0 .. Cardinality(Addrs) : Walk(k)[j] = IF j < n THEN s[j + 1] ELSE Null
    BY <2>1, <2>2, WalkIs
  <2>5. n \in 0 .. Cardinality(Addrs) /\ Walk(k)[n] = Null
    BY <2>1, <2>3, <2>4
  <2>6. \A j \in 0 .. n - 1 : j + 1 \in 1 .. n /\ Walk(k)[j] = s[j + 1]
    BY <2>3, <2>4
  <2>7. \A j \in 0 .. n - 1 : Walk(k)[j] \in Live
    BY <2>2, <2>6 DEF Chain
  <2>8. ASSUME NEW i \in 0 .. n - 1, NEW j \in 0 .. n - 1, i < j
        PROVE  Walk(k)[i] # Walk(k)[j] /\ <<Walk(k)[i], Walk(k)[j]>> \in older
    <3>1. i + 1 \in 1 .. n /\ j + 1 \in 1 .. n /\ i + 1 < j + 1
      BY <2>6, <2>8
    <3>2. s[i + 1] # s[j + 1] /\ <<s[i + 1], s[j + 1]>> \in older
      BY <2>2, <3>1, Zenon DEF Chain
    <3> QED BY <2>6, <3>2
  <2> QED BY <2>5, <2>7, <2>8
<1> QED BY <1>1, ChannelsInductive, PTL

\* nh_add_tx(), nh_add_rx() and _chan_destroy() drop no channel from a list but the one
\* that is destroyed.
THEOREM OnlyDestroyUnlists == Spec => ListedUntilDestroyed
<1> DEFINE Stay == ~mixed' => \A k \in Kinds : Linked(k) \cap Live' \subseteq Linked(k)'
<1>1. ChannelsInv /\ [Next]_vars => [Stay]_listVars
  <2> SUFFICES ASSUME ChannelsInv, [Next]_vars, ~mixed', ~UNCHANGED listVars,
                      NEW k \in Kinds, NEW d \in Linked(k), d \in Live'
               PROVE  d \in Linked(k)'
    OBVIOUS
  <2>1. CASE \E c \in Addrs, q \in Kinds, a \in Attrs : chan_create(c, q, a)
    <3>1. PICK c \in Addrs, q \in Kinds, a \in Attrs : chan_create(c, q, a)
      BY <2>1
    <3>2. Linked(k) \ {c} \subseteq Linked(k)'
      BY <3>1, CreateKeeps
    <3>3. c \notin Live /\ ~mixed
      BY <3>1 DEF chan_create, CanCreate, Idle, Up, Live
    <3>4. d # c
      BY <3>3, LinkedLive
    <3> QED BY <3>2, <3>4
  <2>2. CASE \E c \in Addrs : chan_destroy(c)
    <3>1. PICK c \in Addrs : chan_destroy(c)
      BY <2>2
    <3>2. Linked(k) \ {c} \subseteq Linked(k)'
      BY <3>1, DestroyKeeps
    <3>3. c \notin Live'
      BY <3>1, Zenon DEF chan_destroy, Live, ChannelsInv, TypeOK
    <3> QED BY <3>2, <3>3
  <2>3. CASE nh_destroy
    <3>1. chan' = [c \in Addrs |-> IF c \in Linked("tx") \cup Linked("rx") THEN Null ELSE chan[c]]
      BY <2>3, Zenon DEF nh_destroy
    <3>2. d \in Linked("tx") \cup Linked("rx")
      BY DEF Kinds
    <3> QED BY <3>1, <3>2 DEF Live
  <2>4. CASE \E c \in Addrs, q \in Kinds, a \in Attrs :
                guard_fails(c, q, a) \/ pipe_fails(c, q, a) \/ part_fails(c, q, a)
    <3>1. PICK c \in Addrs, q \in Kinds, a \in Attrs :
                 guard_fails(c, q, a) \/ pipe_fails(c, q, a) \/ part_fails(c, q, a)
      BY <2>4
    <3>2. PICK ch, t : Abandon(c, ch, t)
      <4>1. CASE guard_fails(c, q, a)
        BY <4>1, Zenon DEF guard_fails
      <4>2. CASE pipe_fails(c, q, a)
        BY <4>2, Zenon DEF pipe_fails
      <4>3. CASE part_fails(c, q, a)
        BY <4>3, Zenon DEF part_fails
      <4> QED BY <3>1, <4>1, <4>2, <4>3, Zenon
    <3> QED BY <3>2, Zenon DEF Abandon
  <2>5. CASE \E c \in Addrs, a \in Attrs : txtime_fails(c, a)
    BY <2>5, Zenon DEF txtime_fails, Abandon
  <2>6. CASE \E q \in Kinds, a \in Attrs, up \in BOOLEAN : nh_notify(q, a.sid, up)
    BY <2>6, Zenon DEF nh_notify
  <2>7. CASE \E sc \in Classes, p \in Prios : nh_set_tx_prio(sc, p)
    BY <2>7, Zenon DEF nh_set_tx_prio
  <2>8. CASE nh_stop \/ UNCHANGED vars
    BY <2>8, Zenon DEF nh_stop, vars
  <2> QED BY <2>1, <2>2, <2>3, <2>4, <2>5, <2>6, <2>7, <2>8, Zenon DEF Next
<1> QED BY <1>1, ChannelsInductive, PTL DEF Spec, ListedUntilDestroyed
=============================================================================

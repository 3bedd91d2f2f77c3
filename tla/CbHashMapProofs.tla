-------------------------- MODULE CbHashMapProofs --------------------------
(***************************************************************************)
(* The callback hash map, for every size, every set of stream ids and any  *)
(* number of channels: its type invariant, the occupied probe paths, the   *)
(* completeness of both searches, and the refinement of the stream table.  *)
(***************************************************************************)
EXTENDS CbHashMap, FiniteSetTheorems, WellFoundedInduction, TLAPS

\* Advancing an index of a ring of n slots by at most n - 1 wraps at most once.
LEMMA WrapOnce ==
  ASSUME NEW n \in Nat \ {0}, NEW h \in 0 .. n - 1, NEW k \in 0 .. n - 1
  PROVE  (h + k) % n = IF h + k < n THEN h + k ELSE h + k - n
OBVIOUS

\* A set of naturals that is not empty has a least element: the turn at which
\* a search loop of the code stops exists.  A natural n is represented by the
\* finite set of the naturals below it, ordered by strict inclusion.
LEMMA LeastNat ==
  ASSUME NEW T \in SUBSET Nat, T # {}
  PROVE  \E x \in T : \A y \in T : x <= y
<1> DEFINE Below(n) == 0 .. n - 1
           B == {Below(n) : n \in T}
           R == StrictSubsetOrdering(Nat)
<1>1. IsWellFoundedOn(R, FiniteSubsetsOf(Nat))
  BY FS_StrictSubsetOrderingWellFounded
<1>2. \A n \in T : Below(n) \in FiniteSubsetsOf(Nat)
  BY FS_Interval DEF FiniteSubsetsOf
<1>3. B \subseteq FiniteSubsetsOf(Nat) /\ B # {}
  BY <1>2
<1>4. \E b \in B : \A a \in B : ~(<<a, b>> \in R)
  <2> HIDE DEF B, R
  <2> QED BY <1>1, <1>3, WFMin
<1>5. PICK x \in T : \A a \in B : ~(<<a, Below(x)>> \in R)
  BY <1>4
<1>6. ASSUME NEW y \in T, y < x
      PROVE  FALSE
  <2>1. Below(y) \subseteq Below(x) /\ y \in Below(x) /\ y \notin Below(y)
    BY <1>6
  <2>2. <<Below(y), Below(x)>> \in R
    BY <2>1, <1>2 DEF StrictSubsetOrdering, FiniteSubsetsOf
  <2> QED BY <2>2, <1>5
<1> QED BY <1>6

\* The probe sequence of a stream is a permutation of the slots.
LEMMA ProbeRange ==
  ASSUME NEW s \in StreamIds, NEW k \in Idx
  PROVE  Probe(s, k) \in Idx
BY HmapAssumption DEF Probe, Idx

LEMMA ProbeInjective ==
  ASSUME NEW s \in StreamIds, NEW j \in Idx, NEW k \in Idx, j # k
  PROVE  Probe(s, j) # Probe(s, k)
<1> DEFINE h == s % HmapSz
<1>1. h \in 0 .. HmapSz - 1
  BY HmapAssumption
<1>2. ASSUME NEW i \in Idx
      PROVE  Probe(s, i) = IF h + i < HmapSz THEN h + i ELSE h + i - HmapSz
  <2>1. Probe(s, i) = (h + i) % HmapSz
    BY DEF Probe
  <2> HIDE DEF h
  <2> QED BY <2>1, <1>1, WrapOnce, HmapAssumption DEF Idx
<1>3. /\ Probe(s, j) = IF h + j < HmapSz THEN h + j ELSE h + j - HmapSz
      /\ Probe(s, k) = IF h + k < HmapSz THEN h + k ELSE h + k - HmapSz
  BY <1>2
<1> HIDE DEF h
<1> QED BY <1>1, <1>3, HmapAssumption DEF Idx

LEMMA ProbeSurjective ==
  ASSUME NEW s \in StreamIds, NEW i \in Idx
  PROVE  \E k \in Idx : Probe(s, k) = i
<1> DEFINE h == s % HmapSz
           d == IF i >= h THEN i - h ELSE i - h + HmapSz
<1>1. h \in 0 .. HmapSz - 1
  BY HmapAssumption
<1>2. d \in Idx
  BY <1>1, HmapAssumption DEF Idx
<1>3. (h + d) % HmapSz = i
  <2>1. h + d = IF i >= h THEN i ELSE i + HmapSz
    BY <1>1, HmapAssumption DEF Idx
  <2>2. (h + d) % HmapSz = IF h + d < HmapSz THEN h + d ELSE h + d - HmapSz
    <3> HIDE DEF h, d
    <3> QED BY <1>1, <1>2, WrapOnce, HmapAssumption DEF Idx
  <2> QED BY <2>1, <2>2, <1>1, HmapAssumption DEF Idx
<1> QED BY <1>2, <1>3 DEF Probe

\* A search that some turn can stop has a first turn that stops it.
LEMMA FirstTurn ==
  ASSUME NEW T \in SUBSET Idx, T # {}
  PROVE  \E k \in T : \A j \in 0 .. k - 1 : j \notin T
<1>1. T \in SUBSET Nat
  BY HmapAssumption DEF Idx
<1>2. PICK k \in T : \A j \in T : k <= j
  BY <1>1, LeastNat
<1> QED BY <1>1, <1>2

\* Both searches succeed whenever a slot they look for exists: this needs the
\* probe sequence to be a permutation, and nothing of the map's history.
LEMMA SearchesSucceed == SearchComplete
<1> SUFFICES ASSUME NEW s \in StreamIds
             PROVE  /\ Full(hmap) \/ \E k \in Idx : StopsAt(hmap, s, k)
                    /\ (\E i \in Idx : Match(hmap, s, i)) => Known(hmap, s)
  BY DEF SearchComplete
<1>1. ASSUME ~Full(hmap)
      PROVE  \E k \in Idx : StopsAt(hmap, s, k)
  <2> DEFINE T == {k \in Idx : ~Occupied(hmap, Probe(s, k))}
  <2>1. T # {}
    BY <1>1, ProbeSurjective DEF Full
  <2>2. PICK k \in T : \A j \in 0 .. k - 1 : j \notin T
    BY <2>1, FirstTurn
  <2>3. 0 .. k - 1 \subseteq Idx
    BY <2>2, HmapAssumption DEF Idx
  <2> QED BY <2>2, <2>3 DEF StopsAt
<1>2. ASSUME NEW i \in Idx, Match(hmap, s, i)
      PROVE  Known(hmap, s)
  <2> DEFINE T == {k \in Idx : Match(hmap, s, Probe(s, k))}
  <2>1. T # {}
    BY <1>2, ProbeSurjective
  <2>2. PICK k \in T : \A j \in 0 .. k - 1 : j \notin T
    BY <2>1, FirstTurn
  <2>3. 0 .. k - 1 \subseteq Idx
    BY <2>2, HmapAssumption DEF Idx
  <2> QED BY <2>2, <2>3 DEF Known, FoundAt
<1> QED BY <1>1, <1>2

\* A lookup returns the channel of the only turn at which it can stop.
LEMMA LookupIs ==
  ASSUME NEW h, NEW s \in StreamIds, NEW k \in Idx, FoundAt(h, s, k)
  PROVE  Lookup(h, s) = h[Probe(s, k)].priv_data
<1>1. ASSUME NEW j \in Idx, FoundAt(h, s, j)
      PROVE  j = k
  BY <1>1, HmapAssumption DEF FoundAt, Idx
<1>2. (CHOOSE j \in Idx : FoundAt(h, s, j)) = k
  BY <1>1
<1> QED BY <1>2 DEF Lookup, Known
-----------------------------------------------------------------------------
\* Type correctness: registrations store what the slots may hold.
THEOREM TypeCorrect == Spec => []TypeOK
<1>1. Init => TypeOK
  BY DEF Init, TypeOK, EmptySlot
<1>2. TypeOK /\ [Next]_vars => TypeOK'
  <2> SUFFICES ASSUME TypeOK, [Next]_vars
               PROVE  TypeOK'
    OBVIOUS
  <2> USE DEF TypeOK
  <2>1. ASSUME NEW c \in Chans, NEW s \in StreamIds, chan_create_rx(c, s)
        PROVE  TypeOK'
    BY <2>1 DEF chan_create_rx, nh_reg_callback
  <2>2. ASSUME NEW c \in Chans, chan_destroy(c)
        PROVE  TypeOK'
    BY <2>2 DEF chan_destroy
  <2>3. ASSUME NEW s \in StreamIds, nh_feed_pdu_ts(s)
        PROVE  TypeOK'
    <3>1. ASSUME Known(hmap, s)
          PROVE  Lookup(hmap, s) \in Chans \cup {NoCb}
      <4>1. PICK k \in Idx : FoundAt(hmap, s, k)
        BY <3>1 DEF Known
      <4> QED BY <4>1, LookupIs, ProbeRange
    <3>2. Lookup(hmap, s) \in Chans \cup {NoCb}
      BY <3>1 DEF Lookup
    <3> QED BY <2>3, <3>2 DEF nh_feed_pdu_ts
  <2>4. CASE UNCHANGED vars
    BY <2>4 DEF vars
  <2> QED BY <2>1, <2>2, <2>3, <2>4 DEF Next
<1> QED BY <1>1, <1>2, PTL DEF Spec

\* What a successful registration does to the searches: the slot it takes was
\* free, every other slot keeps its entry.
LEMMA Registration ==
  ASSUME TypeOK, NEW s \in StreamIds, NEW c \in Chans, NEW k \in Idx,
         StopsAt(hmap, s, k),
         hmap' = [hmap EXCEPT ![Probe(s, k)] = [stream_id |-> s, priv_data |-> c]]
  PROVE  /\ \A i \in Idx : Occupied(hmap', i) <=> Occupied(hmap, i) \/ i = Probe(s, k)
         /\ \A i \in Idx, t \in StreamIds :
              Match(hmap', t, i) <=>
                Match(hmap, t, i) \/ (t = s /\ i = Probe(s, k))
         /\ \A i \in Idx : Occupied(hmap, i) => hmap'[i] = hmap[i]
         /\ hmap'[Probe(s, k)].priv_data = c
         /\ ~Occupied(hmap, Probe(s, k))
<1>1. Probe(s, k) \in Idx
  BY ProbeRange
<1> QED BY <1>1, HmapAssumption DEF TypeOK, StopsAt, Occupied, Match

\* The probe path of every registered slot stays occupied: a registration
\* takes the first free slot of its path and never empties another one.
THEOREM ProbePathsOccupied == Spec => []ProbePathOccupied
<1>1. Init => ProbePathOccupied
  <2> SUFFICES ASSUME Init, NEW k \in Idx, NEW s \in StreamIds
               PROVE  ~Match(hmap, s, Probe(s, k))
    BY DEF ProbePathOccupied
  <2> QED BY ProbeRange DEF Init, EmptySlot, Match, Occupied
<1>2. TypeOK /\ ProbePathOccupied /\ [Next]_vars => ProbePathOccupied'
  <2> SUFFICES ASSUME TypeOK, ProbePathOccupied, [Next]_vars
               PROVE  ProbePathOccupied'
    OBVIOUS
  <2>1. ASSUME NEW c \in Chans, NEW s \in StreamIds, NEW k \in Idx,
               StopsAt(hmap, s, k),
               hmap' = [hmap EXCEPT ![Probe(s, k)] =
                          [stream_id |-> s, priv_data |-> c]]
        PROVE  ProbePathOccupied'
    <3> SUFFICES ASSUME NEW m \in Idx, NEW t \in StreamIds,
                        Match(hmap', t, Probe(t, m)),
                        NEW j \in 0 .. m - 1
                 PROVE  Occupied(hmap', Probe(t, j))
      BY DEF ProbePathOccupied
    <3>1. j \in Idx /\ Probe(t, j) \in Idx /\ Probe(t, m) \in Idx
      BY ProbeRange, HmapAssumption DEF Idx
    <3>2. CASE Match(hmap, t, Probe(t, m))
      <4>1. Occupied(hmap, Probe(t, j))
        BY <3>2 DEF ProbePathOccupied
      <4> QED BY <3>1, <4>1, <2>1, Registration
    <3>3. CASE t = s /\ Probe(t, m) = Probe(s, k)
      <4>1. m = k
        BY <3>3, ProbeInjective
      <4> QED BY <3>1, <3>3, <4>1, <2>1, Registration DEF StopsAt
    <3>4. \A i \in Idx, u \in StreamIds :
            Match(hmap', u, i) <=> Match(hmap, u, i) \/ (u = s /\ i = Probe(s, k))
      BY <2>1, Registration
    <3>5. Match(hmap, t, Probe(t, m)) \/ (t = s /\ Probe(t, m) = Probe(s, k))
      BY <3>1, <3>4
    <3> QED BY <3>2, <3>3, <3>5
  <2>2. CASE UNCHANGED hmap
    BY <2>2 DEF ProbePathOccupied, Match, Occupied
  <2> QED BY <2>1, <2>2 DEF Next, vars, chan_create_rx, nh_reg_callback,
                            chan_destroy, nh_feed_pdu_ts
<1> QED BY <1>1, <1>2, TypeCorrect, PTL DEF Spec

\* nh_reg_callback() and get_hm_idx() find whatever there is to find, in every
\* reachable state.
THEOREM SearchesComplete == Spec => []SearchComplete
BY SearchesSucceed, PTL

\* A stream that no slot holds is looked up as unknown.
LEMMA LookupNone ==
  ASSUME TypeOK, NEW s \in StreamIds
  PROVE  Lookup(hmap, s) = NoCb <=> ~Known(hmap, s)
<1>1. ASSUME NEW k \in Idx, FoundAt(hmap, s, k)
      PROVE  Lookup(hmap, s) # NoCb
  BY <1>1, LookupIs DEF FoundAt, Match, Occupied
<1> QED BY <1>1 DEF Known, Lookup

\* A successful registration changes the table the map represents exactly as
\* a registration in the stream table does.
LEMMA RegisterRefines ==
  ASSUME TypeOK, ProbePathOccupied,
         NEW s \in StreamIds, NEW c \in Chans, NEW k \in Idx,
         StopsAt(hmap, s, k),
         hmap' = [hmap EXCEPT ![Probe(s, k)] = [stream_id |-> s, priv_data |-> c]],
         NEW t \in StreamIds
  PROVE  Lookup(hmap', t) =
           IF t = s /\ Lookup(hmap, t) = NoCb THEN c ELSE Lookup(hmap, t)
<1> DEFINE p == Probe(s, k)
<1>0. p \in Idx /\ \A j \in Idx : Probe(t, j) \in Idx
  BY ProbeRange
<1>1. /\ \A i \in Idx : Match(hmap', t, i) <=> Match(hmap, t, i) \/ (t = s /\ i = p)
      /\ \A i \in Idx : Occupied(hmap, i) => hmap'[i] = hmap[i]
      /\ hmap'[p].priv_data = c
      /\ ~Occupied(hmap, p)
  <2>1. \A i \in Idx, u \in StreamIds :
          Match(hmap', u, i) <=> Match(hmap, u, i) \/ (u = s /\ i = Probe(s, k))
    BY Registration
  <2>2. \A i \in Idx : Occupied(hmap, i) => hmap'[i] = hmap[i]
    BY Registration
  <2>3. hmap'[Probe(s, k)].priv_data = c /\ ~Occupied(hmap, Probe(s, k))
    BY <1>0 DEF TypeOK, StopsAt
  <2> QED BY <2>1, <2>2, <2>3
<1> HIDE DEF p
<1>2. ASSUME NEW m \in Idx, FoundAt(hmap, t, m)
      PROVE  Lookup(hmap', t) = Lookup(hmap, t) /\ Lookup(hmap, t) # NoCb
    \* an earlier entry of the stream stays the first one found
  <2>1. Match(hmap, t, Probe(t, m))
    BY <1>2 DEF FoundAt
  <2>2. \A j \in 0 .. m - 1 : j \in Idx /\ Occupied(hmap, Probe(t, j))
    BY <2>1, HmapAssumption DEF ProbePathOccupied, Idx
  <2>3. ASSUME NEW j \in 0 .. m - 1
        PROVE  ~Match(hmap', t, Probe(t, j))
    <3>1. Probe(t, j) \in Idx /\ Probe(t, j) # p
      BY <1>0, <1>1, <2>2
    <3>2. ~Match(hmap, t, Probe(t, j))
      BY <1>2 DEF FoundAt
    <3> QED BY <1>1, <3>1, <3>2
  <2>4. FoundAt(hmap', t, m)
    BY <1>0, <1>1, <2>1, <2>3 DEF FoundAt
  <2>5. Lookup(hmap', t) = hmap'[Probe(t, m)].priv_data
    BY <2>4, LookupIs
  <2>6. Lookup(hmap, t) = hmap[Probe(t, m)].priv_data
    BY <1>2, LookupIs
  <2>7. Occupied(hmap, Probe(t, m))
    BY <2>1 DEF Match
  <2> QED BY <1>0, <1>1, <2>5, <2>6, <2>7 DEF Occupied
<1>3. ASSUME ~Known(hmap, t), t = s
      PROVE  Lookup(hmap', t) = c
  <2>1. \A i \in Idx : ~Match(hmap, t, i)
    BY <1>3, SearchesSucceed DEF SearchComplete
  <2>2. \A j \in 0 .. k - 1 : j \in Idx /\ Probe(t, j) # p
    BY <1>1, <1>3, HmapAssumption DEF StopsAt, Idx
  <2>3. FoundAt(hmap', t, k)
    BY <1>0, <1>1, <1>3, <2>1, <2>2 DEF FoundAt, p
  <2> QED BY <1>1, <1>3, <2>3, LookupIs DEF p
<1>4. ASSUME ~Known(hmap, t), t # s
      PROVE  ~Known(hmap', t)
  <2>1. \A i \in Idx : ~Match(hmap, t, i)
    BY <1>4, SearchesSucceed DEF SearchComplete
  <2> QED BY <1>0, <1>1, <1>4, <2>1 DEF Known, FoundAt
<1>5. CASE Known(hmap, t)
  BY <1>2, <1>5 DEF Known
<1>6. CASE ~Known(hmap, t)
  BY <1>3, <1>4, <1>6 DEF Lookup
<1> QED BY <1>5, <1>6

\* An accepted registration takes one of the HmapSz units of capacity.
LEMMA RegisterCounts ==
  ASSUME TypeOK, NEW s \in StreamIds, NEW c \in Chans, NEW k \in Idx,
         StopsAt(hmap, s, k),
         hmap' = [hmap EXCEPT ![Probe(s, k)] = [stream_id |-> s, priv_data |-> c]]
  PROVE  LET n == Cardinality({i \in Idx : Occupied(hmap, i)})
             m == Cardinality({i \in Idx : Occupied(hmap', i)})
         IN  n < HmapSz /\ m = n + 1
<1> DEFINE p == Probe(s, k)
           O == {i \in Idx : Occupied(hmap, i)}
           Q == {i \in Idx : Occupied(hmap', i)}
<1>1. IsFiniteSet(Idx) /\ Cardinality(Idx) = HmapSz
  BY FS_Interval, HmapAssumption DEF Idx
<1>2. p \in Idx /\ p \notin O
  BY ProbeRange DEF StopsAt
<1>3. Q = O \cup {p}
  <2>1. \A i \in Idx : Occupied(hmap', i) <=> Occupied(hmap, i) \/ i = Probe(s, k)
    BY Registration
  <2> QED BY <2>1, <1>2
<1> HIDE DEF p, O, Q
<1>4. IsFiniteSet(O) /\ Cardinality(O) <= HmapSz /\ Cardinality(O) \in Nat
  BY <1>1, FS_Subset, FS_CardinalityType DEF O
<1>5. Cardinality(O) # HmapSz
  <2>1. O \in SUBSET Idx
    BY DEF O
  <2>2. Cardinality(Idx) = Cardinality(O) => Idx = O
    BY <1>1, <2>1, FS_Subset
  <2> QED BY <1>1, <1>2, <2>2
<1>6. Cardinality(Q) = Cardinality(O) + 1
  BY <1>2, <1>3, <1>4, FS_AddElement
<1>7. Cardinality(O) < HmapSz
  BY <1>4, <1>5, HmapAssumption
<1> QED BY <1>6, <1>7 DEF O, Q

\* The hash map implements the first-registration-wins stream table: where the
\* frames of a stream go never changes once it has been decided, and a channel
\* is refused only after HmapSz registrations.
THEOREM Refinement == Spec => ImplementsStreamTable
<1>1. Init => ST!Init
  <2> SUFFICES ASSUME Init
               PROVE  ST!Init
    OBVIOUS
  <2>1. \A i \in Idx : ~Occupied(hmap, i)
    BY DEF Init, EmptySlot, Occupied
  <2>2. {i \in Idx : Occupied(hmap, i)} = {}
    BY <2>1
  <2>3. \A s \in StreamIds : Lookup(hmap, s) = NoCb
    BY <2>1, ProbeRange DEF Lookup, Known, FoundAt, Match
  <2> QED BY <2>2, <2>3, FS_EmptySet DEF ST!Init, Init
<1>2. TypeOK /\ ProbePathOccupied /\ [Next]_vars => [ST!Next]_(ST!vars)
  <2> SUFFICES ASSUME TypeOK, ProbePathOccupied, [Next]_vars
               PROVE  [ST!Next]_(ST!vars)
    OBVIOUS
  <2>1. ASSUME NEW c \in Chans, NEW s \in StreamIds, NEW k \in Idx,
               StopsAt(hmap, s, k),
               hmap' = [hmap EXCEPT ![Probe(s, k)] =
                          [stream_id |-> s, priv_data |-> c]],
               UNCHANGED handed
        PROVE  ST!Register(s, c)
    <3>1. \A t \in StreamIds :
            Lookup(hmap', t) =
              IF t = s /\ Lookup(hmap, t) = NoCb THEN c ELSE Lookup(hmap, t)
      BY <2>1, RegisterRefines
    <3>2. LET n == Cardinality({i \in Idx : Occupied(hmap, i)})
              m == Cardinality({i \in Idx : Occupied(hmap', i)})
          IN  n < HmapSz /\ m = n + 1
      BY <2>1, RegisterCounts
    <3> QED BY <2>1, <3>1, <3>2 DEF ST!Register
  <2>2. ASSUME NEW s \in StreamIds, nh_feed_pdu_ts(s)
        PROVE  ST!Feed(s)
    BY <2>2 DEF nh_feed_pdu_ts, ST!Feed
  <2>3. CASE UNCHANGED <<hmap, handed>>
    BY <2>3 DEF ST!vars
  <2>4. ASSUME NEW c \in Chans, NEW s \in StreamIds, chan_create_rx(c, s)
        PROVE  ST!Next \/ UNCHANGED <<hmap, handed>>
    BY <2>1, <2>4 DEF chan_create_rx, nh_reg_callback, ST!Next
  <2>5. ASSUME NEW c \in Chans, chan_destroy(c)
        PROVE  UNCHANGED <<hmap, handed>>
    BY <2>5 DEF chan_destroy
  <2>6. CASE UNCHANGED vars
    BY <2>3, <2>6 DEF vars
  <2> QED BY <2>2, <2>3, <2>4, <2>5, <2>6 DEF Next, ST!Next
<1> QED BY <1>1, <1>2, TypeCorrect, ProbePathsOccupied, PTL
        DEF Spec, ImplementsStreamTable, ST!Spec
=============================================================================

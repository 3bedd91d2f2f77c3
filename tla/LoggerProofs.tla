---------------------------- MODULE LoggerProofs ----------------------------
(***************************************************************************)
(* The logger for any number of threads, entries and rotations and any     *)
(* size of the buffers: no index leaves its buffer, and no entry is lost,  *)
(* written twice or written out of order.                                  *)
(***************************************************************************)
EXTENDS Logger, SequenceTheorems, FiniteSetTheorems, WellFoundedInduction, TLAPS

\* A set of naturals that is not empty has a least element: the turn at which
\* a search loop of the code stops exists.  A natural n is represented by the
\* finite set of the naturals below it, ordered by strict inclusion.
LEMMA LeastNat ==
  ASSUME NEW T \in SUBSET Nat, T # {}
  PROVE  \E x \in T : \A y \in T : x <= y
<1> DEFINE Below(n) == 0 .. n - 1
           B == {Below(n) : n \in T}
           R == StrictSubsetOrdering(Nat)
<1>1. IsWellFoundedOn(R, FiniteSubsetsOf(Nat))
  BY FS_StrictSubsetOrderingWellFounded
<1>2. \A n \in T : Below(n) \in FiniteSubsetsOf(Nat)
  BY FS_Interval DEF FiniteSubsetsOf
<1>3. B \subseteq FiniteSubsetsOf(Nat) /\ B # {}
  BY <1>2
<1>4. \E b \in B : \A a \in B : ~(<<a, b>> \in R)
  <2> HIDE DEF B, R
  <2> QED BY <1>1, <1>3, WFMin
<1>5. PICK x \in T : \A a \in B : ~(<<a, Below(x)>> \in R)
  BY <1>4
<1>6. ASSUME NEW y \in T, y < x
      PROVE  FALSE
  <2>1. Below(y) \subseteq Below(x) /\ y \in Below(x) /\ y \notin Below(y)
    BY <1>6
  <2>2. <<Below(y), Below(x)>> \in R
    BY <2>1, <1>2 DEF StrictSubsetOrdering, FiniteSubsetsOf
  <2> QED BY <2>2, <1>5
<1> QED BY <1>6

Flushing == {"flush_ts", "flush_wd", "rotated"}
Inside == {"store", "incr", "relock", "reset"} \cup Flushing

\* The mutex, p telling where the threads are and h who holds it: a thread is
\* in the locked part of a call when and only when it holds the mutex.
Exclusive(p, h) ==
  /\ \A t \in Threads : p[t] \in Inside => h = t
  /\ h # None => p[h] \in Inside

\* Where a thread is tells what it called, and an entry that was stored is the
\* one that is then counted.
CallInv ==
  \A t \in Threads :
    /\ pc[t] \in {"store", "incr", "relock"} => call[t] \in Buffers
    /\ pc[t] \in Flushing => call[t] = "rotate"
    /\ pc[t] = "incr" => idx[call[t]] < BSZ /\ buf[call[t]][idx[call[t]]] = count

\* The calls of nh_rotate_logs() that are under way.
Rotating == {t \in Threads : pc[t] # "idle" /\ call[t] = "rotate"}

\* A file number is left for every one of them.
FilesLeft == flush_ctr + Cardinality(Rotating) <= LastFile

\* Buffer b has been flushed by a rotation that has not ended.
Flushed(p, b) ==
  \E t \in Threads : p[t] = "rotated" \/ (b = "ts" /\ p[t] = "flush_wd")

\* The entries kp that were kept are, in this order, in the files f before the
\* one of number n, then in the buffer (en) or, if it is flushed, in file n.
Accounted(f, n, kp, en, flushed) ==
  /\ \A i \in FileNos : i > n => f[i] = <<>>
  /\ IF flushed THEN kp = Concat(f)[n] \o f[n]
                ELSE f[n] = <<>> /\ kp = Concat(f)[n] \o en

EntryInv ==
  \A b \in Buffers :
    Accounted(file[b], flush_ctr, kept[b], Entries(b), Flushed(pc, b))

LogInv == TypeOK /\ Exclusive(pc, m) /\ CallInv /\ FilesLeft /\ EntryInv
-----------------------------------------------------------------------------
\* The concatenation of the files, by its recursion.

LEMMA LastFileNat == LastFile \in Nat
BY LoggerAssumption, FS_CardinalityType DEF LastFile

\* The recursive definition of Concat defines a function: one that obeys the
\* recursion on a prefix can be extended by one.
LEMMA ConcatExists ==
  ASSUME NEW f
  PROVE  \E g : g = [n \in 0 .. LastFile + 1 |-> IF n = 0 THEN <<>> ELSE g[n - 1] \o f[n - 1]]
<1> DEFINE Obeys(g, k) == g = [n \in 0 .. k |-> IF n = 0 THEN <<>> ELSE g[n - 1] \o f[n - 1]]
           T == {k \in Nat : ~\E g : Obeys(g, k)}
<1>1. ASSUME T # {} PROVE FALSE
  <2>1. PICK k \in T : \A j \in T : k <= j
    <3> HIDE DEF T
    <3>1. T \in SUBSET Nat
      BY Zenon DEF T
    <3> QED BY <3>1, <1>1, LeastNat
  <2>2. k # 0
    <3>1. Obeys([n \in 0 .. 0 |-> <<>>], 0)
      OBVIOUS
    <3> QED BY <3>1, <2>1, Zenon
  <2>3. k - 1 \in Nat /\ k - 1 \notin T
    <3>1. k \in Nat
      BY <2>1
    <3>2. k - 1 \in Nat /\ ~(k <= k - 1)
      BY <3>1, <2>2
    <3> HIDE DEF T
    <3> QED BY <3>2, <2>1
  <2>4. PICK g : Obeys(g, k - 1)
    BY <2>3, Zenon
  <2> DEFINE h == [n \in 0 .. k |-> IF n = k THEN g[k - 1] \o f[k - 1] ELSE g[n]]
  <2>5. \A n \in 0 .. k : h[n] = IF n = 0 THEN <<>> ELSE h[n - 1] \o f[n - 1]
    <3> TAKE n \in 0 .. k
    <3>1. CASE n = k
      <4>1. k - 1 \in 0 .. k /\ k - 1 # k /\ n - 1 = k - 1 /\ n # 0
        BY <3>1, <2>2, <2>3
      <4>2. h[n] = g[k - 1] \o f[k - 1] /\ h[k - 1] = g[k - 1]
        BY <3>1, <4>1, Zenon
      <4> HIDE DEF h, T, Obeys
      <4> QED BY <4>1, <4>2, Zenon
    <3>2. CASE n # k
      <4>1. n \in 0 .. k - 1 /\ h[n] = g[n]
        BY <3>2, <2>3
      <4>2. g[n] = IF n = 0 THEN <<>> ELSE g[n - 1] \o f[n - 1]
        BY <4>1, <2>4
      <4>3. n # 0 => n - 1 \in 0 .. k /\ n - 1 # k
        BY <4>1, <2>3
      <4>4. n # 0 => h[n - 1] = g[n - 1]
        BY <4>3
      <4> HIDE DEF h, Obeys, T
      <4> QED BY <4>1, <4>2, <4>4
    <3> QED BY <3>1, <3>2
  <2>6. Obeys(h, k)
    <3>1. h = [n \in 0 .. k |-> h[n]]
      OBVIOUS
    <3> HIDE DEF h
    <3> QED BY <2>5, <3>1
  <2> QED BY <2>6, <2>1, Zenon
<1>2. LastFile + 1 \in Nat
  BY LastFileNat
<1>3. \E g : Obeys(g, LastFile + 1)
  BY <1>1, <1>2, Zenon
<1> QED BY <1>3, Zenon

LEMMA ConcatRec ==
  ASSUME NEW f
  PROVE  /\ Concat(f)[0] = <<>>
         /\ \A n \in FileNos : Concat(f)[n + 1] = Concat(f)[n] \o f[n]
<1>1. Concat(f) = [n \in 0 .. LastFile + 1 |->
                    IF n = 0 THEN <<>> ELSE Concat(f)[n - 1] \o f[n - 1]]
  BY ConcatExists, Zenon DEF Concat
<1> DEFINE c == Concat(f)
<1>2. \A n \in 0 .. LastFile + 1 : c[n] = IF n = 0 THEN <<>> ELSE c[n - 1] \o f[n - 1]
  <2> HIDE DEF c
  <2>1. c = [n \in 0 .. LastFile + 1 |-> IF n = 0 THEN <<>> ELSE c[n - 1] \o f[n - 1]]
    BY <1>1, Zenon DEF c
  <2> QED BY <2>1, Zenon
<1> HIDE DEF c
<1>3. c[0] = <<>>
  BY <1>2, LastFileNat
<1>4. ASSUME NEW n \in FileNos PROVE c[n + 1] = c[n] \o f[n]
  <2>1. n + 1 \in 0 .. LastFile + 1 /\ n + 1 # 0 /\ (n + 1) - 1 = n
    BY LastFileNat DEF FileNos
  <2> QED BY <2>1, <1>2, Zenon
<1> QED BY <1>3, <1>4, Zenon DEF c

LEMMA ConcatType ==
  ASSUME NEW f \in [FileNos -> Seq(Nat)]
  PROVE  \A n \in 0 .. LastFile + 1 : Concat(f)[n] \in Seq(Nat)
<1> DEFINE T == {k \in Nat : k <= LastFile + 1 /\ Concat(f)[k] \notin Seq(Nat)}
<1>1. ASSUME T # {} PROVE FALSE
  <2>1. PICK k \in T : \A j \in T : k <= j
    <3>1. T \in SUBSET Nat
      OBVIOUS
    <3> HIDE DEF T
    <3> QED BY <3>1, <1>1, LeastNat
  <2>2. k # 0
    <3>1. <<>> \in Seq(Nat)
      OBVIOUS
    <3> QED BY <3>1, <2>1, ConcatRec, Zenon
  <2>3. k - 1 \in FileNos /\ k - 1 \notin T /\ (k - 1) + 1 = k
    BY <2>1, <2>2, LastFileNat DEF FileNos
  <2>4. Concat(f)[k - 1] \in Seq(Nat) /\ f[k - 1] \in Seq(Nat)
    BY <2>3, LastFileNat DEF FileNos
  <2>5. Concat(f)[k] = Concat(f)[k - 1] \o f[k - 1]
    BY <2>3, ConcatRec, Zenon
  <2>6. Concat(f)[k] \in Seq(Nat)
    BY <2>4, <2>5, ConcatProperties
  <2> QED BY <2>6, <2>1
<1> QED BY <1>1, LastFileNat

\* What is in the first k files does not depend on the others.
LEMMA ConcatAgree ==
  ASSUME NEW f, NEW g, NEW k \in 0 .. LastFile + 1,
         \A n \in FileNos : n < k => f[n] = g[n]
  PROVE  Concat(f)[k] = Concat(g)[k]
<1> DEFINE T == {j \in Nat : j <= k /\ Concat(f)[j] # Concat(g)[j]}
<1>1. ASSUME T # {} PROVE FALSE
  <2>1. PICK j \in T : \A i \in T : j <= i
    <3>1. T \in SUBSET Nat
      OBVIOUS
    <3> HIDE DEF T
    <3> QED BY <3>1, <1>1, LeastNat, Zenon
  <2>2. j # 0
    BY <2>1, ConcatRec, Zenon
  <2>3. j - 1 \in FileNos /\ j - 1 < k /\ j - 1 \notin T /\ (j - 1) + 1 = j
    BY <2>1, <2>2, LastFileNat DEF FileNos
  <2>4. Concat(f)[j - 1] = Concat(g)[j - 1] /\ f[j - 1] = g[j - 1]
    BY <2>3, LastFileNat DEF FileNos
  <2>5. Concat(f)[j] = Concat(f)[j - 1] \o f[j - 1] /\ Concat(g)[j] = Concat(g)[j - 1] \o g[j - 1]
    BY <2>3, ConcatRec, Zenon
  <2> QED BY <2>4, <2>5, <2>1, Zenon
<1> QED BY <1>1, LastFileNat

\* Empty files at the end add nothing.
LEMMA ConcatConstant ==
  ASSUME NEW f \in [FileNos -> Seq(Nat)], NEW k \in 0 .. LastFile + 1,
         \A n \in FileNos : n >= k => f[n] = <<>>
  PROVE  Concat(f)[LastFile + 1] = Concat(f)[k]
<1> DEFINE T == {j \in Nat : k <= j /\ j <= LastFile + 1 /\ Concat(f)[j] # Concat(f)[k]}
<1>1. ASSUME T # {} PROVE FALSE
  <2>1. PICK j \in T : \A i \in T : j <= i
    <3>1. T \in SUBSET Nat
      OBVIOUS
    <3> HIDE DEF T
    <3> QED BY <3>1, <1>1, LeastNat
  <2>2. j # k
    BY <2>1
  <2>3. j - 1 \in FileNos /\ k <= j - 1 /\ j - 1 \notin T /\ (j - 1) + 1 = j
    BY <2>1, <2>2, LastFileNat DEF FileNos
  <2>4. Concat(f)[j - 1] = Concat(f)[k] /\ f[j - 1] = <<>>
    BY <2>3, LastFileNat DEF FileNos
  <2>5. Concat(f)[j] = Concat(f)[j - 1] \o f[j - 1]
    BY <2>3, ConcatRec, Zenon
  <2>6. Concat(f)[k] \in Seq(Nat)
    BY ConcatType
  <2>7. Concat(f)[j] = Concat(f)[k]
    BY <2>4, <2>5, <2>6, ConcatEmptySeq
  <2> QED BY <2>7, <2>1
<1> QED BY <1>1, LastFileNat
-----------------------------------------------------------------------------
\* What the steps do to the account of a buffer.

\* An entry is logged.
LEMMA AccountAppend ==
  ASSUME NEW f \in [FileNos -> Seq(Nat)], NEW n \in FileNos, NEW kp \in Seq(Nat),
         NEW en \in Seq(Nat), NEW x \in Nat, Accounted(f, n, kp, en, FALSE)
  PROVE  Accounted(f, n, Append(kp, x), Append(en, x), FALSE)
<1> DEFINE c == Concat(f)[n]
<1>1. c \in Seq(Nat)
  <2>1. n \in 0 .. LastFile + 1
    BY LastFileNat DEF FileNos
  <2> QED BY <2>1, ConcatType
<1>2. kp = c \o en
  BY DEF Accounted
<1>3. Append(c \o en, x) = c \o Append(en, x)
  <2> HIDE DEF c
  <2>1. c \o en \in Seq(Nat) /\ Append(en, x) \in Seq(Nat)
    BY <1>1, ConcatProperties
  <2>2. /\ Append(c \o en, x) \in Seq(Nat) /\ c \o Append(en, x) \in Seq(Nat)
        /\ Len(Append(c \o en, x)) = Len(c \o Append(en, x))
    BY <1>1, <2>1
  <2>3. \A i \in 1 .. Len(Append(c \o en, x)) : Append(c \o en, x)[i] = (c \o Append(en, x))[i]
    BY <1>1, <2>1
  <2> QED BY <2>2, <2>3, SeqEqual, Zenon
<1> QED BY <1>2, <1>3 DEF Accounted

\* The entries of the buffer are given up.
LEMMA AccountWithout ==
  ASSUME NEW f \in [FileNos -> Seq(Nat)], NEW n \in FileNos, NEW kp \in Seq(Nat),
         NEW en \in Seq(Nat), Accounted(f, n, kp, en, FALSE)
  PROVE  /\ SubSeq(kp, 1, Len(kp) - Len(en)) \in Seq(Nat)
         /\ Accounted(f, n, SubSeq(kp, 1, Len(kp) - Len(en)), <<>>, FALSE)
         /\ Accounted(f, n, SubSeq(kp, 1, Len(kp) - Len(en)), <<>>, TRUE)
<1> DEFINE c == Concat(f)[n]
           s == SubSeq(kp, 1, Len(kp) - Len(en))
<1>1. c \in Seq(Nat)
  <2>1. n \in 0 .. LastFile + 1
    BY LastFileNat DEF FileNos
  <2> QED BY <2>1, ConcatType
<1>2. kp = c \o en /\ f[n] = <<>>
  BY DEF Accounted
<1>3. s = c
  <2> HIDE DEF c
  <2>1. Len(kp) - Len(en) = Len(c)
    BY <1>1, <1>2
  <2>2. s \in Seq(Nat) /\ Len(s) = Len(c)
    BY <1>1, <1>2, <2>1
  <2>3. \A i \in 1 .. Len(c) : s[i] = c[i]
    BY <1>1, <1>2, <2>1
  <2> HIDE DEF s
  <2> QED BY <1>1, <2>2, <2>3, SeqEqual
<1>4. c \o <<>> = c
  <2> HIDE DEF c
  <2> QED BY <1>1, ConcatEmptySeq
<1> QED BY <1>1, <1>2, <1>3, <1>4, Zenon DEF Accounted

\* The buffer is written to file n.
LEMMA AccountFlush ==
  ASSUME NEW f \in [FileNos -> Seq(Nat)], NEW n \in FileNos, NEW kp \in Seq(Nat),
         NEW en \in Seq(Nat), NEW en1, Accounted(f, n, kp, en, FALSE)
  PROVE  Accounted([f EXCEPT ![n] = en], n, kp, en1, TRUE)
<1> DEFINE g == [f EXCEPT ![n] = en]
<1>1. g[n] = en /\ \A i \in FileNos : i # n => g[i] = f[i]
  OBVIOUS
<1> HIDE DEF g
<1>2. \A i \in FileNos : i < n => f[i] = g[i]
  BY <1>1 DEF FileNos
<1>3. n \in 0 .. LastFile + 1
  BY LastFileNat DEF FileNos
<1>4. Concat(f)[n] = Concat(g)[n]
  BY <1>2, <1>3, ConcatAgree
<1>5. \A i \in FileNos : i > n => g[i] = <<>>
  BY <1>1 DEF Accounted, FileNos
<1>6. kp = Concat(g)[n] \o g[n]
  BY <1>1, <1>4 DEF Accounted
<1>7. Accounted(g, n, kp, en1, TRUE)
  BY <1>5, <1>6 DEF Accounted
<1> QED BY <1>7, Zenon DEF g

\* The next file number is taken.
LEMMA AccountRotate ==
  ASSUME NEW f \in [FileNos -> Seq(Nat)], NEW n \in FileNos, n + 1 \in FileNos,
         NEW kp \in Seq(Nat), NEW en, Accounted(f, n, kp, en, TRUE)
  PROVE  Accounted(f, n + 1, kp, <<>>, FALSE)
<1>1. n + 1 > n /\ \A i \in FileNos : i > n + 1 => i > n
  BY DEF FileNos
<1>2. f[n + 1] = <<>> /\ \A i \in FileNos : i > n + 1 => f[i] = <<>>
  BY <1>1 DEF Accounted
<1>3. Concat(f)[n + 1] = Concat(f)[n] \o f[n]
  BY ConcatRec, Zenon
<1>4. kp = Concat(f)[n + 1]
  BY <1>3 DEF Accounted
<1>5. kp = Concat(f)[n + 1] \o <<>>
  BY <1>4, ConcatEmptySeq
<1> QED BY <1>2, <1>5 DEF Accounted

\* Whether a buffer is flushed is told by the thread that holds the mutex.
LEMMA HolderFlushes ==
  ASSUME NEW p, NEW h, Exclusive(p, h), NEW t \in Threads, p[t] \in Inside, NEW b
  PROVE  Flushed(p, b) <=> (p[t] = "rotated" \/ (b = "ts" /\ p[t] = "flush_wd"))
<1>1. h = t /\ \A u \in Threads : p[u] \in Inside => u = t
  BY DEF Exclusive
<1>2. \A u \in Threads : p[u] \in {"rotated", "flush_wd"} => p[u] \in Inside
  BY DEF Inside, Flushing
<1> QED BY <1>1, <1>2 DEF Flushed

LEMMA FreeNotFlushed ==
  ASSUME NEW p, Exclusive(p, None), NEW b
  PROVE  ~Flushed(p, b)
<1>1. \A u \in Threads : p[u] \in {"rotated", "flush_wd"} => p[u] \in Inside
  BY DEF Inside, Flushing
<1> QED BY <1>1, LoggerAssumption DEF Flushed, Exclusive

\* The entries of a buffer are a sequence of as many numbers as it counts.
LEMMA EntriesType ==
  ASSUME TypeOK, NEW b \in Buffers
  PROVE  Entries(b) \in Seq(Nat) /\ Len(Entries(b)) = idx[b]
<1>1. idx[b] \in 0 .. BSZ /\ buf[b] \in [0 .. BSZ - 1 -> Nat]
  BY DEF TypeOK
<1>2. \A i \in 1 .. idx[b] : i - 1 \in 0 .. BSZ - 1
  BY <1>1, LoggerAssumption
<1>3. Entries(b) \in [1 .. idx[b] -> Nat]
  BY <1>1, <1>2, Zenon DEF Entries
<1> QED BY <1>1, <1>3, LoggerAssumption

\* A thread in the locked part of a call is alone there.
LEMMA Alone ==
  ASSUME LogInv, NEW t \in Threads, pc[t] \in Inside
  PROVE  m = t /\ \A u \in Threads \ {t} : pc[u] \notin Inside
BY DEF LogInv, Exclusive

\* It goes on in the locked part, or leaves it.
LEMMA KeepMutex ==
  ASSUME LogInv, NEW t \in Threads, pc[t] \in Inside, m' = m,
         NEW at \in Inside, pc' = [pc EXCEPT ![t] = at]
  PROVE  Exclusive(pc', m')
<1>1. \A u \in Threads : pc'[u] = IF u = t THEN at ELSE pc[u]
  BY DEF LogInv, TypeOK
<1> QED BY <1>1, Alone, LoggerAssumption DEF Exclusive

LEMMA LeaveMutex ==
  ASSUME LogInv, NEW t \in Threads, pc[t] \in Inside, unlock(t)
  PROVE  /\ m' = None /\ Exclusive(pc', m')
         /\ \A b : ~Flushed(pc', b)
         /\ \A u \in Threads : pc'[u] \notin Inside
<1>1. \A u \in Threads : pc'[u] = IF u = t THEN "idle" ELSE pc[u]
  BY DEF LogInv, TypeOK, unlock
<1>2. \A u \in Threads : pc'[u] \notin Inside
  BY <1>1, Alone DEF Inside, Flushing
<1>3. m' = None /\ Exclusive(pc', m')
  BY <1>2 DEF Exclusive, unlock
<1>4. Exclusive(pc', None)
  BY <1>3
<1> QED BY <1>2, <1>3, <1>4, FreeNotFlushed

\* A call under way that is not one of nh_rotate_logs(), or ends, takes no file.
LEMMA NoMoreRotating ==
  ASSUME LogInv, Rotating' \subseteq Rotating, flush_ctr' = flush_ctr
  PROVE  FilesLeft'
<1>1. IsFiniteSet(Rotating)
  BY LoggerAssumption, FS_Subset DEF Rotating
<1>2. IsFiniteSet(Rotating') /\ Cardinality(Rotating') <= Cardinality(Rotating)
  BY <1>1, FS_Subset
<1>3. Cardinality(Rotating) \in Nat /\ Cardinality(Rotating') \in Nat
  BY <1>1, <1>2, FS_CardinalityType
<1> QED BY <1>2, <1>3, LastFileNat DEF LogInv, FilesLeft, TypeOK, FileNos
-----------------------------------------------------------------------------
LEMMA LogInit == Init => LogInv
<1> SUFFICES ASSUME Init PROVE LogInv
  OBVIOUS
<1>1. 0 \in FileNos /\ 0 \in 0 .. BSZ
  BY LastFileNat, LoggerAssumption DEF FileNos
<1>2. TypeOK
  <2>1. <<>> \in Seq(Nat)
    OBVIOUS
  <2>2. m \in Threads \cup {None} /\ flush_ctr \in FileNos /\ count \in Nat
    BY <1>1 DEF Init
  <2>3. file \in [Buffers -> [FileNos -> Seq(Nat)]] /\ kept \in [Buffers -> Seq(Nat)]
    BY <2>1 DEF Init
  <2>4. /\ buf \in [Buffers -> [0 .. BSZ - 1 -> Nat]]
        /\ idx \in [Buffers -> 0 .. BSZ]
    BY <1>1 DEF Init
  <2> QED BY <2>2, <2>3, <2>4 DEF TypeOK, Init
<1>3. Exclusive(pc, m) /\ CallInv
  BY DEF Init, Exclusive, CallInv, Inside, Flushing
<1>4. FilesLeft
  <2>1. Rotating = {}
    BY DEF Rotating, Init
  <2>2. Cardinality(Rotating) = 0
    BY <2>1, FS_EmptySet
  <2> QED BY <2>2, LastFileNat DEF FilesLeft, Init
<1>5. ASSUME NEW b \in Buffers
      PROVE  Accounted(file[b], flush_ctr, kept[b], Entries(b), Flushed(pc, b))
  <2>1. ~Flushed(pc, b)
    BY DEF Flushed, Init
  <2>2. Entries(b) = <<>>
    <3>1. Entries(b) \in Seq(Nat) /\ Len(Entries(b)) = 0
      BY <1>2, EntriesType DEF Init
    <3> QED BY <3>1
  <2>3. flush_ctr = 0 /\ kept[b] = <<>> /\ \A n \in FileNos : file[b][n] = <<>>
    BY DEF Init
  <2>4. Concat(file[b])[0] \o <<>> = <<>>
    <3>1. Concat(file[b])[0] = <<>>
      BY ConcatRec, Zenon
    <3> QED BY <3>1
  <2> QED BY <1>1, <2>1, <2>2, <2>3, <2>4 DEF Accounted
<1> QED BY <1>2, <1>3, <1>4, <1>5 DEF LogInv, EntryInv

LEMMA EnterKeeps ==
  ASSUME LogInv, NEW t \in Threads, NEW c \in Buffers \cup {"rotate", "reset"}, enter(t, c)
  PROVE  LogInv'
<1> USE DEF LogInv
<1>0. /\ \A u \in Threads : pc'[u] = IF u = t THEN "lock" ELSE pc[u]
      /\ \A u \in Threads : call'[u] = IF u = t THEN c ELSE call[u]
      /\ pc[t] = "idle"
  BY DEF enter, TypeOK
<1>1. TypeOK'
  BY DEF enter, TypeOK
<1>2. Exclusive(pc', m')
  <2>1. m' = m
    BY DEF enter
  <2> QED BY <1>0, <2>1, LoggerAssumption DEF Exclusive, Inside, Flushing, TypeOK
<1>3. CallInv'
  BY <1>0 DEF CallInv, enter, Flushing
<1>4. FilesLeft'
  <2>1. CASE c = "rotate"
    <3>1. Rotating' \subseteq Threads
      BY DEF Rotating
    <3>2. Cardinality(Rotating') <= Cardinality(Threads) /\ Cardinality(Rotating') \in Nat
      BY <3>1, LoggerAssumption, FS_Subset, FS_CardinalityType
    <3>3. flush_ctr < MaxRotate /\ flush_ctr' = flush_ctr /\ flush_ctr \in Nat
      BY <2>1, LastFileNat DEF enter, TypeOK, FileNos
    <3>4. Cardinality(Threads) \in Nat
      BY LoggerAssumption, FS_CardinalityType
    <3> QED BY <3>2, <3>3, <3>4, LoggerAssumption DEF FilesLeft, LastFile
  <2>2. CASE c # "rotate"
    <3>1. Rotating' \subseteq Rotating
      BY <1>0, <2>2 DEF Rotating
    <3>2. flush_ctr' = flush_ctr
      BY DEF enter
    <3> QED BY <3>1, <3>2, NoMoreRotating
  <2> QED BY <2>1, <2>2
<1>5. ASSUME NEW b \in Buffers
      PROVE  Accounted(file'[b], flush_ctr', kept'[b], Entries(b)', Flushed(pc', b))
  <2>1. Entries(b)' = Entries(b) /\ file' = file /\ flush_ctr' = flush_ctr /\ kept' = kept
    BY DEF Entries, enter
  <2>2. Flushed(pc', b) = Flushed(pc, b)
    BY <1>0, Zenon DEF Flushed
  <2> QED BY <2>1, <2>2, Zenon DEF EntryInv
<1> QED BY <1>1, <1>2, <1>3, <1>4, <1>5 DEF EntryInv

LEMMA LockKeeps ==
  ASSUME LogInv, NEW t \in Threads, lock(t)
  PROVE  LogInv'
<1> USE DEF LogInv
<1>0. pc[t] = "lock" /\ m = None /\ m' = t
  BY LoggerAssumption DEF lock, Exclusive, Inside
<1>b. /\ Body(t) \in {"store", "flush_ts", "reset"}
      /\ Body(t) = "store" => call[t] \in Buffers
      /\ Body(t) = "flush_ts" => call[t] = "rotate"
  <2>1. call[t] \in Buffers \cup {"rotate", "reset"}
    BY DEF TypeOK
  <2> QED BY <2>1 DEF Body, Buffers
<1>c. /\ \A u \in Threads : pc'[u] = IF u = t THEN Body(t) ELSE pc[u]
      /\ pc' = [pc EXCEPT ![t] = Body(t)]
  BY <1>0 DEF lock, TypeOK
<1>1. TypeOK'
  BY <1>0, <1>b, <1>c DEF lock, TypeOK
<1>2. Exclusive(pc', m')
  <2>1. Body(t) \in Inside
    BY <1>b DEF Inside, Flushing
  <2>2. Exclusive(pc, None)
    BY <1>0
  <2>3. Exclusive(pc', t)
    BY <1>c, <2>1, <2>2, LoggerAssumption DEF Exclusive
  <2> QED BY <1>0, <2>3
<1>3. CallInv'
  BY <1>b, <1>c DEF CallInv, lock, Flushing
<1>4. FilesLeft'
  <2>1. Rotating' \subseteq Rotating /\ flush_ctr' = flush_ctr
    BY <1>0, <1>c DEF Rotating, lock
  <2> QED BY <2>1, NoMoreRotating
<1>5. ASSUME NEW b \in Buffers
      PROVE  Accounted(file'[b], flush_ctr', kept'[b], Entries(b)', Flushed(pc', b))
  <2>1. Entries(b)' = Entries(b) /\ file' = file /\ flush_ctr' = flush_ctr /\ kept' = kept
    BY DEF Entries, lock
  <2>2. Flushed(pc', b) = Flushed(pc, b)
    BY <1>0, <1>b, <1>c, SMT DEF Flushed
  <2> QED BY <2>1, <2>2, Zenon DEF EntryInv
<1> QED BY <1>1, <1>2, <1>3, <1>4, <1>5 DEF EntryInv

LEMMA StoreKeeps ==
  ASSUME LogInv, NEW t \in Threads, log_store(t)
  PROVE  LogInv'
<1> USE DEF LogInv
<1> DEFINE d == call[t]
           at == IF idx[d] < BSZ THEN "incr" ELSE "relock"
<1>0. /\ pc[t] = "store" /\ m = t /\ d \in Buffers
      /\ \A u \in Threads \ {t} : pc[u] \notin Inside
  <2>1. pc[t] = "store"
    BY DEF log_store
  <2> QED BY <2>1 DEF Exclusive, Inside, CallInv
<1>t. idx[d] \in 0 .. BSZ /\ count \in Nat /\ buf[d] \in [0 .. BSZ - 1 -> Nat]
  BY <1>0 DEF TypeOK
<1>c. /\ \A u \in Threads : pc'[u] = IF u = t THEN at ELSE pc[u]
      /\ pc' = [pc EXCEPT ![t] = at]
  BY DEF log_store, TypeOK
<1>d. buf' = IF idx[d] < BSZ THEN [buf EXCEPT ![d][idx[d]] = count + 1] ELSE buf
  BY DEF log_store
<1>e. \A b \in Buffers, i \in 0 .. BSZ - 1 :
        buf'[b][i] = IF b = d /\ i = idx[d] THEN count + 1 ELSE buf[b][i]
  <2>1. CASE idx[d] < BSZ
    <3>1. buf' = [buf EXCEPT ![d] = [buf[d] EXCEPT ![idx[d]] = count + 1]]
      BY <1>d, <2>1
    <3> QED BY <1>0, <1>t, <2>1, <3>1, Zenon DEF TypeOK
  <2>2. CASE ~(idx[d] < BSZ)
    BY <1>t, <1>d, <2>2, LoggerAssumption
  <2> QED BY <2>1, <2>2
<1>1. TypeOK'
  <2>1. buf' \in [Buffers -> [0 .. BSZ - 1 -> Nat]]
    <3>1. CASE idx[d] < BSZ
      <4>1. [buf[d] EXCEPT ![idx[d]] = count + 1] \in [0 .. BSZ - 1 -> Nat]
        <5>1. count + 1 \in Nat
          BY <1>t
        <5> QED BY <1>t, <5>1, Zenon
      <4>2. buf' = [buf EXCEPT ![d] = [buf[d] EXCEPT ![idx[d]] = count + 1]]
        BY <1>d, <3>1
      <4> QED BY <4>1, <4>2, Zenon DEF TypeOK
    <3> QED BY <1>d, <3>1 DEF TypeOK
  <2>2. count' \in Nat
    BY <1>t DEF log_store
  <2>3. pc' \in [Threads -> {"idle", "lock", "store", "incr", "relock", "flush_ts",
                             "flush_wd", "rotated", "reset"}]
    BY <1>c DEF TypeOK
  <2> QED BY <2>1, <2>2, <2>3 DEF log_store, TypeOK
<1>2. Exclusive(pc', m')
  <2>1. at \in Inside /\ pc[t] \in Inside /\ m' = m /\ m \in Threads \cup {None}
    BY <1>0 DEF Inside, log_store
  <2> HIDE DEF at
  <2>2. Exclusive(pc, m)
    OBVIOUS
  <2>3. Exclusive(pc', m)
    BY <1>c, <2>1, <2>2, LoggerAssumption DEF Exclusive
  <2> QED BY <2>1, <2>3
<1>3. CallInv'
  <2> SUFFICES ASSUME NEW u \in Threads
               PROVE  /\ pc'[u] \in {"store", "incr", "relock"} => call'[u] \in Buffers
                      /\ pc'[u] \in Flushing => call'[u] = "rotate"
                      /\ pc'[u] = "incr" => /\ idx'[call'[u]] < BSZ
                                            /\ buf'[call'[u]][idx'[call'[u]]] = count'
    BY DEF CallInv
  <2>1. call' = call /\ idx' = idx /\ count' = count + 1
    BY DEF log_store
  <2>2. CASE u = t
    <3>1. at \notin Flushing
      BY DEF Flushing
    <3>2. at = "incr" => idx[d] < BSZ /\ buf'[d][idx[d]] = count + 1
      BY <1>0, <1>t, <1>e, LoggerAssumption
    <3> QED BY <1>0, <1>c, <2>1, <2>2, <3>1, <3>2
  <2>3. CASE u # t
    BY <1>0, <1>c, <2>1, <2>3 DEF CallInv, Inside, Flushing
  <2> QED BY <2>2, <2>3
<1>4. FilesLeft'
  <2>1. Rotating' \subseteq Rotating /\ flush_ctr' = flush_ctr
    BY <1>0, <1>c DEF Rotating, log_store
  <2> QED BY <2>1, NoMoreRotating
<1>5. ASSUME NEW b \in Buffers
      PROVE  Accounted(file'[b], flush_ctr', kept'[b], Entries(b)', Flushed(pc', b))
  <2>1. file' = file /\ flush_ctr' = flush_ctr /\ kept' = kept /\ idx' = idx
    BY DEF log_store
  <2>2. Flushed(pc', b) = Flushed(pc, b)
    <3>1. pc'[t] \in Inside /\ pc[t] \in Inside /\ pc'[t] \in {"incr", "relock"}
      BY <1>0, <1>c DEF Inside
    <3>2. ~Flushed(pc, b) /\ ~Flushed(pc', b)
      <4>1. Exclusive(pc, m)
        OBVIOUS
      <4>2. Flushed(pc, b) <=> (pc[t] = "rotated" \/ (b = "ts" /\ pc[t] = "flush_wd"))
        BY <3>1, <4>1, HolderFlushes, Zenon
      <4>3. Flushed(pc', b) <=> (pc'[t] = "rotated" \/ (b = "ts" /\ pc'[t] = "flush_wd"))
        BY <3>1, <1>2, HolderFlushes, Zenon
      <4>4. pc[t] # "rotated" /\ pc[t] # "flush_wd" /\ pc'[t] # "rotated" /\ pc'[t] # "flush_wd"
        BY <1>0, <3>1
      <4> QED BY <4>2, <4>3, <4>4, Zenon
    <3> QED BY <3>2, Zenon DEF Flushed
  <2>3. Entries(b)' = Entries(b)
    <3>1. idx[b] \in 0 .. BSZ
      BY DEF TypeOK
    <3>2. \A i \in 1 .. idx[b] : i - 1 \in 0 .. BSZ - 1 /\ i - 1 # idx[b]
      BY <3>1, LoggerAssumption
    <3>3. \A i \in 1 .. idx[b] : buf'[b][i - 1] = buf[b][i - 1]
      BY <3>2, <1>e
    <3> QED BY <2>1, <3>3 DEF Entries
  <2> QED BY <2>1, <2>2, <2>3, Zenon DEF EntryInv
<1> QED BY <1>1, <1>2, <1>3, <1>4, <1>5 DEF EntryInv

LEMMA IncrKeeps ==
  ASSUME LogInv, NEW t \in Threads, log_incr(t)
  PROVE  LogInv'
<1> USE DEF LogInv
<1> DEFINE d == call[t]
<1>0. /\ pc[t] = "incr" /\ pc[t] \in Inside /\ unlock(t)
      /\ d \in Buffers /\ idx[d] < BSZ /\ buf[d][idx[d]] = count
  BY DEF log_incr, Inside, CallInv
<1>m. /\ m' = None /\ Exclusive(pc', m')
      /\ \A b : ~Flushed(pc', b)
      /\ \A u \in Threads : pc'[u] \notin Inside
  BY <1>0, LeaveMutex
<1>t. /\ \A b \in Buffers : idx[b] \in 0 .. BSZ /\ kept[b] \in Seq(Nat)
      /\ count \in Nat
      /\ \A b \in Buffers : idx'[b] = IF b = d THEN idx[b] + 1 ELSE idx[b]
      /\ \A b \in Buffers : kept'[b] = IF b = d THEN Append(kept[b], count) ELSE kept[b]
  BY DEF log_incr, TypeOK
<1>1. TypeOK'
  <2>1. idx' \in [Buffers -> 0 .. BSZ]
    <3>1. idx[d] + 1 \in 0 .. BSZ
      BY <1>0, <1>t, LoggerAssumption
    <3> HIDE DEF d
    <3> QED BY <3>1, Zenon DEF TypeOK, log_incr, d
  <2>2. kept' \in [Buffers -> Seq(Nat)]
    <3>1. Append(kept[d], count) \in Seq(Nat)
      BY <1>0, <1>t
    <3> QED BY <3>1, Zenon DEF TypeOK, log_incr
  <2>3. pc' \in [Threads -> {"idle", "lock", "store", "incr", "relock", "flush_ts",
                             "flush_wd", "rotated", "reset"}]
    BY DEF TypeOK, log_incr, unlock
  <2> QED BY <1>m, <2>1, <2>2, <2>3 DEF TypeOK, log_incr
<1>3. CallInv'
  BY <1>m DEF CallInv, Inside, Flushing
<1>4. FilesLeft'
  <2>1. Rotating' \subseteq Rotating /\ flush_ctr' = flush_ctr
    BY DEF Rotating, log_incr, unlock, TypeOK
  <2> QED BY <2>1, NoMoreRotating
<1>5. ASSUME NEW b \in Buffers
      PROVE  Accounted(file'[b], flush_ctr', kept'[b], Entries(b)', Flushed(pc', b))
  <2>1. file' = file /\ flush_ctr' = flush_ctr /\ buf' = buf
    BY DEF log_incr
  <2>2. ~Flushed(pc, b) /\ ~Flushed(pc', b)
    <3>1. Exclusive(pc, m)
      OBVIOUS
    <3>2. Flushed(pc, b) <=> (pc[t] = "rotated" \/ (b = "ts" /\ pc[t] = "flush_wd"))
      BY <1>0, <3>1, HolderFlushes, Zenon
    <3> QED BY <1>0, <1>m, <3>2
  <2>f. Flushed(pc, b) = FALSE /\ Flushed(pc', b) = FALSE
    BY <2>2, Zenon DEF Flushed
  <2>3. Accounted(file[b], flush_ctr, kept[b], Entries(b), FALSE)
    BY <2>f, Zenon DEF EntryInv
  <2>4. CASE b = d
    <3>1. Entries(b)' = Append(Entries(b), count)
      <4>1. Entries(b) \in Seq(Nat) /\ Len(Entries(b)) = idx[b]
        BY EntriesType
      <4>2. Entries(b)' \in Seq(Nat) /\ Len(Entries(b)') = idx'[b]
        <5>1. \A i \in 1 .. idx'[b] : i - 1 \in 0 .. BSZ - 1
          BY <1>0, <1>t, <2>4, LoggerAssumption
        <5>2. buf[b] \in [0 .. BSZ - 1 -> Nat]
          BY DEF TypeOK
        <5>3. Entries(b)' \in [1 .. idx'[b] -> Nat]
          BY <5>1, <5>2, <2>1, Zenon DEF Entries
        <5> QED BY <5>3, <1>0, <1>t, <2>4, LoggerAssumption
      <4>3. \A i \in 1 .. idx[b] + 1 : Entries(b)'[i] = buf[b][i - 1]
        BY <1>t, <2>1, <2>4 DEF Entries
      <4>4. \A i \in 1 .. idx[b] : Entries(b)[i] = buf[b][i - 1]
        BY DEF Entries
      <4>5. \A i \in 1 .. Len(Entries(b)') : Entries(b)'[i] = Append(Entries(b), count)[i]
        <5> SUFFICES ASSUME NEW i \in 1 .. idx[b] + 1
                     PROVE  Entries(b)'[i] = Append(Entries(b), count)[i]
          BY <4>2, <1>t, <2>4, Zenon
        <5>1. CASE i = idx[b] + 1
          <6>1. Append(Entries(b), count)[i] = count
            BY <4>1, <5>1, <1>t
          <6>2. i - 1 = idx[b]
            BY <5>1, <1>t
          <6> QED BY <6>1, <6>2, <4>3, <1>0, <2>4
        <5>2. CASE i # idx[b] + 1
          <6>1. i \in 1 .. idx[b]
            BY <5>2, <1>t
          <6>2. Append(Entries(b), count)[i] = Entries(b)[i]
            BY <4>1, <6>1, <1>t
          <6> QED BY <6>1, <6>2, <4>3, <4>4
        <5> QED BY <5>1, <5>2, Zenon
      <4>6. Append(Entries(b), count) \in Seq(Nat) /\ Len(Append(Entries(b), count)) = idx[b] + 1
        BY <4>1, <1>t
      <4>7. Len(Entries(b)') = Len(Append(Entries(b), count))
        BY <4>2, <4>6, <1>t, <2>4
      <4> DEFINE e == Entries(b)'
                 a == Append(Entries(b), count)
      <4>8. /\ e \in Seq(Nat) /\ a \in Seq(Nat) /\ Len(e) = Len(a)
            /\ \A i \in 1 .. Len(e) : e[i] = a[i]
        BY <4>2, <4>5, <4>6, <4>7, Zenon
      <4> HIDE DEF e, a
      <4>9. e = a
        BY <4>8, SeqEqual
      <4> QED BY <4>9 DEF e, a
    <3>2. kept'[b] = Append(kept[b], count)
      BY <1>t, <2>4, Zenon
    <3>3. /\ file[b] \in [FileNos -> Seq(Nat)] /\ flush_ctr \in FileNos
          /\ kept[b] \in Seq(Nat) /\ Entries(b) \in Seq(Nat) /\ count \in Nat
      BY EntriesType DEF TypeOK
    <3>4. Accounted(file[b], flush_ctr, Append(kept[b], count), Append(Entries(b), count), FALSE)
      BY <2>3, <3>3, AccountAppend, Zenon
    <3> QED BY <2>1, <2>f, <3>1, <3>2, <3>4, Zenon
  <2>5. CASE b # d
    <3>1. Entries(b)' = Entries(b) /\ kept'[b] = kept[b]
      BY <1>t, <2>1, <2>5 DEF Entries
    <3> QED BY <2>1, <2>3, <2>f, <3>1, Zenon
  <2> QED BY <2>4, <2>5
<1> QED BY <1>1, <1>m, <1>3, <1>4, <1>5 DEF EntryInv

\* One lemma for both flushes: buffer d is flushed by a thread that goes from
\* at to next.
LEMMA FlushKeeps ==
  ASSUME LogInv, NEW t \in Threads, NEW d \in Buffers, NEW at, NEW next,
         flush(t, d, at, next),
         \/ d = "ts" /\ at = "flush_ts" /\ next = "flush_wd"
         \/ d = "wd" /\ at = "flush_wd" /\ next = "rotated"
  PROVE  LogInv'
<1> USE DEF LogInv
<1>0. /\ pc[t] = at /\ pc[t] \in Inside /\ next \in Inside /\ next \in Flushing
      /\ pc[t] \in Flushing
  BY DEF flush, Inside, Flushing
<1>c. \A u \in Threads : pc'[u] = IF u = t THEN next ELSE pc[u]
  BY DEF flush, TypeOK
<1>u. /\ m' = m /\ call' = call /\ buf' = buf /\ idx' = idx
      /\ flush_ctr' = flush_ctr /\ count' = count
  BY DEF flush
<1>2. Exclusive(pc', m')
  BY <1>0, <1>u, KeepMutex, Zenon DEF flush
<1>3. CallInv'
  BY <1>0, <1>c, <1>u DEF CallInv, Flushing
<1>4. FilesLeft'
  <2>1. Rotating' \subseteq Rotating
    BY <1>0, <1>c, <1>u DEF Rotating, Flushing
  <2> QED BY <1>u, <2>1, NoMoreRotating
<1>e. \A b \in Buffers : /\ Entries(b) \in Seq(Nat) /\ Len(Entries(b)) = idx[b]
                         /\ Entries(b)' = Entries(b)
  BY <1>u, EntriesType, Zenon DEF Entries
<1>t. /\ \A b \in Buffers : file[b] \in [FileNos -> Seq(Nat)] /\ kept[b] \in Seq(Nat)
      /\ flush_ctr \in FileNos
  BY DEF TypeOK
<1>f. \A b \in Buffers :
        /\ Flushed(pc, b) <=> (at = "rotated" \/ (b = "ts" /\ at = "flush_wd"))
        /\ Flushed(pc', b) <=> (next = "rotated" \/ (b = "ts" /\ next = "flush_wd"))
  <2> TAKE b \in Buffers
  <2>1. Exclusive(pc, m)
    OBVIOUS
  <2>2. Flushed(pc, b) <=> (pc[t] = "rotated" \/ (b = "ts" /\ pc[t] = "flush_wd"))
    BY <1>0, <2>1, HolderFlushes, Zenon
  <2>3. pc'[t] = next /\ pc'[t] \in Inside
    BY <1>0, <1>c
  <2>4. Flushed(pc', b) <=> (pc'[t] = "rotated" \/ (b = "ts" /\ pc'[t] = "flush_wd"))
    BY <2>3, <1>2, HolderFlushes, Zenon
  <2> QED BY <1>0, <2>2, <2>3, <2>4, Zenon
<1>g. /\ Flushed(pc, d) = FALSE /\ Flushed(pc', d) = TRUE
      /\ \A b \in Buffers : b # d => Flushed(pc', b) = Flushed(pc, b)
  <2>1. ~Flushed(pc, d) /\ Flushed(pc', d)
    BY <1>f
  <2>2. \A b \in Buffers : b # d => (Flushed(pc', b) <=> Flushed(pc, b))
    BY <1>f DEF Buffers
  <2> QED BY <2>1, <2>2, Zenon DEF Flushed
<1>h. Accounted(file[d], flush_ctr, kept[d], Entries(d), FALSE)
  BY <1>g, Zenon DEF EntryInv
<1>5. /\ file' \in [Buffers -> [FileNos -> Seq(Nat)]] /\ kept' \in [Buffers -> Seq(Nat)]
      /\ Accounted(file'[d], flush_ctr, kept'[d], Entries(d), TRUE)
      /\ \A b \in Buffers : b # d => file'[b] = file[b] /\ kept'[b] = kept[b]
  <2>1. CASE file' = [file EXCEPT ![d][flush_ctr] = Entries(d)] /\ kept' = kept
    <3>1. file' = [file EXCEPT ![d] = [file[d] EXCEPT ![flush_ctr] = Entries(d)]]
      BY <2>1
    <3>2. [file[d] EXCEPT ![flush_ctr] = Entries(d)] \in [FileNos -> Seq(Nat)]
      BY <1>e, <1>t
    <3>3. Accounted([file[d] EXCEPT ![flush_ctr] = Entries(d)], flush_ctr, kept[d], Entries(d), TRUE)
      BY <1>e, <1>t, <1>h, AccountFlush, Zenon
    <3>4. /\ file'[d] = [file[d] EXCEPT ![flush_ctr] = Entries(d)]
          /\ file' \in [Buffers -> [FileNos -> Seq(Nat)]]
          /\ \A b \in Buffers : b # d => file'[b] = file[b]
      <4> DEFINE v == [file[d] EXCEPT ![flush_ctr] = Entries(d)]
      <4> HIDE DEF v
      <4> QED BY <3>1, <3>2 DEF TypeOK, v
    <3> QED BY <2>1, <3>3, <3>4, Zenon DEF TypeOK
  <2>2. CASE kept' = [kept EXCEPT ![d] = Without(d)] /\ file' = file
    <3>1. /\ Without(d) = SubSeq(kept[d], 1, Len(kept[d]) - Len(Entries(d)))
          /\ Without(d) \in Seq(Nat)
          /\ Accounted(file[d], flush_ctr, Without(d), <<>>, TRUE)
      BY <1>e, <1>t, <1>h, AccountWithout, Zenon DEF Without
    <3>2. Accounted(file[d], flush_ctr, Without(d), Entries(d), TRUE)
      BY <3>1, Zenon DEF Accounted
    <3>3. /\ kept'[d] = Without(d) /\ kept' \in [Buffers -> Seq(Nat)]
          /\ \A b \in Buffers : b # d => kept'[b] = kept[b]
      BY <2>2, <3>1 DEF TypeOK
    <3> QED BY <2>2, <3>2, <3>3, Zenon DEF TypeOK
  <2> QED BY <2>1, <2>2, Zenon DEF flush
<1>1. TypeOK'
  <2>1. pc' \in [Threads -> {"idle", "lock", "store", "incr", "relock", "flush_ts",
                             "flush_wd", "rotated", "reset"}]
    BY DEF flush, TypeOK
  <2> QED BY <2>1, <1>5, <1>u DEF TypeOK
<1>6. ASSUME NEW b \in Buffers
      PROVE  Accounted(file'[b], flush_ctr', kept'[b], Entries(b)', Flushed(pc', b))
  <2>1. CASE b = d
    BY <2>1, <1>5, <1>u, <1>e, <1>g, Zenon
  <2>2. CASE b # d
    <3>1. Accounted(file[b], flush_ctr, kept[b], Entries(b), Flushed(pc, b))
      BY DEF EntryInv
    <3>2. file'[b] = file[b] /\ kept'[b] = kept[b] /\ Flushed(pc', b) = Flushed(pc, b)
      BY <2>2, <1>5, <1>g, Zenon
    <3> QED BY <3>1, <3>2, <1>u, <1>e, Zenon
  <2> QED BY <2>1, <2>2
<1> QED BY <1>1, <1>2, <1>3, <1>4, <1>6 DEF EntryInv

\* Both ends: the counts of the buffers are 0.
LEMMA NoEntries ==
  ASSUME NEW b \in Buffers, idx' = [c \in Buffers |-> 0]
  PROVE  Entries(b)' = <<>>
<1>1. Entries(b)' = [i \in 1 .. 0 |-> buf'[b][i - 1]]
  BY DEF Entries
<1> QED BY <1>1

LEMMA RotatedKeeps ==
  ASSUME LogInv, NEW t \in Threads, log_rotated(t)
  PROVE  LogInv'
<1> USE DEF LogInv
<1>0. /\ pc[t] = "rotated" /\ pc[t] \in Inside /\ pc[t] \in Flushing /\ unlock(t)
      /\ call[t] = "rotate"
  BY DEF log_rotated, Inside, Flushing, CallInv
<1>m. /\ m' = None /\ Exclusive(pc', m')
      /\ \A b : ~Flushed(pc', b)
      /\ \A u \in Threads : pc'[u] \notin Inside
  BY <1>0, LeaveMutex
<1>u. /\ flush_ctr' = flush_ctr + 1 /\ idx' = [b \in Buffers |-> 0]
      /\ call' = call /\ buf' = buf /\ file' = file /\ count' = count /\ kept' = kept
      /\ pc' = [pc EXCEPT ![t] = "idle"]
  BY DEF log_rotated, unlock
<1>r. flush_ctr' + Cardinality(Rotating') <= LastFile /\ flush_ctr' \in FileNos
  <2>1. t \in Rotating /\ Rotating' = Rotating \ {t}
    BY <1>0, <1>u DEF Rotating, TypeOK
  <2>2. IsFiniteSet(Rotating)
    BY LoggerAssumption, FS_Subset DEF Rotating
  <2>3. IsFiniteSet(Rotating') /\ Cardinality(Rotating') = Cardinality(Rotating) - 1
    BY <2>1, <2>2, FS_RemoveElement
  <2>4. Cardinality(Rotating) \in Nat /\ Cardinality(Rotating') \in Nat
    BY <2>2, <2>3, FS_CardinalityType
  <2> QED BY <1>u, <2>3, <2>4, LastFileNat DEF FilesLeft, TypeOK, FileNos
<1>1. TypeOK'
  <2>1. idx' \in [Buffers -> 0 .. BSZ]
    BY <1>u, LoggerAssumption
  <2>2. pc' \in [Threads -> {"idle", "lock", "store", "incr", "relock", "flush_ts",
                             "flush_wd", "rotated", "reset"}]
    BY <1>u DEF TypeOK
  <2> QED BY <1>m, <1>u, <1>r, <2>1, <2>2 DEF TypeOK
<1>3. CallInv'
  BY <1>m DEF CallInv, Inside, Flushing
<1>5. ASSUME NEW b \in Buffers
      PROVE  Accounted(file'[b], flush_ctr', kept'[b], Entries(b)', Flushed(pc', b))
  <2>1. Flushed(pc, b)
    BY <1>0 DEF Flushed
  <2>2. Flushed(pc, b) = TRUE /\ Flushed(pc', b) = FALSE
    BY <1>m, <2>1, Zenon DEF Flushed
  <2>3. Accounted(file[b], flush_ctr, kept[b], Entries(b), TRUE)
    BY <2>2, Zenon DEF EntryInv
  <2>4. /\ file[b] \in [FileNos -> Seq(Nat)] /\ kept[b] \in Seq(Nat)
        /\ flush_ctr \in FileNos /\ flush_ctr + 1 \in FileNos
    BY <1>r, <1>u DEF TypeOK
  <2>5. Accounted(file[b], flush_ctr + 1, kept[b], <<>>, FALSE)
    BY <2>3, <2>4, AccountRotate, Zenon
  <2>6. Entries(b)' = <<>>
    BY <1>u, NoEntries
  <2> QED BY <1>u, <2>2, <2>5, <2>6, Zenon
<1> QED BY <1>1, <1>m, <1>3, <1>r, <1>5 DEF EntryInv, FilesLeft

LEMMA ResetKeeps ==
  ASSUME LogInv, NEW t \in Threads, log_reset(t)
  PROVE  LogInv'
<1> USE DEF LogInv
<1>0. pc[t] = "reset" /\ pc[t] \in Inside /\ unlock(t)
  BY DEF log_reset, Inside
<1>m. /\ m' = None /\ Exclusive(pc', m')
      /\ \A b : ~Flushed(pc', b)
      /\ \A u \in Threads : pc'[u] \notin Inside
  BY <1>0, LeaveMutex
<1>u. /\ flush_ctr' = flush_ctr /\ idx' = [b \in Buffers |-> 0]
      /\ call' = call /\ buf' = buf /\ file' = file /\ count' = count
      /\ kept' = [b \in Buffers |-> Without(b)]
      /\ pc' = [pc EXCEPT ![t] = "idle"]
  BY DEF log_reset, unlock
<1>5. ASSUME NEW b \in Buffers
      PROVE  /\ kept'[b] \in Seq(Nat)
             /\ Accounted(file'[b], flush_ctr', kept'[b], Entries(b)', Flushed(pc', b))
  <2>1. Exclusive(pc, m)
    OBVIOUS
  <2>2. Flushed(pc, b) <=> (pc[t] = "rotated" \/ (b = "ts" /\ pc[t] = "flush_wd"))
    BY <1>0, <2>1, HolderFlushes, Zenon
  <2>3. ~Flushed(pc, b) /\ ~Flushed(pc', b)
    BY <1>0, <1>m, <2>2
  <2>4. Flushed(pc, b) = FALSE /\ Flushed(pc', b) = FALSE
    BY <2>3, Zenon DEF Flushed
  <2>5. Accounted(file[b], flush_ctr, kept[b], Entries(b), FALSE)
    BY <2>4, Zenon DEF EntryInv
  <2>6. /\ file[b] \in [FileNos -> Seq(Nat)] /\ kept[b] \in Seq(Nat) /\ flush_ctr \in FileNos
        /\ Entries(b) \in Seq(Nat) /\ Len(Entries(b)) = idx[b]
    BY EntriesType DEF TypeOK
  <2>7. kept'[b] \in Seq(Nat) /\ Accounted(file[b], flush_ctr, kept'[b], <<>>, FALSE)
    BY <1>u, <2>5, <2>6, AccountWithout, Zenon DEF Without
  <2>8. Entries(b)' = <<>>
    BY <1>u, NoEntries
  <2> QED BY <1>u, <2>4, <2>7, <2>8, Zenon
<1>1. TypeOK'
  <2>1. idx' \in [Buffers -> 0 .. BSZ] /\ kept' \in [Buffers -> Seq(Nat)]
    BY <1>u, <1>5, LoggerAssumption
  <2>2. pc' \in [Threads -> {"idle", "lock", "store", "incr", "relock", "flush_ts",
                             "flush_wd", "rotated", "reset"}]
    BY <1>u DEF TypeOK
  <2> QED BY <1>m, <1>u, <2>1, <2>2 DEF TypeOK
<1>3. CallInv'
  BY <1>m DEF CallInv, Inside, Flushing
<1>4. FilesLeft'
  <2>1. Rotating' \subseteq Rotating
    BY <1>u DEF Rotating, TypeOK
  <2> QED BY <1>u, <2>1, NoMoreRotating
<1> QED BY <1>1, <1>m, <1>3, <1>4, <1>5 DEF EntryInv
-----------------------------------------------------------------------------
\* LogInv is inductive.
THEOREM LogInductive == Spec => []LogInv
<1>1. ASSUME LogInv, [Next]_vars PROVE LogInv'
  <2>1. ASSUME NEW t \in Threads, NEW c \in Buffers \cup {"rotate", "reset"}, enter(t, c)
        PROVE  LogInv'
    BY <1>1, <2>1, EnterKeeps
  <2>2. ASSUME NEW t \in Threads, InCall(t)
        PROVE  LogInv'
    <3>1. CASE lock(t)
      BY <1>1, <3>1, LockKeeps
    <3>2. CASE log_store(t)
      BY <1>1, <3>2, StoreKeeps
    <3>3. CASE log_incr(t)
      BY <1>1, <3>3, IncrKeeps
    <3>4. CASE _flush_ts(t)
      <4>1. "ts" \in Buffers /\ flush(t, "ts", "flush_ts", "flush_wd")
        BY <3>4 DEF _flush_ts, Buffers
      <4> QED BY <1>1, <4>1, FlushKeeps, Zenon
    <3>5. CASE _flush_wakeup_delay(t)
      <4>1. "wd" \in Buffers /\ flush(t, "wd", "flush_wd", "rotated")
        BY <3>5 DEF _flush_wakeup_delay, Buffers
      <4> QED BY <1>1, <4>1, FlushKeeps, Zenon
    <3>6. CASE log_rotated(t)
      BY <1>1, <3>6, RotatedKeeps
    <3>7. CASE log_reset(t)
      BY <1>1, <3>7, ResetKeeps
    <3> QED BY <2>2, <3>1, <3>2, <3>3, <3>4, <3>5, <3>6, <3>7 DEF InCall
  <2>3. CASE UNCHANGED vars
    BY <1>1, <2>3 DEF vars, LogInv, TypeOK, CallInv, FilesLeft, Rotating, EntryInv, Entries
  <2> QED BY <1>1, <2>1, <2>2, <2>3 DEF Next
<1> QED BY <1>1, LogInit, PTL DEF Spec

\* The indices of both buffers stay within them, and flush_ctr within the file
\* numbers: _log() and log_wakeup_delay() test the index with the mutex held
\* and count it before they release it.
THEOREM IndicesInRange == Spec => []TypeOK
<1>1. LogInv => TypeOK
  BY DEF LogInv
<1> QED BY <1>1, LogInductive, PTL

\* Whatever threads log, rotate and reset, and in whatever order they get the
\* mutex: when it is free the files and then the buffer hold every entry that
\* was kept, once and in the order of logging.
THEOREM NoEntryLost == Spec => []EveryEntryOnce
<1>1. ASSUME LogInv PROVE EveryEntryOnce
  <2> SUFFICES ASSUME m = None, NEW b \in Buffers
               PROVE  InFiles(b) \o Entries(b) = kept[b]
    BY DEF EveryEntryOnce
  <2>1. Exclusive(pc, None)
    BY <1>1 DEF LogInv
  <2>2. Flushed(pc, b) = FALSE
    <3>1. ~Flushed(pc, b)
      BY <2>1, FreeNotFlushed
    <3> QED BY <3>1, Zenon DEF Flushed
  <2>3. Accounted(file[b], flush_ctr, kept[b], Entries(b), FALSE)
    BY <1>1, <2>2, Zenon DEF LogInv, EntryInv
  <2>4. file[b] \in [FileNos -> Seq(Nat)] /\ flush_ctr \in FileNos
    BY <1>1 DEF LogInv, TypeOK
  <2>5. \A n \in FileNos : n >= flush_ctr => file[b][n] = <<>>
    BY <2>3, <2>4 DEF Accounted, FileNos
  <2>6. flush_ctr \in 0 .. LastFile + 1
    BY <2>4, LastFileNat DEF FileNos
  <2>7. InFiles(b) = Concat(file[b])[flush_ctr]
    BY <2>4, <2>5, <2>6, ConcatConstant DEF InFiles
  <2> QED BY <2>3, <2>7 DEF Accounted
<1> QED BY <1>1, LogInductive, PTL
=============================================================================

---------------------------- MODULE LsmStoreProofs ----------------------------
(***************************************************************************)
(* The store is durable for every set of keys and values and every pair of  *)
(* thresholds, as long as only the process dies: a crash at any point, also *)
(* inside the writing of an sstable, loses nothing that was logged.  Under  *)
(* every fault, torn log records and failed writes included, it still loses *)
(* no value until a record is appended behind a torn one.                   *)
(***************************************************************************)
EXTENDS LsmFaults, FiniteSetTheorems, WellFoundedInduction, TLAPS

\* Table ids are numbers.
LEMMA IdsAreNat == Ids \subseteq Nat
BY LsmAssumption DEF Ids

\* A nonempty set of naturals with an upper bound has a greatest element.
LEMMA MaxExists ==
    ASSUME NEW N \in Nat, NEW S \in SUBSET (0 .. N), S # {}
    PROVE  \E m \in S : \A x \in S : x <= m
<1> DEFINE T == {n \in Nat : N - n \in S}
<1>1. T \subseteq Nat /\ T # {}
  <2>1. PICK x \in S : TRUE
    OBVIOUS
  <2>2. N - x \in T
    OBVIOUS
  <2>3. QED BY <2>2
<1> DEFINE R == {ss \in Nat \X Nat : ss[1] < ss[2]}
<1>r. IsWellFoundedOn(R, Nat)
  BY NatLessThanWellFounded DEF OpToRel
<1> HIDE DEF T
<1>2. PICK t \in T : \A y \in T : ~(<<y, t>> \in R)
  <2> HIDE DEF R
  <2> QED BY <1>1, <1>r, WFMin
<1>3. ASSUME NEW y \in Nat, y \in T
      PROVE  t <= y
  <2>1. t \in Nat
    BY <1>1
  <2>2. y < t => <<y, t>> \in R
    BY <2>1
  <2>3. ~(y < t)
    BY <2>2, <1>2, <1>3
  <2>4. QED BY <2>1, <2>3
<1>4. t \in Nat /\ N - t \in S
  BY DEF T
<1>5. ASSUME NEW x \in S
      PROVE  x <= N - t
  <2>1. x \in Nat /\ N - x \in Nat
    OBVIOUS
  <2>2. N - x \in T
    BY <2>1 DEF T
  <2>3. t <= N - x
    BY <2>1, <2>2, <1>3
  <2>4. QED BY <2>1, <2>3, <1>4
<1>6. QED BY <1>4, <1>5

LEMMA LatestIs ==
    ASSUME NEW S \in SUBSET Nat, NEW m \in S, \A x \in S : x <= m
    PROVE  Latest(S) = m
<1>1. \A y \in S : (\A x \in S : x <= y) => y = m
  OBVIOUS
<1>2. QED BY <1>1 DEF Latest

LEMMA LatestIn ==
    ASSUME NEW N \in Nat, NEW S \in SUBSET (0 .. N), S # {}
    PROVE  Latest(S) \in S /\ \A x \in S : x <= Latest(S)
<1>1. PICK m \in S : \A x \in S : x <= m
  BY MaxExists
<1>2. Latest(S) = m
  BY <1>1, LatestIs
<1>3. QED BY <1>1, <1>2
-----------------------------------------------------------------------------
(* The newest record among the files of a set *)

LEMMA NewestIs ==
    ASSUME NEW d, NEW S \in SUBSET Nat, NEW k, NEW m \in S, d[m][k] # None,
           \A x \in S : d[x][k] # None => x <= m
    PROVE  Newest(d, S, k) = d[m][k]
<1>1. Latest(Live(d, S, k)) = m
  BY LatestIs DEF Live
<1>2. QED BY <1>1 DEF Newest, Live

LEMMA NewestNone ==
    ASSUME NEW d, NEW S, NEW k, \A x \in S : d[x][k] = None
    PROVE  Newest(d, S, k) = None
BY DEF Newest, Live

\* Either no file of S has a record of k, or v is the record of the newest
\* file that has.
IsNewest(d, S, k, v) ==
    \/ (\A x \in S : d[x][k] = None) /\ v = None
    \/ \E m \in S : /\ d[m][k] # None /\ v = d[m][k]
                    /\ \A x \in S : d[x][k] # None => x <= m

LEMMA NewestCases ==
    ASSUME NEW d, NEW S \in SUBSET Ids, NEW k
    PROVE  IsNewest(d, S, k, Newest(d, S, k))
<1>1. CASE \A x \in S : d[x][k] = None
  BY <1>1, NewestNone DEF IsNewest
<1>2. CASE \E x \in S : d[x][k] # None
  <2>1. Live(d, S, k) \in SUBSET (0 .. MaxId) /\ Live(d, S, k) # {}
    BY <1>2 DEF Live, Ids
  <2>2. /\ Latest(Live(d, S, k)) \in Live(d, S, k)
        /\ \A x \in Live(d, S, k) : x <= Latest(Live(d, S, k))
    BY <2>1, LatestIn, LsmAssumption
  <2>3. Newest(d, S, k) = d[Latest(Live(d, S, k))][k]
    BY <2>1 DEF Newest
  <2>4. QED BY <2>2, <2>3 DEF Live, IsNewest
<1>3. QED BY <1>1, <1>2

LEMMA NewestSame ==
    ASSUME NEW d, NEW e, NEW S \in SUBSET Ids, NEW k, \A x \in S : e[x] = d[x]
    PROVE  Newest(e, S, k) = Newest(d, S, k)
<1>1. Live(e, S, k) = Live(d, S, k)
  BY DEF Live
<1>2. CASE Live(d, S, k) = {}
  BY <1>1, <1>2 DEF Newest
<1>3. CASE Live(d, S, k) # {}
  <2>1. Live(d, S, k) \in SUBSET (0 .. MaxId)
    BY DEF Live, Ids
  <2>2. Latest(Live(d, S, k)) \in Live(d, S, k)
    BY <1>3, <2>1, LatestIn, LsmAssumption
  <2>3. Latest(Live(d, S, k)) \in S
    BY <2>2 DEF Live
  <2>4. QED BY <1>1, <1>3, <2>3 DEF Newest
<1>4. QED BY <1>2, <1>3

\* A file above all others is searched first.
LEMMA NewestTop ==
    ASSUME NEW d, NEW S \in SUBSET Ids, NEW n \in Ids, NEW k, \A x \in S : x < n
    PROVE  Newest(d, S \cup {n}, k) =
             IF d[n][k] # None THEN d[n][k] ELSE Newest(d, S, k)
<1>a. S \cup {n} \in SUBSET Ids
  OBVIOUS
<1>0. S \cup {n} \in SUBSET Nat /\ S \cup {n} \in SUBSET Ids
  BY <1>a, IdsAreNat
<1>1. CASE d[n][k] # None
  <2>1. \A x \in S \cup {n} : d[x][k] # None => x <= n
    BY <1>0
  <2>2. Newest(d, S \cup {n}, k) = d[n][k]
    BY <1>0, <1>1, <2>1, NewestIs
  <2>3. QED BY <1>1, <2>2
<1>2. CASE d[n][k] = None
  <2>1. CASE \A x \in S : d[x][k] = None
    BY <1>2, <2>1, NewestNone
  <2>2. CASE ~(\A x \in S : d[x][k] = None)
    <3>1. PICK m \in S : /\ d[m][k] # None /\ Newest(d, S, k) = d[m][k]
                         /\ \A x \in S : d[x][k] # None => x <= m
      <4>1. IsNewest(d, S, k, Newest(d, S, k))
        BY NewestCases
      <4>2. QED BY <2>2, <4>1 DEF IsNewest
    <3>2. \A x \in S \cup {n} : d[x][k] # None => x <= m
      BY <3>1, <1>2
    <3>x. m \in S \cup {n} /\ d[m][k] # None
      BY <3>1
    <3>3. Newest(d, S \cup {n}, k) = d[m][k]
      BY <3>x, <3>2, <1>0, NewestIs
    <3>4. QED BY <3>1, <3>3, <1>2
  <2>3. QED BY <2>1, <2>2
<1>3. QED BY <1>1, <1>2

\* The files S keep their contents and a file n is added above them.
Above(d, e, S, n) == \A x \in S : x < n /\ e[x] = d[x]
Added(d, e, S, n, k) ==
    Newest(e, S \cup {n}, k) = IF e[n][k] # None THEN e[n][k] ELSE Newest(d, S, k)

LEMMA NewestAdd ==
    ASSUME NEW d, NEW e, NEW S \in SUBSET Ids, NEW n \in Ids, NEW k, Above(d, e, S, n)
    PROVE  Added(d, e, S, n, k)
<1>1. Newest(e, S \cup {n}, k) = IF e[n][k] # None THEN e[n][k] ELSE Newest(e, S, k)
  <2>1. \A x \in S : x < n
    BY DEF Above
  <2>2. QED BY <2>1, NewestTop
<1>2. Newest(e, S, k) = Newest(d, S, k)
  <2>1. \A x \in S : e[x] = d[x]
    BY DEF Above
  <2>2. QED BY <2>1, NewestSame
<1>3. QED BY <1>1, <1>2 DEF Added

\* Removing the oldest file changes the answer only if no other has the key.
Dropped(d, e, S, h, k) ==
    \/ Newest(e, S \ {h}, k) = Newest(d, S, k)
    \/ /\ Newest(e, S \ {h}, k) = None
       /\ \A x \in S \ {h} : e[x][k] = None
       /\ Newest(d, S, k) = d[h][k]

LEMMA NewestDrop ==
    ASSUME NEW d, NEW e, NEW S \in SUBSET Ids, NEW h \in S, NEW k,
           \A x \in S : h <= x /\ (x # h => e[x] = d[x])
    PROVE  Dropped(d, e, S, h, k)
<1>a. S \subseteq Nat
  BY IdsAreNat
<1>b. S \ {h} \subseteq Ids
  OBVIOUS
<1>0. S \in SUBSET Nat /\ S \ {h} \in SUBSET Ids
  BY <1>a, <1>b
<1>1. CASE \A x \in S \ {h} : e[x][k] = None
  <2>1. Newest(e, S \ {h}, k) = None
    BY <1>1, NewestNone
  <2>2. \A x \in S : x # h => d[x][k] = None
    BY <1>1
  <2>3. CASE d[h][k] = None
    BY <2>1, <2>2, <2>3, NewestNone DEF Dropped
  <2>4. CASE d[h][k] # None
    <3>1. \A x \in S : d[x][k] # None => x <= h
      BY <2>2, <1>0
    <3>2. Newest(d, S, k) = d[h][k]
      BY <2>4, <3>1, <1>0, NewestIs
    <3>3. QED BY <2>1, <1>1, <3>2 DEF Dropped
  <2>5. QED BY <2>3, <2>4
<1>2. CASE ~(\A x \in S \ {h} : e[x][k] = None)
  <2>1. PICK m \in S \ {h} :
             /\ e[m][k] # None /\ Newest(e, S \ {h}, k) = e[m][k]
             /\ \A x \in S \ {h} : e[x][k] # None => x <= m
    <3>1. IsNewest(e, S \ {h}, k, Newest(e, S \ {h}, k))
      BY <1>0, NewestCases
    <3>2. QED BY <1>2, <3>1 DEF IsNewest
  <2>2. \A x \in S : d[x][k] # None => x <= m
    BY <2>1, <1>0
  <2>3. Newest(d, S, k) = d[m][k]
    BY <2>1, <2>2, <1>0, NewestIs
  <2>4. QED BY <2>1, <2>3 DEF Dropped
<1>3. QED BY <1>1, <1>2
-----------------------------------------------------------------------------
(* The replay of the log *)

CleanLog(w) ==
    w \in Seq(Record) /\ \A i \in 1 .. Len(w) : ~w[i].tear /\ w[i].val \in Vals \cup {Tomb}

LEMMA CleanHits ==
    ASSUME NEW w, CleanLog(w), NEW k \in Keys
    PROVE  LogHits(w, k) = {i \in 1 .. Len(w) : w[i].key = k}
<1>1. \A i \in 1 .. Len(w) : \A j \in 1 .. i : ~w[j].tear
  BY DEF CleanLog
<1>2. QED BY <1>1 DEF LogHits

LEMMA ReplayType ==
    ASSUME NEW w, CleanLog(w)
    PROVE  /\ wal_replay(w) \in [Keys -> Written]
           /\ Replays(w) = {wal_replay(w)}
<1>1. ASSUME NEW k \in Keys, LogHits(w, k) # {}
      PROVE  w[Latest(LogHits(w, k))].val \in Vals \cup {Tomb}
  <2>1. LogHits(w, k) \in SUBSET (0 .. Len(w)) /\ Len(w) \in Nat
    BY CleanHits DEF CleanLog
  <2>2. Latest(LogHits(w, k)) \in LogHits(w, k)
    BY <2>1, <1>1, LatestIn
  <2>3. Latest(LogHits(w, k)) \in 1 .. Len(w)
    BY <2>2 DEF LogHits
  <2>4. QED BY <2>3 DEF CleanLog
<1>2. wal_replay(w) \in [Keys -> Written]
  BY <1>1 DEF wal_replay, Written
<1>3. ~Overrun(w)
  BY DEF Overrun, CleanLog
<1>4. QED BY <1>2, <1>3 DEF Replays

LEMMA ReplayEmpty == wal_replay(<<>>) = Empty
<1>1. \A k \in Keys : LogHits(<<>>, k) = {}
  BY DEF LogHits
<1>2. QED BY <1>1 DEF wal_replay, Empty

\* A whole record at the end of the log overrides what it said of the key.
LEMMA ReplayAppend ==
    ASSUME NEW w, CleanLog(w), NEW k \in Keys, NEW e \in Vals \cup {Tomb}
    PROVE  LET r == [key |-> k, val |-> e, tear |-> FALSE]
           IN /\ CleanLog(Append(w, r))
              /\ wal_replay(Append(w, r)) = [wal_replay(w) EXCEPT ![k] = e]
<1> DEFINE r == [key |-> k, val |-> e, tear |-> FALSE]
<1> DEFINE u == Append(w, r)
<1>1. r \in Record /\ w \in Seq(Record)
  BY DEF Record, Entry, CleanLog
<1>2. /\ u \in Seq(Record) /\ Len(u) = Len(w) + 1 /\ Len(w) \in Nat
      /\ u[Len(w) + 1] = r /\ \A i \in 1 .. Len(w) : u[i] = w[i]
  BY <1>1
<1>3. CleanLog(u)
  <2>1. \A i \in 1 .. Len(u) : i \in 1 .. Len(w) \/ i = Len(w) + 1
    BY <1>2
  <2>2. QED BY <1>2, <2>1 DEF CleanLog
<1> HIDE DEF u
<1>4. ASSUME NEW x \in Keys, x # k
      PROVE  wal_replay(u)[x] = wal_replay(w)[x]
  <2>1. LogHits(u, x) = LogHits(w, x)
    <3>1. LogHits(u, x) = {i \in 1 .. Len(u) : u[i].key = x}
      BY <1>3, CleanHits
    <3>2. LogHits(w, x) = {i \in 1 .. Len(w) : w[i].key = x}
      BY CleanHits
    <3>3. u[Len(w) + 1].key # x
      BY <1>2, <1>4
    <3>4. QED BY <3>1, <3>2, <3>3, <1>2
  <2>2. CASE LogHits(w, x) = {}
    BY <2>1, <2>2 DEF wal_replay
  <2>3. CASE LogHits(w, x) # {}
    <3>1. LogHits(w, x) \in SUBSET (0 .. Len(w))
      BY <1>2 DEF LogHits
    <3>2. Latest(LogHits(w, x)) \in LogHits(w, x)
      BY <2>3, <3>1, <1>2, LatestIn
    <3>3. Latest(LogHits(w, x)) \in 1 .. Len(w)
      BY <3>2 DEF LogHits
    <3>4. QED BY <2>1, <2>3, <3>3, <1>2 DEF wal_replay
  <2>4. QED BY <2>2, <2>3
<1>5. wal_replay(u)[k] = e
  <2>1. LogHits(u, k) = {i \in 1 .. Len(u) : u[i].key = k}
    BY <1>3, CleanHits
  <2>2. Len(w) + 1 \in LogHits(u, k) /\ \A i \in LogHits(u, k) : i <= Len(w) + 1
    BY <2>1, <1>2
  <2>3. Latest(LogHits(u, k)) = Len(w) + 1
    BY <2>1, <2>2, <1>2, LatestIs
  <2>4. QED BY <2>2, <2>3, <1>2 DEF wal_replay
<1>6. wal_replay(u) \in [Keys -> Written] /\ wal_replay(w) \in [Keys -> Written]
  BY <1>3, ReplayType
<1>7. wal_replay(u) = [wal_replay(w) EXCEPT ![k] = e]
  BY <1>4, <1>5, <1>6
<1>8. QED BY <1>3, <1>7 DEF u
-----------------------------------------------------------------------------
(* Sorting the ids *)

LEMMA RankStrict ==
    ASSUME NEW S \in SUBSET Ids, NEW x \in S, NEW y \in S, x < y
    PROVE  Rank(S, x) < Rank(S, y)
<1> DEFINE A == {z \in S : z < x}
           B == {z \in S : z < y}
<1>1. IsFiniteSet(B)
  <2>1. IsFiniteSet(Ids)
    BY FS_Interval, LsmAssumption DEF Ids
  <2>2. B \in SUBSET Ids
    OBVIOUS
  <2>3. QED BY <2>1, <2>2, FS_Subset
<1>2. A \in SUBSET B /\ x \in B /\ x \notin A
  <2>1. \A z \in S : z \in Nat
    BY IdsAreNat
  <2>2. \A z \in S : z < x => z < y
    BY <2>1
  <2>3. ~(x < x)
    BY <2>1
  <2>4. QED BY <2>2, <2>3
<1>3. A # B
  BY <1>2
<1>4. IsFiniteSet(A) /\ Cardinality(A) <= Cardinality(B) /\ Cardinality(B) # Cardinality(A)
  <2> HIDE DEF A, B
  <2> QED BY <1>1, <1>2, <1>3, FS_Subset
<1>5. Cardinality(A) \in Nat /\ Cardinality(B) \in Nat
  <2> HIDE DEF A, B
  <2> QED BY <1>1, <1>4, FS_CardinalityType
<1>6. QED BY <1>4, <1>5 DEF Rank

LEMMA RankRange ==
    ASSUME NEW S \in SUBSET Ids, NEW x \in S
    PROVE  /\ IsFiniteSet(S) /\ Cardinality(S) \in Nat
           /\ Rank(S, x) \in Nat /\ Rank(S, x) + 1 <= Cardinality(S)
<1> DEFINE A == {z \in S : z < x}
<1>1. IsFiniteSet(S)
  <2>1. IsFiniteSet(Ids)
    BY FS_Interval, LsmAssumption DEF Ids
  <2>2. QED BY <2>1, FS_Subset
<1>2. A \in SUBSET S /\ x \notin A
  BY LsmAssumption DEF Ids
<1>3. IsFiniteSet(A) /\ Cardinality(A) <= Cardinality(S) /\ Cardinality(S) # Cardinality(A)
  <2> HIDE DEF A
  <2> QED BY <1>1, <1>2, FS_Subset
<1>4. Cardinality(A) \in Nat /\ Cardinality(S) \in Nat
  <2> HIDE DEF A
  <2> QED BY <1>1, <1>3, FS_CardinalityType
<1>5. QED BY <1>1, <1>3, <1>4 DEF Rank

LEMMA RankOnto ==
    ASSUME NEW S \in SUBSET Ids, NEW i \in 1 .. Cardinality(S), S # {}
    PROVE  \E x \in S : Rank(S, x) = i - 1
<1> DEFINE T == 1 .. Cardinality(S)
           f == [x \in S |-> Rank(S, x) + 1]
<1>0. IsFiniteSet(S) /\ Cardinality(S) \in Nat
  BY RankRange
<1>1. f \in Injection(S, T)
  <2>1. f \in [S -> T]
    BY RankRange
  <2>2. ASSUME NEW x \in S, NEW y \in S, f[x] = f[y]
        PROVE  x = y
    <3>1. Rank(S, x) = Rank(S, y)
      BY <2>2, RankRange
    <3>2. x \in Nat /\ y \in Nat
      BY IdsAreNat
    <3>3. Rank(S, x) \in Nat
      BY RankRange
    <3>4. ~(x < y) /\ ~(y < x)
      BY <3>1, <3>3, RankStrict
    <3>5. QED BY <3>2, <3>4
  <2>3. QED BY <2>1, <2>2 DEF Injection, IsInjective
<1>2. IsFiniteSet(T) /\ Cardinality(T) = Cardinality(S)
  BY <1>0, FS_Interval
<1>3. f \in Surjection(S, T)
  <2> HIDE DEF f, T
  <2> QED BY <1>1, <1>2, FS_Injection
<1>4. PICK x \in S : f[x] = i
  BY <1>3 DEF Surjection
<1>5. Rank(S, x) \in Nat
  BY RankRange
<1>6. QED BY <1>4, <1>5, <1>0

\* qsort(by_id) on the ids found in the directory.
LEMMA ByIdSorts ==
    ASSUME NEW S \in SUBSET Ids
    PROVE  /\ ById(S) \in Seq(Ids)
           /\ Sorted(ById(S))
           /\ Members(ById(S)) = S
<1> DEFINE n == Cardinality(S)
<1>1. CASE S = {}
  <2>1. n = 0
    BY <1>1, FS_EmptySet
  <2>2. ById(S) = <<>>
    BY <2>1 DEF ById
  <2>3. Sorted(<<>>) /\ Members(<<>>) = {}
    BY DEF Sorted, Members
  <2>4. <<>> \in Seq(Ids)
    OBVIOUS
  <2>5. QED BY <1>1, <2>2, <2>3, <2>4, Zenon
<1>2. CASE S # {}
  <2>0. n \in Nat
    BY <1>2, RankRange
  <2>1. \A i \in 1 .. n : ById(S)[i] \in S /\ Rank(S, ById(S)[i]) = i - 1
    BY <1>2, RankOnto DEF ById
  <2>2. ById(S) \in Seq(Ids) /\ Len(ById(S)) = n
    BY <2>0, <2>1 DEF ById
  <2>3. Sorted(ById(S))
    <3>1. SUFFICES ASSUME NEW i \in 1 .. n, NEW j \in 1 .. n, i < j
                   PROVE  ById(S)[i] < ById(S)[j]
      BY <2>2 DEF Sorted
    <3> DEFINE x == ById(S)[i]
               y == ById(S)[j]
    <3>2. x \in S /\ y \in S /\ Rank(S, x) < Rank(S, y) /\ Rank(S, x) \in Nat /\ Rank(S, y) \in Nat
      BY <2>1, <3>1, <2>0
    <3> HIDE DEF x, y
    <3>3. x \in Nat /\ y \in Nat
      BY <3>2, LsmAssumption DEF Ids
    <3>4. ~(y < x)
      BY <3>2, RankStrict
    <3>5. x # y
      BY <3>2
    <3>6. x < y
      BY <3>3, <3>4, <3>5
    <3>7. QED BY <3>6 DEF x, y
  <2>4. ASSUME NEW x \in S
        PROVE  \E i \in 1 .. n : ById(S)[i] = x
    <3> DEFINE i == Rank(S, x) + 1
    <3>1. i \in 1 .. n /\ Rank(S, x) \in Nat
      BY RankRange
    <3> DEFINE y == ById(S)[i]
    <3>2. y \in S /\ Rank(S, y) = Rank(S, x)
      BY <2>1, <3>1
    <3> HIDE DEF y
    <3>3. x \in Nat /\ y \in Nat
      BY <3>2, LsmAssumption DEF Ids
    <3>4. ~(x < y) /\ ~(y < x)
      BY <3>1, <3>2, RankStrict
    <3>5. y = x
      BY <3>3, <3>4
    <3>6. QED BY <3>1, <3>5 DEF y
  <2>5. Members(ById(S)) = S
    BY <2>1, <2>2, <2>4 DEF Members
  <2>6. QED BY <2>2, <2>3, <2>5
<1>3. QED BY <1>1, <1>2

\* Searching the sorted tables s, whose contents are d, from the back.
Hits(d, s, k) == {i \in 1 .. Len(s) : d[s[i]][k] # None}
Search(d, s, k) == IF Hits(d, s, k) = {} THEN None ELSE d[s[Latest(Hits(d, s, k))]][k]

\* The search finds the newest record.
LEMMA SearchIsNewest ==
    ASSUME NEW d, NEW s \in Seq(Ids), Sorted(s), NEW k
    PROVE  Search(d, s, k) = Newest(d, Members(s), k)
<1>0. Len(s) \in Nat /\ \A i \in 1 .. Len(s) : s[i] \in Ids
  OBVIOUS
<1>1. CASE Hits(d, s, k) = {}
  <2>1. \A x \in Members(s) : d[x][k] = None
    BY <1>1 DEF Hits, Members
  <2>2. QED BY <1>1, <2>1, NewestNone DEF Search
<1>2. CASE Hits(d, s, k) # {}
  <2> DEFINE p == Latest(Hits(d, s, k))
  <2>1. p \in Hits(d, s, k) /\ \A i \in Hits(d, s, k) : i <= p
    <3>1. Hits(d, s, k) \in SUBSET (0 .. Len(s))
      BY <1>0 DEF Hits
    <3>2. QED BY <1>0, <1>2, <3>1, LatestIn
  <2> HIDE DEF p
  <2>2. p \in 1 .. Len(s) /\ d[s[p]][k] # None
    BY <2>1 DEF Hits
  <2>3. ASSUME NEW x \in Members(s), d[x][k] # None
        PROVE  x <= s[p]
    <3>1. PICK i \in 1 .. Len(s) : x = s[i]
      BY DEF Members
    <3>2. i <= p
      BY <2>1, <2>3, <3>1 DEF Hits
    <3>3. i = p \/ i < p
      BY <3>2, <2>2, <1>0
    <3>4. s[i] = s[p] \/ s[i] < s[p]
      BY <3>3, <2>2 DEF Sorted
    <3>5. s[i] \in Nat /\ s[p] \in Nat
      BY <1>0, <2>2, LsmAssumption DEF Ids
    <3>6. QED BY <3>1, <3>4, <3>5
  <2>4. Members(s) \in SUBSET Nat /\ s[p] \in Members(s)
    BY <1>0, <2>2, LsmAssumption DEF Members, Ids
  <2>5. Newest(d, Members(s), k) = d[s[p]][k]
    BY <2>2, <2>3, <2>4, NewestIs
  <2>6. QED BY <1>2, <2>5 DEF Search, p
<1>3. QED BY <1>1, <1>2

LEMMA InTablesIsNewest ==
    ASSUME tables \in Seq(Ids), Sorted(tables), NEW k \in Keys
    PROVE  InTables(k) = Newest(data, Members(tables), k)
<1>1. InTables(k) = Search(data, tables, k)
  BY DEF InTables, TableHits, Search, Hits
<1>2. QED BY <1>1, SearchIsNewest
-----------------------------------------------------------------------------
(* Type correctness, whatever the faults *)

RemoveHasMerged == pc = "remove" => nextId \in 1 .. (MaxId + 1)
TypeInv == TypeOK /\ RemoveHasMerged

LEMMA ReplayInTable ==
    ASSUME NEW w \in Seq(Record)
    PROVE  wal_replay(w) \in Table /\ Replays(w) \subseteq Table
<1>1. ASSUME NEW k \in Keys, LogHits(w, k) # {}
      PROVE  w[Latest(LogHits(w, k))].val \in Entry
  <2>1. LogHits(w, k) \in SUBSET (0 .. Len(w)) /\ Len(w) \in Nat
    BY DEF LogHits
  <2>2. Latest(LogHits(w, k)) \in LogHits(w, k)
    BY <2>1, <1>1, LatestIn
  <2>3. Latest(LogHits(w, k)) \in 1 .. Len(w)
    BY <2>2 DEF LogHits
  <2>4. w[Latest(LogHits(w, k))] \in Record
    BY <2>3
  <2>5. QED BY <2>4 DEF Record
<1>2. wal_replay(w) \in Table
  BY <1>1 DEF wal_replay, Table, Entry
<1>3. QED
  BY <1>2 DEF Replays, Table, Entry

LEMMA InTablesType ==
    ASSUME TypeOK, NEW k \in Keys
    PROVE  InTables(k) \in Entry /\ Visible(InTables(k)) \in Entry
<1>1. CASE TableHits(k) = {}
  BY <1>1 DEF InTables, Visible, Entry
<1>2. CASE TableHits(k) # {}
  <2>1. TableHits(k) \in SUBSET (0 .. Len(tables)) /\ Len(tables) \in Nat
    BY DEF TableHits, TypeOK
  <2>2. Latest(TableHits(k)) \in TableHits(k)
    BY <1>2, <2>1, LatestIn
  <2>3. Latest(TableHits(k)) \in 1 .. Len(tables)
    BY <2>2 DEF TableHits
  <2>4. tables[Latest(TableHits(k))] \in Ids
    BY <2>3 DEF TypeOK
  <2>5. data[tables[Latest(TableHits(k))]][k] \in Entry
    BY <2>4 DEF TypeOK, Table
  <2>6. QED BY <1>2, <2>5 DEF InTables, Visible, Entry
<1>3. QED BY <1>1, <1>2

LEMMA PartFileType ==
    ASSUME TypeOK, nextId < MaxId, NEW m \in Table, PartFile(nextId, m)
    PROVE  /\ nextId \in Ids
           /\ ondisk' \subseteq Ids /\ torn' \subseteq ondisk'
           /\ data' \in [Ids -> Table]
<1>1. nextId \in Ids
  BY LsmAssumption DEF TypeOK, Ids
<1>2. PICK c \in {k \in Keys : m[k] # None}, cut \in BOOLEAN :
        /\ ondisk' = ondisk \cup {nextId}
        /\ data' = [data EXCEPT ![nextId] = [k \in Keys |-> IF k < c THEN m[k] ELSE None]]
        /\ torn' = IF cut THEN torn \cup {nextId} ELSE torn \ {nextId}
  BY DEF PartFile
<1>3. [k \in Keys |-> IF k < c THEN m[k] ELSE None] \in Table
  BY DEF Table, Entry
<1>4. data' \in [Ids -> Table]
  BY <1>2, <1>3 DEF TypeOK
<1>5. QED BY <1>1, <1>2, <1>4 DEF TypeOK

LEMMA TypeStep ==
    ASSUME TypeInv, [Next]_vars
    PROVE  TypeInv'
<1>t. TypeOK /\ RemoveHasMerged
  BY DEF TypeInv
<1>e. Empty \in Table
  BY DEF Empty, Table, Entry
<1>m. Merged \in Table
  BY <1>t, InTablesType DEF Merged, Table
<1>l. ASSUME NEW k \in Keys, NEW e \in Vals \cup {Tomb}, Log(k, e)
      PROVE  TypeInv'
  <2>1. [key |-> k, val |-> e, tear |-> FALSE] \in Record /\ Visible(e) \in Vals \cup {None}
    BY DEF Record, Entry, Visible
  <2>2. wal' \in Seq(Record) /\ mt' \in Table /\ acked' \in [Keys -> Vals \cup {None}]
    BY <1>l, <1>t, <2>1 DEF Log, TypeOK, Table, Entry
  <2>3. pc' \in PCs /\ pc' # "remove"
    BY <1>l DEF Log, PCs
  <2>4. QED BY <1>l, <1>t, <2>2, <2>3 DEF Log, TypeInv, TypeOK, RemoveHasMerged
<1>p. ASSUME NEW k \in Keys, PartRecord(k) PROVE wal' \in Seq(Record)
  <2>1. [key |-> k, val |-> None, tear |-> TRUE] \in Record
    BY DEF Record, Entry
  <2>2. QED BY <1>p, <1>t, <2>1 DEF PartRecord, TypeOK
<1>s. ASSUME Stop, UNCHANGED acked, wal' \in Seq(Record),
             ondisk' \subseteq Ids, torn' \subseteq ondisk', data' \in [Ids -> Table]
      PROVE  TypeInv'
  <2>1. lost' \subseteq Ids \X Keys /\ tables' \in Seq(Ids)
    BY <1>s DEF Stop
  <2>2. QED BY <1>s, <1>t, <1>e, <2>1 DEF Stop, TypeInv, TypeOK, RemoveHasMerged, PCs
<1>1. CASE kv_open
  <2>1. ById(ondisk) \in Seq(Ids)
    BY <1>t, ByIdSorts DEF TypeOK
  <2>2. ondisk # {} => Latest(ondisk) \in Nat
    <3>1. ASSUME ondisk # {} PROVE Latest(ondisk) \in ondisk
      BY <1>t, <3>1, LatestIn, LsmAssumption DEF TypeOK, Ids
    <3>2. ondisk \subseteq Nat
      BY <1>t, LsmAssumption DEF TypeOK, Ids
    <3>3. QED BY <3>1, <3>2
  <2>3. nextId' \in Nat
    BY <1>1, <2>2 DEF kv_open
  <2>4. mt' \in Table
    BY <1>1, <1>t, ReplayInTable DEF kv_open, TypeOK
  <2>5. QED BY <1>1, <1>t, <2>1, <2>3, <2>4
            DEF kv_open, dir, TypeInv, TypeOK, RemoveHasMerged, PCs
<1>2. ASSUME NEW k \in Keys, NEW v \in Vals, kv_put(k, v) PROVE TypeInv'
  BY <1>2, <1>l DEF kv_put
<1>3. ASSUME NEW k \in Keys, kv_del(k) PROVE TypeInv'
  BY <1>3, <1>l DEF kv_del
<1>4. CASE kv_flush \/ kv_compact
  BY <1>4, <1>t DEF kv_flush, kv_compact, dir, memory, TypeInv, TypeOK, RemoveHasMerged, PCs
<1>5. CASE sstable_flush
  <2>1. nextId \in Ids /\ nextId + 1 \in Nat
    BY <1>5, <1>t, LsmAssumption DEF sstable_flush, TypeOK, Ids
  <2>2. ondisk' \subseteq Ids /\ torn' \subseteq ondisk' /\ data' \in [Ids -> Table]
    BY <1>5, <1>t, <2>1 DEF sstable_flush, WriteFile, TypeOK
  <2>3. tables' \in Seq(Ids)
    BY <1>5, <1>t, <2>1 DEF sstable_flush, TypeOK
  <2>4. QED BY <1>5, <1>t, <1>e, <2>1, <2>2, <2>3
            DEF sstable_flush, TypeInv, TypeOK, RemoveHasMerged, PCs
<1>6. CASE wal_truncate
  BY <1>6, <1>t DEF wal_truncate, memory, TypeInv, TypeOK, RemoveHasMerged, PCs
<1>7. CASE sstable_compact
  <2>1. nextId \in Ids /\ nextId + 1 \in 1 .. (MaxId + 1)
    BY <1>7, <1>t, LsmAssumption DEF sstable_compact, TypeOK, Ids
  <2>2. ondisk' \subseteq Ids /\ torn' \subseteq ondisk' /\ data' \in [Ids -> Table]
    BY <1>7, <1>t, <1>m, <2>1 DEF sstable_compact, WriteFile, TypeOK
  <2>3. QED BY <1>7, <1>t, <2>1, <2>2
            DEF sstable_compact, TypeInv, TypeOK, RemoveHasMerged, PCs
<1>8. CASE RemoveOld \/ RemoveError
  <2>0. pc = "remove" /\ Forget(Head(tables), Tail(tables))
    BY <1>8 DEF RemoveOld, RemoveError
  <2>1. nextId \in 1 .. (MaxId + 1) /\ nextId - 1 \in Ids
    BY <2>0, <1>t, LsmAssumption DEF RemoveHasMerged, Ids
  <2>2. ondisk' \subseteq Ids /\ torn' \subseteq ondisk' /\ data' \in [Ids -> Table]
    BY <1>8, <1>t, <1>e DEF RemoveOld, RemoveError, TypeOK
  <2>3. tables' \in Seq(Ids)
    <3>1. CASE Len(tables) > 1
      <4>1. tables # <<>>
        BY <3>1
      <4>2. Tail(tables) \in Seq(Ids)
        BY <4>1, <1>t DEF TypeOK
      <4>3. tables' = Tail(tables)
        BY <3>1, <2>0 DEF Forget
      <4>4. QED BY <4>2, <4>3, Zenon
    <3>2. CASE ~(Len(tables) > 1)
      BY <2>0, <3>2, <2>1 DEF Forget
    <3>3. QED BY <3>1, <3>2
  <2>4. pc' \in PCs /\ lost' \subseteq Ids \X Keys
    BY <2>0, <1>t DEF Forget, PCs, TypeOK
  <2>5. QED BY <2>0, <1>t, <2>1, <2>2, <2>3, <2>4
            DEF Forget, TypeInv, TypeOK, RemoveHasMerged
<1>9. CASE Crash
  BY <1>9, <1>t, <1>s DEF Crash, dir, TypeOK
<1>10. CASE CrashInFlush
  <2>1. PartFile(nextId, mt) /\ nextId < MaxId /\ mt \in Table /\ Stop /\ UNCHANGED <<wal, acked>>
    BY <1>10, <1>t DEF CrashInFlush, TypeOK
  <2>2. ondisk' \subseteq Ids /\ torn' \subseteq ondisk' /\ data' \in [Ids -> Table]
    BY <2>1, <1>t, PartFileType
  <2>3. QED BY <2>1, <2>2, <1>t, <1>s DEF TypeOK
<1>11. CASE CrashInCompact
  <2>1. PartFile(nextId, Merged) /\ nextId < MaxId /\ Stop /\ UNCHANGED <<wal, acked>>
    BY <1>11 DEF CrashInCompact
  <2>2. ondisk' \subseteq Ids /\ torn' \subseteq ondisk' /\ data' \in [Ids -> Table]
    BY <2>1, <1>t, <1>m, PartFileType
  <2>3. QED BY <2>1, <2>2, <1>t, <1>s DEF TypeOK
<1>12. ASSUME NEW k \in Keys, CrashInLog(k) PROVE TypeInv'
  <2>1. wal' \in Seq(Record)
    BY <1>12, <1>p DEF CrashInLog
  <2>2. QED BY <1>12, <1>t, <2>1, <1>s DEF CrashInLog, TypeOK
<1>13. CASE FlushError
  <2>1. ondisk' \subseteq Ids /\ torn' \subseteq ondisk' /\ data' \in [Ids -> Table]
    <3>1. CASE PartFile(nextId, mt)
      <4>1. nextId < MaxId /\ mt \in Table
        BY <1>13, <1>t DEF FlushError, TypeOK
      <4>2. QED BY <3>1, <4>1, <1>t, PartFileType
    <3>2. CASE UNCHANGED <<ondisk, data, torn>>
      BY <3>2, <1>t DEF TypeOK
    <3>3. QED BY <3>1, <3>2, <1>13 DEF FlushError, FailedFile
  <2>2. QED BY <1>13, <1>t, <2>1 DEF FlushError, memory, TypeInv, TypeOK, RemoveHasMerged, PCs
<1>14. CASE CompactError
  <2>1. ondisk' \subseteq Ids /\ torn' \subseteq ondisk' /\ data' \in [Ids -> Table]
    <3>1. CASE PartFile(nextId, Merged)
      <4>1. nextId < MaxId
        BY <1>14 DEF CompactError
      <4>2. QED BY <3>1, <4>1, <1>t, <1>m, PartFileType
    <3>2. CASE UNCHANGED <<ondisk, data, torn>>
      BY <3>2, <1>t DEF TypeOK
    <3>3. QED BY <3>1, <3>2, <1>14 DEF CompactError, FailedFile
  <2>2. QED BY <1>14, <1>t, <2>1 DEF CompactError, TypeInv, TypeOK, RemoveHasMerged, PCs
<1>15. ASSUME NEW k \in Keys, LogError(k) PROVE TypeInv'
  <2>1. wal' \in Seq(Record)
    BY <1>15, <1>p DEF LogError
  <2>2. QED BY <1>15, <1>t, <2>1 DEF LogError, memory, TypeInv, TypeOK, RemoveHasMerged
<1>16. CASE TruncateError
  <2>0. wal \in Seq(Record) /\ <<>> \in Seq(Record)
    BY <1>t DEF TypeOK
  <2>1. wal' \in Seq(Record)
    BY <1>16, <2>0 DEF TruncateError
  <2>2. QED BY <1>16, <1>t, <2>1 DEF TruncateError, TypeInv, TypeOK, RemoveHasMerged, PCs
<1>17. CASE FlushShort
  <2>1. PartFile(nextId, mt) /\ nextId < MaxId /\ mt \in Table
    BY <1>17, <1>t DEF FlushShort, ShortFile, TypeOK
  <2>2. nextId \in Ids /\ ondisk' \subseteq Ids /\ torn' \subseteq ondisk' /\ data' \in [Ids -> Table]
    BY <2>1, <1>t, PartFileType
  <2>3. lost' \subseteq Ids \X Keys
    BY <1>17, <1>t, <2>2 DEF FlushShort, ShortFile, TypeOK
  <2>4. tables' \in Seq(Ids) /\ nextId' \in Nat
    BY <1>17, <1>t, <2>2 DEF FlushShort, TypeOK
  <2>5. QED BY <1>17, <1>t, <1>e, <2>2, <2>3, <2>4 DEF FlushShort, TypeInv, TypeOK, RemoveHasMerged, PCs
<1>18. CASE CompactShort
  <2>1. PartFile(nextId, Merged) /\ nextId < MaxId
    BY <1>18 DEF CompactShort, ShortFile
  <2>2. nextId \in Ids /\ ondisk' \subseteq Ids /\ torn' \subseteq ondisk' /\ data' \in [Ids -> Table]
    BY <2>1, <1>t, <1>m, PartFileType
  <2>3. lost' \subseteq Ids \X Keys
    BY <1>18, <1>t, <2>2 DEF CompactShort, ShortFile, TypeOK
  <2>4. nextId' \in 1 .. (MaxId + 1) /\ nextId' \in Nat
    BY <1>18, <1>t, <2>1, LsmAssumption DEF CompactShort, TypeOK
  <2>5. QED BY <1>18, <1>t, <2>2, <2>3, <2>4 DEF CompactShort, TypeInv, TypeOK, RemoveHasMerged, PCs
<1>19. CASE UNCHANGED vars
  BY <1>19, <1>t DEF vars, TypeInv, TypeOK, RemoveHasMerged
<1>20. QED
  BY <1>1, <1>2, <1>3, <1>4, <1>5, <1>6, <1>7, <1>8, <1>9, <1>10, <1>11, <1>12,
     <1>13, <1>14, <1>15, <1>16, <1>17, <1>18, <1>19 DEF Next

LEMMA InitType ==
    ASSUME Init
    PROVE  TypeInv /\ TypeOK
<1>1. Empty \in Table /\ acked \in [Keys -> Vals \cup {None}]
  BY DEF Init, Empty, Table, Entry
<1>2. lost \subseteq Ids \X Keys /\ tables \in Seq(Ids) /\ wal \in Seq(Record)
  BY DEF Init
<1>3. QED BY <1>1, <1>2 DEF Init, TypeInv, TypeOK, RemoveHasMerged, PCs

\* The directory and the fields of kv_store_t keep their shape through every
\* operation, crash, torn record and failed write.
THEOREM TypeCorrect == Spec => []TypeOK
<1>1. Init => TypeInv
  BY InitType
<1>2. TypeInv /\ [Next]_vars => TypeInv'
  BY TypeStep
<1>3. TypeInv => TypeOK
  BY DEF TypeInv
<1>4. QED BY <1>1, <1>2, <1>3, PTL DEF Spec
-----------------------------------------------------------------------------
(* Durability, when the only fault is the death of the process *)

CrashOnly == Faults \subseteq {"sst_tear"}

\* A step that leaves the log alone and the visible newest records of the keys
\* that the log does not mention keeps OnDisk.
LEMMA DurableFrame ==
    ASSUME OnDisk, wal' = wal, acked' = acked,
           \A k \in Keys : wal_replay(wal)[k] = None =>
              Visible(Newest(data', ondisk', k)) = Visible(Newest(data, ondisk, k))
    PROVE  OnDisk'
<1> SUFFICES ASSUME NEW k \in Keys PROVE Stored(k)' = acked'[k]
  BY DEF OnDisk
<1>1. Stored(k) = acked[k]
  BY DEF OnDisk
<1>2. CASE wal_replay(wal)[k] # None
  BY <1>1, <1>2 DEF Stored
<1>3. CASE wal_replay(wal)[k] = None
  BY <1>1, <1>3 DEF Stored
<1>4. QED BY <1>2, <1>3

LEMMA SortedAppend ==
    ASSUME NEW s \in Seq(Ids), Sorted(s), NEW n \in Ids, \A x \in Members(s) : x < n
    PROVE  Sorted(Append(s, n)) /\ Members(Append(s, n)) = Members(s) \cup {n}
<1> DEFINE u == Append(s, n)
<1>1. Len(u) = Len(s) + 1 /\ Len(s) \in Nat /\ u[Len(s) + 1] = n
      /\ \A i \in 1 .. Len(s) : u[i] = s[i]
  OBVIOUS
<1> HIDE DEF u
<1>2. \A i \in 1 .. Len(u) : i \in 1 .. Len(s) \/ i = Len(s) + 1
  BY <1>1
<1>3. Sorted(u)
  <2> SUFFICES ASSUME NEW i \in 1 .. Len(u), NEW j \in 1 .. Len(u), i < j
               PROVE  u[i] < u[j]
    BY DEF Sorted
  <2>1. i \in 1 .. Len(s)
    BY <1>1
  <2>2. CASE j \in 1 .. Len(s)
    BY <2>1, <2>2, <1>1 DEF Sorted
  <2>3. CASE j = Len(s) + 1
    <3>1. s[i] \in Members(s)
      BY <2>1 DEF Members
    <3>2. QED BY <2>1, <2>3, <3>1, <1>1
  <2>4. QED BY <2>2, <2>3, <1>2
<1>4. Members(u) = Members(s) \cup {n}
  <2>1. Len(s) + 1 \in 1 .. Len(u) /\ \A i \in 1 .. Len(s) : i \in 1 .. Len(u)
    BY <1>1
  <2>2. QED BY <1>1, <1>2, <2>1 DEF Members
<1>5. QED BY <1>3, <1>4 DEF u

LEMMA SortedTail ==
    ASSUME NEW s \in Seq(Ids), Sorted(s), s # <<>>
    PROVE  /\ Head(s) \in Members(s)
           /\ \A x \in Members(s) : Head(s) <= x
           /\ Sorted(Tail(s)) /\ Members(Tail(s)) = Members(s) \ {Head(s)}
           /\ Len(Tail(s)) = Len(s) - 1
<1> DEFINE u == Tail(s)
<1>0. Len(s) \in Nat /\ Len(s) > 0 /\ Head(s) = s[1]
  OBVIOUS
<1>1. Len(u) = Len(s) - 1 /\ \A i \in 1 .. Len(u) : u[i] = s[i + 1]
  OBVIOUS
<1> HIDE DEF u
<1>2. \A i \in 1 .. Len(s) : s[i] \in Nat
  BY LsmAssumption DEF Ids
<1>3. \A i \in 1 .. Len(s) : i = 1 \/ (i > 1 /\ s[1] < s[i] /\ i - 1 \in 1 .. Len(u))
  BY <1>0, <1>1 DEF Sorted
<1>4. Head(s) \in Members(s) /\ \A x \in Members(s) : Head(s) <= x
  BY <1>0, <1>2, <1>3 DEF Members
<1>5. Sorted(u)
  <2> SUFFICES ASSUME NEW i \in 1 .. Len(u), NEW j \in 1 .. Len(u), i < j
               PROVE  u[i] < u[j]
    BY DEF Sorted
  <2>1. i + 1 \in 1 .. Len(s) /\ j + 1 \in 1 .. Len(s) /\ i + 1 < j + 1
    BY <1>0, <1>1
  <2>2. QED BY <2>1, <1>1 DEF Sorted
<1>6. Members(u) = Members(s) \ {s[1]}
  <2>1. ASSUME NEW i \in 1 .. Len(u)
        PROVE  u[i] \in Members(s) /\ u[i] # s[1]
    <3>1. i + 1 \in 1 .. Len(s) /\ i + 1 # 1
      BY <1>0, <1>1
    <3>2. s[1] < s[i + 1] /\ s[1] \in Nat /\ s[i + 1] \in Nat
      BY <3>1, <1>0, <1>2, <1>3
    <3>3. QED BY <3>1, <3>2, <1>1 DEF Members
  <2>2. ASSUME NEW i \in 1 .. Len(s), s[i] # s[1]
        PROVE  s[i] \in Members(u)
    <3>1. i - 1 \in 1 .. Len(u)
      BY <1>3, <2>2
    <3>2. u[i - 1] = s[i]
      BY <3>1, <1>1
    <3>3. QED BY <3>1, <3>2 DEF Members
  <2>3. Members(s) \ {s[1]} \subseteq Members(u)
    BY <2>2 DEF Members
  <2>4. Members(u) \subseteq Members(s) \ {s[1]}
    BY <2>1 DEF Members
  <2>5. QED BY <2>3, <2>4
<1>7. QED BY <1>0, <1>1, <1>4, <1>5, <1>6 DEF u

\* A new file whose record of each key the log lacks is the one kv_get finds,
\* or missing, changes nothing that can be seen through a restart.
LEMMA DurableAdd ==
    ASSUME IInv, wal' = wal, acked' = acked, NEW n \in Ids, \A i \in ondisk : i < n,
           ondisk' = ondisk \cup {n}, \A i \in ondisk : data'[i] = data[i],
           \A k \in Keys : wal_replay(wal)[k] = None =>
              data'[n][k] \in {None, Visible(Newest(data, ondisk, k))}
    PROVE  OnDisk'
<1>1. ASSUME NEW k \in Keys, wal_replay(wal)[k] = None
      PROVE  Visible(Newest(data', ondisk', k)) = Visible(Newest(data, ondisk, k))
  <2>1. ondisk \in SUBSET Ids
    BY DEF IInv, TypeOK
  <2>2. Newest(data', ondisk \cup {n}, k) =
          IF data'[n][k] # None THEN data'[n][k] ELSE Newest(data, ondisk, k)
    <3>1. PICK e : e = data'
      OBVIOUS
    <3>2. Above(data, e, ondisk, n)
      BY <3>1 DEF Above
    <3>3. Added(data, e, ondisk, n, k)
      BY <2>1, <3>2, NewestAdd
    <3>4. QED BY <3>1, <3>3 DEF Added
  <2>3. data'[n][k] \in {None, Visible(Newest(data, ondisk, k))}
    BY <1>1
  <2>4. Visible(Visible(Newest(data, ondisk, k))) = Visible(Newest(data, ondisk, k))
    BY LsmAssumption DEF Visible
  <2>5. QED BY <2>2, <2>3, <2>4
<1>2. OnDisk
  BY DEF IInv
<1>3. QED BY <1>1, <1>2, DurableFrame

LEMMA IInvFacts ==
    ASSUME IInv
    PROVE  /\ TypeOK /\ TypeInv /\ CleanLog(wal) /\ wal_replay(wal) \in [Keys -> Written]
           /\ Merged \in [Keys -> Written] \/ pc \notin {"compact"}
           /\ pc = "compact" => \A k \in Keys : Merged[k] = Visible(Newest(data, ondisk, k))
<1>1. TypeOK /\ CleanLog(wal)
  BY DEF IInv, TypeOK, Clean, CleanLog
<1>2. TypeInv
  <2>1. pc = "remove" => nextId > 0 /\ nextId - 1 \in Ids
    BY DEF IInv, MergeCovers
  <2>2. RemoveHasMerged
    BY <2>1, <1>1, LsmAssumption DEF RemoveHasMerged, Ids, TypeOK
  <2>3. QED BY <1>1, <2>2 DEF TypeInv
<1>3. wal_replay(wal) \in [Keys -> Written]
  BY <1>1, ReplayType
<1>4. ASSUME pc = "compact", NEW k \in Keys
      PROVE  /\ Merged[k] = Visible(Newest(data, ondisk, k))
             /\ Merged[k] \in Written
  <2>1. tables \in Seq(Ids) /\ Sorted(tables) /\ Members(tables) = ondisk
    BY <1>4 DEF IInv, TypeOK, TablesInOrder
  <2>2. InTables(k) = Newest(data, ondisk, k)
    BY <2>1, InTablesIsNewest
  <2>3. Merged[k] = Visible(Newest(data, ondisk, k))
    BY <2>2 DEF Merged
  <2>4. ondisk \in SUBSET Ids /\ data \in [Ids -> [Keys -> Written]]
    BY DEF IInv, TypeOK, Clean
  <2>5. IsNewest(data, ondisk, k, Newest(data, ondisk, k))
    BY <2>4, NewestCases
  <2>6. Newest(data, ondisk, k) \in Written
    BY <2>4, <2>5 DEF IsNewest, Written
  <2>7. QED BY <2>3, <2>6 DEF Visible, Written
<1>5. pc = "compact" => Merged \in [Keys -> Written]
  BY <1>4 DEF Merged
<1>6. QED BY <1>1, <1>2, <1>3, <1>4, <1>5

LEMMA LogStep ==
    ASSUME IInv, NEW k \in Keys, NEW e \in Vals \cup {Tomb}, Log(k, e)
    PROVE  NoError' /\ Clean' /\ TablesInOrder' /\ MemIsLog' /\ MergeCovers' /\ OnDisk'
<1>0. CleanLog(wal) /\ wal_replay(wal) \in [Keys -> Written] /\ TypeOK
  BY IInvFacts
<1>n. NoError'
  BY DEF Log, IInv, NoError
<1>1. CleanLog(wal') /\ wal_replay(wal') = [wal_replay(wal) EXCEPT ![k] = e]
  BY <1>0, ReplayAppend DEF Log
<1>2. pc = "idle" /\ pc' \in {"idle", "flush"}
  BY DEF Log
<1>3. mt = wal_replay(wal)
  BY <1>2 DEF IInv, MemIsLog
<1>4. mt' = wal_replay(wal')
  BY <1>1, <1>3 DEF Log
<1>5. wal_replay(wal') \in [Keys -> Written]
  BY <1>1, ReplayType
<1>6. Clean'
  <2>1. data' = data /\ data \in [Ids -> [Keys -> Written]]
    BY DEF Log, IInv, Clean
  <2>2. QED BY <1>1, <1>4, <1>5, <2>1 DEF Clean, CleanLog
<1>7. TablesInOrder'
  BY <1>2 DEF Log, IInv, TablesInOrder, Sorted, Members
<1>8. MemIsLog' /\ MergeCovers'
  BY <1>2, <1>4 DEF MemIsLog, MergeCovers
<1>9. OnDisk'
  <2> SUFFICES ASSUME NEW x \in Keys PROVE Stored(x)' = acked'[x]
    BY DEF OnDisk
  <2>1. acked' = [acked EXCEPT ![k] = Visible(e)] /\ data' = data /\ ondisk' = ondisk
        /\ acked \in [Keys -> Vals \cup {None}]
    BY <1>0 DEF Log, TypeOK
  <2>2. Stored(x) = acked[x]
    BY DEF IInv, OnDisk
  <2>3. CASE x = k
    <3>1. wal_replay(wal')[x] = e /\ e # None
      BY <1>0, <1>1, <2>3, LsmAssumption
    <3>2. QED BY <2>1, <2>3, <3>1 DEF Stored
  <2>4. CASE x # k
    <3>1. wal_replay(wal')[x] = wal_replay(wal)[x] /\ acked'[x] = acked[x]
      BY <1>0, <1>1, <2>1, <2>4
    <3>2. QED BY <2>1, <2>2, <3>1 DEF Stored
  <2>5. QED BY <2>3, <2>4
<1>10. QED BY <1>n, <1>6, <1>7, <1>8, <1>9

\* sstable_flush, also one that the process does not survive.
LEMMA FlushStep ==
    ASSUME IInv, sstable_flush \/ CrashInFlush
    PROVE  NoError' /\ Clean' /\ TablesInOrder' /\ MemIsLog' /\ MergeCovers' /\ OnDisk'
<1>0. /\ CleanLog(wal) /\ wal_replay(wal) \in [Keys -> Written] /\ TypeOK
      /\ data \in [Ids -> [Keys -> Written]] /\ mt \in [Keys -> Written]
  BY IInvFacts DEF IInv, Clean
<1>1. pc = "flush" /\ nextId < MaxId /\ wal' = wal /\ acked' = acked
  BY DEF sstable_flush, CrashInFlush
<1>2. nextId \in Ids /\ nextId \in Nat
  BY <1>0, <1>1, LsmAssumption DEF TypeOK, Ids
<1>3. mt = wal_replay(wal) /\ \A i \in ondisk : i < nextId /\ i # nextId
  BY <1>0, <1>1, <1>2, LsmAssumption DEF IInv, MemIsLog, TablesInOrder, TypeOK, Ids
<1>4. PICK f \in [Keys -> Written] :
         /\ data' = [data EXCEPT ![nextId] = f]
         /\ \A k \in Keys : f[k] \in {None, mt[k]}
         /\ sstable_flush => f = mt
  <2>1. CASE sstable_flush
    BY <2>1, <1>0 DEF sstable_flush, WriteFile
  <2>2. CASE ~sstable_flush
    <3>1. PICK c \in {k \in Keys : mt[k] # None} :
            data' = [data EXCEPT ![nextId] = [k \in Keys |-> IF k < c THEN mt[k] ELSE None]]
      BY <2>2 DEF CrashInFlush, PartFile
    <3>2. [k \in Keys |-> IF k < c THEN mt[k] ELSE None] \in [Keys -> Written]
      BY <1>0 DEF Written
    <3>3. QED BY <2>2, <3>1, <3>2
  <2>3. QED BY <2>1, <2>2
<1>5. ondisk' = ondisk \cup {nextId}
  BY DEF sstable_flush, WriteFile, CrashInFlush, PartFile
<1>6. data' \in [Ids -> [Keys -> Written]] /\ data'[nextId] = f
      /\ \A i \in ondisk : data'[i] = data[i]
  BY <1>0, <1>2, <1>3, <1>4 DEF TypeOK
<1>7. OnDisk'
  <2>1. ASSUME NEW k \in Keys, wal_replay(wal)[k] = None
        PROVE  data'[nextId][k] \in {None, Visible(Newest(data, ondisk, k))}
    BY <1>3, <1>4, <1>6, <2>1
  <2>2. \A i \in ondisk : i < nextId
    BY <1>3
  <2>3. \A i \in ondisk : data'[i] = data[i]
    BY <1>6
  <2>4. QED BY <1>1, <1>2, <1>5, <2>1, <2>2, <2>3, DurableAdd
<1>8. Clean'
  <2>1. mt' \in [Keys -> Written]
    BY DEF sstable_flush, CrashInFlush, Stop, Empty, Written
  <2>2. QED BY <1>0, <1>1, <1>6, <2>1 DEF Clean, CleanLog
<1>n. NoError'
  BY DEF sstable_flush, CrashInFlush, Stop, IInv, NoError
<1>9. CASE CrashInFlush
  BY <1>n, <1>7, <1>8, <1>9 DEF CrashInFlush, Stop, TablesInOrder, MemIsLog, MergeCovers
<1>10. CASE sstable_flush
  <2>1. tables' = Append(tables, nextId) /\ nextId' = nextId + 1 /\ pc' = "truncate" /\ mt' = Empty
    BY <1>10 DEF sstable_flush
  <2>2. torn = {} /\ Sorted(tables) /\ Members(tables) = ondisk /\ tables \in Seq(Ids)
    BY <1>0, <1>1 DEF IInv, TablesInOrder, TypeOK
  <2>3. Sorted(tables') /\ Members(tables') = ondisk'
    BY <1>2, <1>3, <1>5, <2>1, <2>2, SortedAppend
  <2>4. torn' = {}
    BY <1>10, <2>2 DEF sstable_flush, WriteFile
  <2>5. \A i \in ondisk' : i < nextId'
    BY <1>0, <1>2, <1>3, <1>5, <2>1, LsmAssumption DEF TypeOK, Ids
  <2>6. TablesInOrder'
    BY <2>1, <2>3, <2>4, <2>5 DEF TablesInOrder
  <2>7. ASSUME NEW k \in Keys, wal_replay(wal)[k] # None
        PROVE  Newest(data', ondisk', k) = wal_replay(wal)[k]
    <3>1. f = mt
      BY <1>10, <1>4
    <3>2. data'[nextId][k] = wal_replay(wal)[k]
      BY <1>3, <1>6, <3>1
    <3>3. ondisk \cup {nextId} \in SUBSET Nat
      BY <1>0, <1>2, LsmAssumption DEF TypeOK, Ids
    <3>4. \A x \in ondisk \cup {nextId} : data'[x][k] # None => x <= nextId
      BY <1>3, <3>3
    <3>5. data'[nextId][k] # None
      BY <2>7, <3>2
    <3>6. Newest(data', ondisk \cup {nextId}, k) = data'[nextId][k]
      BY <3>3, <3>4, <3>5, NewestIs
    <3>7. QED BY <1>5, <3>2, <3>6
  <2>8. MemIsLog'
    BY <1>1, <2>1, <2>7 DEF MemIsLog, Empty
  <2>9. MergeCovers'
    BY <2>1 DEF MergeCovers
  <2>10. QED BY <1>n, <1>7, <1>8, <2>6, <2>8, <2>9
<1>11. QED BY <1>9, <1>10

\* sstable_compact, also one that the process does not survive.
LEMMA CompactStep ==
    ASSUME IInv, sstable_compact \/ CrashInCompact
    PROVE  NoError' /\ Clean' /\ TablesInOrder' /\ MemIsLog' /\ MergeCovers' /\ OnDisk'
<1>1. pc = "compact" /\ nextId < MaxId /\ wal' = wal /\ acked' = acked
  BY DEF sstable_compact, CrashInCompact
<1>0. /\ CleanLog(wal) /\ TypeOK /\ Merged \in [Keys -> Written]
      /\ \A k \in Keys : Merged[k] = Visible(Newest(data, ondisk, k))
      /\ data \in [Ids -> [Keys -> Written]] /\ mt \in [Keys -> Written]
  BY <1>1, IInvFacts DEF IInv, Clean
<1>2. nextId \in Ids /\ nextId \in Nat
  BY <1>0, <1>1, LsmAssumption DEF TypeOK, Ids
<1>3. \A i \in ondisk : i < nextId /\ i # nextId
  BY <1>0, <1>1, <1>2, LsmAssumption DEF IInv, TablesInOrder, TypeOK, Ids
<1>4. PICK f \in [Keys -> Written] :
         /\ data' = [data EXCEPT ![nextId] = f]
         /\ \A k \in Keys : f[k] \in {None, Merged[k]}
         /\ sstable_compact => f = Merged
  <2>1. CASE sstable_compact
    BY <2>1, <1>0 DEF sstable_compact, WriteFile
  <2>2. CASE ~sstable_compact
    <3>1. PICK c \in {k \in Keys : Merged[k] # None} :
            data' = [data EXCEPT ![nextId] = [k \in Keys |-> IF k < c THEN Merged[k] ELSE None]]
      BY <2>2 DEF CrashInCompact, PartFile
    <3>2. [k \in Keys |-> IF k < c THEN Merged[k] ELSE None] \in [Keys -> Written]
      BY <1>0 DEF Written
    <3>3. QED BY <2>2, <3>1, <3>2
  <2>3. QED BY <2>1, <2>2
<1>5. ondisk' = ondisk \cup {nextId}
  BY DEF sstable_compact, WriteFile, CrashInCompact, PartFile
<1>6. data' \in [Ids -> [Keys -> Written]] /\ data'[nextId] = f
      /\ \A i \in ondisk : data'[i] = data[i]
  BY <1>0, <1>2, <1>3, <1>4 DEF TypeOK
<1>7. OnDisk'
  <2>1. ASSUME NEW k \in Keys, wal_replay(wal)[k] = None
        PROVE  data'[nextId][k] \in {None, Visible(Newest(data, ondisk, k))}
    BY <1>0, <1>4, <1>6
  <2>2. \A i \in ondisk : i < nextId
    BY <1>3
  <2>3. \A i \in ondisk : data'[i] = data[i]
    BY <1>6
  <2>4. QED BY <1>1, <1>2, <1>5, <2>1, <2>2, <2>3, DurableAdd
<1>8. Clean'
  <2>1. mt' \in [Keys -> Written]
    BY <1>0 DEF sstable_compact, CrashInCompact, Stop, Empty, Written
  <2>2. QED BY <1>0, <1>1, <1>6, <2>1 DEF Clean, CleanLog
<1>n. NoError'
  BY DEF sstable_compact, CrashInCompact, Stop, IInv, NoError
<1>9. CASE CrashInCompact
  BY <1>n, <1>7, <1>8, <1>9 DEF CrashInCompact, Stop, TablesInOrder, MemIsLog, MergeCovers
<1>10. CASE sstable_compact
  <2>1. tables' = tables /\ nextId' = nextId + 1 /\ pc' = "remove" /\ mt' = mt
    BY <1>10 DEF sstable_compact
  <2>2. /\ torn = {} /\ Sorted(tables) /\ Members(tables) = ondisk /\ tables # <<>>
        /\ mt = wal_replay(wal) /\ ondisk \in SUBSET Ids
    BY <1>0, <1>1 DEF IInv, TablesInOrder, TypeOK, MemIsLog
  <2>3. TablesInOrder'
    <3>1. torn' = {}
      BY <1>10, <2>2 DEF sstable_compact, WriteFile
    <3>a. \A i \in ondisk : i \in Nat /\ i < nextId
      BY <1>3, <2>2, IdsAreNat
    <3>2. \A i \in ondisk' : i < nextId'
      BY <1>2, <1>5, <2>1, <3>a
    <3>3. QED BY <2>1, <2>2, <3>1, <3>2 DEF TablesInOrder
  <2>4. MemIsLog'
    BY <1>1, <2>1, <2>2 DEF MemIsLog
  <2>5. nextId' - 1 = nextId
    BY <1>2, <2>1
  <2>6. ASSUME NEW k \in Keys, data'[nextId][k] = None
        PROVE  Visible(Newest(data', ondisk, k)) = None
    <3>1. f = Merged
      BY <1>10, <1>4
    <3>2. Visible(Newest(data, ondisk, k)) = None
      BY <1>0, <1>6, <2>6, <3>1
    <3>3. Newest(data', ondisk, k) = Newest(data, ondisk, k)
      BY <1>6, <2>2, NewestSame
    <3>4. QED BY <3>2, <3>3
  <2>7. MergeCovers'
    <3>1. tables' # <<>> /\ nextId' > 0 /\ nextId' - 1 \in Ids
      BY <1>2, <2>1, <2>2, <2>5
    <3>2. ondisk' = Members(tables') \cup {nextId' - 1}
      BY <1>5, <2>1, <2>2, <2>5
    <3>3. \A i \in Members(tables') : i < nextId' - 1
      BY <1>3, <2>1, <2>2, <2>5
    <3>4. \A k \in Keys : \/ data'[nextId' - 1][k] # None
                          \/ Visible(Newest(data', Members(tables'), k)) = None
      BY <2>1, <2>2, <2>5, <2>6
    <3>5. QED BY <3>1, <3>2, <3>3, <3>4 DEF MergeCovers
  <2>8. QED BY <1>n, <1>7, <1>8, <2>3, <2>4, <2>7
<1>11. QED BY <1>9, <1>10

LEMMA RemoveStep ==
    ASSUME IInv, RemoveOld
    PROVE  NoError' /\ Clean' /\ TablesInOrder' /\ MemIsLog' /\ MergeCovers' /\ OnDisk'
<1> DEFINE h == Head(tables)
           merged == nextId - 1
<1>1. /\ pc = "remove" /\ wal' = wal /\ acked' = acked /\ mt' = mt /\ nextId' = nextId
      /\ ondisk' = ondisk \ {h} /\ data' = [data EXCEPT ![h] = Empty] /\ torn' = torn \ {h}
  BY DEF RemoveOld, Forget
<1>n. NoError'
  BY DEF RemoveOld, Forget, IInv, NoError
<1>0. /\ CleanLog(wal) /\ TypeOK /\ data \in [Ids -> [Keys -> Written]]
      /\ mt \in [Keys -> Written]
  BY IInvFacts DEF IInv, Clean
<1>2. /\ tables \in Seq(Ids) /\ Sorted(tables) /\ tables # <<>> /\ torn = {}
      /\ mt = wal_replay(wal) /\ \A i \in ondisk : i < nextId
      /\ nextId > 0 /\ merged \in Ids /\ nextId \in Nat
      /\ ondisk = Members(tables) \cup {merged}
      /\ \A i \in Members(tables) : i < merged
  BY <1>0, <1>1 DEF IInv, TablesInOrder, MemIsLog, MergeCovers, TypeOK
<1>3. /\ h \in Members(tables) /\ \A x \in Members(tables) : h <= x
      /\ Sorted(Tail(tables)) /\ Members(Tail(tables)) = Members(tables) \ {h}
      /\ Len(Tail(tables)) = Len(tables) - 1
  BY <1>2, SortedTail
<1> HIDE DEF h, merged
<1>4. /\ ondisk \in SUBSET Ids /\ ondisk \in SUBSET Nat /\ merged \in Nat
      /\ Members(tables) \in SUBSET Ids /\ Members(tables) \in SUBSET Nat
  <2>1. ondisk \in SUBSET Ids /\ Ids \in SUBSET Nat
    BY <1>0, LsmAssumption DEF TypeOK, Ids
  <2>2. QED BY <1>2, <2>1
<1>5. h \in ondisk /\ h # merged /\ \A x \in ondisk : h <= x
  BY <1>2, <1>3, <1>4
<1>6. /\ data' \in [Ids -> [Keys -> Written]]
      /\ \A x \in ondisk : x # h => data'[x] = data[x]
  <2>1. Empty \in [Keys -> Written]
    BY DEF Empty, Written
  <2>2. QED BY <1>0, <1>1, <1>4, <2>1
<1>c. ASSUME NEW k \in Keys
      PROVE  data[merged][k] # None \/ Visible(Newest(data, Members(tables), k)) = None
  BY <1>1 DEF IInv, MergeCovers, merged
<1>7. OnDisk'
  <2>1. ASSUME NEW k \in Keys
        PROVE  Visible(Newest(data', ondisk', k)) = Visible(Newest(data, ondisk, k))
    <3>1. Dropped(data, data', ondisk, h, k)
      <4>1. \A x \in ondisk : h <= x /\ (x # h => data'[x] = data[x])
        BY <1>5, <1>6
      <4>2. QED BY <1>4, <1>5, <4>1, NewestDrop
    <3>2. CASE Newest(data', ondisk \ {h}, k) # Newest(data, ondisk, k)
      <4>1. data[merged][k] = None
        <5>1. merged \in ondisk \ {h}
          BY <1>2, <1>5
        <5>2. QED BY <1>6, <3>1, <3>2, <5>1 DEF Dropped
      <4>2. Newest(data, Members(tables) \cup {merged}, k) =
              IF data[merged][k] # None THEN data[merged][k]
              ELSE Newest(data, Members(tables), k)
        BY <1>2, <1>4, NewestTop
      <4>3. Visible(Newest(data, ondisk, k)) = None
        BY <1>2, <1>c, <4>1, <4>2
      <4>4. Visible(None) = None
        BY DEF Visible
      <4>5. QED BY <1>1, <3>1, <3>2, <4>3, <4>4 DEF Dropped
    <3>3. QED BY <1>1, <3>2
  <2>2. OnDisk
    BY DEF IInv
  <2>3. QED BY <1>1, <2>1, <2>2, DurableFrame
<1>8. Clean'
  BY <1>0, <1>1, <1>6 DEF Clean, CleanLog
<1>9. torn' = {} /\ \A i \in ondisk' : i < nextId'
  BY <1>1, <1>2
<1>10. CASE Len(tables) > 1
  <2>1. tables' = Tail(tables) /\ pc' = "remove"
    BY <1>10 DEF RemoveOld, Forget
  <2>2. TablesInOrder'
    BY <1>3, <1>9, <2>1 DEF TablesInOrder
  <2>3. MemIsLog'
    BY <1>1, <1>2, <2>1 DEF MemIsLog
  <2>4. tables' # <<>>
    <3>1. Len(Tail(tables)) > 0
      BY <1>2, <1>3, <1>10
    <3>2. Tail(tables) # <<>>
      BY <3>1
    <3>3. QED BY <2>1, <3>2
  <2>5. Members(tables') = Members(tables) \ {h}
    BY <1>3, <2>1
  <2>6. ASSUME NEW k \in Keys, data'[merged][k] = None
        PROVE  Visible(Newest(data', Members(tables) \ {h}, k)) = None
    <3>1. data'[merged] = data[merged]
      BY <1>2, <1>5, <1>6
    <3>2. Visible(Newest(data, Members(tables), k)) = None
      BY <1>c, <2>6, <3>1
    <3>3. \A x \in Members(tables) : h <= x /\ (x # h => data'[x] = data[x])
      BY <1>2, <1>3, <1>6
    <3>4. Dropped(data, data', Members(tables), h, k)
      <4>1. h \in Members(tables) /\ Members(tables) \in SUBSET Ids
        BY <1>3, <1>4
      <4>2. QED BY <3>3, <4>1, NewestDrop
    <3>5. QED BY <3>2, <3>4 DEF Visible, Dropped
  <2>7. MergeCovers'
    <3>1. nextId' > 0 /\ nextId' - 1 \in Ids /\ nextId' - 1 = merged
      BY <1>1, <1>2 DEF merged
    <3>2. ondisk' = Members(tables') \cup {merged}
      BY <1>1, <1>2, <1>5, <2>5
    <3>3. \A i \in Members(tables') : i < merged
      BY <1>2, <2>5
    <3>4. \A k \in Keys : \/ data'[merged][k] # None
                          \/ Visible(Newest(data', Members(tables'), k)) = None
      BY <2>5, <2>6
    <3>5. QED BY <2>4, <3>1, <3>2, <3>3, <3>4 DEF MergeCovers
  <2>8. QED BY <1>n, <1>7, <1>8, <2>2, <2>3, <2>7
<1>11. CASE ~(Len(tables) > 1)
  <2>1. tables' = <<nextId - 1>> /\ pc' = "idle"
    BY <1>11 DEF RemoveOld, Forget
  <2>2. Members(tables) = {h}
    <3>1. Len(tables) = 1
      <4>1. Len(tables) \in Nat /\ Len(tables) # 0
        BY <1>2
      <4>2. \A n \in Nat : n # 0 /\ ~(n > 1) => n = 1
        OBVIOUS
      <4>3. QED BY <4>1, <4>2, <1>11, Zenon
    <3>2. QED BY <3>1, <1>2 DEF Members, h
  <2>3. ondisk' = {nextId - 1}
    BY <1>1, <1>2, <1>5, <2>2 DEF merged
  <2>4. Sorted(tables') /\ Members(tables') = {nextId - 1}
    BY <2>1 DEF Sorted, Members
  <2>5. TablesInOrder'
    BY <1>9, <2>1, <2>3, <2>4 DEF TablesInOrder
  <2>6. MemIsLog' /\ MergeCovers'
    BY <1>1, <1>2, <2>1 DEF MemIsLog, MergeCovers
  <2>7. QED BY <1>n, <1>7, <1>8, <2>5, <2>6
<1>12. QED BY <1>10, <1>11

LEMMA InitIInv ==
    ASSUME Init
    PROVE  IInv
<1>1. Empty \in Table /\ Empty \in [Keys -> Written]
      /\ Empty \in [Keys -> Vals \cup {None}] /\ TypeOK
  BY InitType DEF Empty, Table, Entry, Written
<1>2. wal_replay(wal) = Empty
  BY ReplayEmpty DEF Init
<1>3. OnDisk
  <2> SUFFICES ASSUME NEW k \in Keys PROVE Stored(k) = acked[k]
    BY DEF OnDisk
  <2>1. Newest(data, ondisk, k) = None
    BY NewestNone DEF Init
  <2>2. QED BY <1>2, <2>1 DEF Init, Stored, Visible, Empty
<1>4. QED BY <1>1, <1>3 DEF Init, IInv, NoError, Clean, TablesInOrder, MemIsLog, MergeCovers

LEMMA StepIInv ==
    ASSUME CrashOnly, IInv, [Next]_vars
    PROVE  IInv'
<1>0. TypeOK /\ TypeInv /\ CleanLog(wal) /\ wal_replay(wal) \in [Keys -> Written]
  BY IInvFacts
<1>t. TypeOK'
  BY <1>0, TypeStep DEF TypeInv
<1> DEFINE Rest == NoError /\ Clean /\ TablesInOrder /\ MemIsLog /\ MergeCovers /\ OnDisk
<1> SUFFICES Rest'
  BY <1>t DEF IInv
<1>f. ASSUME wal' = wal, data' = data, ondisk' = ondisk, acked' = acked
      PROVE  OnDisk'
  BY <1>f DEF IInv, OnDisk, Stored
<1>1. CASE kv_open
  <2>1. /\ wal' = wal /\ data' = data /\ ondisk' = ondisk /\ acked' = acked /\ torn' = torn
        /\ torn = {} /\ pc' = "idle" /\ tables' = ById(ondisk)
        /\ nextId' = (IF ondisk = {} THEN 0 ELSE Latest(ondisk) + 1)
    BY <1>1 DEF kv_open, dir
  <2>2. mt' = wal_replay(wal)
    BY <1>0, <1>1, ReplayType DEF kv_open
  <2>3. Clean'
    BY <1>0, <2>1, <2>2 DEF IInv, Clean
  <2>4. Sorted(tables') /\ Members(tables') = ondisk
    BY <1>0, <2>1, ByIdSorts DEF TypeOK
  <2>5. \A i \in ondisk : i < nextId'
    <3>1. ondisk \in SUBSET (0 .. MaxId) /\ MaxId \in Nat
      BY <1>0, LsmAssumption DEF TypeOK, Ids
    <3>2. ondisk # {} => Latest(ondisk) \in ondisk /\ \A i \in ondisk : i <= Latest(ondisk)
      BY <3>1, LatestIn
    <3>3. CASE ondisk # {}
      <4>1. nextId' = Latest(ondisk) + 1
        BY <2>1, <3>3
      <4>a. ondisk \subseteq Nat
        BY <3>1
      <4>2. Latest(ondisk) \in Nat /\ \A i \in ondisk : i \in Nat /\ i <= Latest(ondisk)
        BY <4>a, <3>2, <3>3
      <4>3. QED BY <4>1, <4>2
    <3>4. QED BY <3>3
  <2>6. TablesInOrder'
    BY <2>1, <2>4, <2>5 DEF TablesInOrder
  <2>7. MemIsLog' /\ MergeCovers'
    BY <2>1, <2>2 DEF MemIsLog, MergeCovers
  <2>8. NoError'
    BY <1>1 DEF kv_open, IInv, NoError
  <2>9. QED BY <1>f, <2>1, <2>3, <2>6, <2>7, <2>8
<1>2. ASSUME NEW k \in Keys, NEW v \in Vals, kv_put(k, v) PROVE Rest'
  BY <1>2, LogStep DEF kv_put
<1>3. ASSUME NEW k \in Keys, kv_del(k) PROVE Rest'
  BY <1>3, LogStep DEF kv_del
<1>4. CASE kv_flush \/ kv_compact
  <2>1. /\ UNCHANGED <<wal, ondisk, data, torn, mt, tables, lost, nextId, nolog, acked>>
        /\ pc = "idle" /\ pc' \in {"flush", "compact"} /\ (pc' = "compact" => tables # <<>>)
    BY <1>4 DEF kv_flush, kv_compact, dir, memory
  <2>2. NoError' /\ Clean' /\ TablesInOrder' /\ MemIsLog' /\ MergeCovers'
    BY <2>1 DEF IInv, NoError, Clean, TablesInOrder, MemIsLog, MergeCovers
  <2>3. QED BY <1>f, <2>1, <2>2
<1>5. CASE sstable_flush \/ CrashInFlush
  BY <1>5, FlushStep
<1>6. CASE wal_truncate
  <2>1. /\ pc = "truncate" /\ wal' = <<>> /\ UNCHANGED <<ondisk, data, torn, mt, tables, lost, nextId, nolog, acked>>
        /\ pc' = (IF Len(tables) >= CompactThreshold THEN "compact" ELSE "idle")
    BY <1>6 DEF wal_truncate, memory
  <2>2. wal_replay(wal') = Empty /\ mt = Empty
    BY <2>1, ReplayEmpty DEF IInv, MemIsLog
  <2>3. Clean'
    BY <2>1 DEF IInv, Clean
  <2>4. pc' = "compact" => tables # <<>>
    BY <2>1, LsmAssumption
  <2>5. TablesInOrder'
    BY <2>1, <2>4 DEF IInv, TablesInOrder
  <2>6. MemIsLog' /\ MergeCovers'
    BY <2>1, <2>2 DEF MemIsLog, MergeCovers
  <2>7. OnDisk'
    <3> SUFFICES ASSUME NEW k \in Keys PROVE Stored(k)' = acked'[k]
      BY DEF OnDisk
    <3>1. Stored(k) = acked[k]
      BY DEF IInv, OnDisk
    <3>2. Stored(k)' = Visible(Newest(data, ondisk, k))
      BY <2>1, <2>2 DEF Stored, Empty
    <3>3. wal_replay(wal)[k] # None => Newest(data, ondisk, k) = wal_replay(wal)[k]
      BY <2>1 DEF IInv, MemIsLog
    <3>4. QED BY <2>1, <3>1, <3>2, <3>3 DEF Stored
  <2>8. NoError'
    BY <2>1 DEF IInv, NoError
  <2>9. QED BY <2>3, <2>5, <2>6, <2>7, <2>8
<1>7. CASE sstable_compact \/ CrashInCompact
  BY <1>7, CompactStep
<1>8. CASE RemoveOld
  BY <1>8, RemoveStep
<1>9. CASE Crash
  <2>1. wal' = wal /\ data' = data /\ ondisk' = ondisk /\ acked' = acked
        /\ pc' = "down" /\ mt' = Empty /\ lost' = {} /\ nolog' = FALSE
    BY <1>9 DEF Crash, Stop, dir
  <2>2. NoError' /\ Clean' /\ TablesInOrder' /\ MemIsLog' /\ MergeCovers'
    BY <2>1 DEF IInv, NoError, Clean, TablesInOrder, MemIsLog, MergeCovers, Empty, Written
  <2>3. QED BY <1>f, <2>1, <2>2
<1>10. /\ ~FlushError /\ ~CompactError /\ ~TruncateError /\ ~RemoveError /\ ~FlushShort /\ ~CompactShort
       /\ \A k \in Keys : ~CrashInLog(k) /\ ~LogError(k)
  BY DEF CrashOnly, FlushError, CompactError, TruncateError, RemoveError, FlushShort, CompactShort,
     CrashInLog, LogError
<1>11. CASE UNCHANGED vars
  BY <1>11, <1>f DEF vars, IInv, NoError, Clean, TablesInOrder, MemIsLog, MergeCovers
<1>12. QED
  BY <1>1, <1>2, <1>3, <1>4, <1>5, <1>6, <1>7, <1>8, <1>9, <1>10, <1>11 DEF Next

\* What the invariant says of a restart.
LEMMA ContentsIs ==
    ASSUME IInv
    PROVE  /\ acked \in [Keys -> Vals \cup {None}] /\ acked # Fails
           /\ torn = {} => Contents = acked
           /\ torn # {} => Contents = Fails /\ pc = "down"
<1>1. acked \in [Keys -> Vals \cup {None}]
  BY DEF IInv, TypeOK
<1>2. acked # Fails
  BY <1>1, LsmAssumption
<1>3. ASSUME torn = {} PROVE Contents = acked
  <2>1. \A k \in Keys : Stored(k) = acked[k]
    BY DEF IInv, OnDisk
  <2>2. QED BY <1>1, <1>3, <2>1 DEF Contents
<1>4. torn # {} => Contents = Fails /\ pc = "down"
  BY DEF Contents, IInv, TablesInOrder
<1>5. QED BY <1>1, <1>2, <1>3, <1>4

\* Killing the process at any point, also while an sstable is being written,
\* and opening the store again yields the map of the records logged so far, or
\* kv_open refuses a table that was being written (store.c:42-45).
THEOREM Durability ==
    ASSUME CrashOnly
    PROVE  Spec => []Durable
<1>1. Init => IInv
  BY InitIInv
<1>2. IInv /\ [Next]_vars => IInv'
  BY StepIInv
<1>3. IInv => Durable
  BY ContentsIs DEF Durable
<1>4. QED BY <1>1, <1>2, <1>3, PTL DEF Spec

\* Also where kv_open refuses the directory it still holds what was logged, in
\* the log and in the whole records of the tables; and it refuses only when a
\* table is torn, which happens only where the process dies.
THEOREM NothingLeavesDisk ==
    ASSUME CrashOnly
    PROVE  Spec => [](OnDisk /\ (torn # {} => pc = "down"))
<1>1. Init => IInv
  BY InitIInv
<1>2. IInv /\ [Next]_vars => IInv'
  BY StepIInv
<1>3. IInv => OnDisk /\ (torn # {} => pc = "down")
  BY DEF IInv, TablesInOrder
<1>4. QED BY <1>1, <1>2, <1>3, PTL DEF Spec

\* Without index entries that lack their record kv_get searches the files.
LEMMA GetIsSearch ==
    ASSUME lost = {}, NEW k
    PROVE  sstable_get(k) = InTables(k)
BY DEF sstable_get, IndexHits, InTables, TableHits

\* Between operations kv_get returns what was last written to the key: the
\* search of memtable and tables agrees with the log and the directory.
THEOREM ReadYourWrites ==
    ASSUME CrashOnly
    PROVE  Spec => []ReadsLatest
<1>1. Init => IInv
  BY InitIInv
<1>2. IInv /\ [Next]_vars => IInv'
  BY StepIInv
<1>3. IInv => ReadsLatest
  <2> SUFFICES ASSUME IInv, pc = "idle", NEW k \in Keys
               PROVE  kv_get(k) = acked[k]
    BY DEF ReadsLatest
  <2>1. /\ tables \in Seq(Ids) /\ Sorted(tables) /\ Members(tables) = ondisk
        /\ mt = wal_replay(wal) /\ lost = {}
    BY DEF IInv, TypeOK, TablesInOrder, MemIsLog, NoError
  <2>2. sstable_get(k) = Newest(data, ondisk, k)
    BY <2>1, InTablesIsNewest, GetIsSearch
  <2>3. kv_get(k) = Stored(k)
    BY <2>1, <2>2 DEF kv_get, Stored
  <2>4. QED BY <2>3 DEF IInv, OnDisk
<1>4. QED BY <1>1, <1>2, <1>3, PTL DEF Spec

\* Through a restart the store is a map: only kv_put and kv_del change it, one
\* key at a time; flushing, truncating, compacting and dying do not show, but
\* for a death inside write_sstable, behind which kv_open refuses for good.
THEOREM Refinement ==
    ASSUME CrashOnly
    PROVE  Spec => ImplementsMap
<1>1. Init => IInv
  BY InitIInv
<1>2. IInv /\ [Next]_vars => IInv'
  BY StepIInv
<1>3. ASSUME IInv' PROVE /\ torn' = {} => Contents' = acked'
                         /\ torn' # {} => Contents' = Fails
  <2>1. acked' \in [Keys -> Vals \cup {None}] /\ \A k \in Keys : Stored(k)' = acked'[k]
    BY <1>3 DEF IInv, TypeOK, OnDisk
  <2>2. QED BY <2>1 DEF Contents
<1>4. Init => Map!Init
  <2>1. Init => acked = [k \in Keys |-> None] /\ torn = {}
    BY DEF Init, Empty
  <2>2. QED BY <1>1, <2>1, ContentsIs DEF Map!Init
<1>5. ASSUME IInv, IInv', [Next]_vars PROVE [Map!Next]_Contents
  <2>0. /\ acked \in [Keys -> Vals \cup {None}] /\ acked # Fails
        /\ torn = {} => Contents = acked
        /\ torn # {} => Contents = Fails /\ pc = "down"
    BY <1>5, ContentsIs
  <2>1. CASE torn' # {}
    BY <1>3, <1>5, <2>1 DEF Map!Next, Map!Refuse
  <2>2. CASE torn' = {} /\ torn # {}
    <3>1. UNCHANGED vars
      BY <1>5, <2>0, <2>2 DEF Next, kv_open, kv_put, kv_del, Log, kv_flush, sstable_flush, wal_truncate,
         kv_compact, sstable_compact, RemoveOld, Crash, CrashInFlush, CrashInCompact, CrashInLog, LogError,
         FlushError, CompactError, TruncateError, RemoveError, FlushShort, CompactShort
    <3>2. QED BY <2>2, <3>1 DEF vars
  <2>3. CASE torn' = {} /\ torn = {}
    <3>0. Contents = acked /\ Contents' = acked' /\ Contents # Fails
      BY <1>3, <1>5, <2>0, <2>3
    <3>1. ASSUME NEW k \in Keys, NEW v \in Vals, kv_put(k, v) PROVE Map!Next
      <4>1. acked' = [acked EXCEPT ![k] = v]
        BY <3>1, LsmAssumption DEF kv_put, Log, Visible
      <4>2. QED BY <3>0, <4>1 DEF Map!Next, Map!Put
    <3>2. ASSUME NEW k \in Keys, kv_del(k) PROVE Map!Next
      <4>1. acked' = [acked EXCEPT ![k] = None]
        BY <3>2 DEF kv_del, Log, Visible
      <4>2. QED BY <3>0, <4>1 DEF Map!Next, Map!Delete
    <3>3. ASSUME ~(\E k \in Keys : (\E v \in Vals : kv_put(k, v)) \/ kv_del(k))
          PROVE  acked' = acked
      BY <1>5, <3>3 DEF Next, vars, kv_open, kv_flush, sstable_flush, wal_truncate, kv_compact,
         sstable_compact, RemoveOld, Forget, Crash, CrashInFlush, CrashInCompact, CrashInLog, LogError,
         FlushError, CompactError, TruncateError, RemoveError, FlushShort, CompactShort
    <3>4. QED BY <3>0, <3>1, <3>2, <3>3
  <2>4. QED BY <2>1, <2>2, <2>3
<1>6. QED BY <1>1, <1>2, <1>4, <1>5, PTL DEF Spec, ImplementsMap, Map!Spec
-----------------------------------------------------------------------------
(* What the faults leave *)

\* A record that is cut short says nothing.
LEMMA ReplayTorn ==
    ASSUME NEW w \in Seq(Record), NEW r \in Record, r.tear
    PROVE  wal_replay(Append(w, r)) = wal_replay(w)
<1> DEFINE u == Append(w, r)
<1>1. /\ Len(u) = Len(w) + 1 /\ Len(w) \in Nat /\ u[Len(w) + 1] = r
      /\ \A i \in 1 .. Len(w) : u[i] = w[i]
  OBVIOUS
<1> HIDE DEF u
<1>2. ASSUME NEW k \in Keys PROVE LogHits(u, k) = LogHits(w, k)
  <2>1. \A i \in 1 .. Len(u) : (\A j \in 1 .. i : ~u[j].tear) => i \in 1 .. Len(w)
    BY <1>1
  <2>2. \A i \in 1 .. Len(w) : i \in 1 .. Len(u) /\ \A j \in 1 .. i : j \in 1 .. Len(w) /\ u[j] = w[j]
    BY <1>1
  <2>3. QED BY <1>1, <2>1, <2>2 DEF LogHits
<1>3. ASSUME NEW k \in Keys, LogHits(w, k) # {} PROVE u[Latest(LogHits(w, k))] = w[Latest(LogHits(w, k))]
  <2>1. LogHits(w, k) \in SUBSET (0 .. Len(w))
    BY <1>1 DEF LogHits
  <2>2. Latest(LogHits(w, k)) \in LogHits(w, k)
    BY <1>1, <1>3, <2>1, LatestIn
  <2>3. QED BY <1>1, <2>2 DEF LogHits
<1>4. wal_replay(u) = wal_replay(w)
  BY <1>2, <1>3 DEF wal_replay
<1>5. QED BY <1>4 DEF u

\* Nothing is appended behind a torn record: then none was torn.
LEMMA NotBehindTorn ==
    ASSUME NEW w \in Seq(Record), NEW r, ~Overrun(Append(w, r)),
           \A i \in 1 .. Len(w) : ~w[i].tear => w[i].val \in Vals \cup {Tomb}
    PROVE  CleanLog(w) /\ ~Overrun(w)
<1> DEFINE u == Append(w, r)
<1>1. Len(u) = Len(w) + 1 /\ Len(w) \in Nat /\ \A i \in 1 .. Len(w) : u[i] = w[i]
  OBVIOUS
<1> HIDE DEF u
<1>2. \A i \in 1 .. Len(w) : i \in 1 .. Len(u) /\ i < Len(u)
  BY <1>1
<1>3. \A i \in 1 .. Len(w) : ~w[i].tear
  <2>1. ~Overrun(u)
    BY DEF u
  <2>2. QED BY <1>1, <1>2, <2>1 DEF Overrun
<1>4. QED BY <1>3 DEF CleanLog, Overrun

\* A file is written at the end of the directory, over one that has no record
\* of k if there was one.
Over(d, e, S, n, k) ==
    (\A x \in S : x <= n /\ (x # n => e[x] = d[x])) /\ (n \in S => d[n][k] = None)

LEMMA NewestWrite ==
    ASSUME NEW d, NEW e, NEW S \in SUBSET Ids, NEW n \in Ids, NEW k, Over(d, e, S, n, k)
    PROVE  Added(d, e, S, n, k)
<1> DEFINE T == S \ {n}
<1>1. T \in SUBSET Ids /\ T \cup {n} = S \cup {n}
  OBVIOUS
<1>2. n \in Nat /\ \A x \in T : x \in Nat
  BY IdsAreNat
<1>3. \A x \in T : x < n /\ e[x] = d[x]
  BY <1>2 DEF Over
<1>4. Live(d, T, k) = Live(d, S, k)
  BY DEF Live, Over
<1>5. Newest(d, T, k) = Newest(d, S, k)
  BY <1>4 DEF Newest
<1>6. PICK U \in SUBSET Ids : U = T
  BY <1>1
<1>7. Above(d, e, U, n)
  BY <1>3, <1>6 DEF Above
<1>8. Added(d, e, U, n, k)
  BY <1>7, NewestAdd, Zenon
<1>9. QED BY <1>1, <1>5, <1>6, <1>8 DEF Added

\* The tables that the process has open keep their contents.
LEMMA InTablesSame ==
    ASSUME tables \in Seq(Ids), Sorted(tables), tables' = tables, NEW k \in Keys,
           \A x \in Members(tables) : data'[x] = data[x]
    PROVE  InTables(k)' = InTables(k)
<1>1. InTables(k)' = Search(data', tables', k)
  BY DEF InTables, TableHits, Search, Hits
<1>2. PICK s, e : s \in Seq(Ids) /\ s = tables /\ e = data'
  OBVIOUS
<1>3. Search(e, s, k) = Newest(e, Members(s), k)
  BY <1>2, SearchIsNewest
<1>4. Members(s) \in SUBSET Ids /\ \A x \in Members(s) : e[x] = data[x]
  BY <1>2 DEF Members
<1>5. Newest(e, Members(s), k) = Newest(data, Members(s), k)
  BY <1>4, NewestSame
<1>6. QED BY <1>1, <1>2, <1>3, <1>5, InTablesIsNewest

\* The new table on top of the others.
LEMMA InTablesAppend ==
    ASSUME tables \in Seq(Ids), Sorted(tables), NEW n \in Ids, tables' = Append(tables, n),
           NEW k \in Keys, \A x \in Members(tables) : x < n /\ data'[x] = data[x]
    PROVE  InTables(k)' = IF data'[n][k] # None THEN data'[n][k] ELSE InTables(k)
<1>1. InTables(k)' = Search(data', tables', k)
  BY DEF InTables, TableHits, Search, Hits
<1>2. PICK s, e : s \in Seq(Ids) /\ s = tables' /\ e = data'
  OBVIOUS
<1>3. Sorted(s) /\ Members(s) = Members(tables) \cup {n}
  BY <1>2, SortedAppend
<1>4. Search(e, s, k) = Newest(e, Members(s), k)
  BY <1>2, <1>3, SearchIsNewest
<1>5. Members(tables) \in SUBSET Ids /\ Above(data, e, Members(tables), n)
  BY <1>2 DEF Members, Above
<1>6. Added(data, e, Members(tables), n, k)
  BY <1>5, NewestAdd, Zenon
<1>7. QED BY <1>1, <1>2, <1>3, <1>4, <1>6, InTablesIsNewest DEF Added

\* What FaultInv says of the parts that the steps below use.
LEMMA FaultFacts ==
    ASSUME FaultInv
    PROVE  /\ TypeOK /\ TypeInv /\ ondisk \in SUBSET Ids /\ ondisk \in SUBSET Nat /\ nextId \in Nat
           /\ tables \in Seq(Ids) /\ Members(tables) \in SUBSET Ids /\ Members(tables) \in SUBSET Nat
           /\ Empty \in Table /\ Merged \in Table
           /\ \A k \in Keys : acked[k] # None => acked[k] \in Vals /\ Visible(acked[k]) = acked[k]
<1>1. TypeOK
  BY DEF FaultInv
<1>2. /\ ondisk \in SUBSET Ids /\ ondisk \in SUBSET Nat /\ nextId \in Nat /\ tables \in Seq(Ids)
  BY <1>1, IdsAreNat DEF TypeOK
<1>3. Members(tables) \in SUBSET Ids
  BY <1>2 DEF Members
<1>4. Members(tables) \in SUBSET Nat
  BY <1>3, IdsAreNat
<1>5. TypeInv
  <2>1. ASSUME pc = "remove" PROVE nextId \in 1 .. (MaxId + 1)
    <3>1. nextId - 1 \in Ids
      BY <1>2, <2>1 DEF FaultInv, FilesInOrder
    <3>2. QED BY <1>2, <3>1, LsmAssumption DEF Ids
  <2>2. QED BY <1>1, <2>1 DEF TypeInv, RemoveHasMerged
<1>6. Empty \in Table /\ Merged \in Table
  BY <1>1, InTablesType DEF Merged, Table, Empty, Entry
<1>7. \A k \in Keys : acked[k] # None => acked[k] \in Vals /\ Visible(acked[k]) = acked[k]
  BY <1>1, LsmAssumption DEF TypeOK, Visible
<1>8. QED BY <1>1, <1>2, <1>3, <1>4, <1>5, <1>6, <1>7

\* A value is visible only as itself.
LEMMA VisibleValue ==
    ASSUME NEW e, NEW v \in Vals, Visible(e) = v
    PROVE  e = v
BY LsmAssumption DEF Visible

\* The record of k that a running process finds.
LEMMA AfterOpIs ==
    ASSUME lost = {}, NEW k
    PROVE  AfterOp(k) = Visible(IF mt[k] # None THEN mt[k]
                                ELSE IF pc = "remove" THEN data[nextId - 1][k] ELSE InTables(k))
BY GetIsSearch DEF AfterOp

LEMMA AfterOpNext ==
    ASSUME lost' = {}, NEW k
    PROVE  AfterOp(k)' = Visible(IF mt'[k] # None THEN mt'[k]
                                 ELSE IF pc' = "remove" THEN data'[nextId' - 1][k] ELSE InTables(k)')
<1>1. sstable_get(k)' = InTables(k)'
  BY DEF sstable_get, IndexHits, InTables, TableHits
<1>2. QED BY <1>1 DEF AfterOp, Visible

\* A file written at next_sstable_id: for a key with a value that the memtable
\* does not have it holds that value or nothing.
LEMMA WriteKeepsDisk ==
    ASSUME FaultInv, LiveOnDisk, ~Overrun(wal), pc \in {"flush", "compact"}, nextId \in Ids,
           wal' = wal, acked' = acked, NEW f, ondisk' = ondisk \cup {nextId},
           data' = [data EXCEPT ![nextId] = f],
           \A k \in Keys : acked[k] # None /\ mt[k] = None => f[k] \in {None, acked[k]}
    PROVE  LiveOnDisk'
<1>0. /\ TypeOK /\ ondisk \in SUBSET Ids /\ ondisk \in SUBSET Nat /\ nextId \in Nat
      /\ \A k \in Keys : acked[k] # None => acked[k] \in Vals /\ Visible(acked[k]) = acked[k]
  BY FaultFacts
<1>1. \A k \in Keys : wal_replay(wal)[k] = None => mt[k] = None
  BY DEF FaultInv, LogIsMem, Empty
<1>d. data'[nextId] = f /\ \A x \in Ids : x # nextId => data'[x] = data[x]
  BY <1>0 DEF TypeOK
<1>2. PICK e, n : n \in Ids /\ e = data' /\ n = nextId /\ e[n] = f /\ \A x \in Ids : x # n => e[x] = data[x]
  BY <1>d, Zenon
<1>3. ASSUME NEW k \in Keys, acked[k] # None PROVE Stored(k)' = acked[k]
  <2>1. Stored(k) = acked[k]
    BY <1>3 DEF LiveOnDisk
  <2>2. CASE wal_replay(wal)[k] # None
    BY <2>1, <2>2 DEF Stored
  <2>3. CASE wal_replay(wal)[k] = None
    <3>1. mt[k] = None
      BY <1>1, <2>3
    <3>2. \A x \in ondisk : x <= n /\ (x # n => e[x] = data[x])
      BY <1>0, <1>2 DEF FaultInv, FilesInOrder
    <3>3. n \in ondisk => data[n][k] = None
      BY <1>2, <3>1 DEF FaultInv, FilesInOrder
    <3>4. Added(data, e, ondisk, n, k)
      <4>1. Over(data, e, ondisk, n, k)
        BY <3>2, <3>3 DEF Over
      <4>2. QED BY <1>0, <1>2, <4>1, NewestWrite
    <3>5. e[n][k] \in {None, acked[k]}
      BY <1>2, <1>3, <3>1
    <3>6. Newest(e, ondisk \cup {n}, k) \in {acked[k], Newest(data, ondisk, k)}
      BY <3>4, <3>5 DEF Added
    <3>7. Visible(Newest(data, ondisk, k)) = acked[k]
      BY <2>1, <2>3 DEF Stored
    <3>8. Visible(Newest(e, ondisk \cup {n}, k)) = acked[k]
      BY <1>0, <1>3, <3>6, <3>7
    <3>9. Stored(k)' = Visible(Newest(e, ondisk \cup {n}, k))
      BY <1>2, <2>3 DEF Stored
    <3>10. QED BY <3>8, <3>9
  <2>4. QED BY <2>2, <2>3
<1>4. QED BY <1>3 DEF LiveOnDisk

\* A step that leaves the log and the files alone.
LEMMA DiskFrame ==
    ASSUME LiveOnDisk, wal' = wal, acked' = acked, ondisk' = ondisk, data' = data
    PROVE  LiveOnDisk'
BY DEF LiveOnDisk, Stored

\* A step that leaves the memtable and the tables alone.
LEMMA MemoryFrame ==
    ASSUME FaultInv, LiveInMemory, pc \notin {"down", "remove"}, pc' # "remove",
           lost = {}, lost' = {}, acked' = acked, mt' = mt, tables' = tables,
           \A x \in Members(tables) : data'[x] = data[x]
    PROVE  LiveInMemory'
<1>0. tables \in Seq(Ids) /\ Sorted(tables)
  BY FaultFacts DEF FaultInv, FilesInOrder
<1>1. ASSUME NEW k \in Keys, acked[k] # None PROVE AfterOp(k)' = acked[k]
  <2>1. InTables(k)' = InTables(k)
    BY <1>0, InTablesSame
  <2>2. AfterOp(k) = acked[k]
    BY <1>1 DEF LiveInMemory
  <2>3. QED BY <2>1, <2>2, AfterOpIs, AfterOpNext
<1>2. QED BY <1>1 DEF LiveInMemory

\* One lemma for each step: FaultInv is kept, and the values are.
Kept == FaultInv' /\ (LiveValues /\ Whole /\ Whole' => LiveValues')

LEMMA OpenKeeps ==
    ASSUME FaultInv, TypeOK', kv_open
    PROVE  Kept
<1>0. TypeOK /\ ondisk \in SUBSET Ids /\ ondisk \in SUBSET Nat
  BY FaultFacts
<1>1. wal' = wal /\ ondisk' = ondisk /\ data' = data /\ acked' = acked /\ pc' = "idle"
      /\ mt' \in Replays(wal) /\ tables' = ById(ondisk) /\ lost' = lost /\ nolog' = nolog /\ pc = "down"
  BY DEF kv_open, dir
<1>2. tables' \in Seq(Ids) /\ Sorted(tables') /\ Members(tables') = ondisk
  BY <1>0, <1>1, ByIdSorts
<1>3. \A i \in ondisk : i < nextId'
  <2>1. CASE ondisk = {}
    BY <2>1
  <2>2. CASE ondisk # {}
    <3>1. ondisk \in SUBSET (0 .. MaxId)
      BY <1>0 DEF Ids
    <3>2. Latest(ondisk) \in ondisk /\ \A x \in ondisk : x <= Latest(ondisk)
      BY <2>2, <3>1, LatestIn, LsmAssumption
    <3>3. PICK m \in Nat : m = Latest(ondisk)
      BY <1>0, <3>2
    <3>4. nextId' = m + 1
      BY <2>2, <3>3 DEF kv_open
    <3>5. QED BY <1>0, <3>2, <3>3, <3>4
  <2>3. QED BY <2>1, <2>2
<1>4. nextId' \in Nat /\ nextId' \notin ondisk /\ \A i \in ondisk : i <= nextId'
  BY <1>0, <1>3 DEF TypeOK
<1>5. FilesInOrder'
  BY <1>1, <1>2, <1>3, <1>4 DEF FilesInOrder
<1>6. ~Overrun(wal) => mt' = wal_replay(wal)
  BY <1>1 DEF Replays
<1>n. ~nolog
  BY <1>1 DEF FaultInv, LogIsMem
<1>7. LogIsMem'
  BY <1>1, <1>6, <1>n DEF FaultInv, LogIsMem
<1>8. ASSUME LiveOnDisk, ~Overrun(wal), lost' = {} PROVE LiveInMemory'
  <2>1. ASSUME NEW k \in Keys, acked[k] # None PROVE AfterOp(k)' = acked[k]
    <3>1. InTables(k)' = Search(data', tables', k)
      BY DEF InTables, TableHits, Search, Hits
    <3>2. PICK s : s \in Seq(Ids) /\ s = tables' /\ Sorted(s) /\ Members(s) = ondisk
      BY <1>2
    <3>3. Search(data, s, k) = Newest(data, Members(s), k)
      BY <3>2, SearchIsNewest
    <3>4. InTables(k)' = Newest(data, ondisk, k)
      BY <1>1, <3>1, <3>2, <3>3
    <3>5. Stored(k) = acked[k]
      BY <1>8, <2>1 DEF LiveOnDisk
    <3>6. QED BY <1>1, <1>6, <1>8, <3>4, <3>5, AfterOpNext DEF Stored
  <2>2. QED BY <1>1, <2>1 DEF LiveInMemory
<1>9. QED BY <1>1, <1>5, <1>7, <1>8, DiskFrame DEF Kept, FaultInv, LiveValues, Whole

LEMMA LogKeeps ==
    ASSUME FaultInv, TypeOK', NEW k \in Keys, NEW e \in Vals \cup {Tomb}, Log(k, e)
    PROVE  Kept
<1> DEFINE r == [key |-> k, val |-> e, tear |-> FALSE]
<1>0. TypeOK /\ tables \in Seq(Ids) /\ nextId \in Nat /\ wal \in Seq(Record) /\ mt \in Table
      /\ acked \in [Keys -> Vals \cup {None}]
  BY FaultFacts DEF TypeOK
<1>1. /\ wal' = Append(wal, r) /\ mt' = [mt EXCEPT ![k] = e] /\ ondisk' = ondisk /\ data' = data
      /\ tables' = tables /\ nextId' = nextId /\ pc = "idle" /\ pc' \in {"idle", "flush"}
      /\ lost' = lost /\ nolog = FALSE /\ nolog' = FALSE
      /\ acked' = [acked EXCEPT ![k] = Visible(e)]
  BY <1>0 DEF Log, TypeOK
<1>2. e # None
  BY LsmAssumption
<1>3. FilesInOrder'
  <2>1. \A x \in Keys : mt[x] # None => mt'[x] # None
    BY <1>0, <1>1, <1>2 DEF Table
  <2>2. FilesInOrder
    BY DEF FaultInv
  <2>3. QED BY <1>1, <2>1, <2>2 DEF FilesInOrder
<1>4. \A i \in 1 .. Len(wal) : ~wal[i].tear => wal[i].val \in Vals \cup {Tomb}
  BY DEF FaultInv, LogIsMem
<1>5. \A i \in 1 .. Len(wal') : ~wal'[i].tear => wal'[i].val \in Vals \cup {Tomb}
  <2>1. Len(wal') = Len(wal) + 1 /\ wal'[Len(wal) + 1] = r /\ \A i \in 1 .. Len(wal) : wal'[i] = wal[i]
    BY <1>0, <1>1
  <2>2. r.val \in Vals \cup {Tomb}
    OBVIOUS
  <2>3. Len(wal) \in Nat /\ \A i \in 1 .. Len(wal') : i \in 1 .. Len(wal) \/ i = Len(wal) + 1
    BY <1>0, <2>1
  <2> HIDE DEF r
  <2>4. QED BY <1>4, <2>1, <2>2, <2>3
<1>6. ASSUME ~Overrun(wal')
      PROVE  mt = wal_replay(wal) /\ mt' = wal_replay(wal')
  <2>1. CleanLog(wal) /\ ~Overrun(wal)
    BY <1>0, <1>1, <1>4, <1>6, NotBehindTorn
  <2>2. mt = wal_replay(wal)
    BY <1>1, <2>1 DEF FaultInv, LogIsMem
  <2>3. wal_replay(wal') = [wal_replay(wal) EXCEPT ![k] = e]
    BY <1>1, <2>1, ReplayAppend
  <2>4. QED BY <1>1, <2>2, <2>3
<1>7. LogIsMem'
  BY <1>1, <1>5, <1>6 DEF LogIsMem
<1>8. ASSUME LiveValues, ~Overrun(wal'), lost = {} PROVE LiveValues'
  <2>1. LiveOnDisk /\ LiveInMemory
    BY <1>1, <1>8 DEF LiveValues
  <2>2. ASSUME NEW x \in Keys, acked'[x] # None
        PROVE  Stored(x)' = acked'[x] /\ AfterOp(x)' = acked'[x]
    <3>1. Sorted(tables)
      BY <1>1 DEF FaultInv, FilesInOrder
    <3>2. InTables(x)' = InTables(x)
      BY <1>0, <1>1, <3>1, InTablesSame
    <3>l. lost = {} /\ lost' = {}
      BY <1>1, <1>8
    <3>3. pc # "remove" /\ pc' # "remove"
      BY <1>1
    <3>4. CASE x = k
      <4>1. mt'[x] = e /\ acked'[x] = Visible(e) /\ wal_replay(wal')[x] = e
        BY <1>0, <1>1, <1>6, <1>8, <3>4 DEF Table
      <4>2. Stored(x)' = Visible(e)
        BY <1>2, <4>1 DEF Stored
      <4>3. QED BY <1>2, <3>l, <4>1, <4>2, AfterOpNext
    <3>5. CASE x # k
      <4>1. mt'[x] = mt[x] /\ acked'[x] = acked[x] /\ wal_replay(wal')[x] = wal_replay(wal)[x]
        BY <1>0, <1>1, <1>6, <1>8, <3>5 DEF Table
      <4>2. Stored(x) = acked[x] /\ AfterOp(x) = acked[x]
        BY <2>1, <2>2, <4>1 DEF LiveOnDisk, LiveInMemory
      <4>3. Stored(x)' = Stored(x)
        BY <1>1, <4>1 DEF Stored
      <4>4. AfterOp(x)' = AfterOp(x)
        BY <3>l, <3>2, <3>3, <4>1, AfterOpIs, AfterOpNext
      <4>5. QED BY <4>1, <4>2, <4>3, <4>4
    <3>6. QED BY <3>4, <3>5
  <2>3. QED BY <2>2 DEF LiveValues, LiveOnDisk, LiveInMemory
<1>9. QED BY <1>1, <1>3, <1>7, <1>8 DEF Kept, FaultInv, Whole

LEMMA RequestKeeps ==
    ASSUME FaultInv, TypeOK', kv_flush \/ kv_compact
    PROVE  Kept
<1>1. /\ wal' = wal /\ mt' = mt /\ ondisk' = ondisk /\ data' = data /\ acked' = acked
      /\ tables' = tables /\ nextId' = nextId /\ pc = "idle" /\ pc' \in {"flush", "compact"}
      /\ lost' = lost /\ nolog' = nolog /\ (pc' = "flush" => mt # Empty)
  BY DEF kv_flush, kv_compact, dir, memory
<1>2. pc' = "compact" => tables # <<>>
  BY DEF kv_flush, kv_compact
<1>3. FilesInOrder'
  BY <1>1, <1>2 DEF FaultInv, FilesInOrder
<1>4. LogIsMem'
  BY <1>1 DEF FaultInv, LogIsMem
<1>5. LiveInMemory /\ lost = {} => LiveInMemory'
  BY <1>1, MemoryFrame
<1>6. QED BY <1>1, <1>3, <1>4, <1>5, DiskFrame DEF Kept, FaultInv, LiveValues, Whole

LEMMA FlushKeeps ==
    ASSUME FaultInv, TypeOK', sstable_flush
    PROVE  Kept
<1>0. TypeOK /\ ondisk \in SUBSET Nat /\ nextId \in Nat /\ tables \in Seq(Ids) /\ ondisk \in SUBSET Ids
      /\ Members(tables) \in SUBSET Nat /\ Members(tables) \in SUBSET Ids
  BY FaultFacts
<1>1. /\ wal' = wal /\ acked' = acked /\ pc = "flush" /\ pc' = "truncate" /\ mt' = Empty
      /\ tables' = Append(tables, nextId) /\ nextId' = nextId + 1 /\ nextId < MaxId
      /\ ondisk' = ondisk \cup {nextId} /\ data' = [data EXCEPT ![nextId] = mt]
      /\ lost' = lost /\ nolog' = nolog
  BY DEF sstable_flush, WriteFile
<1>n. ~nolog
  BY <1>1 DEF FaultInv, LogIsMem
<1>2. nextId \in Ids
  BY <1>0, <1>1, LsmAssumption DEF Ids
<1>3. /\ Sorted(tables) /\ \A i \in Members(tables) : i < nextId
      /\ \A i \in ondisk : i <= nextId
  BY <1>1 DEF FaultInv, FilesInOrder
<1>4. data'[nextId] = mt /\ \A x \in Ids : x # nextId => data'[x] = data[x]
  BY <1>0, <1>1, <1>2 DEF TypeOK
<1>5. FilesInOrder'
  <2>1. Sorted(tables') /\ Members(tables') = Members(tables) \cup {nextId}
    BY <1>0, <1>1, <1>2, <1>3, SortedAppend
  <2>2. \A i \in Members(tables') : i < nextId'
    BY <1>0, <1>1, <1>3, <2>1
  <2>3. \A i \in ondisk' : i < nextId' /\ i <= nextId'
    BY <1>0, <1>1, <1>3
  <2>4. nextId' \notin ondisk'
    BY <1>0, <1>1, <2>3
  <2>5. QED BY <1>1, <2>1, <2>2, <2>3, <2>4 DEF FilesInOrder
<1>6. ASSUME ~Overrun(wal), NEW k \in Keys, wal_replay(wal)[k] # None
      PROVE  Newest(data', ondisk', k) = wal_replay(wal)[k]
  <2>1. mt = wal_replay(wal)
    BY <1>1, <1>6, <1>n DEF FaultInv, LogIsMem
  <2>2. PICK d, S, m : d = data' /\ S = ondisk' /\ m = nextId
    OBVIOUS
  <2>3. S \in SUBSET Nat /\ m \in S /\ d[m][k] = wal_replay(wal)[k] /\ \A x \in S : x <= m
    BY <1>0, <1>1, <1>3, <1>4, <2>1, <2>2
  <2>4. Newest(d, S, k) = d[m][k]
    BY <1>6, <2>3, NewestIs
  <2>5. QED BY <2>2, <2>3, <2>4
<1>7. LogIsMem'
  BY <1>1, <1>6, <1>n DEF FaultInv, LogIsMem
<1>8. ASSUME LiveValues, ~Overrun(wal), lost = {} PROVE LiveValues'
  <2>1. LiveOnDisk /\ LiveInMemory
    BY <1>1, <1>8 DEF LiveValues
  <2>2. LiveOnDisk'
    BY <1>1, <1>2, <1>8, <2>1, WriteKeepsDisk
  <2>3. ASSUME NEW k \in Keys, acked[k] # None PROVE AfterOp(k)' = acked[k]
    <3>1. \A x \in Members(tables) : x < nextId /\ data'[x] = data[x]
      <4>1. \A x \in Members(tables) : x < nextId /\ x # nextId /\ x \in Ids
        BY <1>0, <1>3
      <4>2. QED BY <1>4, <4>1
    <3>2. InTables(k)' = IF data'[nextId][k] # None THEN data'[nextId][k] ELSE InTables(k)
      BY <1>0, <1>1, <1>2, <1>3, <3>1, InTablesAppend
    <3>3. mt'[k] = None /\ pc # "remove" /\ pc' # "remove"
      BY <1>1 DEF Empty
    <3>4. AfterOp(k)' = Visible(InTables(k)')
      BY <1>1, <1>8, <3>3, AfterOpNext
    <3>5. AfterOp(k) = Visible(IF mt[k] # None THEN mt[k] ELSE InTables(k))
      BY <1>8, <3>3, AfterOpIs
    <3>6. AfterOp(k) = acked[k]
      BY <2>1, <2>3 DEF LiveInMemory
    <3>7. QED BY <1>4, <3>2, <3>4, <3>5, <3>6
  <2>4. QED BY <1>1, <2>2, <2>3 DEF LiveValues, LiveInMemory
<1>9. QED BY <1>1, <1>5, <1>7, <1>8 DEF Kept, FaultInv, Whole

\* Also one that fails, with the log emptied or as it was.
LEMMA TruncateKeeps ==
    ASSUME FaultInv, TypeOK', wal_truncate \/ TruncateError
    PROVE  Kept
<1>1. /\ wal' \in {wal, <<>>} /\ mt' = mt /\ ondisk' = ondisk /\ data' = data /\ acked' = acked
      /\ tables' = tables /\ nextId' = nextId /\ pc = "truncate" /\ pc' \in {"idle", "compact"}
      /\ lost' = lost /\ (nolog' \/ wal' = <<>>)
  BY DEF wal_truncate, TruncateError, memory
<1>2. pc' = "compact" => tables # <<>>
  <2>1. pc' = "compact" => Len(tables) >= 2
    <3>1. CompactThreshold \in Nat /\ CompactThreshold >= 2
      BY LsmAssumption
    <3>2. Len(tables) \in Nat
      BY FaultFacts
    <3>3. pc' = "compact" => Len(tables) >= CompactThreshold
      BY DEF wal_truncate, TruncateError
    <3>4. QED BY <3>1, <3>2, <3>3
  <2>2. QED BY <2>1
<1>3. FilesInOrder'
  BY <1>1, <1>2 DEF FaultInv, FilesInOrder
<1>4. mt = Empty /\ (wal' = <<>> => wal_replay(wal') = Empty)
  BY <1>1, ReplayEmpty DEF FaultInv, LogIsMem
<1>5. LogIsMem'
  <2>1. \A i \in 1 .. Len(wal') : ~wal'[i].tear => wal'[i].val \in Vals \cup {Tomb}
    <3>1. CASE wal' = wal
      BY <3>1 DEF FaultInv, LogIsMem
    <3>2. CASE wal' = <<>>
      BY <3>2
    <3>3. QED BY <1>1, <3>1, <3>2
  <2>2. mt' = wal_replay(wal') \/ nolog'
    BY <1>1, <1>4
  <2>3. QED BY <1>1, <1>4, <2>1, <2>2 DEF LogIsMem
<1>6. ASSUME LiveOnDisk, ~Overrun(wal), lost = {} PROVE LiveOnDisk'
  <2>0. CASE wal' = wal
    BY <1>1, <1>6, <2>0, DiskFrame
  <2>1. ASSUME wal' = <<>>, NEW k \in Keys, acked[k] # None PROVE Stored(k)' = acked[k]
    <3>1. wal_replay(wal')[k] = None
      BY <1>4, <2>1 DEF Empty
    <3>2. Stored(k)' = Visible(Newest(data, ondisk, k))
      BY <1>1, <3>1 DEF Stored
    <3>3. wal_replay(wal)[k] # None => Newest(data, ondisk, k) = wal_replay(wal)[k]
      BY <1>1, <1>6 DEF FaultInv, LogIsMem
    <3>4. Stored(k) = Visible(Newest(data, ondisk, k))
      BY <3>3 DEF Stored
    <3>5. QED BY <1>6, <2>1, <3>2, <3>4 DEF LiveOnDisk
  <2>2. QED BY <1>1, <2>0, <2>1 DEF LiveOnDisk
<1>7. LiveInMemory /\ lost = {} => LiveInMemory'
  BY <1>1, MemoryFrame
<1>8. QED BY <1>1, <1>3, <1>5, <1>6, <1>7 DEF Kept, FaultInv, LiveValues, Whole

\* The merge holds the value of each key that the memtable does not have.
LEMMA MergedLive ==
    ASSUME FaultInv, pc = "compact", LiveInMemory, lost = {}, NEW k \in Keys, acked[k] # None, mt[k] = None
    PROVE  Merged[k] = acked[k]
<1>1. AfterOp(k) = acked[k]
  BY DEF LiveInMemory
<1>2. AfterOp(k) = Visible(InTables(k))
  BY AfterOpIs
<1>3. QED BY <1>1, <1>2 DEF Merged

LEMMA CompactKeeps ==
    ASSUME FaultInv, TypeOK', sstable_compact
    PROVE  Kept
<1>0. TypeOK /\ ondisk \in SUBSET Nat /\ nextId \in Nat /\ tables \in Seq(Ids) /\ ondisk \in SUBSET Ids
      /\ Members(tables) \in SUBSET Nat /\ Members(tables) \in SUBSET Ids
      /\ \A k \in Keys : acked[k] # None => acked[k] \in Vals /\ Visible(acked[k]) = acked[k]
  BY FaultFacts
<1>1. /\ wal' = wal /\ acked' = acked /\ pc = "compact" /\ pc' = "remove" /\ mt' = mt
      /\ tables' = tables /\ nextId' = nextId + 1 /\ nextId < MaxId
      /\ ondisk' = ondisk \cup {nextId} /\ data' = [data EXCEPT ![nextId] = Merged]
      /\ lost' = lost /\ nolog' = nolog
  BY DEF sstable_compact, WriteFile
<1>2. nextId \in Ids /\ nextId' - 1 = nextId
  BY <1>0, <1>1, LsmAssumption DEF Ids
<1>3. /\ Sorted(tables) /\ \A i \in Members(tables) : i < nextId
      /\ \A i \in ondisk : i <= nextId
  BY <1>1 DEF FaultInv, FilesInOrder
<1>4. data'[nextId] = Merged
  BY <1>0, <1>1, <1>2 DEF TypeOK
<1>5. FilesInOrder'
  <2>1. \A i \in Members(tables) : i < nextId' /\ i < nextId' - 1
    BY <1>0, <1>1, <1>2, <1>3
  <2>2. nextId' - 1 \in ondisk' /\ tables' # <<>>
    BY <1>1, <1>2 DEF FaultInv, FilesInOrder
  <2>3. \A i \in ondisk' : i < nextId' /\ i <= nextId'
    BY <1>0, <1>1, <1>3
  <2>4. nextId' \notin ondisk'
    BY <1>0, <1>1, <2>3
  <2>5. Sorted(tables') /\ Members(tables') = Members(tables)
    BY <1>1, <1>3
  <2>6. QED BY <1>1, <2>1, <2>2, <2>3, <2>4, <2>5 DEF FilesInOrder
<1>6. LogIsMem'
  BY <1>1 DEF FaultInv, LogIsMem
<1>7. ASSUME LiveValues, ~Overrun(wal), lost = {} PROVE LiveValues'
  <2>1. LiveOnDisk /\ LiveInMemory
    BY <1>1, <1>7 DEF LiveValues
  <2>2. \A k \in Keys : acked[k] # None /\ mt[k] = None => Merged[k] \in {None, acked[k]}
    BY <1>1, <1>7, <2>1, MergedLive
  <2>3. LiveOnDisk'
    BY <1>1, <1>2, <1>7, <2>1, <2>2, WriteKeepsDisk
  <2>4. ASSUME NEW k \in Keys, acked[k] # None PROVE AfterOp(k)' = acked[k]
    <3>1. AfterOp(k) = acked[k]
      BY <2>1, <2>4 DEF LiveInMemory
    <3>2. CASE mt[k] # None
      BY <1>1, <1>7, <3>1, <3>2, AfterOpIs, AfterOpNext
    <3>3. CASE mt[k] = None
      <4>1. AfterOp(k)' = Visible(data'[nextId' - 1][k])
        BY <1>1, <1>7, <3>3, AfterOpNext
      <4>2. data'[nextId' - 1][k] = Merged[k]
        BY <1>2, <1>4
      <4>3. Merged[k] = acked[k]
        BY <1>1, <1>7, <2>1, <2>4, <3>3, MergedLive
      <4>4. QED BY <1>0, <2>4, <4>1, <4>2, <4>3
    <3>4. QED BY <3>2, <3>3
  <2>5. QED BY <1>1, <2>3, <2>4 DEF LiveValues, LiveInMemory
<1>8. QED BY <1>1, <1>5, <1>6, <1>7 DEF Kept, FaultInv, Whole

\* Also a removal that fails, which leaves the file where it is.
LEMMA RemoveKeeps ==
    ASSUME FaultInv, TypeOK', RemoveOld \/ RemoveError
    PROVE  Kept
<1> DEFINE h == Head(tables)
           m == nextId - 1
<1>0. TypeOK /\ ondisk \in SUBSET Nat /\ nextId \in Nat /\ tables \in Seq(Ids) /\ ondisk \in SUBSET Ids
      /\ Members(tables) \in SUBSET Nat /\ Members(tables) \in SUBSET Ids
  BY FaultFacts
<1>1. /\ wal' = wal /\ acked' = acked /\ pc = "remove" /\ mt' = mt /\ nextId' = nextId
      /\ ondisk' \in {ondisk, ondisk \ {h}} /\ data' \in {data, [data EXCEPT ![h] = Empty]}
      /\ tables' = (IF Len(tables) > 1 THEN Tail(tables) ELSE <<m>>)
      /\ pc' = (IF Len(tables) > 1 THEN "remove" ELSE "idle")
      /\ nolog' = nolog
  BY DEF RemoveOld, RemoveError, Forget
<1>2. /\ Sorted(tables) /\ tables # <<>> /\ m \in ondisk /\ nextId \notin ondisk
      /\ \A i \in Members(tables) : i < m
      /\ \A i \in ondisk : i <= nextId
  BY <1>1 DEF FaultInv, FilesInOrder
<1>3. h \in Members(tables) /\ Sorted(Tail(tables)) /\ Members(Tail(tables)) = Members(tables) \ {h}
      /\ Len(Tail(tables)) = Len(tables) - 1
  BY <1>0, <1>2, SortedTail
<1>4. m \in Nat /\ m < nextId /\ m # h /\ m \in Ids /\ h \in Ids /\ \A i \in ondisk : i <= m
  BY <1>0, <1>2, <1>3
<1>5. data'[m] = data[m] /\ m \in ondisk'
  BY <1>0, <1>1, <1>2, <1>4 DEF TypeOK
<1> HIDE DEF h, m
<1>6. ASSUME Len(tables) > 1 PROVE FaultInv'
  <2>1. tables' = Tail(tables) /\ pc' = "remove"
    BY <1>1, <1>6
  <2>2. FilesInOrder'
    <3>1. Sorted(tables') /\ \A i \in Members(tables') : i < m /\ i < nextId
      BY <1>0, <1>2, <1>3, <1>4, <2>1
    <3>2. tables' # <<>>
      <4>1. Len(tables) \in Nat /\ Len(Tail(tables)) > 0
        BY <1>0, <1>3, <1>6
      <4>2. Len(tables') > 0
        BY <2>1, <4>1
      <4>3. QED BY <4>2
    <3>3. nextId' \notin ondisk' /\ \A i \in ondisk' : i <= nextId'
      BY <1>1, <1>2
    <3>4. nextId' - 1 \in ondisk' /\ \A i \in Members(tables') : i < nextId' - 1
      BY <1>1, <1>5, <3>1 DEF m
    <3>5. QED BY <1>1, <2>1, <3>1, <3>2, <3>3, <3>4 DEF FilesInOrder
  <2>3. LogIsMem'
    BY <1>1, <2>1 DEF FaultInv, LogIsMem
  <2>4. QED BY <2>2, <2>3 DEF FaultInv
<1>7. ASSUME ~(Len(tables) > 1) PROVE FaultInv'
  <2>1. tables' = <<m>> /\ pc' = "idle"
    BY <1>1, <1>7
  <2>2. Sorted(<<m>>) /\ Members(<<m>>) = {m}
    <3>1. Len(<<m>>) = 1 /\ <<m>>[1] = m
      OBVIOUS
    <3>2. 1 .. Len(<<m>>) = {1}
      BY <3>1
    <3>3. QED BY <3>1, <3>2 DEF Sorted, Members
  <2>3. FilesInOrder'
    <3>1. Sorted(tables') /\ \A i \in Members(tables') : i < nextId'
      BY <1>1, <1>4, <2>1, <2>2
    <3>2. nextId' \notin ondisk' /\ \A i \in ondisk' : i <= nextId'
      BY <1>1, <1>2
    <3>3. QED BY <2>1, <3>1, <3>2 DEF FilesInOrder
  <2>4. LogIsMem'
    BY <1>1, <2>1 DEF FaultInv, LogIsMem
  <2>5. QED BY <2>3, <2>4 DEF FaultInv
<1>8. FaultInv'
  BY <1>6, <1>7
<1>9. ASSUME LiveValues, ~Overrun(wal), lost = {}, lost' = {} PROVE LiveValues'
  <2>1. LiveOnDisk /\ LiveInMemory /\ \A k \in Keys : mt[k] # None => wal_replay(wal)[k] = mt[k]
    BY <1>1, <1>9 DEF FaultInv, LogIsMem, LiveValues, Empty
  <2>2. ASSUME NEW k \in Keys, acked[k] # None, mt[k] = None
        PROVE  data[m][k] = acked[k]
    <3>1. AfterOp(k) = acked[k] /\ acked[k] \in Vals
      BY <2>1, <2>2, FaultFacts DEF LiveInMemory
    <3>2. AfterOp(k) = Visible(data[m][k])
      BY <1>1, <1>9, <2>2, AfterOpIs DEF m
    <3>3. QED BY <3>1, <3>2, VisibleValue
  <2>3. ASSUME NEW k \in Keys, acked[k] # None PROVE Stored(k)' = acked[k] /\ AfterOp(k)' = acked[k]
    <3>1. Stored(k) = acked[k] /\ AfterOp(k) = acked[k] /\ Visible(acked[k]) = acked[k]
      BY <2>1, <2>3, FaultFacts DEF LiveOnDisk, LiveInMemory
    <3>2. CASE mt[k] # None
      <4>1. Stored(k)' = Visible(wal_replay(wal)[k]) /\ Stored(k) = Visible(wal_replay(wal)[k])
        BY <1>1, <2>1, <3>2 DEF Stored
      <4>2. AfterOp(k)' = Visible(mt[k]) /\ AfterOp(k) = Visible(mt[k])
        BY <1>1, <1>9, <3>2, AfterOpIs, AfterOpNext
      <4>3. QED BY <3>1, <4>1, <4>2
    <3>3. CASE mt[k] = None
      <4>1. data'[m][k] = acked[k]
        BY <1>5, <2>2, <2>3, <3>3
      <4>2. PICK e, S : e = data' /\ S = ondisk'
        OBVIOUS
      <4>3. S \in SUBSET Nat /\ m \in S /\ (\A x \in S : x <= m) /\ e[m][k] = acked[k]
        BY <1>0, <1>1, <1>4, <1>5, <4>1, <4>2
      <4>4. Newest(e, S, k) = e[m][k]
        BY <2>3, <4>3, NewestIs
      <4>5. Stored(k)' = acked[k]
        <5>1. CASE wal_replay(wal)[k] = None
          <6>1. Stored(k)' = Visible(Newest(e, S, k))
            BY <1>1, <4>2, <5>1 DEF Stored
          <6>2. QED BY <3>1, <4>3, <4>4, <6>1
        <5>2. CASE wal_replay(wal)[k] # None
          BY <1>1, <3>1, <5>2 DEF Stored
        <5>3. QED BY <5>1, <5>2
      <4>6. AfterOp(k)' = acked[k]
        <5>1. CASE Len(tables) > 1
          <6>1. AfterOp(k)' = Visible(data'[m][k])
            BY <1>1, <1>9, <3>3, <5>1, AfterOpNext DEF m
          <6>2. QED BY <3>1, <4>1, <6>1
        <5>2. CASE ~(Len(tables) > 1)
          <6>1. PICK s : s = tables' /\ s = <<m>>
            BY <1>1, <5>2
          <6>2. Len(s) = 1 /\ s[1] = m /\ 1 .. Len(s) = {1}
            BY <6>1
          <6>3. Hits(e, s, k) = {1}
            BY <2>3, <4>3, <6>2 DEF Hits
          <6>4. Latest({1}) = 1
            BY LatestIs
          <6>5. Search(e, s, k) = acked[k]
            BY <4>3, <6>2, <6>3, <6>4 DEF Search
          <6>6. InTables(k)' = Search(data', tables', k)
            BY DEF InTables, TableHits, Search, Hits
          <6>7. AfterOp(k)' = Visible(InTables(k)')
            BY <1>1, <1>9, <3>3, <5>2, AfterOpNext
          <6>8. QED BY <3>1, <4>2, <6>1, <6>5, <6>6, <6>7
        <5>3. QED BY <5>1, <5>2
      <4>7. QED BY <4>5, <4>6
    <3>4. QED BY <3>2, <3>3
  <2>4. QED BY <1>1, <2>3 DEF LiveValues, LiveOnDisk, LiveInMemory
<1>10. QED BY <1>1, <1>8, <1>9 DEF Kept, Whole

LEMMA CrashKeeps ==
    ASSUME FaultInv, TypeOK', Crash
    PROVE  Kept
<1>1. wal' = wal /\ ondisk' = ondisk /\ data' = data /\ acked' = acked /\ pc' = "down" /\ nolog' = FALSE
  BY DEF Crash, Stop, dir
<1>2. FilesInOrder' /\ LogIsMem'
  BY <1>1 DEF FaultInv, FilesInOrder, LogIsMem
<1>3. QED BY <1>1, <1>2, DiskFrame DEF Kept, FaultInv, LiveValues, Whole

\* A torn record at the end of the log, with the process dead or going on.
LEMMA TornLogKeeps ==
    ASSUME FaultInv, TypeOK', NEW k \in Keys, CrashInLog(k) \/ LogError(k)
    PROVE  Kept
<1> DEFINE r == [key |-> k, val |-> None, tear |-> TRUE]
<1>1. wal' = Append(wal, r) /\ ondisk' = ondisk /\ data' = data /\ acked' = acked
      /\ pc = "idle" /\ nolog = FALSE /\ nolog' = FALSE /\ pc' \in {"idle", "down"}
  BY FaultFacts DEF CrashInLog, LogError, PartRecord, Stop, memory, TypeOK
<1>2. wal \in Seq(Record) /\ r \in Record /\ r.tear
  BY FaultFacts DEF TypeOK, Record, Entry
<1>3. \A i \in 1 .. Len(wal') : ~wal'[i].tear => wal'[i].val \in Vals \cup {Tomb}
  <2>1. \A i \in 1 .. Len(wal) : ~wal[i].tear => wal[i].val \in Vals \cup {Tomb}
    BY DEF FaultInv, LogIsMem
  <2>2. Len(wal') = Len(wal) + 1 /\ wal'[Len(wal) + 1] = r /\ \A i \in 1 .. Len(wal) : wal'[i] = wal[i]
    BY <1>1, <1>2
  <2>3. Len(wal) \in Nat /\ \A i \in 1 .. Len(wal') : i \in 1 .. Len(wal) \/ i = Len(wal) + 1
    BY <1>2, <2>2
  <2> HIDE DEF r
  <2>4. QED BY <1>2, <2>1, <2>2, <2>3
<1>4. wal_replay(wal') = wal_replay(wal)
  <2> HIDE DEF r
  <2>1. QED BY <1>1, <1>2, ReplayTorn
<1>5. LiveOnDisk => LiveOnDisk'
  BY <1>1, <1>4 DEF LiveOnDisk, Stored
<1>6. CASE CrashInLog(k)
  <2>1. pc' = "down"
    BY <1>6 DEF CrashInLog, Stop
  <2>2. FilesInOrder' /\ LogIsMem'
    BY <1>1, <1>3, <2>1 DEF FilesInOrder, LogIsMem
  <2>3. QED BY <1>5, <2>1, <2>2 DEF Kept, FaultInv, LiveValues
<1>7. CASE LogError(k)
  <2>1. pc' = "idle" /\ mt' = mt /\ tables' = tables /\ nextId' = nextId /\ lost' = lost
    BY <1>1, <1>7 DEF LogError, memory
  <2>2. FilesInOrder'
    BY <1>1, <2>1 DEF FaultInv, FilesInOrder
  <2>3. ~Overrun(wal') => ~Overrun(wal)
    <3>1. \A i \in 1 .. Len(wal) : ~wal[i].tear => wal[i].val \in Vals \cup {Tomb}
      BY DEF FaultInv, LogIsMem
    <3> HIDE DEF r
    <3>2. QED BY <1>1, <1>2, <3>1, NotBehindTorn
  <2>4. LogIsMem'
    <3>1. ~Overrun(wal') => mt' = wal_replay(wal')
      BY <1>1, <1>4, <2>1, <2>3 DEF FaultInv, LogIsMem
    <3>2. QED BY <1>1, <1>3, <2>1, <3>1 DEF LogIsMem
  <2>5. LiveInMemory /\ lost = {} => LiveInMemory'
    BY <1>1, <2>1, MemoryFrame
  <2>6. QED BY <1>1, <1>5, <2>1, <2>2, <2>4, <2>5 DEF Kept, FaultInv, LiveValues, Whole
<1>8. QED BY <1>6, <1>7

\* What a write at next_sstable_id that does not come to its end leaves: the
\* file holds records of m only.
LEMMA PartKeeps ==
    ASSUME FaultInv, nextId < MaxId, NEW m \in Table, FailedFile(nextId, m),
           wal' = wal, acked' = acked, pc \in {"flush", "compact"}
    PROVE  /\ \A x \in Members(tables) : data'[x] = data[x]
           /\ \A i \in ondisk' : i <= nextId
           /\ \A k \in Keys : nextId \in ondisk' /\ data'[nextId][k] # None => mt[k] # None \/ m[k] # None
           /\ LiveOnDisk /\ ~Overrun(wal)
              /\ (\A k \in Keys : acked[k] # None /\ mt[k] = None => m[k] \in {None, acked[k]})
              => LiveOnDisk'
<1>0. TypeOK /\ ondisk \in SUBSET Nat /\ nextId \in Nat /\ Members(tables) \in SUBSET Ids
      /\ Members(tables) \in SUBSET Nat
  BY FaultFacts
<1>1. nextId \in Ids
  BY <1>0, LsmAssumption DEF Ids
<1>2. /\ \A i \in Members(tables) : i < nextId
      /\ \A i \in ondisk : i <= nextId
      /\ nextId \in ondisk => \A k \in Keys : data[nextId][k] # None => mt[k] # None
  BY DEF FaultInv, FilesInOrder
<1>3. CASE UNCHANGED <<ondisk, data, torn>>
  BY <1>2, <1>3, DiskFrame
<1>4. CASE PartFile(nextId, m)
  <2>1. PICK c \in {k \in Keys : m[k] # None} :
           /\ ondisk' = ondisk \cup {nextId}
           /\ data' = [data EXCEPT ![nextId] = [k \in Keys |-> IF k < c THEN m[k] ELSE None]]
    BY <1>4 DEF PartFile
  <2>2. PICK f : f = [k \in Keys |-> IF k < c THEN m[k] ELSE None]
    OBVIOUS
  <2>3. \A k \in Keys : f[k] \in {None, m[k]}
    BY <2>2
  <2>4. data' = [data EXCEPT ![nextId] = f]
    BY <2>1, <2>2
  <2>5. data'[nextId] = f /\ \A x \in Ids : x # nextId => data'[x] = data[x]
    BY <1>0, <1>1, <2>4 DEF TypeOK
  <2>6. \A x \in Members(tables) : x \in Ids /\ x # nextId
    BY <1>0, <1>2
  <2>7. \A x \in Members(tables) : data'[x] = data[x]
    BY <2>5, <2>6
  <2>8. \A i \in ondisk' : i <= nextId
    BY <1>0, <1>2, <2>1
  <2>9. \A k \in Keys : data'[nextId][k] # None => m[k] # None
    BY <2>3, <2>5
  <2>10. ASSUME LiveOnDisk, ~Overrun(wal),
                \A k \in Keys : acked[k] # None /\ mt[k] = None => m[k] \in {None, acked[k]}
         PROVE  LiveOnDisk'
    <3>1. \A k \in Keys : acked[k] # None /\ mt[k] = None => f[k] \in {None, acked[k]}
      BY <2>3, <2>10
    <3>2. QED BY <1>1, <2>1, <2>4, <2>10, <3>1, WriteKeepsDisk
  <2>11. QED BY <2>7, <2>8, <2>9, <2>10
<1>5. QED BY <1>3, <1>4 DEF FailedFile

LEMMA FlushFaultKeeps ==
    ASSUME FaultInv, TypeOK', CrashInFlush \/ FlushError
    PROVE  Kept
<1>1. wal' = wal /\ acked' = acked /\ pc = "flush" /\ nextId < MaxId /\ FailedFile(nextId, mt)
  BY DEF CrashInFlush, FlushError, FailedFile
<1>n. ~nolog
  BY <1>1 DEF FaultInv, LogIsMem
<1>2. mt \in Table
  BY FaultFacts DEF TypeOK
<1>3. /\ \A x \in Members(tables) : data'[x] = data[x]
      /\ \A i \in ondisk' : i <= nextId
      /\ \A k \in Keys : nextId \in ondisk' /\ data'[nextId][k] # None => mt[k] # None
      /\ LiveOnDisk /\ ~Overrun(wal) => LiveOnDisk'
  BY <1>1, <1>2, PartKeeps
<1>4. CASE CrashInFlush
  <2>1. pc' = "down" /\ nolog' = FALSE
    BY <1>4 DEF CrashInFlush, Stop
  <2>2. FilesInOrder' /\ LogIsMem'
    BY <1>1, <2>1 DEF FaultInv, FilesInOrder, LogIsMem
  <2>3. QED BY <1>3, <2>1, <2>2 DEF Kept, FaultInv, LiveValues, Whole
<1>5. CASE FlushError
  <2>1. pc' = "idle" /\ mt' = mt /\ tables' = tables /\ nextId' = nextId /\ lost' = lost /\ nolog' = nolog
    BY <1>5 DEF FlushError, memory
  <2>2. FilesInOrder'
    <3>1. Sorted(tables) /\ \A i \in Members(tables) : i < nextId
      BY <1>1 DEF FaultInv, FilesInOrder
    <3>2. QED BY <1>3, <2>1, <3>1 DEF FilesInOrder
  <2>3. LogIsMem'
    BY <1>1, <1>n, <2>1 DEF FaultInv, LogIsMem
  <2>4. LiveInMemory /\ lost = {} => LiveInMemory'
    BY <1>1, <1>3, <2>1, MemoryFrame
  <2>5. QED BY <1>1, <1>3, <2>1, <2>2, <2>3, <2>4 DEF Kept, FaultInv, LiveValues, Whole
<1>6. QED BY <1>4, <1>5

LEMMA CompactFaultKeeps ==
    ASSUME FaultInv, TypeOK', CrashInCompact \/ CompactError
    PROVE  Kept
<1>0. TypeOK /\ Merged \in Table /\ nextId \in Nat /\ ondisk' \subseteq Nat /\ Members(tables) \in SUBSET Nat
  BY FaultFacts, IdsAreNat DEF TypeOK
<1>1. wal' = wal /\ acked' = acked /\ pc = "compact" /\ nextId < MaxId /\ FailedFile(nextId, Merged)
  BY DEF CrashInCompact, CompactError, FailedFile
<1>2. \A k \in Keys : LiveInMemory /\ lost = {} /\ acked[k] # None /\ mt[k] = None => Merged[k] \in {None, acked[k]}
  BY <1>1, MergedLive
<1>3. /\ \A x \in Members(tables) : data'[x] = data[x]
      /\ \A i \in ondisk' : i <= nextId
      /\ LiveOnDisk /\ LiveInMemory /\ ~Overrun(wal) /\ lost = {} => LiveOnDisk'
  BY <1>0, <1>1, <1>2, PartKeeps
<1>4. CASE CrashInCompact
  <2>1. pc' = "down" /\ nolog' = FALSE
    BY <1>4 DEF CrashInCompact, Stop
  <2>2. FilesInOrder' /\ LogIsMem'
    BY <1>1, <2>1 DEF FaultInv, FilesInOrder, LogIsMem
  <2>3. QED BY <1>1, <1>3, <2>1, <2>2 DEF Kept, FaultInv, LiveValues, Whole
<1>5. CASE CompactError
  <2>1. pc' = "idle" /\ mt' = mt /\ tables' = tables /\ nextId' = nextId + 1 /\ lost' = lost /\ nolog' = nolog
    BY <1>5 DEF CompactError
  <2>2. FilesInOrder'
    <3>1. Sorted(tables) /\ \A i \in Members(tables) : i < nextId
      BY <1>1 DEF FaultInv, FilesInOrder
    <3>2. \A i \in Members(tables') : i < nextId'
      BY <1>0, <2>1, <3>1
    <3>3. nextId' \notin ondisk' /\ \A i \in ondisk' : i <= nextId'
      BY <1>0, <1>3, <2>1
    <3>4. QED BY <2>1, <3>1, <3>2, <3>3 DEF FilesInOrder
  <2>3. LogIsMem'
    BY <1>1, <2>1 DEF FaultInv, LogIsMem
  <2>4. LiveInMemory /\ lost = {} => LiveInMemory'
    BY <1>1, <1>3, <2>1, MemoryFrame
  <2>5. QED BY <1>1, <1>3, <2>1, <2>2, <2>3, <2>4 DEF Kept, FaultInv, LiveValues, Whole
<1>6. QED BY <1>4, <1>5

\* A table that fclose cuts short: the record of one key is missing that the
\* index has.
LEMMA ShortLoses ==
    ASSUME FaultInv, nextId < MaxId, NEW m \in Table, ShortFile(nextId, m)
    PROVE  FailedFile(nextId, m) /\ lost' # {} /\ ondisk' = ondisk \cup {nextId}
<1>0. TypeOK /\ nextId \in Nat
  BY FaultFacts
<1>1. nextId \in Ids
  BY <1>0, LsmAssumption DEF Ids
<1>2. PICK c \in {k \in Keys : m[k] # None} :
         /\ ondisk' = ondisk \cup {nextId}
         /\ data' = [data EXCEPT ![nextId] = [k \in Keys |-> IF k < c THEN m[k] ELSE None]]
  BY DEF ShortFile, PartFile
<1>3. data'[nextId] = [k \in Keys |-> IF k < c THEN m[k] ELSE None]
  BY <1>0, <1>1, <1>2 DEF TypeOK
<1>4. c \in Keys /\ ~(c < c)
  <2>1. c \in Nat
    BY <1>2, LsmAssumption
  <2>2. QED BY <1>2, <2>1
<1>5. data'[nextId][c] = None
  BY <1>3, <1>4
<1>6. lost' # {}
  <2>1. c \in {x \in Keys : m[x] # None /\ data'[nextId][x] = None}
    BY <1>5
  <2>2. <<nextId, c>> \in {<<nextId, k>> : k \in {x \in Keys : m[x] # None /\ data'[nextId][x] = None}}
    BY <2>1
  <2>3. QED BY <2>2 DEF ShortFile
<1>7. QED BY <1>2, <1>6 DEF ShortFile, FailedFile

LEMMA FlushShortKeeps ==
    ASSUME FaultInv, TypeOK', FlushShort
    PROVE  Kept
<1>0. TypeOK /\ ondisk \in SUBSET Nat /\ nextId \in Nat /\ tables \in Seq(Ids) /\ mt \in Table
      /\ Members(tables) \in SUBSET Nat
  BY FaultFacts DEF TypeOK
<1>1. /\ wal' = wal /\ acked' = acked /\ pc = "flush" /\ pc' = "truncate" /\ mt' = Empty
      /\ tables' = Append(tables, nextId) /\ nextId' = nextId + 1 /\ nextId < MaxId
      /\ nolog' = nolog /\ ShortFile(nextId, mt)
  BY DEF FlushShort
<1>2. nextId \in Ids
  BY <1>0, <1>1, LsmAssumption DEF Ids
<1>3. lost' # {} /\ ondisk' = ondisk \cup {nextId}
  BY <1>0, <1>1, ShortLoses
<1>4. /\ Sorted(tables) /\ \A i \in Members(tables) : i < nextId
      /\ \A i \in ondisk : i <= nextId
  BY <1>1 DEF FaultInv, FilesInOrder
<1>5. FilesInOrder'
  <2>1. Sorted(tables') /\ Members(tables') = Members(tables) \cup {nextId}
    BY <1>0, <1>1, <1>2, <1>4, SortedAppend
  <2>2. \A i \in Members(tables') : i < nextId'
    BY <1>0, <1>1, <1>4, <2>1
  <2>3. \A i \in ondisk' : i < nextId' /\ i <= nextId'
    BY <1>0, <1>1, <1>3, <1>4
  <2>4. nextId' \notin ondisk'
    BY <1>0, <1>1, <2>3
  <2>5. QED BY <1>1, <2>1, <2>2, <2>3, <2>4 DEF FilesInOrder
<1>6. LogIsMem'
  BY <1>1, <1>3 DEF FaultInv, LogIsMem
<1>7. QED BY <1>3, <1>5, <1>6 DEF Kept, FaultInv, Whole

LEMMA CompactShortKeeps ==
    ASSUME FaultInv, TypeOK', CompactShort
    PROVE  Kept
<1>0. TypeOK /\ ondisk \in SUBSET Nat /\ nextId \in Nat /\ Merged \in Table
      /\ Members(tables) \in SUBSET Nat
  BY FaultFacts
<1>1. /\ wal' = wal /\ acked' = acked /\ pc = "compact" /\ pc' = "remove" /\ mt' = mt
      /\ tables' = tables /\ nextId' = nextId + 1 /\ nextId < MaxId
      /\ nolog' = nolog /\ ShortFile(nextId, Merged)
  BY DEF CompactShort
<1>2. nextId' - 1 = nextId
  BY <1>0, <1>1
<1>3. lost' # {} /\ ondisk' = ondisk \cup {nextId}
  BY <1>0, <1>1, ShortLoses
<1>4. /\ Sorted(tables) /\ \A i \in Members(tables) : i < nextId
      /\ \A i \in ondisk : i <= nextId
  BY <1>1 DEF FaultInv, FilesInOrder
<1>5. FilesInOrder'
  <2>1. \A i \in Members(tables) : i < nextId' /\ i < nextId' - 1
    BY <1>0, <1>1, <1>2, <1>4
  <2>2. nextId' - 1 \in ondisk' /\ tables' # <<>>
    BY <1>1, <1>2, <1>3 DEF FaultInv, FilesInOrder
  <2>3. \A i \in ondisk' : i < nextId' /\ i <= nextId'
    BY <1>0, <1>1, <1>3, <1>4
  <2>4. nextId' \notin ondisk'
    BY <1>0, <1>1, <2>3
  <2>5. Sorted(tables') /\ Members(tables') = Members(tables)
    BY <1>1, <1>4
  <2>6. QED BY <1>1, <2>1, <2>2, <2>3, <2>4, <2>5 DEF FilesInOrder
<1>6. LogIsMem'
  BY <1>1 DEF FaultInv, LogIsMem
<1>7. QED BY <1>3, <1>5, <1>6 DEF Kept, FaultInv, Whole

LEMMA FaultStep ==
    ASSUME FaultInv, [Next]_vars
    PROVE  Kept
<1>1. TypeOK'
  BY FaultFacts, TypeStep DEF TypeInv
<1>2. ASSUME NEW k \in Keys, NEW v \in Vals, kv_put(k, v) PROVE Kept
  BY <1>1, <1>2, LogKeeps DEF kv_put
<1>3. ASSUME NEW k \in Keys, kv_del(k) PROVE Kept
  BY <1>1, <1>3, LogKeeps DEF kv_del
<1>4. CASE UNCHANGED vars
  <2>1. /\ wal' = wal /\ ondisk' = ondisk /\ data' = data /\ acked' = acked /\ pc' = pc
        /\ mt' = mt /\ tables' = tables /\ nextId' = nextId /\ lost' = lost /\ nolog' = nolog
    BY <1>4 DEF vars
  <2>2. FilesInOrder' /\ LogIsMem'
    BY <2>1 DEF FaultInv, FilesInOrder, LogIsMem
  <2>3. LiveValues => LiveValues'
    BY <2>1 DEF LiveValues, LiveOnDisk, LiveInMemory, Stored, AfterOp, sstable_get, IndexHits, TableHits
  <2>4. QED BY <1>1, <2>2, <2>3 DEF Kept, FaultInv
<1>5. QED
  BY <1>1, <1>2, <1>3, <1>4, OpenKeeps, RequestKeeps, FlushKeeps, TruncateKeeps, CompactKeeps,
     RemoveKeeps, CrashKeeps, TornLogKeeps, FlushFaultKeeps, CompactFaultKeeps, FlushShortKeeps,
     CompactShortKeeps DEF Next

LEMMA FaultInit ==
    ASSUME Init
    PROVE  FaultInv
<1>1. TypeOK
  BY InitType
<1>2. FilesInOrder /\ LogIsMem
  BY DEF Init, FilesInOrder, LogIsMem
<1>3. QED BY <1>1, <1>2 DEF FaultInv

\* Whatever records are torn and whatever writes fail, the process reads its
\* tables in id order below next_sstable_id (store.c:52), an unknown file above
\* them holds only keys of the memtable, and the memtable is the replay of the
\* log until a record is appended behind a torn one (store.c:56) or the log
\* could not be opened again (store.c:92-95).
THEOREM FaultInvariant == Spec => []FaultInv
<1>1. FaultInv /\ [Next]_vars => FaultInv'
  BY FaultStep DEF Kept
<1>2. QED BY <1>1, FaultInit, PTL DEF Spec

\* Torn log records, torn tables and every error that write_sstable, wal_append,
\* wal_truncate and remove report or ignore cost no acknowledged value, on disk
\* or in the running process, except two: a record that kv_put or kv_del
\* appends behind a torn one (wal.c:48-50) and a table that fclose cuts short
\* (sstable.c:39).
THEOREM ValuesSurviveFaults == Spec => FaultsCostNoValue
<1>1. FaultInv /\ [Next]_vars => CostsNoValue
  BY FaultStep DEF Kept, CostsNoValue
<1>2. QED BY <1>1, FaultInvariant, PTL DEF Spec, FaultsCostNoValue

\* So in every state of a run without those two all acknowledged values are on
\* disk and in the running process, and a restart finds them unless kv_open
\* refuses a torn table (store.c:42-45).
THEOREM ValuesHold == Spec /\ []Whole => [](LiveValues /\ LiveReopened)
<1>1. Init => LiveValues
  BY DEF Init, LiveValues, LiveOnDisk, LiveInMemory, Empty
<1>2. FaultInv /\ LiveValues /\ Whole /\ Whole' /\ [Next]_vars => LiveValues'
  BY FaultStep DEF Kept
<1>3. LiveValues => LiveReopened
  BY DEF LiveValues, LiveOnDisk, LiveReopened, Contents
<1>4. QED BY <1>1, <1>2, <1>3, FaultInvariant, PTL DEF Spec
=============================================================================

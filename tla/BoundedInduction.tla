--------------------------- MODULE BoundedInduction ---------------------------
(***************************************************************************)
(* What the other proof modules need to reason about loops over a sequence. *)
(* Induction over an interval, for sets instead of predicates: every loop   *)
(* of the programs runs over something of bounded length, so an induction   *)
(* up to that length is enough.  From it, that loops have runs, and what    *)
(* joining, cutting, flattening and spelling out sequences gives.           *)
(***************************************************************************)
EXTENDS Integers, SequencesExt, FiniteSetsExt, WellFoundedInduction, SequenceTheorems, TLAPS

\* A nonempty set of naturals has a least element.
LEMMA LeastExists ==
    ASSUME NEW S \in SUBSET Nat, S # {}
    PROVE  \E m \in S : \A x \in S : m <= x
<1> DEFINE R == {ss \in Nat \X Nat : ss[1] < ss[2]}
<1>1. IsWellFoundedOn(R, Nat)
  BY NatLessThanWellFounded DEF OpToRel
<1>2. PICK m \in S : \A y \in S : ~(<<y, m>> \in R)
  <2> HIDE DEF R
  <2> QED BY <1>1, WFMin
<1>3. ASSUME NEW x \in S
      PROVE  m <= x
  <2>1. m \in Nat /\ x \in Nat
    OBVIOUS
  <2>2. x < m => <<x, m>> \in R
    BY <2>1
  <2>3. QED BY <2>1, <2>2, <1>2
<1>4. QED BY <1>3

\* A set that holds 0 and, with a number below L, also the next one, holds
\* every number up to L.
LEMMA UpTo ==
    ASSUME NEW L \in Nat, NEW S, 0 \in S,
           \A n \in 1 .. L : n - 1 \in S => n \in S
    PROVE  \A n \in 0 .. L : n \in S
<1> DEFINE Out == {n \in 0 .. L : n \notin S}
<1> SUFFICES ASSUME Out # {}
             PROVE  FALSE
  OBVIOUS
<1>1. PICK m \in Out : \A x \in Out : m <= x
  BY LeastExists, Out \in SUBSET Nat
<1>2. m \in 1 .. L /\ m - 1 \in 0 .. L /\ ~(m <= m - 1)
  OBVIOUS
<1>3. m - 1 \in S
  BY <1>1, <1>2
<1>4. QED BY <1>2, <1>3

\* A run of the loop of L turns from a whose turn n takes state x to
\* step[<<n, x>>].
HasRun(S, a, L, step) ==
    \E g \in [0 .. L -> S] :
      g[0] = a /\ \A n \in 1 .. L : g[n] = step[<<n, g[n - 1]>>]

\* Every such loop has one, so a function that is defined by recursion over
\* 0 .. L is what its definition says.
LEMMA LoopRuns ==
    ASSUME NEW S, NEW a \in S, NEW L \in Nat, NEW step \in [(1 .. L) \X S -> S]
    PROVE  HasRun(S, a, L, step)
<1> DEFINE Run(g, m) == g[0] = a /\ \A n \in 1 .. m : g[n] = step[<<n, g[n - 1]>>]
           Ok == {m \in 0 .. L : \E g \in [0 .. m -> S] : Run(g, m)}
<1>1. 0 \in Ok
  <2>1. [n \in 0 .. 0 |-> a] \in [0 .. 0 -> S] /\ Run([n \in 0 .. 0 |-> a], 0)
    OBVIOUS
  <2>2. \E g \in [0 .. 0 -> S] : Run(g, 0)
    <3> HIDE DEF Run
    <3> QED BY <2>1
  <2>3. QED BY <2>2
<1>2. ASSUME NEW m \in 1 .. L, m - 1 \in Ok
      PROVE  m \in Ok
  <2>1. PICK g \in [0 .. m - 1 -> S] : Run(g, m - 1)
    BY <1>2
  <2> DEFINE h == [n \in 0 .. m |-> IF n = m THEN step[<<m, g[m - 1]>>] ELSE g[n]]
  <2>2. g[m - 1] \in S /\ step[<<m, g[m - 1]>>] \in S
    OBVIOUS
  <2>3. h \in [0 .. m -> S]
    BY <2>2
  <2>4. ASSUME NEW n \in 1 .. m
        PROVE  h[n] = step[<<n, h[n - 1]>>]
    <3>1. n - 1 \in 0 .. m /\ n - 1 # m /\ h[n - 1] = g[n - 1]
      OBVIOUS
    <3>2. CASE n = m
      BY <3>1, <3>2
    <3>3. CASE n # m
      <4>1. n \in 1 .. m - 1
        BY <3>3
      <4>2. QED BY <4>1, <3>1, <3>3, <2>1
    <3>4. QED BY <3>2, <3>3
  <2>5. h[0] = a
    BY <2>1
  <2>6. Run(h, m)
    BY <2>4, <2>5
  <2>7. \E f \in [0 .. m -> S] : Run(f, m)
    <3> HIDE DEF Run, h
    <3> QED BY <2>3, <2>6
  <2>8. QED BY <2>7
<1>3. L \in Ok
  <2> HIDE DEF Ok
  <2> QED BY <1>1, <1>2, UpTo
<1>4. PICK g \in [0 .. L -> S] : Run(g, L)
  BY <1>3
<1>5. QED BY <1>4 DEF HasRun

-----------------------------------------------------------------------------
(* Least and greatest elements *)

LEMMA MinIs ==
    ASSUME NEW S \in SUBSET Nat, S # {}
    PROVE  Min(S) \in S /\ \A x \in S : Min(S) <= x
BY LeastExists DEF Min

LEMMA MinIn ==
    ASSUME NEW S \in SUBSET Nat, S # {}
    PROVE  Min(S) \in S
BY MinIs

LEMMA MaxIs ==
    ASSUME NEW L \in Nat, NEW S \in SUBSET (0 .. L), S # {}
    PROVE  Max(S) \in S /\ \A y \in S : y <= Max(S)
<1> DEFINE T == {L - x : x \in S}
<1>1. T \in SUBSET Nat /\ T # {}
  <2>1. \A x \in S : x \in Nat /\ x <= L
    OBVIOUS
  <2>2. \A x \in S : L - x \in Nat
    BY <2>1
  <2>3. T \subseteq Nat
    BY <2>2
  <2>4. PICK x : x \in S
    OBVIOUS
  <2>5. L - x \in T
    BY <2>4, Zenon
  <2>6. QED BY <2>3, <2>5
<1>2. PICK m \in T : \A y \in T : m <= y
  <2> HIDE DEF T
  <2> QED BY <1>1, LeastExists
<1>3. PICK x \in S : m = L - x
  OBVIOUS
<1>4. ASSUME NEW y \in S PROVE x >= y
  <2>1. L - y \in T
    OBVIOUS
  <2>2. L - x <= L - y /\ x \in 0 .. L /\ y \in 0 .. L
    BY <1>2, <1>3, <2>1
  <2>3. QED BY <2>2
<1>5. QED BY <1>4 DEF Max

LEMMA MaxIn ==
    ASSUME NEW L \in Nat, NEW S \in SUBSET (0 .. L), S # {}
    PROVE  Max(S) \in S
BY MaxIs

LEMMA MinMaxOfTwo ==
    ASSUME NEW a \in Int, NEW b \in Int
    PROVE  /\ Min({a, b}) = IF a <= b THEN a ELSE b
           /\ Max({a, b}) = IF a >= b THEN a ELSE b
<1>1. CASE a <= b
  <2>1. a \in {a, b} /\ (\A y \in {a, b} : a <= y) /\ \A x \in {a, b} : (\A y \in {a, b} : x <= y) => x = a
    BY <1>1
  <2>2. Min({a, b}) = a
    BY <2>1 DEF Min
  <2>3. b \in {a, b} /\ (\A y \in {a, b} : b >= y) /\ \A x \in {a, b} : (\A y \in {a, b} : x >= y) => x = b
    BY <1>1
  <2>4. Max({a, b}) = b
    BY <2>3 DEF Max
  <2>5. QED BY <1>1, <2>2, <2>4
<1>2. CASE b < a
  <2>1. b \in {a, b} /\ (\A y \in {a, b} : b <= y) /\ \A x \in {a, b} : (\A y \in {a, b} : x <= y) => x = b
    BY <1>2
  <2>2. Min({a, b}) = b
    BY <2>1 DEF Min
  <2>3. a \in {a, b} /\ (\A y \in {a, b} : a >= y) /\ \A x \in {a, b} : (\A y \in {a, b} : x >= y) => x = a
    BY <1>2
  <2>4. Max({a, b}) = a
    BY <2>3 DEF Max
  <2>5. QED BY <1>2, <2>2, <2>4
<1>3. QED BY <1>1, <1>2

-----------------------------------------------------------------------------
(* Sequences that are flattened *)

\* f adds the parts of ss one after the other.
Joins(S, ss, f) ==
    /\ f \in [0 .. Len(ss) -> Seq(S)] /\ f[0] = << >>
    /\ \A i \in 1 .. Len(ss) : f[i] = f[i - 1] \o ss[i]

LEMMA JoinsExists ==
    ASSUME NEW S, NEW ss \in Seq(Seq(S))
    PROVE  \E f : Joins(S, ss, f)
<1>1. PICK L \in Nat : L = Len(ss)
  OBVIOUS
<1> DEFINE Q == Seq(S)
           step == [x \in (1 .. L) \X Q |-> x[2] \o ss[x[1]]]
<1>2. \A i \in 1 .. L, s \in Q : s \o ss[i] \in Q
  <2> SUFFICES ASSUME NEW i \in 1 .. L, NEW s \in Q PROVE s \o ss[i] \in Q
    OBVIOUS
  <2>1. ss[i] \in Q
    BY <1>1
  <2>2. QED BY <2>1
<1>3. step \in [(1 .. L) \X Q -> Q]
  <2> HIDE DEF Q
  <2> QED BY <1>2
<1>4. << >> \in Q
  OBVIOUS
<1>5. HasRun(Q, << >>, L, step)
  <2> HIDE DEF step, Q
  <2> QED BY <1>3, <1>4, LoopRuns
<1> HIDE DEF Q
<1>6. PICK f \in [0 .. L -> Q] : f[0] = << >> /\ \A i \in 1 .. L : f[i] = step[<<i, f[i - 1]>>]
  <2> HIDE DEF step
  <2> QED BY <1>5 DEF HasRun
<1>7. ASSUME NEW i \in 1 .. L PROVE f[i] = f[i - 1] \o ss[i]
  <2>1. f[i - 1] \in Q
    OBVIOUS
  <2>2. step[<<i, f[i - 1]>>] = f[i - 1] \o ss[i]
    BY <2>1
  <2>3. QED BY <1>6, <2>2
<1>8. QED BY <1>1, <1>6, <1>7 DEF Joins, Q

\* FlattenSeq is where that ends.
LEMMA FlattenIs ==
    ASSUME NEW S, NEW ss \in Seq(Seq(S)), NEW f, Joins(S, ss, f)
    PROVE  FlattenSeq(ss) = f[Len(ss)] /\ FlattenSeq(ss) \in Seq(S)
<1>1. PICK L \in Nat : L = Len(ss)
  OBVIOUS
<1>2. f[L] \in Seq(S)
  BY <1>1 DEF Joins
<1>3. CASE L = 0
  <2>1. ss = << >>
    BY <1>1, <1>3, EmptySeq
  <2>2. FlattenSeq(ss) = ss
    BY <1>1, <1>3 DEF FlattenSeq
  <2>3. QED BY <1>1, <1>2, <1>3, <2>1, <2>2 DEF Joins
<1>4. CASE L > 0
  <2> DEFINE From(g) == [i \in 1 .. L |-> IF i = 1 THEN ss[i] ELSE g[i - 1] \o ss[i]]
             flat == CHOOSE g : g = From(g)
             h == [i \in 1 .. L |-> f[i]]
  <2>1. FlattenSeq(ss) = flat[L]
    BY <1>1, <1>4 DEF FlattenSeq
  <2>2. \A i \in 1 .. L : f[i] = IF i = 1 THEN ss[i] ELSE f[i - 1] \o ss[i]
    <3> SUFFICES ASSUME NEW i \in 1 .. L PROVE f[i] = IF i = 1 THEN ss[i] ELSE f[i - 1] \o ss[i]
      OBVIOUS
    <3>1. f[i] = f[i - 1] \o ss[i] /\ f[0] = << >>
      BY <1>1 DEF Joins
    <3>2. ss[i] \in Seq(S)
      BY <1>1
    <3>3. << >> \o ss[i] = ss[i]
      BY <3>2, ConcatEmptySeq
    <3>4. CASE i = 1
      <4>1. f[i - 1] = << >>
        BY <3>1, <3>4
      <4>2. QED BY <3>1, <3>3, <3>4, <4>1
    <3>5. QED BY <3>1, <3>4
  <2>3. h = From(h)
    <3>1. \A i \in 1 .. L : From(h)[i] = f[i]
      BY <2>2
    <3>2. QED BY <3>1
  <2>4. flat = From(flat)
    <3> HIDE DEF From, h
    <3> QED BY <2>3
  <2>5. \A i \in 1 .. L : flat[i] = IF i = 1 THEN ss[i] ELSE flat[i - 1] \o ss[i]
    <3>1. \A g : \A i \in 1 .. L : From(g)[i] = IF i = 1 THEN ss[i] ELSE g[i - 1] \o ss[i]
      OBVIOUS
    <3> HIDE DEF From, flat
    <3>2. QED BY <2>4, <3>1
  <2> HIDE DEF flat
  <2> DEFINE Ok == {i \in 0 .. L : i = 0 \/ flat[i] = f[i]}
  <2>6. 0 \in Ok
    OBVIOUS
  <2>7. ASSUME NEW n \in 1 .. L, n - 1 \in Ok PROVE n \in Ok
    BY <2>2, <2>5, <2>7
  <2>8. \A n \in 0 .. L : n \in Ok
    <3> HIDE DEF Ok
    <3> QED BY <2>6, <2>7, UpTo
  <2>9. flat[L] = f[L]
    BY <1>4, <2>8
  <2>10. QED BY <1>1, <1>2, <2>1, <2>9
<1>5. QED BY <1>3, <1>4

LEMMA FlattenEmpty == FlattenSeq(<< >>) = << >>
BY DEF FlattenSeq

LEMMA FlattenAppend ==
    ASSUME NEW S, NEW ss \in Seq(Seq(S)), NEW s \in Seq(S)
    PROVE  FlattenSeq(Append(ss, s)) = FlattenSeq(ss) \o s
<1>1. PICK L \in Nat : L = Len(ss)
  OBVIOUS
<1>2. Append(ss, s) \in Seq(Seq(S)) /\ Len(Append(ss, s)) = L + 1 /\ Append(ss, s)[L + 1] = s
      /\ \A i \in 1 .. L : Append(ss, s)[i] = ss[i]
  BY <1>1
<1>3. PICK f : Joins(S, Append(ss, s), f)
  BY <1>2, JoinsExists
<1> DEFINE g == [i \in 0 .. L |-> f[i]]
<1>4. /\ f \in [0 .. L + 1 -> Seq(S)] /\ f[0] = << >> /\ f[L + 1] = f[L] \o s
      /\ \A i \in 1 .. L : f[i] = f[i - 1] \o ss[i]
  <2> DEFINE a == Append(ss, s)
  <2>1. /\ f \in [0 .. L + 1 -> Seq(S)] /\ f[0] = << >>
        /\ \A i \in 1 .. L + 1 : f[i] = f[i - 1] \o a[i]
    BY <1>2, <1>3 DEF Joins
  <2>2. a[L + 1] = s /\ \A i \in 1 .. L : a[i] = ss[i]
    BY <1>2
  <2> HIDE DEF a
  <2>3. L + 1 \in 1 .. L + 1 /\ (L + 1) - 1 = L /\ \A i \in 1 .. L : i \in 1 .. L + 1
    OBVIOUS
  <2>4. f[L + 1] = f[L] \o s
    BY <2>1, <2>2, <2>3
  <2>5. QED BY <2>1, <2>2, <2>3, <2>4
<1>5. g \in [0 .. L -> Seq(S)] /\ g[0] = << >> /\ g[L] = f[L]
  BY <1>4
<1>6. ASSUME NEW i \in 1 .. L PROVE g[i] = g[i - 1] \o ss[i]
  <2>1. i \in 0 .. L /\ i - 1 \in 0 .. L
    OBVIOUS
  <2>2. g[i] = f[i] /\ g[i - 1] = f[i - 1]
    BY <2>1
  <2>3. QED BY <1>4, <2>2
<1>7. Joins(S, ss, g)
  <2> HIDE DEF g
  <2> QED BY <1>1, <1>5, <1>6 DEF Joins
<1>8. FlattenSeq(ss) = f[L]
  <2> HIDE DEF g
  <2> QED BY <1>1, <1>5, <1>7, FlattenIs
<1>9. FlattenSeq(Append(ss, s)) = f[L + 1]
  BY <1>2, <1>3, FlattenIs
<1>10. QED BY <1>4, <1>8, <1>9

LEMMA FlattenType ==
    ASSUME NEW S, NEW ss \in Seq(Seq(S))
    PROVE  FlattenSeq(ss) \in Seq(S)
BY JoinsExists, FlattenIs

LEMMA FlattenOne ==
    ASSUME NEW S, NEW s \in Seq(S)
    PROVE  FlattenSeq(<<s>>) = s
<1>1. << >> \in Seq(Seq(S)) /\ Append(<< >>, s) = <<s>>
  OBVIOUS
<1>2. FlattenSeq(Append(<< >>, s)) = FlattenSeq(<< >>) \o s
  BY <1>1, FlattenAppend
<1>3. << >> \o s = s
  BY ConcatEmptySeq
<1>4. QED BY <1>1, <1>2, <1>3, FlattenEmpty

LEMMA FlattenConcat ==
    ASSUME NEW S, NEW ss \in Seq(Seq(S)), NEW tt \in Seq(Seq(S))
    PROVE  FlattenSeq(ss \o tt) = FlattenSeq(ss) \o FlattenSeq(tt)
<1>1. PICK L \in Nat : L = Len(tt)
  OBVIOUS
<1> DEFINE T == Seq(S)
           up(n) == SubSeq(tt, 1, n)
           Ok == {n \in 0 .. L : FlattenSeq(ss \o up(n)) = FlattenSeq(ss) \o FlattenSeq(up(n))}
<1>2. FlattenSeq(ss) \in Seq(S)
  BY FlattenType
<1>3. 0 \in Ok
  <2>1. up(0) = << >> /\ ss \o << >> = ss /\ FlattenSeq(ss) \o << >> = FlattenSeq(ss)
    <3>1. up(0) = << >>
      BY SubSeqEmpty
    <3>2. QED BY <1>2, <3>1, ConcatEmptySeq
  <2> HIDE DEF up
  <2>2. FlattenSeq(ss \o up(0)) = FlattenSeq(ss) \o FlattenSeq(up(0))
    BY <2>1, FlattenEmpty, Zenon
  <2>3. QED BY <2>2
<1>4. ASSUME NEW n \in 1 .. L, n - 1 \in Ok PROVE n \in Ok
  <2>1. /\ tt[n] \in T /\ up(n - 1) \in Seq(T)
        /\ up(n) = Append(up(n - 1), tt[n])
    <3>1. tt[n] \in T /\ n \in 1 .. Len(tt)
      BY <1>1
    <3>2. up(n - 1) \in Seq(T)
      BY <1>1
    <3>3. up(n) = up(n - 1) \o <<tt[n]>>
      BY <1>1, SubSeqRecursiveSecond
    <3>4. QED BY <3>1, <3>2, <3>3, AppendIsConcat
  <2> DEFINE u == up(n - 1)
  <2>2. FlattenSeq(ss \o u) = FlattenSeq(ss) \o FlattenSeq(u)
    BY <1>4
  <2>3. u \in Seq(T) /\ up(n) = Append(u, tt[n])
    BY <2>1
  <2> HIDE DEF u, up
  <2>4. ss \o Append(u, tt[n]) = Append(ss \o u, tt[n]) /\ ss \o u \in Seq(T)
    <3>1. Append(u, tt[n]) = u \o <<tt[n]>> /\ <<tt[n]>> \in Seq(T)
      BY <2>1, <2>3, AppendIsConcat
    <3>2. ss \o (u \o <<tt[n]>>) = (ss \o u) \o <<tt[n]>>
      BY <2>3, <3>1, ConcatAssociative
    <3>3. ss \o u \in Seq(T)
      BY <2>3
    <3>4. Append(ss \o u, tt[n]) = (ss \o u) \o <<tt[n]>>
      BY <2>1, <3>3, AppendIsConcat
    <3>5. QED BY <3>1, <3>2, <3>3, <3>4
  <2>5. FlattenSeq(ss \o up(n)) = FlattenSeq(ss \o u) \o tt[n]
    BY <2>1, <2>3, <2>4, FlattenAppend
  <2>6. FlattenSeq(up(n)) = FlattenSeq(u) \o tt[n]
    BY <2>1, <2>3, FlattenAppend
  <2>7. FlattenSeq(u) \in Seq(S)
    BY <2>3, FlattenType
  <2>8. tt[n] \in Seq(S)
    BY <2>1
  <2>9. (FlattenSeq(ss) \o FlattenSeq(u)) \o tt[n] = FlattenSeq(ss) \o (FlattenSeq(u) \o tt[n])
    <3>1. PICK a \in Seq(S), b \in Seq(S), c \in Seq(S) : a = FlattenSeq(ss) /\ b = FlattenSeq(u) /\ c = tt[n]
      BY <1>2, <2>7, <2>8
    <3>2. (a \o b) \o c = a \o (b \o c)
      BY ConcatAssociative
    <3>3. QED BY <3>1, <3>2
  <2>10. FlattenSeq(ss \o up(n)) = FlattenSeq(ss) \o FlattenSeq(up(n))
    BY <2>2, <2>5, <2>6, <2>9, Zenon
  <2>11. QED BY <2>10
<1>5. L \in Ok
  <2> HIDE DEF Ok
  <2>1. \A n \in 0 .. L : n \in Ok
    BY <1>3, <1>4, UpTo
  <2>2. QED BY <2>1
<1>6. up(L) = tt
  BY <1>1, SubSeqFull
<1>7. QED
  <2> HIDE DEF up
  <2> QED BY <1>5, <1>6

-----------------------------------------------------------------------------
(* Cutting and joining sequences *)

\* s and what follows it can be cut out again.
LEMMA ConcatCut ==
    ASSUME NEW S, NEW s \in Seq(S), NEW t \in Seq(S)
    PROVE  /\ SubSeq(s \o t, 1, Len(s)) = s
           /\ SubSeq(s \o t, Len(s) + 1, Len(s \o t)) = t
<1>1. PICK a \in Nat, b \in Nat : a = Len(s) /\ b = Len(t)
  OBVIOUS
<1> DEFINE u == s \o t
<1>2. /\ u \in Seq(S) /\ Len(u) = a + b
      /\ \A i \in 1 .. a + b : u[i] = IF i <= a THEN s[i] ELSE t[i - a]
  BY <1>1, ConcatProperties
<1> HIDE DEF u
<1>3. \A i \in 1 .. a + b : u[i] \in S
  BY <1>2, ElementOfSeq
<1>4. SubSeq(u, 1, a) = s
  <2> DEFINE v == SubSeq(u, 1, a)
  <2>1. v \in Seq(S) /\ Len(v) = a /\ \A i \in 1 .. a : v[i] = u[i]
    <3>1. \A i \in 1 .. a : u[i] \in S
      BY <1>3
    <3>2. v \in Seq(S) /\ Len(v) = (IF 1 <= a THEN a - 1 + 1 ELSE 0) /\ \A i \in 1 .. a - 1 + 1 : v[i] = u[1 + i - 1]
      BY <3>1, SubSeqProperties
    <3> HIDE DEF v
    <3>3. QED BY <3>2
  <2> HIDE DEF v
  <2>2. ASSUME NEW i \in 1 .. a PROVE v[i] = s[i]
    <3>1. i \in 1 .. a + b /\ i <= a
      OBVIOUS
    <3>2. QED BY <1>2, <2>1, <3>1
  <2>3. v = s
    BY <1>1, <2>1, <2>2, SeqEqual
  <2>4. QED BY <2>3 DEF v
<1>5. SubSeq(u, a + 1, a + b) = t
  <2> DEFINE v == SubSeq(u, a + 1, a + b)
  <2>1. v \in Seq(S) /\ Len(v) = b /\ \A i \in 1 .. b : v[i] = u[a + i]
    <3>1. \A i \in a + 1 .. a + b : u[i] \in S
      BY <1>3
    <3>2. /\ v \in Seq(S) /\ Len(v) = (IF a + 1 <= a + b THEN (a + b) - (a + 1) + 1 ELSE 0)
          /\ \A i \in 1 .. (a + b) - (a + 1) + 1 : v[i] = u[(a + 1) + i - 1]
      BY <3>1, SubSeqProperties
    <3> HIDE DEF v
    <3>3. QED BY <3>2
  <2> HIDE DEF v
  <2>2. ASSUME NEW i \in 1 .. b PROVE v[i] = t[i]
    <3>1. a + i \in 1 .. a + b /\ ~(a + i <= a) /\ (a + i) - a = i
      OBVIOUS
    <3>2. QED BY <1>2, <2>1, <3>1
  <2>3. v = t
    BY <1>1, <2>1, <2>2, SeqEqual
  <2>4. QED BY <2>3 DEF v
<1>6. QED BY <1>1, <1>2, <1>4, <1>5 DEF u

Inserted(s, t, e) == InsertAt(s \o t, Len(s) + 1, e) = (s \o <<e>>) \o t

LEMMA InsertInto ==
    ASSUME NEW S, NEW s \in Seq(S), NEW t \in Seq(S), NEW e \in S
    PROVE  Inserted(s, t, e)
<1> DEFINE u == s \o t
<1>1. SubSeq(u, 1, Len(s)) = s /\ SubSeq(u, Len(s) + 1, Len(u)) = t
  BY ConcatCut
<1> HIDE DEF u
<1>2. (Len(s) + 1) - 1 = Len(s)
  OBVIOUS
<1>3. InsertAt(u, Len(s) + 1, e) = (SubSeq(u, 1, (Len(s) + 1) - 1) \o <<e>>) \o SubSeq(u, Len(s) + 1, Len(u))
  BY DEF InsertAt
<1>4. InsertAt(u, Len(s) + 1, e) = (s \o <<e>>) \o t
  BY <1>1, <1>2, <1>3, Zenon
<1>5. QED BY <1>4, Zenon DEF u, Inserted

Removed(s, e, t) == RemoveAt((s \o <<e>>) \o t, Len(s) + 1) = s \o t

LEMMA RemoveFrom ==
    ASSUME NEW S, NEW s \in Seq(S), NEW t \in Seq(S), NEW e \in S
    PROVE  Removed(s, e, t)
<1> DEFINE o == <<e>>
           w == s \o o
           x == o \o t
           u == w \o t
<1>1. o \in Seq(S) /\ Len(o) = 1
  OBVIOUS
<1> HIDE DEF o
<1>2. w \in Seq(S) /\ Len(w) = Len(s) + 1 /\ x \in Seq(S)
  <2>1. w \in Seq(S) /\ Len(w) = Len(s) + Len(o)
    BY <1>1, ConcatProperties
  <2>2. x \in Seq(S)
    BY <1>1, ConcatProperties
  <2> HIDE DEF w, x
  <2>3. QED BY <1>1, <2>1, <2>2
<1>3. u = s \o x
  BY <1>1, ConcatAssociative
<1>4. SubSeq(s \o x, 1, Len(s)) = s
  BY <1>2, ConcatCut
<1> HIDE DEF w, x
<1>5. SubSeq(w \o t, Len(w) + 1, Len(w \o t)) = t
  BY <1>2, ConcatCut
<1>6. (Len(s) + 1) - 1 = Len(s) /\ (Len(s) + 1) + 1 = Len(w) + 1
  BY <1>2
<1>7. RemoveAt(u, Len(s) + 1) = SubSeq(u, 1, (Len(s) + 1) - 1) \o SubSeq(u, (Len(s) + 1) + 1, Len(u))
  BY DEF RemoveAt
<1>8. RemoveAt(u, Len(s) + 1) = s \o t
  BY <1>3, <1>4, <1>5, <1>6, <1>7, Zenon
<1>9. QED BY <1>8, Zenon DEF u, w, o, Removed

LEMMA PairIsConcat ==
    ASSUME NEW S, NEW p \in S, NEW q \in S
    PROVE  <<p, q>> = <<p>> \o <<q>>
<1> DEFINE w == <<p>> \o <<q>>
           z == <<p, q>>
<1>1. w \in Seq(S) /\ Len(w) = 2 /\ w[1] = p /\ w[2] = q
  OBVIOUS
<1>2. z \in Seq(S) /\ Len(z) = 2 /\ z[1] = p /\ z[2] = q
  OBVIOUS
<1> HIDE DEF w, z
<1>3. \A i \in 1 .. 2 : w[i] = z[i]
  BY <1>1, <1>2
<1>4. w = z
  BY <1>1, <1>2, <1>3, SeqEqual
<1>5. QED BY <1>4 DEF w, z

\* A sequence cut in two behind its n-th element.
LEMMA CutAt ==
    ASSUME NEW S, NEW s \in Seq(S), NEW n \in 0 .. Len(s)
    PROVE  /\ SubSeq(s, 1, n) \in Seq(S) /\ SubSeq(s, n + 1, Len(s)) \in Seq(S)
           /\ Len(SubSeq(s, 1, n)) = n /\ Len(SubSeq(s, n + 1, Len(s))) = Len(s) - n
           /\ SubSeq(s, 1, n) \o SubSeq(s, n + 1, Len(s)) = s
<1>1. PICK L \in Nat : L = Len(s)
  OBVIOUS
<1>2. SubSeq(s, 1, n) \in Seq(S) /\ SubSeq(s, n + 1, Len(s)) \in Seq(S)
  OBVIOUS
<1>3. Len(SubSeq(s, 1, n)) = n /\ Len(SubSeq(s, n + 1, Len(s))) = Len(s) - n
  OBVIOUS
<1>4. SubSeq(s, 1, n) \o SubSeq(s, n + 1, L) = SubSeq(s, 1, L)
  <2>1. 1 \in 1 .. L + 1 /\ n \in 1 - 1 .. L /\ L \in n .. L
    BY <1>1
  <2>2. QED BY <1>1, <2>1, ConcatAdjacentSubSeq
<1>5. SubSeq(s, 1, L) = s
  BY <1>1, SubSeqFull
<1>6. QED BY <1>1, <1>2, <1>3, <1>4, <1>5, Zenon

\* A sequence cut around its n-th element, which may be replaced.
CutAroundIs(S, s, n) ==
    /\ SubSeq(s, 1, n) \in Seq(S) /\ SubSeq(s, n + 2, Len(s)) \in Seq(S)
    /\ Len(SubSeq(s, 1, n)) = n /\ s[n + 1] \in S
    /\ s = (SubSeq(s, 1, n) \o <<s[n + 1]>>) \o SubSeq(s, n + 2, Len(s))
    /\ \A e \in S : [s EXCEPT ![n + 1] = e] = (SubSeq(s, 1, n) \o <<e>>) \o SubSeq(s, n + 2, Len(s))

LEMMA CutAround ==
    ASSUME NEW S, NEW s \in Seq(S), NEW n \in 0 .. Len(s) - 1
    PROVE  CutAroundIs(S, s, n)
<1>1. PICK L \in Nat : L = Len(s)
  OBVIOUS
<1> DEFINE a == SubSeq(s, 1, n)
           b == SubSeq(s, n + 2, L)
<1>2. /\ a \in Seq(S) /\ Len(a) = n /\ \A i \in 1 .. n : a[i] = s[i]
      /\ b \in Seq(S) /\ Len(b) = L - n - 1 /\ \A i \in 1 .. L - n - 1 : b[i] = s[n + 1 + i]
  BY <1>1
<1>3. s[n + 1] \in S
  BY <1>1
<1> HIDE DEF a, b
<1>4. ASSUME NEW e \in S
      PROVE  [s EXCEPT ![n + 1] = e] = (a \o <<e>>) \o b
  <2> DEFINE v == [s EXCEPT ![n + 1] = e]
             o == <<e>>
             w == a \o o
             u == w \o b
  <2>1. v \in Seq(S) /\ Len(v) = L /\ \A j \in 1 .. L : v[j] = IF j = n + 1 THEN e ELSE s[j]
    <3>1. n + 1 \in 1 .. Len(s)
      BY <1>1
    <3>2. QED BY <1>1, <3>1, ExceptSeq
  <2> HIDE DEF v
  <2>2. w \in Seq(S) /\ Len(w) = n + 1 /\ \A j \in 1 .. n + 1 : w[j] = IF j <= n THEN a[j] ELSE e
    <3>1. o \in Seq(S) /\ Len(o) = 1 /\ o[1] = e
      OBVIOUS
    <3> HIDE DEF o
    <3>2. /\ w \in Seq(S) /\ Len(w) = Len(a) + Len(o)
          /\ \A j \in 1 .. Len(a) + Len(o) : w[j] = IF j <= Len(a) THEN a[j] ELSE o[j - Len(a)]
      BY <1>2, <3>1, ConcatProperties
    <3> HIDE DEF w
    <3>3. /\ w \in Seq(S) /\ Len(w) = n + 1
          /\ \A j \in 1 .. n + 1 : w[j] = IF j <= n THEN a[j] ELSE o[j - n]
      BY <1>2, <3>1, <3>2
    <3>4. \A j \in 1 .. n + 1 : ~(j <= n) => j - n = 1
      OBVIOUS
    <3>5. QED BY <3>1, <3>3, <3>4
  <2> HIDE DEF w
  <2>3. u \in Seq(S) /\ Len(u) = L /\ \A j \in 1 .. L : u[j] = IF j <= n + 1 THEN w[j] ELSE b[j - (n + 1)]
    <3>1. Len(w) + Len(b) = L
      BY <1>1, <1>2, <2>2
    <3>2. QED BY <1>2, <2>2, <3>1, ConcatProperties
  <2> HIDE DEF u
  <2>4. ASSUME NEW j \in 1 .. L PROVE v[j] = u[j]
    <3>1. CASE j <= n
      <4>1. j \in 1 .. n /\ j \in 1 .. n + 1 /\ j # n + 1 /\ j <= n + 1
        BY <3>1
      <4>2. QED BY <1>2, <2>1, <2>2, <2>3, <3>1, <4>1
    <3>2. CASE j = n + 1
      <4>1. j \in 1 .. n + 1 /\ j <= n + 1 /\ ~(j <= n)
        BY <3>2
      <4>2. QED BY <2>1, <2>2, <2>3, <3>2, <4>1
    <3>3. CASE j > n + 1
      <4>1. ~(j <= n + 1) /\ j # n + 1 /\ j - (n + 1) \in 1 .. L - n - 1 /\ n + 1 + (j - (n + 1)) = j
        BY <3>3
      <4>2. u[j] = b[j - (n + 1)] /\ v[j] = s[j]
        BY <2>1, <2>3, <4>1
      <4>3. b[j - (n + 1)] = s[n + 1 + (j - (n + 1))]
        BY <1>2, <4>1
      <4>4. QED BY <4>1, <4>2, <4>3
    <3>4. QED BY <3>1, <3>2, <3>3
  <2>5. v = u
    BY <2>1, <2>3, <2>4, SeqEqual
  <2>6. QED BY <2>5, Zenon DEF u, v, w, o
<1>5. [s EXCEPT ![n + 1] = s[n + 1]] = s
  BY <1>1
<1>6. s = (a \o <<s[n + 1]>>) \o b
  BY <1>3, <1>4, <1>5, Zenon
<1>7. a = SubSeq(s, 1, n) /\ b = SubSeq(s, n + 2, Len(s))
  BY <1>1 DEF a, b
<1>8. QED BY <1>2, <1>3, <1>4, <1>6, <1>7, Zenon DEF CutAroundIs

Assoc(s, t, u) == (s \o t) \o u = s \o (t \o u)

LEMMA AssocHolds ==
    ASSUME NEW S, NEW s \in Seq(S), NEW t \in Seq(S), NEW u \in Seq(S)
    PROVE  Assoc(s, t, u)
BY ConcatAssociative DEF Assoc

-----------------------------------------------------------------------------
(* Functions whose recursion looks at all earlier values *)

\* A function that starts at a and whose value at n is what G makes of n and
\* the values before it.
HasCourse(S, a, L, G) ==
    \E f \in [0 .. L -> S] : f[0] = a /\ \A n \in 1 .. L : f[n] = G[<<n, f>>]

LEMMA CourseRuns ==
    ASSUME NEW S, NEW a \in S, NEW L \in Nat, NEW G \in [(1 .. L) \X [0 .. L -> S] -> S],
           \A n \in 1 .. L : \A r, s \in [0 .. L -> S] :
             (\A k \in 0 .. n - 1 : r[k] = s[k]) => G[<<n, r>>] = G[<<n, s>>]
    PROVE  HasCourse(S, a, L, G)
<1> DEFINE R == [0 .. L -> S]
           step == [x \in (1 .. L) \X R |-> [x[2] EXCEPT ![x[1]] = G[<<x[1], x[2]>>]]]
           z == [k \in 0 .. L |-> a]
<1>1. z \in R
  OBVIOUS
<1>2. \A n \in 1 .. L, r \in R : step[<<n, r>>] = [r EXCEPT ![n] = G[<<n, r>>]] /\ step[<<n, r>>] \in R
  OBVIOUS
<1>3. step \in [(1 .. L) \X R -> R]
  OBVIOUS
<1>4. PICK g \in [0 .. L -> R] : g[0] = z /\ \A n \in 1 .. L : g[n] = step[<<n, g[n - 1]>>]
  <2> HIDE DEF R, step, z
  <2>1. HasRun(R, z, L, step)
    BY <1>1, <1>3, LoopRuns
  <2>2. QED BY <2>1 DEF HasRun
<1> HIDE DEF step
<1>5. ASSUME NEW n \in 1 .. L
      PROVE  /\ g[n - 1] \in R /\ g[n] \in R /\ g[n][n] = G[<<n, g[n - 1]>>]
             /\ \A k \in 0 .. n - 1 : g[n][k] = g[n - 1][k]
  <2>1. g[n - 1] \in R /\ g[n] \in R /\ n \in 0 .. L
    OBVIOUS
  <2>2. g[n] = [g[n - 1] EXCEPT ![n] = G[<<n, g[n - 1]>>]]
    BY <1>2, <1>4, <2>1
  <2>3. QED BY <2>1, <2>2
<1> DEFINE Ok == {m \in 0 .. L : \A n \in 0 .. m : \A k \in 0 .. n : g[m][k] = g[n][k]}
<1>6. 0 \in Ok
  OBVIOUS
<1>7. ASSUME NEW m \in 1 .. L, m - 1 \in Ok PROVE m \in Ok
  <2>1. \A n \in 0 .. m - 1 : \A k \in 0 .. n : g[m - 1][k] = g[n][k]
    BY <1>7
  <2>2. ASSUME NEW n \in 0 .. m, NEW k \in 0 .. n PROVE g[m][k] = g[n][k]
    <3>1. CASE n = m
      BY <3>1
    <3>2. CASE n # m
      <4>1. n \in 0 .. m - 1 /\ k \in 0 .. m - 1
        BY <3>2
      <4>2. QED BY <1>5, <2>1, <4>1
    <3>3. QED BY <3>1, <3>2
  <2>3. m \in 0 .. L
    OBVIOUS
  <2>4. QED BY <2>2, <2>3
<1>8. \A m \in 0 .. L : m \in Ok
  <2> HIDE DEF Ok
  <2> QED BY <1>6, <1>7, UpTo
<1>9. \A n \in 0 .. L : \A k \in 0 .. n : g[L][k] = g[n][k]
  BY <1>8
<1> HIDE DEF Ok
<1>10. g[L] \in R /\ g[L][0] = a
  BY <1>4, <1>9
<1>11. ASSUME NEW n \in 1 .. L PROVE g[L][n] = G[<<n, g[L]>>]
  <2>1. g[L][n] = g[n][n] /\ n \in 0 .. L /\ n - 1 \in 0 .. L
    BY <1>9
  <2>2. \A k \in 0 .. n - 1 : g[n - 1][k] = g[L][k]
    BY <1>9, <2>1
  <2>3. g[n - 1] \in R /\ g[n][n] = G[<<n, g[n - 1]>>]
    BY <1>5
  <2>4. G[<<n, g[n - 1]>>] = G[<<n, g[L]>>]
    BY <1>10, <2>2, <2>3
  <2>5. QED BY <2>1, <2>3, <2>4
<1>12. QED BY <1>10, <1>11 DEF HasCourse

-----------------------------------------------------------------------------
(* Sequences that are written symbol by symbol *)

Spellings(code, s) == [k \in DOMAIN s |-> code[s[k]]]
Spell(code, s) == FlattenSeq(Spellings(code, s))

PartsAre(S, code, s) ==
    /\ Spellings(code, s) \in Seq(Seq(S)) /\ Len(Spellings(code, s)) = Len(s)
    /\ \A k \in 1 .. Len(s) : Spellings(code, s)[k] = code[s[k]]

LEMMA SpelledParts ==
    ASSUME NEW C, NEW S, NEW code \in [C -> Seq(S)], NEW s \in Seq(C)
    PROVE  PartsAre(S, code, s)
<1>1. PICK L \in Nat : L = Len(s) /\ DOMAIN s = 1 .. L
  OBVIOUS
<1> DEFINE w == [k \in 1 .. L |-> code[s[k]]]
           Q == Seq(S)
<1>2. \A k \in 1 .. L : code[s[k]] \in Q
  <2> SUFFICES ASSUME NEW k \in 1 .. L PROVE code[s[k]] \in Q
    OBVIOUS
  <2>1. s[k] \in C
    BY <1>1
  <2> HIDE DEF Q
  <2>2. QED BY <2>1 DEF Q
<1> HIDE DEF Q
<1>3. w \in [1 .. L -> Q] /\ \A k \in 1 .. L : w[k] = code[s[k]]
  BY <1>2
<1> HIDE DEF w
<1>4. w \in Seq(Q) /\ Len(w) = L
  BY <1>3, IsASeq, LenProperties
<1>5. Spellings(code, s) = w
  BY <1>1 DEF w, Spellings
<1>6. QED BY <1>1, <1>3, <1>4, <1>5 DEF Q, PartsAre

LEMMA SpellType ==
    ASSUME NEW C, NEW S, NEW code \in [C -> Seq(S)], NEW s \in Seq(C)
    PROVE  Spell(code, s) \in Seq(S)
<1>1. PartsAre(S, code, s)
  BY SpelledParts
<1>2. Spellings(code, s) \in Seq(Seq(S))
  BY <1>1 DEF PartsAre
<1>3. FlattenSeq(Spellings(code, s)) \in Seq(S)
  BY <1>2, FlattenType
<1>4. QED BY <1>3 DEF Spell

LEMMA SpellEmpty == \A code : Spell(code, << >>) = << >>
<1> SUFFICES ASSUME NEW code PROVE Spell(code, << >>) = << >>
  OBVIOUS
<1>1. Spellings(code, << >>) = << >>
  BY DEF Spellings
<1>2. QED BY <1>1, FlattenEmpty DEF Spell

LEMMA SpellOne ==
    ASSUME NEW C, NEW S, NEW code \in [C -> Seq(S)], NEW c \in C
    PROVE  Spell(code, <<c>>) = code[c]
<1> DEFINE o == <<c>>
           w == Spellings(code, o)
           Q == Seq(S)
<1>1. o \in Seq(C) /\ Len(o) = 1 /\ o[1] = c
  OBVIOUS
<1>2. PartsAre(S, code, o)
  <2> HIDE DEF o
  <2> QED BY <1>1, SpelledParts
<1>3. Spell(code, o) = FlattenSeq(w)
  BY DEF Spell
<1>4. code[c] \in Q
  OBVIOUS
<1>5. w \in Seq(Q) /\ Len(w) = Len(o) /\ \A k \in 1 .. Len(o) : w[k] = code[o[k]]
  BY <1>2, Zenon DEF PartsAre
<1> HIDE DEF w, Q, o
<1>6. w \in Seq(Q) /\ Len(w) = 1 /\ w[1] = code[c]
  BY <1>1, <1>5
<1>7. w = <<code[c]>>
  <2>1. <<code[c]>> \in Seq(Q) /\ Len(<<code[c]>>) = 1 /\ <<code[c]>>[1] = code[c]
    BY <1>4
  <2>2. QED BY <1>6, <2>1, SeqEqual
<1>8. FlattenSeq(<<code[c]>>) = code[c]
  BY <1>4, FlattenOne DEF Q
<1>9. QED BY <1>3, <1>7, <1>8 DEF o

SpellJoins(code, s, t) == Spell(code, s \o t) = Spell(code, s) \o Spell(code, t)

LEMMA SpellConcat ==
    ASSUME NEW C, NEW S, NEW code \in [C -> Seq(S)], NEW s \in Seq(C), NEW t \in Seq(C)
    PROVE  SpellJoins(code, s, t)
<1> DEFINE u == s \o t
           Q == Seq(S)
           ws == Spellings(code, s)
           wt == Spellings(code, t)
           wu == Spellings(code, u)
<1>1. PICK A \in Nat, B \in Nat : A = Len(s) /\ B = Len(t)
  OBVIOUS
<1>2. u \in Seq(C) /\ Len(u) = A + B /\ \A k \in 1 .. A + B : u[k] = IF k <= A THEN s[k] ELSE t[k - A]
  BY <1>1, ConcatProperties
<1> HIDE DEF u
<1>3. PartsAre(S, code, s) /\ PartsAre(S, code, t) /\ PartsAre(S, code, u)
  BY <1>2, SpelledParts
<1>4. /\ ws \in Seq(Q) /\ Len(ws) = Len(s) /\ \A k \in 1 .. Len(s) : ws[k] = code[s[k]]
      /\ wt \in Seq(Q) /\ Len(wt) = Len(t) /\ \A k \in 1 .. Len(t) : wt[k] = code[t[k]]
      /\ wu \in Seq(Q) /\ Len(wu) = Len(u) /\ \A k \in 1 .. Len(u) : wu[k] = code[u[k]]
  BY <1>3, Zenon DEF PartsAre
<1>5. Spell(code, s) = FlattenSeq(ws) /\ Spell(code, t) = FlattenSeq(wt) /\ Spell(code, u) = FlattenSeq(wu)
  BY DEF Spell
<1> HIDE DEF ws, wt, wu
<1>6. FlattenSeq(ws \o wt) = FlattenSeq(ws) \o FlattenSeq(wt)
  BY <1>4, FlattenConcat
<1> HIDE DEF Q
<1>7. /\ ws \in Seq(Q) /\ Len(ws) = A /\ \A k \in 1 .. A : ws[k] = code[s[k]]
      /\ wt \in Seq(Q) /\ Len(wt) = B /\ \A k \in 1 .. B : wt[k] = code[t[k]]
      /\ wu \in Seq(Q) /\ Len(wu) = A + B /\ \A k \in 1 .. A + B : wu[k] = code[u[k]]
  BY <1>1, <1>2, <1>4
<1>8. ws \o wt \in Seq(Q) /\ Len(ws \o wt) = A + B
      /\ \A k \in 1 .. A + B : (ws \o wt)[k] = IF k <= A THEN ws[k] ELSE wt[k - A]
  BY <1>7, ConcatProperties
<1>9. ASSUME NEW k \in 1 .. A + B PROVE wu[k] = (ws \o wt)[k]
  <2>1. CASE k <= A
    <3>1. k \in 1 .. A
      BY <2>1
    <3>2. u[k] = s[k] /\ (ws \o wt)[k] = ws[k]
      BY <1>2, <1>8, <2>1
    <3>3. ws[k] = code[s[k]] /\ wu[k] = code[u[k]]
      BY <1>7, <3>1
    <3>4. QED BY <3>2, <3>3, Zenon
  <2>2. CASE k > A
    <3>1. k - A \in 1 .. B /\ ~(k <= A)
      BY <2>2
    <3>2. u[k] = t[k - A] /\ (ws \o wt)[k] = wt[k - A]
      BY <1>2, <1>8, <3>1
    <3>3. wt[k - A] = code[t[k - A]] /\ wu[k] = code[u[k]]
      BY <1>7, <3>1
    <3>4. QED BY <3>2, <3>3, Zenon
  <2>3. k <= A \/ k > A
    OBVIOUS
  <2>4. QED BY <2>1, <2>2, <2>3, Zenon
<1>10. wu = ws \o wt
  BY <1>7, <1>8, <1>9, SeqEqual
<1>11. QED BY <1>5, <1>6, <1>10, Zenon DEF u, SpellJoins

\* What is written for the k-th symbol of t stands behind what is written for
\* the ones before it.
SpellCut(code, t, k) ==
    /\ Spell(code, t) = (Spell(code, SubSeq(t, 1, k - 1)) \o code[t[k]]) \o Spell(code, SubSeq(t, k + 1, Len(t)))
    /\ Spell(code, SubSeq(t, 1, k)) = Spell(code, SubSeq(t, 1, k - 1)) \o code[t[k]]

LEMMA SpellAt ==
    ASSUME NEW C, NEW S, NEW code \in [C -> Seq(S)], NEW t \in Seq(C), NEW k \in 1 .. Len(t)
    PROVE  SpellCut(code, t, k)
<1> DEFINE a == SubSeq(t, 1, k - 1)
           b == SubSeq(t, k + 1, Len(t))
           o == <<t[k]>>
           d == a \o o
<1>1. PICK L \in Nat : L = Len(t)
  OBVIOUS
<1>2. CutAroundIs(C, t, k - 1)
  BY <1>1, CutAround
<1>3. k - 1 + 1 = k /\ k - 1 + 2 = k + 1
  OBVIOUS
<1>4. a \in Seq(C) /\ b \in Seq(C) /\ t[k] \in C /\ t = d \o b
  BY <1>2, <1>3, Zenon DEF CutAroundIs
<1>5. SubSeq(t, 1, k) = d
  BY <1>1, SubSeqRecursiveSecond
<1>6. o \in Seq(C) /\ Spell(code, o) = code[t[k]]
  <2>1. o \in Seq(C)
    <3>1. \A c \in C : <<c>> \in Seq(C)
      OBVIOUS
    <3>2. t[k] \in C
      BY <1>4, Zenon
    <3>3. QED BY <3>1, <3>2, Zenon
  <2>2. Spell(code, <<t[k]>>) = code[t[k]]
    BY <1>4, SpellOne
  <2>3. QED BY <2>1, <2>2
<1>7. d \in Seq(C) /\ Spell(code, d) = Spell(code, a) \o Spell(code, o)
  <2> HIDE DEF a, o
  <2>1. d \in Seq(C)
    BY <1>4, <1>6, ConcatProperties
  <2>2. SpellJoins(code, a, o)
    BY <1>4, <1>6, SpellConcat
  <2>3. QED BY <2>1, <2>2, Zenon DEF SpellJoins
<1>8. Spell(code, d \o b) = Spell(code, d) \o Spell(code, b)
  <2> HIDE DEF a, b, d, o
  <2>1. d \in Seq(C) /\ b \in Seq(C)
    BY <1>4, <1>7
  <2>2. SpellJoins(code, d, b)
    BY <2>1, SpellConcat
  <2>3. QED BY <2>2, Zenon DEF SpellJoins
<1> HIDE DEF d, o
<1>9. Spell(code, d) = Spell(code, a) \o code[t[k]]
  BY <1>6, <1>7, Zenon
<1>10. QED BY <1>4, <1>5, <1>8, <1>9, Zenon DEF SpellCut

-----------------------------------------------------------------------------
(* Scanners: functions that take a part and go on at a later place *)

\* The value at i, of L places that are read, is part[i] and then the value
\* at next[i].
Scans(L, M, part, next, f) ==
    \A i \in 1 .. M : f[i] = IF i > L THEN << >> ELSE part[i] \o f[next[i]]
HasScan(S, L, M, part, next) == \E f \in [1 .. M -> Seq(S)] : Scans(L, M, part, next, f)

LEMMA ScanRuns ==
    ASSUME NEW S, NEW L \in Nat, NEW M \in Nat, L < M,
           NEW part \in [1 .. L -> Seq(S)], NEW next \in [1 .. L -> 1 .. M],
           \A i \in 1 .. L : i < next[i]
    PROVE  HasScan(S, L, M, part, next)
<1> DEFINE N == M - 1
           Q == Seq(S)
           R == [0 .. N -> Q]
           rest(n, r) == IF M - n > L THEN << >> ELSE part[M - n] \o r[M - next[M - n]]
           G == [x \in (1 .. N) \X R |-> rest(x[1], x[2])]
<1>1. N \in Nat /\ N + 1 = M
  OBVIOUS
<1>2. ASSUME NEW n \in 1 .. N, ~(M - n > L)
      PROVE  M - n \in 1 .. L /\ M - next[M - n] \in 0 .. n - 1 /\ M - next[M - n] \in 0 .. N
  <2>1. M - n \in 1 .. L
    BY <1>2
  <2>2. PICK y \in 1 .. M : y = next[M - n] /\ M - n < y
    BY <2>1
  <2>3. QED BY <2>1, <2>2
<1>3. ASSUME NEW n \in 1 .. N, NEW r \in R PROVE rest(n, r) \in Q
  <2>1. CASE M - n > L
    BY <2>1
  <2>2. CASE ~(M - n > L)
    <3>1. part[M - n] \in Q /\ r[M - next[M - n]] \in Q
      BY <1>2, <2>2
    <3>2. part[M - n] \o r[M - next[M - n]] \in Q
      BY <3>1, ConcatProperties
    <3>3. QED BY <2>2, <3>2
  <2>3. QED BY <2>1, <2>2
<1>4. ASSUME NEW n \in 1 .. N, NEW r \in R PROVE G[<<n, r>>] = rest(n, r)
  <2> HIDE DEF R, rest
  <2>1. <<n, r>> \in (1 .. N) \X R
    BY Zenon
  <2>2. G[<<n, r>>] = rest(<<n, r>>[1], <<n, r>>[2])
    BY <2>1, Zenon
  <2>3. <<n, r>>[1] = n /\ <<n, r>>[2] = r
    OBVIOUS
  <2> HIDE DEF G
  <2>4. QED BY <2>2, <2>3, Zenon
<1>5. G \in [(1 .. N) \X R -> Q]
  <2> HIDE DEF Q, R, rest
  <2>1. \A x \in (1 .. N) \X R : rest(x[1], x[2]) \in Q
    <3> SUFFICES ASSUME NEW x \in (1 .. N) \X R PROVE rest(x[1], x[2]) \in Q
      OBVIOUS
    <3>1. x[1] \in 1 .. N /\ x[2] \in R
      OBVIOUS
    <3>2. QED BY <1>3, <3>1
  <2>2. QED BY <2>1, Zenon
<1>6. ASSUME NEW n \in 1 .. N, NEW r \in R, NEW s \in R, \A k \in 0 .. n - 1 : r[k] = s[k]
      PROVE  G[<<n, r>>] = G[<<n, s>>]
  <2>1. G[<<n, r>>] = rest(n, r) /\ G[<<n, s>>] = rest(n, s)
    <3> HIDE DEF G, R, rest
    <3> QED BY <1>4
  <2>2. CASE M - n > L
    <3>1. rest(n, r) = << >> /\ rest(n, s) = << >>
      BY <2>2
    <3> HIDE DEF G, rest
    <3>2. QED BY <2>1, <3>1
  <2>3. CASE ~(M - n > L)
    <3>1. r[M - next[M - n]] = s[M - next[M - n]]
      BY <1>2, <1>6, <2>3
    <3>2. rest(n, r) = rest(n, s)
      BY <2>3, <3>1, Zenon
    <3> HIDE DEF G, rest
    <3>3. QED BY <2>1, <3>2
  <2>4. QED BY <2>2, <2>3
<1>7. PICK g \in R : g[0] = << >> /\ \A n \in 1 .. N : g[n] = G[<<n, g>>]
  <2>1. << >> \in Q
    OBVIOUS
  <2> HIDE DEF G, Q, N
  <2>2. HasCourse(Q, << >>, N, G)
    BY <1>1, <1>5, <1>6, <2>1, CourseRuns
  <2>3. QED BY <2>2, Zenon DEF HasCourse
<1>8. ASSUME NEW n \in 1 .. N PROVE g[n] = rest(n, g)
  <2> HIDE DEF G, R, rest, N
  <2> QED BY <1>4, <1>7
<1> HIDE DEF G
<1> DEFINE h == [i \in 1 .. M |-> g[M - i]]
<1>9. \A i \in 1 .. M : M - i \in 0 .. N /\ h[i] = g[M - i]
  OBVIOUS
<1>10. h \in [1 .. M -> Q]
  BY <1>9
<1> HIDE DEF h
<1>11. ASSUME NEW i \in 1 .. M
       PROVE  h[i] = IF i > L THEN << >> ELSE part[i] \o h[next[i]]
  <2>1. CASE i = M
    <3>1. h[i] = << >> /\ i > L
      BY <1>7, <1>9, <2>1
    <3>2. QED BY <3>1
  <2>2. CASE i # M
    <3>1. M - i \in 1 .. N /\ M - (M - i) = i
      BY <2>2
    <3>2. h[i] = rest(M - i, g)
      <4> HIDE DEF rest
      <4> QED BY <1>8, <1>9, <3>1
    <3>3. rest(M - i, g) = IF i > L THEN << >> ELSE part[i] \o g[M - next[i]]
      BY <3>1, Zenon
    <3> HIDE DEF rest
    <3>4. CASE i > L
      BY <3>2, <3>3, <3>4
    <3>5. CASE ~(i > L)
      <4>1. i \in 1 .. L /\ next[i] \in 1 .. M
        BY <3>5
      <4>2. h[next[i]] = g[M - next[i]]
        BY <1>9, <4>1
      <4>3. QED BY <3>2, <3>3, <3>5, <4>2, Zenon
    <3>6. QED BY <3>4, <3>5
  <2>3. QED BY <2>1, <2>2
<1>12. Scans(L, M, part, next, h)
  BY <1>11, Zenon DEF Scans
<1>13. QED BY <1>10, <1>12, Zenon DEF HasScan, Q

\* A scanner that finds the elements of x at the places at[0], at[1] and so on
\* reads x.
LEMMA ScanReads ==
    ASSUME NEW X, NEW x \in Seq(X), NEW f, NEW at, f[at[Len(x)]] = << >>,
           \A k \in 1 .. Len(x) : f[at[k - 1]] = <<x[k]>> \o f[at[k]]
    PROVE  f[at[0]] = x
<1> DEFINE post(k) == SubSeq(x, k + 1, Len(x))
<1>1. PICK L \in Nat : L = Len(x)
  OBVIOUS
<1>2. post(L) = << >> /\ post(0) = x
  <2>1. post(L) = << >>
    BY <1>1, SubSeqEmpty
  <2>2. post(0) = x
    BY <1>1, SubSeqFull
  <2>3. QED BY <2>1, <2>2
<1>3. ASSUME NEW j \in 1 .. L PROVE <<x[j]>> \o post(j) = post(j - 1)
  <2>1. post(j - 1) = SubSeq(x, j, L)
    <3>1. (j - 1) + 1 = j
      OBVIOUS
    <3>2. QED BY <1>1, <3>1, Zenon
  <2>2. SubSeq(x, j, L) = <<x[j]>> \o SubSeq(x, j + 1, L)
    BY <1>1, SubSeqRecursiveFirst
  <2>3. QED BY <1>1, <2>1, <2>2, Zenon
<1> HIDE DEF post
<1> DEFINE Ok == {k \in 0 .. L : f[at[L - k]] = post(L - k)}
<1>4. 0 \in Ok
  <2>1. L - 0 = L
    OBVIOUS
  <2>2. f[at[L]] = post(L)
    BY <1>1, <1>2, Zenon
  <2>3. QED BY <2>1, <2>2
<1>5. ASSUME NEW n \in 1 .. L, n - 1 \in Ok PROVE n \in Ok
  <2>1. PICK j \in 1 .. L : j = L - (n - 1) /\ L - n = j - 1
    OBVIOUS
  <2>2. f[at[j]] = post(j)
    BY <1>5, <2>1
  <2>3. f[at[j - 1]] = <<x[j]>> \o f[at[j]]
    BY <1>1
  <2>4. f[at[j - 1]] = post(j - 1)
    BY <1>3, <2>2, <2>3, Zenon
  <2>5. f[at[L - n]] = post(L - n)
    BY <2>1, <2>4, Zenon
  <2>6. n \in 0 .. L
    OBVIOUS
  <2>7. QED BY <2>5, <2>6
<1>6. \A k \in 0 .. L : k \in Ok
  <2> HIDE DEF Ok
  <2> QED BY <1>4, <1>5, UpTo
<1>7. L \in 0 .. L /\ L - L = 0
  OBVIOUS
<1>8. f[at[L - L]] = post(L - L)
  BY <1>6, <1>7
<1> HIDE DEF Ok
<1>9. QED BY <1>2, <1>7, <1>8, Zenon
=============================================================================
